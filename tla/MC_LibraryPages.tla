--------------------------- MODULE MC_LibraryPages ---------------------------
(***************************************************************************)
(* Instances of LibraryPages for TLC.                                      *)
(***************************************************************************)
EXTENDS LibraryPages

CONSTANTS o1, n1, n2, c1

MCOldContent == [a \in Old |-> c1]
=============================================================================
