--------------------------- MODULE MC_UploadQueue ---------------------------
(***************************************************************************)
(* Instances of UploadQueue for TLC.                                       *)
(***************************************************************************)
EXTENDS UploadQueue

\* One file without a preview among images.
MCImages == Items \ {2}
=============================================================================
