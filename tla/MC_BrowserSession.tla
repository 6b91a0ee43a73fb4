-------------------------- MODULE MC_BrowserSession --------------------------
(***************************************************************************)
(* Instances of BrowserSession for TLC.                                    *)
(***************************************************************************)
EXTENDS BrowserSession, TLC

CONSTANTS x1, x2,       \* tabs
          t1, t2, t3,   \* tokens of the login form
          s1, s2        \* slots

\* Tabs are alike, tokens random, and slots name requests.
MCSymmetry == Permutations(Tabs) \cup Permutations(Tokens) \cup Permutations(Slots)
=============================================================================
