--------------------------- MODULE MC_MediaService ---------------------------
(***************************************************************************)
(* Instances of MediaService for TLC: which contents there are, which      *)
(* legacy rows the history starts from, and which process serves what.     *)
(***************************************************************************)
EXTENDS MediaService, TLC

CONSTANTS l1, l2, u1, u2, u3,   \* asset ids
          p1, p2, p3,           \* processes
          c1, c2, c3            \* contents

\* c1 and c2 have the same size, c3 is no supported medium.
MCTypeOf == [c \in Contents |-> IF c = c3 THEN "other" ELSE "image"]
MCSizeOf == [c \in Contents |-> 1]

\* Legacy assets with contents of their own and files of their own ...
MCLegacyContent == [a \in Legacy |-> IF a = l1 THEN c1 ELSE c2]
MCLegacyPath == [a \in Legacy |-> a]

\* ... with the same content in two files, or in one file.
MCSameContent == [a \in Legacy |-> c1]
MCSharedPath == [a \in Legacy |-> l1]

KindsDedup == [p \in Procs |-> {"upload", "delete", "restore"}]
KindsTrash == [p \in Procs |-> {"delete", "restore", "purge", "empty", "download"}]
KindsDerived ==
    [p \in Procs |->
        CASE p = p1 -> {"thumbnail", "trashThumbnail"}
          [] p = p2 -> {"delete", "thumbnail", "backfill"}
          [] OTHER  -> {"purge"}]
KindsFaults ==
    [p \in Procs |-> IF p = p1 THEN {"upload", "thumbnail", "trashThumbnail", "preview",
                                     "backfill"}
                               ELSE {"delete", "restore", "purge", "empty"}]
KindsProgress ==
    [p \in Procs |-> IF p = p1 THEN {"upload", "backfill"} ELSE {"delete", "empty"}]
KindsPurgeRestore == [p \in Procs |-> {"delete", "restore", "purge"}]

\* Processes of one kind are interchangeable in runs that check safety only.
ProcSymmetry == Permutations(Procs)
=============================================================================
