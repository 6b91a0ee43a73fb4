---------------------------- MODULE MediaLibrary ----------------------------
(***************************************************************************)
(* What the media service promises its users, without requests, statements *)
(* or file operations: a library of assets, each added once, moved to the  *)
(* trash and back any number of times, and purged from the trash only. The *)
(* original of an asset in the library can be read at every moment and     *)
(* never changes. Of the assets whose content is known by its hash, no two *)
(* with the same content are live.                                         *)
(***************************************************************************)
CONSTANTS Assets, Contents, Null, Old, OldContent

VARIABLES
    status,     \* asset -> "unborn", "live", "trashed" or "gone"
    original,   \* asset -> the content a reader of its file gets, or Null
    known       \* asset -> the content it is known by, or Null

libraryVars == <<status, original, known>>

TypeOK ==
    /\ status \in [Assets -> {"unborn", "live", "trashed", "gone"}]
    /\ original \in [Assets -> Contents \cup {Null}]
    /\ known \in [Assets -> Contents \cup {Null}]

Init ==
    /\ status = [a \in Assets |-> IF a \in Old THEN "live" ELSE "unborn"]
    /\ original = [a \in Assets |-> IF a \in Old THEN OldContent[a] ELSE Null]
    /\ known = [a \in Assets |-> Null]

NoLiveTwin(a, c) == \A b \in Assets \ {a} : status[b] = "live" => known[b] # c

Add(a, c) ==
    /\ status[a] = "unborn" /\ NoLiveTwin(a, c)
    /\ status' = [status EXCEPT ![a] = "live"]
    /\ original' = [original EXCEPT ![a] = c]
    /\ known' = [known EXCEPT ![a] = c]

\* An id drawn for an upload that came to nothing.
Abandon(a) ==
    /\ status[a] = "unborn"
    /\ status' = [status EXCEPT ![a] = "gone"]
    /\ UNCHANGED <<original, known>>

Learn(a) ==
    /\ status[a] \in {"live", "trashed"}
    /\ status[a] = "live" => NoLiveTwin(a, original[a])
    /\ known' = [known EXCEPT ![a] = original[a]]
    /\ UNCHANGED <<status, original>>

Trash(a) ==
    /\ status[a] = "live"
    /\ status' = [status EXCEPT ![a] = "trashed"]
    /\ UNCHANGED <<original, known>>

PutBack(a) ==
    /\ status[a] = "trashed"
    /\ known[a] # Null => NoLiveTwin(a, known[a])
    /\ status' = [status EXCEPT ![a] = "live"]
    /\ UNCHANGED <<original, known>>

Purge(a) ==
    /\ status[a] = "trashed"
    /\ status' = [status EXCEPT ![a] = "gone"]
    /\ original' = [original EXCEPT ![a] = Null]
    /\ known' = [known EXCEPT ![a] = Null]

Next ==
    \E a \in Assets :
        \/ \E c \in Contents : Add(a, c)
        \/ Abandon(a) \/ Learn(a) \/ Trash(a) \/ PutBack(a) \/ Purge(a)

Spec == Init /\ [][Next]_libraryVars
=============================================================================
