--------------------------- MODULE ThumbnailBackfill ---------------------------
(***************************************************************************)
(* The command backfill-thumbnails beside the media service and its other  *)
(* clients. For each asset of a listing whose thumbnail looks unusable it  *)
(* calls Service.Thumbnail, or TrashThumbnail, as any request would; so it *)
(* occupies a slot of Procs, where it sends the request and takes the      *)
(* answer itself, and everything in between is MediaService's.             *)
(***************************************************************************)
EXTENDS MediaService

CONSTANT TypeFlags     \* the sets of types that -media-types may name

ASSUME CommandAssumption ==
    Null \notin Procs /\ TypeFlags \subseteq SUBSET MediaTypes \ {{}}

VARIABLE job     \* the command's variables, or NoJob

Phases == {"active", "trash", "ended"}

\* "todo" is the rest of the listing: asset -> the thumbnail's path at that time.
Job == [runner : Procs, phase : Phases, types : TypeFlags, trash : BOOLEAN,
        todo : UNION {[A -> {NoPath} \cup Days] : A \in SUBSET Ids},
        listed : SUBSET Ids, failed : BOOLEAN]
NoJob == [runner |-> Null, phase |-> "none"]

allVars == <<vars, job>>

-----------------------------------------------------------------------------

Selected(a, types) == MediaTypeOf[rows[a].content] \in types

\* Mutant: the columns of the two paths are swapped.
ListingOfPreviews(found) == [a \in found |-> rows[a].preview]

Listing(found) == [a \in found |-> rows[a].thumb]

\* A mere read: any byte will do, and so will the end of an empty file.
HasUsableThumbnail(a, path) == path \in Days /\ thumbnails[a][path] # "none"

Without(todo, a) == [b \in DOMAIN todo \ {a} |-> todo[b]]

\* The command starts in an idle slot, with its flags, and lists the active assets.
CommandStart(p) ==
    /\ job = NoJob /\ At(p, "idle") /\ {"thumbnail", "trashThumbnail"} \subseteq Kinds[p]
    /\ \E types \in TypeFlags, trash \in BOOLEAN :
          LET found == {a \in Ids : Active(a) /\ Selected(a, types)}
          IN job' = [runner |-> p, phase |-> "active", types |-> types, trash |-> trash,
                     todo |-> Listing(found), listed |-> found, failed |-> FALSE]
    /\ UNCHANGED vars

AtNext(p) == job.runner = p /\ job.phase # "ended" /\ At(p, "idle")

\* -include-trash: the trash comes next.
CommandListsTrash(p) ==
    /\ AtNext(p) /\ DOMAIN job.todo = {} /\ job.phase = "active" /\ job.trash
    /\ LET found == {a \in ListTrash : Selected(a, job.types)}
       IN job' = [job EXCEPT !.phase = "trash", !.todo = Listing(found),
                             !.listed = @ \cup found]
    /\ UNCHANGED vars

CommandSkips(p) ==
    /\ AtNext(p)
    /\ \E a \in DOMAIN job.todo :
          /\ HasUsableThumbnail(a, job.todo[a])
          /\ job' = [job EXCEPT !.todo = Without(@, a)]
    /\ UNCHANGED vars

\* Without a thumbnail that it can use the command sends a request as a client does.
CommandCalls(p) ==
    /\ AtNext(p)
    /\ \E a \in DOMAIN job.todo :
          /\ ~HasUsableThumbnail(a, job.todo[a])
          /\ LET local == [Idle EXCEPT !.target = a]
             IN \/ job.phase = "active" /\ Begin(p, "thumbnail", "thFind", local)
                \/ job.phase = "trash" /\ Begin(p, "trashThumbnail", "thTrashFind", local)
          /\ job' = [job EXCEPT !.todo = Without(@, a)]
    /\ UNCHANGED stored

\* Mutant: an asset whose thumbnail cannot be made does not count as failed.
CommandTakesUncounted(p) ==
    /\ job.runner = p /\ Respond(p)
    /\ job' = [job EXCEPT !.failed = @ \/ req[p].how = "notFound"]

CommandTakes(p) ==
    /\ job.runner = p /\ Respond(p)
    /\ job' = [job EXCEPT !.failed = @ \/ req[p].how # "served"]

\* log.Fatalf when any asset failed, a normal exit otherwise.
CommandEnds(p) ==
    /\ AtNext(p) /\ DOMAIN job.todo = {} /\ (job.phase = "trash" \/ ~job.trash)
    /\ job' = [job EXCEPT !.phase = "ended"]
    /\ UNCHANGED vars

\* The slot is free again: after the end, or when the command is stopped.
CommandGone(p) ==
    /\ job.runner = p /\ At(p, "idle")
    /\ job' = NoJob
    /\ UNCHANGED vars

CommandStep(p) ==
    \/ CommandListsTrash(p) \/ CommandSkips(p) \/ CommandCalls(p) \/ CommandTakes(p)
    \/ CommandEnds(p)

-----------------------------------------------------------------------------
(* The whole. *)

ServiceStep(p) == (UploadStep(p) \/ TrashStep(p) \/ DerivedStep(p)) /\ UNCHANGED job

\* The command dies with the request that it waits for.
ServiceFault(p) ==
    /\ FaultStep(p)
    /\ job' = IF job.runner = p /\ At(p, "idle")' THEN NoJob ELSE job

\* The other slots are used by clients.
ClientStarts(p) == job.runner # p /\ Start(p) /\ UNCHANGED job
ClientTakes(p) == job.runner # p /\ Respond(p) /\ UNCHANGED job

CommandInit == Init /\ job = NoJob

CommandNext ==
    \/ \E p \in Procs :
          \/ ClientStarts(p) \/ ClientTakes(p) \/ ServiceStep(p) \/ ServiceFault(p)
          \/ CommandStart(p) \/ CommandStep(p) \/ CommandGone(p)
    \/ Midnight /\ UNCHANGED job

CommandSpec == CommandInit /\ [][CommandNext]_allVars

-----------------------------------------------------------------------------
(* Properties. *)

\* Every variable keeps its type.
JobTypeOK == TypeOK /\ job \in Job \cup {NoJob}

\* When backfill-thumbnails exits normally and nothing failed, each asset that it
\* listed and that is still there has a recorded thumbnail, which is whole or which
\* a request is just writing: an empty one that the command took for usable
\* (cmd/backfill-thumbnails/main.go:155) is never left behind.
ThumbnailsComplete ==
    job.phase = "ended" /\ ~job.failed /\ faults = 0 =>
        \A a \in job.listed : Exists(a) =>
            /\ rows[a].thumb \in Days
            /\ \/ thumbnails[a][rows[a].thumb] = "whole"
               \/ \E p \in Procs : At(p, "thWrite") /\ req[p].target = a
=============================================================================
