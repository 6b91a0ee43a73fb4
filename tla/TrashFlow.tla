------------------------------ MODULE TrashFlow ------------------------------
(***************************************************************************)
(* Moving assets to the trash and back, and removing them for good:        *)
(* Service.Delete, Restore, DeletePermanently and EmptyTrash. Each reads   *)
(* the row first and changes it by a later statement with its own guard.   *)
(***************************************************************************)
EXTENDS MediaState

StartDelete(p) == StartOn(p, "delete", "delFind")
StartRestore(p) == StartOn(p, "restore", "resFind")
StartPurge(p) == StartOn(p, "purge", "purFind")

StartEmptyTrash(p) ==
    /\ Begin(p, "empty", "emptyList", Idle)
    /\ UNCHANGED stored

DeleteFind(p) ==
    /\ At(p, "delFind")
    /\ LET a == req[p].target
       IN \/ FindByID(a) # {} /\ Goto(p, "delMark", req[p])
          \/ FindByID(a) = {} /\ Answer(p, "notFound", a)
    /\ UNCHANGED stored

DeleteMark(p) ==
    /\ At(p, "delMark")
    /\ rows' = SoftDelete(req[p].target)
    /\ Answer(p, SoftDeleteOutcome(req[p].target), req[p].target)
    /\ UNCHANGED <<originals, thumbnails, previews, today, issued, faults>>

RestoreFind(p) ==
    /\ At(p, "resFind")
    /\ LET a == req[p].target
       IN \/ FindDeletedByID(a) # {} /\ Goto(p, "resMark", req[p])
          \/ FindDeletedByID(a) = {} /\ Answer(p, "notFound", a)
    /\ UNCHANGED stored

RestoreMark(p) ==
    /\ At(p, "resMark")
    /\ rows' = Restore(req[p].target)
    /\ Answer(p, RestoreOutcome(req[p].target), req[p].target)
    /\ UNCHANGED <<originals, thumbnails, previews, today, issued, faults>>

EmptyList(p) ==
    /\ At(p, "emptyList")
    /\ Goto(p, "purNext", [req[p] EXCEPT !.todo = ListTrash, !.listed = ListTrash])
    /\ UNCHANGED stored

\* EmptyTrash runs DeletePermanently on each listed asset; the order of the
\* list (deleted_at, created_at) is left open.
EmptyNext(p) ==
    /\ At(p, "purNext")
    /\ \/ \E a \in req[p].todo :
             Goto(p, "purFind", [req[p] EXCEPT !.target = a, !.todo = @ \ {a}])
       \/ req[p].todo = {} /\ Answer(p, "ok", Null)
    /\ UNCHANGED stored

\* Mutant: an asset that is not in the trash any more is skipped.
PurgeFindSkips(p) ==
    /\ At(p, "purFind")
    /\ LET a == req[p].target
       IN \/ /\ FindDeletedByID(a) # {}
             /\ Goto(p, "purCount", [req[p] EXCEPT !.asset = rows[a]])
          \/ /\ FindDeletedByID(a) = {} /\ req[p].op = "empty"
             /\ Goto(p, "purNext", [req[p] EXCEPT !.target = Null])
          \/ /\ FindDeletedByID(a) = {} /\ req[p].op = "purge"
             /\ Answer(p, "notFound", a)
    /\ UNCHANGED stored

PurgeFind(p) ==
    /\ At(p, "purFind")
    /\ LET a == req[p].target
       IN \/ /\ FindDeletedByID(a) # {}
             /\ Goto(p, "purCount", [req[p] EXCEPT !.asset = rows[a]])
          \/ FindDeletedByID(a) = {} /\ Answer(p, "notFound", a)
    /\ UNCHANGED stored

\* Mutant: the original is unlinked before the row is deleted.
PurgeCountUnlinks(p) ==
    /\ At(p, "purCount")
    /\ LET path == StoragePath(req[p].target)
       IN /\ originals' = IF CountByStoragePath(path) > 0 THEN originals
                          ELSE [originals EXCEPT ![path] = "none"]
          /\ Goto(p, "purRow", [req[p] EXCEPT !.refs = CountByStoragePath(path)])
    /\ UNCHANGED <<rows, thumbnails, previews, today, issued, faults>>

PurgeCount(p) ==
    /\ At(p, "purCount")
    /\ LET n == CountByStoragePath(StoragePath(req[p].target))
       IN Goto(p, "purRow", [req[p] EXCEPT !.refs = n])
    /\ UNCHANGED stored

\* Mutant: that no row was deleted goes unnoticed.
PurgeRowUnchecked(p) ==
    /\ At(p, "purRow")
    /\ rows' = Delete(req[p].target)
    /\ Goto(p, "purThumb", req[p])
    /\ UNCHANGED <<originals, thumbnails, previews, today, issued, faults>>

\* An error ends EmptyTrash too, with the rest of its list untouched.
PurgeRow(p) ==
    /\ At(p, "purRow")
    /\ rows' = Delete(req[p].target)
    /\ LET outcome == DeleteOutcome(req[p].target)
       IN \/ outcome = "ok" /\ Goto(p, "purThumb", req[p])
          \/ outcome # "ok" /\ Answer(p, outcome, req[p].target)
    /\ UNCHANGED <<originals, thumbnails, previews, today, issued, faults>>

\* The paths to unlink are those read by PurgeFind, before the row went.
PurgeThumb(p) ==
    /\ At(p, "purThumb")
    /\ thumbnails' = Unlinked(thumbnails, req[p].target, req[p].asset.thumb)
    /\ Goto(p, "purPreview", req[p])
    /\ UNCHANGED <<rows, originals, previews, today, issued, faults>>

PurgePreview(p) ==
    /\ At(p, "purPreview")
    /\ previews' = Unlinked(previews, req[p].target, req[p].asset.preview)
    /\ Goto(p, "purOriginal", req[p])
    /\ UNCHANGED <<rows, originals, thumbnails, today, issued, faults>>

PurgeOriginal(p) ==
    /\ At(p, "purOriginal")
    /\ originals' = IF req[p].refs > 0 THEN originals
                    ELSE [originals EXCEPT ![StoragePath(req[p].target)] = "none"]
    /\ \/ req[p].op = "purge" /\ Answer(p, "ok", req[p].target)
       \/ /\ req[p].op = "empty"
          /\ Goto(p, "purNext", [req[p] EXCEPT !.target = Null, !.asset = NoRow,
                                               !.refs = 0])
    /\ UNCHANGED <<rows, thumbnails, previews, today, issued, faults>>

TrashStep(p) ==
    \/ DeleteFind(p) \/ DeleteMark(p) \/ RestoreFind(p) \/ RestoreMark(p)
    \/ EmptyList(p) \/ EmptyNext(p)
    \/ PurgeFind(p) \/ PurgeCount(p) \/ PurgeRow(p)
    \/ PurgeThumb(p) \/ PurgePreview(p) \/ PurgeOriginal(p)
=============================================================================
