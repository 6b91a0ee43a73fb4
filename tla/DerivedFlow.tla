----------------------------- MODULE DerivedFlow -----------------------------
(***************************************************************************)
(* Reading assets, and the files derived from them: Service.Download,      *)
(* Preview, Thumbnail and TrashThumbnail (which generate and record a      *)
(* missing thumbnail), BackfillPreview and the command backfill-previews   *)
(* that runs it over every active row without a preview.                   *)
(***************************************************************************)
EXTENDS MediaState

StartDownload(p) == StartOn(p, "download", "dlFind")
StartPreview(p) == StartOn(p, "preview", "pvFind")
StartThumbnail(p) == StartOn(p, "thumbnail", "thFind")
StartTrashThumbnail(p) == StartOn(p, "trashThumbnail", "thTrashFind")

StartBackfill(p) ==
    /\ Begin(p, "backfill", "bfList", Idle)
    /\ UNCHANGED stored

\* The read that opens a handler: the row found, or "notFound".
FindThen(p, found, next) ==
    /\ LET a == req[p].target
       IN \/ found # {} /\ Goto(p, next, [req[p] EXCEPT !.asset = rows[a]])
          \/ found = {} /\ Answer(p, "notFound", a)
    /\ UNCHANGED stored

DownloadFind(p) == At(p, "dlFind") /\ FindThen(p, FindByID(req[p].target), "dlOpen")

DownloadOpen(p) ==
    /\ At(p, "dlOpen")
    /\ Answer(p, IF originals[StoragePath(req[p].target)] = "none"
                 THEN "fileMissing" ELSE "served", req[p].target)
    /\ UNCHANGED stored

PreviewFind(p) == At(p, "pvFind") /\ FindThen(p, FindByID(req[p].target), "pvOpen")

PreviewOpen(p) ==
    /\ At(p, "pvOpen")
    /\ LET a == req[p].target
           day == req[p].asset.preview
       IN Answer(p, IF day \in Days /\ previews[a][day] # "none"
                    THEN "served" ELSE "noPreview", a)
    /\ UNCHANGED stored

ThumbnailFind(p) ==
    \/ At(p, "thFind") /\ FindThen(p, FindByID(req[p].target), "thOpen")
    \/ At(p, "thTrashFind") /\ FindThen(p, FindDeletedByID(req[p].target), "thOpen")

\* A recorded thumbnail is served unless its file is missing or empty.
ThumbnailOpen(p) ==
    /\ At(p, "thOpen")
    /\ LET a == req[p].target
           day == req[p].asset.thumb
           usable == day \in Days /\ thumbnails[a][day] \notin {"none", "empty"}
       IN \/ usable /\ Answer(p, "served", a)
          \/ ~usable /\ Goto(p, "thGenerate", req[p])
    /\ UNCHANGED stored

ThumbnailGenerate(p) ==
    /\ At(p, "thGenerate")
    /\ LET a == req[p].target
           missing == originals[StoragePath(a)] = "none"
       IN \/ missing /\ Answer(p, "fileMissing", a)
          \/ ~missing /\ "failed" \in ThumbnailOutcomes /\ Answer(p, "noThumbnail", a)
          \/ ~missing /\ "whole" \in ThumbnailOutcomes /\ Goto(p, "thCreate", req[p])
    /\ UNCHANGED stored

ThumbnailCreate(p) ==
    /\ At(p, "thCreate")
    /\ thumbnails' = Created(thumbnails, req[p].target)
    /\ Goto(p, "thWrite", [req[p] EXCEPT !.asset.thumb = today])
    /\ UNCHANGED <<rows, originals, previews, today, issued, faults>>

ThumbnailWrite(p) ==
    /\ At(p, "thWrite")
    /\ thumbnails' = Written(thumbnails, req[p].target, req[p].asset.thumb, "whole")
    /\ Goto(p, "thRecord", req[p])
    /\ UNCHANGED <<rows, originals, previews, today, issued, faults>>

\* Mutant: the path is built anew when it is recorded, maybe after midnight.
ThumbnailRecordToday(p) ==
    /\ At(p, "thRecord")
    /\ rows' = UpdateThumbnailStoragePath(req[p].target, today)
    /\ Answer(p, "served", req[p].target)
    /\ UNCHANGED <<originals, thumbnails, previews, today, issued, faults>>

\* The outcome of the update is ignored: the bytes in memory are served.
ThumbnailRecord(p) ==
    /\ At(p, "thRecord")
    /\ rows' = UpdateThumbnailStoragePath(req[p].target, req[p].asset.thumb)
    /\ Answer(p, "served", req[p].target)
    /\ UNCHANGED <<originals, thumbnails, previews, today, issued, faults>>

BackfillList(p) ==
    /\ At(p, "bfList")
    /\ LET found == {a \in ListWithoutPreview : MediaTypeOf[rows[a].content] # "pdf"}
       IN Goto(p, "bfNext", [req[p] EXCEPT !.todo = found, !.listed = found])
    /\ UNCHANGED stored

\* Mutant: an asset stays on the list once it is done.
BackfillNextKeeps(p) ==
    /\ At(p, "bfNext")
    /\ \/ \E a \in req[p].todo : Goto(p, "bfFind", [req[p] EXCEPT !.target = a])
       \/ /\ req[p].todo = {}
          /\ Answer(p, IF req[p].failed THEN "failed" ELSE "ok", Null)
    /\ UNCHANGED stored

\* log.Fatalf when any asset failed, a normal exit otherwise.
BackfillNext(p) ==
    /\ At(p, "bfNext")
    /\ \/ \E a \in req[p].todo :
             Goto(p, "bfFind", [req[p] EXCEPT !.target = a, !.todo = @ \ {a}])
       \/ /\ req[p].todo = {}
          /\ Answer(p, IF req[p].failed THEN "failed" ELSE "ok", Null)
    /\ UNCHANGED stored

\* The loop goes on after an asset, counting it when it failed.
BackfillDone(p, failed) ==
    Goto(p, "bfNext", [req[p] EXCEPT !.target = Null, !.asset = NoRow,
                                     !.failed = @ \/ failed])

BackfillFind(p) ==
    /\ At(p, "bfFind")
    /\ LET a == req[p].target
       IN \/ /\ FindByID(a) # {}
             /\ Goto(p, "bfGenerate", [req[p] EXCEPT !.asset = rows[a]])
          \/ FindByID(a) = {} /\ BackfillDone(p, TRUE)
    /\ UNCHANGED stored

\* Mutant: an asset whose preview cannot be made does not count as failed.
BackfillGenerateUncounted(p) ==
    /\ At(p, "bfGenerate")
    /\ \/ /\ originals[StoragePath(req[p].target)] # "none"
          /\ Goto(p, "bfCreate", req[p])
       \/ BackfillDone(p, FALSE)
    /\ UNCHANGED stored

\* Mutant: the path is recorded before the file is there.
BackfillGenerateRecords(p) ==
    /\ At(p, "bfGenerate")
    /\ \/ /\ originals[StoragePath(req[p].target)] # "none"
          /\ rows' = UpdatePreviewStoragePath(req[p].target, today)
          /\ Goto(p, "bfCreate", req[p])
       \/ BackfillDone(p, TRUE) /\ UNCHANGED rows
    /\ UNCHANGED <<originals, thumbnails, previews, today, issued, faults>>

BackfillGenerate(p) ==
    /\ At(p, "bfGenerate")
    /\ LET missing == originals[StoragePath(req[p].target)] = "none"
           outcomes == PreviewOutcomes(req[p].asset.content)
       IN \/ ~missing /\ "whole" \in outcomes /\ Goto(p, "bfCreate", req[p])
          \/ /\ missing \/ "failed" \in outcomes
             /\ BackfillDone(p, TRUE)
    /\ UNCHANGED stored

\* Mutant: the path is recorded as soon as the file is created.
BackfillCreateRecords(p) ==
    /\ At(p, "bfCreate")
    /\ previews' = Created(previews, req[p].target)
    /\ rows' = UpdatePreviewStoragePath(req[p].target, today)
    /\ Goto(p, "bfWrite", [req[p] EXCEPT !.asset.preview = today])
    /\ UNCHANGED <<originals, thumbnails, today, issued, faults>>

BackfillCreate(p) ==
    /\ At(p, "bfCreate")
    /\ previews' = Created(previews, req[p].target)
    /\ Goto(p, "bfWrite", [req[p] EXCEPT !.asset.preview = today])
    /\ UNCHANGED <<rows, originals, thumbnails, today, issued, faults>>

BackfillWrite(p) ==
    /\ At(p, "bfWrite")
    /\ previews' = Written(previews, req[p].target, req[p].asset.preview, "whole")
    /\ Goto(p, "bfRecord", req[p])
    /\ UNCHANGED <<rows, originals, thumbnails, today, issued, faults>>

BackfillRecord(p) ==
    /\ At(p, "bfRecord")
    /\ rows' = UpdatePreviewStoragePath(req[p].target, req[p].asset.preview)
    /\ BackfillDone(p, UpdatePreviewOutcome(req[p].target) # "ok")
    /\ UNCHANGED <<originals, thumbnails, previews, today, issued, faults>>

DerivedStep(p) ==
    \/ DownloadFind(p) \/ DownloadOpen(p) \/ PreviewFind(p) \/ PreviewOpen(p)
    \/ ThumbnailFind(p) \/ ThumbnailOpen(p) \/ ThumbnailGenerate(p)
    \/ ThumbnailCreate(p) \/ ThumbnailWrite(p) \/ ThumbnailRecord(p)
    \/ BackfillList(p) \/ BackfillNext(p) \/ BackfillFind(p)
    \/ BackfillGenerate(p) \/ BackfillCreate(p) \/ BackfillWrite(p)
    \/ BackfillRecord(p)
=============================================================================
