----------------------------- MODULE UploadFlow -----------------------------
(***************************************************************************)
(* Service.Upload: exact deduplication of an uploaded file by the SHA-256  *)
(* of its content, and the storing of a new asset: original, thumbnail and *)
(* preview files first, the row last.                                      *)
(***************************************************************************)
EXTENDS MediaState

\* Uploads that may still draw an id. Bound: a history has as many as Ids.
BeforeStore == {"upFind", "upFindTrash", "upRestore", "upLegacy", "upProbe",
                "upBackfill", "upStore"}
Undrawn == {p \in Procs : req[p].pc \in BeforeStore}

\* The body is buffered in a temporary file and hashed before the first
\* statement; an unsupported media type is refused even before that.
StartUpload(p) ==
    /\ \E c \in Contents, action \in DuplicateActions :
          LET local == [Idle EXCEPT !.content = c, !.action = action]
          IN \/ /\ MediaTypeOf[c] \in MediaTypes
                /\ Cardinality(issued) + Cardinality(Undrawn) < Cardinality(Ids)
                /\ Begin(p, "upload", "upFind", local)
             \/ /\ MediaTypeOf[c] \notin MediaTypes
                /\ Begin(p, "upload", "answer", [local EXCEPT !.how = "unsupported"])
    /\ UNCHANGED stored

UploadFind(p) ==
    /\ At(p, "upFind")
    /\ LET found == FindByContentHash(req[p].content)
       IN \/ \E a \in found : Answer(p, "existing", a)
          \/ found = {} /\ Goto(p, "upFindTrash", req[p])
    /\ UNCHANGED stored

UploadFindTrash(p) ==
    /\ At(p, "upFindTrash")
    /\ LET found == FindDeletedByContentHash(req[p].content)
       IN \/ \E a \in found :
                \/ /\ req[p].action = "restore"
                   /\ Goto(p, "upRestore", [req[p] EXCEPT !.target = a])
                \/ req[p].action = "prompt" /\ Answer(p, "decision", a)
          \/ /\ found = {} \/ req[p].action = "new"
             /\ Goto(p, "upLegacy", req[p])
    /\ UNCHANGED stored

UploadRestore(p) ==
    /\ At(p, "upRestore")
    /\ LET a == req[p].target
           outcome == RestoreOutcome(a)
       IN /\ rows' = Restore(a)
          /\ Answer(p, IF outcome = "ok" THEN "restored" ELSE outcome, a)
    /\ UNCHANGED <<originals, thumbnails, previews, today, issued, faults>>

\* findLegacyAssetByContentHash: rows without a hash and of the same size are
\* hashed one after the other, and each hash is written back.
UploadLegacy(p) ==
    /\ At(p, "upLegacy")
    /\ LET found == FindWithoutContentHashBySize(SizeOf[req[p].content])
       IN Goto(p, "upProbe", [req[p] EXCEPT !.todo = found])
    /\ UNCHANGED stored

\* Mutant: a missing candidate file is hashed like any other.
UploadProbeMissingFile(p) ==
    /\ At(p, "upProbe")
    /\ \/ \E a \in req[p].todo :
             Goto(p, "upBackfill", [req[p] EXCEPT !.todo = @ \ {a}, !.target = a,
                                                  !.hash = originals[StoragePath(a)]])
       \/ req[p].todo = {} /\ Goto(p, "upStore", req[p])
    /\ UNCHANGED stored

UploadProbe(p) ==
    /\ At(p, "upProbe")
    /\ \/ \E a \in req[p].todo :
             LET file == originals[StoragePath(a)]
                 rest == [req[p] EXCEPT !.todo = @ \ {a}]
             IN \/ file = "none" /\ Goto(p, "upProbe", rest)
                \/ /\ file \in Contents
                   /\ Goto(p, "upBackfill",
                           [rest EXCEPT !.target = a, !.hash = file])
       \/ req[p].todo = {} /\ Goto(p, "upStore", req[p])
    /\ UNCHANGED stored

\* Mutant: the upload's hash is written to the candidate, whatever its own.
UploadBackfillWrongHash(p) ==
    /\ At(p, "upBackfill")
    /\ rows' = UpdateContentHash(req[p].target, req[p].content)
    /\ \/ /\ req[p].hash = req[p].content
          /\ Answer(p, "existing", req[p].target)
       \/ /\ req[p].hash # req[p].content
          /\ Goto(p, "upProbe", [req[p] EXCEPT !.target = Null, !.hash = Null])
    /\ UNCHANGED <<originals, thumbnails, previews, today, issued, faults>>

\* Mutant: equal size is taken for equal content.
UploadBackfillBySize(p) ==
    /\ At(p, "upBackfill")
    /\ rows' = UpdateContentHash(req[p].target, req[p].hash)
    /\ Answer(p, "existing", req[p].target)
    /\ UNCHANGED <<originals, thumbnails, previews, today, issued, faults>>

\* A refusal by the unique index is ignored here.
UploadBackfill(p) ==
    /\ At(p, "upBackfill")
    /\ rows' = UpdateContentHash(req[p].target, req[p].hash)
    /\ \/ /\ req[p].hash = req[p].content
          /\ Answer(p, "existing", req[p].target)
       \/ /\ req[p].hash # req[p].content
          /\ Goto(p, "upProbe", [req[p] EXCEPT !.target = Null, !.hash = Null])
    /\ UNCHANGED <<originals, thumbnails, previews, today, issued, faults>>

\* The files of an asset in the making are known to its own upload only, so
\* the writing of each is one step.
UploadStore(p) ==
    /\ At(p, "upStore")
    /\ \E a \in Ids \ issued :
          /\ issued' = issued \cup {a}
          /\ originals' = [originals EXCEPT ![a] = req[p].content]
          /\ Goto(p, "upThumb",
                  [req[p] EXCEPT !.target = a,
                     !.asset = [state |-> "active", content |-> req[p].content,
                                hash |-> req[p].content, thumb |-> NoPath,
                                preview |-> NoPath]])
    /\ UNCHANGED <<rows, thumbnails, previews, today, faults>>

\* When generation fails, the upload goes on with an empty path.
UploadThumb(p) ==
    /\ At(p, "upThumb")
    /\ \/ /\ "whole" \in ThumbnailOutcomes
          /\ thumbnails' = [thumbnails EXCEPT ![req[p].target][today] = "whole"]
          /\ Goto(p, "upPreview", [req[p] EXCEPT !.asset.thumb = today])
       \/ /\ "failed" \in ThumbnailOutcomes
          /\ Goto(p, "upPreview", req[p])
          /\ UNCHANGED thumbnails
    /\ UNCHANGED <<rows, originals, previews, today, issued, faults>>

UploadPreview(p) ==
    /\ At(p, "upPreview")
    /\ \/ /\ "whole" \in PreviewOutcomes(req[p].content)
          /\ previews' = [previews EXCEPT ![req[p].target][today] = "whole"]
          /\ Goto(p, "upInsert", [req[p] EXCEPT !.asset.preview = today])
       \/ /\ "failed" \in PreviewOutcomes(req[p].content)
          /\ Goto(p, "upInsert", req[p])
          /\ UNCHANGED previews
    /\ UNCHANGED <<rows, originals, thumbnails, today, issued, faults>>

UploadInsert(p) ==
    /\ At(p, "upInsert")
    /\ rows' = Save(req[p].target, req[p].asset)
    /\ LET outcome == SaveOutcome(req[p].target, req[p].asset)
       IN \/ outcome = "ok" /\ Answer(p, "created", req[p].target)
          \/ /\ outcome # "ok"
             /\ Goto(p, "upUndo", [req[p] EXCEPT !.how = outcome])
    /\ UNCHANGED <<originals, thumbnails, previews, today, issued, faults>>

\* Mutant: only the derived files are deleted.
UploadUndoKeepsOriginal(p) ==
    /\ At(p, "upUndo")
    /\ thumbnails' = Unlinked(thumbnails, req[p].target, req[p].asset.thumb)
    /\ previews' = Unlinked(previews, req[p].target, req[p].asset.preview)
    /\ \/ req[p].how = "duplicate" /\ Goto(p, "upRefind", req[p])
       \/ req[p].how # "duplicate" /\ Answer(p, req[p].how, Null)
    /\ UNCHANGED <<rows, originals, today, issued, faults>>

\* Mutant: after the clean-up the upload begins anew.
UploadUndoRetries(p) ==
    /\ At(p, "upUndo")
    /\ originals' = [originals EXCEPT ![req[p].target] = "none"]
    /\ thumbnails' = Unlinked(thumbnails, req[p].target, req[p].asset.thumb)
    /\ previews' = Unlinked(previews, req[p].target, req[p].asset.preview)
    /\ Goto(p, "upFind", req[p])
    /\ UNCHANGED <<rows, today, issued, faults>>

\* The files written for the refused row are deleted.
UploadUndo(p) ==
    /\ At(p, "upUndo")
    /\ LET a == req[p].target
           asset == req[p].asset
       IN /\ originals' = [originals EXCEPT ![a] = "none"]
          /\ thumbnails' = Unlinked(thumbnails, a, asset.thumb)
          /\ previews' = Unlinked(previews, a, asset.preview)
    /\ \/ req[p].how = "duplicate" /\ Goto(p, "upRefind", req[p])
       \/ req[p].how # "duplicate" /\ Answer(p, req[p].how, Null)
    /\ UNCHANGED <<rows, today, issued, faults>>

UploadRefind(p) ==
    /\ At(p, "upRefind")
    /\ LET found == FindByContentHash(req[p].content)
       IN \/ \E a \in found : Answer(p, "existing", a)
          \/ found = {} /\ Answer(p, "duplicate", Null)
    /\ UNCHANGED stored

UploadStep(p) ==
    \/ UploadFind(p) \/ UploadFindTrash(p) \/ UploadRestore(p)
    \/ UploadLegacy(p) \/ UploadProbe(p) \/ UploadBackfill(p)
    \/ UploadStore(p) \/ UploadThumb(p) \/ UploadPreview(p)
    \/ UploadInsert(p) \/ UploadUndo(p) \/ UploadRefind(p)
=============================================================================
