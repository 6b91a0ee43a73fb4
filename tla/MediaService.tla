---------------------------- MODULE MediaService ----------------------------
(***************************************************************************)
(* The media service whole: requests of all kinds side by side, midnight,  *)
(* and what can go wrong below the service: a query or statement that      *)
(* fails (or is committed without the caller learning it), a file          *)
(* operation that fails, a request that ends half-way (process crash).     *)
(***************************************************************************)
EXTENDS UploadFlow, TrashFlow, DerivedFlow

Init ==
    /\ rows = [a \in Ids |->
                 IF a \in Legacy
                 THEN [NoRow EXCEPT !.state = "active", !.content = LegacyContent[a]]
                 ELSE NoRow]
    /\ originals = [f \in Ids |->
                      IF \E a \in Legacy : LegacyPath[a] = f
                      THEN LegacyContent[CHOOSE a \in Legacy : LegacyPath[a] = f]
                      ELSE "none"]
    /\ thumbnails = [a \in Ids |-> [d \in Days |-> "none"]]
    /\ previews = [a \in Ids |-> [d \in Days |-> "none"]]
    /\ today = 1
    /\ issued = Legacy
    /\ faults = 0
    /\ req = [p \in Procs |-> Idle]

Start(p) ==
    \/ StartUpload(p) \/ StartDelete(p) \/ StartRestore(p) \/ StartPurge(p)
    \/ StartEmptyTrash(p) \/ StartDownload(p) \/ StartPreview(p)
    \/ StartThumbnail(p) \/ StartTrashThumbnail(p) \/ StartBackfill(p)

\* The next thing a request in flight does of its own accord.
Step(p) == UploadStep(p) \/ TrashStep(p) \/ DerivedStep(p) \/ Respond(p)

\* UTC midnight: the store writes to the next day's directory.
Midnight ==
    /\ today < MaxDay
    /\ today' = today + 1
    /\ UNCHANGED <<rows, originals, thumbnails, previews, issued, faults, req>>

-----------------------------------------------------------------------------
(* Faults, at most MaxFaults in a history. *)

Fault == faults < MaxFaults /\ faults' = faults + 1

\* A SELECT, or the opening of a file, reports an error of its own.
ReadFails(p) ==
    /\ Fault
    /\ \/ /\ req[p].pc \in {"upFind", "upFindTrash", "upLegacy", "upRefind",
                            "delFind", "resFind", "emptyList", "purFind",
                            "purCount", "dlFind", "dlOpen", "pvFind", "thFind",
                            "thTrashFind", "thGenerate", "bfList"}
          /\ Answer(p, "failed", req[p].target)
       \/ At(p, "upProbe") /\ req[p].todo # {} /\ Answer(p, "failed", Null)
       \/ At(p, "bfFind") /\ BackfillDone(p, TRUE)
    /\ UNCHANGED <<rows, originals, thumbnails, previews, today, issued>>

\* What the statement that p is about to run does to the table.
Executed(p) ==
    LET a == req[p].target
    IN CASE req[p].pc \in {"upRestore", "resMark"} -> Restore(a)
         [] req[p].pc = "upBackfill" -> UpdateContentHash(a, req[p].hash)
         [] req[p].pc = "upInsert"   -> Save(a, req[p].asset)
         [] req[p].pc = "delMark"    -> SoftDelete(a)
         [] req[p].pc = "purRow"     -> Delete(a)
         [] req[p].pc = "thRecord"   -> UpdateThumbnailStoragePath(a, req[p].asset.thumb)
         [] req[p].pc = "bfRecord"   -> UpdatePreviewStoragePath(a, req[p].asset.preview)

\* ExecContext reports an error: nothing was changed, or, when an answer can
\* be lost, the change was committed all the same.
StatementFails(p) ==
    /\ Fault
    /\ \/ /\ req[p].pc \in {"upRestore", "upBackfill", "delMark", "resMark", "purRow"}
          /\ Answer(p, "failed", req[p].target)
       \/ At(p, "upInsert") /\ Goto(p, "upUndo", [req[p] EXCEPT !.how = "failed"])
       \/ At(p, "thRecord") /\ Answer(p, "served", req[p].target)
       \/ At(p, "bfRecord") /\ BackfillDone(p, TRUE)
    /\ \/ rows' = rows
       \/ AckLoss /\ rows' = Executed(p)
    /\ UNCHANGED <<originals, thumbnails, previews, today, issued>>

\* Mutant: the upload goes on with the file as it is.
OriginalNotSavedIgnored(p) ==
    /\ Fault /\ At(p, "upStore")
    /\ \E a \in Ids \ issued :
          /\ issued' = issued \cup {a}
          /\ originals' = [originals EXCEPT ![a] = "partial"]
          /\ Goto(p, "upThumb",
                  [req[p] EXCEPT !.target = a,
                     !.asset = [state |-> "active", content |-> req[p].content,
                                hash |-> req[p].content, thumb |-> NoPath,
                                preview |-> NoPath]])
    /\ UNCHANGED <<rows, thumbnails, previews, today>>

\* saveFile fails, before or after creating its file; what it leaves stays.
OriginalNotSaved(p) ==
    /\ Fault /\ At(p, "upStore")
    /\ \E a \in Ids \ issued :
          /\ issued' = issued \cup {a}
          /\ originals' \in {originals, [originals EXCEPT ![a] = "partial"]}
    /\ Answer(p, "failed", Null)
    /\ UNCHANGED <<rows, thumbnails, previews, today>>

ThumbnailNotSaved(p) ==
    /\ Fault
    /\ LET a == req[p].target
       IN \/ /\ At(p, "upThumb")
             /\ thumbnails' = [thumbnails EXCEPT ![a][today] = "partial"]
             /\ Goto(p, "upPreview", req[p])
          \/ At(p, "thCreate") /\ Answer(p, "served", a) /\ UNCHANGED thumbnails
          \/ /\ At(p, "thWrite")
             /\ thumbnails' = Written(thumbnails, a, req[p].asset.thumb, "partial")
             /\ Answer(p, "served", a)
    /\ UNCHANGED <<rows, originals, previews, today, issued>>

PreviewNotSaved(p) ==
    /\ Fault
    /\ LET a == req[p].target
       IN \/ /\ At(p, "upPreview")
             /\ previews' = [previews EXCEPT ![a][today] = "partial"]
             /\ Goto(p, "upInsert", req[p])
          \/ At(p, "bfCreate") /\ BackfillDone(p, TRUE) /\ UNCHANGED previews
          \/ /\ At(p, "bfWrite")
             /\ previews' = Written(previews, a, req[p].asset.preview, "partial")
             /\ BackfillDone(p, TRUE)
    /\ UNCHANGED <<rows, originals, thumbnails, today, issued>>

\* An unlink fails: a purge stops with an error; an upload's clean-up tries the
\* other files and goes on.
UnlinkFails(p) ==
    /\ Fault
    /\ LET a == req[p].target
           asset == req[p].asset
       IN \/ /\ req[p].pc \in {"purThumb", "purPreview", "purOriginal"}
             /\ Answer(p, "failed", a)
             /\ UNCHANGED <<originals, thumbnails, previews>>
          \/ /\ At(p, "upUndo")
             /\ originals' \in {originals, [originals EXCEPT ![a] = "none"]}
             /\ thumbnails' \in {thumbnails, Unlinked(thumbnails, a, asset.thumb)}
             /\ previews' \in {previews, Unlinked(previews, a, asset.preview)}
             /\ \/ req[p].how = "duplicate" /\ Goto(p, "upRefind", req[p])
                \/ req[p].how # "duplicate" /\ Answer(p, req[p].how, Null)
    /\ UNCHANGED <<rows, today, issued>>

\* The process serving p dies, and with it all that p had in memory.
Die(p) ==
    /\ Fault /\ req[p].pc \notin {"idle", "answer"}
    /\ req' = [req EXCEPT ![p] = Idle]
    /\ UNCHANGED <<rows, originals, thumbnails, previews, today, issued>>

FaultStep(p) ==
    \/ ReadFails(p) \/ StatementFails(p) \/ OriginalNotSaved(p)
    \/ ThumbnailNotSaved(p) \/ PreviewNotSaved(p) \/ UnlinkFails(p) \/ Die(p)

Next ==
    \/ \E p \in Procs : Start(p) \/ Step(p) \/ FaultStep(p)
    \/ Midnight

Spec == Init /\ [][Next]_vars

\* A request in flight goes on: the scheduler runs every goroutine, and every
\* statement and file operation returns. Nobody has to send a request.
FairSpec == Spec /\ \A p \in Procs : WF_vars(Step(p))

-----------------------------------------------------------------------------
(* Type invariant. *)

\* Every variable keeps its type.
TypeOK ==
    /\ rows \in [Ids -> Row]
    /\ originals \in [Ids -> OriginalFile]
    /\ thumbnails \in [Ids -> [Days -> DerivedFile]]
    /\ previews \in [Ids -> [Days -> DerivedFile]]
    /\ today \in Days
    /\ issued \in SUBSET Ids
    /\ faults \in 0 .. MaxFaults
    /\ req \in [Procs -> Request]

-----------------------------------------------------------------------------
(* Safety. *)

Exists(a) == rows[a].state # "none"
Active(a) == rows[a].state = "active"

\* No data loss: the original of every asset that has a row, active or in the
\* trash, is in the store, whole. An upload writes its file before its row, a
\* purge (service.go:207-243) removes the row before the file, and between
\* these steps other requests work on the same asset.
LiveOriginals == \A a \in Ids : Exists(a) => originals[StoragePath(a)] = rows[a].content

\* Two active rows never hold the same content, unless one of them is a
\* legacy row not hashed yet: the check of Upload (service.go:55) is a read
\* long before the INSERT, so this rests on the index, on the clean-up after a
\* refused INSERT, and on every stored hash being the hash of the file.
ActiveContentUnique ==
    \A a, b \in Ids :
        a # b /\ Active(a) /\ Active(b) /\ rows[a].content = rows[b].content
            => rows[a].hash = Null \/ rows[b].hash = Null

\* An upload is answered with an asset that holds the uploaded content, or
\* with one that was purged meanwhile; never with somebody else's file.
UploadAnswersSameContent ==
    \A p \in Procs :
        /\ At(p, "answer") /\ req[p].op = "upload"
        /\ req[p].how \in {"created", "existing", "restored", "decision"}
        => \/ ~Exists(req[p].target)
           \/ rows[req[p].target].content = req[p].content

\* Request p still has to record, or to remove, the original f.
InCharge(p, f) ==
    \/ /\ req[p].pc \in {"upThumb", "upPreview", "upInsert", "upUndo"}
       /\ req[p].target = f
    \/ /\ req[p].pc \in {"purThumb", "purPreview", "purOriginal"}
       /\ req[p].refs = 0 /\ StoragePath(req[p].target) = f

\* An original without a row, that no request in flight is about to record or
\* to remove; and one whose row is there, but not its content.
Stray(f) ==
    /\ originals[f] # "none"
    /\ ~\E a \in Ids : Exists(a) /\ StoragePath(a) = f
    /\ ~\E p \in Procs : InCharge(p, f)
Lost(f) ==
    \E a \in Ids : Exists(a) /\ StoragePath(a) = f /\ originals[f] # rows[a].content

\* A failure, or the death of a request, costs one original at most: it stays
\* without a row (an upload that dies before its INSERT, a purge after its
\* DELETE), or a row stays without it (the clean-up after an INSERT that was
\* committed unseen), never both and never another. Without a failure every
\* original has its row or a request in charge of it (service.go:117-124,
\* 234-240).
OneFilePerFault == Cardinality({f \in Ids : Stray(f) \/ Lost(f)}) <= faults

\* A thumbnail or preview path in a row names a file that exists: files are
\* written before their path is recorded, by uploads, thumbnail requests and
\* the backfill alike, while purges of the same asset unlink them.
RecordedFilesExist ==
    \A a \in Ids : Exists(a) =>
        /\ rows[a].thumb \in Days => thumbnails[a][rows[a].thumb] # "none"
        /\ rows[a].preview \in Days => previews[a][rows[a].preview] # "none"

\* With one backfill command at a time and no fault, a recorded preview is
\* complete, so a client is never served half of one (service.go:533-569).
RecordedPreviewsWhole ==
    faults = 0 =>
        \A a \in Ids : Exists(a) /\ rows[a].preview \in Days
            => previews[a][rows[a].preview] = "whole"

\* "file missing" is only said of an asset that was purged while the request
\* ran: the window between the row's lookup and the opening of the file
\* (service.go:155-162, 290) never shows a file that ought to be there.
MissingMeansPurged ==
    \A p \in Procs :
        At(p, "answer") /\ req[p].how = "fileMissing" => ~Exists(req[p].target)

\* A purge that succeeded has unlinked the original, unless another row holds
\* on to it (README.md:105): also when uploads, deletions, thumbnail requests
\* and other purges of the asset ran beside it.
PurgedOriginalsGone ==
    \A p \in Procs :
        At(p, "answer") /\ req[p].op = "purge" /\ req[p].how = "ok"
            => LET f == StoragePath(req[p].target)
               IN \/ originals[f] = "none"
                  \/ \E a \in Ids : Exists(a) /\ StoragePath(a) = f

\* When EmptyTrash succeeds, all it listed is gone: an asset restored from
\* under it makes it fail, it is never skipped (service.go:245-258).
EmptyTrashComplete ==
    \A p \in Procs :
        At(p, "answer") /\ req[p].op = "empty" /\ req[p].how = "ok"
            => \A a \in req[p].listed : ~Exists(a)

\* When backfill-previews exits normally, every asset it listed has a preview,
\* or was purged meanwhile (cmd/backfill-previews/main.go:47-72).
BackfillComplete ==
    \A p \in Procs :
        At(p, "answer") /\ req[p].op = "backfill" /\ req[p].how = "ok"
            => \A a \in req[p].listed : Exists(a) => rows[a].preview \in Days

-----------------------------------------------------------------------------
(* Action properties. *)

\* No step takes an active asset's row away: whatever a purge read before, an
\* asset restored in the meantime survives it (media_repository.go:375-395).
OnlyTrashIsPurged == [][\A a \in Ids : Active(a) => Exists(a)']_vars

\* The file of an asset that is active, and stays so, is not touched, also
\* when an asset in the trash shares it (README.md:106).
ActiveKeepsFile ==
    [][\A a \in Ids : Active(a) /\ Active(a)'
          => originals'[StoragePath(a)] = originals[StoragePath(a)]]_vars

\* The steps from pc to the end of a request, without what each asset of its
\* list adds.
OwnSteps(pc) ==
    CASE pc = "idle" -> 0
      [] pc = "answer" -> 1
      [] pc \in {"upRestore", "upRefind", "purNext", "bfNext", "delMark", "resMark",
                 "dlOpen", "pvOpen", "thRecord"} -> 2
      [] pc \in {"upUndo", "purOriginal", "bfRecord", "delFind", "resFind",
                 "dlFind", "pvFind", "thWrite", "emptyList", "bfList"} -> 3
      [] pc \in {"upInsert", "purPreview", "bfWrite", "thCreate"} -> 4
      [] pc \in {"upPreview", "purThumb", "bfCreate", "thGenerate"} -> 5
      [] pc \in {"upThumb", "purRow", "bfGenerate", "thOpen"} -> 6
      [] pc \in {"upStore", "purCount", "bfFind", "thFind", "thTrashFind"} -> 7
      [] pc \in {"upProbe", "purFind"} -> 8
      [] pc \in {"upBackfill", "upLegacy"} -> 9
      [] pc = "upFindTrash" -> 10
      [] pc = "upFind" -> 11

\* What an asset still on the list adds to it, and how many there may be.
StepsEach(pc) ==
    CASE pc \in {"upFind", "upFindTrash", "upLegacy", "upProbe", "upBackfill"} -> 2
      [] pc \in {"bfList", "bfNext", "bfFind", "bfGenerate", "bfCreate",
                 "bfWrite", "bfRecord"} -> 6
      [] pc \in {"emptyList", "purNext", "purFind", "purCount", "purRow",
                 "purThumb", "purPreview", "purOriginal"} -> 7
      [] OTHER -> 0
StepsLeft(r) ==
    LET n == IF r.pc \in {"upFind", "upFindTrash", "upLegacy", "emptyList", "bfList"}
             THEN Cardinality(Ids) ELSE Cardinality(r.todo)
    IN OwnSteps(r.pc) + StepsEach(r.pc) * n

\* Nothing keeps a request going: whatever the others do to the rows it looks
\* for, and whatever fails, each of its steps leaves it fewer to take. An upload
\* is answered after at most 10 steps and 2 for each legacy row it hashes, none
\* of them a retry (service.go:116-135); EmptyTrash after 2 and 7 for each asset
\* (245-258); backfill-previews after 2 and 6.
EveryStepCounts ==
    [][\A p \in Procs : req'[p] # req[p] /\ ~At(p, "idle")
          => StepsLeft(req'[p]) < StepsLeft(req[p])]_vars

-----------------------------------------------------------------------------
(* Liveness: every request that is begun is answered. *)

EveryRequestAnswered ==
    \A p \in Procs : req[p].op # Null ~> req[p].op = Null

-----------------------------------------------------------------------------
(* The service implements MediaLibrary. An id is unborn until its row is      *)
(* inserted; a drawn id without a row and without an upload that may still    *)
(* insert it is gone.                                                         *)

Pending(a) ==
    a \notin issued \/ \E p \in Procs :
        req[p].pc \in {"upThumb", "upPreview", "upInsert"} /\ req[p].target = a

StatusOf(a) ==
    CASE rows[a].state = "active" -> "live"
      [] rows[a].state = "trashed" -> "trashed"
      [] rows[a].state = "none" /\ Pending(a) -> "unborn"
      [] OTHER -> "gone"

Library == INSTANCE MediaLibrary WITH
    Assets <- Ids, Old <- Legacy, OldContent <- LegacyContent,
    status <- [a \in Ids |-> StatusOf(a)],
    original <- [a \in Ids |-> IF Exists(a) THEN originals[StoragePath(a)] ELSE Null],
    known <- [a \in Ids |-> rows[a].hash]

\* Every behaviour of the service is one of the library it promises.
ImplementsLibrary == Library!Spec
=============================================================================
