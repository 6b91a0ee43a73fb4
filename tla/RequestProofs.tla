---------------------------- MODULE RequestProofs ----------------------------
(***************************************************************************)
(* What a request has seen and done stays so, whatever other requests do   *)
(* beside it and whatever fails: EmptyTrash and backfill-previews leave    *)
(* nothing of their list undone when they succeed, a file is only reported *)
(* missing when its asset is gone, and a failure costs one original at     *)
(* most, lost or left without a row. For all values of the constants.      *)
(***************************************************************************)
EXTENDS DedupProofs

-----------------------------------------------------------------------------
(* The inductive invariant. *)

\* The id was drawn and no upload will insert it any more: a row that is not
\* there never will be.
Settled(a) ==
    /\ a \in issued
    /\ \A q \in Procs : req[q].pc \in Filling => req[q].target # a

Gone(a) == Settled(a) /\ ~Exists(a)
Thumbed(a) == Settled(a) /\ (Exists(a) => rows[a].thumb \in Days)
Previewed(a) == Settled(a) /\ (Exists(a) => rows[a].preview \in Days)

\* Where a request has found the row of its asset.
Looked == {"delMark", "resMark", "purCount", "purRow", "dlOpen", "pvOpen",
           "thOpen", "thGenerate", "thCreate", "thWrite", "thRecord",
           "bfGenerate", "bfCreate", "bfWrite", "bfRecord"}

Purges == {"purFind", "purCount", "purRow"}
EmptyLoop == {"purNext"} \cup Purges \cup Purging
BackfillWork == {"bfFind", "bfGenerate", "bfCreate", "bfWrite", "bfRecord"}
BackfillLoop == {"bfNext"} \cup BackfillWork
ThumbnailWork == {"thFind", "thTrashFind", "thOpen", "thGenerate", "thCreate",
                  "thWrite", "thRecord"}
ThumbnailKinds == {"thumbnail", "trashThumbnail"}
SpecialKinds == {"empty", "backfill"} \cup ThumbnailKinds

TargetOK(r) ==
    /\ r.pc \in Looked => Settled(r.target)
    /\ r.pc \in Purging => Gone(r.target)
    /\ r.pc \in {"thWrite", "thRecord"} => r.asset.thumb \in Days
    /\ r.pc \in {"bfWrite", "bfRecord"} => r.asset.preview \in Days

\* Of what EmptyTrash has listed, all but the rest of its list is gone.
EmptyOK(r) == r.op = "empty" =>
    /\ r.pc \in {"emptyList", "answer"} \cup EmptyLoop
    /\ r.pc \in EmptyLoop =>
          \A a \in r.listed : \/ Settled(a) /\ a \in r.todo
                              \/ Settled(a) /\ a = r.target /\ r.pc \in Purges
                              \/ Gone(a)
    /\ r.pc = "answer" /\ r.how = "ok" => \A a \in r.listed : Gone(a)

\* Of what backfill-previews has listed, all but the rest of its list has a
\* preview, unless one has failed.
BackfillOK(r) == r.op = "backfill" =>
    /\ r.pc \in {"bfList", "answer"} \cup BackfillLoop
    /\ r.pc \in BackfillLoop /\ ~r.failed =>
          \A a \in r.listed : \/ Settled(a) /\ a \in r.todo
                              \/ Settled(a) /\ a = r.target /\ r.pc \in BackfillWork
                              \/ Previewed(a)
    /\ r.pc = "answer" /\ r.how = "ok" => \A a \in r.listed : Previewed(a)

\* A thumbnail that a request has found recorded stays recorded.
ThumbnailOK(r) ==
    /\ r.pc = "thOpen" /\ r.asset.thumb \in Days => Thumbed(r.target)
    /\ r.op \in ThumbnailKinds => r.pc \in {"answer"} \cup ThumbnailWork

SeenOK(r) == TargetOK(r) /\ EmptyOK(r) /\ BackfillOK(r) /\ ThumbnailOK(r)

\* What is only true as long as nothing failed, or no answer of a commit is lost.
ServedOK(r) ==
    r.op \in ThumbnailKinds /\ r.pc = "answer" /\ r.how = "served" => Thumbed(r.target)

UndoneOK(r) == r.pc = "upUndo" => Gone(r.target)

Reliable == ~AckLoss \/ faults = 0

AllSeenOK ==
    /\ \A p \in Procs : SeenOK(req[p])
    /\ faults = 0 => \A p \in Procs : ServedOK(req[p])
    /\ Reliable => \A p \in Procs : UndoneOK(req[p])

SeenInv == DedupInv /\ AllSeenOK

-----------------------------------------------------------------------------
(* What others leave alone. *)

\* new has no rows but those of the table, and none loses a derived file's path.
PathsKept(new) ==
    \A a \in Ids : new[a].state # "none" =>
        /\ rows[a].state # "none"
        /\ rows[a].thumb \in Days => new[a].thumb \in Days
        /\ rows[a].preview \in Days => new[a].preview \in Days

\* An asset that no upload will insert any more stays so, and so does what the
\* request has seen of its row.
Stays(a) ==
    /\ a \in issued'
    /\ \A q \in Procs : req'[q].pc \in Filling => req'[q].target # a
    /\ rows'[a].state # "none" =>
          /\ rows[a].state # "none"
          /\ rows[a].thumb \in Days => rows'[a].thumb \in Days
          /\ rows[a].preview \in Days => rows'[a].preview \in Days

AllStay == \A a : Settled(a) => Stays(a)

LEMMA StatementsKeepPaths ==
    ASSUME TypeInv, NEW a \in Ids
    PROVE  /\ PathsKept(rows)
           /\ \A h : PathsKept(UpdateContentHash(a, h))
           /\ \A d \in Days : PathsKept(UpdateThumbnailStoragePath(a, d))
           /\ \A d \in Days : PathsKept(UpdatePreviewStoragePath(a, d))
           /\ PathsKept(SoftDelete(a))
           /\ PathsKept(Restore(a))
           /\ PathsKept(Delete(a))
<1>1. rows \in [Ids -> Row]
  BY DEF TypeInv, TypeOK
<1>2. PathsKept(rows)
  BY DEF PathsKept
<1>3. \A h : PathsKept(UpdateContentHash(a, h))
  BY <1>1 DEF PathsKept, UpdateContentHash, Row
<1>4. \A d \in Days : PathsKept(UpdateThumbnailStoragePath(a, d))
  BY <1>1 DEF PathsKept, UpdateThumbnailStoragePath, Row
<1>5. \A d \in Days : PathsKept(UpdatePreviewStoragePath(a, d))
  BY <1>1 DEF PathsKept, UpdatePreviewStoragePath, Row
<1>6. PathsKept(SoftDelete(a))
  BY <1>1 DEF PathsKept, SoftDelete, SoftDeleteOutcome, Row
<1>7. PathsKept(Restore(a))
  <2>1. RestoreOutcome(a) = "ok" => rows[a].state = "trashed"
    BY DEF RestoreOutcome
  <2>2. QED
    BY <1>1, <2>1 DEF PathsKept, Restore, Row
<1>8. PathsKept(Delete(a))
  BY <1>1 DEF PathsKept, Delete, DeleteOutcome, NoRow
<1>9. QED
  BY <1>2, <1>3, <1>4, <1>5, <1>6, <1>7, <1>8

\* A step of p that inserts no row and draws no id leaves all that others have seen.
LEMMA StepStays ==
    ASSUME SeenInv, NEW p \in Procs, OthersKeep(p), PathsKept(rows'), UNCHANGED issued,
           req'[p].pc \in Filling =>
               req[p].pc \in Filling /\ req'[p].target = req[p].target
    PROVE  AllStay
<1>1. issued \subseteq Ids
  BY DEF SeenInv, DedupInv, TypeInv, TypeOK
<1>2. QED
  BY <1>1 DEF AllStay, Settled, Stays, PathsKept, OthersKeep

\* Drawing an id disturbs none that was drawn before.
LEMMA DrawStays ==
    ASSUME SeenInv, NEW p \in Procs, OthersKeep(p), UNCHANGED rows,
           issued \subseteq issued',
           req'[p].pc \in Filling => req'[p].target \notin issued
    PROVE  AllStay
BY DEF AllStay, Settled, Stays, OthersKeep

\* An upload inserts the row of its own id, which nobody else can have seen.
LEMMA InsertStays ==
    ASSUME SeenInv, NEW p \in Procs, OthersKeep(p), UNCHANGED issued,
           req[p].pc = "upInsert", req'[p].pc \notin Filling,
           rows' \in {rows, Save(req[p].target, req[p].asset)}
    PROVE  AllStay
<1>1. rows \in [Ids -> Row] /\ issued \subseteq Ids
  BY DEF SeenInv, DedupInv, TypeInv, TypeOK
<1>2. \A a \in Ids : a # req[p].target => rows'[a] = rows[a]
  BY <1>1 DEF Save
<1>3. \A a : Settled(a) => a \in Ids /\ a # req[p].target
  BY <1>1 DEF Settled, Filling
<1>4. QED
  BY <1>2, <1>3 DEF AllStay, Settled, Stays, OthersKeep

\* A row that exists belongs to a settled asset.
LEMMA ExistsSettled ==
    ASSUME SeenInv, NEW a \in Ids, Exists(a)
    PROVE  Settled(a)
BY DEF SeenInv, DedupInv, IssuedOK, OwnersOK, Settled

LEMMA FoundSettled ==
    ASSUME SeenInv, NEW a
    PROVE  /\ FindByID(a) # {} \/ FindDeletedByID(a) # {} =>
                  rows[a].state \in {"active", "trashed"}
           /\ a \in Ids /\ (FindByID(a) # {} \/ FindDeletedByID(a) # {}) => Settled(a)
<1>1. FindByID(a) # {} \/ FindDeletedByID(a) # {} => rows[a].state \in {"active", "trashed"}
  BY DEF FindByID, FindDeletedByID
<1>2. QED
  BY <1>1, ExistsSettled DEF Exists

\* What a request has seen holds after a step as it did before.
LEMMA SeenStays ==
    ASSUME AllStay, NEW r
    PROVE  /\ \A a : Settled(a) => Settled(a)'
           /\ \A a : Gone(a) => Gone(a)'
           /\ \A a : Thumbed(a) => Thumbed(a)'
           /\ \A a : Previewed(a) => Previewed(a)'
           /\ TargetOK(r) => TargetOK(r)'
           /\ EmptyOK(r) => EmptyOK(r)'
           /\ BackfillOK(r) => BackfillOK(r)'
           /\ ThumbnailOK(r) => ThumbnailOK(r)'
           /\ ServedOK(r) => ServedOK(r)'
           /\ UndoneOK(r) => UndoneOK(r)'
<1>1. \A a : Settled(a) => Settled(a)'
  BY DEF AllStay, Stays, Settled
<1>2. \A a : Gone(a) => Gone(a)'
  BY <1>1 DEF AllStay, Stays, Gone, Exists
<1>3. \A a : Thumbed(a) => Thumbed(a)'
  BY <1>1 DEF AllStay, Stays, Thumbed, Exists
<1>4. \A a : Previewed(a) => Previewed(a)'
  BY <1>1 DEF AllStay, Stays, Previewed, Exists
<1>5. TargetOK(r) => TargetOK(r)'
  BY <1>1, <1>2 DEF TargetOK
<1>6. EmptyOK(r) => EmptyOK(r)'
  BY <1>1, <1>2 DEF EmptyOK
<1>7. BackfillOK(r) => BackfillOK(r)'
  BY <1>1, <1>4 DEF BackfillOK
<1>8. ThumbnailOK(r) => ThumbnailOK(r)'
  BY <1>3 DEF ThumbnailOK
<1>9. ServedOK(r) => ServedOK(r)'
  BY <1>3 DEF ServedOK
<1>10. UndoneOK(r) => UndoneOK(r)'
  BY <1>2 DEF UndoneOK
<1>11. QED
  BY <1>1, <1>2, <1>3, <1>4, <1>5, <1>6, <1>7, <1>8, <1>9, <1>10

\* No fault is ever taken back.
Counted == faults' = 0 => faults = 0

\* All of that after a step.
SeenNext == AllStay /\ Counted /\ AllSeenOK'

\* A step of p, given what p has seen when it has been taken, ...
LEMMA SeenAfter ==
    ASSUME SeenInv, NEW p \in Procs, OthersKeep(p), AllStay, Counted,
           NEW s, s = req'[p], SeenOK(s)', faults' = 0 => ServedOK(s)',
           Reliable' => UndoneOK(s)'
    PROVE  SeenNext
<1>1. ASSUME NEW q \in Procs
      PROVE  /\ SeenOK(req[q])'
             /\ faults' = 0 => ServedOK(req[q])'
             /\ Reliable' => UndoneOK(req[q])'
  <2> PICK r : r = req'[q]
    OBVIOUS
  <2>1. CASE q = p
    <3>1. r = s
      BY <2>1
    <3>2. QED
      BY <3>1 DEF SeenOK, TargetOK, EmptyOK, BackfillOK, ThumbnailOK, ServedOK, UndoneOK
  <2>2. CASE q # p
    <3>1. r = req[q]
      BY <2>2 DEF OthersKeep
    <3>2. /\ SeenOK(r) /\ (faults = 0 => ServedOK(r))
          /\ Reliable => UndoneOK(r)
      BY <3>1 DEF SeenInv, AllSeenOK
    <3>3. /\ SeenOK(r)' /\ (faults' = 0 => ServedOK(r)')
          /\ Reliable' => UndoneOK(r)'
      BY <3>2, SeenStays DEF SeenOK, Counted, Reliable
    <3>4. QED
      BY <3>3 DEF SeenOK, TargetOK, EmptyOK, BackfillOK, ThumbnailOK, ServedOK, UndoneOK
  <2>3. QED
    BY <2>1, <2>2
<1>2. QED
  BY <1>1 DEF AllSeenOK, SeenNext

\* ... or what it had seen before it.
LEMMA SeenBefore ==
    ASSUME SeenInv, NEW p \in Procs, OthersKeep(p), AllStay, Counted,
           SeenOK(req'[p]), faults' = 0 => ServedOK(req'[p]),
           Reliable' => UndoneOK(req'[p])
    PROVE  SeenNext
<1> PICK s : s = req'[p]
  OBVIOUS
<1>1. /\ SeenOK(s) /\ (faults' = 0 => ServedOK(s))
      /\ Reliable' => UndoneOK(s)
  OBVIOUS
<1>2. SeenOK(s)' /\ (faults' = 0 => ServedOK(s)') /\ (Reliable' => UndoneOK(s)')
  BY <1>1, SeenStays DEF SeenOK
<1>3. QED
  BY <1>2, SeenAfter
-----------------------------------------------------------------------------
(* What a request is after a step of its own. *)

LEMMA GotoSeen ==
    ASSUME TypeInv, TypeInv', NEW p \in Procs, NEW pc, NEW local, Goto(p, pc, local)
    PROVE  /\ OthersKeep(p) /\ req'[p].pc = pc /\ req'[p].op = local.op
           /\ req'[p].target = local.target /\ req'[p].asset = local.asset
           /\ req'[p].todo = local.todo /\ req'[p].listed = local.listed
           /\ req'[p].failed = local.failed /\ req'[p].how = local.how
<1>1. req \in [Procs -> Request] /\ req'[p] \in Request
  BY DEF TypeInv, ReqOK
<1>2. req' = [req EXCEPT ![p] = [local EXCEPT !.pc = pc]]
  BY DEF Goto
<1>3. req'[p] = [local EXCEPT !.pc = pc]
  BY <1>1, <1>2
<1>4. {"pc", "op", "target", "asset", "todo", "listed", "failed", "how"}
          \subseteq DOMAIN local
  BY <1>1, <1>3 DEF Request
<1>5. QED
  BY <1>3, <1>4, GotoFields

LEMMA AnswerSeen ==
    ASSUME TypeInv, NEW p \in Procs, NEW how, NEW a, Answer(p, how, a)
    PROVE  /\ OthersKeep(p) /\ req'[p].pc = "answer" /\ req'[p].op = req[p].op
           /\ req'[p].target = a /\ req'[p].listed = req[p].listed
           /\ req'[p].how = how
<1>1. req \in [Procs -> Request]
  BY DEF TypeInv, ReqOK
<1>2. QED
  BY <1>1 DEF Answer, OthersKeep, Idle

\* The backfill turns to the next asset.
LEMMA DoneSeen ==
    ASSUME TypeInv, TypeInv', NEW p \in Procs, NEW failed, BackfillDone(p, failed)
    PROVE  /\ OthersKeep(p) /\ req'[p].pc = "bfNext" /\ req'[p].op = req[p].op
           /\ req'[p].todo = req[p].todo /\ req'[p].listed = req[p].listed
           /\ req'[p].failed = (req[p].failed \/ failed)
<1> DEFINE l == [req[p] EXCEPT !.target = Null, !.asset = NoRow, !.failed = @ \/ failed]
<1>1. req[p] \in Request
  BY Locals
<1>2. /\ l.op = req[p].op /\ l.todo = req[p].todo /\ l.listed = req[p].listed
      /\ l.failed = (req[p].failed \/ failed)
  BY <1>1 DEF Request
<1>3. Goto(p, "bfNext", l)
  BY DEF BackfillDone
<1> HIDE DEF l
<1>4. QED
  BY <1>2, <1>3, GotoSeen

\* p stays with its kind of request and comes to one of the pcs.
Proceeds(p, pcs) ==
    OthersKeep(p) /\ req'[p].op = req[p].op /\ req'[p].pc \in pcs

LEMMA GotoProceeds ==
    ASSUME TypeInv, TypeInv', NEW p \in Procs, NEW pc, NEW local, Goto(p, pc, local),
           local.op = req[p].op
    PROVE  Proceeds(p, {pc})
BY GotoSeen DEF Proceeds

LEMMA AnswerProceeds ==
    ASSUME TypeInv, NEW p \in Procs, NEW how, NEW a, Answer(p, how, a)
    PROVE  Proceeds(p, {"answer"})
BY AnswerSeen DEF Proceeds

\* Nothing is asked of a request that neither walks a list nor makes a thumbnail,
\* until it has found the row of its asset.
LEMMA PlainSeen ==
    ASSUME NEW r, r.op \notin SpecialKinds, r.pc \notin Looked \cup Purging
    PROVE  SeenOK(r) /\ ServedOK(r)
BY DEF SeenOK, TargetOK, EmptyOK, BackfillOK, ThumbnailOK, ServedOK, SpecialKinds,
       ThumbnailKinds, Looked

\* An answer that promises nothing.
LEMMA RefusedSeen ==
    ASSUME SeenInv, NEW p \in Procs, NEW how, NEW a, Answer(p, how, a),
           how \notin {"ok", "served"}
    PROVE  SeenOK(req'[p]) /\ ServedOK(req'[p])
<1>1. req'[p].pc = "answer" /\ req'[p].how = how
  BY AnswerSeen DEF SeenInv, DedupInv
<1>2. QED
  BY <1>1 DEF SeenOK, TargetOK, EmptyOK, BackfillOK, ThumbnailOK, ServedOK, Looked,
              Purging, EmptyLoop, BackfillLoop, BackfillWork, Purges

\* A step that neither inserts a row nor turns to the clean-up of an upload.
LEMMA StepSeen ==
    ASSUME SeenInv, NEW p \in Procs, OthersKeep(p), PathsKept(rows'), UNCHANGED issued,
           Counted,
           req'[p].pc \in Filling =>
               req[p].pc \in Filling /\ req'[p].target = req[p].target,
           req'[p].pc # "upUndo",
           SeenOK(req'[p]), faults' = 0 => ServedOK(req'[p])
    PROVE  SeenNext
<1>1. AllStay
  BY StepStays
<1>2. UndoneOK(req'[p])
  BY DEF UndoneOK
<1>3. QED
  BY <1>1, <1>2, SeenBefore

\* The same for one that only reads.
LEMMA ReadSeen ==
    ASSUME SeenInv, NEW p \in Procs, OthersKeep(p), UNCHANGED <<rows, issued, faults>>,
           req'[p].pc \notin Making, SeenOK(req'[p]), ServedOK(req'[p])
    PROVE  SeenNext
<1>1. PathsKept(rows')
  BY DEF PathsKept
<1>2. QED
  BY <1>1, StepSeen DEF Counted, Making

-----------------------------------------------------------------------------
(* Uploads. *)

BeforeFiles == {"upFind", "upFindTrash", "upRestore", "upLegacy", "upProbe",
                "upBackfill", "upStore", "upRefind", "answer"}

UploadPCs == BeforeFiles \cup Filling \cup {"upUndo"}

LEMMA UploadPlain ==
    ASSUME SeenInv, NEW p \in Procs, req[p].pc \in UploadPCs \ {"answer"}
    PROVE  req[p].op \notin SpecialKinds
BY DEF SeenInv, AllSeenOK, SeenOK, EmptyOK, BackfillOK, ThumbnailOK, SpecialKinds,
       UploadPCs, BeforeFiles, Filling, EmptyLoop, Purges, Purging, BackfillLoop,
       BackfillWork, ThumbnailWork

LEMMA UploadGoesOn ==
    ASSUME SeenInv, NEW p \in Procs, req[p].pc \in UploadPCs \ {"answer"},
           Proceeds(p, UploadPCs)
    PROVE  OthersKeep(p) /\ SeenOK(req'[p]) /\ ServedOK(req'[p])
<1>1. req'[p].op \notin SpecialKinds
  BY UploadPlain DEF Proceeds
<1>2. req'[p].pc \notin Looked \cup Purging
  BY DEF Proceeds, UploadPCs, BeforeFiles, Filling, Looked, Purging
<1>3. QED
  BY <1>1, <1>2, PlainSeen DEF Proceeds

\* An upload whose row was not inserted turns to its clean-up: its id will have no row.
LEMMA RefusedInsertSeen ==
    ASSUME SeenInv, TypeInv', NEW p \in Procs, UNCHANGED <<rows, issued>>, Counted,
           req[p].pc = "upInsert", NEW how, Goto(p, "upUndo", [req[p] EXCEPT !.how = how])
    PROVE  SeenNext
<1> DEFINE a == req[p].target
           l == [req[p] EXCEPT !.how = how]
<1>1. TypeInv /\ req[p] \in Request /\ a \in Ids
  BY Locals DEF SeenInv, DedupInv, NeedsTarget
<1>2. l.op = req[p].op /\ l.target = a
  BY <1>1 DEF Request
<1>3. Goto(p, "upUndo", l)
  OBVIOUS
<1> HIDE DEF l
<1>4. Proceeds(p, {"upUndo"}) /\ req'[p].target = a
  BY <1>1, <1>2, <1>3, GotoProceeds, GotoSeen
<1>5. OthersKeep(p) /\ SeenOK(req'[p]) /\ ServedOK(req'[p])
  BY <1>4, UploadGoesOn DEF Proceeds, UploadPCs, BeforeFiles, Filling
<1>6. AllStay
  BY <1>4, <1>5, InsertStays DEF Proceeds, Filling
<1>7. /\ ~Exists(a) /\ a \in issued
      /\ \A q \in Procs \ {p} : req[q].pc \in Filling => req[q].target # a
  BY DEF SeenInv, DedupInv, OwnersOK, LocalsAllFit, LocalsFit, Making, Filling
<1> PICK s : s = req'[p]
  OBVIOUS
<1>8. SeenOK(s)' /\ ServedOK(s)'
  BY <1>5, <1>6, SeenStays DEF SeenOK
<1>9. \A q \in Procs : req'[q].pc \in Filling => req'[q].target # a
  BY <1>4, <1>5, <1>7 DEF OthersKeep, Proceeds, Filling
<1>10. a = s.target /\ ~(rows'[a].state # "none") /\ a \in issued'
  BY <1>4, <1>7 DEF Exists
<1>11. UndoneOK(s)'
  BY <1>9, <1>10 DEF UndoneOK, Gone, Settled, Exists
<1>12. QED
  BY <1>5, <1>6, <1>8, <1>11, SeenAfter

LEMMA UploadSeen ==
    ASSUME SeenInv, TypeInv', NEW p \in Procs, UploadStep(p)
    PROVE  SeenNext
<1> USE DEF At
<1> DEFINE r == req[p]
<1>0. TypeInv /\ r \in Request
  BY Locals DEF SeenInv, DedupInv
<1>1. ASSUME UNCHANGED <<issued, faults>>, PathsKept(rows'),
             r.pc \in UploadPCs \ {"answer"}, Proceeds(p, BeforeFiles)
      PROVE  SeenNext
  <2>1. OthersKeep(p) /\ SeenOK(req'[p]) /\ ServedOK(req'[p])
    BY <1>1, UploadGoesOn DEF Proceeds, UploadPCs
  <2>2. req'[p].pc \notin Filling /\ req'[p].pc # "upUndo"
    BY <1>1 DEF Proceeds, BeforeFiles, Filling
  <2>3. QED
    BY <1>1, <2>1, <2>2, StepSeen DEF Counted
<1>2. PathsKept(rows)
  BY DEF PathsKept
<1>3. CASE UploadFind(p) \/ UploadRefind(p)
  <2>1. /\ UNCHANGED <<rows, issued, faults>> /\ r.pc \in {"upFind", "upRefind"}
    BY <1>3 DEF UploadFind, UploadRefind, stored
  <2>2. Goto(p, "upFindTrash", r) \/ \E how, a : Answer(p, how, a)
    BY <1>3, Zenon DEF UploadFind, UploadRefind
  <2>3. Proceeds(p, BeforeFiles)
    BY <1>0, <2>2, GotoProceeds, AnswerProceeds DEF Proceeds, BeforeFiles
  <2>4. QED
    BY <1>1, <1>2, <2>1, <2>3 DEF UploadPCs, BeforeFiles
<1>4. CASE UploadFindTrash(p)
  <2>1. UNCHANGED <<rows, issued, faults>> /\ r.pc = "upFindTrash"
    BY <1>4 DEF UploadFindTrash, stored
  <2>2. \/ \E a : Goto(p, "upRestore", [r EXCEPT !.target = a])
        \/ Goto(p, "upLegacy", r) \/ \E how, a : Answer(p, how, a)
    BY <1>4, Zenon DEF UploadFindTrash
  <2>3. ASSUME NEW a, Goto(p, "upRestore", [r EXCEPT !.target = a])
        PROVE  Proceeds(p, BeforeFiles)
    <3> DEFINE l == [r EXCEPT !.target = a]
    <3>1. l.op = r.op
      BY <1>0 DEF Request
    <3>2. Goto(p, "upRestore", l)
      BY <2>3
    <3> HIDE DEF l
    <3>3. QED
      BY <1>0, <3>1, <3>2, GotoProceeds DEF Proceeds, BeforeFiles
  <2>4. Proceeds(p, BeforeFiles)
    BY <1>0, <2>2, <2>3, GotoProceeds, AnswerProceeds DEF Proceeds, BeforeFiles
  <2>5. QED
    BY <1>1, <1>2, <2>1, <2>4 DEF UploadPCs, BeforeFiles
<1>5. CASE UploadRestore(p)
  <2>1. /\ UNCHANGED <<issued, faults>> /\ r.pc = "upRestore" /\ rows' = Restore(r.target)
        /\ \E how, a : Answer(p, how, a)
    BY <1>5, Zenon DEF UploadRestore
  <2>2. PathsKept(rows')
    BY <1>0, <2>1, StatementsKeepPaths, Locals DEF NeedsTarget
  <2>3. Proceeds(p, BeforeFiles)
    BY <1>0, <2>1, AnswerProceeds DEF Proceeds, BeforeFiles
  <2>4. QED
    BY <1>1, <2>1, <2>2, <2>3 DEF UploadPCs, BeforeFiles
<1>6. CASE UploadLegacy(p) \/ UploadProbe(p)
  <2>1. UNCHANGED <<rows, issued, faults>> /\ r.pc \in {"upLegacy", "upProbe"}
    BY <1>6 DEF UploadLegacy, UploadProbe, stored
  <2>2. \/ \E s : Goto(p, "upProbe", [r EXCEPT !.todo = s])
        \/ \E s, a, h : Goto(p, "upBackfill",
                             [[r EXCEPT !.todo = s] EXCEPT !.target = a, !.hash = h])
        \/ Goto(p, "upStore", r)
    <3>1. CASE UploadLegacy(p)
      BY <3>1, Zenon DEF UploadLegacy
    <3>2. CASE UploadProbe(p)
      BY <3>2 DEF UploadProbe
    <3>3. QED
      BY <1>6, <3>1, <3>2
  <2>3. ASSUME NEW s, Goto(p, "upProbe", [r EXCEPT !.todo = s])
        PROVE  Proceeds(p, BeforeFiles)
    <3> DEFINE l == [r EXCEPT !.todo = s]
    <3>1. l.op = r.op
      BY <1>0 DEF Request
    <3>2. Goto(p, "upProbe", l)
      BY <2>3
    <3> HIDE DEF l
    <3>3. QED
      BY <1>0, <3>1, <3>2, GotoProceeds DEF Proceeds, BeforeFiles
  <2>4. ASSUME NEW s, NEW a, NEW h,
               Goto(p, "upBackfill",
                    [[r EXCEPT !.todo = s] EXCEPT !.target = a, !.hash = h])
        PROVE  Proceeds(p, BeforeFiles)
    <3> DEFINE l == [[r EXCEPT !.todo = s] EXCEPT !.target = a, !.hash = h]
    <3>1. l.op = r.op
      BY <1>0 DEF Request
    <3>2. Goto(p, "upBackfill", l)
      BY <2>4
    <3> HIDE DEF l
    <3>3. QED
      BY <1>0, <3>1, <3>2, GotoProceeds DEF Proceeds, BeforeFiles
  <2>5. Goto(p, "upStore", r) => Proceeds(p, BeforeFiles)
    BY <1>0, GotoProceeds DEF Proceeds, BeforeFiles
  <2>6. QED
    BY <1>1, <1>2, <2>1, <2>2, <2>3, <2>4, <2>5 DEF UploadPCs, BeforeFiles
<1>7. CASE UploadBackfill(p)
  <2> DEFINE l == [r EXCEPT !.target = Null, !.hash = Null]
  <2>1. /\ UNCHANGED <<issued, faults>> /\ r.pc = "upBackfill"
        /\ rows' = UpdateContentHash(r.target, r.hash)
        /\ Answer(p, "existing", r.target) \/ Goto(p, "upProbe", l)
    BY <1>7, Zenon DEF UploadBackfill
  <2>2. PathsKept(rows')
    BY <1>0, <2>1, StatementsKeepPaths, Locals DEF NeedsTarget
  <2>3. l.op = r.op
    BY <1>0 DEF Request
  <2> HIDE DEF l
  <2>4. Proceeds(p, BeforeFiles)
    BY <1>0, <2>1, <2>3, GotoProceeds, AnswerProceeds DEF Proceeds, BeforeFiles
  <2>5. QED
    BY <1>1, <2>1, <2>2, <2>4 DEF UploadPCs, BeforeFiles
<1>8. CASE UploadStore(p)
  <2>1. PICK a \in Ids \ issued :
          /\ issued' = issued \cup {a} /\ UNCHANGED <<rows, faults>> /\ r.pc = "upStore"
          /\ \E row : Goto(p, "upThumb", [r EXCEPT !.target = a, !.asset = row])
    BY <1>8, Zenon DEF UploadStore
  <2>2. PICK row : Goto(p, "upThumb", [r EXCEPT !.target = a, !.asset = row])
    BY <2>1
  <2> DEFINE l == [r EXCEPT !.target = a, !.asset = row]
  <2>3. l.op = r.op /\ l.target = a
    BY <1>0 DEF Request
  <2>4. Goto(p, "upThumb", l)
    BY <2>2
  <2> HIDE DEF l
  <2>5. Proceeds(p, {"upThumb"}) /\ req'[p].target = a
    BY <1>0, <2>3, <2>4, GotoProceeds, GotoSeen
  <2>6. OthersKeep(p) /\ SeenOK(req'[p]) /\ ServedOK(req'[p])
    BY <2>1, <2>5, UploadGoesOn DEF Proceeds, UploadPCs, BeforeFiles, Filling
  <2>7. AllStay
    BY <2>1, <2>5, <2>6, DrawStays
  <2>8. UndoneOK(req'[p])
    BY <2>5 DEF UndoneOK, Proceeds
  <2>9. QED
    BY <2>1, <2>6, <2>7, <2>8, SeenBefore DEF Counted
<1>9. CASE UploadThumb(p) \/ UploadPreview(p)
  <2> DEFINE l == [r EXCEPT !.asset.thumb = today]
             m == [r EXCEPT !.asset.preview = today]
  <2>1. UNCHANGED <<rows, issued, faults>> /\ r.pc \in {"upThumb", "upPreview"}
    BY <1>9 DEF UploadThumb, UploadPreview
  <2>2. \/ Goto(p, "upPreview", l) \/ Goto(p, "upPreview", r)
        \/ Goto(p, "upInsert", m) \/ Goto(p, "upInsert", r)
    BY <1>9, Zenon DEF UploadThumb, UploadPreview
  <2>3. l.op = r.op /\ l.target = r.target /\ m.op = r.op /\ m.target = r.target
    BY <1>0 DEF Request
  <2> HIDE DEF l, m
  <2>4. Proceeds(p, {"upPreview", "upInsert"}) /\ req'[p].target = r.target
    BY <1>0, <2>2, <2>3, GotoSeen DEF Proceeds
  <2>5. OthersKeep(p) /\ SeenOK(req'[p]) /\ ServedOK(req'[p])
    BY <2>1, <2>4, UploadGoesOn DEF Proceeds, UploadPCs, BeforeFiles, Filling
  <2>6. r.pc \in Filling /\ req'[p].pc # "upUndo"
    BY <2>1, <2>4 DEF Proceeds, Filling
  <2>7. QED
    BY <1>2, <2>1, <2>4, <2>5, <2>6, StepSeen DEF Counted
<1>10. CASE UploadInsert(p)
  <2>1. /\ UNCHANGED <<issued, faults>> /\ r.pc = "upInsert"
        /\ rows' = Save(r.target, r.asset)
        /\ \/ Answer(p, "created", r.target)
           \/ /\ SaveOutcome(r.target, r.asset) # "ok"
              /\ \E how : Goto(p, "upUndo", [r EXCEPT !.how = how])
    BY <1>10, Zenon DEF UploadInsert
  <2>2. CASE Answer(p, "created", r.target)
    <3>1. Proceeds(p, {"answer"})
      BY <1>0, <2>2, AnswerProceeds
    <3>2. OthersKeep(p) /\ SeenOK(req'[p]) /\ ServedOK(req'[p])
      BY <2>1, <3>1, UploadGoesOn DEF Proceeds, UploadPCs, BeforeFiles, Filling
    <3>3. AllStay
      BY <2>1, <3>1, InsertStays DEF Proceeds, Filling
    <3>4. UndoneOK(req'[p])
      BY <3>1 DEF UndoneOK, Proceeds
    <3>5. QED
      BY <2>1, <3>2, <3>3, <3>4, SeenBefore DEF Counted
  <2>3. CASE /\ SaveOutcome(r.target, r.asset) # "ok"
             /\ \E how : Goto(p, "upUndo", [r EXCEPT !.how = how])
    <3>1. UNCHANGED rows
      BY <2>1, <2>3 DEF Save
    <3>2. PICK how : Goto(p, "upUndo", [r EXCEPT !.how = how])
      BY <2>3
    <3>3. QED
      BY <1>0, <2>1, <3>1, <3>2, RefusedInsertSeen DEF Counted
  <2>4. QED
    BY <2>1, <2>2, <2>3
<1>11. CASE UploadUndo(p)
  <2>1. /\ UNCHANGED <<rows, issued, faults>> /\ r.pc = "upUndo"
        /\ Goto(p, "upRefind", r) \/ \E how, a : Answer(p, how, a)
    BY <1>11, Zenon DEF UploadUndo
  <2>2. Proceeds(p, BeforeFiles)
    BY <1>0, <2>1, GotoProceeds, AnswerProceeds DEF Proceeds, BeforeFiles
  <2>3. QED
    BY <1>1, <1>2, <2>1, <2>2 DEF UploadPCs
<1>12. QED
  BY <1>3, <1>4, <1>5, <1>6, <1>7, <1>8, <1>9, <1>10, <1>11 DEF UploadStep
-----------------------------------------------------------------------------
(* The trash. *)

\* A purge that has removed the row knows that it is gone for good.
LEMMA PurgeRowSeen ==
    ASSUME SeenInv, TypeInv', NEW p \in Procs, PurgeRow(p)
    PROVE  SeenNext
<1> DEFINE r == req[p]
           a == r.target
<1>0. TypeInv /\ r \in Request /\ SeenOK(r) /\ r.pc = "purRow" /\ a \in Ids
  BY Locals DEF SeenInv, DedupInv, AllSeenOK, PurgeRow, At, NeedsTarget
<1>1. /\ UNCHANGED <<issued, faults>> /\ rows' = Delete(a)
      /\ \/ DeleteOutcome(a) = "ok" /\ Goto(p, "purThumb", r)
         \/ DeleteOutcome(a) # "ok" /\ Answer(p, DeleteOutcome(a), a)
  BY DEF PurgeRow
<1>2. PathsKept(rows')
  BY <1>0, <1>1, StatementsKeepPaths
<1>3. CASE DeleteOutcome(a) = "ok" /\ Goto(p, "purThumb", r)
  <2>1. /\ OthersKeep(p) /\ req'[p].pc = "purThumb" /\ req'[p].op = r.op
        /\ req'[p].target = a /\ req'[p].todo = r.todo /\ req'[p].listed = r.listed
    BY <1>0, <1>3, GotoSeen
  <2>2. AllStay
    BY <1>1, <1>2, <2>1, StepStays DEF Filling
  <2>3. rows'[a].state = "none"
    BY <1>0, <1>1, <1>3 DEF Delete, TypeInv, TypeOK, NoRow
  <2>4. Settled(a)
    BY <1>0 DEF SeenOK, TargetOK, Looked
  <2> PICK b, s : b = a /\ s = req'[p]
    OBVIOUS
  <2>5. Gone(b)'
    BY <2>2, <2>3, <2>4, SeenStays DEF Gone, Exists
  <2>6. TargetOK(s)'
    BY <2>1, <2>5 DEF TargetOK, Looked
  <2>7. EmptyOK(s)'
    <3>1. s.op = "empty" => \A c \in s.listed : \/ Settled(c) /\ c \in s.todo
                                              \/ c = b \/ Gone(c)
      BY <1>0, <2>1 DEF SeenOK, EmptyOK, EmptyLoop, Purges
    <3>2. s.op = "empty" => \A c \in s.listed : \/ Settled(c)' /\ c \in s.todo
                                              \/ Gone(c)'
      BY <2>2, <2>5, <3>1, SeenStays
    <3>3. s.pc = "purThumb"
      BY <2>1
    <3>4. QED
      BY <3>2, <3>3 DEF EmptyOK, EmptyLoop, Purging
  <2>8. s.op \notin {"backfill"} \cup ThumbnailKinds
    BY <1>0, <2>1 DEF SeenOK, BackfillOK, ThumbnailOK, BackfillLoop, BackfillWork,
                      ThumbnailWork
  <2>9. BackfillOK(s)' /\ ThumbnailOK(s)' /\ ServedOK(s)' /\ UndoneOK(s)'
    BY <2>1, <2>8 DEF BackfillOK, ThumbnailOK, ServedOK, UndoneOK
  <2>10. QED
    BY <1>1, <2>1, <2>2, <2>6, <2>7, <2>9, SeenAfter DEF SeenOK, Counted
<1>4. CASE DeleteOutcome(a) # "ok" /\ Answer(p, DeleteOutcome(a), a)
  <2>1. SeenOK(req'[p]) /\ ServedOK(req'[p])
    <3>1. DeleteOutcome(a) \notin {"ok", "served"}
      BY <1>4, Outcomes
    <3>2. QED
      BY <1>4, <3>1, RefusedSeen
  <2>2. OthersKeep(p) /\ req'[p].pc = "answer"
    BY <1>0, <1>4, AnswerSeen
  <2>3. QED
    BY <1>1, <1>2, <2>1, <2>2, StepSeen DEF Counted, Filling
<1>5. QED
  BY <1>1, <1>3, <1>4

\* What EmptyTrash has listed, as it goes through its list.
LEMMA TrashSeen ==
    ASSUME SeenInv, TypeInv', NEW p \in Procs, TrashStep(p)
    PROVE  SeenNext
<1> USE DEF At
<1> DEFINE r == req[p]
<1>0. /\ TypeInv /\ r \in Request /\ SeenOK(r)
      /\ r.pc \in NeedsTarget => r.target \in Ids
  BY Locals DEF SeenInv, DedupInv, AllSeenOK
<1>1. CASE DeleteFind(p) \/ RestoreFind(p)
  <2>1. UNCHANGED <<rows, issued, faults>> /\ r.pc \in {"delFind", "resFind"}
    BY <1>1 DEF DeleteFind, RestoreFind, stored
  <2>2. \/ /\ FindByID(r.target) # {} \/ FindDeletedByID(r.target) # {}
           /\ \E pc \in {"delMark", "resMark"} : Goto(p, pc, r)
        \/ Answer(p, "notFound", r.target)
    BY <1>1, Zenon DEF DeleteFind, RestoreFind
  <2>3. CASE /\ FindByID(r.target) # {} \/ FindDeletedByID(r.target) # {}
             /\ \E pc \in {"delMark", "resMark"} : Goto(p, pc, r)
    <3>1. Settled(r.target)
      BY <1>0, <2>1, <2>3, FoundSettled DEF NeedsTarget
    <3>2. /\ OthersKeep(p) /\ req'[p].pc \in {"delMark", "resMark"}
          /\ req'[p].op = r.op /\ req'[p].target = r.target
      BY <1>0, <2>3, GotoSeen
    <3>3. SeenOK(req'[p]) /\ ServedOK(req'[p])
      BY <1>0, <2>1, <3>1, <3>2
         DEF SeenOK, TargetOK, EmptyOK, BackfillOK, ThumbnailOK, ServedOK, Purging,
             EmptyLoop, Purges, BackfillLoop, BackfillWork, ThumbnailWork
    <3>4. QED
      BY <2>1, <3>2, <3>3, ReadSeen DEF Making, Filling
  <2>4. CASE Answer(p, "notFound", r.target)
    BY <1>0, <2>1, <2>4, AnswerSeen, RefusedSeen, ReadSeen DEF Making, Filling
  <2>5. QED
    BY <2>2, <2>3, <2>4
<1>2. CASE DeleteMark(p) \/ RestoreMark(p)
  <2>1. UNCHANGED <<issued, faults>> /\ r.pc \in {"delMark", "resMark"}
    BY <1>2 DEF DeleteMark, RestoreMark
  <2>2. /\ rows' \in {SoftDelete(r.target), Restore(r.target)}
        /\ \E how : Answer(p, how, r.target)
    BY <1>2, Zenon DEF DeleteMark, RestoreMark
  <2>3. PathsKept(rows')
    BY <1>0, <2>1, <2>2, StatementsKeepPaths DEF NeedsTarget
  <2>4. OthersKeep(p) /\ req'[p].pc = "answer" /\ req'[p].op = r.op
    BY <1>0, <2>2, AnswerSeen
  <2>5. r.op \notin SpecialKinds
    BY <1>0, <2>1 DEF SeenOK, EmptyOK, BackfillOK, ThumbnailOK, SpecialKinds, Purging,
                      EmptyLoop, Purges, BackfillLoop, BackfillWork, ThumbnailWork
  <2>6. SeenOK(req'[p]) /\ ServedOK(req'[p])
    BY <2>4, <2>5, PlainSeen DEF Looked, Purging
  <2>7. QED
    BY <2>1, <2>3, <2>4, <2>6, StepSeen DEF Counted, Filling
<1>3. CASE EmptyList(p)
  <2> DEFINE l == [r EXCEPT !.todo = ListTrash, !.listed = ListTrash]
  <2>1. /\ UNCHANGED <<rows, issued, faults>> /\ r.pc = "emptyList"
        /\ Goto(p, "purNext", l)
    BY <1>3 DEF EmptyList, stored
  <2>2. l.op = r.op /\ l.todo = ListTrash /\ l.listed = ListTrash
    BY <1>0 DEF Request
  <2> HIDE DEF l
  <2>3. /\ OthersKeep(p) /\ req'[p].pc = "purNext" /\ req'[p].op = r.op
        /\ req'[p].todo = ListTrash /\ req'[p].listed = ListTrash
    BY <1>0, <2>1, <2>2, GotoSeen
  <2>4. \A a \in ListTrash : Settled(a)
    BY ExistsSettled DEF ListTrash, Exists
  <2>5. SeenOK(req'[p]) /\ ServedOK(req'[p])
    BY <1>0, <2>1, <2>3, <2>4
       DEF SeenOK, TargetOK, EmptyOK, BackfillOK, ThumbnailOK, ServedOK, Looked, Purging,
           EmptyLoop, Purges, BackfillLoop, BackfillWork, ThumbnailWork
  <2>6. QED
    BY <2>1, <2>3, <2>5, ReadSeen DEF Making, Filling
<1>4. CASE EmptyNext(p)
  <2>1. /\ UNCHANGED <<rows, issued, faults>> /\ r.pc = "purNext"
        /\ \/ \E a \in r.todo :
                 Goto(p, "purFind", [r EXCEPT !.target = a, !.todo = @ \ {a}])
           \/ r.todo = {} /\ Answer(p, "ok", Null)
    BY <1>4 DEF EmptyNext, stored
  <2>2. ASSUME NEW a \in r.todo,
               Goto(p, "purFind", [r EXCEPT !.target = a, !.todo = @ \ {a}])
        PROVE  SeenNext
    <3> DEFINE l == [r EXCEPT !.target = a, !.todo = @ \ {a}]
    <3>1. l.op = r.op /\ l.target = a /\ l.todo = r.todo \ {a} /\ l.listed = r.listed
      BY <1>0 DEF Request
    <3>2. Goto(p, "purFind", l)
      BY <2>2
    <3> HIDE DEF l
    <3>3. /\ OthersKeep(p) /\ req'[p].pc = "purFind" /\ req'[p].op = r.op
          /\ req'[p].target = a /\ req'[p].todo = r.todo \ {a}
          /\ req'[p].listed = r.listed
      BY <1>0, <3>1, <3>2, GotoSeen
    <3>4. SeenOK(req'[p]) /\ ServedOK(req'[p])
      BY <1>0, <2>1, <3>3
         DEF SeenOK, TargetOK, EmptyOK, BackfillOK, ThumbnailOK, ServedOK, Looked, Purging,
             EmptyLoop, Purges, BackfillLoop, BackfillWork, ThumbnailWork
    <3>5. QED
      BY <2>1, <3>3, <3>4, ReadSeen DEF Making, Filling
  <2>3. CASE r.todo = {} /\ Answer(p, "ok", Null)
    <3>1. /\ OthersKeep(p) /\ req'[p].pc = "answer" /\ req'[p].op = r.op
          /\ req'[p].listed = r.listed /\ req'[p].how = "ok"
      BY <1>0, <2>3, AnswerSeen
    <3>2. SeenOK(req'[p]) /\ ServedOK(req'[p])
      BY <1>0, <2>1, <2>3, <3>1
         DEF SeenOK, TargetOK, EmptyOK, BackfillOK, ThumbnailOK, ServedOK, Looked, Purging,
             EmptyLoop, Purges, BackfillLoop, BackfillWork, ThumbnailWork
    <3>3. QED
      BY <2>1, <3>1, <3>2, ReadSeen DEF Making, Filling
  <2>4. QED
    BY <2>1, <2>2, <2>3
<1>5. CASE PurgeFind(p)
  <2>1. UNCHANGED <<rows, issued, faults>> /\ r.pc = "purFind"
    BY <1>5 DEF PurgeFind, stored
  <2>2. \/ /\ FindDeletedByID(r.target) # {}
           /\ Goto(p, "purCount", [r EXCEPT !.asset = rows[r.target]])
        \/ Answer(p, "notFound", r.target)
    BY <1>5, Zenon DEF PurgeFind
  <2>3. CASE /\ FindDeletedByID(r.target) # {}
             /\ Goto(p, "purCount", [r EXCEPT !.asset = rows[r.target]])
    <3> DEFINE l == [r EXCEPT !.asset = rows[r.target]]
    <3>1. /\ l.op = r.op /\ l.target = r.target /\ l.todo = r.todo
          /\ l.listed = r.listed
      BY <1>0 DEF Request
    <3>2. Goto(p, "purCount", l)
      BY <2>3
    <3> HIDE DEF l
    <3>3. Settled(r.target)
      BY <1>0, <2>1, <2>3, FoundSettled DEF NeedsTarget
    <3>4. /\ OthersKeep(p) /\ req'[p].pc = "purCount" /\ req'[p].op = r.op
          /\ req'[p].target = r.target /\ req'[p].todo = r.todo
          /\ req'[p].listed = r.listed
      BY <1>0, <3>1, <3>2, GotoSeen
    <3>5. SeenOK(req'[p]) /\ ServedOK(req'[p])
      BY <1>0, <2>1, <3>3, <3>4
         DEF SeenOK, TargetOK, EmptyOK, BackfillOK, ThumbnailOK, ServedOK, Looked, Purging,
             EmptyLoop, Purges, BackfillLoop, BackfillWork, ThumbnailWork
    <3>6. QED
      BY <2>1, <3>4, <3>5, ReadSeen DEF Making, Filling
  <2>4. CASE Answer(p, "notFound", r.target)
    BY <1>0, <2>1, <2>4, AnswerSeen, RefusedSeen, ReadSeen DEF Making, Filling
  <2>5. QED
    BY <2>2, <2>3, <2>4
<1>6. CASE PurgeCount(p)
  <2>1. /\ UNCHANGED <<rows, issued, faults>> /\ r.pc = "purCount"
        /\ \E n : Goto(p, "purRow", [r EXCEPT !.refs = n])
    BY <1>6 DEF PurgeCount, stored
  <2>2. PICK n : Goto(p, "purRow", [r EXCEPT !.refs = n])
    BY <2>1
  <2> DEFINE l == [r EXCEPT !.refs = n]
  <2>3. /\ l.op = r.op /\ l.target = r.target /\ l.todo = r.todo
        /\ l.listed = r.listed
    BY <1>0 DEF Request
  <2>4. Goto(p, "purRow", l)
    BY <2>2
  <2> HIDE DEF l
  <2>5. /\ OthersKeep(p) /\ req'[p].pc = "purRow" /\ req'[p].op = r.op
        /\ req'[p].target = r.target /\ req'[p].todo = r.todo
        /\ req'[p].listed = r.listed
    BY <1>0, <2>3, <2>4, GotoSeen
  <2>6. SeenOK(req'[p]) /\ ServedOK(req'[p])
    BY <1>0, <2>1, <2>5
       DEF SeenOK, TargetOK, EmptyOK, BackfillOK, ThumbnailOK, ServedOK, Looked, Purging,
           EmptyLoop, Purges, BackfillLoop, BackfillWork, ThumbnailWork
  <2>7. QED
    BY <2>1, <2>5, <2>6, ReadSeen DEF Making, Filling
<1>7. CASE PurgeRow(p)
  BY <1>7, PurgeRowSeen
<1>8. CASE PurgeThumb(p) \/ PurgePreview(p)
  <2>1. /\ UNCHANGED <<rows, issued, faults>> /\ r.pc \in {"purThumb", "purPreview"}
        /\ \E pc \in {"purPreview", "purOriginal"} : Goto(p, pc, r)
    BY <1>8 DEF PurgeThumb, PurgePreview
  <2>2. /\ OthersKeep(p) /\ req'[p].pc \in {"purPreview", "purOriginal"}
        /\ req'[p].op = r.op /\ req'[p].target = r.target /\ req'[p].todo = r.todo
        /\ req'[p].listed = r.listed
    BY <1>0, <2>1, GotoSeen
  <2>3. SeenOK(req'[p]) /\ ServedOK(req'[p])
    BY <1>0, <2>1, <2>2
       DEF SeenOK, TargetOK, EmptyOK, BackfillOK, ThumbnailOK, ServedOK, Looked, Purging,
           EmptyLoop, Purges, BackfillLoop, BackfillWork, ThumbnailWork
  <2>4. QED
    BY <2>1, <2>2, <2>3, ReadSeen DEF Making, Filling
<1>9. CASE PurgeOriginal(p)
  <2> DEFINE l == [r EXCEPT !.target = Null, !.asset = NoRow, !.refs = 0]
  <2>1. /\ UNCHANGED <<rows, issued, faults>> /\ r.pc = "purOriginal"
        /\ \/ r.op = "purge" /\ Answer(p, "ok", r.target)
           \/ r.op = "empty" /\ Goto(p, "purNext", l)
    BY <1>9 DEF PurgeOriginal
  <2>2. l.op = r.op /\ l.todo = r.todo /\ l.listed = r.listed
    BY <1>0 DEF Request
  <2> HIDE DEF l
  <2>3. CASE r.op = "purge" /\ Answer(p, "ok", r.target)
    <3>1. OthersKeep(p) /\ req'[p].pc = "answer" /\ req'[p].op = "purge"
      BY <1>0, <2>3, AnswerSeen
    <3>2. SeenOK(req'[p]) /\ ServedOK(req'[p])
      BY <3>1, PlainSeen DEF Looked, Purging, SpecialKinds, ThumbnailKinds
    <3>3. QED
      BY <2>1, <3>1, <3>2, ReadSeen DEF Making, Filling
  <2>4. CASE r.op = "empty" /\ Goto(p, "purNext", l)
    <3>1. /\ OthersKeep(p) /\ req'[p].pc = "purNext" /\ req'[p].op = "empty"
          /\ req'[p].todo = r.todo /\ req'[p].listed = r.listed
      BY <1>0, <2>2, <2>4, GotoSeen
    <3>2. SeenOK(req'[p]) /\ ServedOK(req'[p])
      BY <1>0, <2>1, <2>4, <3>1
         DEF SeenOK, TargetOK, EmptyOK, BackfillOK, ThumbnailOK, ServedOK, Looked, Purging,
             EmptyLoop, Purges, ThumbnailKinds
    <3>3. QED
      BY <2>1, <3>1, <3>2, ReadSeen DEF Making, Filling
  <2>5. QED
    BY <2>1, <2>3, <2>4
<1>10. QED
  BY <1>1, <1>2, <1>3, <1>4, <1>5, <1>6, <1>7, <1>8, <1>9 DEF TrashStep
-----------------------------------------------------------------------------
(* Downloads, thumbnails and previews. *)

\* The read that opens a handler finds the row of a settled asset, or refuses.
LEMMA FindThenSeen ==
    ASSUME SeenInv, TypeInv', NEW p \in Procs, NEW found,
           FindThen(p, found, "dlOpen") \/ FindThen(p, found, "pvOpen")
               \/ FindThen(p, found, "thOpen"),
           found \in {FindByID(req[p].target), FindDeletedByID(req[p].target)},
           req[p].pc \in {"dlFind", "pvFind", "thFind", "thTrashFind"},
           req[p].op \in ThumbnailKinds => FindThen(p, found, "thOpen")
    PROVE  SeenNext
<1> DEFINE r == req[p]
           a == r.target
           l == [r EXCEPT !.asset = rows[a]]
<1>0. TypeInv /\ r \in Request /\ SeenOK(r) /\ a \in Ids
  BY Locals DEF SeenInv, DedupInv, AllSeenOK, NeedsTarget
<1>1. UNCHANGED <<rows, issued, faults>>
  BY DEF FindThen, stored
<1>2. l.op = r.op /\ l.target = a /\ l.asset = rows[a]
  BY <1>0 DEF Request
<1>3. \/ /\ found # {}
         /\ \E pc \in {"dlOpen", "pvOpen", "thOpen"} :
               Goto(p, pc, l) /\ (r.op \in ThumbnailKinds => pc = "thOpen")
      \/ Answer(p, "notFound", a)
  BY DEF FindThen
<1> HIDE DEF l
<1>4. ASSUME found # {},
             NEW pc \in {"dlOpen", "pvOpen", "thOpen"}, Goto(p, pc, l),
             r.op \in ThumbnailKinds => pc = "thOpen"
      PROVE  SeenNext
  <2>1. Settled(a)
    BY <1>0, <1>4, FoundSettled
  <2>2. /\ OthersKeep(p) /\ req'[p].pc = pc /\ req'[p].op = r.op
        /\ req'[p].target = a /\ req'[p].asset = rows[a]
    BY <1>0, <1>2, <1>4, GotoSeen
  <2>3. TargetOK(req'[p]) /\ EmptyOK(req'[p]) /\ BackfillOK(req'[p]) /\ ServedOK(req'[p])
    BY <1>0, <1>4, <2>1, <2>2
       DEF SeenOK, TargetOK, EmptyOK, BackfillOK, ServedOK, Purging, EmptyLoop, Purges,
           BackfillLoop, BackfillWork
  <2>4. ThumbnailOK(req'[p])
    BY <1>4, <2>1, <2>2 DEF ThumbnailOK, Thumbed, ThumbnailWork
  <2>5. QED
    BY <1>1, <1>4, <2>2, <2>3, <2>4, ReadSeen DEF SeenOK, Making, Filling
<1>5. CASE Answer(p, "notFound", a)
  BY <1>0, <1>1, <1>5, AnswerSeen, RefusedSeen, ReadSeen DEF Making, Filling
<1>6. QED
  BY <1>3, <1>4, <1>5

\* A thumbnail that was made is recorded, unless its asset is gone.
LEMMA ThumbnailRecordSeen ==
    ASSUME SeenInv, TypeInv', NEW p \in Procs, ThumbnailRecord(p)
    PROVE  SeenNext
<1> DEFINE r == req[p]
           a == r.target
<1>0. TypeInv /\ r \in Request /\ SeenOK(r) /\ r.pc = "thRecord" /\ a \in Ids
  BY Locals DEF SeenInv, DedupInv, AllSeenOK, ThumbnailRecord, At, NeedsTarget
<1>1. /\ UNCHANGED <<issued, faults>>
      /\ rows' = UpdateThumbnailStoragePath(a, r.asset.thumb)
      /\ Answer(p, "served", a)
  BY DEF ThumbnailRecord
<1>2. Settled(a) /\ r.asset.thumb \in Days
  BY <1>0 DEF SeenOK, TargetOK, Looked
<1>3. PathsKept(rows')
  BY <1>0, <1>1, <1>2, StatementsKeepPaths
<1>4. /\ OthersKeep(p) /\ req'[p].pc = "answer" /\ req'[p].op = r.op
      /\ req'[p].target = a /\ req'[p].how = "served"
  BY <1>0, <1>1, AnswerSeen
<1>5. AllStay
  BY <1>1, <1>3, <1>4, StepStays DEF Filling
<1>6. rows'[a].state # "none" => rows'[a].thumb \in Days
  BY <1>0, <1>1, <1>2 DEF UpdateThumbnailStoragePath, TypeInv, TypeOK, Row
<1> PICK b, s : b = a /\ s = req'[p]
  OBVIOUS
<1>7. Thumbed(b)'
  BY <1>2, <1>5, <1>6, SeenStays DEF Thumbed, Exists
<1>8. s.op \notin {"empty", "backfill"}
  BY <1>0, <1>4 DEF SeenOK, EmptyOK, BackfillOK, EmptyLoop, Purges, Purging,
                    BackfillLoop, BackfillWork
<1>9. TargetOK(s)' /\ EmptyOK(s)' /\ BackfillOK(s)' /\ ThumbnailOK(s)' /\ UndoneOK(s)'
  BY <1>4, <1>8 DEF TargetOK, EmptyOK, BackfillOK, ThumbnailOK, UndoneOK, Looked, Purging
<1>10. ServedOK(s)'
  BY <1>4, <1>7 DEF ServedOK
<1>11. QED
  BY <1>1, <1>4, <1>5, <1>9, <1>10, SeenAfter DEF SeenOK, Counted

\* A preview that was made is recorded, or its asset counts as failed.
LEMMA BackfillRecordSeen ==
    ASSUME SeenInv, TypeInv', NEW p \in Procs, BackfillRecord(p)
    PROVE  SeenNext
<1> DEFINE r == req[p]
           a == r.target
           lost == UpdatePreviewOutcome(a) # "ok"
<1>0. TypeInv /\ r \in Request /\ SeenOK(r) /\ r.pc = "bfRecord" /\ a \in Ids
  BY Locals DEF SeenInv, DedupInv, AllSeenOK, BackfillRecord, At, NeedsTarget
<1>1. /\ UNCHANGED <<issued, faults>>
      /\ rows' = UpdatePreviewStoragePath(a, r.asset.preview)
      /\ BackfillDone(p, lost)
  BY DEF BackfillRecord
<1>2. Settled(a) /\ r.asset.preview \in Days
  BY <1>0 DEF SeenOK, TargetOK, Looked
<1>3. PathsKept(rows')
  BY <1>0, <1>1, <1>2, StatementsKeepPaths
<1>4. /\ OthersKeep(p) /\ req'[p].pc = "bfNext" /\ req'[p].op = r.op
      /\ req'[p].todo = r.todo /\ req'[p].listed = r.listed
      /\ req'[p].failed = (r.failed \/ lost)
  BY <1>0, <1>1, DoneSeen
<1>5. AllStay
  BY <1>1, <1>3, <1>4, StepStays DEF Filling
<1>6. ~lost => rows'[a].preview \in Days
  BY <1>0, <1>1, <1>2
     DEF UpdatePreviewOutcome, UpdatePreviewStoragePath, TypeInv, TypeOK, Row
<1> PICK b, s : b = a /\ s = req'[p]
  OBVIOUS
<1>7. ~lost => Previewed(b)'
  BY <1>2, <1>5, <1>6, SeenStays DEF Previewed
<1>8. s.op \notin {"empty"} \cup ThumbnailKinds
  BY <1>0, <1>4 DEF SeenOK, EmptyOK, ThumbnailOK, EmptyLoop, Purges, Purging, ThumbnailWork
<1>9. BackfillOK(s)'
  <2>1. s.op = "backfill" /\ ~r.failed =>
           \A c \in s.listed : (Settled(c) /\ c \in s.todo) \/ c = b \/ Previewed(c)
    BY <1>0, <1>4 DEF SeenOK, BackfillOK, BackfillLoop, BackfillWork
  <2>2. s.op = "backfill" /\ ~s.failed =>
           \A c \in s.listed : (Settled(c)' /\ c \in s.todo) \/ Previewed(c)'
    BY <1>4, <1>5, <1>7, <2>1, SeenStays
  <2>3. s.pc = "bfNext"
    BY <1>4
  <2>4. QED
    BY <2>2, <2>3 DEF BackfillOK, BackfillLoop
<1>10. TargetOK(s)' /\ EmptyOK(s)' /\ ThumbnailOK(s)' /\ ServedOK(s)' /\ UndoneOK(s)'
  BY <1>4, <1>8 DEF TargetOK, EmptyOK, ThumbnailOK, ServedOK, UndoneOK, Looked, Purging
<1>11. QED
  BY <1>1, <1>4, <1>5, <1>9, <1>10, SeenAfter DEF SeenOK, Counted

\* An asset counts as failed, and the backfill goes on with the next.
LEMMA FailedSeen ==
    ASSUME SeenInv, TypeInv', NEW p \in Procs, req[p].pc \in BackfillWork,
           BackfillDone(p, TRUE), PathsKept(rows'), UNCHANGED issued, Counted
    PROVE  SeenNext
<1>0. TypeInv /\ SeenOK(req[p])
  BY DEF SeenInv, DedupInv, AllSeenOK
<1>1. /\ OthersKeep(p) /\ req'[p].pc = "bfNext" /\ req'[p].op = req[p].op
      /\ req'[p].failed = TRUE
  BY <1>0, DoneSeen
<1>2. SeenOK(req'[p]) /\ ServedOK(req'[p])
  BY <1>0, <1>1
     DEF SeenOK, TargetOK, EmptyOK, BackfillOK, ThumbnailOK, ServedOK, Looked, Purging,
         EmptyLoop, Purges, BackfillLoop, BackfillWork, ThumbnailWork, ThumbnailKinds
<1>3. QED
  BY <1>1, <1>2, StepSeen DEF Filling

LEMMA DerivedSeen ==
    ASSUME SeenInv, TypeInv', NEW p \in Procs, DerivedStep(p)
    PROVE  SeenNext
<1> USE DEF At
<1> DEFINE r == req[p]
<1>0. /\ TypeInv /\ r \in Request /\ SeenOK(r) /\ PathsKept(rows)
      /\ r.pc \in NeedsTarget => r.target \in Ids
      /\ today \in Days /\ today' \in Days
  BY Locals DEF SeenInv, DedupInv, AllSeenOK, PathsKept, TypeInv, TypeOK
<1>1. CASE DownloadFind(p) \/ PreviewFind(p) \/ ThumbnailFind(p)
  <2>1. /\ r.pc \in {"dlFind", "pvFind", "thFind", "thTrashFind"}
        /\ \E found \in {FindByID(r.target), FindDeletedByID(r.target)} :
              \/ r.pc \in {"dlFind"} /\ FindThen(p, found, "dlOpen")
              \/ r.pc \in {"pvFind"} /\ FindThen(p, found, "pvOpen")
              \/ FindThen(p, found, "thOpen")
    BY <1>1, Zenon DEF DownloadFind, PreviewFind, ThumbnailFind
  <2>2. r.op \in ThumbnailKinds => r.pc \notin {"dlFind", "pvFind"}
    BY <1>0 DEF SeenOK, ThumbnailOK, ThumbnailWork
  <2>3. QED
    BY <2>1, <2>2, FindThenSeen
<1>2. CASE DownloadOpen(p) \/ PreviewOpen(p)
  <2>1. /\ UNCHANGED <<rows, issued, faults>> /\ r.pc \in {"dlOpen", "pvOpen"}
        /\ \E how, a : Answer(p, how, a)
    BY <1>2, Zenon DEF DownloadOpen, PreviewOpen, stored
  <2>2. OthersKeep(p) /\ req'[p].pc = "answer" /\ req'[p].op = r.op
    BY <1>0, <2>1, AnswerSeen
  <2>3. r.op \notin SpecialKinds
    BY <1>0, <2>1 DEF SeenOK, EmptyOK, BackfillOK, ThumbnailOK, SpecialKinds, Purging,
                      EmptyLoop, Purges, BackfillLoop, BackfillWork, ThumbnailWork
  <2>4. SeenOK(req'[p]) /\ ServedOK(req'[p])
    BY <2>2, <2>3, PlainSeen DEF Looked, Purging
  <2>5. QED
    BY <2>1, <2>2, <2>4, ReadSeen DEF Making, Filling
<1>3. CASE ThumbnailOpen(p)
  <2>1. /\ UNCHANGED <<rows, issued, faults>> /\ r.pc = "thOpen"
        /\ \/ r.asset.thumb \in Days /\ Answer(p, "served", r.target)
           \/ Goto(p, "thGenerate", r)
    BY <1>3 DEF ThumbnailOpen, stored
  <2>2. CASE r.asset.thumb \in Days /\ Answer(p, "served", r.target)
    <3>1. /\ OthersKeep(p) /\ req'[p].pc = "answer" /\ req'[p].op = r.op
          /\ req'[p].target = r.target /\ req'[p].how = "served"
      BY <1>0, <2>2, AnswerSeen
    <3>2. SeenOK(req'[p]) /\ ServedOK(req'[p])
      BY <1>0, <2>1, <2>2, <3>1
         DEF SeenOK, TargetOK, EmptyOK, BackfillOK, ThumbnailOK, ServedOK, Looked, Purging,
             EmptyLoop, Purges, BackfillLoop, BackfillWork, ThumbnailWork, ThumbnailKinds
    <3>3. QED
      BY <2>1, <3>1, <3>2, ReadSeen DEF Making, Filling
  <2>3. CASE Goto(p, "thGenerate", r)
    <3>1. /\ OthersKeep(p) /\ req'[p].pc = "thGenerate" /\ req'[p].op = r.op
          /\ req'[p].target = r.target
      BY <1>0, <2>3, GotoSeen
    <3>2. SeenOK(req'[p]) /\ ServedOK(req'[p])
      BY <1>0, <2>1, <3>1
         DEF SeenOK, TargetOK, EmptyOK, BackfillOK, ThumbnailOK, ServedOK, Looked, Purging,
             EmptyLoop, Purges, BackfillLoop, BackfillWork, ThumbnailWork, ThumbnailKinds
    <3>3. QED
      BY <2>1, <3>1, <3>2, ReadSeen DEF Making, Filling
  <2>4. QED
    BY <2>1, <2>2, <2>3
<1>4. CASE ThumbnailGenerate(p)
  <2>1. /\ UNCHANGED <<rows, issued, faults>> /\ r.pc = "thGenerate"
        /\ \/ \E how \in {"fileMissing", "noThumbnail"} : Answer(p, how, r.target)
           \/ Goto(p, "thCreate", r)
    BY <1>4 DEF ThumbnailGenerate, stored
  <2>2. ASSUME NEW how \in {"fileMissing", "noThumbnail"}, Answer(p, how, r.target)
        PROVE  SeenNext
    BY <1>0, <2>1, <2>2, AnswerSeen, RefusedSeen, ReadSeen DEF Making, Filling
  <2>3. CASE Goto(p, "thCreate", r)
    <3>1. /\ OthersKeep(p) /\ req'[p].pc = "thCreate" /\ req'[p].op = r.op
          /\ req'[p].target = r.target
      BY <1>0, <2>3, GotoSeen
    <3>2. SeenOK(req'[p]) /\ ServedOK(req'[p])
      BY <1>0, <2>1, <3>1
         DEF SeenOK, TargetOK, EmptyOK, BackfillOK, ThumbnailOK, ServedOK, Looked, Purging,
             EmptyLoop, Purges, BackfillLoop, BackfillWork, ThumbnailWork, ThumbnailKinds
    <3>3. QED
      BY <2>1, <3>1, <3>2, ReadSeen DEF Making, Filling
  <2>4. QED
    BY <2>1, <2>2, <2>3
<1>5. CASE ThumbnailCreate(p)
  <2> DEFINE l == [r EXCEPT !.asset.thumb = today]
  <2>1. /\ UNCHANGED <<rows, issued, faults>> /\ r.pc = "thCreate"
        /\ Goto(p, "thWrite", l)
    BY <1>5 DEF ThumbnailCreate
  <2>2. l.op = r.op /\ l.target = r.target /\ l.asset.thumb = today
    BY <1>0 DEF Request, Row
  <2> HIDE DEF l
  <2>3. /\ OthersKeep(p) /\ req'[p].pc = "thWrite" /\ req'[p].op = r.op
        /\ req'[p].target = r.target /\ req'[p].asset.thumb \in Days
    BY <1>0, <2>1, <2>2, GotoSeen
  <2>4. SeenOK(req'[p]) /\ ServedOK(req'[p])
    BY <1>0, <2>1, <2>3
       DEF SeenOK, TargetOK, EmptyOK, BackfillOK, ThumbnailOK, ServedOK, Looked, Purging,
           EmptyLoop, Purges, BackfillLoop, BackfillWork, ThumbnailWork, ThumbnailKinds
  <2>5. QED
    BY <2>1, <2>3, <2>4, ReadSeen DEF Making, Filling
<1>6. CASE ThumbnailWrite(p)
  <2>1. /\ UNCHANGED <<rows, issued, faults>> /\ r.pc = "thWrite"
        /\ Goto(p, "thRecord", r)
    BY <1>6 DEF ThumbnailWrite
  <2>2. /\ OthersKeep(p) /\ req'[p].pc = "thRecord" /\ req'[p].op = r.op
        /\ req'[p].target = r.target /\ req'[p].asset = r.asset
    BY <1>0, <2>1, GotoSeen
  <2>3. SeenOK(req'[p]) /\ ServedOK(req'[p])
    BY <1>0, <2>1, <2>2
       DEF SeenOK, TargetOK, EmptyOK, BackfillOK, ThumbnailOK, ServedOK, Looked, Purging,
           EmptyLoop, Purges, BackfillLoop, BackfillWork, ThumbnailWork, ThumbnailKinds
  <2>4. QED
    BY <2>1, <2>2, <2>3, ReadSeen DEF Making, Filling
<1>7. CASE ThumbnailRecord(p)
  BY <1>7, ThumbnailRecordSeen
<1>8. CASE BackfillList(p)
  <2>1. PICK found \in SUBSET ListWithoutPreview :
            /\ UNCHANGED <<rows, issued, faults>> /\ r.pc = "bfList"
            /\ Goto(p, "bfNext", [r EXCEPT !.todo = found, !.listed = found])
    BY <1>8 DEF BackfillList, stored
  <2> DEFINE l == [r EXCEPT !.todo = found, !.listed = found]
  <2>2. l.op = r.op /\ l.todo = found /\ l.listed = found
    BY <1>0 DEF Request
  <2>3. Goto(p, "bfNext", l)
    BY <2>1
  <2> HIDE DEF l
  <2>4. /\ OthersKeep(p) /\ req'[p].pc = "bfNext" /\ req'[p].op = r.op
        /\ req'[p].todo = found /\ req'[p].listed = found
    BY <1>0, <2>2, <2>3, GotoSeen
  <2>5. \A a \in found : Settled(a)
    BY <2>1, ExistsSettled DEF ListWithoutPreview, Exists
  <2>6. SeenOK(req'[p]) /\ ServedOK(req'[p])
    BY <1>0, <2>1, <2>4, <2>5
       DEF SeenOK, TargetOK, EmptyOK, BackfillOK, ThumbnailOK, ServedOK, Looked, Purging,
           EmptyLoop, Purges, BackfillLoop, BackfillWork, ThumbnailWork, ThumbnailKinds
  <2>7. QED
    BY <2>1, <2>4, <2>6, ReadSeen DEF Making, Filling
<1>9. CASE BackfillNext(p)
  <2>1. /\ UNCHANGED <<rows, issued, faults>> /\ r.pc = "bfNext"
        /\ \/ \E a \in r.todo :
                 Goto(p, "bfFind", [r EXCEPT !.target = a, !.todo = @ \ {a}])
           \/ r.todo = {} /\ ~r.failed /\ Answer(p, "ok", Null)
           \/ Answer(p, "failed", Null)
    BY <1>9 DEF BackfillNext, stored
  <2>2. ASSUME NEW a \in r.todo,
               Goto(p, "bfFind", [r EXCEPT !.target = a, !.todo = @ \ {a}])
        PROVE  SeenNext
    <3> DEFINE l == [r EXCEPT !.target = a, !.todo = @ \ {a}]
    <3>1. /\ l.op = r.op /\ l.target = a /\ l.todo = r.todo \ {a}
          /\ l.listed = r.listed /\ l.failed = r.failed
      BY <1>0 DEF Request
    <3>2. Goto(p, "bfFind", l)
      BY <2>2
    <3> HIDE DEF l
    <3>3. /\ OthersKeep(p) /\ req'[p].pc = "bfFind" /\ req'[p].op = r.op
          /\ req'[p].target = a /\ req'[p].todo = r.todo \ {a}
          /\ req'[p].listed = r.listed /\ req'[p].failed = r.failed
      BY <1>0, <3>1, <3>2, GotoSeen
    <3>4. SeenOK(req'[p]) /\ ServedOK(req'[p])
      BY <1>0, <2>1, <3>3
         DEF SeenOK, TargetOK, EmptyOK, BackfillOK, ThumbnailOK, ServedOK, Looked, Purging,
             EmptyLoop, Purges, BackfillLoop, BackfillWork, ThumbnailWork, ThumbnailKinds
    <3>5. QED
      BY <2>1, <3>3, <3>4, ReadSeen DEF Making, Filling
  <2>3. CASE r.todo = {} /\ ~r.failed /\ Answer(p, "ok", Null)
    <3>1. /\ OthersKeep(p) /\ req'[p].pc = "answer" /\ req'[p].op = r.op
          /\ req'[p].listed = r.listed /\ req'[p].how = "ok"
      BY <1>0, <2>3, AnswerSeen
    <3>2. SeenOK(req'[p]) /\ ServedOK(req'[p])
      BY <1>0, <2>1, <2>3, <3>1
         DEF SeenOK, TargetOK, EmptyOK, BackfillOK, ThumbnailOK, ServedOK, Looked, Purging,
             EmptyLoop, Purges, BackfillLoop, BackfillWork, ThumbnailWork, ThumbnailKinds
    <3>3. QED
      BY <2>1, <3>1, <3>2, ReadSeen DEF Making, Filling
  <2>4. CASE Answer(p, "failed", Null)
    BY <1>0, <2>1, <2>4, AnswerSeen, RefusedSeen, ReadSeen DEF Making, Filling
  <2>5. QED
    BY <2>1, <2>2, <2>3, <2>4
<1>10. CASE BackfillFind(p)
  <2> DEFINE l == [r EXCEPT !.asset = rows[r.target]]
  <2>1. /\ UNCHANGED <<rows, issued, faults>> /\ r.pc = "bfFind"
        /\ \/ FindByID(r.target) # {} /\ Goto(p, "bfGenerate", l)
           \/ BackfillDone(p, TRUE)
    BY <1>10 DEF BackfillFind, stored
  <2>2. /\ l.op = r.op /\ l.target = r.target /\ l.todo = r.todo
        /\ l.listed = r.listed /\ l.failed = r.failed
    BY <1>0 DEF Request
  <2> HIDE DEF l
  <2>3. CASE FindByID(r.target) # {} /\ Goto(p, "bfGenerate", l)
    <3>1. Settled(r.target)
      BY <1>0, <2>1, <2>3, FoundSettled DEF NeedsTarget
    <3>2. /\ OthersKeep(p) /\ req'[p].pc = "bfGenerate" /\ req'[p].op = r.op
          /\ req'[p].target = r.target /\ req'[p].todo = r.todo
          /\ req'[p].listed = r.listed /\ req'[p].failed = r.failed
      BY <1>0, <2>2, <2>3, GotoSeen
    <3>3. SeenOK(req'[p]) /\ ServedOK(req'[p])
      BY <1>0, <2>1, <3>1, <3>2
         DEF SeenOK, TargetOK, EmptyOK, BackfillOK, ThumbnailOK, ServedOK, Looked, Purging,
             EmptyLoop, Purges, BackfillLoop, BackfillWork, ThumbnailWork, ThumbnailKinds
    <3>4. QED
      BY <2>1, <3>2, <3>3, ReadSeen DEF Making, Filling
  <2>4. CASE BackfillDone(p, TRUE)
    BY <1>0, <2>1, <2>4, FailedSeen DEF BackfillWork, Counted
  <2>5. QED
    BY <2>1, <2>3, <2>4
<1>11. CASE BackfillGenerate(p) \/ BackfillWrite(p)
  <2>1. /\ UNCHANGED <<rows, issued, faults>>
        /\ \/ r.pc = "bfGenerate" /\ Goto(p, "bfCreate", r)
           \/ r.pc = "bfWrite" /\ Goto(p, "bfRecord", r)
           \/ r.pc = "bfGenerate" /\ BackfillDone(p, TRUE)
    BY <1>11 DEF BackfillGenerate, BackfillWrite, stored
  <2>2. CASE \/ r.pc = "bfGenerate" /\ Goto(p, "bfCreate", r)
             \/ r.pc = "bfWrite" /\ Goto(p, "bfRecord", r)
    <3>1. /\ OthersKeep(p) /\ req'[p].op = r.op
          /\ \/ r.pc = "bfGenerate" /\ req'[p].pc = "bfCreate"
             \/ r.pc = "bfWrite" /\ req'[p].pc = "bfRecord"
          /\ req'[p].target = r.target /\ req'[p].todo = r.todo
          /\ req'[p].listed = r.listed /\ req'[p].failed = r.failed
          /\ req'[p].asset = r.asset
      BY <1>0, <2>2, GotoSeen
    <3>2. SeenOK(req'[p]) /\ ServedOK(req'[p])
      BY <1>0, <3>1
         DEF SeenOK, TargetOK, EmptyOK, BackfillOK, ThumbnailOK, ServedOK, Looked, Purging,
             EmptyLoop, Purges, BackfillLoop, BackfillWork, ThumbnailWork, ThumbnailKinds
    <3>3. QED
      BY <2>1, <3>1, <3>2, ReadSeen DEF Making, Filling
  <2>3. CASE r.pc = "bfGenerate" /\ BackfillDone(p, TRUE)
    BY <1>0, <2>1, <2>3, FailedSeen DEF BackfillWork, Counted
  <2>4. QED
    BY <2>1, <2>2, <2>3
<1>12. CASE BackfillCreate(p)
  <2> DEFINE l == [r EXCEPT !.asset.preview = today]
  <2>1. /\ UNCHANGED <<rows, issued, faults>> /\ r.pc = "bfCreate"
        /\ Goto(p, "bfWrite", l)
    BY <1>12 DEF BackfillCreate
  <2>2. /\ l.op = r.op /\ l.target = r.target /\ l.todo = r.todo
        /\ l.listed = r.listed /\ l.failed = r.failed /\ l.asset.preview = today
    BY <1>0 DEF Request, Row
  <2> HIDE DEF l
  <2>3. /\ OthersKeep(p) /\ req'[p].pc = "bfWrite" /\ req'[p].op = r.op
        /\ req'[p].target = r.target /\ req'[p].todo = r.todo
        /\ req'[p].listed = r.listed /\ req'[p].failed = r.failed
        /\ req'[p].asset.preview \in Days
    BY <1>0, <2>1, <2>2, GotoSeen
  <2>4. SeenOK(req'[p]) /\ ServedOK(req'[p])
    BY <1>0, <2>1, <2>3
       DEF SeenOK, TargetOK, EmptyOK, BackfillOK, ThumbnailOK, ServedOK, Looked, Purging,
           EmptyLoop, Purges, BackfillLoop, BackfillWork, ThumbnailWork, ThumbnailKinds
  <2>5. QED
    BY <2>1, <2>3, <2>4, ReadSeen DEF Making, Filling
<1>13. CASE BackfillRecord(p)
  BY <1>13, BackfillRecordSeen
<1>14. QED
  BY <1>1, <1>2, <1>3, <1>4, <1>5, <1>6, <1>7, <1>8, <1>9, <1>10, <1>11, <1>12, <1>13
     DEF DerivedStep
-----------------------------------------------------------------------------
(* Beginnings, faults and the rest. *)

LEMMA IdleSeen ==
    /\ SeenOK(Idle) /\ ServedOK(Idle)
    /\ Idle.pc = "idle" /\ "idle" \notin Filling \cup {"upUndo"}
<1>1. Idle.op \notin SpecialKinds /\ Idle.pc = "idle"
  BY ConstantsAssumption DEF Idle, SpecialKinds, ThumbnailKinds, AllKinds
<1>2. QED
  BY <1>1, PlainSeen DEF Looked, Purging, Filling

LEMMA StartSeen ==
    ASSUME SeenInv, TypeInv', NEW p \in Procs, Start(p)
    PROVE  SeenNext
<1>0. TypeInv /\ req \in [Procs -> Request]
  BY DEF SeenInv, DedupInv, TypeInv, ReqOK
<1>1. UNCHANGED <<rows, issued, faults>>
  BY DEF Start, StartUpload, StartDelete, StartRestore, StartPurge,
         StartEmptyTrash, StartDownload, StartPreview, StartThumbnail,
         StartTrashThumbnail, StartBackfill, StartOn, stored
<1>2. ASSUME NEW kind, NEW local, NEW first, Begin(p, kind, first, local),
             \/ <<kind, first>> \in {<<"upload", "upFind">>, <<"delete", "delFind">>,
                    <<"restore", "resFind">>, <<"purge", "purFind">>,
                    <<"empty", "emptyList">>, <<"download", "dlFind">>,
                    <<"preview", "pvFind">>, <<"thumbnail", "thFind">>,
                    <<"trashThumbnail", "thTrashFind">>, <<"backfill", "bfList">>}
             \/ kind = "upload" /\ first = "answer"
      PROVE  SeenNext
  <2>1. req'[p] = [local EXCEPT !.op = kind, !.pc = first] /\ OthersKeep(p)
    BY <1>0, <1>2 DEF Begin, OthersKeep
  <2>2. {"pc", "op"} \subseteq DOMAIN local
    BY <2>1 DEF SeenInv, DedupInv, TypeInv, ReqOK, Request
  <2>3. req'[p].pc = first /\ req'[p].op = kind
    BY <2>1, <2>2
  <2>4. SeenOK(req'[p]) /\ ServedOK(req'[p])
    BY <1>2, <2>3
       DEF SeenOK, TargetOK, EmptyOK, BackfillOK, ThumbnailOK, ServedOK, Looked, Purging,
           EmptyLoop, Purges, BackfillLoop, BackfillWork, ThumbnailWork, ThumbnailKinds
  <2>5. req'[p].pc \notin Making
    BY <1>2, <2>3 DEF Making, Filling
  <2>6. QED
    BY <1>1, <2>1, <2>4, <2>5, ReadSeen
<1>3. CASE StartUpload(p)
  <2>1. \E local : \/ Begin(p, "upload", "upFind", local)
                   \/ Begin(p, "upload", "answer", local)
    BY <1>3, Zenon DEF StartUpload
  <2>2. QED
    BY <1>2, <2>1
<1>4. CASE StartEmptyTrash(p) \/ StartBackfill(p)
  BY <1>2, <1>4 DEF StartEmptyTrash, StartBackfill
<1>5. CASE \/ StartDelete(p) \/ StartRestore(p) \/ StartPurge(p)
           \/ StartDownload(p) \/ StartPreview(p) \/ StartThumbnail(p)
           \/ StartTrashThumbnail(p)
  BY <1>2, <1>5
     DEF StartDelete, StartRestore, StartPurge, StartDownload,
         StartPreview, StartThumbnail, StartTrashThumbnail, StartOn
<1>6. QED
  BY <1>3, <1>4, <1>5 DEF Start

\* What an error ends, and what goes on after one.
LEMMA FaultCounted ==
    ASSUME SeenInv, Fault
    PROVE  faults' # 0 /\ Counted /\ (Reliable' => Reliable /\ ~AckLoss)
BY DEF SeenInv, DedupInv, TypeInv, TypeOK, Fault, Counted, Reliable

\* A statement on the row of a request's own asset, or of none.
LEMMA ExecutedKeepsPaths ==
    ASSUME SeenInv, NEW p \in Procs,
           req[p].pc \in {"upRestore", "upBackfill", "delMark", "resMark", "purRow",
                          "thRecord", "bfRecord"}
    PROVE  PathsKept(Executed(p))
<1>1. TypeInv /\ req[p].target \in Ids /\ SeenOK(req[p])
  BY Locals DEF SeenInv, DedupInv, AllSeenOK, NeedsTarget
<1>2. /\ req[p].pc = "thRecord" => req[p].asset.thumb \in Days
      /\ req[p].pc = "bfRecord" => req[p].asset.preview \in Days
  BY <1>1 DEF SeenOK, TargetOK
<1>3. QED
  BY <1>1, <1>2, StatementsKeepPaths DEF Executed

LEMMA StatementFailsSeen ==
    ASSUME SeenInv, TypeInv', NEW p \in Procs, StatementFails(p)
    PROVE  SeenNext
<1> USE DEF At
<1> DEFINE r == req[p]
           l == [r EXCEPT !.how = "failed"]
<1>0. TypeInv /\ r \in Request /\ SeenOK(r)
  BY Locals DEF SeenInv, DedupInv, AllSeenOK
<1>1. /\ UNCHANGED issued /\ Fault
      /\ rows' = rows \/ (AckLoss /\ rows' = Executed(p))
  BY DEF StatementFails
<1>2. faults' # 0 /\ Counted /\ (Reliable' => ~AckLoss)
  BY <1>1, FaultCounted
<1>3. CASE r.pc = "upInsert"
  <2>1. Goto(p, "upUndo", l)
    BY <1>3 DEF StatementFails
  <2>2. CASE UNCHANGED rows
    BY <1>1, <1>2, <1>3, <2>1, <2>2, RefusedInsertSeen
  <2>3. CASE AckLoss /\ rows' = Executed(p)
    <3>1. rows' = Save(r.target, r.asset)
      BY <1>3, <2>3 DEF Executed
    <3>2. l.op = r.op
      BY <1>0 DEF Request
    <3> HIDE DEF l
    <3>3. Proceeds(p, {"upUndo"})
      BY <1>0, <2>1, <3>2, GotoProceeds
    <3>4. OthersKeep(p) /\ SeenOK(req'[p]) /\ ServedOK(req'[p])
      BY <1>3, <3>3, UploadGoesOn DEF Proceeds, UploadPCs, BeforeFiles, Filling
    <3>5. AllStay
      BY <1>1, <1>3, <3>1, <3>3, InsertStays DEF Proceeds, Filling
    <3>6. QED
      BY <1>2, <2>3, <3>4, <3>5, SeenBefore
  <2>4. QED
    BY <1>1, <2>2, <2>3
<1>4. CASE r.pc # "upInsert"
  <2>1. /\ r.pc \in {"upRestore", "upBackfill", "delMark", "resMark", "purRow",
                     "thRecord", "bfRecord"}
        /\ \/ Answer(p, "failed", r.target)
           \/ r.pc = "thRecord" /\ Answer(p, "served", r.target)
           \/ r.pc = "bfRecord" /\ BackfillDone(p, TRUE)
    BY <1>4 DEF StatementFails
  <2>2. PathsKept(rows')
    BY <1>1, <2>1, ExecutedKeepsPaths DEF PathsKept
  <2>3. CASE Answer(p, "failed", r.target)
    BY <1>0, <1>1, <1>2, <2>2, <2>3, AnswerSeen, RefusedSeen, StepSeen DEF Filling
  <2>4. CASE r.pc = "thRecord" /\ Answer(p, "served", r.target)
    <3>1. /\ OthersKeep(p) /\ req'[p].pc = "answer" /\ req'[p].op = r.op
          /\ req'[p].how = "served"
      BY <1>0, <2>4, AnswerSeen
    <3>2. SeenOK(req'[p])
      BY <3>1 DEF SeenOK, TargetOK, EmptyOK, BackfillOK, ThumbnailOK, Looked, Purging,
                  EmptyLoop, Purges, BackfillLoop, BackfillWork
    <3>3. QED
      BY <1>1, <1>2, <2>2, <3>1, <3>2, StepSeen DEF Filling
  <2>5. CASE r.pc = "bfRecord" /\ BackfillDone(p, TRUE)
    BY <1>1, <1>2, <2>2, <2>5, FailedSeen DEF BackfillWork
  <2>6. QED
    BY <2>1, <2>3, <2>4, <2>5
<1>5. QED
  BY <1>3, <1>4

LEMMA FaultSeen ==
    ASSUME SeenInv, TypeInv', NEW p \in Procs, FaultStep(p)
    PROVE  SeenNext
<1> USE DEF At
<1> DEFINE r == req[p]
<1>0. TypeInv /\ r \in Request /\ SeenOK(r) /\ PathsKept(rows)
  BY Locals DEF SeenInv, DedupInv, AllSeenOK, PathsKept
<1>1. Fault
  BY DEF FaultStep, ReadFails, StatementFails, OriginalNotSaved, ThumbnailNotSaved,
         PreviewNotSaved, UnlinkFails, Die
<1>2. faults' # 0 /\ Counted
  BY <1>1, FaultCounted
<1>3. ASSUME UNCHANGED <<rows, issued>>, NEW how \in {"failed", "duplicate"}, NEW a,
             Answer(p, how, a)
      PROVE  SeenNext
  BY <1>0, <1>2, <1>3, AnswerSeen, RefusedSeen, StepSeen DEF Filling
<1>4. ASSUME UNCHANGED <<rows, issued>>, NEW a, Answer(p, "served", a)
      PROVE  SeenNext
  <2>1. /\ OthersKeep(p) /\ req'[p].pc = "answer" /\ req'[p].how = "served"
    BY <1>0, <1>4, AnswerSeen
  <2>2. SeenOK(req'[p])
    BY <2>1 DEF SeenOK, TargetOK, EmptyOK, BackfillOK, ThumbnailOK, Looked, Purging,
                EmptyLoop, Purges, BackfillLoop, BackfillWork
  <2>3. QED
    BY <1>0, <1>2, <1>4, <2>1, <2>2, StepSeen DEF Filling
<1>5. ASSUME UNCHANGED <<rows, issued>>, NEW pc \in UploadPCs \ {"upUndo"}, Goto(p, pc, r),
             r.pc \in {"upThumb", "upPreview", "upUndo"},
             pc \in Filling => r.pc \in Filling
      PROVE  SeenNext
  <2>1. Proceeds(p, {pc}) /\ req'[p].target = r.target
    BY <1>0, <1>5, GotoProceeds, GotoSeen
  <2>2. OthersKeep(p) /\ SeenOK(req'[p]) /\ ServedOK(req'[p])
    BY <1>5, <2>1, UploadGoesOn DEF Proceeds, UploadPCs, BeforeFiles, Filling
  <2>3. QED
    BY <1>0, <1>2, <1>5, <2>1, <2>2, StepSeen DEF Proceeds
<1>6. CASE ReadFails(p)
  <2>1. /\ UNCHANGED <<rows, issued>>
        /\ \/ \E a : Answer(p, "failed", a)
           \/ r.pc = "bfFind" /\ BackfillDone(p, TRUE)
    BY <1>6, Zenon DEF ReadFails
  <2>2. CASE r.pc = "bfFind" /\ BackfillDone(p, TRUE)
    BY <1>0, <1>2, <2>1, <2>2, FailedSeen DEF BackfillWork
  <2>3. QED
    BY <1>3, <2>1, <2>2
<1>7. CASE StatementFails(p)
  BY <1>7, StatementFailsSeen
<1>8. CASE OriginalNotSaved(p)
  <2>1. /\ UNCHANGED rows /\ issued \subseteq issued' /\ Answer(p, "failed", Null)
    BY <1>8 DEF OriginalNotSaved
  <2>2. OthersKeep(p) /\ req'[p].pc = "answer"
    BY <1>0, <2>1, AnswerSeen
  <2>3. AllStay
    BY <2>1, <2>2, DrawStays DEF Filling
  <2>4. SeenOK(req'[p]) /\ UndoneOK(req'[p])
    BY <2>1, <2>2, RefusedSeen DEF UndoneOK
  <2>5. QED
    BY <1>2, <2>2, <2>3, <2>4, SeenBefore
<1>9. CASE ThumbnailNotSaved(p)
  <2>1. /\ UNCHANGED <<rows, issued>>
        /\ \/ r.pc = "upThumb" /\ Goto(p, "upPreview", r)
           \/ Answer(p, "served", r.target)
    BY <1>9 DEF ThumbnailNotSaved
  <2>2. QED
    BY <1>4, <1>5, <2>1 DEF UploadPCs, Filling
<1>10. CASE PreviewNotSaved(p)
  <2>1. /\ UNCHANGED <<rows, issued>>
        /\ \/ r.pc = "upPreview" /\ Goto(p, "upInsert", r)
           \/ r.pc \in {"bfCreate", "bfWrite"} /\ BackfillDone(p, TRUE)
    BY <1>10 DEF PreviewNotSaved
  <2>2. CASE r.pc \in {"bfCreate", "bfWrite"} /\ BackfillDone(p, TRUE)
    BY <1>0, <1>2, <2>1, <2>2, FailedSeen DEF BackfillWork
  <2>3. QED
    BY <1>5, <2>1, <2>2 DEF UploadPCs, Filling
<1>11. CASE UnlinkFails(p)
  <2>1. /\ UNCHANGED <<rows, issued>>
        /\ \/ Answer(p, "failed", r.target)
           \/ r.pc = "upUndo" /\ Goto(p, "upRefind", r)
           \/ r.pc = "upUndo" /\ Answer(p, r.how, Null)
    BY <1>11 DEF UnlinkFails
  <2>2. CASE r.pc = "upUndo" /\ Answer(p, r.how, Null)
    <3>1. OthersKeep(p) /\ req'[p].pc = "answer" /\ req'[p].op = r.op
      BY <1>0, <2>2, AnswerSeen
    <3>2. SeenOK(req'[p])
      BY <2>2, <3>1, UploadGoesOn DEF Proceeds, UploadPCs, BeforeFiles
    <3>3. QED
      BY <1>0, <1>2, <2>1, <3>1, <3>2, StepSeen DEF Filling
  <2>3. QED
    BY <1>3, <1>5, <2>1, <2>2 DEF UploadPCs, BeforeFiles, Filling
<1>12. CASE Die(p)
  <2>1. UNCHANGED <<rows, issued>> /\ req' = [req EXCEPT ![p] = Idle]
    BY <1>12 DEF Die
  <2>2. OthersKeep(p) /\ req'[p] = Idle
    BY <1>0, <2>1 DEF TypeInv, ReqOK, OthersKeep
  <2>3. QED
    BY <1>0, <1>2, <2>1, <2>2, IdleSeen, StepSeen
<1>13. QED
  BY <1>6, <1>7, <1>8, <1>9, <1>10, <1>11, <1>12 DEF FaultStep

LEMMA RestSeen ==
    ASSUME SeenInv, TypeInv', Midnight \/ UNCHANGED vars \/ \E p \in Procs : Respond(p)
    PROVE  SeenNext
<1>1. CASE Midnight \/ UNCHANGED vars
  <2>1. UNCHANGED <<rows, issued, faults, req>>
    BY <1>1 DEF Midnight, vars
  <2>2. QED
    BY <2>1 DEF SeenInv, AllSeenOK, SeenOK, TargetOK, EmptyOK, BackfillOK, ThumbnailOK,
                ServedOK, UndoneOK, Reliable, Settled, Gone, Thumbed, Previewed, Exists,
                SeenNext, AllStay, Stays, Counted
<1>2. ASSUME NEW p \in Procs, Respond(p)
      PROVE  SeenNext
  <2>1. UNCHANGED <<rows, issued, faults>> /\ req' = [req EXCEPT ![p] = Idle]
    BY <1>2 DEF Respond, stored
  <2>2. OthersKeep(p) /\ req'[p] = Idle
    BY <2>1 DEF SeenInv, DedupInv, TypeInv, ReqOK, OthersKeep
  <2>3. QED
    BY <2>1, <2>2, IdleSeen, ReadSeen DEF Making
<1>3. QED
  BY <1>1, <1>2

-----------------------------------------------------------------------------
(* The theorems. *)

LEMMA InitSeen == Init => SeenInv
<1> SUFFICES ASSUME Init PROVE SeenInv
  OBVIOUS
<1>1. \A p \in Procs : req[p] = Idle
  BY DEF Init
<1>2. QED
  BY <1>1, IdleSeen, InitFits DEF SeenInv, AllSeenOK, UndoneOK

LEMMA NextSeen == SeenInv /\ [Next]_vars => SeenInv' /\ SeenNext
<1> SUFFICES ASSUME SeenInv, [Next]_vars PROVE SeenInv' /\ SeenNext
  OBVIOUS
<1>1. DedupInv' /\ TypeInv'
  BY NextFits DEF SeenInv, DedupInv
<1>2. ASSUME NEW p \in Procs, Step(p) PROVE SeenNext
  BY <1>1, <1>2, UploadSeen, TrashSeen, DerivedSeen, RestSeen DEF Step
<1>3. ASSUME NEW p \in Procs, Start(p) \/ FaultStep(p) PROVE SeenNext
  BY <1>1, <1>3, StartSeen, FaultSeen
<1>4. SeenNext
  BY <1>1, <1>2, <1>3, RestSeen DEF Next
<1>5. QED
  BY <1>1, <1>4 DEF SeenInv, SeenNext

LEMMA SeenAlways == Spec => []SeenInv
<1>1. QED
  BY InitSeen, NextSeen, PTL DEF Spec

\* However requests interleave, and whatever fails: when EmptyTrash reports success,
\* every asset that it listed is gone for good; an asset restored from under it, or
\* purged by somebody else in the middle, makes it fail (service.go:245-258).
THEOREM TrashEmptied == Spec => []EmptyTrashComplete
<1>1. SeenInv => EmptyTrashComplete
  BY DEF SeenInv, AllSeenOK, SeenOK, EmptyOK, Gone, EmptyTrashComplete, At
<1>2. QED
  BY <1>1, SeenAlways, PTL

\* However requests interleave, and whatever fails: when backfill-previews exits
\* normally, every asset that it listed has a recorded preview or no row any more
\* (cmd/backfill-previews/main.go:47-72).
THEOREM PreviewsBackfilled == Spec => []BackfillComplete
<1>1. SeenInv => BackfillComplete
  BY DEF SeenInv, AllSeenOK, SeenOK, BackfillOK, Previewed, BackfillComplete, At
<1>2. QED
  BY <1>1, SeenAlways, PTL

-----------------------------------------------------------------------------
(* Missing files. *)

\* A file is only reported missing when the asset is gone; an upload's clean-up
\* has another error to report.
MissingOK(r) ==
    /\ r.pc = "answer" /\ r.how = "fileMissing" => Gone(r.target)
    /\ r.pc = "upUndo" => r.how # "fileMissing"

MissingInv == LibInv /\ SeenInv /\ \A p \in Procs : MissingOK(req[p])

\* p goes on, or answers something else.
Harmless(p) ==
    \/ \E pc, local : /\ pc # "answer" /\ (pc = "upUndo" => local.how # "fileMissing")
                      /\ Goto(p, pc, local)
    \/ \E how, a : how # "fileMissing" /\ Answer(p, how, a)

LEMMA HarmlessMissing ==
    ASSUME MissingInv, TypeInv', NEW p \in Procs, Harmless(p)
    PROVE  OthersKeep(p) /\ MissingOK(req'[p])
<1>1. CASE \E pc, local : /\ pc # "answer" /\ (pc = "upUndo" => local.how # "fileMissing")
                          /\ Goto(p, pc, local)
  BY <1>1, GotoSeen DEF MissingInv, LibInv, MissingOK
<1>2. CASE \E how, a : how # "fileMissing" /\ Answer(p, how, a)
  BY <1>2, AnswerSeen DEF MissingInv, LibInv, MissingOK
<1>3. QED
  BY <1>1, <1>2 DEF Harmless

\* The original of an asset whose row was found, when it is not in the store.
LEMMA MissingGone ==
    ASSUME MissingInv, TypeInv', NEW p \in Procs, req[p].pc \in {"dlOpen", "thGenerate"},
           originals[StoragePath(req[p].target)] = "none",
           Answer(p, "fileMissing", req[p].target)
    PROVE  OthersKeep(p) /\ MissingOK(req'[p])
<1> DEFINE a == req[p].target
<1>1. TypeInv /\ a \in Ids
  BY Locals DEF MissingInv, LibInv, NeedsTarget
<1>2. Settled(a)
  BY DEF MissingInv, SeenInv, AllSeenOK, SeenOK, TargetOK, Looked
<1>3. Exists(a) => rows[a].content \in Contents
  <2>1. /\ rows[a].hash # Null => rows[a].hash = rows[a].content
        /\ Exists(a) /\ rows[a].hash = Null =>
              a \in Legacy /\ rows[a].content = LegacyContent[a]
    BY <1>1 DEF MissingInv, SeenInv, DedupInv, TableOK, Exists
  <2>2. rows[a].hash \in Contents \cup {Null}
    BY <1>1 DEF TypeInv, TypeOK, Row
  <2>3. QED
    BY <2>1, <2>2, LegacyAssumption
<1>4. ~Exists(a)
  BY <1>1, <1>3, ConstantsAssumption DEF MissingInv, LibInv, LiveOriginals
<1>5. QED
  BY <1>1, <1>2, <1>4, AnswerSeen DEF Gone, MissingOK

\* In every step of a request one or the other is the case, or nothing is answered.
LEMMA StepMissing ==
    ASSUME MissingInv, TypeInv', NEW p \in Procs,
           UploadStep(p) \/ TrashStep(p) \/ DerivedStep(p)
    PROVE  OthersKeep(p) /\ MissingOK(req'[p])
<1> USE DEF At
<1> DEFINE r == req[p]
<1>0. r \in Request
  BY Locals DEF MissingInv, LibInv
<1>1. CASE UploadStep(p)
  <2>1. CASE UploadFind(p) \/ UploadFindTrash(p) \/ UploadLegacy(p) \/ UploadRefind(p)
    <3>1. Harmless(p)
      BY <2>1, Zenon DEF UploadFind, UploadFindTrash, UploadLegacy, UploadRefind, Harmless
    <3>2. QED
      BY <3>1, HarmlessMissing
  <2>2. CASE UploadRestore(p)
    <3>1. PICK how \in {"restored", "notFound", "duplicate"} : Answer(p, how, r.target)
      BY <2>2, Outcomes DEF UploadRestore
    <3>2. Harmless(p)
      BY <3>1 DEF Harmless
    <3>3. QED
      BY <3>2, HarmlessMissing
  <2>3. CASE UploadProbe(p) \/ UploadStore(p)
    <3>1. Harmless(p)
      BY <2>3, Zenon DEF UploadProbe, UploadStore, Harmless
    <3>2. QED
      BY <3>1, HarmlessMissing
  <2>4. CASE UploadBackfill(p) \/ UploadThumb(p) \/ UploadPreview(p)
    <3>1. Harmless(p)
      BY <2>4, Zenon DEF UploadBackfill, UploadThumb, UploadPreview, Harmless
    <3>2. QED
      BY <3>1, HarmlessMissing
  <2>5. CASE UploadInsert(p)
    <3> DEFINE outcome == SaveOutcome(r.target, r.asset)
               l == [r EXCEPT !.how = outcome]
    <3>1. l.how = outcome /\ outcome # "fileMissing"
      BY <1>0, Outcomes DEF Request
    <3>2. Goto(p, "upUndo", l) \/ Answer(p, "created", r.target)
      BY <2>5 DEF UploadInsert
    <3> HIDE DEF l, outcome
    <3>3. Harmless(p)
      BY <3>1, <3>2, Zenon DEF Harmless
    <3>4. QED
      BY <3>3, HarmlessMissing
  <2>6. CASE UploadUndo(p)
    <3>1. r.how # "fileMissing"
      BY <2>6 DEF UploadUndo, MissingInv, MissingOK
    <3>2. Harmless(p)
      BY <2>6, <3>1, Zenon DEF UploadUndo, Harmless
    <3>3. QED
      BY <3>2, HarmlessMissing
  <2>7. QED
    BY <1>1, <2>1, <2>2, <2>3, <2>4, <2>5, <2>6 DEF UploadStep
<1>2. CASE TrashStep(p)
  <2>1. \/ \E local : \E pc \in {"delMark", "resMark", "purNext", "purFind", "purCount",
                                 "purRow", "purThumb", "purPreview", "purOriginal"} :
              Goto(p, pc, local)
        \/ \E a : \E how \in {"ok", "notFound", "duplicate"} : Answer(p, how, a)
    <3>1. CASE DeleteFind(p) \/ RestoreFind(p) \/ EmptyList(p) \/ EmptyNext(p)
      BY <3>1 DEF DeleteFind, RestoreFind, EmptyList, EmptyNext
    <3>2. CASE DeleteMark(p) \/ RestoreMark(p)
      BY <3>2, Outcomes DEF DeleteMark, RestoreMark
    <3>3. CASE PurgeFind(p) \/ PurgeCount(p)
      BY <3>3 DEF PurgeFind, PurgeCount
    <3>4. CASE PurgeRow(p)
      BY <3>4, Outcomes DEF PurgeRow
    <3>5. CASE PurgeThumb(p) \/ PurgePreview(p) \/ PurgeOriginal(p)
      BY <3>5 DEF PurgeThumb, PurgePreview, PurgeOriginal
    <3>6. QED
      BY <1>2, <3>1, <3>2, <3>3, <3>4, <3>5 DEF TrashStep
  <2>2. Harmless(p)
    BY <2>1 DEF Harmless
  <2>3. QED
    BY <2>2, HarmlessMissing
<1>3. CASE DerivedStep(p)
  <2>1. CASE DownloadOpen(p)
    <3>1. CASE originals[StoragePath(r.target)] = "none"
      BY <2>1, <3>1, MissingGone DEF DownloadOpen
    <3>2. CASE originals[StoragePath(r.target)] # "none"
      <4>1. Harmless(p)
        BY <2>1, <3>2 DEF DownloadOpen, Harmless
      <4>2. QED
        BY <4>1, HarmlessMissing
    <3>3. QED
      BY <3>1, <3>2
  <2>2. CASE ThumbnailGenerate(p)
    <3>1. CASE originals[StoragePath(r.target)] = "none"
      BY <2>2, <3>1, MissingGone DEF ThumbnailGenerate
    <3>2. CASE originals[StoragePath(r.target)] # "none"
      <4>1. Harmless(p)
        BY <2>2, <3>2 DEF ThumbnailGenerate, Harmless
      <4>2. QED
        BY <4>1, HarmlessMissing
    <3>3. QED
      BY <3>1, <3>2
  <2>3. CASE PreviewOpen(p)
    <3>1. PICK how \in {"served", "noPreview"} : Answer(p, how, r.target)
      BY <2>3 DEF PreviewOpen
    <3>2. Harmless(p)
      BY <3>1 DEF Harmless
    <3>3. QED
      BY <3>2, HarmlessMissing
  <2>4. CASE BackfillNext(p)
    <3>1. \/ \E local : Goto(p, "bfFind", local)
          \/ \E how \in {"ok", "failed"} : Answer(p, how, Null)
      BY <2>4 DEF BackfillNext
    <3>2. Harmless(p)
      BY <3>1 DEF Harmless
    <3>3. QED
      BY <3>2, HarmlessMissing
  <2>5. CASE DownloadFind(p) \/ PreviewFind(p) \/ ThumbnailFind(p) \/ ThumbnailOpen(p)
    <3>1. Harmless(p)
      BY <2>5, Zenon DEF DownloadFind, PreviewFind, ThumbnailFind, FindThen, ThumbnailOpen,
                         Harmless
    <3>2. QED
      BY <3>1, HarmlessMissing
  <2>6. CASE ThumbnailCreate(p) \/ ThumbnailWrite(p) \/ ThumbnailRecord(p)
    <3>1. Harmless(p)
      BY <2>6, Zenon DEF ThumbnailCreate, ThumbnailWrite, ThumbnailRecord, Harmless
    <3>2. QED
      BY <3>1, HarmlessMissing
  <2>7. CASE \/ BackfillList(p) \/ BackfillFind(p) \/ BackfillGenerate(p)
             \/ BackfillCreate(p) \/ BackfillWrite(p) \/ BackfillRecord(p)
    <3>1. Harmless(p)
      BY <2>7, Zenon DEF BackfillList, BackfillFind, BackfillGenerate, BackfillCreate,
                         BackfillWrite, BackfillRecord, BackfillDone, Harmless
    <3>2. QED
      BY <3>1, HarmlessMissing
  <2>8. QED
    BY <1>3, <2>1, <2>2, <2>3, <2>4, <2>5, <2>6, <2>7 DEF DerivedStep
<1>4. QED
  BY <1>1, <1>2, <1>3

LEMMA FaultMissing ==
    ASSUME MissingInv, TypeInv', NEW p \in Procs, FaultStep(p)
    PROVE  OthersKeep(p) /\ MissingOK(req'[p])
<1> USE DEF At
<1> DEFINE r == req[p]
           l == [r EXCEPT !.how = "failed"]
<1>0. /\ r \in Request /\ l.how = "failed" /\ req \in [Procs -> Request]
      /\ r.pc = "upUndo" => r.how # "fileMissing"
  BY Locals DEF MissingInv, LibInv, MissingOK, Request, TypeInv, ReqOK
<1>1. CASE Die(p)
  <2>1. OthersKeep(p) /\ req'[p].pc = "idle"
    BY <1>0, <1>1 DEF Die, Idle, OthersKeep
  <2>2. QED
    BY <2>1 DEF MissingOK
<1>2. CASE StatementFails(p)
  <2>1. \/ \E a : \E how \in {"failed", "served"} : Answer(p, how, a)
        \/ Goto(p, "upUndo", l)
        \/ \E local : Goto(p, "bfNext", local)
    BY <1>2 DEF StatementFails, BackfillDone
  <2> HIDE DEF l
  <2>2. Harmless(p)
    BY <1>0, <2>1 DEF Harmless
  <2>3. QED
    BY <2>2, HarmlessMissing
<1>3. CASE UnlinkFails(p)
  <2>1. Harmless(p)
    BY <1>0, <1>3, Zenon DEF UnlinkFails, Harmless
  <2>2. QED
    BY <2>1, HarmlessMissing
<1>4. CASE ReadFails(p) \/ OriginalNotSaved(p) \/ ThumbnailNotSaved(p) \/ PreviewNotSaved(p)
  <2>1. Harmless(p)
    BY <1>4, Zenon DEF ReadFails, OriginalNotSaved, ThumbnailNotSaved, PreviewNotSaved,
                       BackfillDone, Harmless
  <2>2. QED
    BY <2>1, HarmlessMissing
<1>5. QED
  BY <1>1, <1>2, <1>3, <1>4 DEF FaultStep

LEMMA StartMissing ==
    ASSUME MissingInv, TypeInv', NEW p \in Procs, Start(p) \/ Respond(p)
    PROVE  OthersKeep(p) /\ MissingOK(req'[p])
<1>0. req \in [Procs -> Request] /\ req' \in [Procs -> Request]
  BY DEF MissingInv, LibInv, TypeInv, ReqOK
<1>1. CASE Respond(p)
  <2>1. OthersKeep(p) /\ req'[p].pc = "idle"
    BY <1>0, <1>1 DEF Respond, Idle, OthersKeep
  <2>2. QED
    BY <2>1 DEF MissingOK
<1>2. ASSUME NEW kind, NEW local, NEW first, Begin(p, kind, first, local),
             first \notin {"upUndo", "answer"} \/ local.how = "unsupported"
      PROVE  OthersKeep(p) /\ MissingOK(req'[p])
  <2>1. req'[p] = [local EXCEPT !.op = kind, !.pc = first] /\ OthersKeep(p)
    BY <1>0, <1>2 DEF Begin, OthersKeep
  <2>2. {"pc", "op", "how"} \subseteq DOMAIN local
    BY <1>0, <2>1 DEF Request
  <2>3. req'[p].pc = first /\ req'[p].how = local.how
    BY <2>1, <2>2
  <2>4. QED
    BY <1>2, <2>1, <2>3 DEF MissingOK
<1>3. CASE StartUpload(p)
  <2>1. PICK c, action :
            \/ \E local : Begin(p, "upload", "upFind", local)
            \/ Begin(p, "upload", "answer",
                     [[Idle EXCEPT !.content = c, !.action = action]
                         EXCEPT !.how = "unsupported"])
    BY <1>3, Zenon DEF StartUpload
  <2> DEFINE l == [[Idle EXCEPT !.content = c, !.action = action]
                      EXCEPT !.how = "unsupported"]
  <2>2. l.how = "unsupported"
    BY DEF Idle
  <2>3. (\E local : Begin(p, "upload", "upFind", local)) \/ Begin(p, "upload", "answer", l)
    BY <2>1
  <2> HIDE DEF l
  <2>4. QED
    BY <1>2, <2>2, <2>3
<1>4. CASE StartEmptyTrash(p) \/ StartBackfill(p)
  BY <1>2, <1>4 DEF StartEmptyTrash, StartBackfill
<1>5. CASE \/ StartDelete(p) \/ StartRestore(p) \/ StartPurge(p)
           \/ StartDownload(p) \/ StartPreview(p) \/ StartThumbnail(p)
           \/ StartTrashThumbnail(p)
  BY <1>2, <1>5
     DEF StartDelete, StartRestore, StartPurge, StartDownload,
         StartPreview, StartThumbnail, StartTrashThumbnail, StartOn
<1>6. QED
  BY <1>1, <1>3, <1>4, <1>5 DEF Start

LEMMA NextMissing ==
    ASSUME UniquePaths, ~AckLoss
    PROVE  MissingInv /\ [Next]_vars => MissingInv'
<1> SUFFICES ASSUME MissingInv, [Next]_vars PROVE MissingInv'
  OBVIOUS
<1>1. LibInv' /\ SeenInv' /\ SeenNext /\ TypeInv'
  BY NextKeeps, NextSeen DEF MissingInv, LibInv
<1>2. ASSUME NEW p \in Procs, OthersKeep(p), MissingOK(req'[p])
      PROVE  \A q \in Procs : MissingOK(req[q])'
  <2>1. ASSUME NEW q \in Procs PROVE MissingOK(req[q])'
    <3> PICK r : r = req'[q]
      OBVIOUS
    <3>1. MissingOK(r)
      BY <1>2 DEF OthersKeep, MissingInv
    <3>2. MissingOK(r)'
      BY <1>1, <3>1, SeenStays DEF SeenNext, MissingOK
    <3>3. QED
      BY <3>2 DEF MissingOK
  <2>2. QED
    BY <2>1
<1>3. CASE Midnight \/ UNCHANGED vars
  <2>1. UNCHANGED <<rows, issued, req>>
    BY <1>3 DEF Midnight, vars
  <2>2. QED
    BY <1>1, <2>1 DEF MissingInv, MissingOK, Gone, Settled, Exists
<1>4. ASSUME NEW p \in Procs, Start(p) \/ Step(p) \/ FaultStep(p)
      PROVE  MissingInv'
  <2>1. OthersKeep(p) /\ MissingOK(req'[p])
    BY <1>1, <1>4, StartMissing, StepMissing, FaultMissing DEF Step
  <2>2. QED
    BY <1>1, <1>2, <2>1 DEF MissingInv
<1>5. QED
  BY <1>3, <1>4 DEF Next

\* When no two legacy rows share a file and a failed INSERT was not committed, "file
\* missing" is only ever said of an asset that was purged while the request ran: in
\* the window between the row's lookup and the opening of the file
\* (service.go:155-162, 290) no other request takes away a file that a row needs.
THEOREM OnlyPurgedMissing ==
    ASSUME UniquePaths, ~AckLoss
    PROVE  Spec => []MissingMeansPurged
<1>1. Init => MissingInv
  <2> SUFFICES ASSUME Init PROVE MissingInv
    OBVIOUS
  <2>1. \A p \in Procs : req[p].pc = "idle"
    BY DEF Init, Idle
  <2>2. QED
    BY <2>1, InitKeeps, InitSeen DEF MissingInv, MissingOK
<1>2. MissingInv => MissingMeansPurged
  BY DEF MissingInv, MissingOK, Gone, MissingMeansPurged, At
<1>3. QED
  BY <1>1, <1>2, NextMissing, PTL DEF Spec

-----------------------------------------------------------------------------
(* No original is left behind. A purge counts the references to its file once, *)
(* before it deletes the row: the count is only out of date when the asset is  *)
(* restored between the purge's lookup and its count, and trashed again before *)
(* the row goes (the run stale_count). Without that, and without faults, every *)
(* original has its row or a request in charge of it.                          *)

\* An asset that a purge has looked up is restored before it has counted.
RestoredUnderPurge ==
    \E p \in Procs : /\ At(p, "purCount")
                     /\ rows[req[p].target].state = "trashed"
                     /\ rows'[req[p].target].state = "active"

\* A purge from its count on; everywhere that a purge comes to.
Counts == {"purCount", "purRow"} \cup Purging
PurgePCs == Purges \cup Purging

\* A purge counts no reference of its own, hence none, and unlinks the file.
PurgeOK(r) ==
    /\ r.op = "purge" => r.pc \in {"answer"} \cup PurgePCs
    /\ r.pc = "purCount" => ~Active(r.target)
    /\ r.pc \in {"purRow"} \cup Purging => r.refs = 0
    /\ r.pc = "answer" /\ r.op = "purge" /\ r.how = "ok" =>
          Gone(r.target) /\ originals[StoragePath(r.target)] = "none"

OrphanInv == SeenInv /\ \A p \in Procs : PurgeOK(req[p])

NoNewStray == \A f \in Ids : Stray(f)' => Stray(f)

-----------------------------------------------------------------------------
(* What a step keeps. *)

LEMMA GotoRefs ==
    ASSUME TypeInv, TypeInv', NEW p \in Procs, NEW pc, NEW local, Goto(p, pc, local)
    PROVE  req'[p].refs = local.refs
<1>1. req \in [Procs -> Request] /\ req'[p] \in Request
  BY DEF TypeInv, ReqOK
<1>2. req' = [req EXCEPT ![p] = [local EXCEPT !.pc = pc]]
  BY DEF Goto
<1>3. req'[p] = [local EXCEPT !.pc = pc]
  BY <1>1, <1>2
<1>4. {"pc", "refs"} \subseteq DOMAIN local
  BY <1>1, <1>3 DEF Request
<1>5. QED
  BY <1>3, <1>4

\* A request stays of its kind until it is idle again.
LEMMA UploadKind ==
    ASSUME SeenInv, NEW p \in Procs, UploadStep(p)
    PROVE  req'[p].op = req[p].op
<1>1. req \in [Procs -> Request] /\ req[p] \in Request
  BY DEF SeenInv, DedupInv, TypeInv, ReqOK
<1>2. CASE UploadFind(p) \/ UploadFindTrash(p) \/ UploadRestore(p) \/ UploadLegacy(p)
  <2>1. CASE UploadFind(p)
    BY <1>1, <2>1 DEF UploadFind, Goto, Answer, Request, Idle
  <2>2. CASE UploadFindTrash(p)
    BY <1>1, <2>2 DEF UploadFindTrash, Goto, Answer, Request, Idle
  <2>3. CASE UploadRestore(p)
    BY <1>1, <2>3 DEF UploadRestore, Goto, Answer, Request, Idle
  <2>4. CASE UploadLegacy(p)
    BY <1>1, <2>4 DEF UploadLegacy, Goto, Answer, Request, Idle
  <2>5. QED
    BY <1>2, <2>1, <2>2, <2>3, <2>4
<1>3. CASE UploadProbe(p)
  BY <1>1, <1>3 DEF UploadProbe, Goto, Answer, Request, Idle
<1>4. CASE UploadBackfill(p) \/ UploadThumb(p) \/ UploadPreview(p)
  <2>1. CASE UploadBackfill(p)
    BY <1>1, <2>1 DEF UploadBackfill, Goto, Answer, Request, Idle
  <2>2. CASE UploadThumb(p)
    BY <1>1, <2>2 DEF UploadThumb, Goto, Answer, Request, Idle
  <2>3. CASE UploadPreview(p)
    BY <1>1, <2>3 DEF UploadPreview, Goto, Answer, Request, Idle
  <2>4. QED
    BY <1>4, <2>1, <2>2, <2>3
<1>5. CASE UploadStore(p)
  BY <1>1, <1>5 DEF UploadStore, Goto, Answer, Request, Idle
<1>6. CASE UploadInsert(p) \/ UploadUndo(p) \/ UploadRefind(p)
  <2>1. CASE UploadInsert(p)
    BY <1>1, <2>1 DEF UploadInsert, Goto, Answer, Request, Idle
  <2>2. CASE UploadUndo(p)
    BY <1>1, <2>2 DEF UploadUndo, Goto, Answer, Request, Idle
  <2>3. CASE UploadRefind(p)
    BY <1>1, <2>3 DEF UploadRefind, Goto, Answer, Request, Idle
  <2>4. QED
    BY <1>6, <2>1, <2>2, <2>3
<1>7. QED
  BY <1>2, <1>3, <1>4, <1>5, <1>6 DEF UploadStep

LEMMA TrashKind ==
    ASSUME SeenInv, NEW p \in Procs, TrashStep(p)
    PROVE  req'[p].op = req[p].op
<1>1. req \in [Procs -> Request] /\ req[p] \in Request
  BY DEF SeenInv, DedupInv, TypeInv, ReqOK
<1>2. CASE DeleteFind(p) \/ DeleteMark(p) \/ RestoreFind(p) \/ RestoreMark(p)
  <2>1. CASE DeleteFind(p)
    BY <1>1, <2>1 DEF DeleteFind, Goto, Answer, Request, Idle
  <2>2. CASE DeleteMark(p)
    BY <1>1, <2>2 DEF DeleteMark, Goto, Answer, Request, Idle
  <2>3. CASE RestoreFind(p)
    BY <1>1, <2>3 DEF RestoreFind, Goto, Answer, Request, Idle
  <2>4. CASE RestoreMark(p)
    BY <1>1, <2>4 DEF RestoreMark, Goto, Answer, Request, Idle
  <2>5. QED
    BY <1>2, <2>1, <2>2, <2>3, <2>4
<1>3. CASE EmptyList(p) \/ EmptyNext(p) \/ PurgeFind(p) \/ PurgeCount(p)
  <2>1. CASE EmptyList(p)
    BY <1>1, <2>1 DEF EmptyList, Goto, Answer, Request, Idle
  <2>2. CASE EmptyNext(p)
    BY <1>1, <2>2 DEF EmptyNext, Goto, Answer, Request, Idle
  <2>3. CASE PurgeFind(p)
    BY <1>1, <2>3 DEF PurgeFind, Goto, Answer, Request, Idle
  <2>4. CASE PurgeCount(p)
    BY <1>1, <2>4 DEF PurgeCount, Goto, Answer, Request, Idle
  <2>5. QED
    BY <1>3, <2>1, <2>2, <2>3, <2>4
<1>4. CASE PurgeRow(p) \/ PurgeThumb(p) \/ PurgePreview(p) \/ PurgeOriginal(p)
  <2>1. CASE PurgeRow(p)
    BY <1>1, <2>1 DEF PurgeRow, Goto, Answer, Request, Idle
  <2>2. CASE PurgeThumb(p)
    BY <1>1, <2>2 DEF PurgeThumb, Goto, Answer, Request, Idle
  <2>3. CASE PurgePreview(p)
    BY <1>1, <2>3 DEF PurgePreview, Goto, Answer, Request, Idle
  <2>4. CASE PurgeOriginal(p)
    BY <1>1, <2>4 DEF PurgeOriginal, Goto, Answer, Request, Idle
  <2>5. QED
    BY <1>4, <2>1, <2>2, <2>3, <2>4
<1>5. QED
  BY <1>2, <1>3, <1>4 DEF TrashStep

LEMMA DerivedKind ==
    ASSUME SeenInv, NEW p \in Procs, DerivedStep(p)
    PROVE  req'[p].op = req[p].op
<1>1. req \in [Procs -> Request] /\ req[p] \in Request
  BY DEF SeenInv, DedupInv, TypeInv, ReqOK
<1>2. CASE DownloadFind(p) \/ DownloadOpen(p) \/ PreviewFind(p) \/ PreviewOpen(p)
  <2>1. CASE DownloadFind(p)
    BY <1>1, <2>1 DEF DownloadFind, FindThen, Goto, Answer, Request, Idle
  <2>2. CASE DownloadOpen(p)
    BY <1>1, <2>2 DEF DownloadOpen, FindThen, Goto, Answer, Request, Idle
  <2>3. CASE PreviewFind(p)
    BY <1>1, <2>3 DEF PreviewFind, FindThen, Goto, Answer, Request, Idle
  <2>4. CASE PreviewOpen(p)
    BY <1>1, <2>4 DEF PreviewOpen, FindThen, Goto, Answer, Request, Idle
  <2>5. QED
    BY <1>2, <2>1, <2>2, <2>3, <2>4
<1>3. CASE ThumbnailFind(p) \/ ThumbnailOpen(p) \/ ThumbnailGenerate(p)
  <2>1. CASE ThumbnailFind(p)
    BY <1>1, <2>1 DEF ThumbnailFind, FindThen, Goto, Answer, Request, Idle
  <2>2. CASE ThumbnailOpen(p)
    BY <1>1, <2>2 DEF ThumbnailOpen, FindThen, Goto, Answer, Request, Idle
  <2>3. CASE ThumbnailGenerate(p)
    BY <1>1, <2>3 DEF ThumbnailGenerate, FindThen, Goto, Answer, Request, Idle
  <2>4. QED
    BY <1>3, <2>1, <2>2, <2>3
<1>4. CASE ThumbnailCreate(p) \/ ThumbnailWrite(p) \/ ThumbnailRecord(p)
  <2>1. CASE ThumbnailCreate(p)
    BY <1>1, <2>1 DEF ThumbnailCreate, Goto, Answer, Request, Idle
  <2>2. CASE ThumbnailWrite(p)
    BY <1>1, <2>2 DEF ThumbnailWrite, Goto, Answer, Request, Idle
  <2>3. CASE ThumbnailRecord(p)
    BY <1>1, <2>3 DEF ThumbnailRecord, Goto, Answer, Request, Idle
  <2>4. QED
    BY <1>4, <2>1, <2>2, <2>3
<1>5. CASE BackfillList(p) \/ BackfillNext(p) \/ BackfillFind(p) \/ BackfillGenerate(p)
  <2>1. CASE BackfillList(p)
    BY <1>1, <2>1 DEF BackfillList, BackfillDone, Goto, Answer, Request, Idle
  <2>2. CASE BackfillNext(p)
    BY <1>1, <2>2 DEF BackfillNext, BackfillDone, Goto, Answer, Request, Idle
  <2>3. CASE BackfillFind(p)
    BY <1>1, <2>3 DEF BackfillFind, BackfillDone, Goto, Answer, Request, Idle
  <2>4. CASE BackfillGenerate(p)
    BY <1>1, <2>4 DEF BackfillGenerate, BackfillDone, Goto, Answer, Request, Idle
  <2>5. QED
    BY <1>5, <2>1, <2>2, <2>3, <2>4
<1>6. CASE BackfillCreate(p) \/ BackfillWrite(p) \/ BackfillRecord(p)
  <2>1. CASE BackfillCreate(p)
    BY <1>1, <2>1 DEF BackfillCreate, BackfillDone, Goto, Answer, Request, Idle
  <2>2. CASE BackfillWrite(p)
    BY <1>1, <2>2 DEF BackfillWrite, BackfillDone, Goto, Answer, Request, Idle
  <2>3. CASE BackfillRecord(p)
    BY <1>1, <2>3 DEF BackfillRecord, BackfillDone, Goto, Answer, Request, Idle
  <2>4. QED
    BY <1>6, <2>1, <2>2, <2>3
<1>7. QED
  BY <1>2, <1>3, <1>4, <1>5, <1>6 DEF DerivedStep

LEMMA FaultKind ==
    ASSUME SeenInv, NEW p \in Procs, FaultStep(p)
    PROVE  req'[p].op \in {req[p].op, Null}
<1>1. req \in [Procs -> Request] /\ req[p] \in Request
  BY DEF SeenInv, DedupInv, TypeInv, ReqOK
<1>2. ASSUME NEW how, NEW a, Answer(p, how, a)
      PROVE  req'[p].op = req[p].op
  BY <1>1, <1>2 DEF Answer, Idle
<1>3. ASSUME NEW pc, Goto(p, pc, req[p])
      PROVE  req'[p].op = req[p].op
  BY <1>1, <1>3 DEF Goto, Request
<1>4. ASSUME NEW how, Goto(p, "upUndo", [req[p] EXCEPT !.how = how])
      PROVE  req'[p].op = req[p].op
  BY <1>1, <1>4 DEF Goto, Request
<1>5. BackfillDone(p, TRUE) => req'[p].op = req[p].op
  BY <1>1 DEF BackfillDone, Goto, Request
<1>6. CASE ReadFails(p)
  <2>1. (\E a : Answer(p, "failed", a)) \/ BackfillDone(p, TRUE)
    BY <1>6, Zenon DEF ReadFails
  <2>2. QED
    BY <1>2, <1>5, <2>1
<1>7. CASE StatementFails(p)
  <2>1. \/ \E how, a : Answer(p, how, a)
        \/ Goto(p, "upUndo", [req[p] EXCEPT !.how = "failed"])
        \/ BackfillDone(p, TRUE)
    BY <1>7, Zenon DEF StatementFails
  <2>2. QED
    BY <1>2, <1>4, <1>5, <2>1
<1>8. CASE OriginalNotSaved(p) \/ ThumbnailNotSaved(p) \/ PreviewNotSaved(p)
  <2>1. \/ \E how, a : Answer(p, how, a)
        \/ \E pc : Goto(p, pc, req[p])
        \/ BackfillDone(p, TRUE)
    BY <1>8, Zenon DEF OriginalNotSaved, ThumbnailNotSaved, PreviewNotSaved
  <2>2. QED
    BY <1>2, <1>3, <1>5, <2>1
<1>9. CASE UnlinkFails(p)
  <2>1. Goto(p, "upRefind", req[p]) \/ \E how, a : Answer(p, how, a)
    BY <1>9, Zenon DEF UnlinkFails
  <2>2. QED
    BY <1>2, <1>3, <2>1
<1>10. CASE Die(p)
  BY <1>1, <1>10 DEF Die, Idle
<1>11. QED
  BY <1>6, <1>7, <1>8, <1>9, <1>10 DEF FaultStep

\* Where there is no original, none comes to be: a new one has a name drawn anew.
OriginalsStay ==
    \A f \in Ids : f \in issued /\ originals[f] = "none" => originals'[f] = "none"

\* All of the invariant after a step of p, as far as it is p's affair.
OrphanStep(p) ==
    OthersKeep(p) /\ PurgeOK(req[p])' /\ OriginalsStay /\ NoNewStray

\* An original of the next state that had its row, or somebody in charge of it,
\* before the step and still has, or gets one.
LEMMA OriginalCovered ==
    ASSUME NEW p \in Procs, OthersKeep(p), NEW f \in Ids, originals'[f] # "none" =>
               \/ /\ originals[f] # "none"
                  /\ \A a \in Ids : Exists(a) /\ StoragePath(a) = f => Exists(a)'
                  /\ InCharge(p, f) => InCharge(p, f)'
               \/ \E a \in Ids : Exists(a)' /\ StoragePath(a) = f
               \/ InCharge(p, f)'
    PROVE  Stray(f)' => Stray(f)
<1>1. \A q \in Procs \ {p} : InCharge(q, f) => InCharge(q, f)'
  BY DEF InCharge, OthersKeep, StoragePath
<1>2. SUFFICES ASSUME Stray(f)' PROVE Stray(f)
  OBVIOUS
<1>3. /\ originals'[f] # "none"
      /\ \A a \in Ids : ~(Exists(a)' /\ StoragePath(a) = f)
      /\ \A q \in Procs : ~InCharge(q, f)'
  BY <1>2 DEF Stray, StoragePath
<1>4. /\ originals[f] # "none"
      /\ \A a \in Ids : Exists(a) /\ StoragePath(a) = f => Exists(a)'
      /\ InCharge(p, f) => InCharge(p, f)'
  BY <1>3
<1>5. QED
  BY <1>1, <1>3, <1>4 DEF Stray

LEMMA OriginalsCovered ==
    ASSUME NEW p \in Procs, OthersKeep(p),
           \A f \in Ids : originals'[f] # "none" =>
               \/ /\ originals[f] # "none"
                  /\ \A a \in Ids : Exists(a) /\ StoragePath(a) = f => Exists(a)'
                  /\ InCharge(p, f) => InCharge(p, f)'
               \/ \E a \in Ids : Exists(a)' /\ StoragePath(a) = f
               \/ InCharge(p, f)'
    PROVE  NoNewStray
BY OriginalCovered DEF NoNewStray

\* p is not at a purge's count or after it, and answers no purge.
Clear(p) ==
    /\ OthersKeep(p) /\ req'[p].pc \notin Counts
    /\ req'[p].op = "purge" => /\ req'[p].pc \in {"answer", "purFind"}
                               /\ req'[p].pc = "answer" => req'[p].how # "ok"

LEMMA ClearPurge ==
    ASSUME NEW p \in Procs, Clear(p)
    PROVE  PurgeOK(req[p])'
BY DEF Clear, PurgeOK, Counts, PurgePCs, Purges, Purging

\* p goes on elsewhere, or answers.
Leaves(p) ==
    \/ \E pc, local : pc \notin {"answer"} \cup Counts /\ Goto(p, pc, local)
    \/ \E how, a : Answer(p, how, a)

LEMMA LeavesClear ==
    ASSUME OrphanInv, TypeInv', NEW p \in Procs, Leaves(p),
           req[p].pc \notin {"answer"} \cup PurgePCs, req'[p].op = req[p].op
    PROVE  Clear(p)
<1>1. req'[p].op # "purge"
  BY DEF OrphanInv, PurgeOK
<1>2. OthersKeep(p) /\ req'[p].pc \notin Counts
  BY GotoSeen, AnswerSeen
     DEF Leaves, OrphanInv, SeenInv, DedupInv, Counts, Purging
<1>3. QED
  BY <1>1, <1>2 DEF Clear

LEMMA RefusesClear ==
    ASSUME OrphanInv, NEW p \in Procs, NEW how, NEW a, Answer(p, how, a), how # "ok"
    PROVE  Clear(p)
<1>1. OthersKeep(p) /\ req'[p].pc = "answer" /\ req'[p].how = how
  BY AnswerSeen DEF OrphanInv, SeenInv, DedupInv
<1>2. QED
  BY <1>1 DEF Clear, Counts, Purging

\* A step of a request that is in charge of nothing, and leaves all originals and
\* assets as they are.
LEMMA UnchargedOrphan ==
    ASSUME OrphanInv, NEW p \in Procs, OthersKeep(p),
           UNCHANGED originals, SameAssets(rows'), req[p].pc \notin Making \cup Purging
    PROVE  OriginalsStay /\ NoNewStray
<1>1. \A f : ~InCharge(p, f)
  BY DEF InCharge, Making, Filling, Purging
<1>2. \A a \in Ids : Exists(a) => Exists(a)'
  BY DEF SameAssets, Exists
<1>3. NoNewStray
  BY <1>1, <1>2, OriginalsCovered
<1>4. QED
  BY <1>3 DEF OriginalsStay

LEMMA ClearOrphan ==
    ASSUME OrphanInv, NEW p \in Procs, Clear(p),
           UNCHANGED originals, SameAssets(rows'), req[p].pc \notin Making \cup Purging
    PROVE  OrphanStep(p)
BY UnchargedOrphan, ClearPurge DEF OrphanStep, Clear

-----------------------------------------------------------------------------
(* Uploads, downloads and derived files. *)

LEMMA DerivedOrphan ==
    ASSUME OrphanInv, TypeInv', NEW p \in Procs, DerivedStep(p)
    PROVE  OrphanStep(p)
<1> USE DEF At
<1> DEFINE r == req[p]
<1>0. SeenInv /\ TypeOK
  BY DEF OrphanInv, SeenInv, DedupInv, TypeInv
<1>1. /\ UNCHANGED originals
      /\ \/ UNCHANGED rows
         \/ \E a, d : rows' \in {UpdateThumbnailStoragePath(a, d),
                                 UpdatePreviewStoragePath(a, d)}
  <2>1. CASE DownloadFind(p) \/ DownloadOpen(p) \/ PreviewFind(p) \/ PreviewOpen(p)
    BY <2>1 DEF DownloadFind, DownloadOpen, PreviewFind, PreviewOpen, FindThen, stored
  <2>2. CASE \/ ThumbnailFind(p) \/ ThumbnailOpen(p) \/ ThumbnailGenerate(p)
             \/ ThumbnailCreate(p) \/ ThumbnailWrite(p)
    BY <2>2 DEF ThumbnailFind, FindThen, ThumbnailOpen, ThumbnailGenerate, ThumbnailCreate,
                ThumbnailWrite, stored
  <2>3. CASE ThumbnailRecord(p) \/ BackfillRecord(p)
    BY <2>3, Zenon DEF ThumbnailRecord, BackfillRecord
  <2>4. CASE \/ BackfillList(p) \/ BackfillNext(p) \/ BackfillFind(p)
             \/ BackfillGenerate(p) \/ BackfillCreate(p) \/ BackfillWrite(p)
    BY <2>4 DEF BackfillList, BackfillNext, BackfillFind, BackfillGenerate, BackfillCreate,
                BackfillWrite, stored
  <2>5. QED
    BY <2>1, <2>2, <2>3, <2>4 DEF DerivedStep
<1>2. SameAssets(rows')
  <2>1. CASE UNCHANGED rows
    BY <2>1 DEF SameAssets
  <2>2. ASSUME NEW a, NEW d, rows' \in {UpdateThumbnailStoragePath(a, d),
                                       UpdatePreviewStoragePath(a, d)}
        PROVE  SameAssets(rows')
    BY <1>0, <2>2, StatementsKeep
  <2>3. QED
    BY <1>1, <2>1, <2>2
<1>3. r.pc \in {"dlFind", "dlOpen", "pvFind", "pvOpen"} \cup ThumbnailWork
                   \cup {"bfList", "bfNext"} \cup BackfillWork
  BY DEF DerivedStep, DownloadFind, DownloadOpen, PreviewFind, PreviewOpen, ThumbnailFind,
         ThumbnailOpen, ThumbnailGenerate, ThumbnailCreate, ThumbnailWrite,
         ThumbnailRecord, BackfillList, BackfillNext, BackfillFind, BackfillGenerate,
         BackfillCreate, BackfillWrite, BackfillRecord, ThumbnailWork, BackfillWork
<1>4. r.pc \notin {"answer"} \cup PurgePCs \cup Making \cup Purging
  BY <1>3 DEF ThumbnailWork, BackfillWork, PurgePCs, Purges, Purging, Making, Filling
<1>5. \/ \E pc \in {"dlOpen", "pvOpen"} \cup ThumbnailWork
                      \cup {"bfNext"} \cup BackfillWork :
            \E local : Goto(p, pc, local)
      \/ \E how, a : Answer(p, how, a)
  <2>1. CASE DownloadFind(p) \/ DownloadOpen(p) \/ PreviewFind(p) \/ PreviewOpen(p)
    BY <2>1 DEF DownloadFind, DownloadOpen, PreviewFind, PreviewOpen, FindThen
  <2>2. CASE ThumbnailFind(p) \/ ThumbnailOpen(p) \/ ThumbnailGenerate(p)
    BY <2>2 DEF ThumbnailFind, FindThen, ThumbnailOpen, ThumbnailGenerate, ThumbnailWork
  <2>3. CASE ThumbnailCreate(p) \/ ThumbnailWrite(p) \/ ThumbnailRecord(p)
    BY <2>3 DEF ThumbnailCreate, ThumbnailWrite, ThumbnailRecord, ThumbnailWork
  <2>4. CASE BackfillList(p) \/ BackfillNext(p) \/ BackfillFind(p) \/ BackfillGenerate(p)
    BY <2>4 DEF BackfillList, BackfillNext, BackfillFind, BackfillGenerate, BackfillDone,
                BackfillWork
  <2>5. CASE BackfillCreate(p) \/ BackfillWrite(p) \/ BackfillRecord(p)
    BY <2>5 DEF BackfillCreate, BackfillWrite, BackfillRecord, BackfillDone, BackfillWork
  <2>6. QED
    BY <2>1, <2>2, <2>3, <2>4, <2>5 DEF DerivedStep
<1>6. Leaves(p)
  BY <1>5 DEF Leaves, Counts, Purging, ThumbnailWork, BackfillWork
<1>7. Clear(p)
  BY <1>0, <1>4, <1>6, LeavesClear, DerivedKind
<1>8. QED
  BY <1>1, <1>2, <1>4, <1>7, ClearOrphan

\* An upload is in charge of its original until its row is there, or the file is
\* unlinked again.
LEMMA UploadOrphan ==
    ASSUME OrphanInv, TypeInv', NEW p \in Procs, UploadStep(p)
    PROVE  OrphanStep(p)
<1> USE DEF At
<1> DEFINE r == req[p]
           a == r.target
<1>0. /\ SeenInv /\ TypeInv /\ TypeOK /\ r \in Request
      /\ r.pc \in Making => a \in issued \ Legacy /\ a \in Ids
  BY Locals DEF OrphanInv, SeenInv, DedupInv, TypeInv, TypeOK, LocalsAllFit, LocalsFit
<1>1. r.pc \in UploadPCs \ {"answer"}
  BY DEF UploadStep, UploadFind, UploadFindTrash, UploadRestore, UploadLegacy, UploadProbe,
         UploadBackfill, UploadStore, UploadThumb, UploadPreview, UploadInsert, UploadUndo,
         UploadRefind, stored, UploadPCs, BeforeFiles, Filling
<1>2. r.pc \notin {"answer"} \cup PurgePCs
  BY <1>1 DEF UploadPCs, BeforeFiles, Filling, PurgePCs, Purges, Purging
<1>3. Leaves(p)
  <2>1. \/ \E pc \in UploadPCs \ {"answer"} : \E local : Goto(p, pc, local)
        \/ \E how, b : Answer(p, how, b)
    <3>1. CASE UploadFind(p) \/ UploadFindTrash(p) \/ UploadRestore(p) \/ UploadLegacy(p)
      BY <3>1 DEF UploadFind, UploadFindTrash, UploadRestore, UploadLegacy, UploadPCs,
                  BeforeFiles
    <3>2. CASE UploadProbe(p) \/ UploadBackfill(p) \/ UploadRefind(p)
      BY <3>2 DEF UploadProbe, UploadBackfill, UploadRefind, UploadPCs, BeforeFiles
    <3>3. CASE UploadStore(p) \/ UploadThumb(p) \/ UploadPreview(p)
      BY <3>3 DEF UploadStore, UploadThumb, UploadPreview, UploadPCs, Filling
    <3>4. CASE UploadInsert(p) \/ UploadUndo(p)
      BY <3>4 DEF UploadInsert, UploadUndo, UploadPCs, BeforeFiles
    <3>5. QED
      BY <3>1, <3>2, <3>3, <3>4 DEF UploadStep
  <2>2. QED
    BY <2>1 DEF Leaves, Counts, Purging, UploadPCs, BeforeFiles, Filling
<1>4. Clear(p)
  BY <1>0, <1>2, <1>3, LeavesClear, UploadKind
<1>5. OthersKeep(p) /\ PurgeOK(req[p])'
  BY <1>4, ClearPurge DEF Clear
<1>6. CASE \/ UploadFind(p) \/ UploadFindTrash(p) \/ UploadRestore(p) \/ UploadLegacy(p)
           \/ UploadProbe(p) \/ UploadBackfill(p) \/ UploadRefind(p)
  <2>1. UNCHANGED originals /\ r.pc \notin Making \cup Purging
    BY <1>6 DEF UploadFind, UploadFindTrash, UploadRestore, UploadLegacy, UploadProbe,
                UploadBackfill, UploadRefind, stored, Making, Filling, Purging
  <2>2. \/ UNCHANGED rows \/ \E b : rows' = Restore(b)
        \/ \E b, h : rows' = UpdateContentHash(b, h)
    BY <1>6, Zenon DEF UploadFind, UploadFindTrash, UploadRestore, UploadLegacy,
                       UploadProbe, UploadBackfill, UploadRefind, stored
  <2>3. /\ SameAssets(rows) /\ \A b : SameAssets(Restore(b))
        /\ \A b, h : SameAssets(UpdateContentHash(b, h))
    BY <1>0, StatementsKeep
  <2>4. SameAssets(rows')
    BY <2>2, <2>3
  <2>5. QED
    BY <1>4, <1>5, <2>1, <2>4, ClearOrphan
<1>7. CASE UploadStore(p)
  <2>1. PICK b \in Ids \ issued :
          /\ originals' = [originals EXCEPT ![b] = r.content]
          /\ UNCHANGED rows /\ r.pc = "upStore"
          /\ \E row : Goto(p, "upThumb", [r EXCEPT !.target = b, !.asset = row])
    BY <1>7, Zenon DEF UploadStore
  <2>2. PICK row : Goto(p, "upThumb", [r EXCEPT !.target = b, !.asset = row])
    BY <2>1
  <2> DEFINE l == [r EXCEPT !.target = b, !.asset = row]
  <2>3. l.target = b
    BY <1>0 DEF Request
  <2>4. Goto(p, "upThumb", l)
    BY <2>2
  <2> HIDE DEF l
  <2>5. req'[p].pc = "upThumb" /\ req'[p].target = b
    BY <1>0, <2>3, <2>4, GotoSeen
  <2>6. \A f \in Ids : f # b => originals'[f] = originals[f]
    BY <1>0, <2>1 DEF TypeOK
  <2>7. \A f : ~InCharge(p, f)
    BY <2>1 DEF InCharge
  <2>8. InCharge(p, b)'
    BY <2>5 DEF InCharge
  <2>9. NoNewStray
    BY <1>5, <2>1, <2>6, <2>7, <2>8, OriginalsCovered DEF Exists
  <2>10. OriginalsStay
    BY <2>1, <2>6 DEF OriginalsStay
  <2>11. QED
    BY <1>5, <2>9, <2>10 DEF OrphanStep
<1>8. CASE UploadThumb(p) \/ UploadPreview(p)
  <2> DEFINE l == [r EXCEPT !.asset.thumb = today]
             m == [r EXCEPT !.asset.preview = today]
  <2>1. UNCHANGED <<rows, originals>> /\ r.pc \in {"upThumb", "upPreview"}
    BY <1>8 DEF UploadThumb, UploadPreview
  <2>2. \/ Goto(p, "upPreview", l) \/ Goto(p, "upPreview", r)
        \/ Goto(p, "upInsert", m) \/ Goto(p, "upInsert", r)
    BY <1>8, Zenon DEF UploadThumb, UploadPreview
  <2>3. l.target = a /\ m.target = a
    BY <1>0 DEF Request
  <2> HIDE DEF l, m
  <2>4. req'[p].pc \in {"upPreview", "upInsert"} /\ req'[p].target = a
    BY <1>0, <2>2, <2>3, GotoSeen
  <2>5. \A f : InCharge(p, f) => InCharge(p, f)'
    BY <2>1, <2>4 DEF InCharge
  <2>6. NoNewStray
    BY <1>5, <2>1, <2>5, OriginalsCovered DEF Exists
  <2>7. QED
    BY <1>5, <2>1, <2>6 DEF OrphanStep, OriginalsStay
<1>9. CASE UploadInsert(p)
  <2> DEFINE outcome == SaveOutcome(a, r.asset)
             l == [r EXCEPT !.how = outcome]
  <2>1. /\ UNCHANGED originals /\ r.pc = "upInsert" /\ rows' = Save(a, r.asset)
        /\ \/ outcome = "ok" /\ Answer(p, "created", a)
           \/ outcome # "ok" /\ Goto(p, "upUndo", l)
    BY <1>9 DEF UploadInsert
  <2>2. l.target = a
    BY <1>0 DEF Request
  <2> HIDE DEF l
  <2> PICK b, asset : b = a /\ asset = r.asset
    OBVIOUS
  <2>3. b \in Ids \ Legacy /\ StoragePath(b) = b /\ asset.state = "active"
    BY <1>0, <2>1, Locals DEF Making, Filling, StoragePath
  <2>4. \A f : InCharge(p, f) => f = b
    BY <2>1 DEF InCharge
  <2>5. CASE outcome = "ok" /\ Answer(p, "created", a)
    <3>1. rows' = [rows EXCEPT ![b] = asset]
      BY <2>1, <2>5 DEF Save
    <3>2. rows'[b] = asset /\ \A c \in Ids : c # b => rows'[c] = rows[c]
      BY <1>0, <2>3, <3>1 DEF TypeOK
    <3>3. Exists(b)' /\ \A c \in Ids : Exists(c) => Exists(c)'
      BY <2>3, <3>2 DEF Exists
    <3>4. NoNewStray
      BY <1>5, <2>1, <2>3, <2>4, <3>3, OriginalsCovered
    <3>5. QED
      BY <1>5, <2>1, <3>4 DEF OrphanStep, OriginalsStay
  <2>6. CASE outcome # "ok" /\ Goto(p, "upUndo", l)
    <3>1. UNCHANGED rows
      BY <2>1, <2>6 DEF Save
    <3>2. req'[p].pc = "upUndo" /\ req'[p].target = b
      BY <1>0, <2>2, <2>6, GotoSeen
    <3>3. InCharge(p, b)'
      BY <3>2 DEF InCharge
    <3>4. NoNewStray
      BY <1>5, <2>1, <2>4, <3>1, <3>3, OriginalsCovered DEF Exists
    <3>5. QED
      BY <1>5, <2>1, <3>4 DEF OrphanStep, OriginalsStay
  <2>7. QED
    BY <2>1, <2>5, <2>6
<1>10. CASE UploadUndo(p)
  <2>1. /\ UNCHANGED rows /\ r.pc = "upUndo"
        /\ originals' = [originals EXCEPT ![a] = "none"]
    BY <1>10 DEF UploadUndo
  <2>2. /\ \A f \in Ids : f # a => originals'[f] = originals[f]
        /\ a \in Ids /\ originals'[a] = "none"
    BY <1>0, <2>1 DEF TypeOK, Making
  <2>3. \A f : InCharge(p, f) => f = a
    BY <2>1 DEF InCharge
  <2>4. NoNewStray
    BY <1>5, <2>1, <2>2, <2>3, OriginalsCovered DEF Exists
  <2>5. OriginalsStay
    BY <2>2 DEF OriginalsStay
  <2>6. QED
    BY <1>5, <2>4, <2>5 DEF OrphanStep
<1>11. QED
  BY <1>6, <1>7, <1>8, <1>9, <1>10 DEF UploadStep

-----------------------------------------------------------------------------
(* Purges and the rest of the trash. *)

\* The asset looked up is in the trash, and counts as no reference to its own file.
LEMMA CountsNone ==
    ASSUME UniquePaths, NEW a \in Ids, ~Active(a)
    PROVE  CountByStoragePath(StoragePath(a)) = 0
<1>1. {b \in Ids : rows[b].state = "active" /\ StoragePath(b) = StoragePath(a)} = {}
  BY PathsDiffer DEF Active
<1>2. QED
  BY <1>1, FS_EmptySet DEF CountByStoragePath

LEMMA PurgeOrphan ==
    ASSUME UniquePaths, OrphanInv, TypeInv', AllStay, NEW p \in Procs,
           \/ PurgeFind(p) \/ PurgeCount(p) \/ PurgeRow(p)
           \/ PurgeThumb(p) \/ PurgePreview(p) \/ PurgeOriginal(p)
    PROVE  OrphanStep(p)
<1> USE DEF At
<1> DEFINE r == req[p]
<1> PICK a, f : a = r.target /\ f = StoragePath(a)
  OBVIOUS
<1>0. /\ SeenInv /\ TypeInv /\ TypeOK /\ r \in Request /\ PurgeOK(r) /\ TargetOK(r)
      /\ a \in Ids
  BY Locals DEF OrphanInv, SeenInv, DedupInv, TypeInv, AllSeenOK, SeenOK, NeedsTarget,
                PurgeFind, PurgeCount, PurgeRow, PurgeThumb, PurgePreview, PurgeOriginal
<1>1. CASE PurgeFind(p)
  <2> DEFINE l == [r EXCEPT !.asset = rows[r.target]]
  <2>1. /\ UNCHANGED <<rows, originals>> /\ r.pc = "purFind"
        /\ \/ FindDeletedByID(a) # {} /\ Goto(p, "purCount", l)
           \/ Answer(p, "notFound", r.target)
    BY <1>1 DEF PurgeFind, stored
  <2>2. l.op = r.op /\ l.target = a
    BY <1>0 DEF Request
  <2> HIDE DEF l
  <2>3. r.pc \notin Making \cup Purging
    BY <2>1 DEF Making, Filling, Purging
  <2>4. CASE FindDeletedByID(a) # {} /\ Goto(p, "purCount", l)
    <3>1. OthersKeep(p) /\ req'[p].pc = "purCount" /\ req'[p].target = a
      BY <1>0, <2>2, <2>4, GotoSeen
    <3>2. ~Active(a)'
      BY <2>1, <2>4 DEF FindDeletedByID, Active
    <3>3. PurgeOK(req[p])'
      BY <3>1, <3>2 DEF PurgeOK, PurgePCs, Purges, Purging
    <3>4. QED
      BY <2>1, <2>3, <3>1, <3>3, UnchargedOrphan DEF OrphanStep, SameAssets
  <2>5. CASE Answer(p, "notFound", r.target)
    BY <2>1, <2>3, <2>5, RefusesClear, ClearOrphan DEF SameAssets
  <2>6. QED
    BY <2>1, <2>4, <2>5
<1>2. CASE PurgeCount(p)
  <2> DEFINE l == [r EXCEPT !.refs = CountByStoragePath(f)]
  <2>1. UNCHANGED <<rows, originals>> /\ r.pc = "purCount" /\ Goto(p, "purRow", l)
    BY <1>2 DEF PurgeCount, stored
  <2>2. CountByStoragePath(f) = 0
    BY <1>0, <2>1, CountsNone DEF PurgeOK
  <2>3. l.refs = 0
    BY <1>0, <2>2 DEF Request
  <2> HIDE DEF l
  <2>4. OthersKeep(p) /\ req'[p].pc = "purRow" /\ req'[p].refs = 0
    BY <1>0, <2>1, <2>3, GotoSeen, GotoRefs
  <2>5. PurgeOK(req[p])'
    BY <2>4 DEF PurgeOK, PurgePCs, Purges, Purging
  <2>6. QED
    BY <2>1, <2>4, <2>5, UnchargedOrphan
       DEF OrphanStep, SameAssets, Making, Filling, Purging
<1>3. CASE PurgeRow(p)
  <2>1. /\ UNCHANGED originals /\ r.pc = "purRow" /\ rows' = Delete(a)
        /\ \/ DeleteOutcome(a) = "ok" /\ Goto(p, "purThumb", r)
           \/ DeleteOutcome(a) # "ok" /\ Answer(p, DeleteOutcome(a), a)
    BY <1>3 DEF PurgeRow
  <2>2. r.refs = 0 /\ r.pc \notin Making \cup Purging
    BY <1>0, <2>1 DEF PurgeOK, Making, Filling, Purging
  <2>3. CASE DeleteOutcome(a) = "ok" /\ Goto(p, "purThumb", r)
    <3>1. /\ OthersKeep(p) /\ req'[p].pc = "purThumb" /\ req'[p].target = a
          /\ req'[p].refs = 0
      BY <1>0, <2>2, <2>3, GotoSeen, GotoRefs
    <3>2. PurgeOK(req[p])'
      BY <3>1 DEF PurgeOK, PurgePCs, Purges, Purging
    <3>3. \A b \in Ids : Exists(b) /\ b # a => Exists(b)'
      BY <1>0, <2>1, <2>3 DEF Delete, Exists, TypeOK
    <3>4. InCharge(p, f)'
      BY <3>1 DEF InCharge, StoragePath
    <3>5. \A g : ~InCharge(p, g)
      BY <2>1 DEF InCharge
    <3>6. \A b \in Ids : StoragePath(b) # f => b # a
      OBVIOUS
    <3>7. NoNewStray
      BY <2>1, <3>1, <3>3, <3>4, <3>5, <3>6, OriginalsCovered
    <3>8. QED
      BY <2>1, <3>1, <3>2, <3>7 DEF OrphanStep, OriginalsStay
  <2>4. CASE DeleteOutcome(a) # "ok" /\ Answer(p, DeleteOutcome(a), a)
    <3>1. SameAssets(rows')
      BY <2>1, <2>4 DEF Delete, SameAssets
    <3>2. QED
      BY <2>1, <2>2, <2>4, <3>1, RefusesClear, ClearOrphan
  <2>5. QED
    BY <2>1, <2>3, <2>4
<1>4. CASE PurgeThumb(p) \/ PurgePreview(p)
  <2>1. /\ UNCHANGED <<rows, originals>> /\ r.pc \in {"purThumb", "purPreview"}
        /\ \E pc \in {"purPreview", "purOriginal"} : Goto(p, pc, r)
    BY <1>4 DEF PurgeThumb, PurgePreview
  <2>2. /\ OthersKeep(p) /\ req'[p].pc \in {"purPreview", "purOriginal"}
        /\ req'[p].target = a /\ req'[p].refs = r.refs
    BY <1>0, <2>1, GotoSeen, GotoRefs
  <2>3. r.refs = 0
    BY <1>0, <2>1 DEF PurgeOK, Purging
  <2>4. PurgeOK(req[p])'
    BY <2>2, <2>3 DEF PurgeOK, PurgePCs, Purges, Purging
  <2>5. \A g : InCharge(p, g) => InCharge(p, g)'
    BY <2>1, <2>2, <2>3 DEF InCharge, StoragePath
  <2>6. NoNewStray
    BY <2>1, <2>2, <2>5, OriginalsCovered DEF Exists
  <2>7. QED
    BY <2>1, <2>2, <2>4, <2>6 DEF OrphanStep, OriginalsStay
<1>5. CASE PurgeOriginal(p)
  <2> DEFINE l == [r EXCEPT !.target = Null, !.asset = NoRow, !.refs = 0]
  <2>1. /\ UNCHANGED rows /\ r.pc = "purOriginal"
        /\ \/ r.op = "purge" /\ Answer(p, "ok", a)
           \/ r.op = "empty" /\ Goto(p, "purNext", l)
    BY <1>5 DEF PurgeOriginal
  <2>2. originals' = IF r.refs > 0 THEN originals ELSE [originals EXCEPT ![f] = "none"]
    BY <1>5 DEF PurgeOriginal
  <2>3. r.refs = 0 /\ Gone(a)
    BY <1>0, <2>1 DEF PurgeOK, TargetOK, Purging
  <2>4. originals' = [originals EXCEPT ![f] = "none"] /\ f \in Ids
    BY <1>0, <2>2, <2>3, LegacyAssumption DEF StoragePath
  <2>5. originals'[f] = "none" /\ \A g \in Ids : g # f => originals'[g] = originals[g]
    BY <1>0, <2>4 DEF TypeOK
  <2>6. \A g : InCharge(p, g) => g = f
    BY <2>1 DEF InCharge
  <2>7. OthersKeep(p) /\ PurgeOK(req[p])'
    <3>1. CASE r.op = "purge" /\ Answer(p, "ok", a)
      <4>1. /\ OthersKeep(p) /\ req'[p].pc = "answer" /\ req'[p].target = a
        BY <1>0, <3>1, AnswerSeen
      <4>2. Gone(a)'
        BY <2>3, SeenStays
      <4>3. PurgeOK(req[p])'
        BY <2>5, <4>1, <4>2 DEF PurgeOK, Purging, StoragePath
      <4>4. QED
        BY <4>1, <4>3
    <3>2. CASE r.op = "empty" /\ Goto(p, "purNext", l)
      <4>1. l.op = r.op
        BY <1>0 DEF Request
      <4> HIDE DEF l
      <4>2. OthersKeep(p) /\ req'[p].pc = "purNext" /\ req'[p].op = "empty"
        BY <1>0, <3>2, <4>1, GotoSeen
      <4>3. QED
        BY <4>2 DEF PurgeOK, Purging
    <3>3. QED
      BY <2>1, <3>1, <3>2
  <2>8. NoNewStray
    BY <2>1, <2>5, <2>6, <2>7, OriginalsCovered DEF Exists
  <2>9. OriginalsStay
    BY <2>5 DEF OriginalsStay
  <2>10. QED
    BY <2>7, <2>8, <2>9 DEF OrphanStep
<1>6. QED
  BY <1>1, <1>2, <1>3, <1>4, <1>5

LEMMA TrashOrphan ==
    ASSUME UniquePaths, OrphanInv, TypeInv', AllStay, NEW p \in Procs, TrashStep(p)
    PROVE  OrphanStep(p)
<1> USE DEF At
<1> DEFINE r == req[p]
<1>0. SeenInv /\ TypeOK
  BY DEF OrphanInv, SeenInv, DedupInv, TypeInv
<1>1. CASE \/ DeleteFind(p) \/ DeleteMark(p) \/ RestoreFind(p) \/ RestoreMark(p)
           \/ EmptyList(p) \/ EmptyNext(p)
  <2>1. /\ r.pc \in {"delFind", "delMark", "resFind", "resMark", "emptyList", "purNext"}
        /\ UNCHANGED originals
        /\ rows' \in {rows, SoftDelete(r.target), Restore(r.target)}
    BY <1>1 DEF DeleteFind, DeleteMark, RestoreFind, RestoreMark, EmptyList, EmptyNext,
                stored
  <2>2. r.pc \notin {"answer"} \cup PurgePCs \cup Making \cup Purging
    BY <2>1 DEF PurgePCs, Purges, Purging, Making, Filling
  <2>3. SameAssets(rows')
    BY <1>0, <2>1, StatementsKeep
  <2>4. \/ \E pc \in {"delMark", "resMark", "purNext", "purFind"} :
              \E local : Goto(p, pc, local)
        \/ \E how, a : Answer(p, how, a)
    BY <1>1 DEF DeleteFind, DeleteMark, RestoreFind, RestoreMark, EmptyList, EmptyNext
  <2>5. Leaves(p)
    BY <2>4 DEF Leaves, Counts, Purging
  <2>6. Clear(p)
    BY <1>0, <1>1, <2>2, <2>5, LeavesClear, TrashKind
  <2>7. QED
    BY <2>1, <2>2, <2>3, <2>6, ClearOrphan
<1>2. CASE \/ PurgeFind(p) \/ PurgeCount(p) \/ PurgeRow(p)
           \/ PurgeThumb(p) \/ PurgePreview(p) \/ PurgeOriginal(p)
  BY <1>2, PurgeOrphan
<1>3. QED
  BY <1>1, <1>2 DEF TrashStep

-----------------------------------------------------------------------------
(* Beginnings, faults and the rest. *)

LEMMA StartOrphan ==
    ASSUME OrphanInv, NEW p \in Procs, Start(p) \/ Respond(p)
    PROVE  OrphanStep(p)
<1>0. req \in [Procs -> Request]
  BY DEF OrphanInv, SeenInv, DedupInv, TypeInv, ReqOK
<1>1. UNCHANGED <<rows, originals>> /\ req[p].pc \in {"idle", "answer"}
  BY DEF Start, StartUpload, StartDelete, StartRestore, StartPurge,
         StartEmptyTrash, StartDownload, StartPreview, StartThumbnail,
         StartTrashThumbnail, StartBackfill, StartOn, Begin, Respond, At, stored
<1>2. Clear(p) => OrphanStep(p)
  BY <1>1, ClearOrphan DEF SameAssets, Making, Filling, Purging
<1>3. CASE Respond(p)
  <2>1. OthersKeep(p) /\ req'[p].pc = "idle" /\ req'[p].op # "purge"
    BY <1>0, <1>3, ConstantsAssumption DEF Respond, Idle, OthersKeep, AllKinds
  <2>2. QED
    BY <1>2, <2>1 DEF Clear, Counts, Purging
<1>4. ASSUME NEW kind, NEW local, NEW first, Begin(p, kind, first, local),
             {"pc", "op"} \subseteq DOMAIN local, first \notin Counts,
             kind = "purge" => first = "purFind"
      PROVE  OrphanStep(p)
  <2>1. req'[p] = [local EXCEPT !.op = kind, !.pc = first] /\ OthersKeep(p)
    BY <1>0, <1>4 DEF Begin, OthersKeep
  <2>2. req'[p].pc = first /\ req'[p].op = kind
    BY <1>4, <2>1
  <2>3. QED
    BY <1>2, <1>4, <2>1, <2>2 DEF Clear
<1>5. CASE StartUpload(p)
  <2>1. PICK c, action :
            LET local == [Idle EXCEPT !.content = c, !.action = action]
            IN \/ Begin(p, "upload", "upFind", local)
               \/ Begin(p, "upload", "answer", [local EXCEPT !.how = "unsupported"])
    BY <1>5, Zenon DEF StartUpload
  <2> DEFINE local == [Idle EXCEPT !.content = c, !.action = action]
             refused == [local EXCEPT !.how = "unsupported"]
  <2>2. {"pc", "op"} \subseteq DOMAIN local /\ {"pc", "op"} \subseteq DOMAIN refused
    BY DEF Idle
  <2>3. Begin(p, "upload", "upFind", local) \/ Begin(p, "upload", "answer", refused)
    BY <2>1
  <2> HIDE DEF local, refused
  <2>4. QED
    BY <1>4, <2>2, <2>3 DEF Counts, Purging
<1>6. CASE StartEmptyTrash(p) \/ StartBackfill(p)
  BY <1>4, <1>6 DEF StartEmptyTrash, StartBackfill, Idle, Counts, Purging
<1>7. CASE \/ StartDelete(p) \/ StartRestore(p) \/ StartPurge(p)
           \/ StartDownload(p) \/ StartPreview(p) \/ StartThumbnail(p)
           \/ StartTrashThumbnail(p)
  <2>1. PICK a \in issued :
            \/ Begin(p, "delete", "delFind", [Idle EXCEPT !.target = a])
            \/ Begin(p, "restore", "resFind", [Idle EXCEPT !.target = a])
            \/ Begin(p, "purge", "purFind", [Idle EXCEPT !.target = a])
            \/ Begin(p, "download", "dlFind", [Idle EXCEPT !.target = a])
            \/ Begin(p, "preview", "pvFind", [Idle EXCEPT !.target = a])
            \/ Begin(p, "thumbnail", "thFind", [Idle EXCEPT !.target = a])
            \/ Begin(p, "trashThumbnail", "thTrashFind", [Idle EXCEPT !.target = a])
    BY <1>7, Zenon
       DEF StartDelete, StartRestore, StartPurge, StartDownload,
           StartPreview, StartThumbnail, StartTrashThumbnail, StartOn
  <2> DEFINE local == [Idle EXCEPT !.target = a]
  <2>2. {"pc", "op"} \subseteq DOMAIN local
    BY DEF Idle
  <2>3. PICK kind, first :
            /\ <<kind, first>> \in
                 {<<"delete", "delFind">>, <<"restore", "resFind">>, <<"purge", "purFind">>,
                  <<"download", "dlFind">>, <<"preview", "pvFind">>,
                  <<"thumbnail", "thFind">>, <<"trashThumbnail", "thTrashFind">>}
            /\ Begin(p, kind, first, local)
    BY <2>1
  <2> HIDE DEF local
  <2>4. first \notin Counts /\ (kind = "purge" => first = "purFind")
    BY <2>3 DEF Counts, Purging
  <2>5. QED
    BY <1>4, <2>2, <2>3, <2>4
<1>8. QED
  BY <1>3, <1>5, <1>6, <1>7 DEF Start

\* No purge that a fault stops is told that it has succeeded.
LEMMA FaultOrphan ==
    ASSUME OrphanInv, TypeInv', NEW p \in Procs, FaultStep(p)
    PROVE  OthersKeep(p) /\ PurgeOK(req[p])' /\ OriginalsStay
<1> USE DEF At
<1> DEFINE r == req[p]
<1>0. /\ SeenInv /\ TypeInv /\ TypeOK /\ r \in Request /\ req \in [Procs -> Request]
      /\ r.pc = "upUndo" => r.target \in Ids
  BY Locals DEF OrphanInv, SeenInv, DedupInv, TypeInv, ReqOK, NeedsTarget
<1>1. OriginalsStay
  <2>1. CASE OriginalNotSaved(p)
    <3>1. PICK a \in Ids \ issued :
              originals' \in {originals, [originals EXCEPT ![a] = "partial"]}
      BY <2>1 DEF OriginalNotSaved
    <3>2. QED
      BY <1>0, <3>1 DEF OriginalsStay, TypeOK
  <2>2. CASE UnlinkFails(p)
    BY <1>0, <2>2 DEF UnlinkFails, OriginalsStay, TypeOK
  <2>3. CASE \/ ReadFails(p) \/ StatementFails(p) \/ ThumbnailNotSaved(p)
             \/ PreviewNotSaved(p) \/ Die(p)
    BY <2>3 DEF ReadFails, StatementFails, ThumbnailNotSaved, PreviewNotSaved, Die,
                OriginalsStay
  <2>4. QED
    BY <2>1, <2>2, <2>3 DEF FaultStep
<1>2. Clear(p)
  <2>1. CASE Die(p)
    <3>1. OthersKeep(p) /\ req'[p].pc = "idle" /\ req'[p].op # "purge"
      BY <1>0, <2>1, ConstantsAssumption DEF Die, Idle, OthersKeep, AllKinds
    <3>2. QED
      BY <3>1 DEF Clear, Counts, Purging
  <2>2. ASSUME r.pc \notin {"answer"} \cup PurgePCs, Leaves(p) PROVE Clear(p)
    <3>1. r.op # "purge"
      BY <2>2 DEF OrphanInv, PurgeOK
    <3>2. req'[p].op # "purge"
      BY <1>0, <3>1, FaultKind, ConstantsAssumption DEF AllKinds
    <3>3. OthersKeep(p) /\ req'[p].pc \notin Counts
      BY <1>0, <2>2, GotoSeen, AnswerSeen DEF Leaves, Counts, Purging
    <3>4. QED
      BY <3>2, <3>3 DEF Clear
  <2>3. ASSUME NEW how, NEW a, how # "ok", Answer(p, how, a) PROVE Clear(p)
    BY <2>3, RefusesClear
  <2>4. ASSUME r.pc \in {"upThumb", "upPreview", "upInsert", "upUndo", "bfFind",
                         "bfCreate", "bfWrite", "bfRecord"},
               NEW pc \in {"upPreview", "upInsert", "upUndo", "upRefind", "bfNext"},
               NEW local, Goto(p, pc, local)
        PROVE  Clear(p)
    <3>1. r.pc \notin {"answer"} \cup PurgePCs
      BY <2>4 DEF PurgePCs, Purges, Purging
    <3>2. Leaves(p)
      BY <2>4 DEF Leaves, Counts, Purging
    <3>3. QED
      BY <2>2, <3>1, <3>2
  <2>5. CASE ReadFails(p)
    <3>1. \/ \E a : Answer(p, "failed", a)
          \/ r.pc = "bfFind" /\ \E local : Goto(p, "bfNext", local)
      BY <2>5, Zenon DEF ReadFails, BackfillDone
    <3>2. QED
      BY <2>3, <2>4, <3>1
  <2>6. CASE StatementFails(p)
    <3>1. \/ \E a : Answer(p, "failed", a) \/ Answer(p, "served", a)
          \/ r.pc = "upInsert" /\ \E local : Goto(p, "upUndo", local)
          \/ r.pc = "bfRecord" /\ \E local : Goto(p, "bfNext", local)
      BY <2>6, Zenon DEF StatementFails, BackfillDone
    <3>2. QED
      BY <2>3, <2>4, <3>1
  <2>7. CASE OriginalNotSaved(p)
    BY <2>3, <2>7 DEF OriginalNotSaved
  <2>8. CASE ThumbnailNotSaved(p) \/ PreviewNotSaved(p)
    <3>1. \/ \E a : Answer(p, "served", a)
          \/ r.pc = "upThumb" /\ \E local : Goto(p, "upPreview", local)
          \/ r.pc = "upPreview" /\ \E local : Goto(p, "upInsert", local)
          \/ r.pc = "bfCreate" /\ \E local : Goto(p, "bfNext", local)
          \/ r.pc = "bfWrite" /\ \E local : Goto(p, "bfNext", local)
      BY <2>8, Zenon DEF ThumbnailNotSaved, PreviewNotSaved, BackfillDone
    <3>2. QED
      BY <2>3, <2>4, <3>1
  <2>9. CASE UnlinkFails(p)
    <3>1. \/ \E a : Answer(p, "failed", a)
          \/ r.pc = "upUndo" /\ \E local : Goto(p, "upRefind", local)
          \/ r.pc = "upUndo" /\ \E how, a : Answer(p, how, a)
      BY <2>9, Zenon DEF UnlinkFails
    <3>2. CASE r.pc = "upUndo" /\ \E how, a : Answer(p, how, a)
      <4>1. r.pc \notin {"answer"} \cup PurgePCs
        BY <3>2 DEF PurgePCs, Purges, Purging
      <4>2. QED
        BY <2>2, <3>2, <4>1 DEF Leaves
    <3>3. QED
      BY <2>3, <2>4, <3>1, <3>2
  <2>10. QED
    BY <2>1, <2>5, <2>6, <2>7, <2>8, <2>9 DEF FaultStep
<1>3. QED
  BY <1>1, <1>2, ClearPurge DEF Clear

-----------------------------------------------------------------------------
(* The theorems. *)

\* What the other requests know of their purges stays true.
LEMMA OthersPurge ==
    ASSUME OrphanInv, AllStay, ~RestoredUnderPurge, OriginalsStay,
           NEW q \in Procs, req'[q] = req[q]
    PROVE  PurgeOK(req[q])'
<1> PICK r, a : r = req[q] /\ a = r.target
  OBVIOUS
<1>0. /\ PurgeOK(r) /\ TargetOK(r) /\ r = req'[q]
      /\ r.pc = "purCount" => a \in Ids
      /\ rows \in [Ids -> Row] /\ issued \subseteq Ids
  BY Locals
     DEF OrphanInv, SeenInv, DedupInv, TypeInv, TypeOK, AllSeenOK, SeenOK, NeedsTarget
<1>1. r.pc = "purCount" => ~Active(a)'
  <2>1. SUFFICES ASSUME r.pc = "purCount", rows'[a].state = "active" PROVE FALSE
    BY DEF Active
  <2>2. rows[a].state \in {"none", "active", "trashed"}
    BY <1>0, <2>1 DEF Row
  <2>3. Settled(a) /\ ~Active(a)
    BY <1>0, <2>1 DEF PurgeOK, TargetOK, Looked
  <2>4. rows[a].state # "none"
    BY <2>1, <2>3 DEF AllStay, Stays
  <2>5. QED
    BY <2>1, <2>2, <2>3, <2>4 DEF RestoredUnderPurge, At, Active
<1>2. Gone(a) /\ originals[StoragePath(a)] = "none" =>
          Gone(a)' /\ originals'[StoragePath(a)] = "none"
  <2>1. SUFFICES ASSUME Gone(a), originals[StoragePath(a)] = "none"
                 PROVE  Gone(a)' /\ originals'[StoragePath(a)] = "none"
    OBVIOUS
  <2>2. a \in issued /\ Legacy \subseteq issued
    BY <2>1 DEF Gone, Settled, OrphanInv, SeenInv, DedupInv, IssuedOK
  <2>3. StoragePath(a) \in issued /\ StoragePath(a) \in Ids
    BY <1>0, <2>2, LegacyAssumption DEF StoragePath
  <2>4. QED
    BY <2>1, <2>3, SeenStays DEF OriginalsStay
<1>3. PurgeOK(r)'
  BY <1>0, <1>1, <1>2 DEF PurgeOK, StoragePath
<1>4. QED
  BY <1>0, <1>3 DEF PurgeOK

LEMMA InitOrphan == Init => OrphanInv
<1> SUFFICES ASSUME Init PROVE OrphanInv
  OBVIOUS
<1>1. \A p \in Procs : req[p] = Idle
  BY DEF Init
<1>2. Idle.pc = "idle" /\ Idle.op # "purge"
  BY ConstantsAssumption DEF Idle, AllKinds
<1>3. \A p \in Procs : PurgeOK(req[p])
  BY <1>1, <1>2 DEF PurgeOK, Purging
<1>4. QED
  BY <1>3, InitSeen DEF OrphanInv

LEMMA NextOrphan ==
    ASSUME UniquePaths
    PROVE  OrphanInv /\ [Next]_vars /\ [~RestoredUnderPurge]_vars => OrphanInv'
<1> SUFFICES ASSUME OrphanInv, [Next]_vars, [~RestoredUnderPurge]_vars PROVE OrphanInv'
  OBVIOUS
<1>1. SeenInv' /\ SeenNext /\ AllStay /\ TypeInv'
  BY NextSeen DEF OrphanInv, SeenNext, SeenInv, DedupInv
<1>2. CASE UNCHANGED vars
  <2>1. UNCHANGED <<rows, originals, issued, faults, req>>
    BY <1>2 DEF vars
  <2>2. \A p \in Procs : PurgeOK(req[p])'
    BY <2>1 DEF OrphanInv, PurgeOK, Gone, Settled, Exists, Active, StoragePath
  <2>3. QED
    BY <1>1, <2>2 DEF OrphanInv
<1>3. CASE Midnight
  <2>1. UNCHANGED <<rows, originals, issued, faults, req>>
    BY <1>3 DEF Midnight
  <2>2. \A p \in Procs : PurgeOK(req[p])'
    BY <2>1 DEF OrphanInv, PurgeOK, Gone, Settled, Exists, Active, StoragePath
  <2>3. QED
    BY <1>1, <2>2 DEF OrphanInv
<1>4. ASSUME NEW p \in Procs, Start(p) \/ Step(p) \/ FaultStep(p), ~RestoredUnderPurge
      PROVE  OrphanInv'
  <2>1. OthersKeep(p) /\ PurgeOK(req[p])' /\ OriginalsStay
    BY <1>1, <1>4, StartOrphan, UploadOrphan, TrashOrphan, DerivedOrphan, FaultOrphan
       DEF Step, OrphanStep
  <2>2. ASSUME NEW q \in Procs PROVE PurgeOK(req[q])'
    <3>1. CASE q = p
      BY <2>1, <3>1
    <3>2. CASE q # p
      BY <1>1, <1>4, <2>1, <3>2, OthersPurge DEF OthersKeep
    <3>3. QED
      BY <3>1, <3>2
  <2>3. QED
    BY <1>1, <2>2 DEF OrphanInv
<1>5. QED
  BY <1>2, <1>3, <1>4 DEF Next

LEMMA OrphanAlways ==
    ASSUME UniquePaths
    PROVE  Spec /\ [][~RestoredUnderPurge]_vars => []OrphanInv
<1>1. QED
  BY InitOrphan, NextOrphan, PTL DEF Spec

\* When no two legacy rows share a file, and no asset is restored under a purge that is
\* about to count its references (between service.go:208 and 213: the window of the
\* run stale_count), a purge that reports success has unlinked the original, whatever else
\* runs beside it and whatever fails (service.go:234-240).
THEOREM PurgesUnlink ==
    ASSUME UniquePaths
    PROVE  Spec /\ [][~RestoredUnderPurge]_vars => []PurgedOriginalsGone
<1>1. OrphanInv => PurgedOriginalsGone
  BY DEF OrphanInv, PurgeOK, PurgedOriginalsGone, At
<1>2. QED
  BY <1>1, OrphanAlways, PTL

-----------------------------------------------------------------------------
(* What a failure costs. An upload whose INSERT was committed unseen is about  *)
(* to unlink the file of a row that is there: that file counts as lost from    *)
(* the failure on, else the clean-up, no failure itself, would be what costs   *)
(* it. With this a step costs nothing, and a fault of a request one original:  *)
(* the one its target names, or the one it was drawing.                        *)

\* A file is lost, or its upload is about to unlink it though the row is there.
AtRisk(f) == Lost(f) \/ \E p \in Procs : At(p, "upUndo") /\ req[p].target = f /\ Exists(f)

\* An upload that gives up owns its id no more than anybody else.
UndoSettled == \A p \in Procs : req[p].pc = "upUndo" => Settled(req[p].target)

RiskInv == SeenInv /\ FillingOK /\ UndoSettled

NoNewRisk == \A f \in Ids : AtRisk(f)' => AtRisk(f)

\* What a step does of its own to the table, to the originals and to its locals.
LEMMA StepTable ==
    ASSUME TypeInv, NEW p \in Procs, Step(p)
    PROVE  SameAssets(rows') \/ UploadInsert(p) \/ PurgeRow(p)
<1>0. TypeOK
  BY DEF TypeInv
<1>1. CASE UNCHANGED rows
  BY <1>1 DEF SameAssets
<1>2. CASE UploadRestore(p) \/ UploadBackfill(p)
  BY <1>0, <1>2, StatementsKeep DEF UploadRestore, UploadBackfill
<1>3. CASE DeleteMark(p) \/ RestoreMark(p)
  BY <1>0, <1>3, StatementsKeep DEF DeleteMark, RestoreMark
<1>4. CASE ThumbnailRecord(p) \/ BackfillRecord(p)
  BY <1>0, <1>4, StatementsKeep DEF ThumbnailRecord, BackfillRecord
<1>5. UploadStep(p) => \/ UNCHANGED rows
                       \/ UploadRestore(p) \/ UploadBackfill(p) \/ UploadInsert(p)
  BY DEF UploadStep, UploadFind, UploadFindTrash, UploadLegacy, UploadProbe,
         UploadStore, UploadThumb, UploadPreview, UploadUndo, UploadRefind, stored
<1>6. TrashStep(p) => \/ UNCHANGED rows
                      \/ DeleteMark(p) \/ RestoreMark(p) \/ PurgeRow(p)
  BY DEF TrashStep, DeleteFind, RestoreFind, EmptyList, EmptyNext, PurgeFind,
         PurgeCount, PurgeThumb, PurgePreview, PurgeOriginal, stored
<1>7. DerivedStep(p) => UNCHANGED rows \/ ThumbnailRecord(p) \/ BackfillRecord(p)
  BY DEF DerivedStep, DownloadFind, DownloadOpen, PreviewFind, PreviewOpen,
         ThumbnailFind, ThumbnailOpen, ThumbnailGenerate, ThumbnailCreate,
         ThumbnailWrite, BackfillList, BackfillNext, BackfillFind,
         BackfillGenerate, BackfillCreate, BackfillWrite, FindThen, stored
<1>8. Respond(p) => UNCHANGED rows
  BY DEF Respond, stored
<1>9. QED
  BY <1>1, <1>2, <1>3, <1>4, <1>5, <1>6, <1>7, <1>8 DEF Step

LEMMA StepFiles ==
    ASSUME NEW p \in Procs, Step(p)
    PROVE  /\ UNCHANGED faults
           /\ UNCHANGED originals \/ UploadStore(p) \/ UploadUndo(p) \/ PurgeOriginal(p)
<1>1. CASE UploadStep(p)
  BY <1>1 DEF UploadStep, UploadFind, UploadFindTrash, UploadRestore, UploadLegacy,
         UploadProbe, UploadBackfill, UploadStore, UploadThumb, UploadPreview,
         UploadInsert, UploadUndo, UploadRefind, stored
<1>2. CASE TrashStep(p)
  BY <1>2 DEF TrashStep, DeleteFind, DeleteMark, RestoreFind, RestoreMark, EmptyList,
         EmptyNext, PurgeFind, PurgeCount, PurgeRow, PurgeThumb, PurgePreview,
         PurgeOriginal, stored
<1>3. CASE DerivedStep(p)
  BY <1>3 DEF DerivedStep, DownloadFind, DownloadOpen, PreviewFind, PreviewOpen,
         ThumbnailFind, ThumbnailOpen, ThumbnailGenerate, ThumbnailCreate,
         ThumbnailWrite, ThumbnailRecord, BackfillList, BackfillNext, BackfillFind,
         BackfillGenerate, BackfillCreate, BackfillWrite, BackfillRecord, FindThen, stored
<1>4. CASE Respond(p)
  BY <1>4 DEF Respond, stored
<1>5. QED
  BY <1>1, <1>2, <1>3, <1>4 DEF Step

\* Only an upload comes to own an id, or to give it up.
LEMMA StepMakes ==
    ASSUME TypeInv, TypeInv', NEW p \in Procs, Step(p)
    PROVE  \/ OthersKeep(p) /\ req'[p].pc \notin Making
           \/ UploadStore(p) \/ UploadThumb(p) \/ UploadPreview(p) \/ UploadInsert(p)
<1> USE DEF At
<1>1. ASSUME NEW pc, NEW local, Goto(p, pc, local), pc \notin Making
      PROVE  OthersKeep(p) /\ req'[p].pc \notin Making
  BY <1>1, GotoSeen
<1>2. ASSUME NEW how, NEW a, Answer(p, how, a)
      PROVE  OthersKeep(p) /\ req'[p].pc \notin Making
  BY <1>2, AnswerSeen DEF Making, Filling
<1>3. ASSUME \/ \E pc \in PCs \ Making : \E local : Goto(p, pc, local)
             \/ \E how, a : Answer(p, how, a)
      PROVE  OthersKeep(p) /\ req'[p].pc \notin Making
  BY <1>1, <1>2, <1>3
<1>4. CASE UploadStep(p)
  <2>1. CASE UploadFind(p) \/ UploadFindTrash(p) \/ UploadRestore(p) \/ UploadLegacy(p)
    BY <1>3, <2>1 DEF UploadFind, UploadFindTrash, UploadRestore, UploadLegacy, PCs, Making,
                      Filling
  <2>2. CASE UploadProbe(p) \/ UploadBackfill(p)
    BY <1>3, <2>2 DEF UploadProbe, UploadBackfill, PCs, Making, Filling
  <2>3. CASE UploadUndo(p) \/ UploadRefind(p)
    BY <1>3, <2>3 DEF UploadUndo, UploadRefind, PCs, Making, Filling
  <2>4. QED
    BY <1>4, <2>1, <2>2, <2>3 DEF UploadStep
<1>5. CASE TrashStep(p)
  <2>1. CASE DeleteFind(p) \/ DeleteMark(p) \/ RestoreFind(p) \/ RestoreMark(p)
    BY <1>3, <2>1 DEF DeleteFind, DeleteMark, RestoreFind, RestoreMark, PCs, Making, Filling
  <2>2. CASE EmptyList(p) \/ EmptyNext(p) \/ PurgeFind(p) \/ PurgeCount(p)
    BY <1>3, <2>2 DEF EmptyList, EmptyNext, PurgeFind, PurgeCount, PCs, Making, Filling
  <2>3. CASE PurgeRow(p) \/ PurgeThumb(p) \/ PurgePreview(p) \/ PurgeOriginal(p)
    BY <1>3, <2>3 DEF PurgeRow, PurgeThumb, PurgePreview, PurgeOriginal, PCs, Making, Filling
  <2>4. QED
    BY <1>5, <2>1, <2>2, <2>3 DEF TrashStep
<1>6. CASE DerivedStep(p)
  <2>1. CASE DownloadFind(p) \/ DownloadOpen(p) \/ PreviewFind(p) \/ PreviewOpen(p)
    BY <1>3, <2>1 DEF DownloadFind, DownloadOpen, PreviewFind, PreviewOpen, FindThen, PCs,
                      Making, Filling
  <2>2. CASE ThumbnailFind(p) \/ ThumbnailOpen(p) \/ ThumbnailGenerate(p)
    BY <1>3, <2>2 DEF ThumbnailFind, FindThen, ThumbnailOpen, ThumbnailGenerate, PCs, Making,
                      Filling
  <2>3. CASE ThumbnailCreate(p) \/ ThumbnailWrite(p) \/ ThumbnailRecord(p)
    BY <1>3, <2>3 DEF ThumbnailCreate, ThumbnailWrite, ThumbnailRecord, PCs, Making, Filling
  <2>4. CASE BackfillList(p) \/ BackfillNext(p) \/ BackfillFind(p) \/ BackfillGenerate(p)
    BY <1>3, <2>4 DEF BackfillList, BackfillNext, BackfillFind, BackfillGenerate,
                      BackfillDone, PCs, Making, Filling
  <2>5. CASE BackfillCreate(p) \/ BackfillWrite(p) \/ BackfillRecord(p)
    BY <1>3, <2>5 DEF BackfillCreate, BackfillWrite, BackfillRecord, BackfillDone, PCs,
                      Making, Filling
  <2>6. QED
    BY <1>6, <2>1, <2>2, <2>3, <2>4, <2>5 DEF DerivedStep
<1>7. CASE Respond(p)
  BY <1>7 DEF TypeInv, ReqOK, Respond, Idle, OthersKeep, Making, Filling
<1>8. QED
  BY <1>4, <1>5, <1>6, <1>7 DEF Step

\* Originals stay where they are but for those of the id drawn, given up or purged.
LEMMA StepOriginals ==
    ASSUME UniquePaths, SeenInv, NEW p \in Procs, Step(p)
    PROVE  /\ \A f \in issued : originals'[f] = originals[f] \/ f = StoragePath(req[p].target)
           /\ \A f \in Ids : \/ originals'[f] = originals[f]
                             \/ UploadStore(p) /\ f \notin issued
                             \/ UploadUndo(p) /\ f = req[p].target
                             \/ PurgeOriginal(p) /\ f = StoragePath(req[p].target)
<1> USE DEF At
<1>0. TypeOK /\ issued \subseteq Ids
  BY DEF SeenInv, DedupInv, TypeInv, TypeOK
<1>1. CASE UNCHANGED originals
  BY <1>1
<1>2. CASE UploadStore(p)
  <2>1. PICK b \in Ids \ issued : originals' = [originals EXCEPT ![b] = req[p].content]
    BY <1>2 DEF UploadStore
  <2>2. QED
    BY <1>0, <1>2, <2>1 DEF TypeOK
<1>3. CASE UploadUndo(p)
  <2>1. req[p].target \in issued \ Legacy
    BY <1>3 DEF UploadUndo, SeenInv, DedupInv, LocalsAllFit, LocalsFit, Making
  <2>2. originals' = [originals EXCEPT ![req[p].target] = "none"]
    BY <1>3 DEF UploadUndo
  <2>3. StoragePath(req[p].target) = req[p].target
    BY <2>1 DEF StoragePath
  <2>4. QED
    BY <1>0, <1>3, <2>2, <2>3 DEF TypeOK
<1>4. CASE PurgeOriginal(p)
  <2>1. \/ UNCHANGED originals
        \/ originals' = [originals EXCEPT ![StoragePath(req[p].target)] = "none"]
    BY <1>4 DEF PurgeOriginal
  <2>2. QED
    BY <1>0, <1>4, <2>1 DEF TypeOK
<1>5. QED
  BY <1>1, <1>2, <1>3, <1>4, StepFiles

\* The id that an upload still has to insert is the path of no other row, and nobody
\* else's to unlink.
LEMMA OwnOriginal ==
    ASSUME RiskInv, NEW q \in Procs, req[q].pc \in Filling, NEW p \in Procs, p # q,
           req[p].pc \in Making \cup Purging
    PROVE  StoragePath(req[p].target) # req[q].target
<1>1. req[q].target \in issued \ Legacy
  BY DEF RiskInv, SeenInv, DedupInv, LocalsAllFit, LocalsFit, Making
<1>2. req[p].target \in Ids /\ req[p].target # req[q].target
  <2>1. CASE req[p].pc \in Filling
    BY <2>1, Locals DEF RiskInv, SeenInv, DedupInv, OwnersOK, Filling, NeedsTarget
  <2>2. CASE req[p].pc = "upUndo"
    BY <2>2, Locals DEF RiskInv, SeenInv, DedupInv, UndoSettled, Settled, NeedsTarget
  <2>3. CASE req[p].pc \in Purging
    BY <2>3, Locals
       DEF RiskInv, SeenInv, DedupInv, AllSeenOK, SeenOK, TargetOK, Gone, Settled, Purging,
           NeedsTarget
  <2>4. QED
    BY <2>1, <2>2, <2>3 DEF Making
<1>3. QED
  BY <1>1, <1>2, LegacyAssumption DEF StoragePath

\* What an upload in the making does to what it owns.
LEMMA StepOwns ==
    ASSUME RiskInv, TypeInv', NEW p \in Procs,
           UploadStore(p) \/ UploadThumb(p) \/ UploadPreview(p) \/ UploadInsert(p)
    PROVE  /\ OthersKeep(p)
           /\ req'[p].pc \in Filling => originals'[req'[p].target] = req'[p].asset.content
           /\ req'[p].pc = "upUndo" => /\ UploadInsert(p) /\ req'[p].target = req[p].target
                                       /\ UNCHANGED rows
<1> USE DEF At
<1> DEFINE r == req[p]
<1>0. TypeInv /\ TypeOK /\ r \in Request
  BY Locals DEF RiskInv, SeenInv, DedupInv, TypeInv
<1>1. CASE UploadStore(p)
  <2> DEFINE asset == [state |-> "active", content |-> r.content, hash |-> r.content,
                       thumb |-> NoPath, preview |-> NoPath]
  <2>1. PICK a \in Ids \ issued :
            /\ originals' = [originals EXCEPT ![a] = r.content]
            /\ Goto(p, "upThumb", [r EXCEPT !.target = a, !.asset = asset])
    BY <1>1 DEF UploadStore
  <2>2. asset.content = r.content
    OBVIOUS
  <2> HIDE DEF asset
  <2> DEFINE l == [r EXCEPT !.target = a, !.asset = asset]
  <2>3. l.target = a /\ l.asset = asset /\ Goto(p, "upThumb", l)
    BY <1>0, <2>1 DEF Request
  <2> HIDE DEF l
  <2>4. /\ OthersKeep(p) /\ req'[p].pc = "upThumb"
        /\ req'[p].target = a /\ req'[p].asset = asset
    BY <1>0, <2>3, GotoSeen
  <2>5. originals'[a] = r.content
    BY <1>0, <2>1 DEF TypeOK
  <2>6. QED
    BY <2>2, <2>4, <2>5
<1>2. CASE UploadThumb(p) \/ UploadPreview(p)
  <2> DEFINE l == [r EXCEPT !.asset.thumb = today]
             m == [r EXCEPT !.asset.preview = today]
  <2>1. UNCHANGED originals /\ r.pc \in Filling
    BY <1>2 DEF UploadThumb, UploadPreview, Filling
  <2>2. \/ Goto(p, "upPreview", l) \/ Goto(p, "upPreview", r)
        \/ Goto(p, "upInsert", m) \/ Goto(p, "upInsert", r)
    BY <1>2, Zenon DEF UploadThumb, UploadPreview
  <2>3. /\ l.target = r.target /\ l.asset.content = r.asset.content
        /\ m.target = r.target /\ m.asset.content = r.asset.content
    BY <1>0 DEF Request, Row
  <2> HIDE DEF l, m
  <2>4. /\ OthersKeep(p) /\ req'[p].pc \in {"upPreview", "upInsert"}
        /\ req'[p].target = r.target /\ req'[p].asset.content = r.asset.content
    BY <1>0, <2>2, <2>3, GotoSeen
  <2>5. QED
    BY <2>1, <2>4 DEF RiskInv, FillingOK
<1>3. CASE UploadInsert(p)
  <2> DEFINE outcome == SaveOutcome(r.target, r.asset)
             l == [r EXCEPT !.how = outcome]
  <2>1. /\ rows' = Save(r.target, r.asset)
        /\ \/ outcome = "ok" /\ Answer(p, "created", r.target)
           \/ outcome # "ok" /\ Goto(p, "upUndo", l)
    BY <1>3 DEF UploadInsert
  <2>2. l.target = r.target
    BY <1>0 DEF Request
  <2> HIDE DEF l
  <2>3. CASE outcome = "ok" /\ Answer(p, "created", r.target)
    BY <1>0, <2>3, AnswerSeen DEF Filling
  <2>4. CASE outcome # "ok" /\ Goto(p, "upUndo", l)
    <3>1. /\ OthersKeep(p) /\ req'[p].pc = "upUndo" /\ req'[p].target = r.target
      BY <1>0, <2>2, <2>4, GotoSeen
    <3>2. UNCHANGED rows
      BY <2>1, <2>4 DEF Save
    <3>3. QED
      BY <1>3, <3>1, <3>2 DEF Filling
  <2>5. QED
    BY <2>1, <2>3, <2>4
<1>4. QED
  BY <1>1, <1>2, <1>3

LEMMA StepRiskInv ==
    ASSUME UniquePaths, RiskInv, SeenInv', AllStay, NEW p \in Procs, Step(p)
    PROVE  RiskInv'
<1>0. TypeInv /\ TypeInv' /\ SeenInv /\ TypeOK
  BY DEF RiskInv, SeenInv, DedupInv, TypeInv
<1>1. OthersKeep(p)
  BY <1>0, StepMakes, StepOwns
<1>2. ASSUME NEW q \in Procs, req'[q].pc \in Filling
      PROVE  originals'[req'[q].target] = req'[q].asset.content
  <2>1. CASE q = p
    BY <1>0, <1>2, <2>1, StepMakes, StepOwns DEF Making
  <2>2. CASE q # p
    <3>1. req'[q] = req[q] /\ req[q].pc \in Filling
      BY <1>1, <1>2, <2>2 DEF OthersKeep
    <3>2. req[q].target \in issued /\ originals[req[q].target] = req[q].asset.content
      BY <3>1 DEF RiskInv, SeenInv, DedupInv, LocalsAllFit, LocalsFit, FillingOK, Making
    <3>3. originals'[req[q].target] = originals[req[q].target]
      <4>1. UploadUndo(p) \/ PurgeOriginal(p) => req[p].pc \in Making \cup Purging
        BY DEF UploadUndo, PurgeOriginal, At, Making, Purging
      <4>2. UploadUndo(p) \/ PurgeOriginal(p) =>
                req[q].target # StoragePath(req[p].target)
        BY <2>2, <3>1, <4>1, OwnOriginal
      <4>3. req[q].target \in Ids
        BY <1>0, <3>2 DEF TypeOK
      <4>4. UploadUndo(p) => StoragePath(req[p].target) = req[p].target
        BY DEF UploadUndo, At, RiskInv, SeenInv, DedupInv, LocalsAllFit, LocalsFit, Making,
               StoragePath
      <4>5. QED
        BY <1>0, <3>2, <4>2, <4>3, <4>4, StepOriginals
    <3>4. QED
      BY <3>1, <3>2, <3>3
  <2>3. QED
    BY <2>1, <2>2
<1>3. ASSUME NEW q \in Procs, req'[q].pc = "upUndo"
      PROVE  Settled(req[q].target)'
  <2>1. CASE q # p
    <3>1. req'[q] = req[q] /\ Settled(req[q].target)
      BY <1>1, <1>3, <2>1 DEF OthersKeep, RiskInv, UndoSettled
    <3>2. QED
      BY <3>1, SeenStays DEF Settled
  <2>2. CASE q = p
    <3>1. UploadInsert(p) /\ req'[p].target = req[p].target
      BY <1>0, <1>3, <2>2, StepMakes, StepOwns DEF Making
    <3>2. req[p].pc \in Filling /\ issued' = issued
      BY <3>1 DEF UploadInsert, At, Filling
    <3>3. /\ req[p].target \in issued
          /\ \A u \in Procs \ {p} : req[u].pc \in Filling => req[u].target # req[p].target
      BY <3>2 DEF RiskInv, SeenInv, DedupInv, LocalsAllFit, LocalsFit, OwnersOK, Making
    <3>4. req'[p].pc \notin Filling
      BY <1>3, <2>2 DEF Filling
    <3>5. QED
      BY <1>1, <2>2, <3>1, <3>2, <3>3, <3>4 DEF Settled, OthersKeep
  <2>3. QED
    BY <2>1, <2>2
<1>4. FillingOK' /\ UndoSettled'
  BY <1>2, <1>3 DEF FillingOK, UndoSettled, Settled
<1>5. QED
  BY <1>4 DEF RiskInv

\* A file at risk after a step that is not a fault was so before.
LEMMA StepRisk ==
    ASSUME UniquePaths, RiskInv, TypeInv', NEW p \in Procs, Step(p)
    PROVE  NoNewRisk
<1> USE DEF At
<1> DEFINE r == req[p]
<1>0. TypeInv /\ TypeInv' /\ SeenInv /\ TypeOK
  BY DEF RiskInv, SeenInv, DedupInv, TypeInv
<1>1. OthersKeep(p)
  BY <1>0, StepMakes, StepOwns
<1>2. SUFFICES ASSUME NEW f \in Ids, AtRisk(f)' PROVE AtRisk(f)
  BY DEF NoNewRisk
\* The row that was there, and its content, unless it is inserted now.
<1>3. ASSUME NEW a \in Ids, Exists(a)'
      PROVE  \/ Exists(a) /\ rows'[a].content = rows[a].content
             \/ /\ UploadInsert(p) /\ a = r.target /\ rows'[a] = r.asset
                /\ req'[p].pc # "upUndo"
  <2>1. CASE SameAssets(rows')
    BY <1>3, <2>1 DEF SameAssets, Exists
  <2>2. CASE PurgeRow(p)
    BY <1>0, <1>3, <2>2 DEF PurgeRow, Delete, Exists, TypeOK, NoRow
  <2>3. CASE UploadInsert(p)
    <3>1. UNCHANGED rows \/ rows' = [rows EXCEPT ![r.target] = r.asset]
      BY <2>3 DEF UploadInsert, Save
    <3>2. req'[p].pc = "upUndo" => UNCHANGED rows
      BY <1>0, <2>3, StepOwns
    <3>3. QED
      BY <1>0, <1>3, <2>3, <3>1, <3>2 DEF Exists, TypeOK
  <2>4. QED
    BY <1>0, <2>1, <2>2, <2>3, StepTable
<1>4. UploadInsert(p) => r.pc \in Filling /\ r.target \in issued \ Legacy
  BY DEF UploadInsert, Filling, Making, RiskInv, SeenInv, DedupInv, LocalsAllFit, LocalsFit
<1>5. CASE Lost(f)'
  <2>1. PICK a \in Ids : Exists(a)' /\ StoragePath(a) = f /\ originals'[f] # rows'[a].content
    BY <1>5 DEF Lost, StoragePath
  <2>2. CASE UploadInsert(p) /\ a = r.target /\ rows'[a] = r.asset
    <3>1. f = r.target /\ originals'[f] = originals[f]
      BY <1>4, <2>1, <2>2 DEF UploadInsert, StoragePath
    <3>2. originals[f] = r.asset.content
      BY <1>4, <2>2, <3>1 DEF RiskInv, FillingOK
    <3>3. QED
      BY <2>1, <2>2, <3>1, <3>2
  <2>3. CASE Exists(a) /\ rows'[a].content = rows[a].content
    <3>1. CASE originals'[f] = originals[f]
      BY <2>1, <2>3, <3>1 DEF AtRisk, Lost
    <3>2. f \in issued
      BY <1>0, <2>1, <2>3, LegacyAssumption DEF SeenInv, DedupInv, IssuedOK, StoragePath
    <3>3. CASE UploadUndo(p) /\ f = r.target
      <4>1. r.pc = "upUndo" /\ f \notin Legacy
        BY <3>3 DEF UploadUndo, RiskInv, SeenInv, DedupInv, LocalsAllFit, LocalsFit, Making
      <4>2. a = f
        BY <2>1, <4>1, LegacyAssumption DEF StoragePath
      <4>3. QED
        BY <2>3, <3>3, <4>1, <4>2 DEF AtRisk
    <3>4. CASE PurgeOriginal(p) /\ f = StoragePath(r.target)
      <4>1. Gone(r.target) /\ r.target \in Ids
        BY <1>0, <3>4, Locals
           DEF PurgeOriginal, RiskInv, SeenInv, AllSeenOK, SeenOK, TargetOK, Purging,
               NeedsTarget
      <4>2. a = r.target
        BY <2>1, <3>4, <4>1, PathsDiffer
      <4>3. QED
        BY <2>3, <4>1, <4>2 DEF Gone
    <3>5. QED
      BY <1>0, <3>1, <3>2, <3>3, <3>4, StepOriginals
  <2>4. QED
    BY <1>3, <2>1, <2>2, <2>3
<1>6. CASE \E q \in Procs : /\ req'[q].pc = "upUndo" /\ req'[q].target = f
                           /\ rows'[f].state # "none"
  <2>1. PICK q \in Procs : req'[q].pc = "upUndo" /\ req'[q].target = f /\ Exists(f)'
    BY <1>6 DEF Exists
  <2>2. CASE q # p
    <3>1. req[q].pc = "upUndo" /\ req[q].target = f /\ Settled(f)
      BY <1>1, <2>1, <2>2 DEF OthersKeep, RiskInv, UndoSettled
    <3>2. Exists(f)
      BY <1>3, <1>4, <2>1, <3>1 DEF Settled
    <3>3. QED
      BY <3>1, <3>2 DEF AtRisk
  <2>3. CASE q = p
    <3>1. UploadInsert(p) /\ f = r.target /\ UNCHANGED rows
      BY <1>0, <2>1, <2>3, StepMakes, StepOwns DEF Making
    <3>2. ~Exists(f)
      BY <1>4, <3>1 DEF RiskInv, SeenInv, DedupInv, OwnersOK
    <3>3. QED
      BY <2>1, <3>1, <3>2 DEF Exists
  <2>4. QED
    BY <2>2, <2>3
<1>7. QED
  BY <1>2, <1>5, <1>6 DEF AtRisk, Exists

-----------------------------------------------------------------------------
\* A fault of p touches one original, x, and the rows that name it.
Touches(p, x) ==
    /\ OthersKeep(p)
    /\ \A f \in Ids : f # x => originals'[f] = originals[f]
    /\ \A a \in Ids : StoragePath(a) # x =>
          /\ rows'[a].state = "none" <=> rows[a].state = "none"
          /\ rows'[a].content = rows[a].content
    /\ \A f : InCharge(p, f) => f = x
    /\ req'[p].pc = "upUndo" => /\ req[p].pc = "upInsert" /\ req[p].target = x
                                /\ req'[p].target = x /\ UNCHANGED issued
    /\ req'[p].pc \in Filling => /\ req[p].pc \in Filling /\ UNCHANGED originals
                                 /\ req'[p].target = req[p].target
                                 /\ req'[p].asset.content = req[p].asset.content
    /\ req[p].pc # "upUndo" => \A f \in issued : originals'[f] = originals[f]

\* What the statement does that p is about to run.
LEMMA ExecutedTouches ==
    ASSUME TypeInv, NEW p \in Procs, rows' = Executed(p),
           req[p].pc \in {"upRestore", "upBackfill", "delMark", "resMark", "purRow",
                          "upInsert", "thRecord", "bfRecord"}
    PROVE  \A a \in Ids : a # req[p].target =>
              /\ rows'[a].state = "none" <=> rows[a].state = "none"
              /\ rows'[a].content = rows[a].content
<1> DEFINE t == req[p].target
<1>0. TypeOK /\ t \in Ids /\ rows \in [Ids -> Row]
  BY Locals DEF TypeInv, TypeOK, NeedsTarget
<1>1. CASE req[p].pc = "upInsert"
  <2>1. rows' = Save(t, req[p].asset)
    BY <1>1 DEF Executed
  <2>2. QED
    BY <1>0, <2>1 DEF Save
<1>2. CASE req[p].pc = "purRow"
  <2>1. rows' = Delete(t)
    BY <1>2 DEF Executed
  <2>2. QED
    BY <1>0, <2>1 DEF Delete
<1>3. CASE req[p].pc \notin {"upInsert", "purRow"}
  <2>1. \/ rows' = Restore(t) \/ \E h : rows' = UpdateContentHash(t, h)
        \/ rows' = SoftDelete(t) \/ \E d : rows' = UpdateThumbnailStoragePath(t, d)
        \/ \E d : rows' = UpdatePreviewStoragePath(t, d)
    BY <1>3 DEF Executed
  <2>2. SameAssets(rows')
    BY <1>0, <2>1, StatementsKeep
  <2>3. QED
    BY <2>2 DEF SameAssets
<1>4. QED
  BY <1>1, <1>2, <1>3

LEMMA FaultTouches ==
    ASSUME UniquePaths, SeenInv, TypeInv', NEW p \in Procs, FaultStep(p)
    PROVE  \E x : Touches(p, x)
<1> USE DEF At
<1> DEFINE r == req[p]
<1> PICK t, y : t = r.target /\ y = StoragePath(t)
  OBVIOUS
<1>0. /\ TypeInv /\ TypeOK /\ r \in Request /\ req \in [Procs -> Request]
      /\ r.pc \in NeedsTarget => t \in Ids
      /\ r.pc \in Making => t \in issued \ Legacy /\ y = t
  BY Locals
     DEF SeenInv, DedupInv, TypeInv, ReqOK, LocalsAllFit, LocalsFit, StoragePath
<1>1. \A f : InCharge(p, f) => f = y
  BY <1>0 DEF InCharge, Making, Filling
<1>2. ASSUME NEW how, NEW a, Answer(p, how, a)
      PROVE  OthersKeep(p) /\ req'[p].pc \notin Making
  BY <1>0, <1>2, AnswerSeen DEF Making, Filling
<1>3. BackfillDone(p, TRUE) => OthersKeep(p) /\ req'[p].pc \notin Making
  BY <1>0, GotoSeen DEF BackfillDone, Making, Filling
<1>4. ASSUME OthersKeep(p), req'[p].pc \notin Making, UNCHANGED <<rows, originals>>
      PROVE  Touches(p, y)
  BY <1>1, <1>4 DEF Touches, Making
<1>5. CASE ReadFails(p)
  <2>1. UNCHANGED <<rows, originals>>
    BY <1>5 DEF ReadFails
  <2>2. (\E a : Answer(p, "failed", a)) \/ BackfillDone(p, TRUE)
    BY <1>5, Zenon DEF ReadFails
  <2>3. QED
    BY <1>2, <1>3, <1>4, <2>1, <2>2
<1>6. CASE StatementFails(p)
  <2>1. UNCHANGED <<originals, issued>> /\ (UNCHANGED rows \/ rows' = Executed(p))
    BY <1>6 DEF StatementFails
  <2>2. r.pc \in {"upRestore", "upBackfill", "delMark", "resMark", "purRow",
                  "upInsert", "thRecord", "bfRecord"}
    BY <1>6 DEF StatementFails
  <2>3. t \in Ids
    BY <1>0, <2>2 DEF NeedsTarget
  <2>4. \A a \in Ids : StoragePath(a) # y =>
            /\ rows'[a].state = "none" <=> rows[a].state = "none"
            /\ rows'[a].content = rows[a].content
    BY <1>0, <2>1, <2>2, ExecutedTouches
  <2>5. CASE r.pc = "upInsert" /\ Goto(p, "upUndo", [r EXCEPT !.how = "failed"])
    <3> DEFINE l == [r EXCEPT !.how = "failed"]
    <3>1. l.target = t
      BY <1>0 DEF Request
    <3>2. Goto(p, "upUndo", l)
      BY <2>5
    <3> HIDE DEF l
    <3>3. OthersKeep(p) /\ req'[p].pc = "upUndo" /\ req'[p].target = t
      BY <1>0, <3>1, <3>2, GotoSeen
    <3>4. QED
      BY <1>0, <1>1, <2>1, <2>4, <2>5, <3>3 DEF Touches, Making, Filling
  <2>6. CASE (\E how, a : Answer(p, how, a)) \/ BackfillDone(p, TRUE)
    <3>1. OthersKeep(p) /\ req'[p].pc \notin Making
      BY <1>2, <1>3, <2>6
    <3>2. QED
      BY <1>1, <2>1, <2>4, <3>1 DEF Touches, Making
  <2>7. \/ r.pc = "upInsert" /\ Goto(p, "upUndo", [r EXCEPT !.how = "failed"])
        \/ \E how, a : Answer(p, how, a)
        \/ BackfillDone(p, TRUE)
    BY <1>6, Zenon DEF StatementFails
  <2>8. QED
    BY <2>5, <2>6, <2>7
<1>7. CASE OriginalNotSaved(p)
  <2>1. PICK b \in Ids \ issued :
            originals' \in {originals, [originals EXCEPT ![b] = "partial"]}
    BY <1>7 DEF OriginalNotSaved
  <2>2. /\ UNCHANGED rows /\ r.pc = "upStore"
        /\ OthersKeep(p) /\ req'[p].pc \notin Making
    BY <1>2, <1>7 DEF OriginalNotSaved
  <2>3. \A f \in Ids : f # b => originals'[f] = originals[f]
    BY <1>0, <2>1 DEF TypeOK
  <2>4. \A f : ~InCharge(p, f)
    BY <2>2 DEF InCharge
  <2>5. \A f \in issued : originals'[f] = originals[f]
    BY <1>0, <2>3 DEF TypeOK
  <2>6. QED
    BY <2>1, <2>2, <2>3, <2>4, <2>5 DEF Touches, Making, Filling
<1>8. CASE ThumbnailNotSaved(p) \/ PreviewNotSaved(p)
  <2>1. UNCHANGED <<rows, originals>>
    BY <1>8 DEF ThumbnailNotSaved, PreviewNotSaved
  <2>2. CASE (\E how, a : Answer(p, how, a)) \/ BackfillDone(p, TRUE)
    BY <1>2, <1>3, <1>4, <2>1, <2>2
  <2>3. ASSUME r.pc \in {"upThumb", "upPreview"}, NEW pc \in {"upPreview", "upInsert"},
               Goto(p, pc, r)
        PROVE  Touches(p, y)
    <3>1. /\ OthersKeep(p) /\ req'[p].pc = pc /\ req'[p].target = t
          /\ req'[p].asset = r.asset
      BY <1>0, <2>3, GotoSeen
    <3>2. QED
      BY <1>0, <1>1, <2>1, <2>3, <3>1 DEF Touches, Filling
  <2>4. \/ \E how, a : Answer(p, how, a)
        \/ BackfillDone(p, TRUE)
        \/ /\ r.pc \in {"upThumb", "upPreview"}
           /\ \E pc \in {"upPreview", "upInsert"} : Goto(p, pc, r)
    BY <1>8 DEF ThumbnailNotSaved, PreviewNotSaved
  <2>5. QED
    BY <2>2, <2>3, <2>4
<1>9. CASE UnlinkFails(p)
  <2>1. Goto(p, "upRefind", r) \/ \E how, a : Answer(p, how, a)
    BY <1>9, Zenon DEF UnlinkFails
  <2>2. OthersKeep(p) /\ req'[p].pc \notin Making
    <3>1. Goto(p, "upRefind", r) => OthersKeep(p) /\ req'[p].pc \notin Making
      BY <1>0, GotoSeen DEF Making, Filling
    <3>2. QED
      BY <1>2, <2>1, <3>1
  <2>3. UNCHANGED rows
    BY <1>9 DEF UnlinkFails
  <2>4. CASE UNCHANGED originals
    BY <1>4, <2>2, <2>3, <2>4
  <2>5. CASE r.pc = "upUndo" /\ originals' = [originals EXCEPT ![t] = "none"]
    <3>1. t \in Ids /\ y = t
      BY <1>0, <2>5 DEF Making, NeedsTarget
    <3>2. \A f \in Ids : f # y => originals'[f] = originals[f]
      BY <1>0, <2>5, <3>1 DEF TypeOK
    <3>3. QED
      BY <1>1, <2>2, <2>3, <2>5, <3>2 DEF Touches, Making, Filling
  <2>6. QED
    BY <1>9, <2>4, <2>5 DEF UnlinkFails
<1>10. CASE Die(p)
  <2>1. OthersKeep(p) /\ req'[p].pc = "idle" /\ UNCHANGED <<rows, originals>>
    BY <1>0, <1>10 DEF Die, Idle, OthersKeep
  <2>2. QED
    BY <1>4, <2>1 DEF Making, Filling
<1>11. QED
  BY <1>5, <1>6, <1>7, <1>8, <1>9, <1>10 DEF FaultStep

\* Nothing but x comes to be at risk, nor stray.
SparedBut(x) == \A f \in Ids \ {x} : (AtRisk(f)' => AtRisk(f)) /\ (Stray(f)' => Stray(f))

\* Nothing else is touched by a fault, ...
LEMMA FaultRisk ==
    ASSUME RiskInv, NEW p \in Procs, NEW x, Touches(p, x)
    PROVE  SparedBut(x)
<1> USE DEF At
<1> SUFFICES ASSUME NEW f \in Ids, f # x
             PROVE  (AtRisk(f)' => AtRisk(f)) /\ (Stray(f)' => Stray(f))
  BY DEF SparedBut
<1>1. /\ OthersKeep(p) /\ originals'[f] = originals[f]
      /\ \A a \in Ids : StoragePath(a) = f =>
            /\ rows'[a].state = "none" <=> rows[a].state = "none"
            /\ rows'[a].content = rows[a].content
      /\ ~InCharge(p, f)
  BY DEF Touches
<1>2. ASSUME Lost(f)' PROVE Lost(f)
  <2>1. PICK a \in Ids : /\ rows'[a].state # "none" /\ StoragePath(a) = f
                         /\ originals'[f] # rows'[a].content
    BY <1>2 DEF Lost, Exists, StoragePath
  <2>2. QED
    BY <1>1, <2>1 DEF Lost, Exists
<1>3. ASSUME NEW q \in Procs, req'[q].pc = "upUndo", req'[q].target = f,
             rows'[f].state # "none"
      PROVE  AtRisk(f)
  <2>1. q # p
    BY <1>3 DEF Touches
  <2>2. req[q].pc = "upUndo" /\ req[q].target = f
    BY <1>1, <1>3, <2>1 DEF OthersKeep
  <2>3. f \notin Legacy
    BY <2>2 DEF RiskInv, SeenInv, DedupInv, LocalsAllFit, LocalsFit, Making
  <2>4. Exists(f)
    BY <1>1, <1>3, <2>3 DEF Exists, StoragePath
  <2>5. QED
    BY <2>2, <2>4 DEF AtRisk
<1>4. ASSUME Stray(f)' PROVE Stray(f)
  <2>1. /\ originals'[f] # "none"
        /\ ~\E a \in Ids : rows'[a].state # "none" /\ StoragePath(a) = f
        /\ ~\E q \in Procs : InCharge(q, f)'
    BY <1>4 DEF Stray, Exists, StoragePath
  <2>2. \A q \in Procs : InCharge(q, f) => q # p /\ InCharge(q, f)'
    BY <1>1 DEF InCharge, OthersKeep, StoragePath
  <2>3. QED
    BY <1>1, <2>1, <2>2 DEF Stray, Exists
<1>5. QED
  BY <1>2, <1>3, <1>4 DEF AtRisk, Exists

\* ... and what an upload in flight owns is left alone.
LEMMA FaultRiskInv ==
    ASSUME RiskInv, SeenInv', AllStay, NEW p \in Procs, NEW x, Touches(p, x)
    PROVE  RiskInv'
<1> USE DEF At
<1>0. OthersKeep(p)
  BY DEF Touches
<1>1. ASSUME NEW q \in Procs, req'[q].pc \in Filling
      PROVE  originals'[req'[q].target] = req'[q].asset.content
  <2>1. CASE q = p
    BY <1>1, <2>1 DEF Touches, RiskInv, FillingOK
  <2>2. CASE q # p
    <3>1. req'[q] = req[q] /\ req[q].pc \in Filling
      BY <1>0, <1>1, <2>2 DEF OthersKeep
    <3>2. /\ req[q].target \in issued /\ issued \subseteq Ids
          /\ originals[req[q].target] = req[q].asset.content
      BY <3>1 DEF RiskInv, SeenInv, DedupInv, TypeInv, TypeOK, LocalsAllFit, LocalsFit,
                  FillingOK, Making
    <3>3. CASE req[p].pc # "upUndo"
      BY <3>1, <3>2, <3>3 DEF Touches
    <3>4. CASE req[p].pc = "upUndo"
      <4>1. x = req[p].target
        BY <3>4 DEF Touches, InCharge
      <4>2. req[p].target # req[q].target
        BY <3>1, <3>4, <2>2, OwnOriginal
           DEF RiskInv, SeenInv, DedupInv, LocalsAllFit, LocalsFit, Making, StoragePath
      <4>3. QED
        BY <3>1, <3>2, <4>1, <4>2 DEF Touches
    <3>5. QED
      BY <3>3, <3>4
  <2>3. QED
    BY <2>1, <2>2
<1>2. ASSUME NEW q \in Procs, req'[q].pc = "upUndo"
      PROVE  Settled(req[q].target)'
  <2>1. CASE q # p
    <3>1. req'[q] = req[q] /\ Settled(req[q].target)
      BY <1>0, <1>2, <2>1 DEF OthersKeep, RiskInv, UndoSettled
    <3>2. QED
      BY <3>1, SeenStays DEF Settled
  <2>2. CASE q = p
    <3>1. req[p].pc = "upInsert" /\ req[p].target = x /\ req'[p].target = x
      BY <1>2, <2>2 DEF Touches
    <3>2. req[p].pc \in Filling
      BY <3>1 DEF Filling
    <3>3. /\ x \in issued
          /\ \A u \in Procs \ {p} : req[u].pc \in Filling => req[u].target # x
      BY <3>1, <3>2 DEF RiskInv, SeenInv, DedupInv, LocalsAllFit, LocalsFit, OwnersOK, Making
    <3>4. req'[p].pc \notin Filling
      BY <1>2, <2>2 DEF Filling
    <3>5. issued' = issued
      BY <1>2, <2>2 DEF Touches
    <3>6. QED
      BY <1>0, <2>2, <3>1, <3>3, <3>4, <3>5 DEF Settled, OthersKeep
  <2>3. QED
    BY <2>1, <2>2
<1>3. FillingOK' /\ UndoSettled'
  BY <1>1, <1>2 DEF FillingOK, UndoSettled, Settled
<1>4. QED
  BY <1>3 DEF RiskInv


\* A request that begins owns nothing and gives nothing up.
LEMMA StartRisk ==
    ASSUME RiskInv, SeenInv', NEW p \in Procs, Start(p)
    PROVE  RiskInv' /\ NoNewRisk /\ UNCHANGED faults
<1>0. /\ TypeInv /\ TypeInv'
      /\ UNCHANGED <<rows, originals, issued, faults>>
  BY DEF RiskInv, SeenInv, DedupInv, Start, StartUpload, StartDelete, StartRestore,
         StartPurge, StartEmptyTrash, StartDownload, StartPreview, StartThumbnail,
         StartTrashThumbnail, StartBackfill, StartOn, stored
<1>1. \E first \in {"upFind", "answer", "delFind", "resFind", "purFind",
                    "emptyList", "dlFind", "pvFind", "thFind", "thTrashFind",
                    "bfList"} :
         \E kind, local : Begin(p, kind, first, local)
  BY Zenon DEF Start, StartUpload, StartDelete, StartRestore, StartPurge,
               StartEmptyTrash, StartDownload, StartPreview, StartThumbnail,
               StartTrashThumbnail, StartBackfill, StartOn
<1>2. OthersKeep(p) /\ req'[p].pc \notin Making
  BY <1>0, <1>1, QuietBegin DEF Making, Filling, Purging, Quiet
<1>3. \A q \in Procs : req'[q].pc \in Making => req'[q] = req[q]
  BY <1>2 DEF OthersKeep
<1>4. FillingOK' /\ UndoSettled'
  BY <1>0, <1>3 DEF RiskInv, FillingOK, UndoSettled, Settled, Making, Filling
<1>5. NoNewRisk
  BY <1>0, <1>3 DEF NoNewRisk, AtRisk, Lost, Exists, StoragePath, At, Making
<1>6. QED
  BY <1>0, <1>4, <1>5 DEF RiskInv

\* A step costs nothing, and a fault one original at most.
LEMMA NextRisk ==
    ASSUME UniquePaths, RiskInv, [Next]_vars
    PROVE  /\ RiskInv'
           /\ \/ UNCHANGED faults /\ NoNewRisk /\ (OrphanInv => NoNewStray)
              \/ /\ faults' = faults + 1
                 /\ \E x : SparedBut(x)
<1>1. SeenInv /\ SeenInv' /\ TypeInv' /\ AllStay
  BY NextSeen DEF RiskInv, SeenNext, SeenInv, DedupInv
<1>2. CASE UNCHANGED vars \/ Midnight
  <2>1. UNCHANGED <<rows, originals, issued, faults, req>>
    BY <1>2 DEF vars, Midnight
  <2>2. RiskInv'
    BY <1>1, <2>1 DEF RiskInv, FillingOK, UndoSettled, Settled
  <2>3. NoNewRisk
    BY <2>1 DEF NoNewRisk, AtRisk, Lost, Exists, StoragePath, At
  <2>4. NoNewStray
    BY <2>1 DEF NoNewStray, Stray, InCharge, Exists, StoragePath
  <2>5. QED
    BY <2>1, <2>2, <2>3, <2>4
<1>3. ASSUME NEW p \in Procs, Start(p)
      PROVE  /\ RiskInv' /\ UNCHANGED faults /\ NoNewRisk
             /\ OrphanInv => NoNewStray
  BY <1>1, <1>3, StartRisk, StartOrphan DEF OrphanStep
<1>4. ASSUME NEW p \in Procs, Step(p)
      PROVE  /\ RiskInv' /\ UNCHANGED faults /\ NoNewRisk
             /\ OrphanInv => NoNewStray
  <2>1. RiskInv' /\ UNCHANGED faults /\ NoNewRisk
    BY <1>1, <1>4, StepRiskInv, StepRisk, StepFiles
  <2>2. OrphanInv => OrphanStep(p)
    BY <1>1, <1>4, UploadOrphan, TrashOrphan, DerivedOrphan, StartOrphan DEF Step
  <2>3. QED
    BY <2>1, <2>2 DEF OrphanStep
<1>5. ASSUME NEW p \in Procs, FaultStep(p)
      PROVE  /\ RiskInv' /\ faults' = faults + 1
             /\ \E x : SparedBut(x)
  <2>1. PICK x : Touches(p, x)
    BY <1>1, <1>5, FaultTouches
  <2>2. faults' = faults + 1
    BY <1>5 DEF FaultStep, ReadFails, StatementFails, OriginalNotSaved,
                ThumbnailNotSaved, PreviewNotSaved, UnlinkFails, Die, Fault
  <2>3. QED
    BY <1>1, <2>1, <2>2, FaultRisk, FaultRiskInv
<1>6. QED
  BY <1>2, <1>3, <1>4, <1>5 DEF Next

LEMMA InitRisk == Init => RiskInv /\ \A f \in Ids : ~AtRisk(f) /\ ~Stray(f)
<1> SUFFICES ASSUME Init PROVE RiskInv /\ \A f \in Ids : ~AtRisk(f) /\ ~Stray(f)
  OBVIOUS
<1>1. \A p \in Procs : req[p].pc = "idle"
  BY DEF Init, Idle
<1>2. RiskInv /\ LiveOriginals
  BY <1>1, InitSeen, InitKeeps DEF RiskInv, LibInv, UndoSettled
<1>3. ASSUME NEW f \in Ids, originals[f] # "none"
      PROVE  \E a \in Ids : Exists(a) /\ StoragePath(a) = f
  <2>1. PICK a \in Legacy : LegacyPath[a] = f
    BY <1>3 DEF Init
  <2>2. rows[a].state = "active"
    BY LegacyAssumption DEF Init, NoRow
  <2>3. QED
    BY <2>1, <2>2, LegacyAssumption DEF Exists, StoragePath
<1>4. \A f \in Ids : ~AtRisk(f) /\ ~Stray(f)
  BY <1>1, <1>2, <1>3 DEF AtRisk, Lost, Stray, LiveOriginals, At
<1>5. QED
  BY <1>2, <1>4

\* A set of ids grows by one at most with one more id.
LEMMA OneMore ==
    ASSUME NEW S \in SUBSET Ids, NEW T \in SUBSET Ids, NEW n \in Nat, Cardinality(S) <= n
    PROVE  /\ T \subseteq S => Cardinality(T) <= n
           /\ \A x : T \subseteq S \cup {x} => Cardinality(T) <= n + 1
<1>1. IsFiniteSet(S) /\ IsFiniteSet(T)
  BY ConstantsAssumption, FS_Subset
<1>2. Cardinality(S) \in Nat /\ Cardinality(T) \in Nat
  BY <1>1, FS_CardinalityType
<1>3. T \subseteq S => Cardinality(T) <= n
  BY <1>1, <1>2, FS_Subset
<1>4. ASSUME NEW x, T \subseteq S \cup {x} PROVE Cardinality(T) <= n + 1
  <2>1. /\ IsFiniteSet(S \cup {x})
        /\ Cardinality(S \cup {x}) \in {Cardinality(S), Cardinality(S) + 1}
    BY <1>1, FS_AddElement
  <2>2. Cardinality(T) <= Cardinality(S \cup {x})
    BY <1>4, <2>1, FS_Subset
  <2>3. QED
    BY <1>2, <2>1, <2>2
<1>5. QED
  BY <1>3, <1>4

LostBounded == RiskInv /\ Cardinality({f \in Ids : AtRisk(f)}) <= faults
LEMMA InitLost == Init => LostBounded
<1> SUFFICES ASSUME Init PROVE LostBounded
  OBVIOUS
<1>1. {f \in Ids : AtRisk(f)} = {}
  BY InitRisk
<1>2. Cardinality({f \in Ids : AtRisk(f)}) = 0 /\ faults = 0
  BY <1>1, FS_EmptySet DEF Init
<1>3. RiskInv
  BY InitRisk
<1>4. QED
  BY <1>2, <1>3 DEF LostBounded

LEMMA NextLost == ASSUME UniquePaths PROVE LostBounded /\ [Next]_vars => LostBounded'
<1> SUFFICES ASSUME LostBounded, [Next]_vars PROVE LostBounded'
  OBVIOUS
<1> PICK S, T : S = {f \in Ids : AtRisk(f)} /\ T = {f \in Ids : AtRisk(f)'}
  OBVIOUS
<1>1. faults \in Nat /\ Cardinality(S) <= faults
  BY DEF LostBounded, RiskInv, SeenInv, DedupInv, TypeInv, TypeOK
<1>2. RiskInv'
  BY NextRisk DEF LostBounded
<1>3. CASE UNCHANGED faults /\ T \subseteq S
  BY <1>1, <1>2, <1>3, OneMore DEF LostBounded
<1>4. ASSUME faults' = faults + 1, NEW x, T \subseteq S \cup {x}
      PROVE  LostBounded'
  BY <1>1, <1>2, <1>4, OneMore DEF LostBounded
<1>5. \/ UNCHANGED faults /\ NoNewRisk
      \/ faults' = faults + 1 /\ \E x : SparedBut(x)
  BY NextRisk DEF LostBounded
<1>6. \/ UNCHANGED faults /\ T \subseteq S
      \/ faults' = faults + 1 /\ \E x : T \subseteq S \cup {x}
  BY <1>5 DEF NoNewRisk, SparedBut
<1>7. QED
  BY <1>3, <1>4, <1>6

\* When no two legacy rows share a file, at most one asset per failure is left without
\* its file: also when INSERTs are committed unseen (service.go:116-124), and whatever
\* requests run side by side; a purge never takes the file of another asset.
THEOREM LossesBounded ==
    ASSUME UniquePaths
    PROVE  Spec => [](Cardinality({f \in Ids : Lost(f)}) <= faults)
<1>1. LostBounded => Cardinality({f \in Ids : Lost(f)}) <= faults
  <2>1. SUFFICES ASSUME LostBounded PROVE Cardinality({f \in Ids : Lost(f)}) <= faults
    OBVIOUS
  <2>2. faults \in Nat
    BY <2>1 DEF LostBounded, RiskInv, SeenInv, DedupInv, TypeInv, TypeOK
  <2>3. {f \in Ids : Lost(f)} \subseteq {f \in Ids : AtRisk(f)}
    BY DEF AtRisk
  <2>4. QED
    BY <2>1, <2>2, <2>3, OneMore DEF LostBounded
<1>2. QED
  BY <1>1, InitLost, NextLost, PTL DEF Spec

\* Stray files and lost ones together are no more than the failures.
CostBounded == RiskInv /\ Cardinality({f \in Ids : Stray(f) \/ AtRisk(f)}) <= faults

LEMMA InitCost == Init => CostBounded
<1> SUFFICES ASSUME Init PROVE CostBounded
  OBVIOUS
<1>1. {f \in Ids : Stray(f) \/ AtRisk(f)} = {}
  BY InitRisk
<1>2. Cardinality({f \in Ids : Stray(f) \/ AtRisk(f)}) = 0 /\ faults = 0
  BY <1>1, FS_EmptySet DEF Init
<1>3. RiskInv
  BY InitRisk
<1>4. QED
  BY <1>2, <1>3 DEF CostBounded

LEMMA NextCost ==
    ASSUME UniquePaths
    PROVE  CostBounded /\ OrphanInv /\ [Next]_vars => CostBounded'
<1> SUFFICES ASSUME CostBounded, OrphanInv, [Next]_vars PROVE CostBounded'
  OBVIOUS
<1> PICK S, T : /\ S = {f \in Ids : Stray(f) \/ AtRisk(f)}
                /\ T = {f \in Ids : Stray(f)' \/ AtRisk(f)'}
  OBVIOUS
<1>1. faults \in Nat /\ Cardinality(S) <= faults
  BY DEF CostBounded, RiskInv, SeenInv, DedupInv, TypeInv, TypeOK
<1>2. RiskInv'
  BY NextRisk DEF CostBounded
<1>3. CASE UNCHANGED faults /\ T \subseteq S
  BY <1>1, <1>2, <1>3, OneMore DEF CostBounded
<1>4. ASSUME faults' = faults + 1, NEW x, T \subseteq S \cup {x}
      PROVE  CostBounded'
  BY <1>1, <1>2, <1>4, OneMore DEF CostBounded
<1>5. \/ UNCHANGED faults /\ NoNewRisk /\ NoNewStray
      \/ faults' = faults + 1 /\ \E x : SparedBut(x)
  BY NextRisk DEF CostBounded
<1>6. \/ UNCHANGED faults /\ T \subseteq S
      \/ faults' = faults + 1 /\ \E x : T \subseteq S \cup {x}
  BY <1>5 DEF NoNewRisk, NoNewStray, SparedBut
<1>7. QED
  BY <1>3, <1>4, <1>6

\* When no two legacy rows share a file, and no asset is restored under a purge that is
\* about to count its references (the window of the run stale_count), every failure
\* costs one original at most, stray or lost; without a failure every original has its
\* row or a request in charge of it, and every row its file (service.go:117-124, 234-240).
THEOREM FaultsCostOne ==
    ASSUME UniquePaths
    PROVE  Spec /\ [][~RestoredUnderPurge]_vars => []OneFilePerFault
<1>1. CostBounded => OneFilePerFault
  <2>1. SUFFICES ASSUME CostBounded PROVE OneFilePerFault
    OBVIOUS
  <2>2. faults \in Nat
    BY <2>1 DEF CostBounded, RiskInv, SeenInv, DedupInv, TypeInv, TypeOK
  <2>3. {f \in Ids : Stray(f) \/ Lost(f)} \subseteq {f \in Ids : Stray(f) \/ AtRisk(f)}
    BY DEF AtRisk
  <2>4. QED
    BY <2>1, <2>2, <2>3, OneMore DEF CostBounded, OneFilePerFault
<1>2. QED
  BY <1>1, InitCost, NextCost, OrphanAlways, PTL DEF Spec

-----------------------------------------------------------------------------
(* Requests run out of steps. *)

\* p, and nobody else, has fewer steps to take.
Advances(p) == OthersKeep(p) /\ StepsLeft(req'[p]) < StepsLeft(req[p])

\* The assets it may have to go through: those of its list, or any.
Unread == {"upFind", "upFindTrash", "upLegacy", "emptyList", "bfList"}
Length(r) == Cardinality(IF r.pc \in Unread THEN Ids ELSE r.todo)

LEMMA StepsLeftIs == \A r : StepsLeft(r) = OwnSteps(r.pc) + StepsEach(r.pc) * Length(r)
BY DEF StepsLeft, Length, Unread

LEMMA Products ==
    ASSUME NEW a \in {0, 2, 6, 7}, NEW b \in {0, 2, 6, 7}, a <= b,
           NEW x \in Nat, NEW y \in Nat, x <= y
    PROVE  a * x <= b * y /\ a * x \in Nat /\ b * y \in Nat
<1>1. CASE a = 0
  BY <1>1
<1>2. CASE a = 2
  BY <1>2
<1>3. CASE a = 6
  BY <1>3
<1>4. CASE a = 7
  BY <1>4
<1>5. QED
  BY <1>1, <1>2, <1>3, <1>4

LEMMA ListSizes ==
    ASSUME NEW S \in SUBSET Ids
    PROVE  /\ Cardinality(S) \in Nat /\ Cardinality(Ids) \in Nat
           /\ Cardinality(S) <= Cardinality(Ids)
           /\ \A a \in S : Cardinality(S \ {a}) = Cardinality(S) - 1
           /\ S = {} => Cardinality(S) = 0
<1>1. IsFiniteSet(S) /\ IsFiniteSet(Ids)
  BY ConstantsAssumption, FS_Subset
<1>2. QED
  BY <1>1, FS_Subset, FS_CardinalityType, FS_RemoveElement, FS_EmptySet

\* A request in flight has a step to take, and more than one until it is answered.
LEMMA StepsNumbers ==
    ASSUME NEW pc \in PCs
    PROVE  /\ OwnSteps(pc) \in Nat /\ StepsEach(pc) \in {0, 2, 6, 7}
           /\ pc # "idle" => OwnSteps(pc) > 0
           /\ pc \notin {"idle", "answer"} => OwnSteps(pc) > 1
<1>0. StepsEach(pc) \in {0, 2, 6, 7}
  BY DEF StepsEach
<1>1. pc = "idle" => OwnSteps(pc) = 0
  BY DEF OwnSteps
<1>2. pc = "answer" => OwnSteps(pc) = 1
  BY DEF OwnSteps
<1>3. pc \in {"upRestore", "upRefind", "purNext", "bfNext", "delMark",
              "resMark", "dlOpen", "pvOpen", "thRecord"}
          => OwnSteps(pc) = 2
  BY DEF OwnSteps
<1>4. pc \in {"upUndo", "purOriginal", "bfRecord", "delFind", "resFind",
              "dlFind", "pvFind", "thWrite", "emptyList", "bfList"}
          => OwnSteps(pc) = 3
  BY DEF OwnSteps
<1>5. pc \in {"upInsert", "purPreview", "bfWrite", "thCreate"}
          => OwnSteps(pc) = 4
  BY DEF OwnSteps
<1>6. pc \in {"upPreview", "purThumb", "bfCreate", "thGenerate"}
          => OwnSteps(pc) = 5
  BY DEF OwnSteps
<1>7. pc \in {"upThumb", "purRow", "bfGenerate", "thOpen"}
          => OwnSteps(pc) = 6
  BY DEF OwnSteps
<1>8. pc \in {"upStore", "purCount", "bfFind", "thFind", "thTrashFind"}
          => OwnSteps(pc) = 7
  BY DEF OwnSteps
<1>9. pc \in {"upProbe", "purFind"}
          => OwnSteps(pc) = 8
  BY DEF OwnSteps
<1>10. pc \in {"upBackfill", "upLegacy"}
          => OwnSteps(pc) = 9
  BY DEF OwnSteps
<1>11. pc = "upFindTrash" => OwnSteps(pc) = 10
  BY DEF OwnSteps
<1>12. pc = "upFind" => OwnSteps(pc) = 11
  BY DEF OwnSteps
<1>13. QED
  BY <1>0, <1>1, <1>2, <1>3, <1>4, <1>5, <1>6, <1>7, <1>8, <1>9, <1>10, <1>11, <1>12
     DEF PCs

\* What may follow a program counter without a list being read or shortened.
Follow == {<<"upFind", "upFindTrash">>, <<"upFindTrash", "upRestore">>,
           <<"upFindTrash", "upLegacy">>, <<"upBackfill", "upProbe">>,
           <<"upProbe", "upStore">>, <<"upStore", "upThumb">>,
           <<"upThumb", "upPreview">>, <<"upPreview", "upInsert">>,
           <<"upInsert", "upUndo">>, <<"upUndo", "upRefind">>,
           <<"delFind", "delMark">>, <<"resFind", "resMark">>,
           <<"purFind", "purCount">>, <<"purCount", "purRow">>,
           <<"purRow", "purThumb">>, <<"purThumb", "purPreview">>,
           <<"purPreview", "purOriginal">>, <<"purOriginal", "purNext">>,
           <<"dlFind", "dlOpen">>, <<"pvFind", "pvOpen">>,
           <<"thFind", "thOpen">>, <<"thTrashFind", "thOpen">>,
           <<"thOpen", "thGenerate">>, <<"thGenerate", "thCreate">>,
           <<"thCreate", "thWrite">>, <<"thWrite", "thRecord">>,
           <<"bfFind", "bfGenerate">>, <<"bfGenerate", "bfCreate">>,
           <<"bfCreate", "bfWrite">>, <<"bfWrite", "bfRecord">>,
           <<"bfFind", "bfNext">>, <<"bfGenerate", "bfNext">>,
           <<"bfCreate", "bfNext">>, <<"bfWrite", "bfNext">>,
           <<"bfRecord", "bfNext">>}

LEMMA FollowCounts ==
    ASSUME TypeInv, TypeInv', NEW p \in Procs, NEW pc, NEW local, Goto(p, pc, local),
           local.todo = req[p].todo, <<req[p].pc, pc>> \in Follow
    PROVE  Advances(p)
<1> PICK r, s, n, m : /\ r = req[p] /\ s = req'[p]
                      /\ n = Cardinality(r.todo) /\ m = Cardinality(Ids)
  OBVIOUS
<1>1. OthersKeep(p) /\ s.pc = pc /\ s.todo = r.todo
  BY GotoSeen
<1>2. n \in Nat /\ m \in Nat /\ n <= m
  BY ListSizes, Locals
<1>3. /\ OwnSteps(s.pc) < OwnSteps(r.pc) /\ OwnSteps(s.pc) \in Nat /\ OwnSteps(r.pc) \in Nat
      /\ StepsEach(s.pc) <= StepsEach(r.pc)
      /\ StepsEach(s.pc) \in {0, 2, 6, 7} /\ StepsEach(r.pc) \in {0, 2, 6, 7}
  BY <1>1 DEF Follow, OwnSteps, StepsEach
<1>4. s.pc \in Unread => r.pc \in Unread
  BY <1>1 DEF Follow, Unread
<1>5. Length(s) \in Nat /\ Length(r) \in Nat /\ Length(s) <= Length(r)
  BY <1>1, <1>2, <1>4 DEF Length
<1> PICK a, b : a = StepsEach(s.pc) * Length(s) /\ b = StepsEach(r.pc) * Length(r)
  OBVIOUS
<1>6. a <= b /\ a \in Nat /\ b \in Nat
  BY <1>3, <1>5, Products
<1>7. StepsLeft(s) < StepsLeft(r)
  BY <1>3, <1>6, StepsLeftIs
<1>8. QED
  BY <1>1, <1>7 DEF Advances

\* A list is read, or an asset taken from it.
LEMMA ListCounts ==
    ASSUME TypeInv, TypeInv', NEW p \in Procs, NEW pc, NEW local, Goto(p, pc, local),
           \/ /\ <<req[p].pc, pc>> \in {<<"upLegacy", "upProbe">>, <<"emptyList", "purNext">>,
                                      <<"bfList", "bfNext">>}
              /\ local.todo \in SUBSET Ids
           \/ /\ <<req[p].pc, pc>> \in {<<"upProbe", "upProbe">>, <<"upProbe", "upBackfill">>,
                                      <<"purNext", "purFind">>, <<"bfNext", "bfFind">>}
              /\ \E a \in req[p].todo : local.todo = req[p].todo \ {a}
    PROVE  Advances(p)
<1> PICK r, s, m : r = req[p] /\ s = req'[p] /\ m = Cardinality(Ids)
  OBVIOUS
<1>1. OthersKeep(p) /\ s.pc = pc /\ s.todo = local.todo
  BY GotoSeen
<1>2. CASE /\ <<r.pc, pc>> \in {<<"upLegacy", "upProbe">>, <<"emptyList", "purNext">>,
                                <<"bfList", "bfNext">>}
           /\ local.todo \in SUBSET Ids
  <2>1. Length(s) \in Nat /\ Length(r) = m /\ m \in Nat /\ Length(s) <= m
    BY <1>1, <1>2, ListSizes DEF Length, Unread
  <2>2. CASE r.pc = "upLegacy" /\ pc = "upProbe"
    <3>1. StepsLeft(r) = 9 + 2 * m /\ StepsLeft(s) = 8 + 2 * Length(s)
      BY <1>1, <2>1, <2>2, StepsLeftIs DEF OwnSteps, StepsEach
    <3>2. QED
      BY <1>1, <2>1, <3>1 DEF Advances
  <2>3. CASE r.pc = "emptyList" /\ pc = "purNext"
    <3>1. StepsLeft(r) = 3 + 7 * m /\ StepsLeft(s) = 2 + 7 * Length(s)
      BY <1>1, <2>1, <2>3, StepsLeftIs DEF OwnSteps, StepsEach
    <3>2. QED
      BY <1>1, <2>1, <3>1 DEF Advances
  <2>4. CASE r.pc = "bfList" /\ pc = "bfNext"
    <3>1. StepsLeft(r) = 3 + 6 * m /\ StepsLeft(s) = 2 + 6 * Length(s)
      BY <1>1, <2>1, <2>4, StepsLeftIs DEF OwnSteps, StepsEach
    <3>2. QED
      BY <1>1, <2>1, <3>1 DEF Advances
  <2>5. QED
    BY <1>2, <2>2, <2>3, <2>4
<1>3. CASE /\ <<r.pc, pc>> \in {<<"upProbe", "upProbe">>, <<"upProbe", "upBackfill">>,
                                <<"purNext", "purFind">>, <<"bfNext", "bfFind">>}
           /\ \E a \in r.todo : local.todo = r.todo \ {a}
  <2>1. Length(r) \in Nat /\ Length(s) = Length(r) - 1
    BY <1>1, <1>3, ListSizes, Locals DEF Length, Unread
  <2>2. StepsLeft(s) < StepsLeft(r)
    BY <1>1, <1>3, <2>1, StepsLeftIs DEF OwnSteps, StepsEach
  <2>3. QED
    BY <1>1, <2>2 DEF Advances
<1>4. QED
  BY <1>2, <1>3

LEMMA AnswerCounts ==
    ASSUME TypeInv, TypeInv', NEW p \in Procs, NEW how, NEW a, Answer(p, how, a),
           req[p].pc \in PCs \ {"idle", "answer"}
    PROVE  Advances(p)
<1> PICK r, s : r = req[p] /\ s = req'[p]
  OBVIOUS
<1>1. OthersKeep(p) /\ s.pc = "answer" /\ s \in Request
  BY AnswerSeen DEF TypeInv, ReqOK
<1>2. Length(s) \in Nat /\ Length(r) \in Nat
  BY <1>1, ListSizes, Locals DEF Length, Request
<1>3. OwnSteps(r.pc) \in Nat /\ OwnSteps(r.pc) > 1 /\ StepsEach(r.pc) \in {0, 2, 6, 7}
  BY StepsNumbers
<1> PICK b : b = StepsEach(r.pc) * Length(r)
  OBVIOUS
<1>4. b \in Nat
  BY <1>2, <1>3, Products
<1>5. StepsLeft(s) = 1
  BY <1>1, <1>2, StepsLeftIs DEF OwnSteps, StepsEach
<1>6. StepsLeft(s) < StepsLeft(r)
  BY <1>3, <1>4, <1>5, StepsLeftIs
<1>7. QED
  BY <1>1, <1>6 DEF Advances

LEMMA EndCounts ==
    ASSUME TypeInv, NEW p \in Procs, req' = [req EXCEPT ![p] = Idle],
           req[p].pc \in PCs \ {"idle"}
    PROVE  Advances(p)
<1> PICK r, s : r = req[p] /\ s = req'[p]
  OBVIOUS
<1>1. OthersKeep(p) /\ s = Idle
  BY DEF TypeInv, ReqOK, OthersKeep
<1>2. s.pc = "idle" /\ Length(s) \in Nat /\ Length(r) \in Nat
  BY <1>1, ListSizes, Locals DEF Length, Idle
<1>3. OwnSteps(r.pc) \in Nat /\ OwnSteps(r.pc) > 0 /\ StepsEach(r.pc) \in {0, 2, 6, 7}
  BY StepsNumbers
<1> PICK b : b = StepsEach(r.pc) * Length(r)
  OBVIOUS
<1>4. b \in Nat
  BY <1>2, <1>3, Products
<1>5. StepsLeft(s) = 0
  BY <1>2, StepsLeftIs DEF OwnSteps, StepsEach
<1>6. StepsLeft(s) < StepsLeft(r)
  BY <1>3, <1>4, <1>5, StepsLeftIs
<1>7. QED
  BY <1>1, <1>6 DEF Advances

LEMMA UploadCounts ==
    ASSUME TypeInv, TypeInv', NEW p \in Procs, UploadStep(p)
    PROVE  Advances(p)
<1> USE DEF At
<1> DEFINE r == req[p]
<1>0. r \in Request
  BY Locals
<1>1. ASSUME NEW pc, NEW local, Goto(p, pc, local), local.todo = r.todo,
             <<r.pc, pc>> \in Follow
      PROVE  Advances(p)
  BY <1>1, FollowCounts
<1>2. ASSUME NEW how, NEW a, Answer(p, how, a), r.pc \in PCs \ {"idle", "answer"}
      PROVE  Advances(p)
  BY <1>2, AnswerCounts
<1>3. CASE UploadFind(p) \/ UploadRefind(p)
  <2>1. r.pc \in PCs \ {"idle", "answer"}
    BY <1>3 DEF UploadFind, UploadRefind, PCs
  <2>2. \/ \E how, a : Answer(p, how, a)
        \/ <<r.pc, "upFindTrash">> \in Follow /\ Goto(p, "upFindTrash", r)
    BY <1>3 DEF UploadFind, UploadRefind, Follow
  <2>3. QED
    BY <1>1, <1>2, <2>1, <2>2
<1>4. CASE UploadFindTrash(p)
  <2>1. r.pc = "upFindTrash" /\ r.pc \in PCs \ {"idle", "answer"}
    BY <1>4 DEF UploadFindTrash, PCs
  <2>2. \/ \E how, a : Answer(p, how, a)
        \/ \E local : Goto(p, "upRestore", local) /\ local.todo = r.todo
        \/ Goto(p, "upLegacy", r)
    <3>1. \A a : [r EXCEPT !.target = a].todo = r.todo
      BY <1>0 DEF Request
    <3>2. QED
      BY <1>4, <3>1 DEF UploadFindTrash
  <2>3. QED
    BY <1>1, <1>2, <2>1, <2>2 DEF Follow
<1>5. CASE UploadRestore(p)
  BY <1>2, <1>5 DEF UploadRestore, PCs
<1>6. CASE UploadLegacy(p)
  <2>1. PICK found \in SUBSET Ids : Goto(p, "upProbe", [r EXCEPT !.todo = found])
    BY <1>6 DEF UploadLegacy, FindWithoutContentHashBySize
  <2> DEFINE l == [r EXCEPT !.todo = found]
  <2>2. l.todo \in SUBSET Ids /\ Goto(p, "upProbe", l)
    BY <1>0, <2>1 DEF Request
  <2> HIDE DEF l
  <2>3. QED
    BY <1>6, <2>2, ListCounts DEF UploadLegacy
<1>7. CASE UploadProbe(p)
  <2>1. CASE Goto(p, "upStore", r)
    BY <1>1, <1>7, <2>1 DEF UploadProbe, Follow
  <2>2. ASSUME NEW a \in r.todo,
               LET rest == [r EXCEPT !.todo = @ \ {a}]
               IN \/ Goto(p, "upProbe", rest)
                  \/ \E file : Goto(p, "upBackfill", [rest EXCEPT !.target = a, !.hash = file])
        PROVE  Advances(p)
    <3>1. PICK pc, local : /\ Goto(p, pc, local) /\ local.todo = r.todo \ {a}
                           /\ pc \in {"upProbe", "upBackfill"}
      BY <1>0, <2>2 DEF Request
    <3>2. QED
      BY <1>7, <2>2, <3>1, ListCounts DEF UploadProbe
  <2>3. QED
    BY <1>7, <2>1, <2>2, Zenon DEF UploadProbe
<1>8. CASE UploadBackfill(p)
  <2>1. r.pc = "upBackfill" /\ r.pc \in PCs \ {"idle", "answer"}
    BY <1>8 DEF UploadBackfill, PCs
  <2>2. [r EXCEPT !.target = Null, !.hash = Null].todo = r.todo
    BY <1>0 DEF Request
  <2>3. \/ \E how, a : Answer(p, how, a)
        \/ \E local : Goto(p, "upProbe", local) /\ local.todo = r.todo
    BY <1>8, <2>2 DEF UploadBackfill
  <2>4. QED
    BY <1>1, <1>2, <2>1, <2>3 DEF Follow
<1>9. CASE UploadStore(p)
  <2>1. PICK a, asset : Goto(p, "upThumb", [r EXCEPT !.target = a, !.asset = asset])
    BY <1>9 DEF UploadStore
  <2> DEFINE l == [r EXCEPT !.target = a, !.asset = asset]
  <2>2. l.todo = r.todo /\ Goto(p, "upThumb", l)
    BY <1>0, <2>1 DEF Request
  <2> HIDE DEF l
  <2>3. QED
    BY <1>1, <1>9, <2>2 DEF UploadStore, Follow
<1>10. CASE UploadThumb(p) \/ UploadPreview(p)
  <2> DEFINE l == [r EXCEPT !.asset.thumb = today]
             m == [r EXCEPT !.asset.preview = today]
  <2>1. l.todo = r.todo /\ m.todo = r.todo
    BY <1>0 DEF Request
  <2>2. \/ r.pc = "upThumb" /\ (Goto(p, "upPreview", l) \/ Goto(p, "upPreview", r))
        \/ r.pc = "upPreview" /\ (Goto(p, "upInsert", m) \/ Goto(p, "upInsert", r))
    BY <1>10, Zenon DEF UploadThumb, UploadPreview
  <2> HIDE DEF l, m
  <2>3. QED
    BY <1>1, <2>1, <2>2 DEF Follow
<1>11. CASE UploadInsert(p)
  <2>1. r.pc = "upInsert" /\ r.pc \in PCs \ {"idle", "answer"}
    BY <1>11 DEF UploadInsert, PCs
  <2>2. \A outcome : [r EXCEPT !.how = outcome].todo = r.todo
    BY <1>0 DEF Request
  <2>3. \/ \E how, a : Answer(p, how, a)
        \/ \E local : Goto(p, "upUndo", local) /\ local.todo = r.todo
    BY <1>11, <2>2 DEF UploadInsert
  <2>4. QED
    BY <1>1, <1>2, <2>1, <2>3 DEF Follow
<1>12. CASE UploadUndo(p)
  <2>1. r.pc = "upUndo" /\ r.pc \in PCs \ {"idle", "answer"}
    BY <1>12 DEF UploadUndo, PCs
  <2>2. (\E how, a : Answer(p, how, a)) \/ Goto(p, "upRefind", r)
    BY <1>12 DEF UploadUndo
  <2>3. QED
    BY <1>1, <1>2, <2>1, <2>2 DEF Follow
<1>13. QED
  BY <1>3, <1>4, <1>5, <1>6, <1>7, <1>8, <1>9, <1>10, <1>11, <1>12 DEF UploadStep

LEMMA TrashCounts ==
    ASSUME TypeInv, TypeInv', NEW p \in Procs, TrashStep(p)
    PROVE  Advances(p)
<1> USE DEF At
<1> DEFINE r == req[p]
<1>0. r \in Request
  BY Locals
<1>1. ASSUME NEW pc, NEW local, Goto(p, pc, local), local.todo = r.todo,
             <<r.pc, pc>> \in Follow
      PROVE  Advances(p)
  BY <1>1, FollowCounts
<1>2. ASSUME NEW how, NEW a, Answer(p, how, a), r.pc \in PCs \ {"idle", "answer"}
      PROVE  Advances(p)
  BY <1>2, AnswerCounts
<1>3. CASE DeleteFind(p) \/ RestoreFind(p)
  <2>1. r.pc \in {"delFind", "resFind"} /\ r.pc \in PCs \ {"idle", "answer"}
    BY <1>3 DEF DeleteFind, RestoreFind, PCs
  <2>2. \/ \E how, a : Answer(p, how, a)
        \/ r.pc = "delFind" /\ Goto(p, "delMark", r)
        \/ r.pc = "resFind" /\ Goto(p, "resMark", r)
    BY <1>3, Zenon DEF DeleteFind, RestoreFind
  <2>3. QED
    BY <1>1, <1>2, <2>1, <2>2 DEF Follow
<1>4. CASE DeleteMark(p) \/ RestoreMark(p)
  <2>1. r.pc \in PCs \ {"idle", "answer"}
    BY <1>4 DEF DeleteMark, RestoreMark, PCs
  <2>2. \E how, a : Answer(p, how, a)
    BY <1>4, Zenon DEF DeleteMark, RestoreMark
  <2>3. QED
    BY <1>2, <2>1, <2>2
<1>5. CASE EmptyList(p)
  <2>1. Goto(p, "purNext", [r EXCEPT !.todo = ListTrash, !.listed = ListTrash])
    BY <1>5 DEF EmptyList
  <2> DEFINE l == [r EXCEPT !.todo = ListTrash, !.listed = ListTrash]
  <2>2. l.todo \in SUBSET Ids /\ Goto(p, "purNext", l)
    BY <1>0, <2>1 DEF Request, ListTrash
  <2> HIDE DEF l
  <2>3. QED
    BY <1>5, <2>2, ListCounts DEF EmptyList
<1>6. CASE EmptyNext(p)
  <2>1. r.pc = "purNext" /\ r.pc \in PCs \ {"idle", "answer"}
    BY <1>6 DEF EmptyNext, PCs
  <2>2. ASSUME NEW a \in r.todo,
               Goto(p, "purFind", [r EXCEPT !.target = a, !.todo = @ \ {a}])
        PROVE  Advances(p)
    <3> DEFINE l == [r EXCEPT !.target = a, !.todo = @ \ {a}]
    <3>1. l.todo = r.todo \ {a} /\ Goto(p, "purFind", l)
      BY <1>0, <2>2 DEF Request
    <3> HIDE DEF l
    <3>2. QED
      BY <2>1, <3>1, ListCounts
  <2>3. \/ \E a \in r.todo : Goto(p, "purFind", [r EXCEPT !.target = a, !.todo = @ \ {a}])
        \/ \E how, a : Answer(p, how, a)
    BY <1>6, Zenon DEF EmptyNext
  <2>4. QED
    BY <1>2, <2>1, <2>2, <2>3
<1>7. CASE PurgeFind(p) \/ PurgeCount(p)
  <2>1. r.pc \in {"purFind", "purCount"} /\ r.pc \in PCs \ {"idle", "answer"}
    BY <1>7 DEF PurgeFind, PurgeCount, PCs
  <2>2. \A asset, n : /\ [r EXCEPT !.asset = asset].todo = r.todo
                      /\ [r EXCEPT !.refs = n].todo = r.todo
    BY <1>0 DEF Request
  <2>3. \/ \E how, a : Answer(p, how, a)
        \/ r.pc = "purFind" /\ \E local : Goto(p, "purCount", local) /\ local.todo = r.todo
        \/ r.pc = "purCount" /\ \E local : Goto(p, "purRow", local) /\ local.todo = r.todo
    BY <1>7, <2>2 DEF PurgeFind, PurgeCount
  <2>4. QED
    BY <1>1, <1>2, <2>1, <2>3 DEF Follow
<1>8. CASE PurgeRow(p)
  <2>1. r.pc = "purRow" /\ r.pc \in PCs \ {"idle", "answer"}
    BY <1>8 DEF PurgeRow, PCs
  <2>2. (\E how, a : Answer(p, how, a)) \/ Goto(p, "purThumb", r)
    BY <1>8, Zenon DEF PurgeRow
  <2>3. QED
    BY <1>1, <1>2, <2>1, <2>2 DEF Follow
<1>9. CASE PurgeThumb(p) \/ PurgePreview(p)
  BY <1>1, <1>9 DEF PurgeThumb, PurgePreview, Follow
<1>10. CASE PurgeOriginal(p)
  <2>1. r.pc = "purOriginal" /\ r.pc \in PCs \ {"idle", "answer"}
    BY <1>10 DEF PurgeOriginal, PCs
  <2>2. [r EXCEPT !.target = Null, !.asset = NoRow, !.refs = 0].todo = r.todo
    BY <1>0 DEF Request
  <2>3. \/ \E how, a : Answer(p, how, a)
        \/ \E local : Goto(p, "purNext", local) /\ local.todo = r.todo
    BY <1>10, <2>2 DEF PurgeOriginal
  <2>4. QED
    BY <1>1, <1>2, <2>1, <2>3 DEF Follow
<1>11. QED
  BY <1>3, <1>4, <1>5, <1>6, <1>7, <1>8, <1>9, <1>10 DEF TrashStep

LEMMA DoneCounts ==
    ASSUME TypeInv, TypeInv', NEW p \in Procs, NEW failed, BackfillDone(p, failed),
           req[p].pc \in BackfillWork
    PROVE  Advances(p)
<1> DEFINE l == [req[p] EXCEPT !.target = Null, !.asset = NoRow, !.failed = @ \/ failed]
<1>1. l.todo = req[p].todo /\ Goto(p, "bfNext", l)
  BY Locals DEF Request, BackfillDone
<1> HIDE DEF l
<1>2. QED
  BY <1>1, FollowCounts DEF BackfillWork, Follow

LEMMA DerivedCounts ==
    ASSUME TypeInv, TypeInv', NEW p \in Procs, DerivedStep(p)
    PROVE  Advances(p)
<1> USE DEF At
<1> DEFINE r == req[p]
<1>0. r \in Request
  BY Locals
<1>1. ASSUME NEW pc, NEW local, Goto(p, pc, local), local.todo = r.todo,
             <<r.pc, pc>> \in Follow
      PROVE  Advances(p)
  BY <1>1, FollowCounts
<1>2. ASSUME NEW how, NEW a, Answer(p, how, a), r.pc \in PCs \ {"idle", "answer"}
      PROVE  Advances(p)
  BY <1>2, AnswerCounts
<1>3. ASSUME NEW found, NEW next, FindThen(p, found, next), <<r.pc, next>> \in Follow,
             r.pc \in PCs \ {"idle", "answer"}
      PROVE  Advances(p)
  <2>1. \A asset : [r EXCEPT !.asset = asset].todo = r.todo
    BY <1>0 DEF Request
  <2>2. \/ \E how, a : Answer(p, how, a)
        \/ \E local : Goto(p, next, local) /\ local.todo = r.todo
    BY <1>3, <2>1 DEF FindThen
  <2>3. QED
    BY <1>1, <1>2, <1>3, <2>2
<1>4. CASE DownloadFind(p) \/ PreviewFind(p) \/ ThumbnailFind(p)
  <2>1. \/ r.pc = "dlFind" /\ \E found : FindThen(p, found, "dlOpen")
        \/ r.pc = "pvFind" /\ \E found : FindThen(p, found, "pvOpen")
        \/ r.pc \in {"thFind", "thTrashFind"} /\ \E found : FindThen(p, found, "thOpen")
    BY <1>4 DEF DownloadFind, PreviewFind, ThumbnailFind
  <2>2. QED
    BY <1>3, <2>1 DEF Follow, PCs
<1>5. CASE DownloadOpen(p) \/ PreviewOpen(p) \/ ThumbnailRecord(p)
  <2>1. r.pc \in PCs \ {"idle", "answer"}
    BY <1>5 DEF DownloadOpen, PreviewOpen, ThumbnailRecord, PCs
  <2>2. \E how, a : Answer(p, how, a)
    BY <1>5, Zenon DEF DownloadOpen, PreviewOpen, ThumbnailRecord
  <2>3. QED
    BY <1>2, <2>1, <2>2
<1>6. CASE ThumbnailOpen(p) \/ ThumbnailGenerate(p)
  <2>1. r.pc \in {"thOpen", "thGenerate"} /\ r.pc \in PCs \ {"idle", "answer"}
    BY <1>6 DEF ThumbnailOpen, ThumbnailGenerate, PCs
  <2>2. \/ \E how, a : Answer(p, how, a)
        \/ r.pc = "thOpen" /\ Goto(p, "thGenerate", r)
        \/ r.pc = "thGenerate" /\ Goto(p, "thCreate", r)
    BY <1>6, Zenon DEF ThumbnailOpen, ThumbnailGenerate
  <2>3. QED
    BY <1>1, <1>2, <2>1, <2>2 DEF Follow
<1>7. CASE ThumbnailCreate(p) \/ BackfillCreate(p)
  <2> DEFINE l == [r EXCEPT !.asset.thumb = today]
             m == [r EXCEPT !.asset.preview = today]
  <2>1. l.todo = r.todo /\ m.todo = r.todo
    BY <1>0 DEF Request
  <2>2. \/ r.pc = "thCreate" /\ Goto(p, "thWrite", l)
        \/ r.pc = "bfCreate" /\ Goto(p, "bfWrite", m)
    BY <1>7, Zenon DEF ThumbnailCreate, BackfillCreate
  <2> HIDE DEF l, m
  <2>3. QED
    BY <1>1, <2>1, <2>2 DEF Follow
<1>8. CASE ThumbnailWrite(p) \/ BackfillWrite(p)
  BY <1>1, <1>8 DEF ThumbnailWrite, BackfillWrite, Follow
<1>9. CASE BackfillList(p)
  <2>1. PICK found \in SUBSET Ids :
            Goto(p, "bfNext", [r EXCEPT !.todo = found, !.listed = found])
    BY <1>9 DEF BackfillList, ListWithoutPreview
  <2> DEFINE l == [r EXCEPT !.todo = found, !.listed = found]
  <2>2. l.todo \in SUBSET Ids /\ Goto(p, "bfNext", l)
    BY <1>0, <2>1 DEF Request
  <2> HIDE DEF l
  <2>3. QED
    BY <1>9, <2>2, ListCounts DEF BackfillList
<1>10. CASE BackfillNext(p)
  <2>1. r.pc = "bfNext" /\ r.pc \in PCs \ {"idle", "answer"}
    BY <1>10 DEF BackfillNext, PCs
  <2>2. ASSUME NEW a \in r.todo,
               Goto(p, "bfFind", [r EXCEPT !.target = a, !.todo = @ \ {a}])
        PROVE  Advances(p)
    <3> DEFINE l == [r EXCEPT !.target = a, !.todo = @ \ {a}]
    <3>1. l.todo = r.todo \ {a} /\ Goto(p, "bfFind", l)
      BY <1>0, <2>2 DEF Request
    <3> HIDE DEF l
    <3>2. QED
      BY <2>1, <3>1, ListCounts
  <2>3. \/ \E a \in r.todo : Goto(p, "bfFind", [r EXCEPT !.target = a, !.todo = @ \ {a}])
        \/ \E how, a : Answer(p, how, a)
    BY <1>10, Zenon DEF BackfillNext
  <2>4. QED
    BY <1>2, <2>1, <2>2, <2>3
<1>11. CASE BackfillFind(p) \/ BackfillGenerate(p) \/ BackfillRecord(p)
  <2>1. r.pc \in {"bfFind", "bfGenerate", "bfRecord"} /\ r.pc \in BackfillWork
    BY <1>11 DEF BackfillFind, BackfillGenerate, BackfillRecord, BackfillWork
  <2>2. \A asset : [r EXCEPT !.asset = asset].todo = r.todo
    BY <1>0 DEF Request
  <2>3. \/ \E failed : BackfillDone(p, failed)
        \/ r.pc = "bfFind" /\ \E asset : Goto(p, "bfGenerate", [r EXCEPT !.asset = asset])
        \/ r.pc = "bfGenerate" /\ Goto(p, "bfCreate", r)
    BY <1>11, Zenon DEF BackfillFind, BackfillGenerate, BackfillRecord
  <2>4. QED
    BY <1>1, <2>1, <2>2, <2>3, DoneCounts DEF Follow
<1>12. QED
  BY <1>4, <1>5, <1>6, <1>7, <1>8, <1>9, <1>10, <1>11 DEF DerivedStep

LEMMA FaultCounts ==
    ASSUME TypeInv, TypeInv', NEW p \in Procs, FaultStep(p)
    PROVE  Advances(p)
<1> USE DEF At
<1> DEFINE r == req[p]
<1>0. r \in Request
  BY Locals
<1>1. ASSUME NEW pc, NEW local, Goto(p, pc, local), local.todo = r.todo,
             <<r.pc, pc>> \in Follow
      PROVE  Advances(p)
  BY <1>1, FollowCounts
<1>2. ASSUME NEW how, NEW a, Answer(p, how, a), r.pc \in PCs \ {"idle", "answer"}
      PROVE  Advances(p)
  BY <1>2, AnswerCounts
<1>3. ASSUME BackfillDone(p, TRUE), r.pc \in BackfillWork PROVE Advances(p)
  BY <1>3, DoneCounts
<1>4. CASE ReadFails(p)
  <2>1. \/ r.pc \in PCs \ {"idle", "answer"} /\ \E how, a : Answer(p, how, a)
        \/ r.pc \in BackfillWork /\ BackfillDone(p, TRUE)
    <3>1. r.pc \in PCs \ {"idle", "answer"}
      BY <1>4 DEF ReadFails, PCs
    <3>2. (\E how, a : Answer(p, how, a)) \/ (r.pc = "bfFind" /\ BackfillDone(p, TRUE))
      BY <1>4, Zenon DEF ReadFails
    <3>3. QED
      BY <3>1, <3>2 DEF BackfillWork
  <2>2. QED
    BY <1>2, <1>3, <2>1
<1>5. CASE StatementFails(p)
  <2>1. r.pc \in PCs \ {"idle", "answer"}
    BY <1>5 DEF StatementFails, PCs
  <2>2. \/ \E how, a : Answer(p, how, a)
        \/ r.pc = "upInsert" /\ Goto(p, "upUndo", [r EXCEPT !.how = "failed"])
        \/ r.pc = "bfRecord" /\ BackfillDone(p, TRUE)
    BY <1>5, Zenon DEF StatementFails
  <2>3. [r EXCEPT !.how = "failed"].todo = r.todo
    BY <1>0 DEF Request
  <2>4. QED
    BY <1>1, <1>2, <1>3, <2>1, <2>2, <2>3 DEF Follow, BackfillWork
<1>6. CASE OriginalNotSaved(p)
  BY <1>2, <1>6 DEF OriginalNotSaved, PCs
<1>7. CASE ThumbnailNotSaved(p) \/ PreviewNotSaved(p)
  <2>1. r.pc \in PCs \ {"idle", "answer"}
    BY <1>7 DEF ThumbnailNotSaved, PreviewNotSaved, PCs
  <2>2. \/ \E how, a : Answer(p, how, a)
        \/ r.pc = "upThumb" /\ Goto(p, "upPreview", r)
        \/ r.pc = "upPreview" /\ Goto(p, "upInsert", r)
        \/ r.pc \in {"bfCreate", "bfWrite"} /\ BackfillDone(p, TRUE)
    BY <1>7 DEF ThumbnailNotSaved, PreviewNotSaved
  <2>3. QED
    BY <1>1, <1>2, <1>3, <2>1, <2>2 DEF Follow, BackfillWork
<1>8. CASE UnlinkFails(p)
  <2>1. r.pc \in PCs \ {"idle", "answer"}
    BY <1>8 DEF UnlinkFails, PCs
  <2>2. \/ \E how, a : Answer(p, how, a)
        \/ r.pc = "upUndo" /\ Goto(p, "upRefind", r)
    BY <1>8, Zenon DEF UnlinkFails
  <2>3. QED
    BY <1>1, <1>2, <2>1, <2>2 DEF Follow
<1>9. CASE Die(p)
  BY <1>0, <1>9, EndCounts DEF Die, Request
<1>10. QED
  BY <1>4, <1>5, <1>6, <1>7, <1>8, <1>9 DEF FaultStep

\* A request in flight is never kept going, whatever the others do to the rows it looks
\* for and whatever fails: each of its steps leaves fewer to take, of at most
\* 10 + 2n up to the answer for an upload beside n assets, 2 + 7n for EmptyTrash, 2 + 6n
\* for backfill-previews (service.go:41-140, 245-258, main.go:47-72). This is what makes
\* a request end; that it always has a next step is left to the runs.
THEOREM StepsRunOut == Spec => EveryStepCounts
<1>1. TypeInv /\ TypeInv' /\ [Next]_vars =>
          [\A p \in Procs : req'[p] # req[p] /\ ~At(p, "idle")
              => StepsLeft(req'[p]) < StepsLeft(req[p])]_vars
  <2>1. SUFFICES ASSUME TypeInv, TypeInv', Next, NEW q \in Procs, req'[q] # req[q],
                        ~At(q, "idle")
                 PROVE  StepsLeft(req'[q]) < StepsLeft(req[q])
    OBVIOUS
  <2>2. ASSUME NEW p \in Procs, Advances(p) PROVE StepsLeft(req'[q]) < StepsLeft(req[q])
    BY <2>1, <2>2 DEF Advances, OthersKeep
  <2>3. ASSUME NEW p \in Procs, Start(p) PROVE FALSE
    <3>1. At(p, "idle") /\ \E new : req' = [req EXCEPT ![p] = new]
      BY <2>3 DEF Start, StartUpload, StartDelete, StartRestore, StartPurge,
                  StartEmptyTrash, StartDownload, StartPreview, StartThumbnail,
                  StartTrashThumbnail, StartBackfill, StartOn, Begin
    <3>2. QED
      BY <2>1, <3>1 DEF TypeInv, ReqOK
  <2>4. ASSUME NEW p \in Procs, Respond(p) PROVE Advances(p)
    BY <2>1, <2>4, EndCounts DEF Respond, At, PCs
  <2>5. CASE Midnight
    BY <2>1, <2>5 DEF Midnight
  <2>6. QED
    BY <2>1, <2>2, <2>3, <2>4, <2>5, UploadCounts, TrashCounts, DerivedCounts, FaultCounts
       DEF Next, Step
<1>2. QED
  BY <1>1, InitType, NextType, PTL DEF Spec, EveryStepCounts
=============================================================================
