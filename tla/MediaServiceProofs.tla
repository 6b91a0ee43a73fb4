------------------------- MODULE MediaServiceProofs -------------------------
(***************************************************************************)
(* Theorems about MediaService for all values of its constants: any number *)
(* of assets, contents and concurrent requests, any faults. First type     *)
(* correctness, then the absence of data loss, then that a purge spares    *)
(* active assets.                                                          *)
(***************************************************************************)
EXTENDS MediaService, FiniteSetTheorems, TLAPS

-----------------------------------------------------------------------------
(* Type correctness. TypeOK is not inductive by itself: a request that works *)
(* on an asset must have one, or it would read a row that does not exist, and *)
(* an upload that cleans up must have an error to report.                     *)

NeedsTarget ==
    {"upRestore", "upBackfill", "upThumb", "upPreview", "upInsert", "upUndo",
     "delFind", "delMark", "resFind", "resMark",
     "purFind", "purCount", "purRow", "purThumb", "purPreview", "purOriginal",
     "dlFind", "dlOpen", "pvFind", "pvOpen",
     "thFind", "thTrashFind", "thOpen", "thGenerate", "thCreate", "thWrite",
     "thRecord", "bfFind", "bfGenerate", "bfCreate", "bfWrite", "bfRecord"}

NeedsContent ==
    {"upFind", "upFindTrash", "upRestore", "upLegacy", "upProbe", "upBackfill",
     "upStore", "upThumb", "upPreview", "upInsert", "upUndo", "upRefind"}

Filling == {"upThumb", "upPreview", "upInsert"}

LocalsOK(r) ==
    /\ r.pc \in NeedsTarget => r.target \in Ids
    /\ r.pc \in NeedsContent => r.content \in Contents
    /\ r.pc \in Filling => r.asset.state = "active"
    /\ r.pc = "upUndo" => r.how \in Answers

ReqOK == req \in [Procs -> Request] /\ \A p \in Procs : LocalsOK(req[p])

TypeInv == TypeOK /\ ReqOK

\* A request that is idle has its type.
LEMMA IdleType == Idle \in Request
BY ConstantsAssumption, FS_CardinalityType
   DEF Idle, Request, NoRow, Row, PCs, NoPath, SqlNull, Days

\* The table keeps its type under every statement.
LEMMA StatementTypes ==
    ASSUME TypeOK, NEW a \in Ids
    PROVE  /\ \A asset \in Row : Save(a, asset) \in [Ids -> Row]
           /\ \A h \in Contents \cup {Null} : UpdateContentHash(a, h) \in [Ids -> Row]
           /\ \A d \in {NoPath} \cup Days :
                 UpdateThumbnailStoragePath(a, d) \in [Ids -> Row]
           /\ \A d \in {SqlNull, NoPath} \cup Days :
                 UpdatePreviewStoragePath(a, d) \in [Ids -> Row]
           /\ SoftDelete(a) \in [Ids -> Row]
           /\ Restore(a) \in [Ids -> Row]
           /\ Delete(a) \in [Ids -> Row]
<1>1. NoRow \in Row
  BY DEF NoRow, Row, NoPath, SqlNull
<1>2. \A asset \in Row : Save(a, asset) \in [Ids -> Row]
  BY DEF TypeOK, Save
<1>3. \A h \in Contents \cup {Null} : UpdateContentHash(a, h) \in [Ids -> Row]
  BY DEF TypeOK, UpdateContentHash, Row
<1>4. \A d \in {NoPath} \cup Days : UpdateThumbnailStoragePath(a, d) \in [Ids -> Row]
  BY DEF TypeOK, UpdateThumbnailStoragePath, Row
<1>5. \A d \in {SqlNull, NoPath} \cup Days :
         UpdatePreviewStoragePath(a, d) \in [Ids -> Row]
  BY DEF TypeOK, UpdatePreviewStoragePath, Row
<1>6. SoftDelete(a) \in [Ids -> Row]
  BY DEF TypeOK, SoftDelete, Row
<1>7. Restore(a) \in [Ids -> Row]
  BY DEF TypeOK, Restore, Row
<1>8. Delete(a) \in [Ids -> Row]
  BY <1>1 DEF TypeOK, Delete
<1>9. QED
  BY <1>2, <1>3, <1>4, <1>5, <1>6, <1>7, <1>8

\* So do the derived files under each of the store's operations.
LEMMA FileTypes ==
    ASSUME NEW files \in [Ids -> [Days -> DerivedFile]], today \in Days,
           NEW a, NEW d, NEW v \in DerivedFile
    PROVE  /\ Created(files, a) \in [Ids -> [Days -> DerivedFile]]
           /\ Written(files, a, d, v) \in [Ids -> [Days -> DerivedFile]]
           /\ Unlinked(files, a, d) \in [Ids -> [Days -> DerivedFile]]
           /\ [files EXCEPT ![a][today] = v] \in [Ids -> [Days -> DerivedFile]]
BY DEF Created, Written, Unlinked, DerivedFile

\* A request keeps its type when it goes on, ...
LEMMA GotoType ==
    ASSUME TypeInv, NEW p \in Procs, NEW pc \in PCs, NEW local \in Request,
           pc \in NeedsTarget => local.target \in Ids,
           pc \in NeedsContent => local.content \in Contents,
           pc \in Filling => local.asset.state = "active",
           pc = "upUndo" => local.how \in Answers,
           Goto(p, pc, local)
    PROVE  ReqOK'
<1> DEFINE r == [local EXCEPT !.pc = pc]
<1>1. /\ r \in Request /\ r.pc = pc
      /\ r.target = local.target /\ r.how = local.how
      /\ r.content = local.content /\ r.asset = local.asset
  BY DEF Request
<1>2. req' = [req EXCEPT ![p] = r]
  BY DEF Goto
<1> HIDE DEF r
<1>3. QED
  BY <1>1, <1>2 DEF TypeInv, ReqOK, LocalsOK

\* ... when it is answered, ...
LEMMA AnswerType ==
    ASSUME TypeInv, NEW p \in Procs, NEW how \in Answers, NEW a \in Ids \cup {Null},
           Answer(p, how, a)
    PROVE  ReqOK'
<1> DEFINE r == [Idle EXCEPT !.pc = "answer", !.op = req[p].op, !.target = a,
                             !.content = req[p].content, !.action = req[p].action,
                             !.listed = req[p].listed, !.how = how]
<1>1. req[p] \in Request
  BY DEF TypeInv, TypeOK
<1>2. /\ "answer" \in PCs /\ "answer" # "upUndo"
      /\ "answer" \notin NeedsTarget \cup NeedsContent \cup Filling
  BY DEF PCs, NeedsTarget, NeedsContent, Filling
<1>3. /\ req[p].op \in AllKinds \cup {Null}
      /\ req[p].content \in Contents \cup {Null}
      /\ req[p].action \in DuplicateActions \cup {Null}
      /\ req[p].listed \in SUBSET Ids
  BY <1>1 DEF Request
<1>4. r \in Request /\ r.pc = "answer"
  BY <1>2, <1>3, IdleType DEF Request
<1>5. req' = [req EXCEPT ![p] = r]
  BY DEF Answer
<1> HIDE DEF r
<1>6. QED
  BY <1>2, <1>4, <1>5 DEF TypeInv, ReqOK, LocalsOK

\* ... and when it begins.
LEMMA BeginType ==
    ASSUME TypeInv, NEW p \in Procs, NEW kind \in AllKinds, NEW first \in PCs,
           NEW local \in Request, first \in NeedsTarget => local.target \in Ids,
           first \in NeedsContent => local.content \in Contents,
           first \in Filling => local.asset.state = "active",
           first # "upUndo",
           Begin(p, kind, first, local)
    PROVE  ReqOK'
<1> DEFINE r == [local EXCEPT !.op = kind, !.pc = first]
<1>1. /\ r \in Request /\ r.pc = first
      /\ r.target = local.target /\ r.how = local.how
      /\ r.content = local.content /\ r.asset = local.asset
  BY DEF Request
<1>2. req' = [req EXCEPT ![p] = r]
  BY DEF Begin
<1> HIDE DEF r
<1>3. QED
  BY <1>1, <1>2 DEF TypeInv, ReqOK, LocalsOK

\* The backfill's loop keeps the type of its request.
LEMMA BackfillDoneType ==
    ASSUME TypeInv, NEW p \in Procs, NEW failed \in BOOLEAN, BackfillDone(p, failed)
    PROVE  ReqOK'
<1> DEFINE local == [req[p] EXCEPT !.target = Null, !.asset = NoRow,
                                   !.failed = @ \/ failed]
<1>1. req[p] \in Request
  BY DEF TypeInv, TypeOK
<1>2. NoRow \in Row
  BY DEF NoRow, Row, NoPath, SqlNull
<1>3. local \in Request
  BY <1>1, <1>2 DEF Request
<1>4. Goto(p, "bfNext", local)
  BY DEF BackfillDone
<1> HIDE DEF local
<1>5. QED
  BY <1>3, <1>4, GotoType DEF PCs, Filling, NeedsTarget, NeedsContent

\* A step that leaves the store alone only has to keep the requests' type.
LEMMA StoredType ==
    ASSUME TypeInv, ReqOK', UNCHANGED stored
    PROVE  TypeInv'
BY DEF TypeInv, TypeOK, ReqOK, stored

\* The outcomes that the repository reports are answers.
LEMMA Outcomes ==
    ASSUME NEW a, NEW asset
    PROVE  /\ SaveOutcome(a, asset) \in {"ok", "duplicate"}
           /\ RestoreOutcome(a) \in {"ok", "notFound", "duplicate"}
           /\ SoftDeleteOutcome(a) \in {"ok", "notFound"}
           /\ DeleteOutcome(a) \in {"ok", "notFound"}
BY DEF SaveOutcome, RestoreOutcome, SoftDeleteOutcome, DeleteOutcome

\* What a request in flight holds.
LEMMA Locals ==
    ASSUME TypeInv, NEW p \in Procs
    PROVE  /\ req[p] \in Request
           /\ req[p].target \in Ids \cup {Null}
           /\ req[p].pc \in NeedsTarget => req[p].target \in Ids
           /\ req[p].pc \in NeedsContent => req[p].content \in Contents
           /\ req[p].pc \in Filling => req[p].asset.state = "active"
           /\ req[p].pc = "upUndo" => req[p].how \in Answers
           /\ req[p].content \in Contents \cup {Null}
           /\ req[p].hash \in Contents \cup {Null}
           /\ req[p].asset \in Row
           /\ req[p].todo \in SUBSET Ids
BY DEF TypeInv, ReqOK, LocalsOK, Request

\* An upload whose row was refused keeps its type when it turns to cleaning
\* up, and when it is done with it.
LEMMA UndoType ==
    ASSUME TypeInv, NEW p \in Procs, NEW how \in Answers, At(p, "upInsert"),
           Goto(p, "upUndo", [req[p] EXCEPT !.how = how])
    PROVE  ReqOK'
<1> DEFINE l == [req[p] EXCEPT !.how = how]
<1>1. req[p] \in Request /\ req[p].target \in Ids /\ req[p].content \in Contents
  BY Locals DEF At, NeedsTarget, NeedsContent
<1>2. /\ l \in Request /\ l.how = how
      /\ l.target = req[p].target /\ l.content = req[p].content
  BY <1>1 DEF Request
<1>3. Goto(p, "upUndo", l)
  OBVIOUS
<1> HIDE DEF l
<1>4. QED
  BY <1>1, <1>2, <1>3, GotoType DEF PCs, Filling

LEMMA UndoneType ==
    ASSUME TypeInv, NEW p \in Procs, At(p, "upUndo"),
           Goto(p, "upRefind", req[p]) \/ Answer(p, req[p].how, Null)
    PROVE  ReqOK'
<1>1. /\ req[p] \in Request /\ req[p].target \in Ids
      /\ req[p].content \in Contents /\ req[p].how \in Answers
  BY Locals DEF At, NeedsTarget, NeedsContent
<1>2. CASE Goto(p, "upRefind", req[p])
  BY <1>1, <1>2, GotoType DEF PCs, Filling
<1>3. CASE Answer(p, req[p].how, Null)
  BY <1>1, <1>3, AnswerType
<1>4. QED
  BY <1>2, <1>3

\* Unlinking a derived file, whatever the day in its path, keeps the type.
LEMMA UnlinkedType ==
    ASSUME NEW files \in [Ids -> [Days -> DerivedFile]], NEW a, NEW d
    PROVE  Unlinked(files, a, d) \in [Ids -> [Days -> DerivedFile]]
BY DEF Unlinked, DerivedFile

\* A count of rows is between zero and the number of ids.
LEMMA CountType == \A path : CountByStoragePath(path) \in 0 .. Cardinality(Ids)
<1> TAKE path
<1> DEFINE S == {a \in Ids : rows[a].state = "active" /\ StoragePath(a) = path}
<1>1. S \subseteq Ids
  OBVIOUS
<1>2. /\ IsFiniteSet(S) /\ Cardinality(S) \in Nat /\ Cardinality(Ids) \in Nat
      /\ Cardinality(S) <= Cardinality(Ids)
  BY <1>1, ConstantsAssumption, FS_Subset, FS_CardinalityType
<1>3. QED
  BY <1>2 DEF CountByStoragePath

-----------------------------------------------------------------------------
(* The types, action by action. *)

LEMMA UploadType ==
    ASSUME TypeInv, NEW p \in Procs, UploadStep(p)
    PROVE  TypeInv'
<1> USE Locals DEF At
<1> DEFINE r == req[p]
<1>1. CASE UploadFind(p)
  <2>1. r \in Request /\ r.content \in Contents
    BY <1>1 DEF UploadFind, NeedsContent
  <2>2. CASE \E a \in Ids : Answer(p, "existing", a)
    BY <1>1, <2>2, AnswerType, StoredType DEF UploadFind, Answers
  <2>3. CASE Goto(p, "upFindTrash", r)
    <3>1. ReqOK'
      BY <2>1, <2>3, GotoType DEF PCs, Filling, NeedsTarget
    <3>2. QED
      BY <1>1, <3>1, StoredType DEF UploadFind
  <2>4. QED
    BY <1>1, <2>2, <2>3 DEF UploadFind, FindByContentHash
<1>2. CASE UploadFindTrash(p)
  <2>1. r \in Request /\ r.content \in Contents
    BY <1>2 DEF UploadFindTrash, NeedsContent
  <2>2. ASSUME NEW a \in Ids, Goto(p, "upRestore", [r EXCEPT !.target = a])
        PROVE  ReqOK'
    <3> DEFINE l == [r EXCEPT !.target = a]
    <3>1. l \in Request /\ l.target = a /\ l.content = r.content
      BY <2>1 DEF Request
    <3>2. Goto(p, "upRestore", l)
      BY <2>2
    <3> HIDE DEF l
    <3>3. QED
      BY <2>1, <3>1, <3>2, GotoType DEF PCs, Filling
  <2>3. ASSUME NEW a \in Ids, Answer(p, "decision", a)
        PROVE  ReqOK'
    BY <2>3, AnswerType DEF Answers
  <2>4. ASSUME Goto(p, "upLegacy", r)
        PROVE  ReqOK'
    BY <2>1, <2>4, GotoType DEF PCs, Filling, NeedsTarget
  <2>5. ReqOK'
    BY <1>2, <2>2, <2>3, <2>4 DEF UploadFindTrash, FindDeletedByContentHash
  <2>6. QED
    BY <1>2, <2>5, StoredType DEF UploadFindTrash
<1>3. CASE UploadRestore(p)
  <2>1. r.target \in Ids
    BY <1>3 DEF UploadRestore, NeedsTarget
  <2>2. \E how \in Answers : Answer(p, how, r.target)
    BY <1>3, Outcomes DEF UploadRestore, Answers
  <2>3. ReqOK'
    BY <2>1, <2>2, AnswerType
  <2>4. rows' \in [Ids -> Row]
    BY <1>3, <2>1, StatementTypes DEF UploadRestore, TypeInv
  <2>5. QED
    BY <1>3, <2>3, <2>4 DEF UploadRestore, TypeInv, TypeOK, ReqOK
<1>4. CASE UploadLegacy(p)
  <2>1. r \in Request /\ r.content \in Contents
    BY <1>4 DEF UploadLegacy, NeedsContent
  <2>2. PICK found \in SUBSET Ids : Goto(p, "upProbe", [r EXCEPT !.todo = found])
    BY <1>4 DEF UploadLegacy, FindWithoutContentHashBySize
  <2> DEFINE l == [r EXCEPT !.todo = found]
  <2>3. l \in Request /\ l.content = r.content
    BY <2>1 DEF Request
  <2>4. Goto(p, "upProbe", l)
    BY <2>2
  <2> HIDE DEF l
  <2>5. ReqOK'
    BY <2>1, <2>3, <2>4, GotoType DEF PCs, Filling, NeedsTarget
  <2>6. QED
    BY <1>4, <2>5, StoredType DEF UploadLegacy
<1>5. CASE UploadProbe(p)
  <2>1. r \in Request /\ r.content \in Contents
    BY <1>5 DEF UploadProbe, NeedsContent
  <2> DEFINE rest(a) == [r EXCEPT !.todo = @ \ {a}]
  <2>2. ASSUME NEW a \in Ids, Goto(p, "upProbe", rest(a))
        PROVE  ReqOK'
    <3>1. rest(a) \in Request /\ rest(a).content = r.content
      BY <2>1 DEF Request
    <3> HIDE DEF rest
    <3>2. QED
      BY <2>1, <2>2, <3>1, GotoType DEF PCs, Filling, NeedsTarget
  <2>3. ASSUME NEW a \in Ids, NEW h \in Contents,
               Goto(p, "upBackfill", [rest(a) EXCEPT !.target = a, !.hash = h])
        PROVE  ReqOK'
    <3> DEFINE l == [rest(a) EXCEPT !.target = a, !.hash = h]
    <3>1. l \in Request /\ l.target = a /\ l.content = r.content
      BY <2>1 DEF Request
    <3>2. Goto(p, "upBackfill", l)
      BY <2>3
    <3> HIDE DEF l
    <3>3. QED
      BY <2>1, <3>1, <3>2, GotoType DEF PCs, Filling
  <2>4. ASSUME Goto(p, "upStore", r)
        PROVE  ReqOK'
    BY <2>1, <2>4, GotoType DEF PCs, Filling, NeedsTarget
  <2>5. \/ \E a \in Ids :
             \/ Goto(p, "upProbe", rest(a))
             \/ \E h \in Contents :
                  Goto(p, "upBackfill", [rest(a) EXCEPT !.target = a, !.hash = h])
        \/ Goto(p, "upStore", r)
    BY <1>5 DEF UploadProbe
  <2> HIDE DEF rest
  <2>6. ReqOK'
    BY <2>2, <2>3, <2>4, <2>5
  <2>7. QED
    BY <1>5, <2>6, StoredType DEF UploadProbe
<1>6. CASE UploadBackfill(p)
  <2>1. r \in Request /\ r.target \in Ids /\ r.content \in Contents
    BY <1>6 DEF UploadBackfill, NeedsTarget, NeedsContent
  <2>2. ASSUME Answer(p, "existing", r.target)
        PROVE  ReqOK'
    BY <2>1, <2>2, AnswerType DEF Answers
  <2>3. ASSUME Goto(p, "upProbe", [r EXCEPT !.target = Null, !.hash = Null])
        PROVE  ReqOK'
    <3> DEFINE l == [r EXCEPT !.target = Null, !.hash = Null]
    <3>1. l \in Request /\ l.content = r.content
      BY <2>1 DEF Request
    <3>2. Goto(p, "upProbe", l)
      BY <2>3
    <3> HIDE DEF l
    <3>3. QED
      BY <2>1, <3>1, <3>2, GotoType DEF PCs, Filling, NeedsTarget
  <2>4. ReqOK'
    BY <1>6, <2>2, <2>3 DEF UploadBackfill
  <2>5. rows' \in [Ids -> Row]
    BY <1>6, <2>1, StatementTypes DEF UploadBackfill, TypeInv
  <2>6. QED
    BY <1>6, <2>4, <2>5 DEF UploadBackfill, TypeInv, TypeOK, ReqOK
<1>7. CASE UploadStore(p)
  <2>1. r \in Request /\ r.content \in Contents
    BY <1>7 DEF UploadStore, NeedsContent
  <2>2. PICK a \in Ids \ issued :
            /\ issued' = issued \cup {a}
            /\ originals' = [originals EXCEPT ![a] = r.content]
            /\ Goto(p, "upThumb",
                    [r EXCEPT !.target = a,
                       !.asset = [state |-> "active", content |-> r.content,
                                  hash |-> r.content, thumb |-> NoPath,
                                  preview |-> NoPath]])
    BY <1>7 DEF UploadStore
  <2> DEFINE row == [state |-> "active", content |-> r.content,
                     hash |-> r.content, thumb |-> NoPath, preview |-> NoPath]
             l == [r EXCEPT !.target = a, !.asset = row]
  <2>3. row \in Row /\ row.state = "active"
    BY <2>1 DEF Row, NoPath
  <2>4. Goto(p, "upThumb", l)
    BY <2>2
  <2> HIDE DEF row
  <2>5. l \in Request /\ l.target = a /\ l.content = r.content /\ l.asset = row
    BY <2>1, <2>3 DEF Request
  <2> HIDE DEF l
  <2>6. ReqOK'
    BY <2>1, <2>3, <2>4, <2>5, GotoType DEF PCs, Filling
  <2>7. originals' \in [Ids -> OriginalFile] /\ issued' \in SUBSET Ids
    BY <2>1, <2>2 DEF TypeInv, TypeOK, OriginalFile
  <2>8. QED
    BY <1>7, <2>6, <2>7 DEF UploadStore, TypeInv, TypeOK, ReqOK
<1>8. CASE UploadThumb(p)
  <2>1. /\ r \in Request /\ r.target \in Ids /\ r.content \in Contents
        /\ r.asset.state = "active" /\ today \in Days
    BY <1>8 DEF UploadThumb, NeedsTarget, NeedsContent, Filling, TypeInv, TypeOK
  <2>2. ASSUME Goto(p, "upPreview", [r EXCEPT !.asset.thumb = today])
        PROVE  ReqOK'
    <3> DEFINE l == [r EXCEPT !.asset.thumb = today]
    <3>1. /\ l \in Request /\ l.target = r.target /\ l.content = r.content
          /\ l.asset.state = r.asset.state
      BY <2>1 DEF Request, Row
    <3>2. Goto(p, "upPreview", l)
      BY <2>2
    <3> HIDE DEF l
    <3>3. QED
      BY <2>1, <3>1, <3>2, GotoType DEF PCs, Filling
  <2>3. ASSUME Goto(p, "upPreview", r)
        PROVE  ReqOK'
    BY <2>1, <2>3, GotoType DEF PCs, Filling
  <2>4. ReqOK'
    BY <1>8, <2>2, <2>3 DEF UploadThumb
  <2>5. thumbnails' \in [Ids -> [Days -> DerivedFile]]
    <3>1. \/ thumbnails' = [thumbnails EXCEPT ![r.target][today] = "whole"]
          \/ UNCHANGED thumbnails
      BY <1>8 DEF UploadThumb
    <3>2. thumbnails \in [Ids -> [Days -> DerivedFile]] /\ "whole" \in DerivedFile
      BY DEF TypeInv, TypeOK, DerivedFile
    <3>3. QED
      BY <2>1, <3>1, <3>2, FileTypes
  <2>6. QED
    BY <1>8, <2>4, <2>5 DEF UploadThumb, TypeInv, TypeOK, ReqOK
<1>9. CASE UploadPreview(p)
  <2>1. /\ r \in Request /\ r.target \in Ids /\ r.content \in Contents
        /\ r.asset.state = "active" /\ today \in Days
    BY <1>9 DEF UploadPreview, NeedsTarget, NeedsContent, Filling, TypeInv, TypeOK
  <2>2. ASSUME Goto(p, "upInsert", [r EXCEPT !.asset.preview = today])
        PROVE  ReqOK'
    <3> DEFINE l == [r EXCEPT !.asset.preview = today]
    <3>1. /\ l \in Request /\ l.target = r.target /\ l.content = r.content
          /\ l.asset.state = r.asset.state
      BY <2>1 DEF Request, Row
    <3>2. Goto(p, "upInsert", l)
      BY <2>2
    <3> HIDE DEF l
    <3>3. QED
      BY <2>1, <3>1, <3>2, GotoType DEF PCs, Filling
  <2>3. ASSUME Goto(p, "upInsert", r)
        PROVE  ReqOK'
    BY <2>1, <2>3, GotoType DEF PCs, Filling
  <2>4. ReqOK'
    BY <1>9, <2>2, <2>3 DEF UploadPreview
  <2>5. previews' \in [Ids -> [Days -> DerivedFile]]
    <3>1. \/ previews' = [previews EXCEPT ![r.target][today] = "whole"]
          \/ UNCHANGED previews
      BY <1>9 DEF UploadPreview
    <3>2. previews \in [Ids -> [Days -> DerivedFile]] /\ "whole" \in DerivedFile
      BY DEF TypeInv, TypeOK, DerivedFile
    <3>3. QED
      BY <2>1, <3>1, <3>2, FileTypes
  <2>6. QED
    BY <1>9, <2>4, <2>5 DEF UploadPreview, TypeInv, TypeOK, ReqOK
<1>10. CASE UploadInsert(p)
  <2>1. r \in Request /\ r.target \in Ids /\ r.content \in Contents /\ r.asset \in Row
    BY <1>10 DEF UploadInsert, NeedsTarget, NeedsContent
  <2>2. ASSUME NEW how \in Answers, Goto(p, "upUndo", [r EXCEPT !.how = how])
        PROVE  ReqOK'
    BY <1>10, <2>2, UndoType DEF UploadInsert
  <2>3. ASSUME Answer(p, "created", r.target)
        PROVE  ReqOK'
    BY <2>1, <2>3, AnswerType DEF Answers
  <2>4. SaveOutcome(r.target, r.asset) \in Answers
    BY Outcomes DEF Answers
  <2>5. ReqOK'
    BY <1>10, <2>2, <2>3, <2>4 DEF UploadInsert
  <2>6. rows' \in [Ids -> Row]
    BY <1>10, <2>1, StatementTypes DEF UploadInsert, TypeInv
  <2>7. QED
    BY <1>10, <2>5, <2>6 DEF UploadInsert, TypeInv, TypeOK, ReqOK
<1>11. CASE UploadUndo(p)
  <2>1. r \in Request /\ r.target \in Ids /\ r.content \in Contents /\ r.how \in Answers
    BY <1>11 DEF UploadUndo, NeedsTarget, NeedsContent
  <2>2. ReqOK'
    BY <1>11, <2>1, UndoneType DEF UploadUndo
  <2>3. originals' \in [Ids -> OriginalFile]
    BY <1>11, <2>1 DEF UploadUndo, TypeInv, TypeOK, OriginalFile
  <2>4. thumbnails' \in [Ids -> [Days -> DerivedFile]]
    BY <1>11, <2>1 DEF UploadUndo, Unlinked, TypeInv, TypeOK, DerivedFile
  <2>5. previews' \in [Ids -> [Days -> DerivedFile]]
    BY <1>11, <2>1 DEF UploadUndo, Unlinked, TypeInv, TypeOK, DerivedFile
  <2>6. QED
    BY <1>11, <2>2, <2>3, <2>4, <2>5 DEF UploadUndo, TypeInv, TypeOK, ReqOK
<1>12. CASE UploadRefind(p)
  <2>1. (\E a \in Ids : Answer(p, "existing", a)) \/ Answer(p, "duplicate", Null)
    BY <1>12 DEF UploadRefind, FindByContentHash
  <2>2. ReqOK'
    BY <2>1, AnswerType DEF Answers
  <2>3. QED
    BY <1>12, <2>2, StoredType DEF UploadRefind
<1>13. QED
  BY <1>1, <1>2, <1>3, <1>4, <1>5, <1>6, <1>7, <1>8, <1>9, <1>10, <1>11, <1>12
     DEF UploadStep

\* Outside uploads, a request goes on with an asset to work on, ...
LEMMA GoOnType ==
    ASSUME TypeInv, NEW p \in Procs, NEW pc \in PCs \ NeedsContent,
           NEW local \in Request, local.target \in Ids, Goto(p, pc, local)
    PROVE  ReqOK'
BY GotoType DEF NeedsContent, Filling

\* ... with what it read of it, or goes back to its list.
LEMMA ReadType ==
    ASSUME TypeInv, NEW p \in Procs, NEW pc \in PCs \ NeedsContent,
           NEW a \in Ids, req[p].target = a,
           Goto(p, pc, [req[p] EXCEPT !.asset = rows[a]])
    PROVE  ReqOK'
<1> DEFINE l == [req[p] EXCEPT !.asset = rows[a]]
<1>1. rows[a] \in Row /\ req[p] \in Request
  BY Locals DEF TypeInv, TypeOK
<1>2. l \in Request /\ l.target = a
  BY <1>1 DEF Request
<1>3. Goto(p, pc, l)
  OBVIOUS
<1> HIDE DEF l
<1>4. QED
  BY <1>2, <1>3, GoOnType

LEMMA TrashType ==
    ASSUME TypeInv, NEW p \in Procs, TrashStep(p)
    PROVE  TypeInv'
<1> USE Locals DEF At
<1> DEFINE r == req[p]
<1>1. CASE DeleteFind(p)
  <2>1. r \in Request /\ r.target \in Ids
    BY <1>1 DEF DeleteFind, NeedsTarget
  <2>2. Goto(p, "delMark", r) \/ Answer(p, "notFound", r.target)
    BY <1>1 DEF DeleteFind
  <2>3. "delMark" \in PCs \ NeedsContent /\ "notFound" \in Answers
    BY DEF PCs, NeedsContent, Answers
  <2>4. ReqOK'
    BY <2>1, <2>2, <2>3, AnswerType, GoOnType
  <2>5. QED
    BY <1>1, <2>4, StoredType DEF DeleteFind
<1>2. CASE DeleteMark(p)
  <2>1. r.target \in Ids
    BY <1>2 DEF DeleteMark, NeedsTarget
  <2>2. \E how \in Answers : Answer(p, how, r.target)
    BY <1>2, Outcomes DEF DeleteMark, Answers
  <2>3. ReqOK'
    BY <2>1, <2>2, AnswerType
  <2>4. rows' \in [Ids -> Row]
    BY <1>2, <2>1, StatementTypes DEF DeleteMark, TypeInv
  <2>5. QED
    BY <1>2, <2>3, <2>4 DEF DeleteMark, TypeInv, TypeOK, ReqOK
<1>3. CASE RestoreFind(p)
  <2>1. r \in Request /\ r.target \in Ids
    BY <1>3 DEF RestoreFind, NeedsTarget
  <2>2. Goto(p, "resMark", r) \/ Answer(p, "notFound", r.target)
    BY <1>3 DEF RestoreFind
  <2>3. "resMark" \in PCs \ NeedsContent /\ "notFound" \in Answers
    BY DEF PCs, NeedsContent, Answers
  <2>4. ReqOK'
    BY <2>1, <2>2, <2>3, AnswerType, GoOnType
  <2>5. QED
    BY <1>3, <2>4, StoredType DEF RestoreFind
<1>4. CASE RestoreMark(p)
  <2>1. r.target \in Ids
    BY <1>4 DEF RestoreMark, NeedsTarget
  <2>2. \E how \in Answers : Answer(p, how, r.target)
    BY <1>4, Outcomes DEF RestoreMark, Answers
  <2>3. ReqOK'
    BY <2>1, <2>2, AnswerType
  <2>4. rows' \in [Ids -> Row]
    BY <1>4, <2>1, StatementTypes DEF RestoreMark, TypeInv
  <2>5. QED
    BY <1>4, <2>3, <2>4 DEF RestoreMark, TypeInv, TypeOK, ReqOK
<1>5. CASE EmptyList(p)
  <2> DEFINE l == [r EXCEPT !.todo = ListTrash, !.listed = ListTrash]
  <2>1. l \in Request
    BY DEF Request, ListTrash
  <2>2. Goto(p, "purNext", l)
    BY <1>5 DEF EmptyList
  <2> HIDE DEF l
  <2>3. ReqOK'
    BY <2>1, <2>2, GotoType DEF PCs, Filling, NeedsTarget, NeedsContent
  <2>4. QED
    BY <1>5, <2>3, StoredType DEF EmptyList
<1>6. CASE EmptyNext(p)
  <2>1. ASSUME NEW a \in Ids,
               Goto(p, "purFind", [r EXCEPT !.target = a, !.todo = @ \ {a}])
        PROVE  ReqOK'
    <3> DEFINE l == [r EXCEPT !.target = a, !.todo = @ \ {a}]
    <3>1. l \in Request /\ l.target = a
      BY DEF Request
    <3>2. Goto(p, "purFind", l)
      BY <2>1
    <3> HIDE DEF l
    <3>3. QED
      BY <3>1, <3>2, GoOnType DEF PCs, NeedsContent
  <2>2. ASSUME Answer(p, "ok", Null)
        PROVE  ReqOK'
    BY <2>2, AnswerType DEF Answers
  <2>3. ReqOK'
    BY <1>6, <2>1, <2>2 DEF EmptyNext
  <2>4. QED
    BY <1>6, <2>3, StoredType DEF EmptyNext
<1>7. CASE PurgeFind(p)
  <2>1. r.target \in Ids
    BY <1>7 DEF PurgeFind, NeedsTarget
  <2>2. \/ Goto(p, "purCount", [r EXCEPT !.asset = rows[r.target]])
        \/ Answer(p, "notFound", r.target)
    BY <1>7 DEF PurgeFind
  <2>3. "purCount" \in PCs \ NeedsContent /\ "notFound" \in Answers
    BY DEF PCs, NeedsContent, Answers
  <2>4. ReqOK'
    BY <2>1, <2>2, <2>3, AnswerType, ReadType
  <2>5. QED
    BY <1>7, <2>4, StoredType DEF PurgeFind
<1>8. CASE PurgeCount(p)
  <2> DEFINE n == CountByStoragePath(StoragePath(r.target))
             l == [r EXCEPT !.refs = n]
  <2>1. r.target \in Ids
    BY <1>8 DEF PurgeCount, NeedsTarget
  <2>2. n \in 0 .. Cardinality(Ids)
    BY CountType
  <2>3. Goto(p, "purRow", l)
    BY <1>8 DEF PurgeCount
  <2> HIDE DEF n
  <2>4. l \in Request /\ l.target = r.target
    BY <2>2 DEF Request
  <2> HIDE DEF l
  <2>5. ReqOK'
    BY <2>1, <2>3, <2>4, GoOnType DEF PCs, NeedsContent
  <2>6. QED
    BY <1>8, <2>5, StoredType DEF PurgeCount
<1>9. CASE PurgeRow(p)
  <2>1. r \in Request /\ r.target \in Ids
    BY <1>9 DEF PurgeRow, NeedsTarget
  <2>2. \/ Goto(p, "purThumb", r)
        \/ \E how \in Answers : Answer(p, how, r.target)
    BY <1>9, Outcomes DEF PurgeRow, Answers
  <2>3. "purThumb" \in PCs \ NeedsContent
    BY DEF PCs, NeedsContent
  <2>4. ReqOK'
    BY <2>1, <2>2, <2>3, AnswerType, GoOnType
  <2>5. rows' \in [Ids -> Row]
    BY <1>9, <2>1, StatementTypes DEF PurgeRow, TypeInv
  <2>6. QED
    BY <1>9, <2>4, <2>5 DEF PurgeRow, TypeInv, TypeOK, ReqOK
<1>10. CASE PurgeThumb(p)
  <2>1. r \in Request /\ r.target \in Ids
    BY <1>10 DEF PurgeThumb, NeedsTarget
  <2>2. ReqOK'
    BY <1>10, <2>1, GoOnType DEF PurgeThumb, PCs, NeedsContent
  <2>3. thumbnails \in [Ids -> [Days -> DerivedFile]] /\ today \in Days
    BY DEF TypeInv, TypeOK
  <2>4. thumbnails' = Unlinked(thumbnails, r.target, r.asset.thumb)
    BY <1>10 DEF PurgeThumb
  <2>5. thumbnails' \in [Ids -> [Days -> DerivedFile]]
    BY <2>3, <2>4, UnlinkedType
  <2>6. QED
    BY <1>10, <2>2, <2>5 DEF PurgeThumb, TypeInv, TypeOK, ReqOK
<1>11. CASE PurgePreview(p)
  <2>1. r \in Request /\ r.target \in Ids
    BY <1>11 DEF PurgePreview, NeedsTarget
  <2>2. ReqOK'
    BY <1>11, <2>1, GoOnType DEF PurgePreview, PCs, NeedsContent
  <2>3. previews \in [Ids -> [Days -> DerivedFile]] /\ today \in Days
    BY DEF TypeInv, TypeOK
  <2>4. previews' = Unlinked(previews, r.target, r.asset.preview)
    BY <1>11 DEF PurgePreview
  <2>5. previews' \in [Ids -> [Days -> DerivedFile]]
    BY <2>3, <2>4, UnlinkedType
  <2>6. QED
    BY <1>11, <2>2, <2>5 DEF PurgePreview, TypeInv, TypeOK, ReqOK
<1>12. CASE PurgeOriginal(p)
  <2>1. r \in Request /\ r.target \in Ids
    BY <1>12 DEF PurgeOriginal, NeedsTarget
  <2>2. ASSUME Answer(p, "ok", r.target)
        PROVE  ReqOK'
    BY <2>1, <2>2, AnswerType DEF Answers
  <2>3. ASSUME Goto(p, "purNext", [r EXCEPT !.target = Null, !.asset = NoRow, !.refs = 0])
        PROVE  ReqOK'
    <3> DEFINE l == [r EXCEPT !.target = Null, !.asset = NoRow, !.refs = 0]
    <3>1. 0 \in 0 .. Cardinality(Ids) /\ NoRow \in Row
      BY ConstantsAssumption, FS_CardinalityType DEF NoRow, Row, NoPath, SqlNull
    <3>2. l \in Request
      BY <2>1, <3>1 DEF Request
    <3>3. Goto(p, "purNext", l)
      BY <2>3
    <3> HIDE DEF l
    <3>4. QED
      BY <3>2, <3>3, GotoType DEF PCs, Filling, NeedsTarget, NeedsContent
  <2>4. ReqOK'
    BY <1>12, <2>2, <2>3 DEF PurgeOriginal
  <2>5. originals' \in [Ids -> OriginalFile]
    BY <1>12 DEF PurgeOriginal, TypeInv, TypeOK, OriginalFile
  <2>6. QED
    BY <1>12, <2>4, <2>5 DEF PurgeOriginal, TypeInv, TypeOK, ReqOK
<1>13. QED
  BY <1>1, <1>2, <1>3, <1>4, <1>5, <1>6, <1>7, <1>8, <1>9, <1>10, <1>11, <1>12
     DEF TrashStep

LEMMA DerivedType ==
    ASSUME TypeInv, NEW p \in Procs, DerivedStep(p)
    PROVE  TypeInv'
<1> USE Locals DEF At
<1> DEFINE r == req[p]
<1>1. CASE DownloadFind(p)
  <2>1. r.target \in Ids
    BY <1>1 DEF DownloadFind, NeedsTarget
  <2>2. \/ Goto(p, "dlOpen", [r EXCEPT !.asset = rows[r.target]])
        \/ Answer(p, "notFound", r.target)
    BY <1>1 DEF DownloadFind, FindThen
  <2>3. "dlOpen" \in PCs \ NeedsContent /\ "notFound" \in Answers
    BY DEF PCs, NeedsContent, Answers
  <2>4. ReqOK'
    BY <2>1, <2>2, <2>3, AnswerType, ReadType
  <2>5. QED
    BY <1>1, <2>4, StoredType DEF DownloadFind, FindThen
<1>2. CASE DownloadOpen(p)
  <2>1. r.target \in Ids
    BY <1>2 DEF DownloadOpen, NeedsTarget
  <2>2. \E how \in Answers : Answer(p, how, r.target)
    BY <1>2 DEF DownloadOpen, Answers
  <2>3. ReqOK'
    BY <2>1, <2>2, AnswerType
  <2>4. QED
    BY <1>2, <2>3, StoredType DEF DownloadOpen
<1>3. CASE PreviewFind(p)
  <2>1. r.target \in Ids
    BY <1>3 DEF PreviewFind, NeedsTarget
  <2>2. \/ Goto(p, "pvOpen", [r EXCEPT !.asset = rows[r.target]])
        \/ Answer(p, "notFound", r.target)
    BY <1>3 DEF PreviewFind, FindThen
  <2>3. "pvOpen" \in PCs \ NeedsContent /\ "notFound" \in Answers
    BY DEF PCs, NeedsContent, Answers
  <2>4. ReqOK'
    BY <2>1, <2>2, <2>3, AnswerType, ReadType
  <2>5. QED
    BY <1>3, <2>4, StoredType DEF PreviewFind, FindThen
<1>4. CASE PreviewOpen(p)
  <2>1. r.target \in Ids
    BY <1>4 DEF PreviewOpen, NeedsTarget
  <2>2. \E how \in Answers : Answer(p, how, r.target)
    BY <1>4 DEF PreviewOpen, Answers
  <2>3. ReqOK'
    BY <2>1, <2>2, AnswerType
  <2>4. QED
    BY <1>4, <2>3, StoredType DEF PreviewOpen
<1>5. CASE ThumbnailFind(p)
  <2>1. r.target \in Ids
    BY <1>5 DEF ThumbnailFind, NeedsTarget
  <2>2. \/ Goto(p, "thOpen", [r EXCEPT !.asset = rows[r.target]])
        \/ Answer(p, "notFound", r.target)
    BY <1>5 DEF ThumbnailFind, FindThen
  <2>3. "thOpen" \in PCs \ NeedsContent /\ "notFound" \in Answers
    BY DEF PCs, NeedsContent, Answers
  <2>4. ReqOK'
    BY <2>1, <2>2, <2>3, AnswerType, ReadType
  <2>5. QED
    BY <1>5, <2>4, StoredType DEF ThumbnailFind, FindThen
<1>6. CASE ThumbnailOpen(p)
  <2>1. r \in Request /\ r.target \in Ids
    BY <1>6 DEF ThumbnailOpen, NeedsTarget
  <2>2. Goto(p, "thGenerate", r) \/ \E how \in Answers : Answer(p, how, r.target)
    BY <1>6 DEF ThumbnailOpen, Answers
  <2>3. "thGenerate" \in PCs \ NeedsContent
    BY DEF PCs, NeedsContent
  <2>4. ReqOK'
    BY <2>1, <2>2, <2>3, AnswerType, GoOnType
  <2>5. QED
    BY <1>6, <2>4, StoredType DEF ThumbnailOpen
<1>7. CASE ThumbnailGenerate(p)
  <2>1. r \in Request /\ r.target \in Ids
    BY <1>7 DEF ThumbnailGenerate, NeedsTarget
  <2>2. Goto(p, "thCreate", r) \/ \E how \in Answers : Answer(p, how, r.target)
    BY <1>7 DEF ThumbnailGenerate, Answers
  <2>3. "thCreate" \in PCs \ NeedsContent
    BY DEF PCs, NeedsContent
  <2>4. ReqOK'
    BY <2>1, <2>2, <2>3, AnswerType, GoOnType
  <2>5. QED
    BY <1>7, <2>4, StoredType DEF ThumbnailGenerate
<1>8. CASE ThumbnailCreate(p)
  <2> DEFINE l == [r EXCEPT !.asset.thumb = today]
  <2>1. /\ r.target \in Ids /\ today \in Days
        /\ thumbnails \in [Ids -> [Days -> DerivedFile]]
    BY <1>8 DEF ThumbnailCreate, NeedsTarget, TypeInv, TypeOK
  <2>2. l \in Request /\ l.target = r.target
    BY <2>1 DEF Request, Row
  <2>3. Goto(p, "thWrite", l) /\ thumbnails' = Created(thumbnails, r.target)
    BY <1>8 DEF ThumbnailCreate
  <2> HIDE DEF l
  <2>4. ReqOK'
    BY <2>1, <2>2, <2>3, GoOnType DEF PCs, NeedsContent
  <2>5. thumbnails' \in [Ids -> [Days -> DerivedFile]]
    BY <2>1, <2>3 DEF Created, DerivedFile
  <2>6. QED
    BY <1>8, <2>4, <2>5 DEF ThumbnailCreate, TypeInv, TypeOK, ReqOK
<1>9. CASE ThumbnailWrite(p)
  <2>1. /\ r \in Request /\ r.target \in Ids /\ today \in Days
        /\ thumbnails \in [Ids -> [Days -> DerivedFile]]
    BY <1>9 DEF ThumbnailWrite, NeedsTarget, TypeInv, TypeOK
  <2>2. /\ Goto(p, "thRecord", r)
        /\ thumbnails' = Written(thumbnails, r.target, r.asset.thumb, "whole")
    BY <1>9 DEF ThumbnailWrite
  <2>3. ReqOK'
    BY <2>1, <2>2, GoOnType DEF PCs, NeedsContent
  <2>4. thumbnails' \in [Ids -> [Days -> DerivedFile]]
    BY <2>1, <2>2, FileTypes DEF DerivedFile
  <2>5. QED
    BY <1>9, <2>3, <2>4 DEF ThumbnailWrite, TypeInv, TypeOK, ReqOK
<1>10. CASE ThumbnailRecord(p)
  <2>1. r.target \in Ids /\ r.asset.thumb \in {NoPath} \cup Days
    BY <1>10 DEF ThumbnailRecord, NeedsTarget, Row
  <2>2. ReqOK'
    BY <1>10, <2>1, AnswerType DEF ThumbnailRecord, Answers
  <2>3. rows' \in [Ids -> Row]
    BY <1>10, <2>1, StatementTypes DEF ThumbnailRecord, TypeInv
  <2>4. QED
    BY <1>10, <2>2, <2>3 DEF ThumbnailRecord, TypeInv, TypeOK, ReqOK
<1>11. CASE BackfillList(p)
  <2> DEFINE found == {a \in ListWithoutPreview : MediaTypeOf[rows[a].content] # "pdf"}
             l == [r EXCEPT !.todo = found, !.listed = found]
  <2>1. Goto(p, "bfNext", l)
    BY <1>11 DEF BackfillList
  <2>2. found \in SUBSET Ids
    BY DEF ListWithoutPreview
  <2> HIDE DEF found
  <2>3. l \in Request
    BY <2>2 DEF Request
  <2> HIDE DEF l
  <2>4. ReqOK'
    BY <2>1, <2>3, GotoType DEF PCs, Filling, NeedsTarget, NeedsContent
  <2>5. QED
    BY <1>11, <2>4, StoredType DEF BackfillList
<1>12. CASE BackfillNext(p)
  <2>1. ASSUME NEW a \in Ids,
               Goto(p, "bfFind", [r EXCEPT !.target = a, !.todo = @ \ {a}])
        PROVE  ReqOK'
    <3> DEFINE l == [r EXCEPT !.target = a, !.todo = @ \ {a}]
    <3>1. l \in Request /\ l.target = a
      BY DEF Request
    <3>2. Goto(p, "bfFind", l)
      BY <2>1
    <3> HIDE DEF l
    <3>3. QED
      BY <3>1, <3>2, GoOnType DEF PCs, NeedsContent
  <2>2. ASSUME NEW how \in Answers, Answer(p, how, Null)
        PROVE  ReqOK'
    BY <2>2, AnswerType
  <2>3. ReqOK'
    BY <1>12, <2>1, <2>2 DEF BackfillNext, Answers
  <2>4. QED
    BY <1>12, <2>3, StoredType DEF BackfillNext
<1>13. CASE BackfillFind(p)
  <2>1. r.target \in Ids
    BY <1>13 DEF BackfillFind, NeedsTarget
  <2>2. \/ Goto(p, "bfGenerate", [r EXCEPT !.asset = rows[r.target]])
        \/ BackfillDone(p, TRUE)
    BY <1>13 DEF BackfillFind
  <2>3. "bfGenerate" \in PCs \ NeedsContent
    BY DEF PCs, NeedsContent
  <2>4. ReqOK'
    BY <2>1, <2>2, <2>3, BackfillDoneType, ReadType
  <2>5. QED
    BY <1>13, <2>4, StoredType DEF BackfillFind
<1>14. CASE BackfillGenerate(p)
  <2>1. r \in Request /\ r.target \in Ids
    BY <1>14 DEF BackfillGenerate, NeedsTarget
  <2>2. Goto(p, "bfCreate", r) \/ BackfillDone(p, TRUE)
    BY <1>14 DEF BackfillGenerate
  <2>3. "bfCreate" \in PCs \ NeedsContent
    BY DEF PCs, NeedsContent
  <2>4. ReqOK'
    BY <2>1, <2>2, <2>3, BackfillDoneType, GoOnType
  <2>5. QED
    BY <1>14, <2>4, StoredType DEF BackfillGenerate
<1>15. CASE BackfillCreate(p)
  <2> DEFINE l == [r EXCEPT !.asset.preview = today]
  <2>1. /\ r.target \in Ids /\ today \in Days
        /\ previews \in [Ids -> [Days -> DerivedFile]]
    BY <1>15 DEF BackfillCreate, NeedsTarget, TypeInv, TypeOK
  <2>2. l \in Request /\ l.target = r.target
    BY <2>1 DEF Request, Row
  <2>3. Goto(p, "bfWrite", l) /\ previews' = Created(previews, r.target)
    BY <1>15 DEF BackfillCreate
  <2> HIDE DEF l
  <2>4. ReqOK'
    BY <2>1, <2>2, <2>3, GoOnType DEF PCs, NeedsContent
  <2>5. previews' \in [Ids -> [Days -> DerivedFile]]
    BY <2>1, <2>3 DEF Created, DerivedFile
  <2>6. QED
    BY <1>15, <2>4, <2>5 DEF BackfillCreate, TypeInv, TypeOK, ReqOK
<1>16. CASE BackfillWrite(p)
  <2>1. /\ r \in Request /\ r.target \in Ids /\ today \in Days
        /\ previews \in [Ids -> [Days -> DerivedFile]]
    BY <1>16 DEF BackfillWrite, NeedsTarget, TypeInv, TypeOK
  <2>2. /\ Goto(p, "bfRecord", r)
        /\ previews' = Written(previews, r.target, r.asset.preview, "whole")
    BY <1>16 DEF BackfillWrite
  <2>3. ReqOK'
    BY <2>1, <2>2, GoOnType DEF PCs, NeedsContent
  <2>4. previews' \in [Ids -> [Days -> DerivedFile]]
    BY <2>1, <2>2, FileTypes DEF DerivedFile
  <2>5. QED
    BY <1>16, <2>3, <2>4 DEF BackfillWrite, TypeInv, TypeOK, ReqOK
<1>17. CASE BackfillRecord(p)
  <2>1. /\ r.target \in Ids /\ r.asset.preview \in {SqlNull, NoPath} \cup Days
        /\ (UpdatePreviewOutcome(r.target) # "ok") \in BOOLEAN
    BY <1>17 DEF BackfillRecord, NeedsTarget, Row
  <2>2. ReqOK'
    BY <1>17, <2>1, BackfillDoneType DEF BackfillRecord
  <2>3. rows' \in [Ids -> Row]
    BY <1>17, <2>1, StatementTypes DEF BackfillRecord, TypeInv
  <2>4. QED
    BY <1>17, <2>2, <2>3 DEF BackfillRecord, TypeInv, TypeOK, ReqOK
<1>18. QED
  BY <1>1, <1>2, <1>3, <1>4, <1>5, <1>6, <1>7, <1>8, <1>9, <1>10,
     <1>11, <1>12, <1>13, <1>14, <1>15, <1>16, <1>17
     DEF DerivedStep

\* A request on an asset the client was told of.
LEMMA StartOnType ==
    ASSUME TypeInv, NEW p \in Procs, NEW kind \in AllKinds,
           NEW first \in PCs \ NeedsContent, StartOn(p, kind, first)
    PROVE  TypeInv'
<1>1. PICK a \in issued : Begin(p, kind, first, [Idle EXCEPT !.target = a])
  BY DEF StartOn
<1> DEFINE l == [Idle EXCEPT !.target = a]
<1>2. a \in Ids
  BY DEF TypeInv, TypeOK
<1>3. l \in Request /\ l.target = a
  BY <1>2, IdleType DEF Request
<1>4. Begin(p, kind, first, l)
  BY <1>1
<1> HIDE DEF l
<1>5. first # "upUndo" /\ first \notin Filling
  BY DEF NeedsContent, Filling
<1>6. ReqOK'
  BY <1>2, <1>3, <1>4, <1>5, BeginType
<1>7. QED
  BY <1>6, StoredType DEF StartOn

LEMMA StartType ==
    ASSUME TypeInv, NEW p \in Procs, Start(p)
    PROVE  TypeInv'
<1>1. CASE StartUpload(p)
  <2>1. ASSUME NEW c \in Contents, NEW action \in DuplicateActions,
               Begin(p, "upload", "upFind",
                     [Idle EXCEPT !.content = c, !.action = action])
        PROVE  ReqOK'
    <3> DEFINE l == [Idle EXCEPT !.content = c, !.action = action]
    <3>1. l \in Request /\ l.content = c
      BY IdleType DEF Request
    <3>2. Begin(p, "upload", "upFind", l)
      BY <2>1
    <3> HIDE DEF l
    <3>3. "upload" \in AllKinds /\ "upFind" \in PCs \ (NeedsTarget \cup Filling)
      BY DEF AllKinds, PCs, NeedsTarget, Filling
    <3>4. QED
      BY <3>1, <3>2, <3>3, BeginType
  <2>2. ASSUME NEW c \in Contents, NEW action \in DuplicateActions,
               Begin(p, "upload", "answer",
                     [[Idle EXCEPT !.content = c, !.action = action]
                        EXCEPT !.how = "unsupported"])
        PROVE  ReqOK'
    <3> DEFINE l == [[Idle EXCEPT !.content = c, !.action = action]
                       EXCEPT !.how = "unsupported"]
    <3>1. l \in Request
      BY IdleType DEF Request, Answers
    <3>2. Begin(p, "upload", "answer", l)
      BY <2>2
    <3> HIDE DEF l
    <3>3. "upload" \in AllKinds /\ "answer" \in PCs \ (NeedsTarget \cup NeedsContent \cup Filling)
      BY DEF AllKinds, PCs, NeedsTarget, NeedsContent, Filling
    <3>4. QED
      BY <3>1, <3>2, <3>3, BeginType
  <2>3. ReqOK'
    BY <1>1, <2>1, <2>2 DEF StartUpload
  <2>4. QED
    BY <1>1, <2>3, StoredType DEF StartUpload
<1>2. CASE StartEmptyTrash(p) \/ StartBackfill(p)
  <2>1. ReqOK'
    BY <1>2, IdleType, BeginType
       DEF StartEmptyTrash, StartBackfill, AllKinds, PCs, NeedsTarget, NeedsContent,
           Filling
  <2>2. QED
    BY <1>2, <2>1, StoredType DEF StartEmptyTrash, StartBackfill
<1>3. CASE \E kind \in AllKinds, first \in PCs \ NeedsContent : StartOn(p, kind, first)
  BY <1>3, StartOnType
<1>4. CASE StartDelete(p) \/ StartRestore(p) \/ StartPurge(p)
  BY <1>3, <1>4 DEF StartDelete, StartRestore, StartPurge, AllKinds, PCs, NeedsContent
<1>5. CASE StartDownload(p) \/ StartPreview(p) \/ StartThumbnail(p) \/ StartTrashThumbnail(p)
  BY <1>3, <1>5
     DEF StartDownload, StartPreview, StartThumbnail, StartTrashThumbnail,
         AllKinds, PCs, NeedsContent
<1>6. QED
  BY <1>1, <1>2, <1>4, <1>5 DEF Start

\* A step that keeps the type of the requests and of the store, and counts
\* the fault, if any.
LEMMA CountedType ==
    ASSUME TypeInv, ReqOK', Fault,
           rows' \in [Ids -> Row], originals' \in [Ids -> OriginalFile],
           thumbnails' \in [Ids -> [Days -> DerivedFile]],
           previews' \in [Ids -> [Days -> DerivedFile]],
           UNCHANGED today, issued' \in SUBSET Ids
    PROVE  TypeInv'
<1>1. faults' \in 0 .. MaxFaults
  BY ConstantsAssumption DEF TypeInv, TypeOK, Fault
<1>2. QED
  BY <1>1 DEF TypeInv, TypeOK, ReqOK

LEMMA FaultType ==
    ASSUME TypeInv, NEW p \in Procs, FaultStep(p)
    PROVE  TypeInv'
<1> USE Locals DEF At
<1> DEFINE r == req[p]
<1>0. /\ rows \in [Ids -> Row] /\ originals \in [Ids -> OriginalFile]
      /\ thumbnails \in [Ids -> [Days -> DerivedFile]]
      /\ previews \in [Ids -> [Days -> DerivedFile]]
      /\ today \in Days /\ issued \in SUBSET Ids /\ r \in Request
  BY DEF TypeInv, TypeOK
<1>1. CASE ReadFails(p)
  <2>1. ReqOK'
    BY <1>1, AnswerType, BackfillDoneType DEF ReadFails, Answers
  <2>2. QED
    BY <1>0, <1>1, <2>1, CountedType DEF ReadFails
<1>2. CASE StatementFails(p)
  <2>1. ASSUME Answer(p, "failed", r.target) \/ Answer(p, "served", r.target)
        PROVE  ReqOK'
    BY <2>1, AnswerType DEF Answers
  <2>2. ASSUME At(p, "upInsert") /\ Goto(p, "upUndo", [r EXCEPT !.how = "failed"])
        PROVE  ReqOK'
    BY <2>2, UndoType DEF Answers
  <2>3. ASSUME BackfillDone(p, TRUE)
        PROVE  ReqOK'
    BY <2>3, BackfillDoneType
  <2>4. ReqOK'
    BY <1>2, <2>1, <2>2, <2>3 DEF StatementFails
  <2>5. /\ r.pc \in NeedsTarget
        /\ r.pc \in {"upRestore", "resMark", "upBackfill", "upInsert", "delMark",
                     "purRow", "thRecord", "bfRecord"}
    BY <1>2 DEF StatementFails, NeedsTarget
  <2>6. r.target \in Ids /\ TypeOK
    BY <2>5 DEF TypeInv
  <2>7. /\ r.asset.thumb \in {NoPath} \cup Days
        /\ r.asset.preview \in {SqlNull, NoPath} \cup Days
    BY DEF Row
  <2>8. Executed(p) \in [Ids -> Row]
    BY <2>5, <2>6, <2>7, StatementTypes DEF Executed
  <2>9. rows' \in [Ids -> Row]
    BY <1>0, <1>2, <2>8 DEF StatementFails
  <2>10. QED
    BY <1>0, <1>2, <2>4, <2>9, CountedType DEF StatementFails
<1>3. CASE OriginalNotSaved(p)
  <2>1. ReqOK'
    BY <1>3, AnswerType DEF OriginalNotSaved, Answers
  <2>2. originals' \in [Ids -> OriginalFile]
    BY <1>0, <1>3 DEF OriginalNotSaved, OriginalFile
  <2>3. issued' \in SUBSET Ids
    BY <1>0, <1>3 DEF OriginalNotSaved
  <2>4. QED
    BY <1>0, <1>3, <2>1, <2>2, <2>3, CountedType DEF OriginalNotSaved
<1>4. CASE ThumbnailNotSaved(p)
  <2>1. r.target \in Ids
    BY <1>4 DEF ThumbnailNotSaved, NeedsTarget
  <2>2. ASSUME At(p, "upThumb") /\ Goto(p, "upPreview", r)
        PROVE  ReqOK'
    BY <1>0, <2>1, <2>2, GotoType DEF PCs, Filling, NeedsContent
  <2>3. ASSUME Answer(p, "served", r.target)
        PROVE  ReqOK'
    BY <2>1, <2>3, AnswerType DEF Answers
  <2>4. ReqOK'
    BY <1>4, <2>2, <2>3 DEF ThumbnailNotSaved
  <2>5. \/ thumbnails' = [thumbnails EXCEPT ![r.target][today] = "partial"]
        \/ UNCHANGED thumbnails
        \/ thumbnails' = Written(thumbnails, r.target, r.asset.thumb, "partial")
    BY <1>4 DEF ThumbnailNotSaved
  <2>6. thumbnails' \in [Ids -> [Days -> DerivedFile]]
    <3>1. "partial" \in DerivedFile
      BY DEF DerivedFile
    <3>2. /\ [thumbnails EXCEPT ![r.target][today] = "partial"]
               \in [Ids -> [Days -> DerivedFile]]
          /\ Written(thumbnails, r.target, r.asset.thumb, "partial")
               \in [Ids -> [Days -> DerivedFile]]
      BY <1>0, <3>1, FileTypes
    <3>3. QED
      BY <1>0, <2>5, <3>2
  <2>7. QED
    BY <1>0, <1>4, <2>4, <2>6, CountedType DEF ThumbnailNotSaved
<1>5. CASE PreviewNotSaved(p)
  <2>1. r.target \in Ids
    BY <1>5 DEF PreviewNotSaved, NeedsTarget
  <2>2. ASSUME At(p, "upPreview") /\ Goto(p, "upInsert", r)
        PROVE  ReqOK'
    BY <1>0, <2>1, <2>2, GotoType DEF PCs, Filling, NeedsContent
  <2>3. ASSUME BackfillDone(p, TRUE)
        PROVE  ReqOK'
    BY <2>3, BackfillDoneType
  <2>4. ReqOK'
    BY <1>5, <2>2, <2>3 DEF PreviewNotSaved
  <2>5. \/ previews' = [previews EXCEPT ![r.target][today] = "partial"]
        \/ UNCHANGED previews
        \/ previews' = Written(previews, r.target, r.asset.preview, "partial")
    BY <1>5 DEF PreviewNotSaved
  <2>6. previews' \in [Ids -> [Days -> DerivedFile]]
    <3>1. "partial" \in DerivedFile
      BY DEF DerivedFile
    <3>2. /\ [previews EXCEPT ![r.target][today] = "partial"]
               \in [Ids -> [Days -> DerivedFile]]
          /\ Written(previews, r.target, r.asset.preview, "partial")
               \in [Ids -> [Days -> DerivedFile]]
      BY <1>0, <3>1, FileTypes
    <3>3. QED
      BY <1>0, <2>5, <3>2
  <2>7. QED
    BY <1>0, <1>5, <2>4, <2>6, CountedType DEF PreviewNotSaved
<1>6. CASE UnlinkFails(p)
  <2>1. ASSUME Answer(p, "failed", r.target)
        PROVE  ReqOK'
    BY <2>1, AnswerType DEF Answers
  <2>2. ASSUME At(p, "upUndo"), Goto(p, "upRefind", r) \/ Answer(p, r.how, Null)
        PROVE  ReqOK'
    BY <2>2, UndoneType
  <2>3. ReqOK'
    BY <1>6, <2>1, <2>2 DEF UnlinkFails
  <2>4. originals' \in [Ids -> OriginalFile]
    BY <1>0, <1>6 DEF UnlinkFails, OriginalFile
  <2>5. /\ thumbnails' \in {thumbnails, Unlinked(thumbnails, r.target, r.asset.thumb)}
        /\ previews' \in {previews, Unlinked(previews, r.target, r.asset.preview)}
        /\ UNCHANGED <<rows, today, issued>> /\ Fault
    BY <1>6 DEF UnlinkFails
  <2>6. /\ thumbnails' \in [Ids -> [Days -> DerivedFile]]
        /\ previews' \in [Ids -> [Days -> DerivedFile]]
    BY <1>0, <2>5, UnlinkedType
  <2>7. QED
    BY <1>0, <2>3, <2>4, <2>5, <2>6, CountedType
<1>7. CASE Die(p)
  <2>1. ReqOK'
    BY <1>7, IdleType
       DEF Die, TypeInv, ReqOK, LocalsOK, Idle, NeedsTarget, NeedsContent, Filling
  <2>2. QED
    BY <1>0, <1>7, <2>1, CountedType DEF Die
<1>8. QED
  BY <1>1, <1>2, <1>3, <1>4, <1>5, <1>6, <1>7 DEF FaultStep

LEMMA RestType ==
    ASSUME TypeInv, Midnight \/ \E p \in Procs : Respond(p)
    PROVE  TypeInv'
<1>1. CASE Midnight
  <2>1. today' \in Days
    BY <1>1, ConstantsAssumption DEF Midnight, TypeInv, TypeOK, Days
  <2>2. QED
    BY <1>1, <2>1 DEF Midnight, TypeInv, TypeOK, ReqOK
<1>2. ASSUME NEW p \in Procs, Respond(p)
      PROVE  TypeInv'
  <2>1. ReqOK'
    BY <1>2, IdleType
       DEF Respond, TypeInv, ReqOK, LocalsOK, Idle, NeedsTarget, NeedsContent, Filling
  <2>2. QED
    BY <1>2, <2>1, StoredType DEF Respond
<1>3. QED
  BY <1>1, <1>2

LEMMA InitType == Init => TypeInv
<1> SUFFICES ASSUME Init PROVE TypeInv
  OBVIOUS
<1>1. rows \in [Ids -> Row]
  BY LegacyAssumption DEF Init, NoRow, Row, NoPath, SqlNull
<1>2. originals \in [Ids -> OriginalFile]
  <2>1. ASSUME NEW f \in Ids PROVE originals[f] \in OriginalFile
    <3>1. CASE \E a \in Legacy : LegacyPath[a] = f
      BY <3>1, LegacyAssumption DEF Init, OriginalFile
    <3>2. CASE ~\E a \in Legacy : LegacyPath[a] = f
      BY <3>2 DEF Init, OriginalFile
    <3>3. QED
      BY <3>1, <3>2
  <2>2. QED
    BY <2>1 DEF Init
<1>3. /\ thumbnails \in [Ids -> [Days -> DerivedFile]]
      /\ previews \in [Ids -> [Days -> DerivedFile]]
  BY DEF Init, DerivedFile
<1>4. today \in Days /\ issued \in SUBSET Ids /\ faults \in 0 .. MaxFaults
  <2>1. today = 1 /\ issued = Legacy /\ faults = 0
    BY DEF Init
  <2>2. QED
    BY <2>1, ConstantsAssumption, LegacyAssumption DEF Days
<1>5. ReqOK
  BY IdleType DEF Init, ReqOK, LocalsOK, Idle, NeedsTarget, NeedsContent, Filling
<1>6. QED
  BY <1>1, <1>2, <1>3, <1>4, <1>5 DEF TypeInv, TypeOK, ReqOK

LEMMA NextType == TypeInv /\ [Next]_vars => TypeInv'
<1> SUFFICES ASSUME TypeInv, [Next]_vars PROVE TypeInv'
  OBVIOUS
<1>1. ASSUME NEW p \in Procs, Step(p) PROVE TypeInv'
  BY <1>1, UploadType, TrashType, DerivedType, RestType DEF Step
<1>2. ASSUME NEW p \in Procs, Start(p) \/ FaultStep(p) PROVE TypeInv'
  BY <1>2, StartType, FaultType
<1>3. CASE UNCHANGED vars
  BY <1>3 DEF vars, TypeInv, TypeOK, ReqOK, LocalsOK
<1>4. QED
  BY <1>1, <1>2, <1>3, RestType DEF Next

\* Every variable keeps its type in every history, and every request in flight
\* has what its next statement or file operation needs: no step of the code
\* reads a row or a file of an asset it does not have.
THEOREM TypeCorrect == Spec => []TypeOK
<1>1. TypeInv => TypeOK
  BY DEF TypeInv
<1>2. QED
  BY <1>1, InitType, NextType, PTL DEF Spec

-----------------------------------------------------------------------------
(* No data loss. LiveOriginals is not inductive: that an unlinked file is no *)
(* row's needs to know which ids the uploads and purges in flight work on.   *)
(* An upload owns an id without a row from the moment it draws it, and no    *)
(* two uploads own the same; a purge past its DELETE works on an id whose    *)
(* row is gone for good.                                                     *)

Making == Filling \cup {"upUndo"}
Purging == {"purThumb", "purPreview", "purOriginal"}

IssuedOK == Legacy \subseteq issued /\ \A a \in Ids : Exists(a) => a \in issued

MakingOK ==
    \A p \in Procs : req[p].pc \in Making =>
        /\ req[p].target \in issued \ Legacy
        /\ ~Exists(req[p].target)
        /\ \A q \in Procs \ {p} :
              req[q].pc \in Making => req[q].target # req[p].target

FillingOK ==
    \A p \in Procs : req[p].pc \in Filling =>
        originals[req[p].target] = req[p].asset.content

PurgingOK ==
    \A p \in Procs : req[p].pc \in Purging =>
        /\ req[p].target \in issued
        /\ ~Exists(req[p].target)
        /\ \A q \in Procs :
              req[q].pc \in Making => req[q].target # req[p].target

LibInv == TypeInv /\ IssuedOK /\ LiveOriginals /\ MakingOK /\ FillingOK /\ PurgingOK

\* No two legacy rows share a file.
UniquePaths == \A a, b \in Legacy : LegacyPath[a] = LegacyPath[b] => a = b

\* new has the same assets as the table, with the same content.
SameAssets(new) ==
    \A a \in Ids : /\ new[a].state = "none" <=> rows[a].state = "none"
                   /\ new[a].content = rows[a].content

\* In a step of p, nobody else moves, and p comes to own no id it did not own.
OthersKeep(p) == \A q \in Procs \ {p} : req'[q] = req[q]

Quiet(p) == OthersKeep(p) /\ req'[p].pc \notin Making \cup Purging

Moves(p) ==
    /\ OthersKeep(p)
    /\ req'[p].pc \in Making \cup Purging => req'[p].target = req[p].target
    /\ req'[p].pc \in Making => req[p].pc \in Making
    /\ req'[p].pc \in Purging => req[p].pc \in Purging
    /\ req'[p].pc \in Filling => /\ req[p].pc \in Filling
                                 /\ req'[p].asset.content = req[p].asset.content

\* What a request is after Goto.
LEMMA GotoMoves ==
    ASSUME TypeInv, TypeInv', NEW p \in Procs, NEW pc, NEW local, Goto(p, pc, local)
    PROVE  /\ OthersKeep(p)
           /\ req'[p].pc = pc
           /\ req'[p].target = local.target
           /\ req'[p].asset = local.asset
           /\ req'[p].content = local.content
<1>1. req \in [Procs -> Request] /\ req'[p] \in Request
  BY DEF TypeInv, ReqOK
<1>2. req' = [req EXCEPT ![p] = [local EXCEPT !.pc = pc]]
  BY DEF Goto
<1>3. req'[p] = [local EXCEPT !.pc = pc] /\ OthersKeep(p)
  BY <1>1, <1>2 DEF OthersKeep
<1>4. {"pc", "target", "asset", "content"} \subseteq DOMAIN local
  BY <1>1, <1>3 DEF Request
<1>5. QED
  BY <1>3, <1>4

\* A request that goes on without owning an id.
LEMMA QuietGoto ==
    ASSUME TypeInv, TypeInv', NEW p \in Procs, NEW pc, NEW local, Goto(p, pc, local),
           pc \notin Making \cup Purging
    PROVE  Quiet(p)
BY GotoMoves DEF Quiet

\* One that is answered, or goes on with the next asset of a backfill.
LEMMA QuietAnswer ==
    ASSUME TypeInv, TypeInv', NEW p \in Procs, NEW how, NEW a, Answer(p, how, a)
    PROVE  Quiet(p)
<1>1. req \in [Procs -> Request]
  BY DEF TypeInv, ReqOK
<1>2. OthersKeep(p) /\ req'[p].pc = "answer"
  BY <1>1 DEF Answer, OthersKeep, Idle
<1>3. QED
  BY <1>2 DEF Quiet, Making, Filling, Purging

LEMMA QuietDone ==
    ASSUME TypeInv, TypeInv', NEW p \in Procs, NEW failed, BackfillDone(p, failed)
    PROVE  Quiet(p)
BY QuietGoto DEF BackfillDone, Making, Filling, Purging

\* One that begins.
LEMMA QuietBegin ==
    ASSUME TypeInv, TypeInv', NEW p \in Procs, NEW kind, NEW first, NEW local,
           Begin(p, kind, first, local), first \notin Making \cup Purging
    PROVE  Quiet(p)
<1>1. req \in [Procs -> Request] /\ req'[p] \in Request
  BY DEF TypeInv, ReqOK
<1>2. req'[p] = [local EXCEPT !.op = kind, !.pc = first] /\ OthersKeep(p)
  BY <1>1 DEF Begin, OthersKeep
<1>3. "pc" \in DOMAIN local
  BY <1>1, <1>2 DEF Request
<1>4. QED
  BY <1>2, <1>3 DEF Quiet

\* The statements that neither add nor remove a row.
LEMMA StatementsKeep ==
    ASSUME TypeOK, NEW a
    PROVE  /\ SameAssets(rows)
           /\ \A h : SameAssets(UpdateContentHash(a, h))
           /\ \A d : SameAssets(UpdateThumbnailStoragePath(a, d))
           /\ \A d : SameAssets(UpdatePreviewStoragePath(a, d))
           /\ SameAssets(SoftDelete(a))
           /\ SameAssets(Restore(a))
<1>1. rows \in [Ids -> Row]
  BY DEF TypeOK
<1>2. SameAssets(rows)
  BY DEF SameAssets
<1>3. \A h : SameAssets(UpdateContentHash(a, h))
  BY <1>1 DEF SameAssets, UpdateContentHash, Row
<1>4. \A d : SameAssets(UpdateThumbnailStoragePath(a, d))
  BY <1>1 DEF SameAssets, UpdateThumbnailStoragePath, Row
<1>5. \A d : SameAssets(UpdatePreviewStoragePath(a, d))
  BY <1>1 DEF SameAssets, UpdatePreviewStoragePath, Row
<1>6. SameAssets(SoftDelete(a))
  BY <1>1 DEF SameAssets, SoftDelete, SoftDeleteOutcome, Row
<1>7. SameAssets(Restore(a))
  BY <1>1 DEF SameAssets, Restore, RestoreOutcome, Row
<1>8. QED
  BY <1>2, <1>3, <1>4, <1>5, <1>6, <1>7

\* A step that adds and removes neither rows nor originals, and gives nobody
\* an id, keeps the invariant.
LEMMA Frame ==
    ASSUME LibInv, TypeInv', NEW p \in Procs, Moves(p), SameAssets(rows'),
           UNCHANGED <<originals, issued>>
    PROVE  LibInv'
<1>1. \A a \in Ids : /\ Exists(a)' <=> Exists(a)
                     /\ rows'[a].content = rows[a].content
  BY DEF SameAssets, Exists
<1>2. \A q \in Procs : /\ req'[q].pc \in Making => req[q].pc \in Making
                       /\ req'[q].pc \in Filling => req[q].pc \in Filling
                       /\ req'[q].pc \in Purging => req[q].pc \in Purging
                       /\ req'[q].pc \in Making \cup Purging
                             => req'[q].target = req[q].target
                       /\ req'[q].pc \in Filling
                             => req'[q].asset.content = req[q].asset.content
  BY DEF Moves, OthersKeep
<1>3. \A q \in Procs : req[q].pc \in Making \cup Purging => req[q].target \in Ids
  BY DEF LibInv, TypeInv, ReqOK, LocalsOK, NeedsTarget, Making, Filling, Purging
<1>4. IssuedOK' /\ LiveOriginals'
  BY <1>1 DEF LibInv, IssuedOK, LiveOriginals, StoragePath
<1>5. MakingOK'
  BY <1>1, <1>2, <1>3 DEF LibInv, MakingOK
<1>6. FillingOK'
  BY <1>2 DEF LibInv, FillingOK, Making
<1>7. PurgingOK'
  BY <1>1, <1>2, <1>3 DEF LibInv, PurgingOK
<1>8. QED
  BY <1>4, <1>5, <1>6, <1>7 DEF LibInv

LEMMA QuietMoves == \A p \in Procs : Quiet(p) => Moves(p)
BY DEF Quiet, Moves, Making

\* A file name drawn anew, or owned by an upload, is no row's.
LEMMA FreshPath ==
    ASSUME LibInv, NEW f \in Ids, f \notin Legacy,
           NEW a \in Ids, a # f
    PROVE  StoragePath(a) # f
BY LegacyAssumption DEF StoragePath

\* Without shared files, two ids never name the same file.
LEMMA PathsDiffer ==
    ASSUME UniquePaths, NEW a \in Ids, NEW b \in Ids, a # b
    PROVE  StoragePath(a) # StoragePath(b)
BY LegacyAssumption DEF StoragePath, UniquePaths

\* An original saved, or half of it, under a name drawn anew.
LEMMA DrawKeeps ==
    ASSUME LibInv, TypeInv', NEW p \in Procs, OthersKeep(p), UNCHANGED rows,
           req[p].pc \notin Making \cup Purging,
           NEW a \in Ids \ issued, issued' = issued \cup {a},
           \A f \in Ids \ {a} : originals'[f] = originals[f],
           \/ req'[p].pc \notin Making \cup Purging
           \/ /\ req'[p].pc \in Filling /\ req'[p].target = a
              /\ req'[p].asset.content = originals'[a]
    PROVE  LibInv'
<1>1. a \notin Legacy /\ ~Exists(a)
  BY DEF LibInv, IssuedOK
<1>2. \A b \in Ids : Exists(b)' <=> Exists(b)
  BY DEF Exists
<1>3. IssuedOK'
  BY <1>2 DEF LibInv, IssuedOK
<1>4. LiveOriginals'
  <2>1. SUFFICES ASSUME NEW b \in Ids, Exists(b)
                 PROVE  originals'[StoragePath(b)] = rows[b].content
    BY <1>2 DEF LiveOriginals, StoragePath
  <2>2. b # a /\ StoragePath(b) \in Ids
    BY <1>1, <2>1, LegacyAssumption DEF StoragePath
  <2>3. StoragePath(b) # a
    BY <1>1, <2>2, FreshPath
  <2>4. QED
    BY <2>1, <2>2, <2>3 DEF LibInv, LiveOriginals
<1>5. \A q \in Procs : req[q].pc \in Making \cup Purging
                          => req[q].target \in issued /\ req[q].target \in Ids
  BY DEF LibInv, MakingOK, PurgingOK, TypeInv, TypeOK
<1>6. Filling \subseteq Making /\ Making \cap Purging = {}
  BY DEF Filling, Making, Purging
<1>7. MakingOK'
  BY <1>1, <1>2, <1>5, <1>6 DEF LibInv, MakingOK, OthersKeep
<1>8. FillingOK'
  BY <1>5, <1>6 DEF LibInv, FillingOK, OthersKeep
<1>9. PurgingOK'
  BY <1>2, <1>5, <1>6 DEF LibInv, PurgingOK, OthersKeep
<1>10. QED
  BY <1>3, <1>4, <1>7, <1>8, <1>9 DEF LibInv

\* The row of a new asset is inserted once its original is in the store.
LEMMA InsertKeeps ==
    ASSUME LibInv, TypeInv', NEW p \in Procs, UploadInsert(p)
    PROVE  LibInv'
<1> DEFINE a == req[p].target
           asset == req[p].asset
<1>1. /\ req[p].pc = "upInsert" /\ req[p].pc \in Filling /\ req[p].pc \in Making
      /\ rows' = Save(a, asset) /\ UNCHANGED <<originals, issued>>
  BY DEF UploadInsert, At, Filling, Making
<1>2. /\ a \in issued \ Legacy /\ a \in Ids /\ ~Exists(a)
      /\ asset.state = "active" /\ originals[a] = asset.content
  BY <1>1, Locals DEF LibInv, MakingOK, FillingOK, TypeInv, TypeOK
<1>3. CASE SaveOutcome(a, asset) # "ok"
  <2>1. rows' = rows /\ Goto(p, "upUndo", [req[p] EXCEPT !.how = SaveOutcome(a, asset)])
    BY <1>1, <1>3 DEF UploadInsert, Save
  <2>2. Moves(p)
    <3> DEFINE l == [req[p] EXCEPT !.how = SaveOutcome(a, asset)]
    <3>1. l.target = req[p].target
      BY Locals DEF LibInv, Request
    <3>2. Goto(p, "upUndo", l)
      BY <2>1
    <3> HIDE DEF l
    <3>3. OthersKeep(p) /\ req'[p].pc = "upUndo" /\ req'[p].target = req[p].target
      BY <3>1, <3>2, GotoMoves DEF LibInv
    <3>4. QED
      BY <1>1, <3>3 DEF Moves, Making, Filling, Purging
  <2>3. QED
    BY <1>1, <2>1, <2>2, Frame DEF SameAssets
<1>4. CASE SaveOutcome(a, asset) = "ok"
  <2>1. rows' = [rows EXCEPT ![a] = asset] /\ Answer(p, "created", a)
    BY <1>1, <1>4 DEF UploadInsert, Save
  <2>2. Quiet(p)
    BY <2>1, QuietAnswer DEF LibInv
  <2>3. rows'[a] = asset /\ \A b \in Ids \ {a} : rows'[b] = rows[b]
    BY <1>2, <2>1 DEF LibInv, TypeInv, TypeOK
  <2>4. \A b \in Ids : Exists(b)' <=> Exists(b) \/ b = a
    BY <1>2, <2>3 DEF Exists
  <2>5. IssuedOK'
    BY <1>1, <1>2, <2>4 DEF LibInv, IssuedOK
  <2>6. LiveOriginals'
    BY <1>1, <1>2, <2>3, <2>4 DEF LibInv, LiveOriginals, StoragePath
  <2>7. \A q \in Procs \ {p} : req[q].pc \in Making \cup Purging => req[q].target # a
    BY <1>1 DEF LibInv, MakingOK, PurgingOK
  <2>8. \A q \in Procs : req[q].pc \in Making \cup Purging => req[q].target \in Ids
    BY DEF LibInv, MakingOK, PurgingOK, TypeInv, TypeOK
  <2>9. MakingOK'
    BY <1>1, <2>2, <2>4, <2>7, <2>8 DEF LibInv, MakingOK, Quiet, OthersKeep
  <2>10. FillingOK'
    BY <1>1, <2>2 DEF LibInv, FillingOK, Quiet, OthersKeep, Making
  <2>11. PurgingOK'
    BY <1>1, <2>2, <2>4, <2>7, <2>8 DEF LibInv, PurgingOK, Quiet, OthersKeep
  <2>12. QED
    BY <2>5, <2>6, <2>9, <2>10, <2>11 DEF LibInv
<1>5. QED
  BY <1>3, <1>4

\* An original is unlinked that no row and no upload needs.
LEMMA UnlinkKeeps ==
    ASSUME LibInv, TypeInv', NEW p \in Procs, Quiet(p), UNCHANGED <<rows, issued>>,
           NEW g, \A f \in Ids : f # g => originals'[f] = originals[f],
           \A b \in Ids : Exists(b) => StoragePath(b) # g,
           \A q \in Procs \ {p} : req[q].pc \in Filling => req[q].target # g
    PROVE  LibInv'
<1>1. \A b \in Ids : Exists(b)' <=> Exists(b)
  BY DEF Exists
<1>2. IssuedOK'
  BY <1>1 DEF LibInv, IssuedOK
<1>3. \A b \in Ids : StoragePath(b) \in Ids
  BY LegacyAssumption DEF StoragePath
<1>4. LiveOriginals'
  BY <1>1, <1>3 DEF LibInv, LiveOriginals, StoragePath
<1>5. \A q \in Procs : req[q].pc \in Making \cup Purging => req[q].target \in Ids
  BY DEF LibInv, MakingOK, PurgingOK, TypeInv, TypeOK
<1>6. MakingOK'
  BY <1>1, <1>5 DEF LibInv, MakingOK, Quiet, OthersKeep
<1>7. FillingOK'
  BY <1>5 DEF LibInv, FillingOK, Quiet, OthersKeep, Making
<1>8. PurgingOK'
  BY <1>1, <1>5 DEF LibInv, PurgingOK, Quiet, OthersKeep
<1>9. QED
  BY <1>2, <1>4, <1>6, <1>7, <1>8 DEF LibInv

\* An upload whose row was refused unlinks what it owns, or fails to.
LEMMA UndoKeeps ==
    ASSUME LibInv, TypeInv', NEW p \in Procs, At(p, "upUndo"),
           UploadUndo(p) \/ UnlinkFails(p)
    PROVE  LibInv'
<1> DEFINE a == req[p].target
<1>1. /\ req[p].pc = "upUndo" /\ req[p].pc \in Making
      /\ UNCHANGED <<rows, issued>>
      /\ originals' \in {originals, [originals EXCEPT ![a] = "none"]}
  BY DEF UploadUndo, UnlinkFails, At, Making
<1>2. Goto(p, "upRefind", req[p]) \/ Answer(p, req[p].how, Null)
  BY <1>1 DEF UploadUndo, UnlinkFails
<1>3. Quiet(p)
  BY <1>2, QuietGoto, QuietAnswer DEF LibInv, Making, Filling, Purging
<1>4. a \in Ids \ Legacy /\ ~Exists(a)
  BY <1>1 DEF LibInv, MakingOK, TypeInv, TypeOK
<1>5. \A b \in Ids : Exists(b) => StoragePath(b) # a
  BY <1>4, FreshPath
<1>6. \A q \in Procs \ {p} : req[q].pc \in Filling => req[q].target # a
  BY <1>1 DEF LibInv, MakingOK, Making
<1>7. \A f \in Ids : f # a => originals'[f] = originals[f]
  BY <1>1 DEF LibInv, TypeInv, TypeOK
<1>8. QED
  BY <1>1, <1>3, <1>5, <1>6, <1>7, UnlinkKeeps

\* A purge deletes a row of the trash, and owns its id from then on.
LEMMA PurgeRowKeeps ==
    ASSUME LibInv, TypeInv', NEW p \in Procs, PurgeRow(p)
    PROVE  LibInv'
<1> DEFINE a == req[p].target
<1>1. /\ req[p].pc = "purRow" /\ rows' = Delete(a)
      /\ UNCHANGED <<originals, issued>>
  BY DEF PurgeRow, At
<1>2. a \in Ids
  BY <1>1, Locals DEF LibInv, NeedsTarget
<1>3. CASE DeleteOutcome(a) # "ok"
  <2>1. rows' = rows /\ Quiet(p)
    BY <1>1, <1>3, QuietAnswer DEF PurgeRow, Delete, LibInv
  <2>2. QED
    BY <1>1, <2>1, Frame, QuietMoves DEF SameAssets
<1>4. CASE DeleteOutcome(a) = "ok"
  <2>1. /\ Exists(a) /\ rows' = [rows EXCEPT ![a] = NoRow]
        /\ Goto(p, "purThumb", req[p])
    BY <1>1, <1>4 DEF PurgeRow, Delete, DeleteOutcome, Exists
  <2>2. OthersKeep(p) /\ req'[p].pc = "purThumb" /\ req'[p].target = a
    BY <2>1, GotoMoves DEF LibInv
  <2>3. \A b \in Ids : (Exists(b)' <=> Exists(b) /\ b # a)
                       /\ (b # a => rows'[b] = rows[b])
    BY <1>2, <2>1 DEF LibInv, TypeInv, TypeOK, Exists, NoRow
  <2>4. IssuedOK' /\ LiveOriginals'
    BY <1>1, <2>3 DEF LibInv, IssuedOK, LiveOriginals, StoragePath
  <2>5. \A q \in Procs : req[q].pc \in Making \cup Purging
                            => req[q].target # a /\ req[q].target \in Ids
    BY <2>1 DEF LibInv, MakingOK, PurgingOK, TypeInv, TypeOK
  <2>6. "purThumb" \notin Making /\ Filling \subseteq Making
    BY DEF Making, Filling
  <2>7. MakingOK'
    BY <1>1, <2>2, <2>3, <2>5, <2>6 DEF LibInv, MakingOK, OthersKeep
  <2>8. FillingOK'
    BY <1>1, <2>2, <2>6 DEF LibInv, FillingOK, OthersKeep
  <2>9. a \in issued
    BY <1>2, <2>1 DEF LibInv, IssuedOK
  <2>10. PurgingOK'
    BY <1>1, <1>2, <2>2, <2>3, <2>5, <2>6, <2>9 DEF LibInv, PurgingOK, OthersKeep
  <2>11. QED
    BY <2>4, <2>7, <2>8, <2>10 DEF LibInv
<1>5. QED
  BY <1>3, <1>4

\* The original of a purged asset is unlinked last.
LEMMA PurgeOriginalKeeps ==
    ASSUME LibInv, TypeInv', UniquePaths, NEW p \in Procs, PurgeOriginal(p)
    PROVE  LibInv'
<1> DEFINE a == req[p].target
           f == StoragePath(a)
<1>1. req[p].pc \in Purging /\ UNCHANGED <<rows, issued>>
  BY DEF PurgeOriginal, At, Purging
<1>2. Quiet(p)
  BY QuietGoto, QuietAnswer DEF PurgeOriginal, LibInv, Making, Filling, Purging
<1>3. a \in Ids /\ ~Exists(a)
  BY <1>1 DEF LibInv, PurgingOK, TypeInv, TypeOK
<1>4. \A b \in Ids : Exists(b) => StoragePath(b) # f
  BY <1>3, PathsDiffer
<1>5. \A q \in Procs \ {p} : req[q].pc \in Filling => req[q].target # f
  <2>1. SUFFICES ASSUME NEW q \in Procs, req[q].pc \in Filling
                 PROVE  req[q].target # f
    OBVIOUS
  <2>2. req[q].target \in Ids \ Legacy /\ req[q].target # a
    BY <1>1, <2>1 DEF LibInv, MakingOK, PurgingOK, Making, TypeInv, TypeOK
  <2>3. QED
    BY <1>3, <2>2, FreshPath
<1>6. \A g \in Ids : g # f => originals'[g] = originals[g]
  BY DEF PurgeOriginal, LibInv, TypeInv, TypeOK
<1>7. QED
  BY <1>1, <1>2, <1>4, <1>5, <1>6, UnlinkKeeps

\* A quiet step that runs a statement on a row, or none.
LEMMA QuietKeeps ==
    ASSUME LibInv, TypeInv', NEW p \in Procs, Quiet(p),
           UNCHANGED <<originals, issued>>, SameAssets(rows')
    PROVE  LibInv'
BY Frame, QuietMoves

\* The upload's own files, once its original is in the store.
LEMMA FillKeeps ==
    ASSUME LibInv, TypeInv', NEW p \in Procs, NEW local, NEW pc \in Making,
           req[p].pc \in Filling, Goto(p, pc, local),
           local.target = req[p].target,
           local.asset.content = req[p].asset.content,
           UNCHANGED <<rows, originals, issued>>
    PROVE  LibInv'
<1>1. OthersKeep(p) /\ req'[p].pc = pc /\ req'[p].target = local.target
      /\ req'[p].asset = local.asset
  BY GotoMoves DEF LibInv
<1>2. Making \cap Purging = {} /\ Filling \subseteq Making
  BY DEF Making, Purging, Filling
<1>3. Moves(p)
  BY <1>1, <1>2 DEF Moves
<1>4. QED
  BY <1>3, Frame DEF SameAssets

LEMMA UploadKeeps ==
    ASSUME LibInv, TypeInv', NEW p \in Procs, UploadStep(p)
    PROVE  LibInv'
<1> USE DEF At
<1> DEFINE r == req[p]
<1>0. TypeInv /\ TypeOK /\ r \in Request /\ r.asset \in Row
  BY Locals DEF LibInv, TypeInv
<1>1. CASE UploadFind(p)
  <2>1. Quiet(p)
    BY <1>0, <1>1, QuietGoto, QuietAnswer DEF UploadFind, Making, Filling, Purging
  <2>2. QED
    BY <1>0, <1>1, <2>1, QuietKeeps, StatementsKeep DEF UploadFind, stored
<1>2. CASE UploadFindTrash(p)
  <2>1. Quiet(p)
    BY <1>0, <1>2, QuietGoto, QuietAnswer DEF UploadFindTrash, Making, Filling, Purging
  <2>2. QED
    BY <1>0, <1>2, <2>1, QuietKeeps, StatementsKeep DEF UploadFindTrash, stored
<1>3. CASE UploadRestore(p)
  <2>1. Quiet(p)
    BY <1>0, <1>3, QuietGoto, QuietAnswer DEF UploadRestore, Making, Filling, Purging
  <2>2. SameAssets(rows') /\ UNCHANGED <<originals, issued>>
    BY <1>0, <1>3, StatementsKeep DEF UploadRestore
  <2>3. QED
    BY <2>1, <2>2, QuietKeeps
<1>4. CASE UploadLegacy(p)
  <2>1. Quiet(p)
    BY <1>0, <1>4, QuietGoto, QuietAnswer DEF UploadLegacy, Making, Filling, Purging
  <2>2. QED
    BY <1>0, <1>4, <2>1, QuietKeeps, StatementsKeep DEF UploadLegacy, stored
<1>5. CASE UploadProbe(p)
  <2>1. Quiet(p)
    <3>1. \E pc \in {"upProbe", "upBackfill", "upStore"} : \E local : Goto(p, pc, local)
      <4>1. \/ \E local : Goto(p, "upProbe", local)
            \/ \E local : Goto(p, "upBackfill", local)
            \/ \E local : Goto(p, "upStore", local)
        BY <1>5, Zenon DEF UploadProbe
      <4>2. QED
        BY <4>1
    <3>2. QED
      BY <1>0, <3>1, QuietGoto DEF Making, Filling, Purging
  <2>2. QED
    BY <1>0, <1>5, <2>1, QuietKeeps, StatementsKeep DEF UploadProbe, stored
<1>6. CASE UploadBackfill(p)
  <2>1. Quiet(p)
    BY <1>0, <1>6, QuietGoto, QuietAnswer DEF UploadBackfill, Making, Filling, Purging
  <2>2. SameAssets(rows') /\ UNCHANGED <<originals, issued>>
    BY <1>0, <1>6, StatementsKeep DEF UploadBackfill
  <2>3. QED
    BY <2>1, <2>2, QuietKeeps
<1>7. CASE UploadStore(p)
  <2> DEFINE asset == [state |-> "active", content |-> r.content, hash |-> r.content,
                       thumb |-> NoPath, preview |-> NoPath]
  <2>1. PICK a \in Ids \ issued :
            /\ issued' = issued \cup {a}
            /\ originals' = [originals EXCEPT ![a] = r.content]
            /\ Goto(p, "upThumb", [r EXCEPT !.target = a, !.asset = asset])
    BY <1>7 DEF UploadStore
  <2>2. asset.content = r.content
    OBVIOUS
  <2> HIDE DEF asset
  <2>3. /\ [r EXCEPT !.target = a, !.asset = asset].target = a
        /\ [r EXCEPT !.target = a, !.asset = asset].asset = asset
    BY <1>0 DEF Request
  <2> DEFINE l == [r EXCEPT !.target = a, !.asset = asset]
  <2>4. l.target = a /\ l.asset = asset /\ Goto(p, "upThumb", l)
    BY <2>1, <2>3
  <2> HIDE DEF l
  <2>5. /\ OthersKeep(p) /\ req'[p].pc = "upThumb"
        /\ req'[p].target = a /\ req'[p].asset = asset
    BY <1>0, <2>4, GotoMoves
  <2>6. /\ originals'[a] = r.content
        /\ \A f \in Ids \ {a} : originals'[f] = originals[f]
    BY <1>0, <2>1 DEF TypeOK
  <2>7. /\ r.pc \notin Making \cup Purging /\ "upThumb" \in Filling
        /\ UNCHANGED rows
    BY <1>7 DEF UploadStore, Making, Filling, Purging
  <2>8. QED
    BY <2>1, <2>2, <2>5, <2>6, <2>7, DrawKeeps
<1>8. CASE UploadThumb(p)
  <2> DEFINE l == [r EXCEPT !.asset.thumb = today]
  <2>1. l.target = r.target /\ l.asset.content = r.asset.content
    BY <1>0 DEF Request, Row
  <2>2. /\ r.pc \in Filling /\ "upPreview" \in Making
        /\ UNCHANGED <<rows, originals, issued>>
    BY <1>8 DEF UploadThumb, Filling, Making
  <2>3. Goto(p, "upPreview", l) \/ Goto(p, "upPreview", r)
    BY <1>8 DEF UploadThumb
  <2> HIDE DEF l
  <2>4. QED
    BY <2>1, <2>2, <2>3, FillKeeps
<1>9. CASE UploadPreview(p)
  <2> DEFINE l == [r EXCEPT !.asset.preview = today]
  <2>1. l.target = r.target /\ l.asset.content = r.asset.content
    BY <1>0 DEF Request, Row
  <2>2. /\ r.pc \in Filling /\ "upInsert" \in Making
        /\ UNCHANGED <<rows, originals, issued>>
    BY <1>9 DEF UploadPreview, Filling, Making
  <2>3. Goto(p, "upInsert", l) \/ Goto(p, "upInsert", r)
    BY <1>9 DEF UploadPreview
  <2> HIDE DEF l
  <2>4. QED
    BY <2>1, <2>2, <2>3, FillKeeps
<1>10. CASE UploadInsert(p)
  BY <1>10, InsertKeeps
<1>11. CASE UploadUndo(p)
  BY <1>11, UndoKeeps DEF UploadUndo
<1>12. CASE UploadRefind(p)
  <2>1. Quiet(p)
    BY <1>0, <1>12, QuietGoto, QuietAnswer DEF UploadRefind, Making, Filling, Purging
  <2>2. QED
    BY <1>0, <1>12, <2>1, QuietKeeps, StatementsKeep DEF UploadRefind, stored
<1>13. QED
  BY <1>1, <1>2, <1>3, <1>4, <1>5, <1>6, <1>7, <1>8, <1>9, <1>10, <1>11,
     <1>12
     DEF UploadStep

LEMMA TrashKeeps ==
    ASSUME LibInv, TypeInv', UniquePaths, NEW p \in Procs, TrashStep(p)
    PROVE  LibInv'
<1> USE DEF At
<1> DEFINE r == req[p]
<1>0. TypeInv /\ TypeOK /\ r \in Request
  BY Locals DEF LibInv, TypeInv
<1>1. CASE DeleteFind(p)
  <2>1. Quiet(p)
    BY <1>0, <1>1, QuietGoto, QuietAnswer DEF DeleteFind, Making, Filling, Purging
  <2>2. QED
    BY <1>0, <1>1, <2>1, QuietKeeps, StatementsKeep DEF DeleteFind, stored
<1>2. CASE DeleteMark(p)
  <2>1. Quiet(p)
    BY <1>0, <1>2, QuietGoto, QuietAnswer DEF DeleteMark, Making, Filling, Purging
  <2>2. SameAssets(rows') /\ UNCHANGED <<originals, issued>>
    BY <1>0, <1>2, StatementsKeep DEF DeleteMark
  <2>3. QED
    BY <2>1, <2>2, QuietKeeps
<1>3. CASE RestoreFind(p)
  <2>1. Quiet(p)
    BY <1>0, <1>3, QuietGoto, QuietAnswer DEF RestoreFind, Making, Filling, Purging
  <2>2. QED
    BY <1>0, <1>3, <2>1, QuietKeeps, StatementsKeep DEF RestoreFind, stored
<1>4. CASE RestoreMark(p)
  <2>1. Quiet(p)
    BY <1>0, <1>4, QuietGoto, QuietAnswer DEF RestoreMark, Making, Filling, Purging
  <2>2. SameAssets(rows') /\ UNCHANGED <<originals, issued>>
    BY <1>0, <1>4, StatementsKeep DEF RestoreMark
  <2>3. QED
    BY <2>1, <2>2, QuietKeeps
<1>5. CASE EmptyList(p)
  <2>1. Quiet(p)
    BY <1>0, <1>5, QuietGoto, QuietAnswer DEF EmptyList, Making, Filling, Purging
  <2>2. QED
    BY <1>0, <1>5, <2>1, QuietKeeps, StatementsKeep DEF EmptyList, stored
<1>6. CASE EmptyNext(p)
  <2>1. Quiet(p)
    <3>1. \/ \E local : Goto(p, "purFind", local)
          \/ \E how : Answer(p, how, Null)
      BY <1>6, Zenon DEF EmptyNext
    <3>2. QED
      BY <1>0, <3>1, QuietGoto, QuietAnswer DEF Making, Filling, Purging
  <2>2. QED
    BY <1>0, <1>6, <2>1, QuietKeeps, StatementsKeep DEF EmptyNext, stored
<1>7. CASE PurgeFind(p)
  <2>1. Quiet(p)
    BY <1>0, <1>7, QuietGoto, QuietAnswer DEF PurgeFind, Making, Filling, Purging
  <2>2. QED
    BY <1>0, <1>7, <2>1, QuietKeeps, StatementsKeep DEF PurgeFind, stored
<1>8. CASE PurgeCount(p)
  <2>1. Quiet(p)
    BY <1>0, <1>8, QuietGoto, QuietAnswer DEF PurgeCount, Making, Filling, Purging
  <2>2. QED
    BY <1>0, <1>8, <2>1, QuietKeeps, StatementsKeep DEF PurgeCount, stored
<1>9. CASE PurgeRow(p)
  BY <1>9, PurgeRowKeeps
<1>10. CASE PurgeThumb(p)
  <2>1. /\ r.pc \in Purging /\ "purPreview" \in Purging
        /\ Goto(p, "purPreview", r) /\ UNCHANGED <<rows, originals, issued>>
    BY <1>10 DEF PurgeThumb, Purging
  <2>2. OthersKeep(p) /\ req'[p].pc = "purPreview" /\ req'[p].target = r.target
    BY <1>0, <2>1, GotoMoves
  <2>3. Moves(p)
    BY <2>1, <2>2 DEF Moves, Making, Filling, Purging
  <2>4. QED
    BY <2>1, <2>3, Frame DEF SameAssets
<1>11. CASE PurgePreview(p)
  <2>1. /\ r.pc \in Purging /\ "purOriginal" \in Purging
        /\ Goto(p, "purOriginal", r) /\ UNCHANGED <<rows, originals, issued>>
    BY <1>11 DEF PurgePreview, Purging
  <2>2. OthersKeep(p) /\ req'[p].pc = "purOriginal" /\ req'[p].target = r.target
    BY <1>0, <2>1, GotoMoves
  <2>3. Moves(p)
    BY <2>1, <2>2 DEF Moves, Making, Filling, Purging
  <2>4. QED
    BY <2>1, <2>3, Frame DEF SameAssets
<1>12. CASE PurgeOriginal(p)
  BY <1>12, PurgeOriginalKeeps
<1>13. QED
  BY <1>1, <1>2, <1>3, <1>4, <1>5, <1>6, <1>7, <1>8, <1>9, <1>10, <1>11,
     <1>12
     DEF TrashStep

LEMMA DerivedKeeps ==
    ASSUME LibInv, TypeInv', NEW p \in Procs, DerivedStep(p)
    PROVE  LibInv'
<1> USE DEF At
<1>0. TypeInv /\ TypeOK
  BY DEF LibInv, TypeInv
<1>1. CASE DownloadFind(p)
  <2>1. Quiet(p)
    BY <1>0, <1>1, QuietGoto, QuietAnswer DEF DownloadFind, Making, Filling, Purging, FindThen
  <2>2. QED
    BY <1>0, <1>1, <2>1, QuietKeeps, StatementsKeep DEF DownloadFind, stored, FindThen
<1>2. CASE DownloadOpen(p)
  <2>1. Quiet(p)
    BY <1>0, <1>2, QuietGoto, QuietAnswer DEF DownloadOpen, Making, Filling, Purging
  <2>2. QED
    BY <1>0, <1>2, <2>1, QuietKeeps, StatementsKeep DEF DownloadOpen, stored
<1>3. CASE PreviewFind(p)
  <2>1. Quiet(p)
    BY <1>0, <1>3, QuietGoto, QuietAnswer DEF PreviewFind, Making, Filling, Purging, FindThen
  <2>2. QED
    BY <1>0, <1>3, <2>1, QuietKeeps, StatementsKeep DEF PreviewFind, stored, FindThen
<1>4. CASE PreviewOpen(p)
  <2>1. Quiet(p)
    BY <1>0, <1>4, QuietGoto, QuietAnswer DEF PreviewOpen, Making, Filling, Purging
  <2>2. QED
    BY <1>0, <1>4, <2>1, QuietKeeps, StatementsKeep DEF PreviewOpen, stored
<1>5. CASE ThumbnailFind(p)
  <2>1. Quiet(p)
    BY <1>0, <1>5, QuietGoto, QuietAnswer DEF ThumbnailFind, Making, Filling, Purging, FindThen
  <2>2. QED
    BY <1>0, <1>5, <2>1, QuietKeeps, StatementsKeep DEF ThumbnailFind, stored, FindThen
<1>6. CASE ThumbnailOpen(p)
  <2>1. Quiet(p)
    BY <1>0, <1>6, QuietGoto, QuietAnswer DEF ThumbnailOpen, Making, Filling, Purging
  <2>2. QED
    BY <1>0, <1>6, <2>1, QuietKeeps, StatementsKeep DEF ThumbnailOpen, stored
<1>7. CASE ThumbnailGenerate(p)
  <2>1. Quiet(p)
    BY <1>0, <1>7, QuietGoto, QuietAnswer DEF ThumbnailGenerate, Making, Filling, Purging
  <2>2. QED
    BY <1>0, <1>7, <2>1, QuietKeeps, StatementsKeep DEF ThumbnailGenerate, stored
<1>8. CASE ThumbnailCreate(p)
  <2>1. Quiet(p)
    BY <1>0, <1>8, QuietGoto, QuietAnswer DEF ThumbnailCreate, Making, Filling, Purging
  <2>2. QED
    BY <1>0, <1>8, <2>1, QuietKeeps, StatementsKeep DEF ThumbnailCreate, stored
<1>9. CASE ThumbnailWrite(p)
  <2>1. Quiet(p)
    BY <1>0, <1>9, QuietGoto, QuietAnswer DEF ThumbnailWrite, Making, Filling, Purging
  <2>2. QED
    BY <1>0, <1>9, <2>1, QuietKeeps, StatementsKeep DEF ThumbnailWrite, stored
<1>10. CASE ThumbnailRecord(p)
  <2>1. Quiet(p)
    BY <1>0, <1>10, QuietGoto, QuietAnswer DEF ThumbnailRecord, Making, Filling, Purging
  <2>2. SameAssets(rows') /\ UNCHANGED <<originals, issued>>
    BY <1>0, <1>10, StatementsKeep DEF ThumbnailRecord
  <2>3. QED
    BY <2>1, <2>2, QuietKeeps
<1>11. CASE BackfillList(p)
  <2>1. Quiet(p)
    BY <1>0, <1>11, QuietGoto, QuietAnswer DEF BackfillList, Making, Filling, Purging
  <2>2. QED
    BY <1>0, <1>11, <2>1, QuietKeeps, StatementsKeep DEF BackfillList, stored
<1>12. CASE BackfillNext(p)
  <2>1. Quiet(p)
    <3>1. \/ \E local : Goto(p, "bfFind", local)
          \/ \E how : Answer(p, how, Null)
      BY <1>12, Zenon DEF BackfillNext
    <3>2. QED
      BY <1>0, <3>1, QuietGoto, QuietAnswer DEF Making, Filling, Purging
  <2>2. QED
    BY <1>0, <1>12, <2>1, QuietKeeps, StatementsKeep DEF BackfillNext, stored
<1>13. CASE BackfillFind(p)
  <2>1. Quiet(p)
    BY <1>0, <1>13, QuietGoto, QuietAnswer, QuietDone DEF BackfillFind, Making, Filling, Purging
  <2>2. QED
    BY <1>0, <1>13, <2>1, QuietKeeps, StatementsKeep DEF BackfillFind, stored
<1>14. CASE BackfillGenerate(p)
  <2>1. Quiet(p)
    BY <1>0, <1>14, QuietGoto, QuietAnswer, QuietDone DEF BackfillGenerate, Making, Filling, Purging
  <2>2. QED
    BY <1>0, <1>14, <2>1, QuietKeeps, StatementsKeep DEF BackfillGenerate, stored
<1>15. CASE BackfillCreate(p)
  <2>1. Quiet(p)
    BY <1>0, <1>15, QuietGoto, QuietAnswer DEF BackfillCreate, Making, Filling, Purging
  <2>2. QED
    BY <1>0, <1>15, <2>1, QuietKeeps, StatementsKeep DEF BackfillCreate, stored
<1>16. CASE BackfillWrite(p)
  <2>1. Quiet(p)
    BY <1>0, <1>16, QuietGoto, QuietAnswer DEF BackfillWrite, Making, Filling, Purging
  <2>2. QED
    BY <1>0, <1>16, <2>1, QuietKeeps, StatementsKeep DEF BackfillWrite, stored
<1>17. CASE BackfillRecord(p)
  <2>1. Quiet(p)
    BY <1>0, <1>17, QuietGoto, QuietAnswer, QuietDone DEF BackfillRecord, Making, Filling, Purging
  <2>2. SameAssets(rows') /\ UNCHANGED <<originals, issued>>
    BY <1>0, <1>17, StatementsKeep DEF BackfillRecord
  <2>3. QED
    BY <2>1, <2>2, QuietKeeps
<1>18. QED
  BY <1>1, <1>2, <1>3, <1>4, <1>5, <1>6, <1>7, <1>8, <1>9, <1>10, <1>11,
     <1>12, <1>13, <1>14, <1>15, <1>16, <1>17
     DEF DerivedStep

LEMMA StartKeeps ==
    ASSUME LibInv, TypeInv', NEW p \in Procs, Start(p)
    PROVE  LibInv'
<1>0. TypeInv /\ TypeOK
  BY DEF LibInv, TypeInv
<1>1. UNCHANGED <<rows, originals, issued>>
  BY DEF Start, StartUpload, StartDelete, StartRestore, StartPurge,
         StartEmptyTrash, StartDownload, StartPreview, StartThumbnail,
         StartTrashThumbnail, StartBackfill, StartOn, stored
<1>2. \E first \in {"upFind", "answer", "delFind", "resFind", "purFind",
                    "emptyList", "dlFind", "pvFind", "thFind", "thTrashFind",
                    "bfList"} :
         \E kind, local : Begin(p, kind, first, local)
  <2>1. CASE StartUpload(p)
    BY <2>1 DEF StartUpload
  <2>2. CASE StartEmptyTrash(p) \/ StartBackfill(p)
    BY <2>2 DEF StartEmptyTrash, StartBackfill
  <2>3. CASE \/ StartDelete(p) \/ StartRestore(p) \/ StartPurge(p)
             \/ StartDownload(p) \/ StartPreview(p) \/ StartThumbnail(p)
             \/ StartTrashThumbnail(p)
    BY <2>3 DEF StartDelete, StartRestore, StartPurge, StartDownload,
                StartPreview, StartThumbnail, StartTrashThumbnail, StartOn
  <2>4. QED
    BY <2>1, <2>2, <2>3 DEF Start
<1>3. Quiet(p)
  BY <1>0, <1>2, QuietBegin DEF Making, Filling, Purging
<1>4. QED
  BY <1>1, <1>3, QuietKeeps DEF SameAssets

\* A fault stops a request, or leaves its upload with what it owns; only the
\* lost answer of a committed statement is excluded.
LEMMA FaultKeeps ==
    ASSUME LibInv, TypeInv', ~AckLoss, NEW p \in Procs, FaultStep(p)
    PROVE  LibInv'
<1> USE DEF At
<1> DEFINE r == req[p]
<1>0. TypeInv /\ TypeOK /\ r \in Request
  BY Locals DEF LibInv, TypeInv
<1>1. CASE ReadFails(p)
  <2>1. Quiet(p)
    BY <1>0, <1>1, QuietAnswer, QuietDone DEF ReadFails
  <2>2. QED
    BY <1>1, <2>1, QuietKeeps DEF ReadFails, SameAssets
<1>2. CASE StatementFails(p)
  <2>1. UNCHANGED <<rows, originals, issued>>
    BY <1>2 DEF StatementFails
  <2>2. ASSUME r.pc = "upInsert", Goto(p, "upUndo", [r EXCEPT !.how = "failed"])
        PROVE  LibInv'
    <3> DEFINE l == [r EXCEPT !.how = "failed"]
    <3>1. l.target = r.target /\ l.asset = r.asset
      BY <1>0 DEF Request
    <3>2. Goto(p, "upUndo", l)
      BY <2>2
    <3> HIDE DEF l
    <3>3. r.pc \in Filling /\ "upUndo" \in Making
      BY <2>2 DEF Filling, Making
    <3>4. QED
      BY <2>1, <3>1, <3>2, <3>3, FillKeeps
  <2>3. ASSUME \/ \E how, a : Answer(p, how, a)
               \/ BackfillDone(p, TRUE)
        PROVE  LibInv'
    <3>1. Quiet(p)
      BY <1>0, <2>3, QuietAnswer, QuietDone
    <3>2. QED
      BY <2>1, <3>1, QuietKeeps DEF SameAssets
  <2>4. \/ r.pc = "upInsert" /\ Goto(p, "upUndo", [r EXCEPT !.how = "failed"])
        \/ \E how, a : Answer(p, how, a)
        \/ BackfillDone(p, TRUE)
    BY <1>2 DEF StatementFails
  <2>5. QED
    BY <2>2, <2>3, <2>4
<1>3. CASE OriginalNotSaved(p)
  <2>1. Quiet(p) /\ UNCHANGED rows /\ r.pc \notin Making \cup Purging
    BY <1>0, <1>3, QuietAnswer DEF OriginalNotSaved, Making, Filling, Purging
  <2>2. PICK a \in Ids \ issued :
            /\ issued' = issued \cup {a}
            /\ originals' \in {originals, [originals EXCEPT ![a] = "partial"]}
    BY <1>3 DEF OriginalNotSaved
  <2>3. \A f \in Ids \ {a} : originals'[f] = originals[f]
    BY <1>0, <2>2 DEF TypeOK
  <2>4. QED
    BY <2>1, <2>2, <2>3, DrawKeeps DEF Quiet
<1>4. CASE ThumbnailNotSaved(p)
  <2>1. UNCHANGED <<rows, originals, issued>>
    BY <1>4 DEF ThumbnailNotSaved
  <2>2. CASE r.pc = "upThumb" /\ Goto(p, "upPreview", r)
    BY <1>0, <2>1, <2>2, FillKeeps DEF Filling, Making
  <2>3. CASE Answer(p, "served", r.target)
    <3>1. Quiet(p)
      BY <1>0, <2>3, QuietAnswer
    <3>2. QED
      BY <2>1, <3>1, QuietKeeps DEF SameAssets
  <2>4. QED
    BY <1>4, <2>2, <2>3 DEF ThumbnailNotSaved
<1>5. CASE PreviewNotSaved(p)
  <2>1. UNCHANGED <<rows, originals, issued>>
    BY <1>5 DEF PreviewNotSaved
  <2>2. CASE r.pc = "upPreview" /\ Goto(p, "upInsert", r)
    BY <1>0, <2>1, <2>2, FillKeeps DEF Filling, Making
  <2>3. CASE BackfillDone(p, TRUE)
    <3>1. Quiet(p)
      BY <1>0, <2>3, QuietDone
    <3>2. QED
      BY <2>1, <3>1, QuietKeeps DEF SameAssets
  <2>4. QED
    BY <1>5, <2>2, <2>3 DEF PreviewNotSaved
<1>6. CASE UnlinkFails(p)
  <2>1. CASE At(p, "upUndo")
    BY <1>6, <2>1, UndoKeeps
  <2>2. CASE ~At(p, "upUndo")
    <3>1. Answer(p, "failed", r.target) /\ UNCHANGED <<rows, originals, issued>>
      BY <1>6, <2>2 DEF UnlinkFails
    <3>2. Quiet(p)
      BY <1>0, <3>1, QuietAnswer
    <3>3. QED
      BY <3>1, <3>2, QuietKeeps DEF SameAssets
  <2>3. QED
    BY <2>1, <2>2
<1>7. CASE Die(p)
  <2>1. Quiet(p)
    BY <1>0, <1>7 DEF Die, TypeOK, Quiet, OthersKeep, Idle, Making, Filling, Purging
  <2>2. QED
    BY <1>7, <2>1, QuietKeeps DEF Die, SameAssets
<1>8. QED
  BY <1>1, <1>2, <1>3, <1>4, <1>5, <1>6, <1>7 DEF FaultStep

LEMMA RestKeeps ==
    ASSUME LibInv, TypeInv', Midnight \/ UNCHANGED vars \/ \E p \in Procs : Respond(p)
    PROVE  LibInv'
<1>1. CASE Midnight \/ UNCHANGED vars
  <2>1. UNCHANGED <<rows, originals, issued, req>>
    BY <1>1 DEF Midnight, vars
  <2>2. QED
    BY <2>1 DEF LibInv, IssuedOK, LiveOriginals, MakingOK, FillingOK, PurgingOK,
                Exists, StoragePath
<1>2. ASSUME NEW p \in Procs, Respond(p)
      PROVE  LibInv'
  <2>1. Quiet(p)
    BY <1>2 DEF Respond, LibInv, TypeInv, TypeOK, Quiet, OthersKeep, Idle,
                Making, Filling, Purging
  <2>2. QED
    BY <1>2, <2>1, QuietKeeps DEF Respond, stored, SameAssets
<1>3. QED
  BY <1>1, <1>2

\* A history starts with the legacy rows and their files.
LEMMA InitKeeps == Init => LibInv
<1> SUFFICES ASSUME Init PROVE LibInv
  OBVIOUS
<1>1. TypeInv
  BY InitType
<1>2. \A p \in Procs : req[p].pc = "idle"
  BY DEF Init, Idle
<1>3. MakingOK /\ FillingOK /\ PurgingOK
  BY <1>2 DEF MakingOK, FillingOK, PurgingOK, Making, Filling, Purging
<1>4. \A a \in Ids : /\ Exists(a) <=> a \in Legacy
                     /\ a \in Legacy => rows[a].content = LegacyContent[a]
  BY DEF Init, Exists, NoRow
<1>5. issued = Legacy
  BY DEF Init
<1>6. IssuedOK
  BY <1>4, <1>5 DEF IssuedOK
<1>7. LiveOriginals
  <2>1. SUFFICES ASSUME NEW a \in Legacy
                 PROVE  originals[LegacyPath[a]] = LegacyContent[a]
    BY <1>4, LegacyAssumption DEF LiveOriginals, StoragePath
  <2> DEFINE f == LegacyPath[a]
             b == CHOOSE b \in Legacy : LegacyPath[b] = f
  <2>2. b \in Legacy /\ LegacyPath[b] = f
    OBVIOUS
  <2>3. originals[f] = LegacyContent[b]
    BY LegacyAssumption DEF Init
  <2>4. QED
    BY <2>2, <2>3, LegacyAssumption
<1>8. QED
  BY <1>1, <1>3, <1>6, <1>7 DEF LibInv

LEMMA NextKeeps ==
    ASSUME UniquePaths, ~AckLoss
    PROVE  LibInv /\ [Next]_vars => LibInv'
<1> SUFFICES ASSUME LibInv, [Next]_vars PROVE LibInv'
  OBVIOUS
<1>1. TypeInv'
  BY NextType DEF LibInv
<1>2. ASSUME NEW p \in Procs, Step(p) PROVE LibInv'
  BY <1>1, <1>2, UploadKeeps, TrashKeeps, DerivedKeeps, RestKeeps DEF Step
<1>3. ASSUME NEW p \in Procs, Start(p) \/ FaultStep(p) PROVE LibInv'
  BY <1>1, <1>3, StartKeeps, FaultKeeps
<1>4. CASE UNCHANGED vars
  BY <1>1, <1>4, RestKeeps
<1>5. QED
  BY <1>1, <1>2, <1>3, <1>4, RestKeeps DEF Next

\* No data loss: however many requests run side by side, whichever of their
\* reads, statements and file operations fail and wherever they die, the
\* original of every asset that has a row is in the store, whole. Without
\* either of the two assumptions it is false: of two rows that share a file, one
\* may lose it to a purge of the other (service.go:213-238; run shared_file),
\* and an INSERT that was committed though it reported an error loses the files
\* of its row to the clean-up (service.go:116-124).
THEOREM NoDataLoss ==
    ASSUME UniquePaths, ~AckLoss
    PROVE  Spec => []LiveOriginals
<1>1. LibInv => LiveOriginals
  BY DEF LibInv
<1>2. QED
  BY <1>1, InitKeeps, NextKeeps, PTL DEF Spec

-----------------------------------------------------------------------------
(* No active asset is removed. Every statement is guarded on its own, so types *)
(* are enough: that an upload only ever inserts an active row is one of them.  *)

\* A statement that keeps the assets, or runs not at all, spares active ones.
LEMMA SameSpares ==
    ASSUME SameAssets(rows')
    PROVE  \A a \in Ids : Active(a) => Exists(a)'
BY DEF SameAssets, Active, Exists

\* So do an INSERT, which finds no row or replaces it by an active one, and a
\* DELETE, which takes rows of the trash only.
LEMMA SaveSpares ==
    ASSUME TypeInv, NEW p \in Procs, At(p, "upInsert"),
           rows' = Save(req[p].target, req[p].asset)
    PROVE  \A a \in Ids : Active(a) => Exists(a)'
<1>1. req[p].asset.state = "active" /\ rows \in [Ids -> Row]
  BY Locals DEF At, Filling, TypeInv, TypeOK
<1>2. QED
  BY <1>1 DEF Save, Active, Exists

LEMMA DeleteSpares ==
    ASSUME TypeInv, NEW b, rows' = Delete(b)
    PROVE  \A a \in Ids : Active(a) => Exists(a)'
BY DEF TypeInv, TypeOK, Delete, DeleteOutcome, Active, Exists, NoRow

LEMMA StepSpares ==
    ASSUME TypeInv, NEW p \in Procs, Step(p)
    PROVE  \A a \in Ids : Active(a) => Exists(a)'
<1>0. TypeOK
  BY DEF TypeInv
<1>1. CASE UNCHANGED rows
  BY <1>1, SameSpares DEF SameAssets
<1>2. CASE UploadRestore(p) \/ UploadBackfill(p)
  BY <1>0, <1>2, StatementsKeep, SameSpares DEF UploadRestore, UploadBackfill
<1>3. CASE DeleteMark(p) \/ RestoreMark(p)
  BY <1>0, <1>3, StatementsKeep, SameSpares DEF DeleteMark, RestoreMark
<1>4. CASE ThumbnailRecord(p) \/ BackfillRecord(p)
  BY <1>0, <1>4, StatementsKeep, SameSpares DEF ThumbnailRecord, BackfillRecord
<1>5. CASE UploadInsert(p)
  BY <1>5, SaveSpares DEF UploadInsert
<1>6. CASE PurgeRow(p)
  BY <1>6, DeleteSpares DEF PurgeRow
<1>7. UploadStep(p) => \/ UNCHANGED rows
                       \/ UploadRestore(p) \/ UploadBackfill(p) \/ UploadInsert(p)
  BY DEF UploadStep, UploadFind, UploadFindTrash, UploadLegacy, UploadProbe,
         UploadStore, UploadThumb, UploadPreview, UploadUndo, UploadRefind, stored
<1>8. TrashStep(p) => \/ UNCHANGED rows
                      \/ DeleteMark(p) \/ RestoreMark(p) \/ PurgeRow(p)
  BY DEF TrashStep, DeleteFind, RestoreFind, EmptyList, EmptyNext, PurgeFind,
         PurgeCount, PurgeThumb, PurgePreview, PurgeOriginal, stored
<1>9. DerivedStep(p) => UNCHANGED rows \/ ThumbnailRecord(p) \/ BackfillRecord(p)
  BY DEF DerivedStep, DownloadFind, DownloadOpen, PreviewFind, PreviewOpen,
         ThumbnailFind, ThumbnailOpen, ThumbnailGenerate, ThumbnailCreate,
         ThumbnailWrite, BackfillList, BackfillNext, BackfillFind,
         BackfillGenerate, BackfillCreate, BackfillWrite, FindThen, stored
<1>10. Respond(p) => UNCHANGED rows
  BY DEF Respond, stored
<1>11. QED
  BY <1>1, <1>2, <1>3, <1>4, <1>5, <1>6, <1>7, <1>8, <1>9, <1>10 DEF Step

LEMMA FaultSpares ==
    ASSUME TypeInv, NEW p \in Procs, FaultStep(p)
    PROVE  \A a \in Ids : Active(a) => Exists(a)'
<1> DEFINE a == req[p].target
<1>0. TypeOK
  BY DEF TypeInv
<1>1. CASE UNCHANGED rows
  BY <1>1, SameSpares DEF SameAssets
<1>2. CASE StatementFails(p) /\ rows' = Executed(p)
  <2>1. req[p].pc \in {"upRestore", "resMark", "upBackfill", "upInsert", "delMark",
                       "purRow", "thRecord", "bfRecord"}
    BY <1>2 DEF StatementFails, At
  <2>2. CASE req[p].pc = "upInsert"
    BY <1>2, <2>2, SaveSpares DEF Executed, At
  <2>3. CASE req[p].pc = "purRow"
    BY <1>2, <2>3, DeleteSpares DEF Executed
  <2>4. CASE req[p].pc \notin {"upInsert", "purRow"}
    <3>1. SameAssets(Executed(p))
      BY <1>0, <2>1, <2>4, StatementsKeep DEF Executed
    <3>2. QED
      BY <1>2, <3>1, SameSpares
  <2>5. QED
    BY <2>2, <2>3, <2>4
<1>3. ASSUME StatementFails(p) PROVE rows' = rows \/ rows' = Executed(p)
  BY <1>3 DEF StatementFails
<1>4. FaultStep(p) => StatementFails(p) \/ UNCHANGED rows
  BY DEF FaultStep, ReadFails, OriginalNotSaved, ThumbnailNotSaved,
         PreviewNotSaved, UnlinkFails, Die, stored
<1>5. QED
  BY <1>1, <1>2, <1>3, <1>4

LEMMA NextSpares ==
    TypeInv /\ [Next]_vars => [\A a \in Ids : Active(a) => Exists(a)']_vars
<1> SUFFICES ASSUME TypeInv, Next
             PROVE  \A a \in Ids : Active(a) => Exists(a)'
  OBVIOUS
<1>1. ASSUME NEW p \in Procs, Start(p) PROVE UNCHANGED rows
  BY <1>1 DEF Start, StartUpload, StartDelete, StartRestore, StartPurge,
              StartEmptyTrash, StartDownload, StartPreview, StartThumbnail,
              StartTrashThumbnail, StartBackfill, StartOn, stored
<1>2. CASE UNCHANGED rows
  BY <1>2, SameSpares DEF SameAssets
<1>3. Midnight => UNCHANGED rows
  BY DEF Midnight
<1>4. QED
  BY <1>1, <1>2, <1>3, StepSpares, FaultSpares DEF Next

\* No step takes an active asset's row away, however stale what a purge has
\* read, also when files are shared, statements fail and answers are lost.
THEOREM ActiveSpared == Spec => OnlyTrashIsPurged
BY InitType, NextType, NextSpares, PTL DEF Spec, OnlyTrashIsPurged
=============================================================================
