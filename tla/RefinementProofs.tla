-------------------------- MODULE RefinementProofs --------------------------
(***************************************************************************)
(* The media service implements the library of MediaLibrary, for all       *)
(* values of the constants, as long as no two legacy rows share a file and *)
(* a statement that reports an error was not committed.                    *)
(***************************************************************************)
EXTENDS DedupProofs

-----------------------------------------------------------------------------
(* The library that a state of the service stands for, and what it takes for *)
(* a step of the service to be one of the library.                           *)

ServiceInv == LibInv /\ DedupInv

Statuses == [a \in Ids |-> StatusOf(a)]
OriginalsSeen == [a \in Ids |-> IF Exists(a) THEN originals[StoragePath(a)] ELSE Null]
Hashes == [a \in Ids |-> rows[a].hash]

\* What the library sees of b is the same after the step.
Same(b) ==
    /\ rows'[b].state = rows[b].state
    /\ rows'[b].content = rows[b].content
    /\ rows'[b].hash = rows[b].hash
    /\ rows[b].state = "none" => (Pending(b)' <=> Pending(b))

LEMMA Seen ==
    ASSUME ServiceInv
    PROVE  OriginalsSeen = [a \in Ids |-> IF Exists(a) THEN rows[a].content ELSE Null]
BY DEF ServiceInv, LibInv, LiveOriginals, OriginalsSeen

LEMMA SeenNext ==
    ASSUME ServiceInv'
    PROVE  OriginalsSeen' = [a \in Ids |-> IF rows'[a].state # "none"
                                           THEN rows'[a].content ELSE Null]
<1>1. \A a \in Ids : rows'[a].state # "none" =>
          originals'[StoragePath(a)] = rows'[a].content
  BY DEF ServiceInv, LibInv, LiveOriginals, Exists, StoragePath
<1>2. QED
  BY <1>1 DEF OriginalsSeen, Exists, StoragePath

\* Nothing has changed for the library.
LEMMA LibraryStutters ==
    ASSUME ServiceInv, ServiceInv', \A b \in Ids : Same(b)
    PROVE  UNCHANGED <<Statuses, OriginalsSeen, Hashes>>
<1>1. Statuses' = Statuses
  BY DEF Same, Statuses, StatusOf
<1>2. OriginalsSeen' = OriginalsSeen
  BY Seen, SeenNext DEF Same, Exists
<1>3. Hashes' = Hashes
  BY DEF Same, Hashes
<1>4. QED
  BY <1>1, <1>2, <1>3

\* Nothing has changed but the asset a.
LEMMA LibraryMoves ==
    ASSUME ServiceInv, ServiceInv', NEW a \in Ids, \A b \in Ids \ {a} : Same(b),
           NEW s, s = StatusOf(a)'
    PROVE  /\ Statuses' = [Statuses EXCEPT ![a] = s]
           /\ OriginalsSeen' = [OriginalsSeen EXCEPT
                  ![a] = IF rows'[a].state # "none" THEN rows'[a].content ELSE Null]
           /\ Hashes' = [Hashes EXCEPT ![a] = rows'[a].hash]
<1>1. Statuses' = [Statuses EXCEPT ![a] = s]
  BY DEF Same, Statuses, StatusOf
<1>2. OriginalsSeen' = [OriginalsSeen EXCEPT
          ![a] = IF rows'[a].state # "none" THEN rows'[a].content ELSE Null]
  BY Seen, SeenNext DEF Same, Exists
<1>3. Hashes' = [Hashes EXCEPT ![a] = rows'[a].hash]
  BY DEF Same, Hashes
<1>4. QED
  BY <1>1, <1>2, <1>3

\* The index on the hashes of active rows is the library's rule.
LEMMA NoTwin ==
    ASSUME NEW a \in Ids, NEW c, c # Null, ~HashTaken(a, c)
    PROVE  Library!NoLiveTwin(a, c)
BY DEF Library!NoLiveTwin, HashTaken, StatusOf

LibraryStep == [Library!Next]_(Library!libraryVars)

LEMMA StutterImplements ==
    ASSUME ServiceInv, ServiceInv', \A b \in Ids : Same(b)
    PROVE  LibraryStep
<1>1. UNCHANGED <<Statuses, OriginalsSeen, Hashes>>
  BY LibraryStutters
<1>2. UNCHANGED Library!libraryVars
  BY <1>1 DEF Library!libraryVars, Statuses, OriginalsSeen, Hashes
<1>3. QED
  BY <1>2 DEF LibraryStep

-----------------------------------------------------------------------------
(* Statements, run by a request that has drawn no id. *)

Aloof(p) ==
    /\ OthersKeep(p) /\ issued' = issued
    /\ req[p].pc \notin Filling /\ req'[p].pc \notin Filling

LEMMA AloofPending ==
    ASSUME NEW p \in Procs, Aloof(p)
    PROVE  \A b : Pending(b)' <=> Pending(b)
BY DEF Aloof, OthersKeep, Pending, Filling

LEMMA ReadImplements ==
    ASSUME ServiceInv, ServiceInv', NEW p \in Procs, Aloof(p), rows' = rows
    PROVE  LibraryStep
BY AloofPending, StutterImplements DEF Same

LEMMA PathImplements ==
    ASSUME ServiceInv, ServiceInv', NEW p \in Procs, Aloof(p), NEW a \in Ids, NEW d,
           \/ rows' = UpdateThumbnailStoragePath(a, d)
           \/ rows' = UpdatePreviewStoragePath(a, d)
    PROVE  LibraryStep
<1>1. rows \in [Ids -> Row]
  BY DEF ServiceInv, DedupInv, TypeInv, TypeOK
<1>2. \A b \in Ids : /\ rows'[b].state = rows[b].state
                     /\ rows'[b].content = rows[b].content /\ rows'[b].hash = rows[b].hash
  BY <1>1 DEF UpdateThumbnailStoragePath, UpdatePreviewStoragePath, Row
<1>3. QED
  BY <1>2, AloofPending, StutterImplements DEF Same

LEMMA TrashImplements ==
    ASSUME ServiceInv, ServiceInv', NEW p \in Procs, Aloof(p), NEW a \in Ids,
           rows' = SoftDelete(a)
    PROVE  LibraryStep
<1>1. rows \in [Ids -> Row]
  BY DEF ServiceInv, DedupInv, TypeInv, TypeOK
<1>2. CASE rows' = rows
  BY <1>2, ReadImplements
<1>3. CASE rows[a].state = "active" /\ rows' = [rows EXCEPT ![a].state = "trashed"]
  <2>1. /\ rows'[a].state = "trashed" /\ rows'[a].content = rows[a].content
        /\ rows'[a].hash = rows[a].hash
        /\ \A b \in Ids \ {a} : rows'[b] = rows[b]
    BY <1>1, <1>3 DEF Row
  <2>2. \A b \in Ids \ {a} : Same(b)
    BY <2>1, AloofPending DEF Same
  <2>3. StatusOf(a) = "live" /\ StatusOf(a)' = "trashed"
    BY <1>3, <2>1 DEF StatusOf
  <2>4. Statuses' = [Statuses EXCEPT ![a] = "trashed"]
        /\ OriginalsSeen' = [OriginalsSeen EXCEPT ![a] = rows[a].content]
        /\ Hashes' = [Hashes EXCEPT ![a] = rows[a].hash]
    BY <2>1, <2>2, <2>3, LibraryMoves
  <2>5. OriginalsSeen' = OriginalsSeen /\ Hashes' = Hashes
    BY <1>3, <2>4, Seen DEF Hashes, Exists
  <2>6. Library!Trash(a)
    BY <2>3, <2>4, <2>5 DEF Library!Trash, Statuses, OriginalsSeen, Hashes
  <2>7. QED
    BY <2>6 DEF Library!Next, LibraryStep
<1>4. QED
  BY <1>2, <1>3 DEF SoftDelete, SoftDeleteOutcome

LEMMA RestoreImplements ==
    ASSUME ServiceInv, ServiceInv', NEW p \in Procs, Aloof(p), NEW a \in Ids,
           rows' = Restore(a)
    PROVE  LibraryStep
<1>1. rows \in [Ids -> Row]
  BY DEF ServiceInv, DedupInv, TypeInv, TypeOK
<1>2. CASE rows' = rows
  BY <1>2, ReadImplements
<1>3. CASE RestoreOutcome(a) = "ok" /\ rows' = [rows EXCEPT ![a].state = "active"]
  <2>1. rows[a].state = "trashed" /\ ~HashTaken(a, rows[a].hash)
    BY <1>3 DEF RestoreOutcome
  <2>2. /\ rows'[a].state = "active" /\ rows'[a].content = rows[a].content
        /\ rows'[a].hash = rows[a].hash
        /\ \A b \in Ids \ {a} : rows'[b] = rows[b]
    BY <1>1, <1>3 DEF Row
  <2>3. \A b \in Ids \ {a} : Same(b)
    BY <2>2, AloofPending DEF Same
  <2>4. StatusOf(a) = "trashed" /\ StatusOf(a)' = "live"
    BY <2>1, <2>2 DEF StatusOf
  <2>5. Statuses' = [Statuses EXCEPT ![a] = "live"]
        /\ OriginalsSeen' = [OriginalsSeen EXCEPT ![a] = rows[a].content]
        /\ Hashes' = [Hashes EXCEPT ![a] = rows[a].hash]
    BY <2>2, <2>3, <2>4, LibraryMoves
  <2>6. OriginalsSeen' = OriginalsSeen /\ Hashes' = Hashes
    BY <2>1, <2>5, Seen DEF Hashes, Exists
  <2>7. rows[a].hash # Null => Library!NoLiveTwin(a, rows[a].hash)
    BY <2>1, NoTwin
  <2>8. Library!PutBack(a)
    BY <2>4, <2>5, <2>6, <2>7 DEF Library!PutBack, Statuses, OriginalsSeen, Hashes
  <2>9. QED
    BY <2>8 DEF Library!Next, LibraryStep
<1>4. QED
  BY <1>2, <1>3 DEF Restore

\* A legacy row, active or in the trash, is hashed.
LEMMA HashImplements ==
    ASSUME ServiceInv, ServiceInv', NEW p \in Procs, Aloof(p), NEW a \in Legacy,
           rows' = UpdateContentHash(a, LegacyContent[a])
    PROVE  LibraryStep
<1> DEFINE h == LegacyContent[a]
<1>1. rows \in [Ids -> Row] /\ a \in Ids /\ h # Null
  BY LegacyAssumption, ConstantsAssumption DEF ServiceInv, DedupInv, TypeInv, TypeOK
<1>2. CASE rows' = rows
  BY <1>2, ReadImplements
<1>3. CASE /\ rows[a].state # "none" /\ ~(rows[a].state = "active" /\ HashTaken(a, h))
           /\ rows' = [rows EXCEPT ![a].hash = h]
  <2>1. /\ rows'[a].state = rows[a].state /\ rows'[a].content = rows[a].content
        /\ rows'[a].hash = h
        /\ \A b \in Ids \ {a} : rows'[b] = rows[b]
    BY <1>1, <1>3 DEF Row
  <2>2. rows[a].content = h
    BY <1>1, <1>3 DEF ServiceInv, DedupInv, TableOK
  <2>3. \A b \in Ids \ {a} : Same(b)
    BY <2>1, AloofPending DEF Same
  <2>4. /\ StatusOf(a) \in {"live", "trashed"} /\ StatusOf(a)' = StatusOf(a)
        /\ StatusOf(a) = "live" => rows[a].state = "active"
    BY <1>1, <1>3, <2>1 DEF StatusOf, Row
  <2> PICK s \in {"live", "trashed"} : StatusOf(a) = s /\ StatusOf(a)' = s
    BY <2>4
  <2>5. Statuses' = [Statuses EXCEPT ![a] = s]
        /\ OriginalsSeen' = [OriginalsSeen EXCEPT ![a] = rows[a].content]
        /\ Hashes' = [Hashes EXCEPT ![a] = h]
    BY <1>1, <1>3, <2>1, <2>3, LibraryMoves
  <2>6. /\ Statuses' = Statuses
        /\ OriginalsSeen' = OriginalsSeen /\ OriginalsSeen[a] = h
    BY <1>1, <1>3, <2>2, <2>5, Seen DEF Statuses, Exists
  <2>7. StatusOf(a) = "live" => Library!NoLiveTwin(a, h)
    BY <1>1, <1>3, <2>4, NoTwin
  <2> HIDE DEF h
  <2>8. Library!Learn(a)
    BY <1>1, <2>4, <2>5, <2>6, <2>7 DEF Library!Learn, Statuses, OriginalsSeen, Hashes
  <2>9. QED
    BY <1>1, <2>8 DEF Library!Next, LibraryStep
<1>4. QED
  BY <1>2, <1>3 DEF UpdateContentHash

LEMMA PurgeImplements ==
    ASSUME ServiceInv, ServiceInv', NEW p \in Procs, Aloof(p), NEW a \in Ids,
           rows' = Delete(a)
    PROVE  LibraryStep
<1>1. rows \in [Ids -> Row]
  BY DEF ServiceInv, DedupInv, TypeInv, TypeOK
<1>2. CASE rows' = rows
  BY <1>2, ReadImplements
<1>3. CASE rows[a].state = "trashed" /\ rows' = [rows EXCEPT ![a] = NoRow]
  <2>1. /\ rows'[a].state = "none" /\ rows'[a].hash = Null
        /\ \A b \in Ids \ {a} : rows'[b] = rows[b]
    BY <1>1, <1>3 DEF NoRow
  <2>2. \A b \in Ids \ {a} : Same(b)
    BY <2>1, AloofPending DEF Same
  <2>3. ~Pending(a)
    <3>1. Exists(a) /\ a \in issued
      BY <1>3 DEF Exists, ServiceInv, DedupInv, IssuedOK
    <3>2. \A q \in Procs : req[q].pc \in Filling => req[q].target # a
      BY <3>1 DEF ServiceInv, DedupInv, OwnersOK
    <3>3. QED
      BY <3>1, <3>2 DEF Pending, Filling
  <2>4. ~Pending(a)'
    BY <2>3, AloofPending
  <2>5. StatusOf(a) = "trashed" /\ StatusOf(a)' = "gone"
    BY <1>3, <2>1, <2>4 DEF StatusOf
  <2>6. Statuses' = [Statuses EXCEPT ![a] = "gone"]
        /\ OriginalsSeen' = [OriginalsSeen EXCEPT ![a] = Null]
        /\ Hashes' = [Hashes EXCEPT ![a] = Null]
    BY <2>1, <2>2, <2>5, LibraryMoves
  <2>7. Library!Purge(a)
    BY <2>5, <2>6 DEF Library!Purge, Statuses, OriginalsSeen, Hashes
  <2>8. QED
    BY <2>7 DEF Library!Next, LibraryStep
<1>4. QED
  BY <1>2, <1>3 DEF Delete, DeleteOutcome

-----------------------------------------------------------------------------
(* Ids drawn, inserted and given up. *)

\* An id without a row that nobody will insert any more.
LEMMA AbandonImplements ==
    ASSUME ServiceInv, ServiceInv', rows' = rows, NEW a \in Ids,
           rows[a].state = "none", Pending(a), ~Pending(a)',
           \A b \in Ids \ {a} : Pending(b)' <=> Pending(b)
    PROVE  LibraryStep
<1>1. \A b \in Ids \ {a} : Same(b)
  BY DEF Same
<1>2. StatusOf(a) = "unborn" /\ StatusOf(a)' = "gone"
  BY DEF StatusOf
<1>3. Statuses' = [Statuses EXCEPT ![a] = "gone"]
      /\ OriginalsSeen' = [OriginalsSeen EXCEPT ![a] = Null]
      /\ Hashes' = [Hashes EXCEPT ![a] = rows[a].hash]
  BY <1>1, <1>2, LibraryMoves
<1>4. OriginalsSeen' = OriginalsSeen /\ Hashes' = Hashes
  BY <1>3, Seen DEF Hashes, Exists
<1>5. Library!Abandon(a)
  BY <1>2, <1>3, <1>4 DEF Library!Abandon, Statuses, OriginalsSeen, Hashes
<1>6. QED
  BY <1>5 DEF Library!Next, LibraryStep

\* What an upload in the making knows of its id.
LEMMA FillingOwns ==
    ASSUME ServiceInv, NEW p \in Procs, req[p].pc \in Filling
    PROVE  /\ req[p].target \in Ids /\ req[p].target \in issued
           /\ rows[req[p].target].state = "none"
           /\ Pending(req[p].target)
           /\ \A q \in Procs \ {p} :
                 req[q].pc \in Filling => req[q].target # req[p].target
BY Locals DEF ServiceInv, DedupInv, LocalsAllFit, LocalsFit, OwnersOK, Exists, Making,
              Filling, Pending, NeedsTarget

\* An upload gives up before its row is inserted.
LEMMA GivesUp ==
    ASSUME ServiceInv, ServiceInv', NEW p \in Procs, OthersKeep(p),
           req[p].pc \in Filling, req'[p].pc \notin Filling,
           rows' = rows, issued' = issued
    PROVE  LibraryStep
<1> PICK a \in Ids : a = req[p].target
  BY FillingOwns
<1>1. /\ a \in issued /\ rows[a].state = "none" /\ Pending(a)
      /\ \A q \in Procs \ {p} : req[q].pc \in Filling => req[q].target # a
  BY FillingOwns
<1>2. ~Pending(a)'
  BY <1>1 DEF OthersKeep, Pending, Filling
<1>3. \A b \in Ids \ {a} : Pending(b)' <=> Pending(b)
  BY DEF OthersKeep, Pending, Filling
<1>4. QED
  BY <1>1, <1>2, <1>3, AbandonImplements

\* An upload goes on in the making.
LEMMA GoesOn ==
    ASSUME ServiceInv, ServiceInv', NEW p \in Procs, OthersKeep(p),
           req[p].pc \in Filling, req'[p].pc \in Filling,
           req'[p].target = req[p].target, rows' = rows, issued' = issued
    PROVE  LibraryStep
<1>1. \A b : Pending(b)' <=> Pending(b)
  BY DEF OthersKeep, Pending, Filling
<1>2. QED
  BY <1>1, StutterImplements DEF Same

\* The row of an asset is inserted.
LEMMA InsertImplements ==
    ASSUME ServiceInv, ServiceInv', NEW p \in Procs, OthersKeep(p),
           req[p].pc = "upInsert", req'[p].pc \notin Filling,
           SaveOutcome(req[p].target, req[p].asset) = "ok",
           rows' = [rows EXCEPT ![req[p].target] = req[p].asset],
           issued' = issued
    PROVE  LibraryStep
<1>1. /\ req[p].pc \in Filling /\ req[p].pc \in Making /\ rows \in [Ids -> Row]
  BY DEF Filling, Making, ServiceInv, DedupInv, TypeInv, TypeOK
<1> PICK a, c : a = req[p].target /\ c = req[p].content
  BY <1>1, FillingOwns
<1>2. a \in Ids /\ rows[a].state = "none" /\ Pending(a)
  BY <1>1, FillingOwns
<1>3. /\ req[p].asset.state = "active" /\ req[p].asset.content = c
      /\ req[p].asset.hash = c /\ c \in Contents /\ c # Null
  BY <1>1, Locals, ConstantsAssumption
     DEF ServiceInv, DedupInv, LocalsAllFit, LocalsFit, NeedsContent
<1>4. /\ rows'[a].state = "active" /\ rows'[a].content = c /\ rows'[a].hash = c
      /\ \A b \in Ids \ {a} : rows'[b] = rows[b]
  BY <1>1, <1>2, <1>3
<1>5. \A b \in Ids \ {a} : Same(b)
  <2>1. \A b \in Ids \ {a} : Pending(b)' <=> Pending(b)
    BY DEF OthersKeep, Pending, Filling
  <2>2. QED
    BY <1>4, <2>1 DEF Same
<1>6. StatusOf(a) = "unborn" /\ StatusOf(a)' = "live"
  BY <1>2, <1>4 DEF StatusOf
<1>7. Statuses' = [Statuses EXCEPT ![a] = "live"]
      /\ OriginalsSeen' = [OriginalsSeen EXCEPT ![a] = c]
      /\ Hashes' = [Hashes EXCEPT ![a] = c]
  BY <1>2, <1>4, <1>5, <1>6, LibraryMoves
<1>8. Library!NoLiveTwin(a, c)
  BY <1>2, <1>3, NoTwin DEF SaveOutcome
<1>9. Library!Add(a, c)
  BY <1>2, <1>6, <1>7, <1>8 DEF Library!Add, Statuses, OriginalsSeen, Hashes
<1>10. QED
  BY <1>2, <1>3, <1>9 DEF Library!Next, LibraryStep

-----------------------------------------------------------------------------
(* Every action is a step of the library, or leaves it as it is. *)

LEMMA AloofGoto ==
    ASSUME TypeInv, TypeInv', NEW p \in Procs, NEW pc, NEW local, Goto(p, pc, local),
           req[p].pc \notin Filling, pc \notin Filling, issued' = issued
    PROVE  Aloof(p)
BY GotoFields DEF Aloof

LEMMA AloofAnswer ==
    ASSUME TypeInv, NEW p \in Procs, NEW how, NEW a, Answer(p, how, a),
           req[p].pc \notin Filling, issued' = issued
    PROVE  Aloof(p)
BY AnswerFields DEF Aloof, Filling

LEMMA AloofDone ==
    ASSUME TypeInv, TypeInv', NEW p \in Procs, NEW failed, BackfillDone(p, failed),
           req[p].pc \notin Filling, issued' = issued
    PROVE  Aloof(p)
BY AloofGoto DEF BackfillDone, Filling

\* An id is drawn for an upload that goes on, or for one that has failed.
LEMMA DrawImplements ==
    ASSUME ServiceInv, ServiceInv', NEW p \in Procs, OthersKeep(p), rows' = rows,
           req[p].pc = "upStore", NEW a \in Ids \ issued, issued' = issued \cup {a},
           \/ req'[p].pc \in Filling /\ req'[p].target = a
           \/ req'[p].pc \notin Filling
    PROVE  LibraryStep
<1>1. Pending(a) /\ rows[a].state = "none"
  BY DEF Pending, ServiceInv, DedupInv, IssuedOK, Exists
<1>2. \A b \in Ids \ {a} : Pending(b)' <=> Pending(b)
  BY DEF OthersKeep, Pending, Filling
<1>3. CASE req'[p].pc \in Filling /\ req'[p].target = a
  <2>1. Pending(a)'
    BY <1>3 DEF Pending, Filling
  <2>2. QED
    BY <1>1, <1>2, <2>1, StutterImplements DEF Same
<1>4. CASE req'[p].pc \notin Filling
  <2>1. \A q \in Procs : req[q].pc \in Filling => req[q].target # a
    BY DEF ServiceInv, DedupInv, LocalsAllFit, LocalsFit, Making
  <2>2. ~Pending(a)'
    BY <1>4, <2>1 DEF OthersKeep, Pending, Filling
  <2>3. QED
    BY <1>1, <1>2, <2>2, AbandonImplements
<1>5. QED
  BY <1>3, <1>4

LEMMA UploadStepImplements ==
    ASSUME ServiceInv, ServiceInv', NEW p \in Procs, UploadStep(p)
    PROVE  LibraryStep
<1> USE DEF At
<1> DEFINE r == req[p]
<1>0. /\ TypeInv /\ TypeInv' /\ r \in Request
      /\ r.pc \in NeedsTarget => r.target \in Ids
  BY Locals DEF ServiceInv, DedupInv
<1>1. CASE UploadFind(p)
  <2>1. rows' = rows /\ issued' = issued
    BY <1>1 DEF UploadFind, stored
  <2>2. Aloof(p)
    BY <1>0, <1>1, <2>1, AloofGoto, AloofAnswer, Zenon DEF UploadFind, Filling
  <2>3. QED
    BY <2>1, <2>2, ReadImplements
<1>2. CASE UploadFindTrash(p)
  <2>1. rows' = rows /\ issued' = issued
    BY <1>2 DEF UploadFindTrash, stored
  <2>2. Aloof(p)
    <3>1. \/ \E l : Goto(p, "upRestore", l) \/ Goto(p, "upLegacy", l)
          \/ \E a : Answer(p, "decision", a)
      BY <1>2, Zenon DEF UploadFindTrash
    <3>2. QED
      BY <1>0, <1>2, <2>1, <3>1, AloofGoto, AloofAnswer DEF UploadFindTrash, Filling
  <2>3. QED
    BY <2>1, <2>2, ReadImplements
<1>3. CASE UploadLegacy(p)
  <2>1. rows' = rows /\ issued' = issued
    BY <1>3 DEF UploadLegacy, stored
  <2>2. Aloof(p)
    <3>1. \E l : Goto(p, "upProbe", l)
      BY <1>3, Zenon DEF UploadLegacy
    <3>2. QED
      BY <1>0, <1>3, <2>1, <3>1, AloofGoto DEF UploadLegacy, Filling
  <2>3. QED
    BY <2>1, <2>2, ReadImplements
<1>4. CASE UploadProbe(p)
  <2>1. rows' = rows /\ issued' = issued
    BY <1>4 DEF UploadProbe, stored
  <2>2. Aloof(p)
    <3>1. \E l : \/ Goto(p, "upProbe", l) \/ Goto(p, "upBackfill", l)
                \/ Goto(p, "upStore", l)
      BY <1>4, Zenon DEF UploadProbe
    <3>2. QED
      BY <1>0, <1>4, <2>1, <3>1, AloofGoto DEF UploadProbe, Filling
  <2>3. QED
    BY <2>1, <2>2, ReadImplements
<1>5. CASE UploadUndo(p)
  <2>1. rows' = rows /\ issued' = issued
    BY <1>5 DEF UploadUndo, stored
  <2>2. Aloof(p)
    BY <1>0, <1>5, <2>1, AloofGoto, AloofAnswer, Zenon DEF UploadUndo, Filling
  <2>3. QED
    BY <2>1, <2>2, ReadImplements
<1>6. CASE UploadRefind(p)
  <2>1. rows' = rows /\ issued' = issued
    BY <1>6 DEF UploadRefind, stored
  <2>2. Aloof(p)
    BY <1>0, <1>6, <2>1, AloofAnswer, Zenon DEF UploadRefind, Filling
  <2>3. QED
    BY <2>1, <2>2, ReadImplements
<1>7. CASE UploadRestore(p)
  <2>1. issued' = issued /\ r.target \in Ids /\ rows' = Restore(r.target)
    BY <1>0, <1>7 DEF UploadRestore, NeedsTarget
  <2>2. Aloof(p)
    BY <1>0, <1>7, <2>1, AloofAnswer DEF UploadRestore, Filling
  <2>3. QED
    BY <2>1, <2>2, RestoreImplements
<1>8. CASE UploadBackfill(p)
  <2>1. /\ issued' = issued /\ r.target \in Legacy
        /\ rows' = UpdateContentHash(r.target, LegacyContent[r.target])
    BY <1>8 DEF UploadBackfill, ServiceInv, DedupInv, LocalsAllFit, LocalsFit
  <2>2. Aloof(p)
    BY <1>0, <1>8, <2>1, AloofGoto, AloofAnswer DEF UploadBackfill, Filling
  <2>3. QED
    BY <2>1, <2>2, HashImplements
<1>9. CASE UploadStore(p)
  <2>1. PICK a, l :
            /\ a \in Ids \ issued
            /\ issued' = issued \cup {a} /\ Goto(p, "upThumb", l) /\ l.target = a
    <3>1. PICK a \in Ids \ issued :
              /\ issued' = issued \cup {a}
              /\ Goto(p, "upThumb",
                      [r EXCEPT !.target = a,
                         !.asset = [state |-> "active", content |-> r.content,
                                    hash |-> r.content, thumb |-> NoPath,
                                    preview |-> NoPath]])
      BY <1>9 DEF UploadStore
    <3>2. \A x : [r EXCEPT !.target = a, !.asset = x].target = a
      BY <1>0 DEF Request
    <3>3. QED
      BY <3>1, <3>2
  <2>2. rows' = rows /\ r.pc = "upStore"
    BY <1>9 DEF UploadStore
  <2>3. OthersKeep(p) /\ req'[p].pc \in Filling /\ req'[p].target = a
    BY <1>0, <2>1, GotoFields DEF Filling
  <2>4. QED
    BY <2>1, <2>2, <2>3, DrawImplements
<1>10. CASE UploadThumb(p) \/ UploadPreview(p)
  <2>1. /\ rows' = rows /\ issued' = issued /\ r.pc \in Filling
        /\ \E pc \in Filling : \E l : Goto(p, pc, l) /\ l.target = r.target
    <3>1. \A d : /\ [r EXCEPT !.asset.thumb = d].target = r.target
                 /\ [r EXCEPT !.asset.preview = d].target = r.target
      BY <1>0 DEF Request
    <3>2. QED
      BY <1>10, <3>1 DEF UploadThumb, UploadPreview, Filling
  <2>2. OthersKeep(p) /\ req'[p].pc \in Filling /\ req'[p].target = r.target
    BY <1>0, <2>1, GotoFields
  <2>3. QED
    BY <2>1, <2>2, GoesOn
<1>11. CASE UploadInsert(p)
  <2>1. /\ r.pc = "upInsert" /\ r.pc \in Filling /\ issued' = issued
        /\ rows' = Save(r.target, r.asset)
    BY <1>11 DEF UploadInsert, Filling
  <2>2. OthersKeep(p) /\ req'[p].pc \notin Filling
    BY <1>0, <1>11, GotoFields, AnswerFields DEF UploadInsert, Filling
  <2>3. CASE SaveOutcome(r.target, r.asset) = "ok"
    BY <2>1, <2>2, <2>3, InsertImplements DEF Save
  <2>4. CASE SaveOutcome(r.target, r.asset) # "ok"
    BY <2>1, <2>2, <2>4, GivesUp DEF Save
  <2>5. QED
    BY <2>3, <2>4
<1>12. QED
  BY <1>1, <1>2, <1>3, <1>4, <1>5, <1>6, <1>7, <1>8, <1>9, <1>10, <1>11
     DEF UploadStep

LEMMA TrashStepImplements ==
    ASSUME ServiceInv, ServiceInv', NEW p \in Procs, TrashStep(p)
    PROVE  LibraryStep
<1> USE DEF At
<1>0. TypeInv /\ TypeInv'
  BY DEF ServiceInv, DedupInv
<1>1. CASE DeleteFind(p)
  <2>1. Aloof(p)
    BY <1>0, <1>1, AloofGoto, AloofAnswer DEF DeleteFind, stored, Filling
  <2>2. rows' = rows
    BY <1>1 DEF DeleteFind, stored
  <2>3. QED
    BY <2>1, <2>2, ReadImplements
<1>2. CASE DeleteMark(p)
  <2>1. Aloof(p)
    BY <1>0, <1>2, AloofAnswer DEF DeleteMark, stored, Filling
  <2>2. req[p].target \in Ids /\ rows' = SoftDelete(req[p].target)
    BY <1>0, <1>2, Locals DEF DeleteMark, NeedsTarget
  <2>3. QED
    BY <2>1, <2>2, TrashImplements
<1>3. CASE RestoreFind(p)
  <2>1. Aloof(p)
    BY <1>0, <1>3, AloofGoto, AloofAnswer DEF RestoreFind, stored, Filling
  <2>2. rows' = rows
    BY <1>3 DEF RestoreFind, stored
  <2>3. QED
    BY <2>1, <2>2, ReadImplements
<1>4. CASE RestoreMark(p)
  <2>1. Aloof(p)
    BY <1>0, <1>4, AloofAnswer DEF RestoreMark, stored, Filling
  <2>2. req[p].target \in Ids /\ rows' = Restore(req[p].target)
    BY <1>0, <1>4, Locals DEF RestoreMark, NeedsTarget
  <2>3. QED
    BY <2>1, <2>2, RestoreImplements
<1>5. CASE EmptyList(p)
  <2>1. Aloof(p)
    BY <1>0, <1>5, AloofGoto DEF EmptyList, stored, Filling
  <2>2. rows' = rows
    BY <1>5 DEF EmptyList, stored
  <2>3. QED
    BY <2>1, <2>2, ReadImplements
<1>6. CASE EmptyNext(p)
  <2>1. Aloof(p)
    <3>1. /\ \/ \E local : Goto(p, "purFind", local)
             \/ Answer(p, "ok", Null) \/ Answer(p, "failed", Null)
          /\ req[p].pc \notin Filling
      BY <1>6, Zenon DEF EmptyNext, Filling
    <3>2. issued' = issued
      BY <1>6 DEF EmptyNext, stored
    <3>3. QED
      BY <1>0, <3>1, <3>2, AloofGoto, AloofAnswer DEF Filling
  <2>2. rows' = rows
    BY <1>6 DEF EmptyNext, stored
  <2>3. QED
    BY <2>1, <2>2, ReadImplements
<1>7. CASE PurgeFind(p)
  <2>1. Aloof(p)
    BY <1>0, <1>7, AloofGoto, AloofAnswer DEF PurgeFind, stored, Filling
  <2>2. rows' = rows
    BY <1>7 DEF PurgeFind, stored
  <2>3. QED
    BY <2>1, <2>2, ReadImplements
<1>8. CASE PurgeCount(p)
  <2>1. Aloof(p)
    BY <1>0, <1>8, AloofGoto DEF PurgeCount, stored, Filling
  <2>2. rows' = rows
    BY <1>8 DEF PurgeCount, stored
  <2>3. QED
    BY <2>1, <2>2, ReadImplements
<1>9. CASE PurgeRow(p)
  <2>1. Aloof(p)
    BY <1>0, <1>9, AloofGoto, AloofAnswer DEF PurgeRow, stored, Filling
  <2>2. req[p].target \in Ids /\ rows' = Delete(req[p].target)
    BY <1>0, <1>9, Locals DEF PurgeRow, NeedsTarget
  <2>3. QED
    BY <2>1, <2>2, PurgeImplements
<1>10. CASE PurgeThumb(p)
  <2>1. Aloof(p)
    BY <1>0, <1>10, AloofGoto DEF PurgeThumb, stored, Filling
  <2>2. rows' = rows
    BY <1>10 DEF PurgeThumb, stored
  <2>3. QED
    BY <2>1, <2>2, ReadImplements
<1>11. CASE PurgePreview(p)
  <2>1. Aloof(p)
    BY <1>0, <1>11, AloofGoto DEF PurgePreview, stored, Filling
  <2>2. rows' = rows
    BY <1>11 DEF PurgePreview, stored
  <2>3. QED
    BY <2>1, <2>2, ReadImplements
<1>12. CASE PurgeOriginal(p)
  <2>1. Aloof(p)
    BY <1>0, <1>12, AloofGoto, AloofAnswer DEF PurgeOriginal, stored, Filling
  <2>2. rows' = rows
    BY <1>12 DEF PurgeOriginal, stored
  <2>3. QED
    BY <2>1, <2>2, ReadImplements
<1>13. QED
  BY <1>1, <1>2, <1>3, <1>4, <1>5, <1>6, <1>7, <1>8, <1>9, <1>10, <1>11, <1>12
     DEF TrashStep

LEMMA DerivedStepImplements ==
    ASSUME ServiceInv, ServiceInv', NEW p \in Procs, DerivedStep(p)
    PROVE  LibraryStep
<1> USE DEF At
<1>0. TypeInv /\ TypeInv'
  BY DEF ServiceInv, DedupInv
<1>1. CASE DownloadFind(p)
  <2>1. Aloof(p)
    BY <1>0, <1>1, AloofGoto, AloofAnswer DEF DownloadFind, FindThen, stored, Filling
  <2>2. rows' = rows
    BY <1>1 DEF DownloadFind, FindThen, stored
  <2>3. QED
    BY <2>1, <2>2, ReadImplements
<1>2. CASE DownloadOpen(p)
  <2>1. Aloof(p)
    BY <1>0, <1>2, AloofAnswer DEF DownloadOpen, stored, Filling
  <2>2. rows' = rows
    BY <1>2 DEF DownloadOpen, stored
  <2>3. QED
    BY <2>1, <2>2, ReadImplements
<1>3. CASE PreviewFind(p)
  <2>1. Aloof(p)
    BY <1>0, <1>3, AloofGoto, AloofAnswer DEF PreviewFind, FindThen, stored, Filling
  <2>2. rows' = rows
    BY <1>3 DEF PreviewFind, FindThen, stored
  <2>3. QED
    BY <2>1, <2>2, ReadImplements
<1>4. CASE PreviewOpen(p)
  <2>1. Aloof(p)
    BY <1>0, <1>4, AloofAnswer DEF PreviewOpen, stored, Filling
  <2>2. rows' = rows
    BY <1>4 DEF PreviewOpen, stored
  <2>3. QED
    BY <2>1, <2>2, ReadImplements
<1>5. CASE ThumbnailFind(p)
  <2>1. Aloof(p)
    BY <1>0, <1>5, AloofGoto, AloofAnswer DEF ThumbnailFind, FindThen, stored, Filling
  <2>2. rows' = rows
    BY <1>5 DEF ThumbnailFind, FindThen, stored
  <2>3. QED
    BY <2>1, <2>2, ReadImplements
<1>6. CASE ThumbnailOpen(p)
  <2>1. Aloof(p)
    BY <1>0, <1>6, AloofGoto, AloofAnswer DEF ThumbnailOpen, stored, Filling
  <2>2. rows' = rows
    BY <1>6 DEF ThumbnailOpen, stored
  <2>3. QED
    BY <2>1, <2>2, ReadImplements
<1>7. CASE ThumbnailGenerate(p)
  <2>1. Aloof(p)
    BY <1>0, <1>7, AloofGoto, AloofAnswer DEF ThumbnailGenerate, stored, Filling
  <2>2. rows' = rows
    BY <1>7 DEF ThumbnailGenerate, stored
  <2>3. QED
    BY <2>1, <2>2, ReadImplements
<1>8. CASE ThumbnailCreate(p)
  <2>1. Aloof(p)
    BY <1>0, <1>8, AloofGoto DEF ThumbnailCreate, stored, Filling
  <2>2. rows' = rows
    BY <1>8 DEF ThumbnailCreate, stored
  <2>3. QED
    BY <2>1, <2>2, ReadImplements
<1>9. CASE ThumbnailWrite(p)
  <2>1. Aloof(p)
    BY <1>0, <1>9, AloofGoto DEF ThumbnailWrite, stored, Filling
  <2>2. rows' = rows
    BY <1>9 DEF ThumbnailWrite, stored
  <2>3. QED
    BY <2>1, <2>2, ReadImplements
<1>10. CASE ThumbnailRecord(p)
  <2>1. Aloof(p)
    BY <1>0, <1>10, AloofAnswer DEF ThumbnailRecord, stored, Filling
  <2>2. /\ req[p].target \in Ids
        /\ rows' = UpdateThumbnailStoragePath(req[p].target, req[p].asset.thumb)
    BY <1>0, <1>10, Locals DEF ThumbnailRecord, NeedsTarget
  <2>3. QED
    BY <2>1, <2>2, PathImplements
<1>11. CASE BackfillList(p)
  <2>1. Aloof(p)
    BY <1>0, <1>11, AloofGoto DEF BackfillList, stored, Filling
  <2>2. rows' = rows
    BY <1>11 DEF BackfillList, stored
  <2>3. QED
    BY <2>1, <2>2, ReadImplements
<1>12. CASE BackfillNext(p)
  <2>1. Aloof(p)
    <3>1. /\ \/ \E local : Goto(p, "bfFind", local)
             \/ Answer(p, "ok", Null) \/ Answer(p, "failed", Null)
          /\ req[p].pc \notin Filling
      BY <1>12, Zenon DEF BackfillNext, Filling
    <3>2. issued' = issued
      BY <1>12 DEF BackfillNext, stored
    <3>3. QED
      BY <1>0, <3>1, <3>2, AloofGoto, AloofAnswer DEF Filling
  <2>2. rows' = rows
    BY <1>12 DEF BackfillNext, stored
  <2>3. QED
    BY <2>1, <2>2, ReadImplements
<1>13. CASE BackfillFind(p)
  <2>1. Aloof(p)
    <3>1. (\E l : Goto(p, "bfGenerate", l)) \/ BackfillDone(p, TRUE)
      BY <1>13, Zenon DEF BackfillFind
    <3>2. QED
      BY <1>0, <1>13, <3>1, AloofGoto, AloofDone DEF BackfillFind, stored, Filling
  <2>2. rows' = rows
    BY <1>13 DEF BackfillFind, stored
  <2>3. QED
    BY <2>1, <2>2, ReadImplements
<1>14. CASE BackfillGenerate(p)
  <2>1. Aloof(p)
    BY <1>0, <1>14, AloofGoto, AloofDone DEF BackfillGenerate, stored, Filling
  <2>2. rows' = rows
    BY <1>14 DEF BackfillGenerate, stored
  <2>3. QED
    BY <2>1, <2>2, ReadImplements
<1>15. CASE BackfillCreate(p)
  <2>1. Aloof(p)
    BY <1>0, <1>15, AloofGoto DEF BackfillCreate, stored, Filling
  <2>2. rows' = rows
    BY <1>15 DEF BackfillCreate, stored
  <2>3. QED
    BY <2>1, <2>2, ReadImplements
<1>16. CASE BackfillWrite(p)
  <2>1. Aloof(p)
    BY <1>0, <1>16, AloofGoto DEF BackfillWrite, stored, Filling
  <2>2. rows' = rows
    BY <1>16 DEF BackfillWrite, stored
  <2>3. QED
    BY <2>1, <2>2, ReadImplements
<1>17. CASE BackfillRecord(p)
  <2>1. Aloof(p)
    BY <1>0, <1>17, AloofDone DEF BackfillRecord, stored, Filling
  <2>2. /\ req[p].target \in Ids
        /\ rows' = UpdatePreviewStoragePath(req[p].target, req[p].asset.preview)
    BY <1>0, <1>17, Locals DEF BackfillRecord, NeedsTarget
  <2>3. QED
    BY <2>1, <2>2, PathImplements
<1>18. QED
  BY <1>1, <1>2, <1>3, <1>4, <1>5, <1>6, <1>7, <1>8, <1>9, <1>10,
     <1>11, <1>12, <1>13, <1>14, <1>15, <1>16, <1>17
     DEF DerivedStep

LEMMA StartImplements ==
    ASSUME ServiceInv, ServiceInv', NEW p \in Procs, Start(p)
    PROVE  LibraryStep
<1>1. rows' = rows /\ issued' = issued
  BY DEF Start, StartUpload, StartDelete, StartRestore, StartPurge,
         StartEmptyTrash, StartDownload, StartPreview, StartThumbnail,
         StartTrashThumbnail, StartBackfill, StartOn, stored
<1>2. /\ req[p].pc = "idle"
      /\ \E kind, first, local : Begin(p, kind, first, local) /\ first \notin Filling
  <2>1. /\ \A first \in {"upFind", "answer", "delFind", "resFind", "purFind", "emptyList",
                         "dlFind", "pvFind", "thFind", "thTrashFind", "bfList"} :
              first \notin Filling
        /\ \A kind, first, local : Begin(p, kind, first, local) => req[p].pc = "idle"
    BY DEF Filling, Begin, At
  <2>2. \E kind, local :
            \E first \in {"upFind", "answer", "delFind", "resFind", "purFind", "emptyList",
                          "dlFind", "pvFind", "thFind", "thTrashFind", "bfList"} :
               Begin(p, kind, first, local)
    <3>1. CASE StartUpload(p)
      BY <3>1, Zenon DEF StartUpload
    <3>2. CASE StartEmptyTrash(p) \/ StartBackfill(p)
      BY <3>2, Zenon DEF StartEmptyTrash, StartBackfill
    <3>3. CASE ~(StartUpload(p) \/ StartEmptyTrash(p) \/ StartBackfill(p))
      BY <3>3, Zenon DEF Start, StartDelete, StartRestore, StartPurge, StartDownload,
                         StartPreview, StartThumbnail, StartTrashThumbnail, StartOn
    <3>4. QED
      BY <3>1, <3>2, <3>3
  <2>3. QED
    BY <2>1, <2>2, Zenon
<1>3. PICK kind, first, local : Begin(p, kind, first, local) /\ first \notin Filling
  BY <1>2
<1>4. req'[p] = [local EXCEPT !.op = kind, !.pc = first] /\ OthersKeep(p)
  BY <1>3 DEF ServiceInv, DedupInv, TypeInv, ReqOK, Begin, OthersKeep
<1>5. req'[p].pc = first
  <2>1. "pc" \in DOMAIN local
    BY <1>4 DEF ServiceInv, DedupInv, TypeInv, ReqOK, Request
  <2>2. QED
    BY <1>4, <2>1
<1>6. Aloof(p)
  BY <1>1, <1>2, <1>3, <1>4, <1>5 DEF Aloof, Filling
<1>7. QED
  BY <1>1, <1>6, ReadImplements

LEMMA FaultImplements ==
    ASSUME ServiceInv, ServiceInv', ~AckLoss, NEW p \in Procs, FaultStep(p)
    PROVE  LibraryStep
<1> USE DEF At
<1> DEFINE r == req[p]
<1>0. TypeInv /\ TypeInv' /\ req \in [Procs -> Request]
  BY DEF ServiceInv, DedupInv, TypeInv, ReqOK
<1>1. CASE ReadFails(p)
  <2>1. rows' = rows /\ issued' = issued
    BY <1>1 DEF ReadFails
  <2>2. Aloof(p)
    BY <1>0, <1>1, <2>1, AloofAnswer, AloofDone DEF ReadFails, Filling
  <2>3. QED
    BY <2>1, <2>2, ReadImplements
<1>2. CASE StatementFails(p)
  <2>1. rows' = rows /\ issued' = issued
    BY <1>2 DEF StatementFails
  <2>2. CASE r.pc = "upInsert"
    <3>1. r.pc \in Filling /\ OthersKeep(p) /\ req'[p].pc \notin Filling
      BY <1>0, <1>2, <2>2, GotoFields DEF StatementFails, Filling
    <3>2. QED
      BY <2>1, <3>1, GivesUp
  <2>3. CASE r.pc # "upInsert"
    <3>1. Aloof(p)
      BY <1>0, <1>2, <2>1, <2>3, AloofAnswer, AloofDone DEF StatementFails, Filling
    <3>2. QED
      BY <2>1, <3>1, ReadImplements
  <2>4. QED
    BY <2>2, <2>3
<1>3. CASE OriginalNotSaved(p)
  <2>1. PICK a \in Ids \ issued : issued' = issued \cup {a}
    BY <1>3 DEF OriginalNotSaved
  <2>2. /\ rows' = rows /\ r.pc = "upStore"
        /\ OthersKeep(p) /\ req'[p].pc \notin Filling
    BY <1>0, <1>3, AnswerFields DEF OriginalNotSaved, Filling
  <2>3. QED
    BY <2>1, <2>2, DrawImplements
<1>4. CASE ThumbnailNotSaved(p) \/ PreviewNotSaved(p)
  <2>1. rows' = rows /\ issued' = issued
    BY <1>4 DEF ThumbnailNotSaved, PreviewNotSaved
  <2>2. CASE r.pc \in Filling
    <3>1. \E pc \in Filling : Goto(p, pc, r)
      BY <1>4, <2>2 DEF ThumbnailNotSaved, PreviewNotSaved, Filling
    <3>2. OthersKeep(p) /\ req'[p].pc \in Filling /\ req'[p].target = r.target
      BY <1>0, <3>1, GotoFields
    <3>3. QED
      BY <2>1, <2>2, <3>2, GoesOn
  <2>3. CASE r.pc \notin Filling
    <3>1. Aloof(p)
      BY <1>0, <1>4, <2>1, <2>3, AloofAnswer, AloofDone
         DEF ThumbnailNotSaved, PreviewNotSaved, Filling
    <3>2. QED
      BY <2>1, <3>1, ReadImplements
  <2>4. QED
    BY <2>2, <2>3
<1>5. CASE UnlinkFails(p)
  <2>1. rows' = rows /\ issued' = issued
    BY <1>5 DEF UnlinkFails
  <2>2. Aloof(p)
    BY <1>0, <1>5, <2>1, AloofGoto, AloofAnswer, Zenon DEF UnlinkFails, Filling
  <2>3. QED
    BY <2>1, <2>2, ReadImplements
<1>6. CASE Die(p)
  <2>1. /\ rows' = rows /\ issued' = issued
        /\ OthersKeep(p) /\ req'[p].pc \notin Filling
    BY <1>0, <1>6 DEF Die, OthersKeep, Idle, Filling
  <2>2. CASE r.pc \in Filling
    BY <2>1, <2>2, GivesUp
  <2>3. CASE r.pc \notin Filling
    BY <2>1, <2>3, ReadImplements DEF Aloof
  <2>4. QED
    BY <2>2, <2>3
<1>7. QED
  BY <1>1, <1>2, <1>3, <1>4, <1>5, <1>6 DEF FaultStep

LEMMA RestImplements ==
    ASSUME ServiceInv, ServiceInv',
           Midnight \/ UNCHANGED vars \/ \E p \in Procs : Respond(p)
    PROVE  LibraryStep
<1>1. CASE Midnight \/ UNCHANGED vars
  <2>1. rows' = rows /\ issued' = issued /\ req' = req
    BY <1>1 DEF Midnight, vars
  <2>2. \A b \in Ids : Same(b)
    BY <2>1 DEF Same, Pending
  <2>3. QED
    BY <2>2, StutterImplements
<1>2. ASSUME NEW p \in Procs, Respond(p)
      PROVE  LibraryStep
  <2>1. rows' = rows
    BY <1>2 DEF Respond, stored
  <2>2. Aloof(p)
    BY <1>2 DEF Respond, stored, At, ServiceInv, DedupInv, TypeInv, TypeOK, Aloof,
                OthersKeep, Idle, Filling
  <2>3. QED
    BY <2>1, <2>2, ReadImplements
<1>3. QED
  BY <1>1, <1>2

-----------------------------------------------------------------------------
(* The theorem. *)

LEMMA ServiceSteps ==
    ASSUME UniquePaths, ~AckLoss, ServiceInv, [Next]_vars
    PROVE  ServiceInv' /\ LibraryStep
<1>1. ServiceInv'
  BY NextKeeps, NextFits DEF ServiceInv
<1>2. ASSUME NEW p \in Procs, Step(p) PROVE LibraryStep
  BY <1>1, <1>2, UploadStepImplements, TrashStepImplements, DerivedStepImplements,
     RestImplements
     DEF Step
<1>3. ASSUME NEW p \in Procs, Start(p) \/ FaultStep(p) PROVE LibraryStep
  BY <1>1, <1>3, StartImplements, FaultImplements
<1>4. CASE Midnight \/ UNCHANGED vars
  BY <1>1, <1>4, RestImplements
<1>5. QED
  BY <1>1, <1>2, <1>3, <1>4 DEF Next

LEMMA InitImplements ==
    ASSUME UniquePaths, Init
    PROVE  ServiceInv /\ Library!Init
<1>1. ServiceInv
  BY InitKeeps, InitFits DEF ServiceInv
<1>2. \A a \in Ids : /\ rows[a].hash = Null
                     /\ a \in Legacy => rows[a].state = "active"
                                        /\ rows[a].content = LegacyContent[a]
                     /\ a \notin Legacy => rows[a].state = "none" /\ a \notin issued
  BY DEF Init, NoRow
<1>3. \A a \in Ids : StatusOf(a) = IF a \in Legacy THEN "live" ELSE "unborn"
  BY <1>2 DEF StatusOf, Pending
<1>4. OriginalsSeen = [a \in Ids |-> IF a \in Legacy THEN LegacyContent[a] ELSE Null]
  BY <1>1, <1>2, Seen DEF Exists
<1>5. QED
  BY <1>1, <1>2, <1>3, <1>4 DEF Library!Init, OriginalsSeen

\* Every behaviour of the service, with its requests side by side and everything that
\* can fail below them, is one of the library it promises: assets are added once,
\* trashed, put back, purged from the trash only, and can be read unchanged
\* until then (service.go:50-290). Rows that share a file, and statements
\* committed without their caller learning it, are what the proof has to exclude.
THEOREM LibraryImplemented ==
    ASSUME UniquePaths, ~AckLoss
    PROVE  Spec => ImplementsLibrary
<1>1. Init => ServiceInv /\ Library!Init
  BY InitImplements
<1>2. ServiceInv /\ [Next]_vars => ServiceInv' /\ [Library!Next]_(Library!libraryVars)
  BY ServiceSteps DEF LibraryStep
<1>3. QED
  BY <1>1, <1>2, PTL DEF Spec, ImplementsLibrary, Library!Spec

\* What the library promises of an asset that is live, and stays so.
LEMMA LibraryKeepsLive ==
    ASSUME LibraryStep, NEW a \in Ids, Active(a), Active(a)'
    PROVE  OriginalsSeen'[a] = OriginalsSeen[a]
<1>1. Statuses[a] = "live"
  BY DEF Statuses, StatusOf, Active
<1>2. CASE UNCHANGED Library!libraryVars
  BY <1>2 DEF Library!libraryVars, OriginalsSeen
<1>3. ASSUME NEW b \in Ids, NEW c \in Contents, Library!Add(b, c)
      PROVE  OriginalsSeen'[a] = OriginalsSeen[a]
  BY <1>1, <1>3 DEF Library!Add, Statuses, OriginalsSeen
<1>4. ASSUME NEW b \in Ids, Library!Purge(b)
      PROVE  OriginalsSeen'[a] = OriginalsSeen[a]
  BY <1>1, <1>4 DEF Library!Purge, Statuses, OriginalsSeen
<1>5. ASSUME NEW b \in Ids,
             Library!Abandon(b) \/ Library!Learn(b) \/ Library!Trash(b) \/ Library!PutBack(b)
      PROVE  OriginalsSeen'[a] = OriginalsSeen[a]
  BY <1>5 DEF Library!Abandon, Library!Learn, Library!Trash, Library!PutBack, OriginalsSeen
<1>6. QED
  BY <1>2, <1>3, <1>4, <1>5 DEF LibraryStep, Library!Next

\* The file of an asset that is active and stays so is never touched, whatever else is
\* deleted, restored or purged meanwhile (service.go:207-243, README.md:106): the
\* promise that fails once two legacy rows share a file (the run shared_file).
THEOREM ActiveFilesKept ==
    ASSUME UniquePaths, ~AckLoss
    PROVE  Spec => ActiveKeepsFile
<1>1. Init => ServiceInv
  BY InitImplements
<1>2. ServiceInv /\ [Next]_vars => ServiceInv' /\ LibraryStep
  BY ServiceSteps
<1>3. ServiceInv /\ LibraryStep =>
          \A a \in Ids : Active(a) /\ Active(a)'
              => originals'[StoragePath(a)] = originals[StoragePath(a)]
  <2> SUFFICES ASSUME LibraryStep, NEW a \in Ids, Active(a), Active(a)'
               PROVE  originals'[StoragePath(a)] = originals[StoragePath(a)]
    OBVIOUS
  <2>1. Exists(a) /\ Exists(a)'
    BY DEF Active, Exists
  <2>2. OriginalsSeen'[a] = OriginalsSeen[a]
    BY LibraryKeepsLive
  <2>3. QED
    BY <2>1, <2>2 DEF OriginalsSeen, StoragePath
<1>4. QED
  BY <1>1, <1>2, <1>3, PTL DEF Spec, ActiveKeepsFile
=============================================================================
