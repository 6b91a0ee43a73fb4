---------------------------- MODULE DedupProofs ----------------------------
(***************************************************************************)
(* Deduplication, for all values of the constants and under every fault,   *)
(* lost answers and shared files included: no two active rows are hashed   *)
(* to one content, and an upload is answered with an asset of its own.     *)
(***************************************************************************)
EXTENDS MediaServiceProofs

-----------------------------------------------------------------------------
(* The inductive invariant. *)

\* A hash is the hash of the content; only legacy rows, whose content is fixed, have
\* none; no hash belongs to two active rows.
TableOK(table) ==
    /\ \A a \in Ids : table[a].hash # Null =>
          table[a].state # "none" /\ table[a].hash = table[a].content
    /\ \A a \in Ids : table[a].state # "none" =>
          /\ table[a].hash # Null \/ a \in Legacy
          /\ a \in Legacy => table[a].content = LegacyContent[a]
    /\ \A a, b \in Ids :
          /\ a # b /\ table[a].state = "active" /\ table[b].state = "active"
          /\ table[a].hash = table[b].hash
          => table[a].hash = Null

\* The file of a legacy row is as it was, or gone.
FilesOK == \A a \in Legacy : originals[LegacyPath[a]] \in {LegacyContent[a], "none"}

\* Answers that hand an asset over to the uploader.
Claimed == {"created", "existing", "restored", "decision"}

\* A candidate that is hashed is a legacy row; an upload that has drawn an id holds
\* what it is about to insert; its clean-up reports no success.
LocalsFit(r) ==
    /\ r.pc \in {"upProbe", "upBackfill"} => r.todo \subseteq Legacy
    /\ r.pc = "upBackfill" => r.target \in Legacy /\ r.hash = LegacyContent[r.target]
    /\ r.pc \in Making => /\ r.target \in issued \ Legacy
                          /\ r.asset.content = r.content /\ r.asset.hash = r.content
    /\ r.pc = "upUndo" => r.how \notin Claimed

\* An upload that has its files has an id without a row, and no other has the same.
OwnersOK ==
    \A p \in Procs : req[p].pc \in Filling =>
        /\ ~Exists(req[p].target)
        /\ \A q \in Procs \ {p} :
              req[q].pc \in Filling => req[q].target # req[p].target

\* An upload that has been given an asset, or is about to be, and an asset that
\* holds what it uploaded and never will hold anything else.
Claims(r) == r.pc = "upRestore" \/ (r.pc = "answer" /\ r.how \in Claimed)

Holds(a, c) ==
    /\ a \in issued
    /\ Exists(a) => rows[a].content = c
    /\ \A q \in Procs : req[q].pc \in Filling => req[q].target # a

ClaimsOK ==
    \A p \in Procs : Claims(req[p]) => Holds(req[p].target, req[p].content)

LocalsAllFit == \A p \in Procs : LocalsFit(req[p])

DedupInv ==
    /\ TypeInv /\ IssuedOK /\ TableOK(rows) /\ FilesOK
    /\ LocalsAllFit /\ OwnersOK /\ ClaimsOK

-----------------------------------------------------------------------------
(* Statements on rows that exist. *)

\* new is a proper table with no assets but those of the table, none of them changed.
Kept(new) ==
    /\ TableOK(new)
    /\ \A a \in Ids : new[a].state # "none" =>
          rows[a].state # "none" /\ new[a].content = rows[a].content

LEMMA StatementsProper ==
    ASSUME DedupInv, NEW a \in Ids
    PROVE  /\ Kept(rows)
           /\ \A d : Kept(UpdateThumbnailStoragePath(a, d))
           /\ \A d : Kept(UpdatePreviewStoragePath(a, d))
           /\ Kept(SoftDelete(a))
           /\ Kept(Restore(a))
           /\ Kept(Delete(a))
<1>1. rows \in [Ids -> Row] /\ TableOK(rows)
  BY DEF DedupInv, TypeInv, TypeOK
<1>2. Kept(rows)
  BY <1>1 DEF Kept
<1>3. ASSUME NEW d PROVE Kept(UpdateThumbnailStoragePath(a, d))
  <2> DEFINE new == [rows EXCEPT ![a].thumb = d]
  <2>1. \A b \in Ids : /\ new[b].state = rows[b].state
                       /\ new[b].content = rows[b].content /\ new[b].hash = rows[b].hash
    BY <1>1 DEF Row
  <2> HIDE DEF new
  <2>2. Kept(new)
    BY <1>1, <2>1 DEF Kept, TableOK
  <2>3. QED
    BY <1>2, <2>2 DEF UpdateThumbnailStoragePath, new
<1>4. ASSUME NEW d PROVE Kept(UpdatePreviewStoragePath(a, d))
  <2> DEFINE new == [rows EXCEPT ![a].preview = d]
  <2>1. \A b \in Ids : /\ new[b].state = rows[b].state
                       /\ new[b].content = rows[b].content /\ new[b].hash = rows[b].hash
    BY <1>1 DEF Row
  <2> HIDE DEF new
  <2>2. Kept(new)
    BY <1>1, <2>1 DEF Kept, TableOK
  <2>3. QED
    BY <1>2, <2>2 DEF UpdatePreviewStoragePath, new
<1>5. Kept(SoftDelete(a))
  <2> DEFINE new == [rows EXCEPT ![a].state = "trashed"]
  <2>1. ASSUME rows[a].state = "active" PROVE Kept(new)
    <3>1. /\ new[a].state = "trashed" /\ rows[a].state = "active"
          /\ \A b \in Ids \ {a} : new[b].state = rows[b].state
          /\ \A b \in Ids : new[b].content = rows[b].content /\ new[b].hash = rows[b].hash
      BY <1>1, <2>1 DEF Row
    <3> HIDE DEF new
    <3>2. QED
      BY <1>1, <3>1 DEF Kept, TableOK
  <2>2. QED
    BY <1>2, <2>1 DEF SoftDelete, SoftDeleteOutcome
<1>6. Kept(Restore(a))
  <2> DEFINE new == [rows EXCEPT ![a].state = "active"]
  <2>1. ASSUME RestoreOutcome(a) = "ok" PROVE Kept(new)
    <3>1. rows[a].state = "trashed" /\ ~HashTaken(a, rows[a].hash)
      BY <2>1 DEF RestoreOutcome
    <3>2. /\ new[a].state = "active"
          /\ \A b \in Ids \ {a} : new[b].state = rows[b].state
          /\ \A b \in Ids : new[b].content = rows[b].content /\ new[b].hash = rows[b].hash
      BY <1>1 DEF Row
    <3> HIDE DEF new
    <3>3. QED
      BY <1>1, <3>1, <3>2 DEF Kept, TableOK, HashTaken
  <2>2. QED
    BY <1>2, <2>1 DEF Restore
<1>7. Kept(Delete(a))
  <2> DEFINE new == [rows EXCEPT ![a] = NoRow]
  <2>1. /\ new[a].state = "none" /\ new[a].hash = Null
        /\ \A b \in Ids \ {a} : new[b] = rows[b]
    BY <1>1 DEF NoRow
  <2> HIDE DEF new
  <2>2. Kept(new)
    BY <1>1, <2>1 DEF Kept, TableOK
  <2>3. QED
    BY <1>2, <2>2 DEF Delete, new
<1>8. QED
  BY <1>2, <1>3, <1>4, <1>5, <1>6, <1>7

\* The hash of a legacy row is written back; the index keeps it unique.
LEMMA HashProper ==
    ASSUME DedupInv, NEW a \in Legacy
    PROVE  Kept(UpdateContentHash(a, LegacyContent[a]))
<1> DEFINE h == LegacyContent[a]
           new == [rows EXCEPT ![a].hash = h]
<1>1. rows \in [Ids -> Row] /\ TableOK(rows) /\ a \in Ids
  BY LegacyAssumption DEF DedupInv, TypeInv, TypeOK
<1>2. h # Null
  BY LegacyAssumption, ConstantsAssumption
<1>3. ASSUME rows[a].state # "none", ~(rows[a].state = "active" /\ HashTaken(a, h))
      PROVE  Kept(new)
  <2>1. /\ new[a].hash = h
        /\ \A b \in Ids \ {a} : new[b].hash = rows[b].hash
        /\ \A b \in Ids : new[b].content = rows[b].content /\ new[b].state = rows[b].state
    BY <1>1 DEF Row
  <2>2. rows[a].content = h
    BY <1>1, <1>3 DEF TableOK
  <2> HIDE DEF new, h
  <2>3. QED
    BY <1>1, <1>2, <1>3, <2>1, <2>2 DEF Kept, TableOK, HashTaken
<1>4. Kept(rows)
  BY <1>1 DEF Kept
<1>5. QED
  BY <1>3, <1>4 DEF UpdateContentHash

-----------------------------------------------------------------------------
(* Steps that leave every upload's claim alone. *)

\* A claim after a step; it stays true unless a new row is inserted under its id.
HoldsNext(a, c) ==
    /\ a \in issued'
    /\ rows'[a].state # "none" => rows'[a].content = c
    /\ \A q \in Procs : req'[q].pc \in Filling => req'[q].target # a

LEMMA HoldsKept ==
    ASSUME DedupInv, NEW p \in Procs, OthersKeep(p), Kept(rows'), issued \subseteq issued',
           NEW a, NEW c, Holds(a, c),
           req'[p].pc \in Filling =>
               \/ req[p].pc \in Filling /\ req'[p].target = req[p].target
               \/ req'[p].target \notin issued
    PROVE  HoldsNext(a, c)
<1>1. a \in Ids
  BY DEF Holds, DedupInv, TypeInv, TypeOK
<1>2. rows'[a].state # "none" => rows'[a].content = c
  BY <1>1 DEF Kept, Holds, Exists
<1>3. \A q \in Procs : req'[q].pc \in Filling => req'[q].target # a
  BY DEF Holds, OthersKeep
<1>4. QED
  BY <1>2, <1>3 DEF Holds, HoldsNext

\* A row that exists, and a legacy row whether it exists or not, keeps its content.
LEMMA HoldsRow ==
    ASSUME DedupInv, NEW a \in Ids, Exists(a)
    PROVE  Holds(a, rows[a].content)
BY DEF DedupInv, IssuedOK, OwnersOK, Holds

LEMMA HoldsLegacy ==
    ASSUME DedupInv, NEW a \in Legacy
    PROVE  Holds(a, LegacyContent[a])
<1>1. a \in Ids /\ a \in issued
  BY LegacyAssumption DEF DedupInv, IssuedOK
<1>2. Exists(a) => rows[a].content = LegacyContent[a]
  BY <1>1 DEF DedupInv, TableOK, Exists
<1>3. \A q \in Procs : req[q].pc \in Filling => req[q].target # a
  BY DEF DedupInv, LocalsAllFit, LocalsFit, Making
<1>4. QED
  BY <1>1, <1>2, <1>3 DEF Holds

\* A step of p that inserts no row, given what p has become.
LEMMA DedupFrame ==
    ASSUME DedupInv, TypeInv', NEW p \in Procs, OthersKeep(p), Kept(rows'), FilesOK',
           UNCHANGED issued, LocalsFit(req[p])',
           req'[p].pc \in Filling =>
               req[p].pc \in Filling /\ req'[p].target = req[p].target,
           Claims(req'[p]) => Holds(req'[p].target, req'[p].content)
    PROVE  DedupInv'
<1>1. \A a \in Ids : Exists(a)' => Exists(a)
  BY DEF Kept, Exists
<1>2. IssuedOK'
  BY <1>1 DEF DedupInv, IssuedOK
<1>3. TableOK(rows)'
  BY DEF Kept, TableOK
<1>4. LocalsAllFit'
  <2>1. ASSUME NEW q \in Procs PROVE LocalsFit(req[q])'
    <3>1. CASE q = p
      BY <3>1
    <3>2. CASE q # p
      <4>1. req'[q] = req[q] /\ LocalsFit(req[q])
        BY <3>2 DEF OthersKeep, DedupInv, LocalsAllFit
      <4>2. QED
        BY <4>1 DEF LocalsFit
    <3>3. QED
      BY <3>1, <3>2
  <2>2. QED
    BY <2>1 DEF LocalsAllFit
<1>5. \A q \in Procs : req'[q].pc \in Filling =>
          /\ req[q].pc \in Filling /\ req'[q].target = req[q].target
          /\ req[q].target \in Ids
  BY Locals DEF OthersKeep, DedupInv, Filling, NeedsTarget
<1>6. OwnersOK'
  BY <1>1, <1>5 DEF DedupInv, OwnersOK
<1>7. ClaimsOK'
  <2>1. ASSUME NEW q \in Procs, Claims(req'[q])
        PROVE  HoldsNext(req'[q].target, req'[q].content)
    <3>1. Holds(req'[q].target, req'[q].content)
      BY <2>1 DEF OthersKeep, DedupInv, ClaimsOK
    <3>2. QED
      BY <3>1, HoldsKept
  <2>2. QED
    BY <2>1 DEF ClaimsOK, Claims, HoldsNext, Holds, Exists
<1>8. QED
  BY <1>2, <1>3, <1>4, <1>6, <1>7 DEF DedupInv

\* p has drawn no id, hashes no candidate and claims nothing.
Calm(p) ==
    /\ OthersKeep(p)
    /\ req'[p].pc \notin Making \cup {"upProbe", "upBackfill", "upRestore"}
    /\ req'[p].pc = "answer" => req'[p].how \notin Claimed

LEMMA CalmKeeps ==
    ASSUME DedupInv, TypeInv', NEW p \in Procs, Calm(p), Kept(rows'), FilesOK',
           UNCHANGED issued
    PROVE  DedupInv'
<1>1. LocalsFit(req[p])'
  BY DEF Calm, LocalsFit, Making
<1>2. req'[p].pc \notin Filling /\ ~Claims(req'[p])
  BY DEF Calm, Making, Claims
<1>3. QED
  BY <1>1, <1>2, DedupFrame DEF Calm

\* The calm steps that touch neither table nor originals, or the table alone.
LEMMA ReadCalm ==
    ASSUME DedupInv, TypeInv', NEW p \in Procs, Calm(p),
           UNCHANGED <<rows, originals, issued>>
    PROVE  DedupInv'
<1>1. Kept(rows')
  BY DEF DedupInv, Kept
<1>2. FilesOK'
  BY DEF DedupInv, FilesOK
<1>3. QED
  BY <1>1, <1>2, CalmKeeps

LEMMA WriteCalm ==
    ASSUME DedupInv, TypeInv', NEW p \in Procs, Calm(p), Kept(rows'),
           UNCHANGED <<originals, issued>>
    PROVE  DedupInv'
<1>1. FilesOK'
  BY DEF DedupInv, FilesOK
<1>2. QED
  BY <1>1, CalmKeeps

\* What a request is after Goto and Answer, as far as deduplication is concerned.
LEMMA GotoFields ==
    ASSUME TypeInv, TypeInv', NEW p \in Procs, NEW pc, NEW local, Goto(p, pc, local)
    PROVE  /\ OthersKeep(p) /\ req'[p].pc = pc
           /\ req'[p].target = local.target /\ req'[p].asset = local.asset
           /\ req'[p].content = local.content /\ req'[p].todo = local.todo
           /\ req'[p].hash = local.hash /\ req'[p].how = local.how
<1>1. req \in [Procs -> Request] /\ req'[p] \in Request
  BY DEF TypeInv, ReqOK
<1>2. req' = [req EXCEPT ![p] = [local EXCEPT !.pc = pc]]
  BY DEF Goto
<1>3. req'[p] = [local EXCEPT !.pc = pc] /\ OthersKeep(p)
  BY <1>1, <1>2 DEF OthersKeep
<1>4. {"pc", "target", "asset", "content", "todo", "hash", "how"} \subseteq DOMAIN local
  BY <1>1, <1>3 DEF Request
<1>5. QED
  BY <1>3, <1>4

LEMMA AnswerFields ==
    ASSUME TypeInv, NEW p \in Procs, NEW how, NEW a, Answer(p, how, a)
    PROVE  /\ OthersKeep(p) /\ req'[p].pc = "answer" /\ req'[p].how = how
           /\ req'[p].target = a /\ req'[p].content = req[p].content
<1>1. req \in [Procs -> Request]
  BY DEF TypeInv, ReqOK
<1>2. QED
  BY <1>1 DEF Answer, OthersKeep, Idle

LEMMA CalmGoto ==
    ASSUME TypeInv, TypeInv', NEW p \in Procs, NEW pc, NEW local, Goto(p, pc, local),
           pc \notin Making \cup {"upProbe", "upBackfill", "upRestore", "answer"}
    PROVE  Calm(p)
BY GotoFields DEF Calm

LEMMA CalmAnswer ==
    ASSUME TypeInv, NEW p \in Procs, NEW how, NEW a, Answer(p, how, a), how \notin Claimed
    PROVE  Calm(p)
BY AnswerFields DEF Calm, Making, Filling

LEMMA CalmDone ==
    ASSUME TypeInv, TypeInv', NEW p \in Procs, NEW failed, BackfillDone(p, failed)
    PROVE  Calm(p)
BY CalmGoto DEF BackfillDone, Making, Filling

-----------------------------------------------------------------------------
(* An upload in the making. *)

\* An id is drawn, for an upload that goes on or for one that has failed.
LEMMA DrawFits ==
    ASSUME DedupInv, TypeInv', NEW p \in Procs, OthersKeep(p), UNCHANGED rows,
           NEW a \in Ids \ issued, issued' = issued \cup {a},
           \A f \in Ids \ {a} : originals'[f] = originals[f],
           \/ Calm(p)
           \/ /\ req'[p].pc \in Filling /\ req'[p].target = a
              /\ req'[p].asset.content = req'[p].content
              /\ req'[p].asset.hash = req'[p].content
    PROVE  DedupInv'
<1>1. a \notin Legacy /\ ~Exists(a)
  BY DEF DedupInv, IssuedOK
<1>2. \A b \in Ids : Exists(b)' <=> Exists(b)
  BY DEF Exists
<1>3. IssuedOK' /\ TableOK(rows)' /\ Kept(rows')
  BY <1>2 DEF DedupInv, IssuedOK, TableOK, Kept
<1>4. FilesOK'
  <2>1. \A b \in Legacy : LegacyPath[b] \in Ids \ {a}
    BY <1>1, LegacyAssumption
  <2>2. QED
    BY <2>1 DEF DedupInv, FilesOK
<1>5. Filling \subseteq Making /\ "upUndo" \notin Filling
      /\ {"upProbe", "upBackfill", "upRestore", "answer"} \cap Making = {}
  BY DEF Filling, Making
<1>6. LocalsAllFit'
  <2>1. ASSUME NEW q \in Procs PROVE LocalsFit(req[q])'
    <3>1. CASE q = p
      <4>1. CASE Calm(p)
        BY <3>1, <4>1 DEF Calm, LocalsFit, Making
      <4>2. CASE req'[p].pc \in Filling /\ req'[p].target = a
                 /\ req'[p].asset.content = req'[p].content
                 /\ req'[p].asset.hash = req'[p].content
        BY <1>1, <1>5, <3>1, <4>2 DEF LocalsFit
      <4>3. QED
        BY <4>1, <4>2
    <3>2. CASE q # p
      <4>1. req'[q] = req[q] /\ LocalsFit(req[q])
        BY <3>2 DEF OthersKeep, DedupInv, LocalsAllFit
      <4>2. QED
        BY <4>1 DEF LocalsFit
    <3>3. QED
      BY <3>1, <3>2
  <2>2. QED
    BY <2>1 DEF LocalsAllFit
<1>7. /\ req'[p].pc \in Filling => req'[p].target = a
      /\ ~Claims(req'[p])
  BY <1>5 DEF Calm, Claims
<1>8. \A q \in Procs : req[q].pc \in Filling => req[q].target \in issued
  BY <1>5 DEF DedupInv, LocalsAllFit, LocalsFit
<1>9. OwnersOK'
  <2>1. ASSUME NEW q \in Procs, req'[q].pc \in Filling
        PROVE  /\ rows[req'[q].target].state = "none"
               /\ \A s \in Procs \ {q} :
                     req'[s].pc \in Filling => req'[s].target # req'[q].target
    BY <1>1, <1>7, <1>8, <2>1 DEF OthersKeep, DedupInv, OwnersOK, Exists
  <2>2. QED
    BY <2>1 DEF OwnersOK, Exists
<1>10. ClaimsOK'
  <2>1. ASSUME NEW q \in Procs, Claims(req'[q])
        PROVE  HoldsNext(req'[q].target, req'[q].content)
    <3>1. Holds(req'[q].target, req'[q].content)
      BY <1>7, <2>1 DEF OthersKeep, DedupInv, ClaimsOK
    <3>2. QED
      BY <1>3, <1>7, <3>1, HoldsKept
  <2>2. QED
    BY <2>1 DEF ClaimsOK, Claims, HoldsNext, Holds, Exists
<1>11. QED
  BY <1>3, <1>4, <1>6, <1>9, <1>10 DEF DedupInv

\* The upload goes on with what it holds, up to a row refused.
LEMMA MakingFits ==
    ASSUME DedupInv, TypeInv', NEW p \in Procs, NEW pc \in Making, NEW local,
           req[p].pc \in Filling, Goto(p, pc, local),
           local.target = req[p].target, local.content = req[p].content,
           local.asset.content = req[p].asset.content,
           local.asset.hash = req[p].asset.hash,
           pc = "upUndo" => local.how \notin Claimed,
           UNCHANGED <<rows, originals, issued>>
    PROVE  DedupInv'
<1>1. /\ OthersKeep(p) /\ req'[p].pc = pc
      /\ req'[p].target = local.target /\ req'[p].asset = local.asset
      /\ req'[p].content = local.content /\ req'[p].how = local.how
  BY GotoFields DEF DedupInv
<1>2. /\ req[p].pc \in Making
      /\ {"upProbe", "upBackfill", "upRestore", "answer"} \cap Making = {}
  BY DEF Making, Filling
<1>3. Kept(rows') /\ FilesOK'
  BY DEF DedupInv, Kept, FilesOK
<1>4. LocalsFit(req[p])'
  BY <1>1, <1>2 DEF DedupInv, LocalsAllFit, LocalsFit
<1>5. ~Claims(req'[p])
  BY <1>1, <1>2 DEF Claims
<1>6. QED
  BY <1>1, <1>3, <1>4, <1>5, DedupFrame

\* The row is inserted, whether the upload learns of it or not.
LEMMA InsertFits ==
    ASSUME DedupInv, TypeInv', NEW p \in Procs, At(p, "upInsert"), OthersKeep(p),
           SaveOutcome(req[p].target, req[p].asset) = "ok",
           rows' = [rows EXCEPT ![req[p].target] = req[p].asset],
           UNCHANGED <<originals, issued>>,
           req'[p].target = req[p].target, req'[p].content = req[p].content,
           \/ req'[p].pc = "answer"
           \/ /\ req'[p].pc = "upUndo" /\ req'[p].how \notin Claimed
              /\ req'[p].asset = req[p].asset
    PROVE  DedupInv'
<1> DEFINE a == req[p].target
           asset == req[p].asset
           c == req[p].content
<1>1. /\ req[p].pc = "upInsert" /\ req[p].pc \in Filling /\ req[p].pc \in Making
      /\ "upUndo" \notin Filling /\ "answer" \notin Making /\ "answer" \notin Filling
  BY DEF At, Filling, Making
<1>2. /\ a \in Ids /\ a \in issued /\ a \notin Legacy /\ ~Exists(a)
      /\ asset.state = "active" /\ asset.content = c /\ asset.hash = c
      /\ c \in Contents /\ c # Null
  <2>1. a \in Ids /\ c \in Contents /\ asset.state = "active"
    BY <1>1, Locals DEF DedupInv, NeedsTarget, NeedsContent
  <2>2. a \in issued \ Legacy /\ asset.content = c /\ asset.hash = c /\ ~Exists(a)
    BY <1>1 DEF DedupInv, LocalsAllFit, LocalsFit, OwnersOK
  <2>3. QED
    BY <2>1, <2>2, ConstantsAssumption
<1>3. rows'[a] = asset /\ \A b \in Ids \ {a} : rows'[b] = rows[b]
  BY <1>2 DEF DedupInv, TypeInv, TypeOK
<1>4. \A b \in Ids \ {a} : rows[b].state = "active" => rows[b].hash # c
  BY <1>2 DEF SaveOutcome, HashTaken
<1>5. IssuedOK'
  BY <1>2, <1>3 DEF DedupInv, IssuedOK, Exists
<1>6. TableOK(rows)'
  <2> DEFINE new == rows'
  <2>1. /\ new[a].state = "active" /\ new[a].content = c /\ new[a].hash = c
        /\ \A b \in Ids \ {a} : new[b] = rows[b]
    BY <1>2, <1>3
  <2> HIDE DEF new, a, c
  <2>2. TableOK(rows) /\ a \in Ids /\ a \notin Legacy /\ c # Null
    BY <1>2 DEF DedupInv
  <2>3. TableOK(new)
    BY <1>4, <2>1, <2>2 DEF TableOK
  <2>4. QED
    BY <2>3 DEF TableOK, new
<1>7. FilesOK'
  BY DEF DedupInv, FilesOK
<1>8. LocalsAllFit'
  <2>1. ASSUME NEW q \in Procs PROVE LocalsFit(req[q])'
    <3>1. CASE q = p
      BY <1>1, <1>2, <3>1 DEF LocalsFit
    <3>2. CASE q # p
      <4>1. req'[q] = req[q] /\ LocalsFit(req[q])
        BY <3>2 DEF OthersKeep, DedupInv, LocalsAllFit
      <4>2. QED
        BY <4>1 DEF LocalsFit
    <3>3. QED
      BY <3>1, <3>2
  <2>2. QED
    BY <2>1 DEF LocalsAllFit
<1>9. \A q \in Procs : req'[q].pc \in Filling =>
          /\ q # p /\ req'[q] = req[q] /\ req[q].target \in Ids \ {a}
  BY <1>1, Locals DEF OthersKeep, DedupInv, OwnersOK, Filling, NeedsTarget
<1>10. OwnersOK'
  <2>1. ASSUME NEW q \in Procs, req'[q].pc \in Filling
        PROVE  /\ rows'[req'[q].target].state = "none"
               /\ \A s \in Procs \ {q} :
                     req'[s].pc \in Filling => req'[s].target # req'[q].target
    BY <1>3, <1>9, <2>1 DEF DedupInv, OwnersOK, Exists
  <2>2. QED
    BY <2>1 DEF OwnersOK, Exists
<1>11. ClaimsOK'
  <2>1. ASSUME NEW q \in Procs, Claims(req'[q])
        PROVE  HoldsNext(req'[q].target, req'[q].content)
    <3>1. \A s \in Procs : req'[s].pc \in Filling => req'[s].target # a
      BY <1>9
    <3>2. CASE q = p
      BY <1>2, <1>3, <3>1, <3>2 DEF HoldsNext
    <3>3. CASE q # p
      <4>1. Holds(req[q].target, req[q].content) /\ req'[q] = req[q]
        BY <2>1, <3>3 DEF OthersKeep, DedupInv, ClaimsOK
      <4>2. req[q].target \in Ids /\ req[q].target # a
        BY <1>1, <4>1 DEF Holds, DedupInv, TypeInv, TypeOK
      <4>3. QED
        BY <1>3, <1>9, <4>1, <4>2 DEF Holds, HoldsNext, Exists
    <3>4. QED
      BY <3>2, <3>3
  <2>2. QED
    BY <2>1 DEF ClaimsOK, Claims, HoldsNext, Holds, Exists
<1>12. QED
  BY <1>5, <1>6, <1>7, <1>8, <1>10, <1>11 DEF DedupInv

\* An upload is answered with an asset that holds its content.
LEMMA AnswerFits ==
    ASSUME DedupInv, TypeInv', NEW p \in Procs, NEW how, NEW a, Answer(p, how, a),
           Holds(a, req[p].content), Kept(rows'), UNCHANGED <<originals, issued>>
    PROVE  DedupInv'
<1>1. /\ OthersKeep(p) /\ req'[p].pc = "answer"
      /\ req'[p].target = a /\ req'[p].content = req[p].content
  BY AnswerFields DEF DedupInv
<1>2. FilesOK'
  BY DEF DedupInv, FilesOK
<1>3. LocalsFit(req[p])' /\ req'[p].pc \notin Filling
  BY <1>1 DEF LocalsFit, Making, Filling
<1>4. QED
  BY <1>1, <1>2, <1>3, DedupFrame

\* An upload looks at candidates, or restores a row.
LEMMA GotoFits ==
    ASSUME DedupInv, TypeInv', NEW p \in Procs, NEW local,
           NEW pc \in {"upProbe", "upBackfill", "upRestore"}, Goto(p, pc, local),
           pc # "upRestore" => local.todo \subseteq Legacy,
           pc = "upBackfill" => /\ local.target \in Legacy
                                /\ local.hash = LegacyContent[local.target],
           pc = "upRestore" => Holds(local.target, local.content),
           Kept(rows'), UNCHANGED <<originals, issued>>
    PROVE  DedupInv'
<1>1. /\ OthersKeep(p) /\ req'[p].pc = pc
      /\ req'[p].target = local.target /\ req'[p].content = local.content
      /\ req'[p].todo = local.todo /\ req'[p].hash = local.hash
  BY GotoFields DEF DedupInv
<1>2. FilesOK'
  BY DEF DedupInv, FilesOK
<1>3. LocalsFit(req[p])'
  BY <1>1 DEF LocalsFit, Making, Filling
<1>4. req'[p].pc \notin Filling
  BY <1>1 DEF Filling
<1>5. Claims(req'[p]) => Holds(req'[p].target, req'[p].content)
  BY <1>1 DEF Claims
<1>6. QED
  BY <1>1, <1>2, <1>3, <1>4, <1>5, DedupFrame

\* An active row found by its hash holds the content, and so does a trashed one.
LEMMA FoundHolds ==
    ASSUME DedupInv, NEW c \in Contents,
           NEW a \in FindByContentHash(c) \cup FindDeletedByContentHash(c)
    PROVE  Holds(a, c)
<1>1. a \in Ids /\ Exists(a) /\ rows[a].hash = c /\ c # Null
  BY ConstantsAssumption DEF FindByContentHash, FindDeletedByContentHash, Exists
<1>2. rows[a].content = c
  BY <1>1 DEF DedupInv, TableOK
<1>3. QED
  BY <1>1, <1>2, HoldsRow

-----------------------------------------------------------------------------
(* The steps of an upload. *)

LEMMA UploadBackfillFits ==
    ASSUME DedupInv, TypeInv', NEW p \in Procs, UploadBackfill(p)
    PROVE  DedupInv'
<1> DEFINE r == req[p]
           l == [r EXCEPT !.target = Null, !.hash = Null]
<1>1. /\ r.target \in Legacy /\ r.hash = LegacyContent[r.target]
      /\ r.todo \subseteq Legacy
  BY DEF UploadBackfill, At, DedupInv, LocalsAllFit, LocalsFit
<1>2. Kept(rows') /\ UNCHANGED <<originals, issued>>
  BY <1>1, HashProper DEF UploadBackfill
<1>3. CASE r.hash = r.content /\ Answer(p, "existing", r.target)
  BY <1>1, <1>2, <1>3, HoldsLegacy, AnswerFits
<1>4. CASE Goto(p, "upProbe", l)
  <2>1. r \in Request
    BY Locals DEF DedupInv
  <2>2. l.todo = r.todo
    BY <2>1 DEF Request
  <2>3. Goto(p, "upProbe", l) /\ l.todo \subseteq Legacy
    BY <1>1, <1>4, <2>2
  <2> HIDE DEF l
  <2>4. QED
    BY <1>2, <2>3, GotoFits
<1>5. QED
  BY <1>3, <1>4 DEF UploadBackfill

LEMMA UploadProbeFits ==
    ASSUME DedupInv, TypeInv', NEW p \in Procs, UploadProbe(p)
    PROVE  DedupInv'
<1> DEFINE r == req[p]
<1>1. r \in Request /\ r.todo \subseteq Legacy
  BY Locals DEF UploadProbe, At, DedupInv, LocalsAllFit, LocalsFit
<1>2. Kept(rows') /\ UNCHANGED <<rows, originals, issued>>
  BY DEF UploadProbe, stored, DedupInv, Kept
<1>3. CASE Goto(p, "upStore", r)
  BY <1>2, <1>3, CalmGoto, ReadCalm DEF DedupInv, Making, Filling
<1>4. ASSUME NEW a \in r.todo,
             LET file == originals[StoragePath(a)]
                 rest == [r EXCEPT !.todo = @ \ {a}]
             IN \/ file = "none" /\ Goto(p, "upProbe", rest)
                \/ /\ file \in Contents
                   /\ Goto(p, "upBackfill", [rest EXCEPT !.target = a, !.hash = file])
      PROVE  DedupInv'
  <2> DEFINE file == originals[StoragePath(a)]
             rest == [r EXCEPT !.todo = @ \ {a}]
             l == [rest EXCEPT !.target = a, !.hash = file]
  <2>1. a \in Legacy
    BY <1>1
  <2>2. /\ rest.todo \subseteq Legacy /\ l.todo \subseteq Legacy
        /\ l.target = a /\ l.hash = file
    BY <1>1 DEF Request
  <2>3. CASE Goto(p, "upProbe", rest)
    <3> HIDE DEF rest
    <3>1. QED
      BY <1>2, <2>2, <2>3, GotoFits
  <2>4. CASE file \in Contents /\ Goto(p, "upBackfill", l)
    <3>1. file = LegacyContent[a]
      BY <2>1, <2>4, ConstantsAssumption DEF DedupInv, FilesOK, StoragePath
    <3> HIDE DEF l, file
    <3>2. QED
      BY <1>2, <2>1, <2>2, <2>4, <3>1, GotoFits
  <2>5. QED
    BY <1>4, <2>3, <2>4
<1>5. QED
  BY <1>3, <1>4, Zenon DEF UploadProbe

LEMMA UploadStoreFits ==
    ASSUME DedupInv, TypeInv', NEW p \in Procs, UploadStore(p)
    PROVE  DedupInv'
<1> DEFINE r == req[p]
           asset == [state |-> "active", content |-> r.content, hash |-> r.content,
                     thumb |-> NoPath, preview |-> NoPath]
<1>1. PICK a \in Ids \ issued :
          /\ issued' = issued \cup {a}
          /\ originals' = [originals EXCEPT ![a] = r.content]
          /\ Goto(p, "upThumb", [r EXCEPT !.target = a, !.asset = asset])
  BY DEF UploadStore
<1>2. asset.content = r.content /\ asset.hash = r.content
  OBVIOUS
<1> HIDE DEF asset
<1> DEFINE l == [r EXCEPT !.target = a, !.asset = asset]
<1>3. r \in Request /\ TypeOK
  BY Locals DEF DedupInv, TypeInv
<1>4. l.target = a /\ l.asset = asset /\ l.content = r.content
  BY <1>3 DEF Request
<1>5. Goto(p, "upThumb", l)
  BY <1>1
<1> HIDE DEF l
<1>6. /\ OthersKeep(p) /\ req'[p].pc = "upThumb" /\ req'[p].target = a
      /\ req'[p].asset = asset /\ req'[p].content = r.content
  BY <1>4, <1>5, GotoFields DEF DedupInv
<1>7. \A f \in Ids \ {a} : originals'[f] = originals[f]
  BY <1>1, <1>3 DEF TypeOK
<1>8. "upThumb" \in Filling /\ UNCHANGED rows
  BY DEF UploadStore, Filling
<1>9. QED
  BY <1>1, <1>2, <1>6, <1>7, <1>8, DrawFits

LEMMA UploadInsertFits ==
    ASSUME DedupInv, TypeInv', NEW p \in Procs, UploadInsert(p)
    PROVE  DedupInv'
<1> DEFINE a == req[p].target
           asset == req[p].asset
           how == SaveOutcome(a, asset)
           l == [req[p] EXCEPT !.how = how]
<1>1. /\ req[p].pc = "upInsert" /\ req[p].pc \in Filling
      /\ rows' = Save(a, asset) /\ UNCHANGED <<originals, issued>>
  BY DEF UploadInsert, At, Filling
<1>2. CASE how # "ok"
  <2>1. req[p] \in Request
    BY Locals DEF DedupInv
  <2>2. /\ l.target = a /\ l.content = req[p].content /\ l.asset = asset
        /\ l.how = how
    BY <2>1 DEF Request
  <2>3. Goto(p, "upUndo", l) /\ UNCHANGED rows
    BY <1>1, <1>2 DEF UploadInsert, Save
  <2>4. how \notin Claimed /\ "upUndo" \in Making
    BY <1>2, Outcomes DEF Claimed, Making
  <2> HIDE DEF l, how
  <2>5. QED
    BY <1>1, <2>2, <2>3, <2>4, MakingFits
<1>3. CASE how = "ok"
  <2>1. Answer(p, "created", a) /\ rows' = [rows EXCEPT ![a] = asset]
    BY <1>1, <1>3 DEF UploadInsert, Save
  <2>2. /\ OthersKeep(p) /\ req'[p].pc = "answer"
        /\ req'[p].target = a /\ req'[p].content = req[p].content
    BY <2>1, AnswerFields DEF DedupInv
  <2>3. QED
    BY <1>1, <1>3, <2>1, <2>2, InsertFits DEF At
<1>4. QED
  BY <1>2, <1>3

\* The clean-up of an upload, complete or not.
LEMMA UndoFits ==
    ASSUME DedupInv, TypeInv', NEW p \in Procs, At(p, "upUndo"),
           UploadUndo(p) \/ UnlinkFails(p)
    PROVE  DedupInv'
<1> DEFINE a == req[p].target
<1>1. /\ req[p].pc = "upUndo" /\ req[p].pc \in Making
      /\ UNCHANGED <<rows, issued>>
      /\ originals' \in {originals, [originals EXCEPT ![a] = "none"]}
  BY DEF UploadUndo, UnlinkFails, At, Making
<1>2. Goto(p, "upRefind", req[p]) \/ Answer(p, req[p].how, Null)
  BY <1>1 DEF UploadUndo, UnlinkFails
<1>3. a \notin Legacy /\ req[p].how \notin Claimed
  BY <1>1 DEF DedupInv, LocalsAllFit, LocalsFit
<1>4. Calm(p)
  BY <1>2, <1>3, CalmGoto, CalmAnswer DEF DedupInv, Making, Filling
<1>5. FilesOK'
  <2>1. \A b \in Legacy : LegacyPath[b] \in Ids /\ LegacyPath[b] # a
    BY <1>3, LegacyAssumption
  <2>2. QED
    BY <1>1, <2>1 DEF DedupInv, FilesOK, TypeInv, TypeOK
<1>6. Kept(rows')
  BY <1>1 DEF DedupInv, Kept
<1>7. QED
  BY <1>1, <1>4, <1>5, <1>6, CalmKeeps

LEMMA UploadFits ==
    ASSUME DedupInv, TypeInv', NEW p \in Procs, UploadStep(p)
    PROVE  DedupInv'
<1> USE DEF At
<1> DEFINE r == req[p]
<1>0. /\ TypeInv /\ r \in Request /\ r.asset \in Row /\ Kept(rows)
      /\ r.pc \in NeedsContent => r.content \in Contents
  BY Locals DEF DedupInv, Kept
<1>1. CASE UploadFind(p)
  <2>1. UNCHANGED <<rows, originals, issued>> /\ r.content \in Contents
    BY <1>0, <1>1 DEF UploadFind, stored, NeedsContent
  <2>2. ASSUME NEW a \in FindByContentHash(r.content), Answer(p, "existing", a)
        PROVE  DedupInv'
    BY <1>0, <2>1, <2>2, FoundHolds, AnswerFits
  <2>3. CASE Goto(p, "upFindTrash", r)
    BY <1>0, <2>1, <2>3, CalmGoto, ReadCalm DEF Making, Filling
  <2>4. QED
    BY <1>1, <2>2, <2>3, Zenon DEF UploadFind
<1>2. CASE UploadFindTrash(p)
  <2>1. UNCHANGED <<rows, originals, issued>> /\ r.content \in Contents
    BY <1>0, <1>2 DEF UploadFindTrash, stored, NeedsContent
  <2>2. ASSUME NEW a \in FindDeletedByContentHash(r.content),
               \/ Goto(p, "upRestore", [r EXCEPT !.target = a])
               \/ Answer(p, "decision", a)
        PROVE  DedupInv'
    <3> DEFINE l == [r EXCEPT !.target = a]
    <3>1. l.target = a /\ l.content = r.content
      BY <1>0 DEF Request
    <3>2. Goto(p, "upRestore", l) \/ Answer(p, "decision", a)
      BY <2>2
    <3> HIDE DEF l
    <3>3. QED
      BY <1>0, <2>1, <3>1, <3>2, FoundHolds, AnswerFits, GotoFits
  <2>3. CASE Goto(p, "upLegacy", r)
    BY <1>0, <2>1, <2>3, CalmGoto, ReadCalm DEF Making, Filling
  <2>4. QED
    BY <1>2, <2>2, <2>3, Zenon DEF UploadFindTrash
<1>3. CASE UploadRestore(p)
  <2>1. /\ Holds(r.target, r.content) /\ r.target \in Ids
        /\ UNCHANGED <<originals, issued>> /\ rows' = Restore(r.target)
    BY <1>0, <1>3, Locals DEF UploadRestore, DedupInv, ClaimsOK, Claims, NeedsTarget
  <2>2. Kept(rows')
    BY <2>1, StatementsProper
  <2>3. \E how : Answer(p, how, r.target)
    BY <1>3 DEF UploadRestore
  <2>4. QED
    BY <2>1, <2>2, <2>3, AnswerFits
<1>4. CASE UploadLegacy(p)
  <2> DEFINE found == FindWithoutContentHashBySize(SizeOf[r.content])
             l == [r EXCEPT !.todo = found]
  <2>1. UNCHANGED <<rows, originals, issued>> /\ Goto(p, "upProbe", l)
    BY <1>4 DEF UploadLegacy, stored
  <2>2. found \subseteq Legacy
    BY DEF FindWithoutContentHashBySize, DedupInv, TableOK
  <2>3. l.todo = found
    BY <1>0 DEF Request
  <2> HIDE DEF l, found
  <2>4. QED
    BY <1>0, <2>1, <2>2, <2>3, GotoFits
<1>5. CASE UploadProbe(p)
  BY <1>5, UploadProbeFits
<1>6. CASE UploadBackfill(p)
  BY <1>6, UploadBackfillFits
<1>7. CASE UploadStore(p)
  BY <1>7, UploadStoreFits
<1>8. CASE UploadThumb(p)
  <2> DEFINE l == [r EXCEPT !.asset.thumb = today]
  <2>1. /\ l.target = r.target /\ l.content = r.content
        /\ l.asset.content = r.asset.content /\ l.asset.hash = r.asset.hash
    BY <1>0 DEF Request, Row
  <2>2. /\ r.pc \in Filling /\ "upPreview" \in Making /\ "upPreview" # "upUndo"
        /\ UNCHANGED <<rows, originals, issued>>
    BY <1>8 DEF UploadThumb, Filling, Making
  <2>3. Goto(p, "upPreview", l) \/ Goto(p, "upPreview", r)
    BY <1>8 DEF UploadThumb
  <2> HIDE DEF l
  <2>4. QED
    BY <2>1, <2>2, <2>3, MakingFits
<1>9. CASE UploadPreview(p)
  <2> DEFINE l == [r EXCEPT !.asset.preview = today]
  <2>1. /\ l.target = r.target /\ l.content = r.content
        /\ l.asset.content = r.asset.content /\ l.asset.hash = r.asset.hash
    BY <1>0 DEF Request, Row
  <2>2. /\ r.pc \in Filling /\ "upInsert" \in Making /\ "upInsert" # "upUndo"
        /\ UNCHANGED <<rows, originals, issued>>
    BY <1>9 DEF UploadPreview, Filling, Making
  <2>3. Goto(p, "upInsert", l) \/ Goto(p, "upInsert", r)
    BY <1>9 DEF UploadPreview
  <2> HIDE DEF l
  <2>4. QED
    BY <2>1, <2>2, <2>3, MakingFits
<1>10. CASE UploadInsert(p)
  BY <1>10, UploadInsertFits
<1>11. CASE UploadUndo(p)
  BY <1>11, UndoFits DEF UploadUndo
<1>12. CASE UploadRefind(p)
  <2>1. UNCHANGED <<rows, originals, issued>> /\ r.content \in Contents
    BY <1>0, <1>12 DEF UploadRefind, stored, NeedsContent
  <2>2. ASSUME NEW a \in FindByContentHash(r.content), Answer(p, "existing", a)
        PROVE  DedupInv'
    BY <1>0, <2>1, <2>2, FoundHolds, AnswerFits
  <2>3. CASE Answer(p, "duplicate", Null)
    BY <1>0, <2>1, <2>3, CalmAnswer, ReadCalm DEF Claimed
  <2>4. QED
    BY <1>12, <2>2, <2>3, Zenon DEF UploadRefind
<1>13. QED
  BY <1>1, <1>2, <1>3, <1>4, <1>5, <1>6, <1>7, <1>8, <1>9, <1>10, <1>11,
     <1>12
     DEF UploadStep

-----------------------------------------------------------------------------
(* The other requests: none of them claims anything. *)

\* A statement on the row of a request's own asset.
LEMMA OwnStatements ==
    ASSUME DedupInv, NEW p \in Procs, req[p].pc \in NeedsTarget
    PROVE  /\ Kept(SoftDelete(req[p].target))
           /\ Kept(Restore(req[p].target))
           /\ Kept(Delete(req[p].target))
           /\ \A d : Kept(UpdateThumbnailStoragePath(req[p].target, d))
           /\ \A d : Kept(UpdatePreviewStoragePath(req[p].target, d))
<1>1. req[p].target \in Ids
  BY Locals DEF DedupInv
<1>2. QED
  BY <1>1, StatementsProper

LEMMA PurgeOriginalFits ==
    ASSUME DedupInv, TypeInv', NEW p \in Procs, PurgeOriginal(p)
    PROVE  DedupInv'
<1> DEFINE f == StoragePath(req[p].target)
<1>1. /\ UNCHANGED <<rows, issued>>
      /\ originals' \in {originals, [originals EXCEPT ![f] = "none"]}
  BY DEF PurgeOriginal
<1>2. Calm(p)
  BY CalmGoto, CalmAnswer DEF PurgeOriginal, DedupInv, Making, Filling, Claimed
<1>3. FilesOK'
  <2>1. \A b \in Legacy : LegacyPath[b] \in Ids
    BY LegacyAssumption
  <2>2. QED
    BY <1>1, <2>1 DEF DedupInv, FilesOK, TypeInv, TypeOK
<1>4. Kept(rows')
  BY <1>1 DEF DedupInv, Kept
<1>5. QED
  BY <1>1, <1>2, <1>3, <1>4, CalmKeeps

LEMMA TrashFits ==
    ASSUME DedupInv, TypeInv', NEW p \in Procs, TrashStep(p)
    PROVE  DedupInv'
<1> USE DEF At
<1>0. TypeInv
  BY DEF DedupInv
<1>1. CASE DeleteFind(p)
  <2>1. Calm(p)
    BY <1>0, <1>1, CalmGoto, CalmAnswer, CalmDone DEF DeleteFind, Making, Filling, Claimed
  <2>2. UNCHANGED <<rows, originals, issued>>
    BY <1>1 DEF DeleteFind, stored
  <2>3. QED
    BY <2>1, <2>2, ReadCalm
<1>2. CASE DeleteMark(p)
  <2>1. Calm(p)
    BY <1>0, <1>2, CalmGoto, CalmAnswer, CalmDone, Outcomes DEF DeleteMark, Making, Filling, Claimed
  <2>2. Kept(rows') /\ UNCHANGED <<originals, issued>>
    BY <1>2, OwnStatements DEF DeleteMark, NeedsTarget
  <2>3. QED
    BY <2>1, <2>2, WriteCalm
<1>3. CASE RestoreFind(p)
  <2>1. Calm(p)
    BY <1>0, <1>3, CalmGoto, CalmAnswer, CalmDone DEF RestoreFind, Making, Filling, Claimed
  <2>2. UNCHANGED <<rows, originals, issued>>
    BY <1>3 DEF RestoreFind, stored
  <2>3. QED
    BY <2>1, <2>2, ReadCalm
<1>4. CASE RestoreMark(p)
  <2>1. Calm(p)
    BY <1>0, <1>4, CalmGoto, CalmAnswer, CalmDone, Outcomes DEF RestoreMark, Making, Filling, Claimed
  <2>2. Kept(rows') /\ UNCHANGED <<originals, issued>>
    BY <1>4, OwnStatements DEF RestoreMark, NeedsTarget
  <2>3. QED
    BY <2>1, <2>2, WriteCalm
<1>5. CASE EmptyList(p)
  <2>1. Calm(p)
    BY <1>0, <1>5, CalmGoto, CalmAnswer, CalmDone DEF EmptyList, Making, Filling, Claimed
  <2>2. UNCHANGED <<rows, originals, issued>>
    BY <1>5 DEF EmptyList, stored
  <2>3. QED
    BY <2>1, <2>2, ReadCalm
<1>6. CASE EmptyNext(p)
  <2>1. Calm(p)
    <3>1. \/ \E local : Goto(p, "purFind", local)
          \/ Answer(p, "ok", Null) \/ Answer(p, "failed", Null)
      BY <1>6, Zenon DEF EmptyNext
    <3>2. QED
      BY <1>0, <3>1, CalmGoto, CalmAnswer DEF Making, Filling, Claimed
  <2>2. UNCHANGED <<rows, originals, issued>>
    BY <1>6 DEF EmptyNext, stored
  <2>3. QED
    BY <2>1, <2>2, ReadCalm
<1>7. CASE PurgeFind(p)
  <2>1. Calm(p)
    BY <1>0, <1>7, CalmGoto, CalmAnswer, CalmDone DEF PurgeFind, Making, Filling, Claimed
  <2>2. UNCHANGED <<rows, originals, issued>>
    BY <1>7 DEF PurgeFind, stored
  <2>3. QED
    BY <2>1, <2>2, ReadCalm
<1>8. CASE PurgeCount(p)
  <2>1. Calm(p)
    BY <1>0, <1>8, CalmGoto, CalmAnswer, CalmDone DEF PurgeCount, Making, Filling, Claimed
  <2>2. UNCHANGED <<rows, originals, issued>>
    BY <1>8 DEF PurgeCount, stored
  <2>3. QED
    BY <2>1, <2>2, ReadCalm
<1>9. CASE PurgeRow(p)
  <2>1. Calm(p)
    BY <1>0, <1>9, CalmGoto, CalmAnswer, CalmDone, Outcomes DEF PurgeRow, Making, Filling, Claimed
  <2>2. Kept(rows') /\ UNCHANGED <<originals, issued>>
    BY <1>9, OwnStatements DEF PurgeRow, NeedsTarget
  <2>3. QED
    BY <2>1, <2>2, WriteCalm
<1>10. CASE PurgeThumb(p)
  <2>1. Calm(p)
    BY <1>0, <1>10, CalmGoto, CalmAnswer, CalmDone DEF PurgeThumb, Making, Filling, Claimed
  <2>2. UNCHANGED <<rows, originals, issued>>
    BY <1>10 DEF PurgeThumb, stored
  <2>3. QED
    BY <2>1, <2>2, ReadCalm
<1>11. CASE PurgePreview(p)
  <2>1. Calm(p)
    BY <1>0, <1>11, CalmGoto, CalmAnswer, CalmDone DEF PurgePreview, Making, Filling, Claimed
  <2>2. UNCHANGED <<rows, originals, issued>>
    BY <1>11 DEF PurgePreview, stored
  <2>3. QED
    BY <2>1, <2>2, ReadCalm
<1>12. CASE PurgeOriginal(p)
  BY <1>12, PurgeOriginalFits
<1>13. QED
  BY <1>1, <1>2, <1>3, <1>4, <1>5, <1>6, <1>7, <1>8, <1>9, <1>10,
     <1>11, <1>12
     DEF TrashStep

LEMMA DerivedFits ==
    ASSUME DedupInv, TypeInv', NEW p \in Procs, DerivedStep(p)
    PROVE  DedupInv'
<1> USE DEF At
<1>0. TypeInv
  BY DEF DedupInv
<1>1. CASE DownloadFind(p)
  <2>1. Calm(p)
    BY <1>0, <1>1, CalmGoto, CalmAnswer, CalmDone DEF DownloadFind, Making, Filling, Claimed, FindThen
  <2>2. UNCHANGED <<rows, originals, issued>>
    BY <1>1 DEF DownloadFind, stored, FindThen
  <2>3. QED
    BY <2>1, <2>2, ReadCalm
<1>2. CASE DownloadOpen(p)
  <2>1. Calm(p)
    BY <1>0, <1>2, CalmGoto, CalmAnswer, CalmDone DEF DownloadOpen, Making, Filling, Claimed
  <2>2. UNCHANGED <<rows, originals, issued>>
    BY <1>2 DEF DownloadOpen, stored
  <2>3. QED
    BY <2>1, <2>2, ReadCalm
<1>3. CASE PreviewFind(p)
  <2>1. Calm(p)
    BY <1>0, <1>3, CalmGoto, CalmAnswer, CalmDone DEF PreviewFind, Making, Filling, Claimed, FindThen
  <2>2. UNCHANGED <<rows, originals, issued>>
    BY <1>3 DEF PreviewFind, stored, FindThen
  <2>3. QED
    BY <2>1, <2>2, ReadCalm
<1>4. CASE PreviewOpen(p)
  <2>1. Calm(p)
    BY <1>0, <1>4, CalmGoto, CalmAnswer, CalmDone DEF PreviewOpen, Making, Filling, Claimed
  <2>2. UNCHANGED <<rows, originals, issued>>
    BY <1>4 DEF PreviewOpen, stored
  <2>3. QED
    BY <2>1, <2>2, ReadCalm
<1>5. CASE ThumbnailFind(p)
  <2>1. Calm(p)
    BY <1>0, <1>5, CalmGoto, CalmAnswer, CalmDone DEF ThumbnailFind, Making, Filling, Claimed, FindThen
  <2>2. UNCHANGED <<rows, originals, issued>>
    BY <1>5 DEF ThumbnailFind, stored, FindThen
  <2>3. QED
    BY <2>1, <2>2, ReadCalm
<1>6. CASE ThumbnailOpen(p)
  <2>1. Calm(p)
    BY <1>0, <1>6, CalmGoto, CalmAnswer, CalmDone DEF ThumbnailOpen, Making, Filling, Claimed
  <2>2. UNCHANGED <<rows, originals, issued>>
    BY <1>6 DEF ThumbnailOpen, stored
  <2>3. QED
    BY <2>1, <2>2, ReadCalm
<1>7. CASE ThumbnailGenerate(p)
  <2>1. Calm(p)
    BY <1>0, <1>7, CalmGoto, CalmAnswer, CalmDone DEF ThumbnailGenerate, Making, Filling, Claimed
  <2>2. UNCHANGED <<rows, originals, issued>>
    BY <1>7 DEF ThumbnailGenerate, stored
  <2>3. QED
    BY <2>1, <2>2, ReadCalm
<1>8. CASE ThumbnailCreate(p)
  <2>1. Calm(p)
    BY <1>0, <1>8, CalmGoto, CalmAnswer, CalmDone DEF ThumbnailCreate, Making, Filling, Claimed
  <2>2. UNCHANGED <<rows, originals, issued>>
    BY <1>8 DEF ThumbnailCreate, stored
  <2>3. QED
    BY <2>1, <2>2, ReadCalm
<1>9. CASE ThumbnailWrite(p)
  <2>1. Calm(p)
    BY <1>0, <1>9, CalmGoto, CalmAnswer, CalmDone DEF ThumbnailWrite, Making, Filling, Claimed
  <2>2. UNCHANGED <<rows, originals, issued>>
    BY <1>9 DEF ThumbnailWrite, stored
  <2>3. QED
    BY <2>1, <2>2, ReadCalm
<1>10. CASE ThumbnailRecord(p)
  <2>1. Calm(p)
    BY <1>0, <1>10, CalmGoto, CalmAnswer, CalmDone, Outcomes DEF ThumbnailRecord, Making, Filling, Claimed
  <2>2. Kept(rows') /\ UNCHANGED <<originals, issued>>
    BY <1>10, OwnStatements DEF ThumbnailRecord, NeedsTarget
  <2>3. QED
    BY <2>1, <2>2, WriteCalm
<1>11. CASE BackfillList(p)
  <2>1. Calm(p)
    BY <1>0, <1>11, CalmGoto, CalmAnswer, CalmDone DEF BackfillList, Making, Filling, Claimed
  <2>2. UNCHANGED <<rows, originals, issued>>
    BY <1>11 DEF BackfillList, stored
  <2>3. QED
    BY <2>1, <2>2, ReadCalm
<1>12. CASE BackfillNext(p)
  <2>1. Calm(p)
    <3>1. \/ \E local : Goto(p, "bfFind", local)
          \/ Answer(p, "ok", Null) \/ Answer(p, "failed", Null)
      BY <1>12, Zenon DEF BackfillNext
    <3>2. QED
      BY <1>0, <3>1, CalmGoto, CalmAnswer DEF Making, Filling, Claimed
  <2>2. UNCHANGED <<rows, originals, issued>>
    BY <1>12 DEF BackfillNext, stored
  <2>3. QED
    BY <2>1, <2>2, ReadCalm
<1>13. CASE BackfillFind(p)
  <2>1. Calm(p)
    BY <1>0, <1>13, CalmGoto, CalmAnswer, CalmDone DEF BackfillFind, Making, Filling, Claimed
  <2>2. UNCHANGED <<rows, originals, issued>>
    BY <1>13 DEF BackfillFind, stored
  <2>3. QED
    BY <2>1, <2>2, ReadCalm
<1>14. CASE BackfillGenerate(p)
  <2>1. Calm(p)
    BY <1>0, <1>14, CalmGoto, CalmAnswer, CalmDone DEF BackfillGenerate, Making, Filling, Claimed
  <2>2. UNCHANGED <<rows, originals, issued>>
    BY <1>14 DEF BackfillGenerate, stored
  <2>3. QED
    BY <2>1, <2>2, ReadCalm
<1>15. CASE BackfillCreate(p)
  <2>1. Calm(p)
    BY <1>0, <1>15, CalmGoto, CalmAnswer, CalmDone DEF BackfillCreate, Making, Filling, Claimed
  <2>2. UNCHANGED <<rows, originals, issued>>
    BY <1>15 DEF BackfillCreate, stored
  <2>3. QED
    BY <2>1, <2>2, ReadCalm
<1>16. CASE BackfillWrite(p)
  <2>1. Calm(p)
    BY <1>0, <1>16, CalmGoto, CalmAnswer, CalmDone DEF BackfillWrite, Making, Filling, Claimed
  <2>2. UNCHANGED <<rows, originals, issued>>
    BY <1>16 DEF BackfillWrite, stored
  <2>3. QED
    BY <2>1, <2>2, ReadCalm
<1>17. CASE BackfillRecord(p)
  <2>1. Calm(p)
    BY <1>0, <1>17, CalmGoto, CalmAnswer, CalmDone, Outcomes DEF BackfillRecord, Making, Filling, Claimed
  <2>2. Kept(rows') /\ UNCHANGED <<originals, issued>>
    BY <1>17, OwnStatements DEF BackfillRecord, NeedsTarget
  <2>3. QED
    BY <2>1, <2>2, WriteCalm
<1>18. QED
  BY <1>1, <1>2, <1>3, <1>4, <1>5, <1>6, <1>7, <1>8, <1>9, <1>10,
     <1>11, <1>12, <1>13, <1>14, <1>15, <1>16, <1>17
     DEF DerivedStep

LEMMA StartFits ==
    ASSUME DedupInv, TypeInv', NEW p \in Procs, Start(p)
    PROVE  DedupInv'
<1>0. TypeInv /\ req \in [Procs -> Request]
  BY DEF DedupInv, TypeInv, ReqOK
<1>1. UNCHANGED <<rows, originals, issued>>
  BY DEF Start, StartUpload, StartDelete, StartRestore, StartPurge,
         StartEmptyTrash, StartDownload, StartPreview, StartThumbnail,
         StartTrashThumbnail, StartBackfill, StartOn, stored
<1>2. ASSUME NEW kind, NEW local,
             NEW first \in {"upFind", "delFind", "resFind", "purFind", "emptyList",
                            "dlFind", "pvFind", "thFind", "thTrashFind", "bfList"},
             Begin(p, kind, first, local)
      PROVE  Calm(p)
  <2>1. req'[p] = [local EXCEPT !.op = kind, !.pc = first] /\ OthersKeep(p)
    BY <1>0, <1>2 DEF Begin, OthersKeep
  <2>2. "pc" \in DOMAIN local
    BY <2>1 DEF DedupInv, TypeInv, ReqOK, Request
  <2>3. QED
    BY <2>1, <2>2 DEF Calm, Making, Filling
<1>3. CASE StartUpload(p)
  <2>1. PICK c \in Contents, action \in DuplicateActions :
            \/ \E local : Begin(p, "upload", "upFind", local)
            \/ Begin(p, "upload", "answer",
                     [[Idle EXCEPT !.content = c, !.action = action]
                         EXCEPT !.how = "unsupported"])
    BY <1>3, Zenon DEF StartUpload
  <2>2. ASSUME Begin(p, "upload", "answer",
                     [[Idle EXCEPT !.content = c, !.action = action]
                         EXCEPT !.how = "unsupported"])
        PROVE  Calm(p)
    <3>1. /\ req'[p].pc = "answer" /\ req'[p].how = "unsupported" /\ OthersKeep(p)
      BY <1>0, <2>2 DEF Begin, OthersKeep, Idle
    <3>2. QED
      BY <3>1 DEF Calm, Making, Filling, Claimed
  <2>3. QED
    BY <1>1, <1>2, <2>1, <2>2, ReadCalm
<1>4. CASE StartEmptyTrash(p) \/ StartBackfill(p)
  BY <1>1, <1>2, <1>4, ReadCalm DEF StartEmptyTrash, StartBackfill
<1>5. CASE \/ StartDelete(p) \/ StartRestore(p) \/ StartPurge(p)
           \/ StartDownload(p) \/ StartPreview(p) \/ StartThumbnail(p)
           \/ StartTrashThumbnail(p)
  BY <1>1, <1>2, <1>5, ReadCalm
     DEF StartDelete, StartRestore, StartPurge, StartDownload,
         StartPreview, StartThumbnail, StartTrashThumbnail, StartOn
<1>6. QED
  BY <1>3, <1>4, <1>5 DEF Start

\* A statement that reports an error, whether it was committed or not.
LEMMA StatementFailsFits ==
    ASSUME DedupInv, TypeInv', NEW p \in Procs, StatementFails(p)
    PROVE  DedupInv'
<1> USE DEF At
<1> DEFINE r == req[p]
           a == r.target
           l == [r EXCEPT !.how = "failed"]
<1>1. /\ UNCHANGED <<originals, issued>>
      /\ rows' = rows \/ rows' = Executed(p)
  BY DEF StatementFails
<1>2. CASE r.pc = "upInsert"
  <2>1. r \in Request
    BY Locals DEF DedupInv
  <2>2. l.target = a /\ l.content = r.content /\ l.asset = r.asset /\ l.how = "failed"
    BY <2>1 DEF Request
  <2>3. Goto(p, "upUndo", l)
    BY <1>2 DEF StatementFails
  <2> HIDE DEF l
  <2>4. "failed" \notin Claimed /\ "upUndo" \in Making /\ r.pc \in Filling
    BY <1>2 DEF Claimed, Making, Filling
  <2>5. CASE UNCHANGED rows
    BY <1>1, <2>2, <2>3, <2>4, <2>5, MakingFits
  <2>6. CASE ~UNCHANGED rows
    <3>1. /\ SaveOutcome(a, r.asset) = "ok"
          /\ rows' = [rows EXCEPT ![a] = r.asset]
      BY <1>1, <1>2, <2>6 DEF Executed, Save
    <3>2. /\ OthersKeep(p) /\ req'[p].pc = "upUndo" /\ req'[p].how = "failed"
          /\ req'[p].target = a /\ req'[p].content = r.content
          /\ req'[p].asset = r.asset
      BY <2>2, <2>3, GotoFields DEF DedupInv
    <3>3. QED
      BY <1>1, <1>2, <2>4, <3>1, <3>2, InsertFits
  <2>7. QED
    BY <2>5, <2>6
<1>3. CASE r.pc # "upInsert"
  <2>1. /\ r.pc \in {"upRestore", "upBackfill", "delMark", "resMark", "purRow",
                     "thRecord", "bfRecord"}
        /\ \/ Answer(p, "failed", a) \/ Answer(p, "served", a) \/ BackfillDone(p, TRUE)
    BY <1>3 DEF StatementFails
  <2>2. Calm(p)
    BY <2>1, CalmAnswer, CalmDone DEF DedupInv, Claimed
  <2>3. r.pc \in NeedsTarget
    BY <2>1 DEF NeedsTarget
  <2>4. Kept(Executed(p))
    <3>1. CASE r.pc = "upBackfill"
      <4>1. a \in Legacy /\ r.hash = LegacyContent[a]
        BY <3>1 DEF DedupInv, LocalsAllFit, LocalsFit
      <4>2. QED
        BY <3>1, <4>1, HashProper DEF Executed
    <3>2. CASE r.pc # "upBackfill"
      BY <2>1, <2>3, <3>2, OwnStatements DEF Executed
    <3>3. QED
      BY <3>1, <3>2
  <2>5. Kept(rows')
    BY <1>1, <2>4 DEF DedupInv, Kept
  <2>6. QED
    BY <1>1, <2>2, <2>5, WriteCalm
<1>4. QED
  BY <1>2, <1>3

LEMMA FaultFits ==
    ASSUME DedupInv, TypeInv', NEW p \in Procs, FaultStep(p)
    PROVE  DedupInv'
<1> USE DEF At
<1> DEFINE r == req[p]
<1>0. TypeInv /\ TypeOK
  BY DEF DedupInv, TypeInv
<1>1. CASE ReadFails(p)
  <2>1. Calm(p)
    BY <1>0, <1>1, CalmAnswer, CalmDone DEF ReadFails, Claimed
  <2>2. QED
    BY <1>1, <2>1, ReadCalm DEF ReadFails
<1>2. CASE StatementFails(p)
  BY <1>2, StatementFailsFits
<1>3. CASE OriginalNotSaved(p)
  <2>1. Calm(p) /\ UNCHANGED rows
    BY <1>0, <1>3, CalmAnswer DEF OriginalNotSaved, Claimed
  <2>2. PICK a \in Ids \ issued :
            /\ issued' = issued \cup {a}
            /\ originals' \in {originals, [originals EXCEPT ![a] = "partial"]}
    BY <1>3 DEF OriginalNotSaved
  <2>3. \A f \in Ids \ {a} : originals'[f] = originals[f]
    BY <1>0, <2>2 DEF TypeOK
  <2>4. QED
    BY <2>1, <2>2, <2>3, DrawFits DEF Calm
<1>4. CASE ThumbnailNotSaved(p)
  <2>1. UNCHANGED <<rows, originals, issued>>
    BY <1>4 DEF ThumbnailNotSaved
  <2>2. CASE r.pc = "upThumb" /\ Goto(p, "upPreview", r)
    BY <2>1, <2>2, MakingFits DEF Filling, Making
  <2>3. CASE Answer(p, "served", r.target)
    BY <1>0, <2>1, <2>3, CalmAnswer, ReadCalm DEF Claimed
  <2>4. QED
    BY <1>4, <2>2, <2>3 DEF ThumbnailNotSaved
<1>5. CASE PreviewNotSaved(p)
  <2>1. UNCHANGED <<rows, originals, issued>>
    BY <1>5 DEF PreviewNotSaved
  <2>2. CASE r.pc = "upPreview" /\ Goto(p, "upInsert", r)
    BY <2>1, <2>2, MakingFits DEF Filling, Making
  <2>3. CASE BackfillDone(p, TRUE)
    BY <1>0, <2>1, <2>3, CalmDone, ReadCalm
  <2>4. QED
    BY <1>5, <2>2, <2>3 DEF PreviewNotSaved
<1>6. CASE UnlinkFails(p)
  <2>1. CASE At(p, "upUndo")
    BY <1>6, <2>1, UndoFits
  <2>2. CASE ~At(p, "upUndo")
    <3>1. Answer(p, "failed", r.target) /\ UNCHANGED <<rows, originals, issued>>
      BY <1>6, <2>2 DEF UnlinkFails
    <3>2. QED
      BY <1>0, <3>1, CalmAnswer, ReadCalm DEF Claimed
  <2>3. QED
    BY <2>1, <2>2
<1>7. CASE Die(p)
  <2>1. Calm(p)
    BY <1>0, <1>7 DEF Die, TypeOK, Calm, OthersKeep, Idle, Making, Filling
  <2>2. QED
    BY <1>7, <2>1, ReadCalm DEF Die
<1>8. QED
  BY <1>1, <1>2, <1>3, <1>4, <1>5, <1>6, <1>7 DEF FaultStep

LEMMA RestFits ==
    ASSUME DedupInv, TypeInv', Midnight \/ UNCHANGED vars \/ \E p \in Procs : Respond(p)
    PROVE  DedupInv'
<1>1. CASE Midnight \/ UNCHANGED vars
  <2>1. UNCHANGED <<rows, originals, issued, req>>
    BY <1>1 DEF Midnight, vars
  <2>2. QED
    BY <2>1 DEF DedupInv, IssuedOK, TableOK, FilesOK, LocalsAllFit, LocalsFit,
                OwnersOK, ClaimsOK, Claims, Holds, Exists
<1>2. ASSUME NEW p \in Procs, Respond(p)
      PROVE  DedupInv'
  <2>1. Calm(p)
    BY <1>2 DEF Respond, DedupInv, TypeInv, TypeOK, Calm, OthersKeep, Idle, Making, Filling
  <2>2. QED
    BY <1>2, <2>1, ReadCalm DEF Respond, stored
<1>3. QED
  BY <1>1, <1>2

-----------------------------------------------------------------------------
(* The theorems. *)

LEMMA InitFits == Init => DedupInv
<1> SUFFICES ASSUME Init PROVE DedupInv
  OBVIOUS
<1>1. LibInv
  BY InitKeeps
<1>2. \A p \in Procs : req[p].pc = "idle"
  BY DEF Init, Idle
<1>3. LocalsAllFit /\ OwnersOK /\ ClaimsOK
  BY <1>2 DEF LocalsAllFit, LocalsFit, OwnersOK, ClaimsOK, Claims, Making, Filling
<1>4. \A a \in Ids : /\ rows[a].hash = Null
                     /\ rows[a].state # "none" <=> a \in Legacy
                     /\ a \in Legacy => rows[a].content = LegacyContent[a]
  BY DEF Init, NoRow
<1>5. TableOK(rows)
  BY <1>4 DEF TableOK
<1>6. FilesOK
  BY <1>1, <1>4, LegacyAssumption DEF LibInv, LiveOriginals, Exists, FilesOK, StoragePath
<1>7. QED
  BY <1>1, <1>3, <1>5, <1>6 DEF DedupInv, LibInv

LEMMA NextFits == DedupInv /\ [Next]_vars => DedupInv'
<1> SUFFICES ASSUME DedupInv, [Next]_vars PROVE DedupInv'
  OBVIOUS
<1>1. TypeInv'
  BY NextType DEF DedupInv
<1>2. ASSUME NEW p \in Procs, Step(p) PROVE DedupInv'
  BY <1>1, <1>2, UploadFits, TrashFits, DerivedFits, RestFits DEF Step
<1>3. ASSUME NEW p \in Procs, Start(p) \/ FaultStep(p) PROVE DedupInv'
  BY <1>1, <1>3, StartFits, FaultFits
<1>4. CASE UNCHANGED vars
  BY <1>1, <1>4, RestFits
<1>5. QED
  BY <1>1, <1>2, <1>3, <1>4, RestFits DEF Next

\* Of two active rows with one content at least one is a legacy row not hashed yet,
\* however uploads, restores and the hashing of legacy rows interleave, also when
\* statements are committed without their caller learning it (service.go:55-63,
\* 116-124; the index of migrations/0003).
THEOREM ContentUnique == Spec => []ActiveContentUnique
<1>1. DedupInv => ActiveContentUnique
  BY DEF DedupInv, TableOK, ActiveContentUnique, Active
<1>2. QED
  BY <1>1, InitFits, NextFits, PTL DEF Spec

\* Whatever happens between an upload's look-ups, its INSERT and its clean-up, the
\* asset it is answered with holds what was uploaded or was purged meanwhile
\* (service.go:55-130, 597-621).
THEOREM AnsweredAlike == Spec => []UploadAnswersSameContent
<1>1. DedupInv => UploadAnswersSameContent
  BY DEF DedupInv, ClaimsOK, Claims, Claimed, Holds, UploadAnswersSameContent, At
<1>2. QED
  BY <1>1, InitFits, NextFits, PTL DEF Spec
=============================================================================
