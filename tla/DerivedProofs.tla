---------------------------- MODULE DerivedProofs ----------------------------
(***************************************************************************)
(* Thumbnails and previews, for all values of the constants: a recorded    *)
(* path names a file, and as long as nothing failed and one backfill runs  *)
(* at a time a recorded preview is complete. The command                   *)
(* backfill-thumbnails is a client of the media service like any other,    *)
(* and leaves no listed asset without a thumbnail when it succeeds.        *)
(***************************************************************************)
EXTENDS ThumbnailBackfill, RequestProofs

-----------------------------------------------------------------------------
(* Files: the inductive invariant. *)

HasThumb(a, d) == d \in Days => thumbnails[a][d] # "none"
HasPreview(a, d) == d \in Days => previews[a][d] # "none"

Recorded(a) ==
    Exists(a) => HasThumb(a, rows[a].thumb) /\ HasPreview(a, rows[a].preview)

\* A request that is about to record a path has its file, unless the asset is gone.
HeldPCs == Filling \cup {"thWrite", "thRecord", "bfWrite", "bfRecord"}

HeldOK(r) ==
    /\ r.pc \in Filling =>
          HasThumb(r.target, r.asset.thumb) /\ HasPreview(r.target, r.asset.preview)
    /\ r.pc \in {"thWrite", "thRecord"} /\ Exists(r.target) =>
          HasThumb(r.target, r.asset.thumb)
    /\ r.pc \in {"bfWrite", "bfRecord"} /\ Exists(r.target) =>
          HasPreview(r.target, r.asset.preview)

FilesHeld ==
    Reliable => /\ \A a \in Ids : Recorded(a)
                /\ \A p \in Procs : HeldOK(req[p])

\* As long as nothing failed, only a file that is just being written is empty.
Writes(p, pc, a) == req[p].pc = pc /\ req[p].target = a

ThumbsWhole ==
    \A a \in Ids, d \in Days :
        \/ thumbnails[a][d] \in {"none", "whole"}
        \/ /\ thumbnails[a][d] = "empty"
           /\ \E p \in Procs : Writes(p, "thWrite", a) /\ req[p].asset.thumb = d

PreviewsWhole ==
    \A a \in Ids, d \in Days :
        \/ previews[a][d] \in {"none", "whole"}
        \/ /\ previews[a][d] = "empty"
           /\ \E p \in Procs : Writes(p, "bfWrite", a) /\ req[p].asset.preview = d

\* The only backfill finds the assets still on its list, and the one it works on,
\* without a preview.
OneBackfill ==
    \A p, q \in Procs : "backfill" \in Kinds[p] /\ "backfill" \in Kinds[q] => p = q

BackfillPCs == {"bfList"} \cup BackfillLoop

KindOK(p) == req[p].pc \in BackfillPCs => "backfill" \in Kinds[p]

Unrecorded(a) == Settled(a) /\ (Exists(a) => rows[a].preview \notin Days)

FreshOK(r) ==
    /\ r.pc \in BackfillLoop => \A a \in r.todo : Unrecorded(a)
    /\ r.pc \in BackfillWork => Unrecorded(r.target) /\ r.target \notin r.todo

AllFilesOK ==
    /\ FilesHeld
    /\ faults = 0 => ThumbsWhole /\ PreviewsWhole
    /\ \A p \in Procs : KindOK(p)
    /\ faults = 0 /\ OneBackfill => \A p \in Procs : FreshOK(req[p])

FilesInv == SeenInv /\ AllFilesOK

-----------------------------------------------------------------------------
(* What a step must leave alone. *)

\* No file disappears but those of an asset that is gone.
FilesStay ==
    \A a \in Ids : ~Gone(a) => \A d \in Days :
        /\ thumbnails[a][d] # "none" => thumbnails'[a][d] # "none"
        /\ previews[a][d] # "none" => previews'[a][d] # "none"

UnrecordedStay == \A a : Unrecorded(a) => Unrecorded(a)'

\* new has no rows but those of the table, with the same paths.
PathsSame(new) ==
    \A a \in Ids : new[a].state # "none" =>
        /\ rows[a].state # "none"
        /\ new[a].thumb = rows[a].thumb /\ new[a].preview = rows[a].preview

LEMMA StatementsKeepSame ==
    ASSUME TypeInv, NEW a \in Ids
    PROVE  /\ PathsSame(rows)
           /\ \A h : PathsSame(UpdateContentHash(a, h))
           /\ PathsSame(SoftDelete(a))
           /\ PathsSame(Restore(a))
           /\ PathsSame(Delete(a))
<1>1. rows \in [Ids -> Row]
  BY DEF TypeInv, TypeOK
<1>2. PathsSame(rows)
  BY DEF PathsSame
<1>3. \A h : PathsSame(UpdateContentHash(a, h))
  BY <1>1 DEF PathsSame, UpdateContentHash, Row
<1>4. PathsSame(SoftDelete(a))
  BY <1>1 DEF PathsSame, SoftDelete, SoftDeleteOutcome, Row
<1>5. PathsSame(Restore(a))
  <2>1. RestoreOutcome(a) = "ok" => rows[a].state = "trashed"
    BY DEF RestoreOutcome
  <2>2. QED
    BY <1>1, <2>1 DEF PathsSame, Restore, Row
<1>6. PathsSame(Delete(a))
  BY <1>1 DEF PathsSame, Delete, DeleteOutcome, NoRow
<1>7. QED
  BY <1>2, <1>3, <1>4, <1>5, <1>6

LEMMA SameUnrecorded ==
    ASSUME FilesInv, SeenNext, PathsSame(rows')
    PROVE  UnrecordedStay
<1>1. \A a : Unrecorded(a) => a \in Ids /\ Settled(a)'
  BY SeenStays DEF SeenNext, Unrecorded, Settled, FilesInv, SeenInv, DedupInv, TypeInv,
                   TypeOK
<1>2. QED
  BY <1>1 DEF UnrecordedStay, Unrecorded, PathsSame, Exists

\* A step of p, given what is asked of p after it.
LEMMA FilesAfter ==
    ASSUME FilesInv, TypeInv', SeenNext, NEW p \in Procs, OthersKeep(p),
           NEW s, s = req'[p],
           s.pc \in BackfillPCs => req[p].pc \in BackfillPCs \/ "backfill" \in Kinds[p],
           Reliable' => FilesStay /\ (\A a \in Ids : Recorded(a)') /\ HeldOK(s)',
           faults' = 0 => ThumbsWhole' /\ PreviewsWhole',
           faults' = 0 /\ OneBackfill =>
               /\ FreshOK(s)'
               /\ req[p].pc = "bfRecord" \/ UnrecordedStay
    PROVE  AllFilesOK'
<1>1. Reliable' => Reliable
  BY DEF SeenNext, Counted, Reliable
<1>2. ASSUME NEW q \in Procs, Reliable' PROVE HeldOK(req[q])'
  <2> PICK r : r = req'[q]
    OBVIOUS
  <2>1. CASE q = p
    <3>1. r = s
      BY <2>1
    <3>2. QED
      BY <1>2, <3>1 DEF HeldOK
  <2>2. CASE q # p
    <3>1. r = req[q]
      BY <2>2 DEF OthersKeep
    <3>2. HeldOK(r) /\ FilesStay
      BY <1>1, <1>2, <3>1 DEF FilesInv, AllFilesOK, FilesHeld
    <3>3. r.pc \in HeldPCs => r.target \in Ids
      BY <3>1, Locals DEF FilesInv, SeenInv, DedupInv, HeldPCs, Filling, NeedsTarget
    <3>4. r.pc \in Filling => ~Gone(r.target)
      BY <3>1 DEF Gone, Settled
    <3>5. r.pc \in {"thWrite", "thRecord", "bfWrite", "bfRecord"} /\ Exists(r.target)'
             => Exists(r.target)
      <4>1. r.pc \in {"thWrite", "thRecord", "bfWrite", "bfRecord"} => Settled(r.target)
        BY <3>1 DEF FilesInv, SeenInv, AllSeenOK, SeenOK, TargetOK, Looked
      <4>2. QED
        BY <4>1 DEF SeenNext, AllStay, Stays, Exists
    <3>6. Exists(r.target) => ~Gone(r.target)
      BY DEF Gone
    <3>7. HeldOK(r)'
      BY <3>2, <3>3, <3>4, <3>5, <3>6 DEF HeldOK, FilesStay, HasThumb, HasPreview, HeldPCs
    <3>8. QED
      BY <3>7 DEF HeldOK
  <2>3. QED
    BY <2>1, <2>2
<1>3. FilesHeld'
  BY <1>2 DEF FilesHeld
<1>4. \A q \in Procs : KindOK(q)'
  BY DEF KindOK, OthersKeep, FilesInv, AllFilesOK
<1>5. ASSUME faults' = 0, OneBackfill, NEW q \in Procs PROVE FreshOK(req[q])'
  <2> PICK r : r = req'[q]
    OBVIOUS
  <2>1. CASE q = p
    <3>1. r = s
      BY <2>1
    <3>2. QED
      BY <1>5, <3>1 DEF FreshOK
  <2>2. CASE q # p
    <3>1. r = req[q]
      BY <2>2 DEF OthersKeep
    <3>2. FreshOK(r)
      BY <1>5, <3>1 DEF SeenNext, Counted, FilesInv, AllFilesOK
    <3>3. r.pc \in BackfillLoop => UnrecordedStay
      BY <1>5, <2>2, <3>1 DEF FilesInv, AllFilesOK, KindOK, OneBackfill, BackfillPCs,
                              BackfillLoop, BackfillWork
    <3>4. FreshOK(r)'
      BY <3>2, <3>3 DEF FreshOK, UnrecordedStay, BackfillLoop
    <3>5. QED
      BY <3>4 DEF FreshOK
  <2>3. QED
    BY <2>1, <2>2
<1>6. QED
  BY <1>3, <1>4, <1>5 DEF AllFilesOK

\* The thumbnails, or the previews, are not touched by a step of somebody who is not
\* writing one.
LEMMA ThumbsUntouched ==
    ASSUME FilesInv, SeenNext, NEW p \in Procs, OthersKeep(p), UNCHANGED thumbnails,
           req[p].pc # "thWrite"
    PROVE  faults' = 0 => ThumbsWhole'
<1>1. \A q \in Procs, a \in Ids : Writes(q, "thWrite", a) => req'[q] = req[q]
  BY DEF Writes, OthersKeep
<1>2. faults' = 0 => ThumbsWhole
  BY DEF SeenNext, Counted, FilesInv, AllFilesOK
<1>3. QED
  BY <1>1, <1>2 DEF ThumbsWhole, Writes

LEMMA PreviewsUntouched ==
    ASSUME FilesInv, SeenNext, NEW p \in Procs, OthersKeep(p), UNCHANGED previews,
           req[p].pc # "bfWrite"
    PROVE  faults' = 0 => PreviewsWhole'
<1>1. \A q \in Procs, a \in Ids : Writes(q, "bfWrite", a) => req'[q] = req[q]
  BY DEF Writes, OthersKeep
<1>2. faults' = 0 => PreviewsWhole
  BY DEF SeenNext, Counted, FilesInv, AllFilesOK
<1>3. QED
  BY <1>1, <1>2 DEF PreviewsWhole, Writes

\* A step of p that touches no file and records no path.
LEMMA QuietFiles ==
    ASSUME FilesInv, TypeInv', SeenNext, NEW p \in Procs, OthersKeep(p),
           PathsSame(rows'), UNCHANGED <<thumbnails, previews>>,
           req[p].pc \notin {"thWrite", "bfWrite"},
           req'[p].pc \in BackfillPCs =>
               req[p].pc \in BackfillPCs \/ "backfill" \in Kinds[p],
           Reliable => HeldOK(req'[p]),
           faults = 0 /\ OneBackfill => FreshOK(req'[p])
    PROVE  AllFilesOK'
<1> PICK s : s = req'[p]
  OBVIOUS
<1>1. (Reliable' => Reliable) /\ (faults' = 0 => faults = 0)
  BY DEF SeenNext, Counted, Reliable
<1>2. UnrecordedStay
  BY SameUnrecorded
<1>3. s.pc \in HeldPCs => s.target \in Ids
  BY DEF TypeInv, ReqOK, LocalsOK, HeldPCs, Filling, NeedsTarget
<1>4. HeldOK(s) => HeldOK(s)'
  BY <1>3 DEF HeldOK, HasThumb, HasPreview, HeldPCs, PathsSame, Exists
<1>5. \A a \in Ids : Recorded(a) => Recorded(a)'
  BY DEF Recorded, HasThumb, HasPreview, PathsSame, Exists
<1>6. FilesStay
  BY DEF FilesStay
<1>7. FreshOK(s) => FreshOK(s)'
  BY <1>2 DEF FreshOK, UnrecordedStay
<1>8. faults' = 0 => ThumbsWhole' /\ PreviewsWhole'
  BY ThumbsUntouched, PreviewsUntouched
<1>9. /\ Reliable => HeldOK(s) /\ \A a \in Ids : Recorded(a)
      /\ faults = 0 /\ OneBackfill => FreshOK(s)
  BY DEF FilesInv, AllFilesOK, FilesHeld
<1>10. QED
  BY <1>1, <1>2, <1>4, <1>5, <1>6, <1>7, <1>8, <1>9, FilesAfter

\* The same, when p then neither is about to record a path nor runs a backfill.
Aside(p) == OthersKeep(p) /\ req'[p].pc \notin HeldPCs \cup BackfillPCs

LEMMA AsideFiles ==
    ASSUME FilesInv, TypeInv', SeenNext, NEW p \in Procs, Aside(p),
           PathsSame(rows'), UNCHANGED <<thumbnails, previews>>,
           req[p].pc \notin {"thWrite", "bfWrite"}
    PROVE  AllFilesOK'
<1>1. /\ HeldOK(req'[p]) /\ FreshOK(req'[p]) /\ OthersKeep(p)
      /\ req'[p].pc \notin BackfillPCs
  BY DEF Aside, HeldOK, HeldPCs, FreshOK, BackfillPCs, BackfillLoop
<1>2. QED
  BY <1>1, QuietFiles

LEMMA AsideGoto ==
    ASSUME TypeInv, TypeInv', NEW p \in Procs, NEW pc, NEW local, Goto(p, pc, local),
           pc \notin HeldPCs \cup BackfillPCs
    PROVE  Aside(p)
BY GotoSeen DEF Aside

LEMMA AsideAnswer ==
    ASSUME TypeInv, NEW p \in Procs, NEW how, NEW a, Answer(p, how, a)
    PROVE  Aside(p)
BY AnswerSeen DEF Aside, HeldPCs, Filling, BackfillPCs, BackfillLoop, BackfillWork

-----------------------------------------------------------------------------
(* Files written and unlinked. *)

\* One thumbnail is written, or its file created.
LEMMA ThumbSaved ==
    ASSUME FilesInv, TypeInv', SeenNext, NEW p \in Procs, OthersKeep(p),
           UNCHANGED <<rows, previews>>, NEW a, NEW d,
           \A b \in Ids, e \in Days :
               \/ thumbnails'[b][e] = thumbnails[b][e]
               \/ /\ b = a /\ e = d
                  /\ thumbnails[b][e] # "none" => thumbnails'[b][e] # "none"
                  /\ \/ thumbnails'[b][e] \in {"none", "whole"} \/ faults' # 0
                     \/ /\ thumbnails'[b][e] = "empty"
                        /\ req'[p].pc = "thWrite" /\ req'[p].target = a
                        /\ req'[p].asset.thumb = d,
           req[p].pc # "bfWrite" /\ req'[p].pc \notin BackfillPCs,
           req[p].pc = "thWrite" =>
               /\ req[p].target = a /\ req[p].asset.thumb = d
               /\ faults' = 0 => thumbnails'[a][d] \in {"none", "whole"},
           NEW s, s = req'[p], Reliable' => HeldOK(s)'
    PROVE  AllFilesOK'
<1>1. (Reliable' => Reliable) /\ (faults' = 0 => faults = 0)
  BY DEF SeenNext, Counted, Reliable
<1>2. PathsSame(rows') /\ UnrecordedStay
  BY SameUnrecorded DEF PathsSame
<1>3. FilesStay
  BY DEF FilesStay
<1>4. \A b \in Ids : Recorded(b) => Recorded(b)'
  BY DEF Recorded, HasThumb, HasPreview, Exists
<1>5. FreshOK(s)'
  BY DEF FreshOK, BackfillPCs, BackfillLoop
<1>6. ASSUME faults' = 0 PROVE ThumbsWhole'
  <2>1. ThumbsWhole
    BY <1>1, <1>6 DEF FilesInv, AllFilesOK
  <2>2. ASSUME NEW b \in Ids, NEW e \in Days,
               thumbnails'[b][e] \notin {"none", "whole"}
        PROVE  /\ thumbnails'[b][e] = "empty"
               /\ \E q \in Procs : /\ req'[q].pc = "thWrite" /\ req'[q].target = b
                                   /\ req'[q].asset.thumb = e
    <3>1. CASE b = a /\ e = d /\ req[p].pc = "thWrite"
      BY <1>6, <2>2, <3>1
    <3>2. CASE /\ thumbnails'[b][e] = thumbnails[b][e]
               /\ ~(b = a /\ e = d /\ req[p].pc = "thWrite")
      <4>1. PICK q \in Procs : Writes(q, "thWrite", b) /\ req[q].asset.thumb = e
        BY <2>1, <2>2, <3>2 DEF ThumbsWhole
      <4>2. q # p
        BY <3>2, <4>1 DEF Writes
      <4>3. req'[q] = req[q]
        BY <4>2 DEF OthersKeep
      <4>4. QED
        BY <2>1, <2>2, <3>2, <4>1, <4>3 DEF ThumbsWhole, Writes
    <3>3. CASE thumbnails'[b][e] # thumbnails[b][e]
      BY <1>6, <2>2, <3>3
    <3>4. QED
      BY <3>1, <3>2, <3>3
  <2>3. QED
    BY <2>2 DEF ThumbsWhole, Writes
<1>7. faults' = 0 => PreviewsWhole'
  BY PreviewsUntouched
<1>8. Reliable => \A b \in Ids : Recorded(b)
  BY DEF FilesInv, AllFilesOK, FilesHeld
<1>9. QED
  BY <1>1, <1>2, <1>3, <1>4, <1>5, <1>6, <1>7, <1>8, FilesAfter

\* One preview is written, or its file created.
LEMMA PreviewSaved ==
    ASSUME FilesInv, TypeInv', SeenNext, NEW p \in Procs, OthersKeep(p),
           UNCHANGED <<rows, thumbnails>>, NEW a, NEW d,
           \A b \in Ids, e \in Days :
               \/ previews'[b][e] = previews[b][e]
               \/ /\ b = a /\ e = d
                  /\ previews[b][e] # "none" => previews'[b][e] # "none"
                  /\ \/ previews'[b][e] \in {"none", "whole"} \/ faults' # 0
                     \/ /\ previews'[b][e] = "empty"
                        /\ req'[p].pc = "bfWrite" /\ req'[p].target = a
                        /\ req'[p].asset.preview = d,
           req[p].pc # "thWrite",
           req'[p].pc \in BackfillPCs => req[p].pc \in BackfillPCs,
           req[p].pc = "bfWrite" =>
               /\ req[p].target = a /\ req[p].asset.preview = d
               /\ faults' = 0 => previews'[a][d] \in {"none", "whole"},
           NEW s, s = req'[p], Reliable' => HeldOK(s)',
           faults = 0 /\ OneBackfill => FreshOK(s)
    PROVE  AllFilesOK'
<1>1. (Reliable' => Reliable) /\ (faults' = 0 => faults = 0)
  BY DEF SeenNext, Counted, Reliable
<1>2. PathsSame(rows') /\ UnrecordedStay
  BY SameUnrecorded DEF PathsSame
<1>3. FilesStay
  BY DEF FilesStay
<1>4. \A b \in Ids : Recorded(b) => Recorded(b)'
  BY DEF Recorded, HasThumb, HasPreview, Exists
<1>5. FreshOK(s) => FreshOK(s)'
  BY <1>2 DEF FreshOK, UnrecordedStay
<1>6. ASSUME faults' = 0 PROVE PreviewsWhole'
  <2>1. PreviewsWhole
    BY <1>1, <1>6 DEF FilesInv, AllFilesOK
  <2>2. ASSUME NEW b \in Ids, NEW e \in Days,
               previews'[b][e] \notin {"none", "whole"}
        PROVE  /\ previews'[b][e] = "empty"
               /\ \E q \in Procs : /\ req'[q].pc = "bfWrite" /\ req'[q].target = b
                                   /\ req'[q].asset.preview = e
    <3>1. CASE b = a /\ e = d /\ req[p].pc = "bfWrite"
      BY <1>6, <2>2, <3>1
    <3>2. CASE /\ previews'[b][e] = previews[b][e]
               /\ ~(b = a /\ e = d /\ req[p].pc = "bfWrite")
      <4>1. PICK q \in Procs : Writes(q, "bfWrite", b) /\ req[q].asset.preview = e
        BY <2>1, <2>2, <3>2 DEF PreviewsWhole
      <4>2. q # p
        BY <3>2, <4>1 DEF Writes
      <4>3. req'[q] = req[q]
        BY <4>2 DEF OthersKeep
      <4>4. QED
        BY <2>1, <2>2, <3>2, <4>1, <4>3 DEF PreviewsWhole, Writes
    <3>3. CASE previews'[b][e] # previews[b][e]
      BY <1>6, <2>2, <3>3
    <3>4. QED
      BY <3>1, <3>2, <3>3
  <2>3. QED
    BY <2>2 DEF PreviewsWhole, Writes
<1>7. faults' = 0 => ThumbsWhole'
  BY ThumbsUntouched
<1>8. Reliable => \A b \in Ids : Recorded(b)
  BY DEF FilesInv, AllFilesOK, FilesHeld
<1>9. QED
  BY <1>1, <1>2, <1>3, <1>4, <1>5, <1>6, <1>7, <1>8, FilesAfter

\* The files of an asset that is gone are unlinked, or some of them.
LEMMA FilesUnlinked ==
    ASSUME FilesInv, TypeInv', SeenNext, NEW p \in Procs, Aside(p), UNCHANGED rows,
           NEW a, NEW d, NEW e, Reliable' => Gone(a),
           thumbnails' \in {thumbnails, Unlinked(thumbnails, a, d)},
           previews' \in {previews, Unlinked(previews, a, e)},
           req[p].pc \notin {"thWrite", "bfWrite"}
    PROVE  AllFilesOK'
<1> PICK s : s = req'[p]
  OBVIOUS
<1>1. (Reliable' => Reliable) /\ (faults' = 0 => faults = 0)
  BY DEF SeenNext, Counted, Reliable
<1>2. PathsSame(rows') /\ UnrecordedStay
  BY SameUnrecorded DEF PathsSame
<1>3. /\ thumbnails \in [Ids -> [Days -> DerivedFile]]
      /\ previews \in [Ids -> [Days -> DerivedFile]]
  BY DEF FilesInv, SeenInv, DedupInv, TypeInv, TypeOK
<1>4. \A b \in Ids, f \in Days :
          /\ thumbnails'[b][f] \in {thumbnails[b][f], "none"}
          /\ previews'[b][f] \in {previews[b][f], "none"}
          /\ b # a => /\ thumbnails'[b][f] = thumbnails[b][f]
                      /\ previews'[b][f] = previews[b][f]
  BY <1>3 DEF Unlinked
<1>5. Reliable' => FilesStay
  BY <1>4 DEF FilesStay
<1>6. Reliable' => \A b \in Ids : Recorded(b) => Recorded(b)'
  BY <1>4 DEF Recorded, HasThumb, HasPreview, Exists, Gone
<1>7. FreshOK(s)' /\ HeldOK(s)' /\ OthersKeep(p) /\ s.pc \notin BackfillPCs
  BY DEF Aside, FreshOK, HeldOK, HeldPCs, BackfillPCs, BackfillLoop
<1>8. /\ \A q \in Procs, b \in Ids : Writes(q, "thWrite", b) => req'[q] = req[q]
      /\ \A q \in Procs, b \in Ids : Writes(q, "bfWrite", b) => req'[q] = req[q]
  BY DEF Writes, Aside, OthersKeep
<1>9. faults' = 0 => ThumbsWhole /\ PreviewsWhole
  BY <1>1 DEF FilesInv, AllFilesOK
<1>10. faults' = 0 => ThumbsWhole'
  BY <1>4, <1>8, <1>9 DEF ThumbsWhole, Writes
<1>11. faults' = 0 => PreviewsWhole'
  BY <1>4, <1>8, <1>9 DEF PreviewsWhole, Writes
<1>12. Reliable => \A b \in Ids : Recorded(b)
  BY DEF FilesInv, AllFilesOK, FilesHeld
<1>13. QED
  BY <1>1, <1>2, <1>5, <1>6, <1>7, <1>10, <1>11, <1>12, FilesAfter

\* A fault, after which only what holds under any fault is asked.
LEMMA FaultFiles ==
    ASSUME FilesInv, TypeInv', SeenNext, NEW p \in Procs, OthersKeep(p), faults' # 0,
           req'[p].pc \in BackfillPCs => req[p].pc \in BackfillPCs,
           req'[p].pc \in HeldPCs => UNCHANGED <<rows, thumbnails, previews>>
                                     /\ HeldOK(req'[p]),
           Reliable' => FilesStay /\ PathsSame(rows')
    PROVE  AllFilesOK'
<1> PICK s : s = req'[p]
  OBVIOUS
<1>1. Reliable' => Reliable
  BY DEF SeenNext, Counted, Reliable
<1>2. s.pc \in HeldPCs => HeldOK(s)'
  BY DEF HeldOK, HasThumb, HasPreview, Exists
<1>3. s.pc \notin HeldPCs => HeldOK(s)'
  BY DEF HeldOK, HeldPCs
<1>4. Reliable => \A b \in Ids : Recorded(b)
  BY DEF FilesInv, AllFilesOK, FilesHeld
<1>5. Reliable' => \A b \in Ids : Recorded(b)'
  BY <1>1, <1>4 DEF Recorded, HasThumb, HasPreview, Exists, FilesStay, PathsSame, Gone
<1>6. QED
  BY <1>1, <1>2, <1>3, <1>5, FilesAfter

-----------------------------------------------------------------------------
(* Uploads. *)

\* The files of the asset that p makes are there, and p goes on to record them.
LEMMA UploadSaves ==
    ASSUME FilesInv, TypeInv', SeenNext, NEW p \in Procs,
           UploadThumb(p) \/ UploadPreview(p)
    PROVE  AllFilesOK'
<1> USE DEF At
<1> DEFINE r == req[p]
           a == r.target
           l == [r EXCEPT !.asset.thumb = today]
           m == [r EXCEPT !.asset.preview = today]
<1>0. /\ TypeInv /\ r \in Request /\ r.asset \in Row /\ today \in Days
      /\ thumbnails \in [Ids -> [Days -> DerivedFile]]
      /\ previews \in [Ids -> [Days -> DerivedFile]]
  BY Locals DEF FilesInv, SeenInv, DedupInv, TypeInv, TypeOK, Request
<1>1. r.pc \in Filling /\ a \in Ids
  BY Locals, <1>0 DEF UploadThumb, UploadPreview, Filling, NeedsTarget
<1>2. /\ l.target = a /\ l.asset.thumb = today /\ l.asset.preview = r.asset.preview
      /\ m.target = a /\ m.asset.preview = today /\ m.asset.thumb = r.asset.thumb
  BY <1>0 DEF Request, Row
<1>3. Reliable' => HeldOK(r)
  BY DEF SeenNext, Counted, Reliable, FilesInv, AllFilesOK, FilesHeld
<1> HIDE DEF l, m
<1>4. CASE UploadThumb(p)
  <2>1. /\ r.pc = "upThumb" /\ UNCHANGED <<rows, previews>>
        /\ \/ /\ thumbnails' = [thumbnails EXCEPT ![a][today] = "whole"]
              /\ Goto(p, "upPreview", l)
           \/ UNCHANGED thumbnails /\ Goto(p, "upPreview", r)
    BY <1>4 DEF UploadThumb, l
  <2>2. /\ OthersKeep(p) /\ req'[p].pc = "upPreview" /\ req'[p].target = a
        /\ req'[p].asset.preview = r.asset.preview
        /\ \/ /\ thumbnails' = [thumbnails EXCEPT ![a][today] = "whole"]
              /\ req'[p].asset.thumb = today
           \/ UNCHANGED thumbnails /\ req'[p].asset.thumb = r.asset.thumb
    BY <1>0, <1>2, <2>1, GotoSeen
  <2> PICK s : s = req'[p]
    OBVIOUS
  <2>3. Reliable' => HeldOK(s)'
    BY <1>0, <1>1, <1>3, <2>1, <2>2 DEF HeldOK, HasThumb, HasPreview, Filling
  <2>4. \A b \in Ids, e \in Days :
          \/ thumbnails'[b][e] = thumbnails[b][e]
          \/ b = a /\ e = today /\ thumbnails'[b][e] = "whole"
    BY <1>0, <2>2
  <2>5. QED
    BY <2>1, <2>2, <2>3, <2>4, ThumbSaved DEF BackfillPCs, BackfillLoop, BackfillWork
<1>5. CASE UploadPreview(p)
  <2>1. /\ r.pc = "upPreview" /\ UNCHANGED <<rows, thumbnails>>
        /\ \/ /\ previews' = [previews EXCEPT ![a][today] = "whole"]
              /\ Goto(p, "upInsert", m)
           \/ UNCHANGED previews /\ Goto(p, "upInsert", r)
    BY <1>5 DEF UploadPreview, m
  <2>2. /\ OthersKeep(p) /\ req'[p].pc = "upInsert" /\ req'[p].target = a
        /\ req'[p].asset.thumb = r.asset.thumb
        /\ \/ /\ previews' = [previews EXCEPT ![a][today] = "whole"]
              /\ req'[p].asset.preview = today
           \/ UNCHANGED previews /\ req'[p].asset.preview = r.asset.preview
    BY <1>0, <1>2, <2>1, GotoSeen
  <2> PICK s : s = req'[p]
    OBVIOUS
  <2>3. Reliable' => HeldOK(s)'
    BY <1>0, <1>1, <1>3, <2>1, <2>2 DEF HeldOK, HasThumb, HasPreview, Filling
  <2>4. \A b \in Ids, e \in Days :
          \/ previews'[b][e] = previews[b][e]
          \/ b = a /\ e = today /\ previews'[b][e] = "whole"
    BY <1>0, <2>2
  <2>5. s.pc \notin BackfillPCs /\ FreshOK(s)
    BY <2>2 DEF FreshOK, BackfillPCs, BackfillLoop, BackfillWork
  <2>6. QED
    BY <2>1, <2>2, <2>3, <2>4, <2>5, PreviewSaved
<1>6. QED
  BY <1>4, <1>5

\* The row of an asset is inserted with paths of files that are there.
LEMMA InsertFiles ==
    ASSUME FilesInv, TypeInv', SeenNext, NEW p \in Procs, UploadInsert(p)
    PROVE  AllFilesOK'
<1> DEFINE a == req[p].target
           asset == req[p].asset
<1>1. /\ TypeInv /\ req[p].pc = "upInsert" /\ a \in Ids /\ rows \in [Ids -> Row]
  BY Locals DEF FilesInv, SeenInv, DedupInv, UploadInsert, At, NeedsTarget, TypeInv, TypeOK
<1>2. /\ rows' = Save(a, asset) /\ UNCHANGED <<thumbnails, previews>>
      /\ \/ \E how, b : Answer(p, how, b)
         \/ \E local : Goto(p, "upUndo", local)
  BY Zenon DEF UploadInsert
<1>3. OthersKeep(p) /\ req'[p].pc \in {"answer", "upUndo"}
  BY <1>1, <1>2, GotoSeen, AnswerSeen
<1> PICK s : s = req'[p]
  OBVIOUS
<1>4. HeldOK(s)' /\ FreshOK(s)' /\ s.pc \notin BackfillPCs
  BY <1>3 DEF HeldOK, FreshOK, Filling, BackfillPCs, BackfillLoop, BackfillWork
<1>5. \A b \in Ids : rows'[b] = rows[b] \/ (b = a /\ rows'[b] = asset)
  BY <1>1, <1>2 DEF Save
<1>6. Reliable => HeldOK(req[p]) /\ \A b \in Ids : Recorded(b)
  BY DEF FilesInv, AllFilesOK, FilesHeld
<1>7. Reliable' => Reliable
  BY DEF SeenNext, Counted, Reliable
<1>8. Reliable' => \A b \in Ids : Recorded(b)'
  BY <1>1, <1>2, <1>5, <1>6, <1>7
     DEF Recorded, HeldOK, HasThumb, HasPreview, Exists, Filling
<1>9. UnrecordedStay
  <2>1. \A b : Unrecorded(b) => b \in Ids /\ b # a /\ Settled(b)'
    BY <1>1, SeenStays
       DEF SeenNext, Unrecorded, Settled, Filling, FilesInv, SeenInv, DedupInv, TypeInv,
           TypeOK
  <2>2. QED
    BY <1>5, <2>1 DEF UnrecordedStay, Unrecorded, Exists
<1>10. FilesStay
  BY <1>2 DEF FilesStay
<1>11. faults' = 0 => ThumbsWhole' /\ PreviewsWhole'
  BY <1>1, <1>2, <1>3, ThumbsUntouched, PreviewsUntouched
<1>12. QED
  BY <1>3, <1>4, <1>8, <1>9, <1>10, <1>11, FilesAfter

LEMMA UploadFiles ==
    ASSUME FilesInv, TypeInv', SeenNext, NEW p \in Procs, UploadStep(p)
    PROVE  AllFilesOK'
<1> USE DEF At
<1> DEFINE r == req[p]
<1>0. /\ TypeInv /\ r \in Request /\ PathsSame(rows)
      /\ r.pc \in NeedsTarget => r.target \in Ids
  BY Locals DEF FilesInv, SeenInv, DedupInv, PathsSame
<1>1. CASE \/ UploadFind(p) \/ UploadFindTrash(p) \/ UploadLegacy(p) \/ UploadProbe(p)
           \/ UploadRefind(p)
  <2>1. /\ UNCHANGED <<rows, thumbnails, previews>>
        /\ r.pc \in {"upFind", "upFindTrash", "upLegacy", "upProbe", "upRefind"}
    BY <1>1 DEF UploadFind, UploadFindTrash, UploadLegacy, UploadProbe, UploadRefind, stored
  <2>2. \/ \E how, a : Answer(p, how, a)
        \/ \E pc \in BeforeFiles : \E local : Goto(p, pc, local)
    <3>1. {"upFindTrash", "upRestore", "upLegacy", "upProbe", "upBackfill", "upStore"}
              \subseteq BeforeFiles
      BY DEF BeforeFiles
    <3>2. CASE UploadFind(p) \/ UploadLegacy(p)
      BY <3>1, <3>2, Zenon DEF UploadFind, UploadLegacy
    <3>3. CASE UploadFindTrash(p)
      BY <3>1, <3>3, Zenon DEF UploadFindTrash
    <3>4. CASE UploadProbe(p)
      BY <3>1, <3>4, Zenon DEF UploadProbe
    <3>5. CASE UploadRefind(p)
      BY <3>1, <3>5, Zenon DEF UploadRefind
    <3>6. QED
      BY <1>1, <3>2, <3>3, <3>4, <3>5
  <2>3. Aside(p)
    BY <1>0, <2>2, AsideGoto, AsideAnswer
       DEF BeforeFiles, HeldPCs, Filling, BackfillPCs, BackfillLoop, BackfillWork
  <2>4. QED
    BY <1>0, <2>1, <2>3, AsideFiles
<1>2. CASE UploadRestore(p) \/ UploadBackfill(p)
  <2>1. /\ r.pc \in {"upRestore", "upBackfill"} /\ UNCHANGED <<thumbnails, previews>>
        /\ \/ rows' = Restore(r.target)
           \/ \E h : rows' = UpdateContentHash(r.target, h)
    BY <1>2 DEF UploadRestore, UploadBackfill
  <2>2. \/ \E how, a : Answer(p, how, a)
        \/ \E local : Goto(p, "upProbe", local)
    BY <1>2, Zenon DEF UploadRestore, UploadBackfill
  <2>3. Aside(p)
    BY <1>0, <2>2, AsideGoto, AsideAnswer
       DEF HeldPCs, Filling, BackfillPCs, BackfillLoop, BackfillWork
  <2>4. PathsSame(rows')
    BY <1>0, <2>1, StatementsKeepSame DEF NeedsTarget
  <2>5. QED
    BY <2>1, <2>3, <2>4, AsideFiles
<1>3. CASE UploadStore(p)
  <2>1. /\ UNCHANGED <<rows, thumbnails, previews>> /\ r.pc = "upStore"
        /\ \E a, row : /\ row.thumb = NoPath /\ row.preview = NoPath
                       /\ Goto(p, "upThumb", [r EXCEPT !.target = a, !.asset = row])
    <3>1. PICK a \in Ids \ issued :
              Goto(p, "upThumb",
                   [r EXCEPT !.target = a,
                      !.asset = [state |-> "active", content |-> r.content,
                                 hash |-> r.content, thumb |-> NoPath,
                                 preview |-> NoPath]])
      BY <1>3 DEF UploadStore
    <3> DEFINE row == [state |-> "active", content |-> r.content, hash |-> r.content,
                       thumb |-> NoPath, preview |-> NoPath]
    <3>2. row.thumb = NoPath /\ row.preview = NoPath
      OBVIOUS
    <3>3. Goto(p, "upThumb", [r EXCEPT !.target = a, !.asset = row])
      BY <3>1
    <3> HIDE DEF row
    <3>4. UNCHANGED <<rows, thumbnails, previews>> /\ r.pc = "upStore"
      BY <1>3 DEF UploadStore
    <3>5. QED
      BY <3>2, <3>3, <3>4
  <2>2. PICK a, row : /\ row.thumb = NoPath /\ row.preview = NoPath
                      /\ Goto(p, "upThumb", [r EXCEPT !.target = a, !.asset = row])
    BY <2>1
  <2> DEFINE l == [r EXCEPT !.target = a, !.asset = row]
  <2>3. l.asset = row
    BY <1>0 DEF Request
  <2>4. Goto(p, "upThumb", l)
    BY <2>2
  <2> HIDE DEF l
  <2>5. OthersKeep(p) /\ req'[p].pc = "upThumb" /\ req'[p].asset = row
    BY <1>0, <2>3, <2>4, GotoSeen
  <2>6. HeldOK(req'[p])
    BY <2>2, <2>5 DEF HeldOK, HasThumb, HasPreview, Days, NoPath, Filling
  <2>7. FreshOK(req'[p]) /\ req'[p].pc \notin BackfillPCs
    BY <2>5 DEF FreshOK, BackfillPCs, BackfillLoop, BackfillWork
  <2>8. QED
    BY <1>0, <2>1, <2>5, <2>6, <2>7, QuietFiles
<1>4. CASE UploadUndo(p)
  <2>1. /\ r.pc = "upUndo" /\ UNCHANGED rows
        /\ thumbnails' = Unlinked(thumbnails, r.target, r.asset.thumb)
        /\ previews' = Unlinked(previews, r.target, r.asset.preview)
    BY <1>4 DEF UploadUndo
  <2>2. \/ \E how, a : Answer(p, how, a)
        \/ \E local : Goto(p, "upRefind", local)
    BY <1>4, Zenon DEF UploadUndo
  <2>3. Aside(p)
    BY <1>0, <2>2, AsideGoto, AsideAnswer
       DEF HeldPCs, Filling, BackfillPCs, BackfillLoop, BackfillWork
  <2>4. Reliable' => Gone(r.target)
    BY <2>1 DEF SeenNext, Counted, Reliable, FilesInv, SeenInv, AllSeenOK, UndoneOK
  <2>5. QED
    BY <2>1, <2>3, <2>4, FilesUnlinked
<1>5. QED
  BY <1>1, <1>2, <1>3, <1>4, UploadSaves, InsertFiles DEF UploadStep

-----------------------------------------------------------------------------
(* The trash. *)

LEMMA TrashFiles ==
    ASSUME FilesInv, TypeInv', SeenNext, NEW p \in Procs, TrashStep(p)
    PROVE  AllFilesOK'
<1> USE DEF At
<1> DEFINE r == req[p]
           Pcs == {"delMark", "resMark", "purNext"} \cup Purges \cup Purging
           TrashPCs == {"delFind", "resFind", "emptyList"} \cup Pcs
<1>0. /\ TypeInv /\ r \in Request /\ PathsSame(rows)
      /\ r.pc \in NeedsTarget => r.target \in Ids
      /\ r.pc \in Purging => Gone(r.target)
  BY Locals DEF FilesInv, SeenInv, DedupInv, PathsSame, AllSeenOK, SeenOK, TargetOK
<1>1. \/ \E how, a : Answer(p, how, a)
      \/ \E pc \in Pcs : \E local : Goto(p, pc, local)
  <2>1. {"delMark", "resMark", "purNext", "purFind", "purCount", "purRow", "purThumb",
         "purPreview", "purOriginal"} \subseteq Pcs
    BY DEF Purges, Purging
  <2> HIDE DEF Pcs
  <2>2. CASE DeleteFind(p) \/ RestoreFind(p)
    BY <2>1, <2>2, Zenon DEF DeleteFind, RestoreFind
  <2>3. CASE DeleteMark(p) \/ RestoreMark(p)
    BY <2>3, Zenon DEF DeleteMark, RestoreMark
  <2>4. CASE EmptyList(p) \/ EmptyNext(p)
    BY <2>1, <2>4, Zenon DEF EmptyList, EmptyNext
  <2>5. CASE PurgeFind(p) \/ PurgeCount(p)
    BY <2>1, <2>5, Zenon DEF PurgeFind, PurgeCount
  <2>6. CASE PurgeRow(p)
    BY <2>1, <2>6, Zenon DEF PurgeRow
  <2>7. CASE PurgeThumb(p) \/ PurgePreview(p) \/ PurgeOriginal(p)
    BY <2>1, <2>7, Zenon DEF PurgeThumb, PurgePreview, PurgeOriginal
  <2>8. QED
    BY <2>2, <2>3, <2>4, <2>5, <2>6, <2>7 DEF TrashStep
<1>2. Aside(p)
  BY <1>0, <1>1, AsideGoto, AsideAnswer
     DEF Purges, Purging, HeldPCs, Filling, BackfillPCs, BackfillLoop, BackfillWork
<1>3. CASE \/ DeleteFind(p) \/ RestoreFind(p) \/ EmptyList(p) \/ EmptyNext(p)
           \/ PurgeFind(p) \/ PurgeCount(p) \/ PurgeOriginal(p)
  <2>1. UNCHANGED <<rows, thumbnails, previews>> /\ r.pc \in TrashPCs
    BY <1>3 DEF DeleteFind, RestoreFind, EmptyList, EmptyNext, PurgeFind, PurgeCount,
                PurgeOriginal, stored, Purges, Purging
  <2>2. QED
    BY <1>0, <1>2, <2>1, AsideFiles DEF Purges, Purging
<1>4. CASE DeleteMark(p) \/ RestoreMark(p) \/ PurgeRow(p)
  <2>1. /\ r.pc \in {"delMark", "resMark", "purRow"} /\ UNCHANGED <<thumbnails, previews>>
        /\ rows' \in {SoftDelete(r.target), Restore(r.target), Delete(r.target)}
    BY <1>4 DEF DeleteMark, RestoreMark, PurgeRow
  <2>2. PathsSame(rows')
    BY <1>0, <2>1, StatementsKeepSame DEF NeedsTarget
  <2>3. QED
    BY <1>2, <2>1, <2>2, AsideFiles
<1>5. CASE PurgeThumb(p) \/ PurgePreview(p)
  <2>1. /\ r.pc \in {"purThumb", "purPreview"} /\ UNCHANGED rows
        /\ thumbnails' \in {thumbnails, Unlinked(thumbnails, r.target, r.asset.thumb)}
        /\ previews' \in {previews, Unlinked(previews, r.target, r.asset.preview)}
    BY <1>5 DEF PurgeThumb, PurgePreview
  <2>2. QED
    BY <1>0, <1>2, <2>1, FilesUnlinked DEF Purging
<1>6. QED
  BY <1>3, <1>4, <1>5 DEF TrashStep

-----------------------------------------------------------------------------
(* Reading, and making thumbnails. *)

LEMMA ReadFiles ==
    ASSUME FilesInv, TypeInv', SeenNext, NEW p \in Procs,
           \/ DownloadFind(p) \/ DownloadOpen(p) \/ PreviewFind(p) \/ PreviewOpen(p)
           \/ ThumbnailFind(p) \/ ThumbnailOpen(p) \/ ThumbnailGenerate(p)
    PROVE  AllFilesOK'
<1> USE DEF At
<1> DEFINE r == req[p]
           Pcs == {"dlOpen", "pvOpen", "thOpen", "thGenerate", "thCreate"}
<1>0. TypeInv /\ PathsSame(rows)
  BY DEF FilesInv, SeenInv, DedupInv, PathsSame
<1>1. /\ \/ \E how, a : Answer(p, how, a)
         \/ \E pc \in Pcs : \E local : Goto(p, pc, local)
      /\ UNCHANGED stored
  <2>1. {"dlOpen", "pvOpen", "thOpen", "thGenerate", "thCreate"} \subseteq Pcs
    OBVIOUS
  <2> HIDE DEF Pcs
  <2>2. CASE DownloadFind(p) \/ PreviewFind(p) \/ ThumbnailFind(p)
    BY <2>1, <2>2, Zenon DEF DownloadFind, PreviewFind, ThumbnailFind, FindThen
  <2>3. CASE DownloadOpen(p) \/ PreviewOpen(p)
    BY <2>3, Zenon DEF DownloadOpen, PreviewOpen
  <2>4. CASE ThumbnailOpen(p) \/ ThumbnailGenerate(p)
    BY <2>1, <2>4, Zenon DEF ThumbnailOpen, ThumbnailGenerate
  <2>5. QED
    BY <2>2, <2>3, <2>4
<1>2. r.pc \notin {"thWrite", "bfWrite"}
  BY DEF DownloadFind, DownloadOpen, PreviewFind, PreviewOpen, ThumbnailFind,
         ThumbnailOpen, ThumbnailGenerate
<1>3. Aside(p)
  BY <1>0, <1>1, AsideGoto, AsideAnswer
     DEF HeldPCs, Filling, BackfillPCs, BackfillLoop, BackfillWork
<1>4. QED
  BY <1>0, <1>1, <1>2, <1>3, AsideFiles DEF stored

\* A thumbnail is created, then written, then recorded.
LEMMA ThumbnailCreated ==
    ASSUME FilesInv, TypeInv', SeenNext, NEW p \in Procs, ThumbnailCreate(p)
    PROVE  AllFilesOK'
<1> DEFINE r == req[p]
           a == r.target
           l == [r EXCEPT !.asset.thumb = today]
<1>1. /\ r.pc = "thCreate" /\ Goto(p, "thWrite", l) /\ UNCHANGED <<rows, previews>>
      /\ thumbnails' = [thumbnails EXCEPT ![a][today] = "empty"]
  BY DEF ThumbnailCreate, At, Created
<1>2. /\ TypeInv /\ r \in Request /\ r.asset \in Row /\ today \in Days /\ a \in Ids
      /\ thumbnails \in [Ids -> [Days -> DerivedFile]]
  BY <1>1, Locals DEF FilesInv, SeenInv, DedupInv, TypeInv, TypeOK, Request, NeedsTarget
<1>3. l.target = a /\ l.asset.thumb = today
  BY <1>2 DEF Request, Row
<1> HIDE DEF l
<1>4. /\ OthersKeep(p) /\ req'[p].pc = "thWrite" /\ req'[p].target = a
      /\ req'[p].asset.thumb = today
  BY <1>1, <1>2, <1>3, GotoSeen
<1> PICK s : s = req'[p]
  OBVIOUS
<1>5. HeldOK(s)'
  BY <1>1, <1>2, <1>4 DEF HeldOK, HasThumb, Filling
<1>6. \A b \in Ids, e \in Days :
        \/ thumbnails'[b][e] = thumbnails[b][e]
        \/ b = a /\ e = today /\ thumbnails'[b][e] = "empty"
  BY <1>1, <1>2
<1>7. QED
  BY <1>1, <1>4, <1>5, <1>6, ThumbSaved DEF BackfillPCs, BackfillLoop, BackfillWork

LEMMA ThumbnailWritten ==
    ASSUME FilesInv, TypeInv', SeenNext, NEW p \in Procs, ThumbnailWrite(p)
    PROVE  AllFilesOK'
<1> DEFINE r == req[p]
           a == r.target
           d == r.asset.thumb
<1>1. /\ r.pc = "thWrite" /\ Goto(p, "thRecord", r) /\ UNCHANGED <<rows, previews>>
      /\ thumbnails' = Written(thumbnails, a, d, "whole")
  BY DEF ThumbnailWrite, At
<1>2. /\ TypeInv /\ r \in Request /\ a \in Ids /\ d \in Days
      /\ thumbnails \in [Ids -> [Days -> DerivedFile]]
  BY <1>1, Locals DEF FilesInv, SeenInv, DedupInv, TypeInv, TypeOK, Request, NeedsTarget,
                      AllSeenOK, SeenOK, TargetOK
<1>3. /\ OthersKeep(p) /\ req'[p].pc = "thRecord" /\ req'[p].target = a
      /\ req'[p].asset.thumb = d
  BY <1>1, <1>2, GotoSeen
<1>4. \A b \in Ids, e \in Days :
        \/ thumbnails'[b][e] = thumbnails[b][e]
        \/ /\ b = a /\ e = d /\ thumbnails'[b][e] = "whole" /\ thumbnails[b][e] # "none"
  BY <1>1, <1>2 DEF Written
<1>5. thumbnails'[a][d] \in {"none", "whole"}
  BY <1>1, <1>2 DEF Written
<1> PICK s : s = req'[p]
  OBVIOUS
<1>6. Reliable' => HeldOK(r)
  BY DEF SeenNext, Counted, Reliable, FilesInv, AllFilesOK, FilesHeld
<1>7. Reliable' => HeldOK(s)'
  BY <1>1, <1>2, <1>3, <1>4, <1>6 DEF HeldOK, HasThumb, Filling, Exists
<1>8. QED
  BY <1>1, <1>3, <1>4, <1>5, <1>7, ThumbSaved DEF BackfillPCs, BackfillLoop, BackfillWork

LEMMA ThumbnailRecorded ==
    ASSUME FilesInv, TypeInv', SeenNext, NEW p \in Procs, ThumbnailRecord(p)
    PROVE  AllFilesOK'
<1> DEFINE r == req[p]
           a == r.target
           d == r.asset.thumb
<1>1. /\ r.pc = "thRecord" /\ Answer(p, "served", a) /\ UNCHANGED <<thumbnails, previews>>
      /\ rows' = UpdateThumbnailStoragePath(a, d)
  BY DEF ThumbnailRecord, At
<1>2. TypeInv /\ a \in Ids /\ rows \in [Ids -> Row]
  BY <1>1, Locals DEF FilesInv, SeenInv, DedupInv, TypeInv, TypeOK, NeedsTarget
<1>3. Aside(p)
  BY <1>1, <1>2, AsideAnswer
<1> PICK s : s = req'[p]
  OBVIOUS
<1>4. HeldOK(s)' /\ FreshOK(s)' /\ s.pc \notin BackfillPCs /\ OthersKeep(p)
  BY <1>3 DEF Aside, HeldOK, HeldPCs, FreshOK, BackfillPCs, BackfillLoop
<1>5. \A b \in Ids : /\ rows'[b].state = rows[b].state
                     /\ rows'[b].preview = rows[b].preview
                     /\ \/ rows'[b].thumb = rows[b].thumb
                        \/ b = a /\ Exists(a) /\ rows'[b].thumb = d
  BY <1>1, <1>2 DEF UpdateThumbnailStoragePath, Row, Exists
<1>6. Reliable' => HeldOK(r) /\ \A b \in Ids : Recorded(b)
  BY DEF SeenNext, Counted, Reliable, FilesInv, AllFilesOK, FilesHeld
<1>7. Reliable' => \A b \in Ids : Recorded(b)'
  BY <1>1, <1>5, <1>6 DEF Recorded, HeldOK, HasThumb, HasPreview, Exists
<1>8. UnrecordedStay
  <2>1. \A b : Unrecorded(b) => b \in Ids /\ Settled(b)'
    BY SeenStays DEF SeenNext, Unrecorded, Settled, FilesInv, SeenInv, DedupInv, TypeInv,
                     TypeOK
  <2>2. QED
    BY <1>5, <2>1 DEF UnrecordedStay, Unrecorded, Exists
<1>9. FilesStay
  BY <1>1 DEF FilesStay
<1>10. faults' = 0 => ThumbsWhole' /\ PreviewsWhole'
  BY <1>1, <1>4, ThumbsUntouched, PreviewsUntouched
<1>11. QED
  BY <1>4, <1>7, <1>8, <1>9, <1>10, FilesAfter

-----------------------------------------------------------------------------
(* The preview backfill. *)

\* The backfill turns to the next asset.
LEMMA DoneFresh ==
    ASSUME FilesInv, TypeInv', NEW p \in Procs, NEW failed, BackfillDone(p, failed),
           req[p].pc \in BackfillWork
    PROVE  /\ OthersKeep(p) /\ req'[p].pc = "bfNext" /\ HeldOK(req'[p])
           /\ faults = 0 /\ OneBackfill => FreshOK(req'[p])
<1>1. OthersKeep(p) /\ req'[p].pc = "bfNext" /\ req'[p].todo = req[p].todo
  BY DoneSeen DEF FilesInv, SeenInv, DedupInv
<1>2. HeldOK(req'[p])
  BY <1>1 DEF HeldOK, Filling
<1>3. faults = 0 /\ OneBackfill => FreshOK(req[p])
  BY DEF FilesInv, AllFilesOK
<1>4. FreshOK(req[p]) => FreshOK(req'[p])
  BY <1>1 DEF FreshOK, BackfillLoop, BackfillWork
<1>5. QED
  BY <1>1, <1>2, <1>3, <1>4

LEMMA BackfillReads ==
    ASSUME FilesInv, TypeInv', SeenNext, NEW p \in Procs,
           BackfillList(p) \/ BackfillNext(p) \/ BackfillFind(p) \/ BackfillGenerate(p)
    PROVE  AllFilesOK'
<1> USE DEF At
<1> DEFINE r == req[p]
<1>0. /\ TypeInv /\ r \in Request /\ PathsSame(rows)
      /\ faults = 0 /\ OneBackfill => FreshOK(r)
  BY Locals DEF FilesInv, SeenInv, DedupInv, PathsSame, AllFilesOK
<1>1. /\ UNCHANGED <<rows, thumbnails, previews>>
      /\ r.pc \in {"bfList", "bfNext", "bfFind", "bfGenerate"}
  BY DEF BackfillList, BackfillNext, BackfillFind, BackfillGenerate, stored
<1>2. /\ OthersKeep(p) /\ HeldOK(req'[p])
      /\ faults = 0 /\ OneBackfill => FreshOK(req'[p])
  <2>1. CASE BackfillList(p)
    <3> DEFINE found == {a \in ListWithoutPreview : MediaTypeOf[rows[a].content] # "pdf"}
               l == [r EXCEPT !.todo = found, !.listed = found]
    <3>1. l.todo = found
      BY <1>0 DEF Request
    <3>2. Goto(p, "bfNext", l)
      BY <2>1 DEF BackfillList
    <3> HIDE DEF l
    <3>3. OthersKeep(p) /\ req'[p].pc = "bfNext" /\ req'[p].todo = found
      BY <1>0, <3>1, <3>2, GotoSeen
    <3>4. \A a \in found : a \in Ids /\ Exists(a) /\ rows[a].preview \notin Days
      BY DEF ListWithoutPreview, Exists, Days, SqlNull
    <3>5. \A a \in found : Unrecorded(a)
      BY <3>4, ExistsSettled DEF FilesInv, Unrecorded
    <3>6. QED
      BY <3>3, <3>5 DEF HeldOK, FreshOK, Filling, BackfillLoop, BackfillWork
  <2>2. CASE BackfillNext(p)
    <3>1. CASE \E how, a : Answer(p, how, a)
      <4>1. Aside(p)
        BY <1>0, <3>1, AsideAnswer
      <4>2. QED
        BY <4>1 DEF Aside, HeldOK, FreshOK, HeldPCs, BackfillPCs, BackfillLoop
    <3>2. ASSUME NEW a \in r.todo,
                 Goto(p, "bfFind", [r EXCEPT !.target = a, !.todo = @ \ {a}])
          PROVE  /\ OthersKeep(p) /\ HeldOK(req'[p])
                 /\ faults = 0 /\ OneBackfill => FreshOK(req'[p])
      <4> DEFINE l == [r EXCEPT !.target = a, !.todo = @ \ {a}]
      <4>1. l.target = a /\ l.todo = r.todo \ {a}
        BY <1>0 DEF Request
      <4>2. Goto(p, "bfFind", l)
        BY <3>2
      <4> HIDE DEF l
      <4>3. /\ OthersKeep(p) /\ req'[p].pc = "bfFind" /\ req'[p].target = a
            /\ req'[p].todo = r.todo \ {a}
        BY <1>0, <4>1, <4>2, GotoSeen
      <4>4. r.pc = "bfNext"
        BY <2>2 DEF BackfillNext
      <4>5. QED
        BY <1>0, <4>3, <4>4 DEF HeldOK, FreshOK, Filling, BackfillLoop, BackfillWork
    <3>3. QED
      BY <2>2, <3>1, <3>2, Zenon DEF BackfillNext
  <2>3. CASE BackfillFind(p) \/ BackfillGenerate(p)
    <3>1. r.pc \in BackfillWork /\ r.pc \in {"bfFind", "bfGenerate"}
      BY <2>3 DEF BackfillFind, BackfillGenerate, BackfillWork
    <3>2. \/ \E failed : BackfillDone(p, failed)
          \/ Goto(p, "bfGenerate", [r EXCEPT !.asset = rows[r.target]])
          \/ Goto(p, "bfCreate", r)
      BY <2>3, Zenon DEF BackfillFind, BackfillGenerate
    <3>3. CASE \E failed : BackfillDone(p, failed)
      BY <3>1, <3>3, DoneFresh
    <3>4. CASE \/ Goto(p, "bfGenerate", [r EXCEPT !.asset = rows[r.target]])
               \/ Goto(p, "bfCreate", r)
      <4> DEFINE l == [r EXCEPT !.asset = rows[r.target]]
      <4>1. l.target = r.target /\ l.todo = r.todo
        BY <1>0 DEF Request
      <4>2. Goto(p, "bfGenerate", l) \/ Goto(p, "bfCreate", r)
        BY <3>4
      <4> HIDE DEF l
      <4>3. /\ OthersKeep(p) /\ req'[p].pc \in {"bfGenerate", "bfCreate"}
            /\ req'[p].target = r.target /\ req'[p].todo = r.todo
        BY <1>0, <4>1, <4>2, GotoSeen
      <4>4. QED
        BY <1>0, <3>1, <4>3 DEF HeldOK, FreshOK, Filling, BackfillLoop, BackfillWork
    <3>5. QED
      BY <3>2, <3>3, <3>4
  <2>4. QED
    BY <2>1, <2>2, <2>3
<1>3. QED
  BY <1>0, <1>1, <1>2, QuietFiles DEF BackfillPCs, BackfillLoop, BackfillWork

LEMMA BackfillCreated ==
    ASSUME FilesInv, TypeInv', SeenNext, NEW p \in Procs, BackfillCreate(p)
    PROVE  AllFilesOK'
<1> DEFINE r == req[p]
           a == r.target
           l == [r EXCEPT !.asset.preview = today]
<1>1. /\ r.pc = "bfCreate" /\ Goto(p, "bfWrite", l) /\ UNCHANGED <<rows, thumbnails>>
      /\ previews' = [previews EXCEPT ![a][today] = "empty"]
  BY DEF BackfillCreate, At, Created
<1>2. /\ TypeInv /\ r \in Request /\ r.asset \in Row /\ today \in Days /\ a \in Ids
      /\ previews \in [Ids -> [Days -> DerivedFile]]
  BY <1>1, Locals DEF FilesInv, SeenInv, DedupInv, TypeInv, TypeOK, Request, NeedsTarget
<1>3. l.target = a /\ l.asset.preview = today /\ l.todo = r.todo
  BY <1>2 DEF Request, Row
<1> HIDE DEF l
<1>4. /\ OthersKeep(p) /\ req'[p].pc = "bfWrite" /\ req'[p].target = a
      /\ req'[p].asset.preview = today /\ req'[p].todo = r.todo
  BY <1>1, <1>2, <1>3, GotoSeen
<1> PICK s : s = req'[p]
  OBVIOUS
<1>5. HeldOK(s)'
  BY <1>1, <1>2, <1>4 DEF HeldOK, HasPreview, Filling
<1>6. \A b \in Ids, e \in Days :
        \/ previews'[b][e] = previews[b][e]
        \/ b = a /\ e = today /\ previews'[b][e] = "empty"
  BY <1>1, <1>2
<1>7. faults = 0 /\ OneBackfill => FreshOK(r)
  BY DEF FilesInv, AllFilesOK
<1>8. FreshOK(r) => FreshOK(s)
  BY <1>1, <1>4 DEF FreshOK, BackfillLoop, BackfillWork
<1>9. r.pc \in BackfillPCs
  BY <1>1 DEF BackfillPCs, BackfillLoop, BackfillWork
<1>10. QED
  BY <1>1, <1>4, <1>5, <1>6, <1>7, <1>8, <1>9, PreviewSaved

LEMMA BackfillWritten ==
    ASSUME FilesInv, TypeInv', SeenNext, NEW p \in Procs, BackfillWrite(p)
    PROVE  AllFilesOK'
<1> DEFINE r == req[p]
           a == r.target
           d == r.asset.preview
<1>1. /\ r.pc = "bfWrite" /\ Goto(p, "bfRecord", r) /\ UNCHANGED <<rows, thumbnails>>
      /\ previews' = Written(previews, a, d, "whole")
  BY DEF BackfillWrite, At
<1>2. /\ TypeInv /\ r \in Request /\ a \in Ids /\ d \in Days
      /\ previews \in [Ids -> [Days -> DerivedFile]]
  BY <1>1, Locals DEF FilesInv, SeenInv, DedupInv, TypeInv, TypeOK, Request, NeedsTarget,
                      AllSeenOK, SeenOK, TargetOK
<1>3. /\ OthersKeep(p) /\ req'[p].pc = "bfRecord" /\ req'[p].target = a
      /\ req'[p].asset.preview = d /\ req'[p].todo = r.todo
  BY <1>1, <1>2, GotoSeen
<1>4. \A b \in Ids, e \in Days :
        \/ previews'[b][e] = previews[b][e]
        \/ /\ b = a /\ e = d /\ previews'[b][e] = "whole" /\ previews[b][e] # "none"
  BY <1>1, <1>2 DEF Written
<1>5. previews'[a][d] \in {"none", "whole"}
  BY <1>1, <1>2 DEF Written
<1> PICK s : s = req'[p]
  OBVIOUS
<1>6. Reliable' => HeldOK(r)
  BY DEF SeenNext, Counted, Reliable, FilesInv, AllFilesOK, FilesHeld
<1>7. Reliable' => HeldOK(s)'
  BY <1>1, <1>2, <1>3, <1>4, <1>6 DEF HeldOK, HasPreview, Filling, Exists
<1>8. faults = 0 /\ OneBackfill => FreshOK(r)
  BY DEF FilesInv, AllFilesOK
<1>9. FreshOK(r) => FreshOK(s)
  BY <1>1, <1>3 DEF FreshOK, BackfillLoop, BackfillWork
<1>10. r.pc \in BackfillPCs
  BY <1>1 DEF BackfillPCs, BackfillLoop, BackfillWork
<1>11. QED
  BY <1>1, <1>3, <1>4, <1>5, <1>7, <1>8, <1>9, <1>10, PreviewSaved

\* What is recorded is no longer on the list.
LEMMA BackfillRecorded ==
    ASSUME FilesInv, TypeInv', SeenNext, NEW p \in Procs, BackfillRecord(p)
    PROVE  AllFilesOK'
<1> DEFINE r == req[p]
           a == r.target
           d == r.asset.preview
<1>1. /\ r.pc = "bfRecord" /\ UNCHANGED <<thumbnails, previews>>
      /\ \E failed : BackfillDone(p, failed)
      /\ rows' = UpdatePreviewStoragePath(a, d)
  BY DEF BackfillRecord, At
<1>2. /\ TypeInv /\ a \in Ids /\ rows \in [Ids -> Row] /\ r.pc \in BackfillWork
      /\ r.pc \in BackfillPCs
  BY <1>1, Locals DEF FilesInv, SeenInv, DedupInv, TypeInv, TypeOK, NeedsTarget,
                      BackfillWork, BackfillLoop, BackfillPCs
<1>3. OthersKeep(p) /\ req'[p].pc = "bfNext" /\ req'[p].todo = r.todo
  BY <1>1, <1>2, DoneSeen
<1> PICK s : s = req'[p]
  OBVIOUS
<1>4. HeldOK(s)'
  BY <1>3 DEF HeldOK, Filling
<1>5. \A b \in Ids : /\ rows'[b].state = rows[b].state
                     /\ rows'[b].thumb = rows[b].thumb
                     /\ \/ rows'[b].preview = rows[b].preview
                        \/ b = a /\ Exists(a) /\ rows'[b].preview = d
  BY <1>1, <1>2 DEF UpdatePreviewStoragePath, Row, Exists
<1>6. Reliable' => HeldOK(r) /\ \A b \in Ids : Recorded(b)
  BY DEF SeenNext, Counted, Reliable, FilesInv, AllFilesOK, FilesHeld
<1>7. Reliable' => \A b \in Ids : Recorded(b)'
  BY <1>1, <1>5, <1>6 DEF Recorded, HeldOK, HasThumb, HasPreview, Exists
<1>8. \A b : Unrecorded(b) /\ b # a => Unrecorded(b)'
  <2>1. \A b : Unrecorded(b) => b \in Ids /\ Settled(b)'
    BY SeenStays DEF SeenNext, Unrecorded, Settled, FilesInv, SeenInv, DedupInv, TypeInv,
                     TypeOK
  <2>2. QED
    BY <1>5, <2>1 DEF Unrecorded, Exists
<1>9. faults' = 0 /\ OneBackfill => FreshOK(s)'
  <2>1. faults' = 0 /\ OneBackfill => FreshOK(r)
    BY DEF SeenNext, Counted, FilesInv, AllFilesOK
  <2>2. FreshOK(r) => FreshOK(s)'
    BY <1>2, <1>3, <1>8 DEF FreshOK, BackfillLoop, BackfillWork
  <2>3. QED
    BY <2>1, <2>2
<1>10. FilesStay
  BY <1>1 DEF FilesStay
<1>11. faults' = 0 => ThumbsWhole' /\ PreviewsWhole'
  BY <1>1, <1>3, ThumbsUntouched, PreviewsUntouched
<1>12. QED
  BY <1>1, <1>2, <1>3, <1>4, <1>7, <1>9, <1>10, <1>11, FilesAfter

LEMMA DerivedFiles ==
    ASSUME FilesInv, TypeInv', SeenNext, NEW p \in Procs, DerivedStep(p)
    PROVE  AllFilesOK'
BY ReadFiles, ThumbnailCreated, ThumbnailWritten, ThumbnailRecorded, BackfillReads,
   BackfillCreated, BackfillWritten, BackfillRecorded
   DEF DerivedStep

-----------------------------------------------------------------------------
(* Beginnings, faults and the rest. *)

LEMMA StartFiles ==
    ASSUME FilesInv, TypeInv', SeenNext, NEW p \in Procs, Start(p)
    PROVE  AllFilesOK'
<1> DEFINE Firsts == {"upFind", "answer", "delFind", "resFind", "purFind", "emptyList",
                      "dlFind", "pvFind", "thFind", "thTrashFind"}
<1>0. TypeInv /\ req \in [Procs -> Request] /\ PathsSame(rows)
  BY DEF FilesInv, SeenInv, DedupInv, TypeInv, ReqOK, PathsSame
<1>1. UNCHANGED <<rows, thumbnails, previews>> /\ req[p].pc = "idle"
  BY DEF Start, StartUpload, StartDelete, StartRestore, StartPurge, StartEmptyTrash,
         StartDownload, StartPreview, StartThumbnail, StartTrashThumbnail, StartBackfill,
         StartOn, stored, Begin, At
<1>2. ASSUME NEW kind, NEW local, NEW first, Begin(p, kind, first, local),
             first \in Firsts \/ (kind = "backfill" /\ first = "bfList")
      PROVE  AllFilesOK'
  <2>1. /\ req'[p] = [local EXCEPT !.op = kind, !.pc = first] /\ OthersKeep(p)
        /\ kind \in Kinds[p]
    BY <1>0, <1>2 DEF Begin, OthersKeep
  <2>2. {"pc", "op"} \subseteq DOMAIN local
    BY <2>1 DEF TypeInv, ReqOK, Request
  <2>3. req'[p].pc = first
    BY <2>1, <2>2
  <2>4. HeldOK(req'[p]) /\ FreshOK(req'[p])
    BY <1>2, <2>3 DEF HeldOK, FreshOK, Filling, BackfillLoop, BackfillWork
  <2>5. req'[p].pc \in BackfillPCs => "backfill" \in Kinds[p]
    BY <1>2, <2>1, <2>3 DEF BackfillPCs, BackfillLoop, BackfillWork
  <2>6. QED
    BY <1>0, <1>1, <2>1, <2>4, <2>5, QuietFiles
<1>3. \E kind, local, first :
        /\ Begin(p, kind, first, local)
        /\ first \in Firsts \/ (kind = "backfill" /\ first = "bfList")
  <2>1. {"upFind", "answer", "delFind", "resFind", "purFind", "emptyList", "dlFind",
         "pvFind", "thFind", "thTrashFind"} \subseteq Firsts
    OBVIOUS
  <2> HIDE DEF Firsts
  <2>2. CASE StartUpload(p)
    BY <2>1, <2>2, Zenon DEF StartUpload
  <2>3. CASE StartEmptyTrash(p)
    BY <2>1, <2>3 DEF StartEmptyTrash
  <2>4. CASE StartBackfill(p)
    BY <2>4 DEF StartBackfill
  <2>5. CASE StartDelete(p) \/ StartRestore(p) \/ StartPurge(p)
    BY <2>1, <2>5, Zenon DEF StartDelete, StartRestore, StartPurge, StartOn
  <2>6. CASE \/ StartDownload(p) \/ StartPreview(p) \/ StartThumbnail(p)
             \/ StartTrashThumbnail(p)
    BY <2>1, <2>6, Zenon DEF StartDownload, StartPreview, StartThumbnail,
                             StartTrashThumbnail, StartOn
  <2>7. QED
    BY <2>2, <2>3, <2>4, <2>5, <2>6 DEF Start
<1>4. QED
  BY <1>2, <1>3

\* A file that is only partly written.
LEMMA PartlySaved ==
    ASSUME FilesInv, TypeInv', SeenNext, NEW p \in Procs, faults' # 0,
           ThumbnailNotSaved(p) \/ PreviewNotSaved(p)
    PROVE  AllFilesOK'
<1> USE DEF At
<1> DEFINE r == req[p]
           a == r.target
<1>0. /\ TypeInv /\ r \in Request /\ today \in Days
      /\ r.pc \in NeedsTarget => a \in Ids
      /\ thumbnails \in [Ids -> [Days -> DerivedFile]]
      /\ previews \in [Ids -> [Days -> DerivedFile]]
  BY Locals DEF FilesInv, SeenInv, DedupInv, TypeInv, TypeOK
<1>1. Reliable' => HeldOK(r)
  BY DEF SeenNext, Counted, Reliable, FilesInv, AllFilesOK, FilesHeld
<1> PICK s : s = req'[p]
  OBVIOUS
<1>2. CASE /\ r.pc = "upThumb" /\ Goto(p, "upPreview", r) /\ UNCHANGED <<rows, previews>>
           /\ thumbnails' = [thumbnails EXCEPT ![a][today] = "partial"]
  <2>1. /\ OthersKeep(p) /\ s.pc = "upPreview" /\ s.target = a /\ s.asset = r.asset
        /\ a \in Ids
    BY <1>0, <1>2, GotoSeen DEF NeedsTarget
  <2>2. Reliable' => HeldOK(s)'
    BY <1>0, <1>1, <1>2, <2>1 DEF HeldOK, HasThumb, HasPreview, Filling
  <2>3. \A b \in Ids, e \in Days :
          \/ thumbnails'[b][e] = thumbnails[b][e]
          \/ b = a /\ e = today /\ thumbnails'[b][e] = "partial"
    BY <1>0, <1>2
  <2>4. QED
    BY <1>2, <2>1, <2>2, <2>3, ThumbSaved DEF BackfillPCs, BackfillLoop, BackfillWork
<1>3. CASE /\ r.pc = "upPreview" /\ Goto(p, "upInsert", r) /\ UNCHANGED <<rows, thumbnails>>
           /\ previews' = [previews EXCEPT ![a][today] = "partial"]
  <2>1. /\ OthersKeep(p) /\ s.pc = "upInsert" /\ s.target = a /\ s.asset = r.asset
        /\ a \in Ids
    BY <1>0, <1>3, GotoSeen DEF NeedsTarget
  <2>2. Reliable' => HeldOK(s)'
    BY <1>0, <1>1, <1>3, <2>1 DEF HeldOK, HasThumb, HasPreview, Filling
  <2>3. \A b \in Ids, e \in Days :
          \/ previews'[b][e] = previews[b][e]
          \/ b = a /\ e = today /\ previews'[b][e] = "partial"
    BY <1>0, <1>3
  <2>4. FreshOK(s) /\ s.pc \notin BackfillPCs
    BY <2>1 DEF FreshOK, BackfillPCs, BackfillLoop, BackfillWork
  <2>5. QED
    BY <1>3, <2>1, <2>2, <2>3, <2>4, PreviewSaved
<1>4. CASE /\ r.pc \in {"thCreate", "thWrite", "bfCreate", "bfWrite"} /\ UNCHANGED rows
           /\ \/ Answer(p, "served", a)
              \/ r.pc \in {"bfCreate", "bfWrite"} /\ BackfillDone(p, TRUE)
           /\ \/ UNCHANGED thumbnails
              \/ thumbnails' = Written(thumbnails, a, r.asset.thumb, "partial")
           /\ \/ UNCHANGED previews
              \/ previews' = Written(previews, a, r.asset.preview, "partial")
  <2>1. FilesStay /\ PathsSame(rows')
    BY <1>0, <1>4 DEF FilesStay, PathsSame, Written, NeedsTarget
  <2>2. /\ OthersKeep(p) /\ s.pc \notin HeldPCs
        /\ s.pc \in BackfillPCs => r.pc \in BackfillPCs
    BY <1>0, <1>4, AnswerSeen, DoneSeen
       DEF HeldPCs, Filling, BackfillPCs, BackfillLoop, BackfillWork
  <2>3. QED
    BY <2>1, <2>2, FaultFiles
<1>5. QED
  BY <1>2, <1>3, <1>4 DEF ThumbnailNotSaved, PreviewNotSaved

LEMMA FaultyFiles ==
    ASSUME FilesInv, TypeInv', SeenNext, NEW p \in Procs, FaultStep(p)
    PROVE  AllFilesOK'
<1> USE DEF At
<1> DEFINE r == req[p]
           a == r.target
           l == [r EXCEPT !.how = "failed"]
<1>0. /\ TypeInv /\ r \in Request /\ PathsSame(rows) /\ req \in [Procs -> Request]
      /\ l.target = a /\ l.asset = r.asset
  BY Locals DEF FilesInv, SeenInv, DedupInv, PathsSame, Request, TypeInv, ReqOK
<1>1. Fault
  BY DEF FaultStep, ReadFails, StatementFails, OriginalNotSaved, ThumbnailNotSaved,
         PreviewNotSaved, UnlinkFails, Die
<1>2. faults' # 0 /\ (Reliable' => ~AckLoss)
  BY <1>1, FaultCounted DEF FilesInv
<1>3. ASSUME UNCHANGED <<thumbnails, previews>>, Reliable' => UNCHANGED rows,
             \/ \E how, b : Answer(p, how, b)
             \/ r.pc \in {"bfFind", "bfRecord"} /\ BackfillDone(p, TRUE)
             \/ r.pc = "upInsert" /\ Goto(p, "upUndo", l)
      PROVE  AllFilesOK'
  <2>1. /\ OthersKeep(p) /\ req'[p].pc \notin HeldPCs
        /\ req'[p].pc \in BackfillPCs => r.pc \in BackfillPCs
    <3> HIDE DEF l
    <3>1. CASE \E how, b : Answer(p, how, b)
      BY <1>0, <3>1, AsideAnswer DEF Aside
    <3>2. CASE r.pc \in {"bfFind", "bfRecord"} /\ BackfillDone(p, TRUE)
      BY <1>0, <3>2, DoneSeen DEF HeldPCs, Filling, BackfillPCs, BackfillLoop, BackfillWork
    <3>3. CASE Goto(p, "upUndo", l)
      BY <1>0, <3>3, AsideGoto
         DEF Aside, HeldPCs, Filling, BackfillPCs, BackfillLoop, BackfillWork
    <3>4. QED
      BY <1>3, <3>1, <3>2, <3>3
  <2>2. Reliable' => FilesStay /\ PathsSame(rows')
    BY <1>0, <1>3 DEF FilesStay
  <2>3. QED
    BY <1>2, <2>1, <2>2, FaultFiles
<1>4. CASE ReadFails(p)
  <2>1. /\ UNCHANGED <<rows, thumbnails, previews>>
        /\ \/ \E how, b : Answer(p, how, b)
           \/ r.pc = "bfFind" /\ BackfillDone(p, TRUE)
    BY <1>4, Zenon DEF ReadFails
  <2>2. QED
    BY <1>3, <2>1
<1>5. CASE StatementFails(p)
  <2>1. /\ UNCHANGED <<thumbnails, previews>> /\ (AckLoss \/ UNCHANGED rows)
        /\ \/ \E how, b : Answer(p, how, b)
           \/ r.pc = "upInsert" /\ Goto(p, "upUndo", l)
           \/ r.pc = "bfRecord" /\ BackfillDone(p, TRUE)
    BY <1>5, Zenon DEF StatementFails
  <2>2. QED
    BY <1>2, <1>3, <2>1
<1>6. CASE OriginalNotSaved(p)
  <2>1. UNCHANGED <<rows, thumbnails, previews>> /\ Answer(p, "failed", Null)
    BY <1>6 DEF OriginalNotSaved
  <2>2. QED
    BY <1>3, <2>1
<1>7. CASE UnlinkFails(p)
  <2>1. /\ UNCHANGED rows /\ r.pc \in {"upUndo"} \cup Purging
        /\ \/ r.pc = "upUndo" \/ UNCHANGED <<thumbnails, previews>>
        /\ thumbnails' \in {thumbnails, Unlinked(thumbnails, a, r.asset.thumb)}
        /\ previews' \in {previews, Unlinked(previews, a, r.asset.preview)}
        /\ \/ \E how, b : Answer(p, how, b)
           \/ \E local : Goto(p, "upRefind", local)
    BY <1>7, Zenon DEF UnlinkFails, Purging
  <2>2. Aside(p)
    BY <1>0, <2>1, AsideGoto, AsideAnswer
       DEF HeldPCs, Filling, BackfillPCs, BackfillLoop, BackfillWork
  <2>3. Reliable' => Gone(a)
    BY <2>1 DEF SeenNext, Counted, Reliable, FilesInv, SeenInv, AllSeenOK, UndoneOK, SeenOK,
                TargetOK
  <2>4. QED
    BY <2>1, <2>2, <2>3, FilesUnlinked DEF Purging
<1>8. CASE Die(p)
  <2>1. /\ UNCHANGED <<rows, thumbnails, previews>> /\ req' = [req EXCEPT ![p] = Idle]
    BY <1>8 DEF Die
  <2>2. OthersKeep(p) /\ req'[p].pc = "idle"
    BY <1>0, <2>1 DEF OthersKeep, Idle
  <2>3. req'[p].pc \notin HeldPCs \cup BackfillPCs
    BY <2>2 DEF HeldPCs, Filling, BackfillPCs, BackfillLoop, BackfillWork
  <2>4. FilesStay /\ PathsSame(rows')
    BY <1>0, <2>1 DEF FilesStay
  <2>5. QED
    BY <1>2, <2>2, <2>3, <2>4, FaultFiles
<1>9. QED
  BY <1>2, <1>4, <1>5, <1>6, <1>7, <1>8, PartlySaved DEF FaultStep

LEMMA RestFiles ==
    ASSUME FilesInv, TypeInv', SeenNext,
           Midnight \/ UNCHANGED vars \/ \E p \in Procs : Respond(p)
    PROVE  AllFilesOK'
<1>1. CASE Midnight \/ UNCHANGED vars
  <2>1. UNCHANGED <<rows, thumbnails, previews, issued, faults, req>>
    BY <1>1 DEF Midnight, vars
  <2>2. AllFilesOK
    BY DEF FilesInv
  <2>3. QED
    BY <2>1, <2>2 DEF AllFilesOK, FilesHeld, Reliable, Recorded, HeldOK, HasThumb,
                      HasPreview, Exists, ThumbsWhole, PreviewsWhole, Writes, KindOK,
                      FreshOK,
                      Unrecorded, Settled
<1>2. ASSUME NEW p \in Procs, Respond(p)
      PROVE  AllFilesOK'
  <2>1. /\ UNCHANGED <<rows, thumbnails, previews>> /\ req' = [req EXCEPT ![p] = Idle]
        /\ req[p].pc = "answer"
    BY <1>2 DEF Respond, stored, At
  <2>2. Aside(p)
    BY <2>1 DEF FilesInv, SeenInv, DedupInv, TypeInv, ReqOK, Aside, OthersKeep, Idle,
                HeldPCs, Filling, BackfillPCs, BackfillLoop, BackfillWork
  <2>3. QED
    BY <2>1, <2>2, AsideFiles DEF PathsSame
<1>3. QED
  BY <1>1, <1>2

-----------------------------------------------------------------------------
(* The theorems. *)

LEMMA InitFiles == Init => FilesInv
<1> SUFFICES ASSUME Init PROVE FilesInv
  OBVIOUS
<1>1. /\ \A p \in Procs : req[p].pc = "idle"
      /\ \A a \in Ids, d \in Days : thumbnails[a][d] = "none" /\ previews[a][d] = "none"
  BY DEF Init, Idle
<1>2. \A a \in Ids : Recorded(a)
  <2>1. \A a \in Ids : rows[a].thumb = NoPath /\ rows[a].preview = SqlNull
    BY DEF Init, NoRow
  <2>2. QED
    BY <2>1 DEF Recorded, HasThumb, HasPreview, Days, NoPath, SqlNull
<1>3. QED
  BY <1>1, <1>2, InitSeen
     DEF FilesInv, AllFilesOK, FilesHeld, HeldOK, ThumbsWhole, PreviewsWhole, KindOK,
         FreshOK, Filling, BackfillPCs, BackfillLoop, BackfillWork

LEMMA NextFiles == FilesInv /\ [Next]_vars => FilesInv'
<1> SUFFICES ASSUME FilesInv, [Next]_vars PROVE FilesInv'
  OBVIOUS
<1>1. SeenInv' /\ SeenNext /\ TypeInv'
  BY NextSeen DEF FilesInv, SeenInv, DedupInv
<1>2. ASSUME NEW p \in Procs, Step(p) PROVE AllFilesOK'
  BY <1>1, <1>2, UploadFiles, TrashFiles, DerivedFiles, RestFiles DEF Step
<1>3. ASSUME NEW p \in Procs, Start(p) \/ FaultStep(p) PROVE AllFilesOK'
  BY <1>1, <1>3, StartFiles, FaultyFiles
<1>4. AllFilesOK'
  BY <1>1, <1>2, <1>3, RestFiles DEF Next
<1>5. QED
  BY <1>1, <1>4 DEF FilesInv

LEMMA FilesAlways == Spec => []FilesInv
<1>1. QED
  BY InitFiles, NextFiles, PTL DEF Spec

\* A committed statement is never reported as failed; then, whatever else fails, and
\* however uploads, thumbnail requests, backfills and purges interleave: every path in a
\* row names a file that is there, because files are written before their paths are
\* recorded and unlinked after the row is gone (service.go:92-124, 234-240, 385-400).
THEOREM RecordedFilesThere ==
    ASSUME ~AckLoss
    PROVE  Spec => []RecordedFilesExist
<1>1. FilesInv => RecordedFilesExist
  BY DEF FilesInv, AllFilesOK, FilesHeld, Reliable, Recorded, HasThumb, HasPreview,
         RecordedFilesExist
<1>2. QED
  BY <1>1, FilesAlways, PTL

\* With one backfill command at a time and no fault, a preview that a row records is
\* complete: the backfill only rewrites the file of an asset that had no preview when it
\* was listed, and nobody else records one meanwhile (service.go:533-569).
THEOREM PreviewsServedWhole ==
    ASSUME OneBackfill
    PROVE  Spec => []RecordedPreviewsWhole
<1>1. FilesInv => RecordedPreviewsWhole
  <2> SUFFICES ASSUME FilesInv, faults = 0, NEW a \in Ids, Exists(a),
                      rows[a].preview \in Days
               PROVE  previews[a][rows[a].preview] = "whole"
    BY DEF RecordedPreviewsWhole
  <2> DEFINE d == rows[a].preview
  <2>1. previews[a][d] # "none"
    BY DEF FilesInv, AllFilesOK, FilesHeld, Reliable, Recorded, HasPreview
  <2>2. ASSUME NEW p \in Procs, Writes(p, "bfWrite", a) PROVE FALSE
    <3>1. FreshOK(req[p])
      BY DEF FilesInv, AllFilesOK
    <3>2. QED
      BY <2>2, <3>1 DEF FreshOK, Writes, Unrecorded, BackfillWork
  <2>3. PreviewsWhole
    BY DEF FilesInv, AllFilesOK
  <2>4. QED
    BY <2>1, <2>2, <2>3 DEF PreviewsWhole
<1>2. QED
  BY <1>1, FilesAlways, PTL

-----------------------------------------------------------------------------
(* The command backfill-thumbnails: the inductive invariant. *)

\* The request that the command waits for, or the answer to it, is about a.
Asks(a) == req[job.runner].pc # "idle" /\ req[job.runner].target = a

\* The command's slot serves nobody else, and what it lists are drawn ids.
RunnerOK ==
    /\ job.runner \in Procs
    /\ ThumbnailKinds \subseteq Kinds[job.runner]
    /\ ~At(job.runner, "idle") => req[job.runner].op \in ThumbnailKinds
    /\ job.phase = "ended" => At(job.runner, "idle") /\ DOMAIN job.todo = {}

\* Of what the command has listed, all but the rest of its list has a thumbnail,
\* unless one has failed; a path in the listing is still recorded.
ListOK ==
    /\ \A a \in job.listed : Settled(a)
    /\ DOMAIN job.todo \subseteq job.listed
    /\ \A a \in DOMAIN job.todo : job.todo[a] \in Days => Thumbed(a)
    /\ faults = 0 /\ ~job.failed =>
          \A a \in job.listed : a \in DOMAIN job.todo \/ Asks(a) \/ Thumbed(a)

JobInv == /\ job \in Job \cup {NoJob}
          /\ job # NoJob => RunnerOK /\ ListOK

CommandInv == FilesInv /\ JobInv

-----------------------------------------------------------------------------
(* The command's requests. *)

LEMMA JobFields ==
    ASSUME NEW j \in Job
    PROVE  /\ j # NoJob /\ j.runner \in Procs /\ j.phase \in Phases
           /\ j.types \in TypeFlags /\ j.trash \in BOOLEAN /\ j.listed \in SUBSET Ids
           /\ j.failed \in BOOLEAN /\ DOMAIN j.todo \subseteq Ids
           /\ j.todo \in [DOMAIN j.todo -> {NoPath} \cup Days]
BY CommandAssumption DEF Job, NoJob

LEMMA NoRunner == NoJob.runner = Null /\ NoJob.phase = "none" /\ Null \notin Procs
BY CommandAssumption DEF NoJob

LEMMA RestTyped ==
    ASSUME NEW j \in Job, NEW a
    PROVE  /\ Without(j.todo, a) \in
                  UNION {[A -> {NoPath} \cup Days] : A \in SUBSET Ids}
           /\ DOMAIN Without(j.todo, a) = DOMAIN j.todo \ {a}
           /\ \A b \in DOMAIN Without(j.todo, a) : Without(j.todo, a)[b] = j.todo[b]
<1>1. DOMAIN j.todo \subseteq Ids /\ j.todo \in [DOMAIN j.todo -> {NoPath} \cup Days]
  BY JobFields
<1>2. Without(j.todo, a) \in [DOMAIN j.todo \ {a} -> {NoPath} \cup Days]
  BY <1>1 DEF Without
<1>3. DOMAIN j.todo \ {a} \in SUBSET Ids
  BY <1>1
<1>4. QED
  BY <1>2, <1>3 DEF Without

LEMMA ListingTyped ==
    ASSUME TypeInv, NEW found \in SUBSET Ids
    PROVE  /\ Listing(found) \in UNION {[A -> {NoPath} \cup Days] : A \in SUBSET Ids}
           /\ DOMAIN Listing(found) = found
           /\ \A a \in found : Listing(found)[a] = rows[a].thumb
<1>1. \A a \in found : rows[a].thumb \in {NoPath} \cup Days
  BY DEF TypeInv, TypeOK, Row
<1>2. Listing(found) \in [found -> {NoPath} \cup Days]
  BY <1>1 DEF Listing
<1>3. QED
  BY <1>2 DEF Listing

\* What a request for a thumbnail does of its own, or fails at, leaves it the request
\* for a thumbnail of the same asset.
LEMMA ThumbnailGoesOn ==
    ASSUME SeenInv, TypeInv', NEW p \in Procs, req[p].op \in ThumbnailKinds,
           \/ UploadStep(p) \/ TrashStep(p) \/ DerivedStep(p)
           \/ FaultStep(p) /\ req'[p].pc # "idle"
    PROVE  /\ OthersKeep(p) /\ req'[p].pc # "idle"
           /\ req'[p].op = req[p].op /\ req'[p].target = req[p].target
<1> USE DEF At
<1> DEFINE r == req[p]
           l == [r EXCEPT !.asset = rows[r.target]]
           m == [r EXCEPT !.asset.thumb = today]
           Pcs == ThumbnailWork
<1>1. TypeInv /\ r \in Request /\ r.asset \in Row /\ req \in [Procs -> Request]
  BY Locals DEF SeenInv, DedupInv, Request, TypeInv, ReqOK
<1>2. r.pc \in {"answer"} \cup Pcs
  BY DEF SeenInv, AllSeenOK, SeenOK, ThumbnailOK
<1>3. /\ l.op = r.op /\ l.target = r.target /\ m.op = r.op /\ m.target = r.target
  BY <1>1 DEF Request, Row
<1>4. /\ ~UploadStep(p) /\ ~TrashStep(p)
  BY <1>2 DEF UploadStep, UploadFind, UploadFindTrash, UploadRestore, UploadLegacy,
       UploadProbe, UploadBackfill, UploadStore, UploadThumb, UploadPreview, UploadInsert,
       UploadUndo, UploadRefind, TrashStep, DeleteFind, DeleteMark, RestoreFind,
       RestoreMark, EmptyList, EmptyNext, PurgeFind, PurgeCount, PurgeRow, PurgeThumb,
       PurgePreview, PurgeOriginal, ThumbnailWork
<1>5. ASSUME DerivedStep(p)
      PROVE  \/ \E how : Answer(p, how, r.target)
             \/ \E pc \in Pcs : Goto(p, pc, r) \/ Goto(p, pc, l) \/ Goto(p, pc, m)
  <2>1. \/ ThumbnailFind(p) \/ ThumbnailOpen(p) \/ ThumbnailGenerate(p)
        \/ ThumbnailCreate(p) \/ ThumbnailWrite(p) \/ ThumbnailRecord(p)
    BY <1>2, <1>5 DEF DerivedStep, DownloadFind, DownloadOpen, PreviewFind, PreviewOpen,
         BackfillList, BackfillNext, BackfillFind, BackfillGenerate, BackfillCreate,
         BackfillWrite, BackfillRecord, ThumbnailWork
  <2>2. {"thOpen", "thGenerate", "thCreate", "thWrite", "thRecord"} \subseteq Pcs
    BY DEF ThumbnailWork
  <2> HIDE DEF Pcs
  <2>3. CASE ThumbnailFind(p)
    BY <2>2, <2>3, Zenon DEF ThumbnailFind, FindThen
  <2>4. CASE ThumbnailOpen(p) \/ ThumbnailGenerate(p)
    BY <2>2, <2>4, Zenon DEF ThumbnailOpen, ThumbnailGenerate
  <2>5. CASE ThumbnailCreate(p) \/ ThumbnailWrite(p) \/ ThumbnailRecord(p)
    BY <2>2, <2>5, Zenon DEF ThumbnailCreate, ThumbnailWrite, ThumbnailRecord
  <2>6. QED
    BY <2>1, <2>3, <2>4, <2>5
<1>6. ASSUME FaultStep(p), req'[p].pc # "idle"
      PROVE  \E how : Answer(p, how, r.target)
  <2>1. ~Die(p)
    <3>1. Die(p) => req'[p] = Idle
      BY <1>1 DEF Die
    <3>2. QED
      BY <1>6, <3>1 DEF Idle
  <2>2. ReadFails(p) \/ StatementFails(p) \/ ThumbnailNotSaved(p)
    BY <1>2, <1>6, <2>1
       DEF FaultStep, OriginalNotSaved, PreviewNotSaved, UnlinkFails, ThumbnailWork
  <2>3. CASE ReadFails(p)
    <3>1. r.pc \notin {"upProbe", "bfFind"}
      BY <1>2 DEF ThumbnailWork
    <3>2. QED
      BY <2>3, <3>1, Zenon DEF ReadFails
  <2>4. CASE StatementFails(p)
    <3>1. r.pc \notin {"upInsert", "bfRecord"}
      BY <1>2 DEF ThumbnailWork
    <3>2. QED
      BY <2>4, <3>1, Zenon DEF StatementFails
  <2>5. CASE ThumbnailNotSaved(p)
    <3>1. r.pc # "upThumb"
      BY <1>2 DEF ThumbnailWork
    <3>2. QED
      BY <2>5, <3>1, Zenon DEF ThumbnailNotSaved
  <2>6. QED
    BY <2>2, <2>3, <2>4, <2>5
<1>7. CASE \E how : Answer(p, how, r.target)
  BY <1>1, <1>7, AnswerSeen
<1>8. CASE \E pc \in Pcs : Goto(p, pc, r) \/ Goto(p, pc, l) \/ Goto(p, pc, m)
  <2>1. PICK pc \in Pcs : Goto(p, pc, r) \/ Goto(p, pc, l) \/ Goto(p, pc, m)
    BY <1>8
  <2> HIDE DEF l, m
  <2>2. OthersKeep(p) /\ req'[p].pc = pc /\ req'[p].op = r.op /\ req'[p].target = r.target
    BY <1>1, <1>3, <2>1, GotoSeen
  <2>3. QED
    BY <2>2 DEF ThumbnailWork
<1>9. QED
  BY <1>4, <1>5, <1>6, <1>7, <1>8

-----------------------------------------------------------------------------
(* Others, and the command itself, seen from the service. *)

Moved(p) == \E r : req' = [req EXCEPT ![p] = r]

LEMMA GotoMoved == \A p, pc, local : Goto(p, pc, local) => Moved(p)
BY Zenon DEF Goto, Moved

LEMMA AnswerMoved == \A p, how, a : Answer(p, how, a) => Moved(p)
BY Zenon DEF Answer, Moved

LEMMA DoneMoved == \A p, failed : BackfillDone(p, failed) => Moved(p)
BY GotoMoved, Zenon DEF BackfillDone

LEMMA BeginMoved == \A p, kind, first, local : Begin(p, kind, first, local) => Moved(p)
BY Zenon DEF Begin, Moved

LEMMA StepMoved ==
    ASSUME NEW p \in Procs, Start(p) \/ Step(p) \/ FaultStep(p)
    PROVE  Moved(p)
<1> USE GotoMoved, AnswerMoved, DoneMoved, BeginMoved
<1>1. CASE Start(p)
  <2>1. CASE StartUpload(p) \/ StartEmptyTrash(p) \/ StartBackfill(p)
    BY <2>1, Zenon DEF StartUpload, StartEmptyTrash, StartBackfill
  <2>2. CASE StartDelete(p) \/ StartRestore(p) \/ StartPurge(p) \/ StartDownload(p)
    BY <2>2, Zenon DEF StartDelete, StartRestore, StartPurge, StartDownload, StartOn
  <2>3. CASE StartPreview(p) \/ StartThumbnail(p) \/ StartTrashThumbnail(p)
    BY <2>3, Zenon DEF StartPreview, StartThumbnail, StartTrashThumbnail, StartOn
  <2>4. QED
    BY <1>1, <2>1, <2>2, <2>3 DEF Start
<1>2. CASE UploadStep(p)
  <2>1. CASE UploadFind(p) \/ UploadFindTrash(p) \/ UploadRestore(p)
    BY <2>1, Zenon DEF UploadFind, UploadFindTrash, UploadRestore
  <2>2. CASE UploadLegacy(p) \/ UploadProbe(p) \/ UploadBackfill(p)
    BY <2>2, Zenon DEF UploadLegacy, UploadProbe, UploadBackfill
  <2>3. CASE UploadStore(p) \/ UploadThumb(p) \/ UploadPreview(p)
    BY <2>3, Zenon DEF UploadStore, UploadThumb, UploadPreview
  <2>4. CASE UploadInsert(p) \/ UploadUndo(p) \/ UploadRefind(p)
    BY <2>4, Zenon DEF UploadInsert, UploadUndo, UploadRefind
  <2>5. QED
    BY <1>2, <2>1, <2>2, <2>3, <2>4 DEF UploadStep
<1>3. CASE TrashStep(p)
  <2>1. CASE DeleteFind(p) \/ DeleteMark(p) \/ RestoreFind(p) \/ RestoreMark(p)
    BY <2>1, Zenon DEF DeleteFind, DeleteMark, RestoreFind, RestoreMark
  <2>2. CASE EmptyList(p) \/ EmptyNext(p) \/ PurgeFind(p) \/ PurgeCount(p)
    BY <2>2, Zenon DEF EmptyList, EmptyNext, PurgeFind, PurgeCount
  <2>3. CASE PurgeRow(p) \/ PurgeThumb(p) \/ PurgePreview(p) \/ PurgeOriginal(p)
    BY <2>3, Zenon DEF PurgeRow, PurgeThumb, PurgePreview, PurgeOriginal
  <2>4. QED
    BY <1>3, <2>1, <2>2, <2>3 DEF TrashStep
<1>4. CASE DerivedStep(p)
  <2>1. CASE DownloadFind(p) \/ DownloadOpen(p) \/ PreviewFind(p) \/ PreviewOpen(p)
    BY <2>1, Zenon DEF DownloadFind, DownloadOpen, PreviewFind, PreviewOpen, FindThen
  <2>2. CASE ThumbnailFind(p) \/ ThumbnailOpen(p) \/ ThumbnailGenerate(p)
    BY <2>2, Zenon DEF ThumbnailFind, ThumbnailOpen, ThumbnailGenerate, FindThen
  <2>3. CASE ThumbnailCreate(p) \/ ThumbnailWrite(p) \/ ThumbnailRecord(p)
    BY <2>3, Zenon DEF ThumbnailCreate, ThumbnailWrite, ThumbnailRecord
  <2>4. CASE BackfillList(p) \/ BackfillNext(p) \/ BackfillFind(p)
    BY <2>4, Zenon DEF BackfillList, BackfillNext, BackfillFind
  <2>5. CASE \/ BackfillGenerate(p) \/ BackfillCreate(p) \/ BackfillWrite(p)
             \/ BackfillRecord(p)
    BY <2>5, Zenon DEF BackfillGenerate, BackfillCreate, BackfillWrite, BackfillRecord
  <2>6. QED
    BY <1>4, <2>1, <2>2, <2>3, <2>4, <2>5 DEF DerivedStep
<1>5. CASE FaultStep(p)
  <2>1. CASE ReadFails(p) \/ StatementFails(p)
    BY <2>1, Zenon DEF ReadFails, StatementFails
  <2>2. CASE OriginalNotSaved(p) \/ ThumbnailNotSaved(p) \/ PreviewNotSaved(p)
    BY <2>2, Zenon DEF OriginalNotSaved, ThumbnailNotSaved, PreviewNotSaved
  <2>3. CASE UnlinkFails(p) \/ Die(p)
    BY <2>3, Zenon DEF UnlinkFails, Die, Moved
  <2>4. QED
    BY <1>5, <2>1, <2>2, <2>3 DEF FaultStep
<1>6. CASE Respond(p)
  BY <1>6 DEF Respond, Moved
<1>7. QED
  BY <1>1, <1>2, <1>3, <1>4, <1>5, <1>6 DEF Step

\* A step of p is nobody else's.
LEMMA OthersStand ==
    ASSUME TypeInv, NEW p \in Procs, Start(p) \/ Step(p) \/ FaultStep(p)
    PROVE  OthersKeep(p)
BY StepMoved DEF Moved, OthersKeep, TypeInv, ReqOK

\* Every step of the whole is one of the service, or one of the command's own
\* that the service does not see.
LEMMA ClientStep ==
    ASSUME CommandInv, [CommandNext]_allVars
    PROVE  [Next]_vars
<1>1. ASSUME NEW p \in Procs, CommandCalls(p)
      PROVE  Start(p)
  <2>1. job # NoJob /\ p = job.runner
    BY <1>1, NoRunner DEF CommandCalls, AtNext
  <2>2. PICK a \in DOMAIN job.todo :
            \/ Begin(p, "thumbnail", "thFind", [Idle EXCEPT !.target = a])
            \/ Begin(p, "trashThumbnail", "thTrashFind", [Idle EXCEPT !.target = a])
    BY <1>1, Zenon DEF CommandCalls
  <2>3. a \in issued
    BY <2>1 DEF CommandInv, JobInv, ListOK, Settled
  <2>4. UNCHANGED stored
    BY <1>1 DEF CommandCalls
  <2>5. StartThumbnail(p) \/ StartTrashThumbnail(p)
    BY <2>2, <2>3, <2>4, Zenon DEF StartThumbnail, StartTrashThumbnail, StartOn
  <2>6. QED
    BY <2>5 DEF Start
<1>2. ASSUME NEW p \in Procs,
             CommandListsTrash(p) \/ CommandSkips(p) \/ CommandEnds(p) \/ CommandStart(p)
                 \/ CommandGone(p)
      PROVE  UNCHANGED vars
  BY <1>2 DEF CommandListsTrash, CommandSkips, CommandEnds, CommandStart, CommandGone
<1>3. ASSUME NEW p \in Procs, CommandTakes(p) \/ ClientTakes(p) \/ ServiceStep(p)
      PROVE  Step(p)
  BY <1>3 DEF CommandTakes, ClientTakes, ServiceStep, Step
<1>4. ASSUME NEW p \in Procs, ClientStarts(p) \/ ServiceFault(p)
      PROVE  Start(p) \/ FaultStep(p)
  BY <1>4 DEF ClientStarts, ServiceFault
<1>5. CASE UNCHANGED allVars
  BY <1>5 DEF allVars
<1>6. QED
  BY <1>1, <1>2, <1>3, <1>4, <1>5 DEF CommandNext, CommandStep, Next

-----------------------------------------------------------------------------
(* The command's variables. *)

\* Nothing that the command knows of its listing is undone by anybody.
LEMMA ListStays ==
    ASSUME CommandInv, SeenNext, job # NoJob,
           job'.listed = job.listed, DOMAIN job'.todo \subseteq DOMAIN job.todo,
           \A a \in DOMAIN job'.todo : job'.todo[a] = job.todo[a],
           ~job'.failed => ~job.failed,
           faults = 0 /\ ~job'.failed =>
               \A a \in job.listed :
                   (a \in DOMAIN job.todo /\ a \notin DOMAIN job'.todo) \/ Asks(a)
                       => Asks(a)' \/ Thumbed(a)
    PROVE  ListOK'
<1>1. ListOK
  BY DEF CommandInv, JobInv
<1>2. /\ \A a : Settled(a) => Settled(a)'
      /\ \A a : Thumbed(a) => Thumbed(a)'
  BY SeenStays DEF SeenNext
<1>3. \A a \in job'.listed : Settled(a)'
  BY <1>1, <1>2 DEF ListOK
<1>4. \A a \in DOMAIN job'.todo : job'.todo[a] \in Days => Thumbed(a)'
  BY <1>1, <1>2 DEF ListOK
<1>5. faults' = 0 => faults = 0
  BY DEF SeenNext, Counted
<1>6. faults' = 0 /\ ~job'.failed =>
        \A a \in job'.listed : a \in DOMAIN job'.todo \/ Asks(a)' \/ Thumbed(a)'
  BY <1>1, <1>2, <1>5 DEF ListOK
<1>7. QED
  BY <1>1, <1>3, <1>4, <1>6 DEF ListOK

\* The command's own variables stay, and its request stays a request for the same asset.
LEMMA JobWaits ==
    ASSUME CommandInv, SeenNext, UNCHANGED job,
           job # NoJob => \/ req'[job.runner] = req[job.runner]
                          \/ /\ req[job.runner].pc # "idle" /\ req'[job.runner].pc # "idle"
                             /\ req'[job.runner].op = req[job.runner].op
                             /\ req'[job.runner].target = req[job.runner].target
    PROVE  JobInv'
<1>1. CASE job = NoJob
  BY <1>1 DEF JobInv, CommandInv
<1>2. CASE job # NoJob
  <2>1. RunnerOK
    BY <1>2 DEF CommandInv, JobInv
  <2>2. RunnerOK'
    BY <1>2, <2>1 DEF RunnerOK, At
  <2>3. \A a : Asks(a) => Asks(a)'
    BY <1>2 DEF Asks
  <2>4. job \in Job
    BY <1>2 DEF CommandInv, JobInv
  <2>5. ListOK'
    BY <1>2, <2>3, ListStays
  <2>6. QED
    BY <2>2, <2>4, <2>5 DEF JobInv
<1>3. QED
  BY <1>1, <1>2

LEMMA ServiceKeepsJob ==
    ASSUME CommandInv, TypeInv', SeenNext, NEW p \in Procs,
           ClientStarts(p) \/ ClientTakes(p) \/ ServiceStep(p) \/ ServiceFault(p)
    PROVE  JobInv'
<1>0. SeenInv /\ TypeInv
  BY DEF CommandInv, FilesInv, SeenInv, DedupInv
<1>1. OthersKeep(p)
  BY <1>0, OthersStand DEF ClientStarts, ClientTakes, ServiceStep, ServiceFault, Step
<1>2. job # NoJob => job.runner \in Procs
  BY DEF CommandInv, JobInv, RunnerOK
<1>3. CASE UNCHANGED job /\ (job.runner # p \/ job = NoJob)
  BY <1>1, <1>2, <1>3, JobWaits DEF OthersKeep
<1>4. CASE job # NoJob /\ job.runner = p
  <2>1. \/ /\ UploadStep(p) \/ TrashStep(p) \/ DerivedStep(p)
           /\ UNCHANGED job
        \/ /\ FaultStep(p)
           /\ \/ UNCHANGED job /\ req'[p].pc # "idle"
              \/ job' = NoJob
    BY <1>4 DEF ClientStarts, ClientTakes, ServiceStep, ServiceFault, At
  <2>2. CASE job' = NoJob
    BY <2>2 DEF JobInv
  <2>3. CASE job' # NoJob
    <3>1. /\ UNCHANGED job
          /\ \/ UploadStep(p) \/ TrashStep(p) \/ DerivedStep(p)
             \/ FaultStep(p) /\ req'[p].pc # "idle"
      BY <2>1, <2>3
    <3>2. req[p].pc # "idle"
      BY <3>1 DEF UploadStep, UploadFind, UploadFindTrash, UploadRestore, UploadLegacy,
         UploadProbe, UploadBackfill, UploadStore, UploadThumb, UploadPreview,
         UploadInsert, UploadUndo, UploadRefind, TrashStep, DeleteFind, DeleteMark,
         RestoreFind, RestoreMark, EmptyList, EmptyNext, PurgeFind, PurgeCount, PurgeRow,
         PurgeThumb, PurgePreview, PurgeOriginal, DerivedStep, DownloadFind, DownloadOpen,
         PreviewFind, PreviewOpen, ThumbnailFind, ThumbnailOpen, ThumbnailGenerate,
         ThumbnailCreate, ThumbnailWrite, ThumbnailRecord, BackfillList, BackfillNext,
         BackfillFind, BackfillGenerate, BackfillCreate, BackfillWrite, BackfillRecord,
         FaultStep, ReadFails, StatementFails, OriginalNotSaved, ThumbnailNotSaved,
         PreviewNotSaved, UnlinkFails, Die, At
    <3>3. req[p].op \in ThumbnailKinds
      BY <1>4, <3>2 DEF CommandInv, JobInv, RunnerOK, At
    <3>4. /\ req'[p].pc # "idle" /\ req'[p].op = req[p].op
          /\ req'[p].target = req[p].target
      BY <1>0, <3>1, <3>3, ThumbnailGoesOn
    <3>5. QED
      BY <1>4, <3>1, <3>2, <3>4, JobWaits
  <2>4. QED
    BY <2>2, <2>3
<1>5. CASE job' = NoJob
  BY <1>5 DEF JobInv
<1>6. QED
  BY <1>3, <1>4, <1>5, NoRunner DEF ClientStarts, ClientTakes, ServiceStep, ServiceFault

LEMMA StartKeepsJob ==
    ASSUME CommandInv, NEW p \in Procs, CommandStart(p)
    PROVE  JobInv'
<1>0. TypeInv /\ SeenInv
  BY DEF CommandInv, FilesInv, SeenInv, DedupInv
<1>1. /\ At(p, "idle") /\ ThumbnailKinds \subseteq Kinds[p] /\ UNCHANGED vars
      /\ \E types \in TypeFlags, trash \in BOOLEAN :
           \E found \in SUBSET {a \in Ids : Active(a)} :
              job' = [runner |-> p, phase |-> "active", types |-> types, trash |-> trash,
                      todo |-> Listing(found), listed |-> found, failed |-> FALSE]
  BY DEF CommandStart, ThumbnailKinds
<1>2. PICK types \in TypeFlags, trash \in BOOLEAN,
           found \in SUBSET {a \in Ids : Active(a)} :
        job' = [runner |-> p, phase |-> "active", types |-> types, trash |-> trash,
                todo |-> Listing(found), listed |-> found, failed |-> FALSE]
  BY <1>1
<1>3. /\ Listing(found) \in UNION {[A -> {NoPath} \cup Days] : A \in SUBSET Ids}
      /\ DOMAIN Listing(found) = found
      /\ \A a \in found : Listing(found)[a] = rows[a].thumb
  BY <1>0, ListingTyped
<1>4. /\ job'.runner = p /\ job'.phase = "active" /\ job'.todo = Listing(found)
      /\ job'.listed = found
  BY <1>2
<1>5. job' \in Job
  BY <1>2, <1>3 DEF Job, Phases
<1>6. \A a \in found : Exists(a) /\ Settled(a)
  BY <1>0, ExistsSettled DEF Active, Exists
<1>7. /\ \A a : Settled(a)' <=> Settled(a)
      /\ \A a : Thumbed(a)' <=> Thumbed(a)
  BY <1>1 DEF vars, Thumbed, Settled, Exists
<1>8. ListOK'
  BY <1>3, <1>4, <1>6, <1>7 DEF ListOK, Thumbed
<1>9. RunnerOK'
  BY <1>1, <1>4 DEF RunnerOK, At, vars
<1>10. QED
  BY <1>5, <1>8, <1>9 DEF JobInv

LEMMA TrashKeepsJob ==
    ASSUME CommandInv, NEW p \in Procs, CommandListsTrash(p)
    PROVE  JobInv'
<1> DEFINE found == {a \in ListTrash : Selected(a, job.types)}
<1>0. TypeInv /\ SeenInv
  BY DEF CommandInv, FilesInv, SeenInv, DedupInv
<1>1. /\ job # NoJob /\ job \in Job /\ job.runner = p /\ At(p, "idle")
      /\ DOMAIN job.todo = {} /\ UNCHANGED vars
      /\ job' = [job EXCEPT !.phase = "trash", !.todo = Listing(found),
                            !.listed = @ \cup found]
  BY NoRunner DEF CommandListsTrash, AtNext, CommandInv, JobInv
<1>2. found \in SUBSET Ids /\ \A a \in found : Exists(a) /\ Settled(a)
  BY <1>0, ExistsSettled DEF ListTrash, Exists
<1> HIDE DEF found
<1>3. /\ Listing(found) \in UNION {[A -> {NoPath} \cup Days] : A \in SUBSET Ids}
      /\ DOMAIN Listing(found) = found
      /\ \A a \in found : Listing(found)[a] = rows[a].thumb
  BY <1>0, <1>2, ListingTyped
<1>4. /\ job'.runner = p /\ job'.phase = "trash" /\ job'.todo = Listing(found)
      /\ job'.listed = job.listed \cup found /\ job'.failed = job.failed
  BY <1>1 DEF Job
<1>5. job' \in Job
  BY <1>1, <1>2, <1>3 DEF Job, Phases
<1>6. /\ \A a : Settled(a)' <=> Settled(a)
      /\ \A a : Thumbed(a)' <=> Thumbed(a)
      /\ UNCHANGED <<req, faults>>
  BY <1>1 DEF vars, Thumbed, Settled, Exists
<1>7. RunnerOK /\ ListOK
  BY <1>1 DEF CommandInv, JobInv
<1>8. \A a : ~Asks(a)
  BY <1>1 DEF Asks, At
<1>9. ListOK'
  <2>1. \A a \in job'.listed : Settled(a)'
    BY <1>2, <1>4, <1>6, <1>7 DEF ListOK
  <2>2. \A a \in DOMAIN job'.todo : job'.todo[a] \in Days => Thumbed(a)'
    BY <1>2, <1>3, <1>4, <1>6 DEF Thumbed
  <2>3. faults' = 0 /\ ~job'.failed =>
          \A a \in job'.listed : a \in DOMAIN job'.todo \/ Thumbed(a)'
    BY <1>1, <1>3, <1>4, <1>6, <1>7, <1>8 DEF ListOK
  <2>4. QED
    BY <1>3, <1>4, <2>1, <2>2, <2>3 DEF ListOK
<1>10. RunnerOK'
  BY <1>1, <1>4, <1>6, <1>7 DEF RunnerOK, At
<1>11. QED
  BY <1>5, <1>9, <1>10 DEF JobInv

\* An asset leaves the list when it has a thumbnail, or when the command asks for one.
LEMMA WalkKeepsJob ==
    ASSUME CommandInv, TypeInv', SeenNext, NEW p \in Procs,
           CommandSkips(p) \/ CommandCalls(p)
    PROVE  JobInv'
<1>0. TypeInv /\ req \in [Procs -> Request]
  BY DEF CommandInv, FilesInv, SeenInv, DedupInv, TypeInv, ReqOK
<1>1. PICK a \in DOMAIN job.todo :
        /\ job' = [job EXCEPT !.todo = Without(@, a)]
        /\ \/ HasUsableThumbnail(a, job.todo[a]) /\ UNCHANGED vars
           \/ /\ UNCHANGED stored
              /\ \/ Begin(p, "thumbnail", "thFind", [Idle EXCEPT !.target = a])
                 \/ Begin(p, "trashThumbnail", "thTrashFind", [Idle EXCEPT !.target = a])
  BY Zenon DEF CommandSkips, CommandCalls
<1>2. /\ job # NoJob /\ job \in Job /\ job.runner = p /\ At(p, "idle")
      /\ job.phase # "ended"
  BY NoRunner DEF CommandSkips, CommandCalls, AtNext, CommandInv, JobInv
<1>3. /\ Without(job.todo, a) \in
             UNION {[A -> {NoPath} \cup Days] : A \in SUBSET Ids}
      /\ DOMAIN Without(job.todo, a) = DOMAIN job.todo \ {a}
      /\ \A b \in DOMAIN Without(job.todo, a) : Without(job.todo, a)[b] = job.todo[b]
  BY <1>2, RestTyped
<1> DEFINE rest == Without(job.todo, a)
<1> HIDE DEF rest
<1>4. /\ job'.runner = p /\ job'.phase = job.phase /\ job'.todo = rest
      /\ job'.listed = job.listed /\ job'.failed = job.failed
  BY <1>1, <1>2 DEF Job, rest
<1>5. job' \in Job
  BY <1>1, <1>2, <1>3 DEF Job
<1>6. RunnerOK /\ ListOK
  BY <1>2 DEF CommandInv, JobInv
<1>7. CASE UNCHANGED vars /\ HasUsableThumbnail(a, job.todo[a])
  <2>1. Thumbed(a)
    BY <1>6, <1>7 DEF ListOK, HasUsableThumbnail
  <2>2. \A b : ~Asks(b)
    BY <1>2 DEF Asks, At
  <2>3. ListOK'
    BY <1>2, <1>3, <1>4, <2>1, <2>2, ListStays DEF rest
  <2>4. RunnerOK'
    BY <1>2, <1>4, <1>6, <1>7 DEF RunnerOK, At, vars
  <2>5. QED
    BY <1>5, <2>3, <2>4 DEF JobInv
<1>8. CASE \/ Begin(p, "thumbnail", "thFind", [Idle EXCEPT !.target = a])
           \/ Begin(p, "trashThumbnail", "thTrashFind", [Idle EXCEPT !.target = a])
  <2>1. /\ req'[p].pc # "idle" /\ req'[p].op \in ThumbnailKinds /\ req'[p].target = a
    BY <1>0, <1>8 DEF Begin, Idle, ThumbnailKinds
  <2>2. Asks(a)' /\ \A b : ~Asks(b)
    BY <1>2, <1>4, <2>1 DEF Asks, At
  <2>3. ListOK'
    BY <1>2, <1>3, <1>4, <2>2, ListStays DEF rest
  <2>4. RunnerOK'
    BY <1>2, <1>4, <1>6, <2>1 DEF RunnerOK, At
  <2>5. QED
    BY <1>5, <2>3, <2>4 DEF JobInv
<1>9. QED
  BY <1>1, <1>7, <1>8

\* The command takes note of an asset without a thumbnail.
LEMMA TakeKeepsJob ==
    ASSUME CommandInv, TypeInv', SeenNext, NEW p \in Procs, CommandTakes(p)
    PROVE  JobInv'
<1>0. TypeInv /\ req \in [Procs -> Request]
  BY DEF CommandInv, FilesInv, SeenInv, DedupInv, TypeInv, ReqOK
<1>1. /\ job # NoJob /\ job \in Job /\ job.runner = p /\ req[p].pc = "answer"
      /\ req' = [req EXCEPT ![p] = Idle] /\ UNCHANGED stored
      /\ job' = [job EXCEPT !.failed = @ \/ req[p].how # "served"]
  BY NoRunner DEF CommandTakes, Respond, At, CommandInv, JobInv
<1>2. /\ job'.runner = p /\ job'.phase = job.phase /\ job'.todo = job.todo
      /\ job'.listed = job.listed /\ job'.failed = (job.failed \/ req[p].how # "served")
  BY <1>1 DEF Job
<1>3. job' \in Job
  BY <1>1 DEF Job
<1>4. RunnerOK /\ ListOK
  BY <1>1 DEF CommandInv, JobInv
<1>5. req[p].op \in ThumbnailKinds /\ job.phase # "ended"
  BY <1>1, <1>4 DEF RunnerOK, At
<1>6. faults = 0 /\ req[p].how = "served" => Thumbed(req[p].target)
  BY <1>1, <1>5 DEF CommandInv, FilesInv, SeenInv, AllSeenOK, ServedOK
<1>7. \A a : Asks(a) => a = req[p].target
  BY <1>1 DEF Asks
<1>8. ListOK'
  BY <1>1, <1>2, <1>6, <1>7, ListStays
<1>9. RunnerOK'
  BY <1>0, <1>1, <1>2, <1>4, <1>5 DEF RunnerOK, At, Idle
<1>10. QED
  BY <1>3, <1>8, <1>9 DEF JobInv

LEMMA EndKeepsJob ==
    ASSUME CommandInv, SeenNext, NEW p \in Procs, CommandEnds(p) \/ CommandGone(p)
    PROVE  JobInv'
<1>1. CASE CommandGone(p)
  BY <1>1 DEF CommandGone, JobInv
<1>2. CASE CommandEnds(p)
  <2>1. /\ job # NoJob /\ job \in Job /\ job.runner = p /\ At(p, "idle")
        /\ DOMAIN job.todo = {} /\ UNCHANGED vars /\ job' = [job EXCEPT !.phase = "ended"]
    BY <1>2, NoRunner DEF CommandEnds, AtNext, CommandInv, JobInv
  <2>2. /\ job'.runner = p /\ job'.phase = "ended" /\ job'.todo = job.todo
        /\ job'.listed = job.listed /\ job'.failed = job.failed /\ job' \in Job
    BY <2>1 DEF Job, Phases
  <2>3. \A a : ~Asks(a)
    BY <2>1 DEF Asks, At
  <2>4. ListOK'
    BY <2>1, <2>2, <2>3, ListStays
  <2>5. RunnerOK'
    BY <2>1, <2>2 DEF CommandInv, JobInv, RunnerOK, At, vars
  <2>6. QED
    BY <2>2, <2>4, <2>5 DEF JobInv
<1>3. QED
  BY <1>1, <1>2

-----------------------------------------------------------------------------
(* The theorems. *)

LEMMA CommandInitially == CommandInit => CommandInv
BY InitFiles DEF CommandInit, CommandInv, JobInv

LEMMA CommandKeeps == CommandInv /\ [CommandNext]_allVars => CommandInv' /\ [Next]_vars
<1> SUFFICES ASSUME CommandInv, [CommandNext]_allVars PROVE CommandInv' /\ [Next]_vars
  OBVIOUS
<1>1. [Next]_vars
  BY ClientStep
<1>2. FilesInv' /\ SeenNext /\ TypeInv'
  BY <1>1, NextFiles, NextSeen DEF CommandInv, FilesInv, SeenInv, DedupInv
<1>3. CASE (Midnight /\ UNCHANGED job) \/ UNCHANGED allVars
  <2>1. UNCHANGED <<req, job>>
    BY <1>3 DEF Midnight, allVars, vars
  <2>2. QED
    BY <1>1, <1>2, <2>1, JobWaits DEF CommandInv
<1>4. ASSUME NEW p \in Procs,
             \/ ClientStarts(p) \/ ClientTakes(p) \/ ServiceStep(p) \/ ServiceFault(p)
             \/ CommandStart(p) \/ CommandStep(p) \/ CommandGone(p)
      PROVE  JobInv'
  BY <1>2, <1>4, ServiceKeepsJob, StartKeepsJob, TrashKeepsJob, WalkKeepsJob,
     TakeKeepsJob, EndKeepsJob
     DEF CommandStep
<1>5. QED
  BY <1>1, <1>2, <1>3, <1>4 DEF CommandNext, CommandInv

\* The command backfill-thumbnails does nothing to the library that a client could not
\* do: with it the service still behaves as the service, so that every theorem about the
\* service holds of the whole (cmd/backfill-thumbnails/main.go:104-126).
THEOREM CommandIsAClient == CommandSpec => Spec
<1>1. CommandInit => Init
  BY DEF CommandInit
<1>2. QED
  BY <1>1, CommandInitially, CommandKeeps, PTL DEF CommandSpec, Spec

\* The command's variables and the service's keep their types, however its requests
\* interleave with others and whenever it is stopped.
THEOREM JobTypeCorrect == CommandSpec => []JobTypeOK
<1>1. CommandInv => JobTypeOK
  BY DEF CommandInv, FilesInv, SeenInv, DedupInv, TypeInv, JobInv, JobTypeOK
<1>2. QED
  BY <1>1, CommandInitially, CommandKeeps, PTL DEF CommandSpec

\* When backfill-thumbnails exits normally and nothing failed, every asset that it
\* listed and that is still there has a recorded thumbnail, whole or just being written,
\* also one that it passed over because of an empty file, and whatever uploads, purges
\* and other thumbnail requests did meanwhile (cmd/backfill-thumbnails/main.go:104-158).
THEOREM ThumbnailsMade == CommandSpec => []ThumbnailsComplete
<1>1. CommandInv => ThumbnailsComplete
  <2> SUFFICES ASSUME CommandInv, job.phase = "ended", ~job.failed, faults = 0,
                      NEW a \in job.listed, Exists(a)
               PROVE  /\ rows[a].thumb \in Days
                      /\ \/ thumbnails[a][rows[a].thumb] = "whole"
                         \/ \E p \in Procs : At(p, "thWrite") /\ req[p].target = a
    BY DEF ThumbnailsComplete
  <2>1. job # NoJob /\ job \in Job
    BY NoRunner DEF CommandInv, JobInv
  <2>2. a \in Ids
    BY <2>1, JobFields
  <2>3. RunnerOK /\ ListOK
    BY <2>1 DEF CommandInv, JobInv
  <2>4. Thumbed(a)
    BY <2>3 DEF RunnerOK, ListOK, Asks, At
  <2>5. rows[a].thumb \in Days
    BY <2>4 DEF Thumbed
  <2>6. thumbnails[a][rows[a].thumb] # "none"
    BY <2>2, <2>5
       DEF CommandInv, FilesInv, AllFilesOK, FilesHeld, Reliable, Recorded, HasThumb
  <2>7. ThumbsWhole
    BY DEF CommandInv, FilesInv, AllFilesOK
  <2>8. QED
    BY <2>2, <2>5, <2>6, <2>7 DEF ThumbsWhole, Writes, At
<1>2. QED
  BY <1>1, CommandInitially, CommandKeeps, PTL DEF CommandSpec
=============================================================================
