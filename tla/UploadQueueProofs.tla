-------------------------- MODULE UploadQueueProofs --------------------------
(***************************************************************************)
(* Theorems about UploadQueue for all values of its constants: any number  *)
(* of files, visits and results. However the loops and the single uploads  *)
(* of all visits overlap, no file is sent by two of them, and the list     *)
(* tells what is under way.                                                *)
(***************************************************************************)
EXTENDS UploadQueue, FiniteSetTheorems, SequenceTheorems, WellFoundedInduction, TLAPS

-----------------------------------------------------------------------------
(* The inductive invariant. *)

\* The loop that the panel shown has started, and whose end it waits for.
LoopOfPage(u) == u.loop /\ open /\ u.page = page

\* A call has items of its own visit, which are gone when that is over; what is
\* still before it belongs to a loop, for which the upload button is disabled.
UploadOK(u) ==
    /\ u.page <= page
    /\ \A i \in u.todo : i <= added
    /\ \A i \in u.todo : Listed(i) => open /\ u.page = page
    /\ ~u.loop => Rest(u) = {}
    /\ LoopOfPage(u) => isUploading

UploadsOK == \A u \in uploads : UploadOK(u)

OneLoop == \A u, v \in uploads : LoopOfPage(u) /\ LoopOfPage(v) => u = v

Apart == \A u, v \in uploads : \A i \in u.todo : i \in v.todo => u = v

PageOK ==
    /\ open => page >= 1
    /\ \A i \in Items : Listed(i) => i <= added

CallsOK == UploadsOK /\ OneLoop /\ Apart /\ PageOK

ListOK == StatusTellsUpload /\ UrlsOfListed

QueueInv == TypeOK /\ CallsOK /\ ListOK

-----------------------------------------------------------------------------
(* Values. *)

\* The least item of a set is one of it.
LEMMA LeastIn ==
    ASSUME NEW S, S \subseteq Items, S # {}
    PROVE  Min(S) \in S
<1>1. S \subseteq Nat
  BY QueueAssumption DEF Items
<1>2. PICK x \in S : \A y \in S : <<y, x>> \notin OpToRel(<, Nat)
  BY <1>1, WFMin, NatLessThanWellFounded
<1>3. \A y \in S : ~(y < x)
  BY <1>1, <1>2 DEF OpToRel
<1>4. \A y \in S : x <= y
  BY <1>1, <1>3
<1>5. QED
  BY <1>4 DEF Min

LEMMA NoItemIsNone == NoItem \notin Item /\ NoItem.status = "absent"
BY DEF NoItem, Item

LEMMA ItemFields ==
    ASSUME NEW e \in Item
    PROVE  /\ e # NoItem /\ e.status \in {"queued", "uploading", "error"}
           /\ e.progress \in Percents /\ e.code \in Codes /\ e.retryable \in BOOLEAN
BY NoItemIsNone DEF Item

LEMMA ListedTyped ==
    ASSUME TypeOK, NEW i \in Items
    PROVE  /\ Listed(i) <=> items[i] \in Item
           /\ ~Listed(i) <=> items[i].status = "absent"
<1>1. items[i] \in Item \cup {NoItem}
  BY DEF TypeOK
<1>2. items[i] \in Item => items[i].status # "absent"
  BY ItemFields
<1>3. QED
  BY <1>1, <1>2, NoItemIsNone DEF Listed

LEMMA CallTyped ==
    ASSUME NEW u \in Upload
    PROVE  /\ u.todo \subseteq Items /\ u.todo # {} /\ u.action \in Actions
           /\ u.loop \in BOOLEAN /\ u.page \in 1..MaxVisits
           /\ Current(u) \in u.todo /\ Rest(u) = u.todo \ {Current(u)}
<1>1. /\ u.todo \subseteq Items /\ u.todo # {} /\ u.action \in Actions
      /\ u.loop \in BOOLEAN /\ u.page \in 1..MaxVisits
  BY DEF Upload
<1>2. QED
  BY <1>1, LeastIn DEF Current, Rest

\* A new call for the items of S.
LEMMA CallMade ==
    ASSUME NEW S, S \subseteq Items, S # {}, NEW action \in Actions, NEW loop \in BOOLEAN,
           NEW visit \in 1..MaxVisits,
           NEW n, n = [todo |-> S, action |-> action, loop |-> loop, page |-> visit]
    PROVE  /\ n \in Upload /\ n.todo = S /\ n.loop = loop /\ n.page = visit
           /\ Current(n) = Min(S) /\ Rest(n) = S \ {Min(S)}
BY DEF Upload, Current, Rest

\* A call that has gone on to the next of its items.
LEMMA CallGoesOn ==
    ASSUME NEW u \in Upload, Rest(u) # {}, NEW n, n = [u EXCEPT !.todo = Rest(u)]
    PROVE  /\ n \in Upload /\ n.todo = Rest(u) /\ n.loop = u.loop /\ n.page = u.page
           /\ Current(n) = Min(Rest(u)) /\ Current(n) \in Rest(u)
           /\ Rest(n) = Rest(u) \ {Current(n)}
<1>1. Rest(u) \subseteq u.todo /\ u.todo \subseteq Items
  BY CallTyped
<1>2. n \in Upload /\ n.todo = Rest(u) /\ n.loop = u.loop /\ n.page = u.page
  BY <1>1 DEF Upload
<1>3. QED
  BY <1>1, <1>2, LeastIn DEF Current, Rest

Lists == [Items -> Item \cup {NoItem}]

\* Only item i has changed, from being listed to being listed with the status st,
\* or from being off the list to being off the list.
Becomes(list, new, i, st) ==
    /\ new \in Lists
    /\ \A j \in Items : j # i => new[j] = list[j]
    /\ new[i] = NoItem <=> list[i] = NoItem
    /\ new[i] # NoItem => new[i] \in Item /\ new[i].status = st

LEMMA SendingBecomes ==
    ASSUME NEW list \in Lists, NEW i \in Items
    PROVE  Becomes(list, Sending(list, i), i, "uploading")
<1> DEFINE sent == [list[i] EXCEPT !.status = "uploading", !.progress = 0,
                                   !.retryable = TRUE]
           e == IF list[i] = NoItem THEN NoItem ELSE sent
<1>1. Sending(list, i) = [list EXCEPT ![i] = e]
  BY DEF Sending
<1>2. list[i] # NoItem => e \in Item /\ e.status = "uploading"
  <2>1. list[i] # NoItem => list[i] \in Item
    BY DEF Lists
  <2>2. ASSUME NEW x \in Item
        PROVE  LET y == [x EXCEPT !.status = "uploading", !.progress = 0,
                                  !.retryable = TRUE]
               IN y \in Item /\ y.status = "uploading"
    BY QueueAssumption DEF Item
  <2>3. QED
    BY <2>1, <2>2
<1>3. list[i] = NoItem => e = NoItem
  OBVIOUS
<1> HIDE DEF e
<1>4. QED
  BY <1>1, <1>2, <1>3, NoItemIsNone DEF Lists, Becomes

LEMMA FailedBecomes ==
    ASSUME NEW list \in Lists, NEW i \in Items, NEW c \in Codes
    PROVE  /\ Becomes(list, Failed(list, i, c), i, "error")
           /\ list[i] # NoItem =>
                 /\ Failed(list, i, c)[i].code = c
                 /\ Failed(list, i, c)[i].retryable = (c # "trashed_duplicate")
<1> DEFINE failed == [list[i] EXCEPT !.status = "error", !.code = c,
                                     !.retryable = c # "trashed_duplicate"]
           e == IF list[i] = NoItem THEN NoItem ELSE failed
<1>1. Failed(list, i, c) = [list EXCEPT ![i] = e]
  BY DEF Failed
<1>2. list[i] # NoItem => /\ e \in Item /\ e.status = "error" /\ e.code = c
                          /\ e.retryable = (c # "trashed_duplicate")
  <2>1. list[i] # NoItem => list[i] \in Item
    BY DEF Lists
  <2>2. ASSUME NEW x \in Item
        PROVE  LET y == [x EXCEPT !.status = "error", !.code = c,
                                  !.retryable = c # "trashed_duplicate"]
               IN /\ y \in Item /\ y.status = "error" /\ y.code = c
                  /\ y.retryable = (c # "trashed_duplicate")
    BY DEF Item
  <2>3. QED
    BY <2>1, <2>2
<1>3. list[i] = NoItem => e = NoItem
  OBVIOUS
<1> HIDE DEF e
<1>4. QED
  BY <1>1, <1>2, <1>3, NoItemIsNone DEF Lists, Becomes

-----------------------------------------------------------------------------
(* The user's actions. *)

\* A step that starts no call and ends none, and shows nothing as being sent that
\* was not.
LEMMA QuietCalls ==
    ASSUME QueueInv, UNCHANGED <<isUploading, uploads>>,
           added' >= added, page' >= page, page' \in Nat, added' \in Nat,
           open' => open /\ page' = page,
           \A i \in Items : i <= added => (Listed(i)' => Listed(i) /\ open'),
           \A i \in Items : Listed(i)' => i <= added'
    PROVE  CallsOK'
<1>1. \A u \in uploads : u \in Upload
  BY DEF QueueInv, TypeOK
<1>2. added \in Nat /\ page \in Nat
  BY DEF QueueInv, TypeOK
<1>3. ASSUME NEW u \in uploads PROVE UploadOK(u)'
  <2>1. u \in Upload /\ UploadOK(u)
    BY <1>1 DEF QueueInv, CallsOK, UploadsOK
  <2>2. u.todo \subseteq Items /\ u.page \in Nat /\ \A i \in u.todo : i \in Nat
    BY <2>1, CallTyped, QueueAssumption DEF Items
  <2>3. u.page <= page'
    BY <1>2, <2>1, <2>2 DEF UploadOK
  <2>4. \A i \in u.todo : i <= added'
    BY <1>2, <2>1, <2>2 DEF UploadOK
  <2>5. \A i \in u.todo : Listed(i)' => open' /\ u.page = page'
    BY <2>1, <2>2 DEF UploadOK
  <2>6. LoopOfPage(u)' => isUploading'
    BY <2>1 DEF UploadOK, LoopOfPage
  <2>7. QED
    BY <2>1, <2>3, <2>4, <2>5, <2>6 DEF UploadOK
<1>4. OneLoop'
  BY DEF QueueInv, CallsOK, OneLoop, LoopOfPage
<1>5. Apart'
  BY DEF QueueInv, CallsOK, Apart
<1>6. PageOK'
  BY DEF QueueInv, CallsOK, PageOK
<1>7. QED
  BY <1>3, <1>4, <1>5, <1>6 DEF CallsOK, UploadsOK

LEMMA AddFilesKeeps ==
    ASSUME QueueInv, AddFiles
    PROVE  QueueInv'
<1> PICK n \in added + 1 .. MaxItems : \E invalid \in SUBSET (added + 1 .. n) :
        /\ items' = [i \in Items |->
                        IF i \in added + 1 .. n
                        THEN [status |-> IF i \in invalid THEN "error" ELSE "queued",
                              progress |-> 0, code |-> "none",
                              retryable |-> i \notin invalid]
                        ELSE items[i]]
        /\ urls' = urls \cup (Images \cap (added + 1 .. n))
        /\ added' = n
  BY DEF AddFiles
<1> PICK invalid \in SUBSET (added + 1 .. n) :
        /\ items' = [i \in Items |->
                        IF i \in added + 1 .. n
                        THEN [status |-> IF i \in invalid THEN "error" ELSE "queued",
                              progress |-> 0, code |-> "none",
                              retryable |-> i \notin invalid]
                        ELSE items[i]]
        /\ urls' = urls \cup (Images \cap (added + 1 .. n))
        /\ added' = n
  BY DEF AddFiles
<1>1. /\ open /\ UNCHANGED <<isUploading, recent, page, open, uploads>>
      /\ added \in Nat /\ MaxItems \in Nat /\ page \in Nat
      /\ n \in added + 1 .. MaxItems
  BY QueueAssumption DEF AddFiles, QueueInv, TypeOK
<1>2. ASSUME NEW i \in Items
      PROVE  /\ i \in added + 1 .. n =>
                    /\ items'[i] \in Item /\ Listed(i)'
                    /\ items'[i].status \in {"queued", "error"}
                    /\ items'[i].code = "none"
             /\ i \notin added + 1 .. n => items'[i] = items[i]
  <2> DEFINE e == [status |-> IF i \in invalid THEN "error" ELSE "queued",
                   progress |-> 0, code |-> "none", retryable |-> i \notin invalid]
  <2>1. e \in Item /\ e.status \in {"queued", "error"} /\ e.code = "none"
    BY QueueAssumption DEF Item, Codes
  <2>2. items'[i] = IF i \in added + 1 .. n THEN e ELSE items[i]
    OBVIOUS
  <2> HIDE DEF e
  <2>3. QED
    BY <2>1, <2>2, NoItemIsNone DEF Listed
<1>3. \A i \in Items : Listed(i) => i <= added
  BY DEF QueueInv, CallsOK, PageOK
<1>4. \A i \in Items : i \in Nat /\ i <= MaxItems /\ i >= 1
  BY QueueAssumption DEF Items
<1>5. TypeOK'
  <2>1. items' \in [Items -> Item \cup {NoItem}]
    BY <1>2 DEF QueueInv, TypeOK
  <2>2. QED
    BY <1>1, <2>1 DEF QueueInv, TypeOK
<1>6. CallsOK'
  <2>1. \A i \in Items : i <= added => (Listed(i)' => Listed(i) /\ open')
    BY <1>1, <1>2, <1>4 DEF Listed
  <2>2. \A i \in Items : Listed(i)' => i <= added'
    BY <1>1, <1>2, <1>3, <1>4 DEF Listed
  <2>3. QED
    BY <1>1, <2>1, <2>2, QuietCalls
<1>7. StatusTellsUpload'
  <2>1. \A u \in uploads : u \in Upload /\ UploadOK(u)
    BY DEF QueueInv, TypeOK, CallsOK, UploadsOK
  <2>2. ASSUME NEW i \in Items, Listed(i)'
        PROVE  /\ items'[i].status = "uploading" <=> \E u \in uploads : Current(u) = i
               /\ \A u \in uploads : i \in Rest(u) => items'[i].status = "queued"
    <3>1. CASE i \in added + 1 .. n
      <4>1. \A u \in uploads : i \notin u.todo
        BY <1>1, <2>1, <3>1 DEF UploadOK
      <4>2. \A u \in uploads : Current(u) # i /\ i \notin Rest(u)
        BY <2>1, <4>1, CallTyped
      <4>3. items'[i].status # "uploading"
        BY <1>2, <3>1
      <4>4. QED
        BY <4>2, <4>3
    <3>2. CASE i \notin added + 1 .. n
      <4>1. items'[i] = items[i] /\ Listed(i)
        BY <1>2, <2>2, <3>2 DEF Listed
      <4>2. QED
        BY <4>1 DEF QueueInv, ListOK, StatusTellsUpload
    <3>3. QED
      BY <3>1, <3>2
  <2>3. QED
    BY <1>1, <2>2 DEF StatusTellsUpload
<1>8. UrlsOfListed'
  <2>1. urls = {i \in Images : Listed(i)} /\ Images \subseteq Items
    BY QueueAssumption DEF QueueInv, ListOK, UrlsOfListed, Items
  <2>2. \A i \in Items : Listed(i)' <=> Listed(i) \/ i \in added + 1 .. n
    BY <1>1, <1>2, <1>3, <1>4 DEF Listed
  <2>3. QED
    BY <2>1, <2>2 DEF UrlsOfListed
<1>9. QED
  BY <1>5, <1>6, <1>7, <1>8 DEF QueueInv, ListOK

\* Items other than i are as they were, and i is off the list or keeps its status.
LEMMA RemoveItemKeeps ==
    ASSUME QueueInv, NEW i \in Items, RemoveItem(i)
    PROVE  QueueInv'
<1>1. /\ items' = [items EXCEPT ![i] = NoItem] /\ urls' = urls \ {i}
      /\ UNCHANGED <<added, isUploading, recent, page, open, uploads>> /\ open
      /\ added \in Nat /\ page \in Nat
  BY DEF RemoveItem, QueueInv, TypeOK
<1>2. ~Listed(i)' /\ \A j \in Items : j # i => items'[j] = items[j]
  BY <1>1 DEF QueueInv, TypeOK, Listed
<1>3. TypeOK'
  BY <1>1 DEF QueueInv, TypeOK
<1>4. CallsOK'
  <2>1. \A j \in Items : Listed(j)' => Listed(j)
    BY <1>2 DEF Listed
  <2>2. \A j \in Items : Listed(j)' => j <= added
    BY <2>1 DEF QueueInv, CallsOK, PageOK
  <2>3. QED
    BY <1>1, <2>1, <2>2, QuietCalls
<1>5. StatusTellsUpload'
  BY <1>1, <1>2 DEF QueueInv, ListOK, StatusTellsUpload, Listed
<1>6. UrlsOfListed'
  <2>1. Images \subseteq Items
    BY QueueAssumption DEF Items
  <2>2. \A j \in Images : Listed(j)' <=> Listed(j) /\ j # i
    BY <1>2, <2>1 DEF Listed
  <2>3. QED
    BY <1>1, <2>2 DEF QueueInv, ListOK, UrlsOfListed
<1>7. QED
  BY <1>3, <1>4, <1>5, <1>6 DEF QueueInv, ListOK

LEMMA LeaveKeeps ==
    ASSUME QueueInv, Leave
    PROVE  QueueInv'
<1>1. /\ items' = [i \in Items |-> NoItem] /\ urls' = urls \ {i \in Images : Listed(i)}
      /\ open' = FALSE /\ isUploading' = FALSE /\ recent' = <<>>
      /\ UNCHANGED <<added, page, uploads>>
  BY DEF Leave
<1>2. \A i \in Items : ~Listed(i)' /\ items'[i] = NoItem
  BY <1>1 DEF Listed
<1>3. TypeOK'
  <2>1. recent' \in Seq([item : Items, message : Messages]) /\ Len(recent') <= MaxRecent
    <3>1. MaxRecent \in Nat /\ Len(<<>>) = 0
      BY QueueAssumption
    <3>2. QED
      BY <1>1, <3>1
  <2>2. items' \in [Items -> Item \cup {NoItem}]
    BY <1>1
  <2>3. QED
    BY <1>1, <2>1, <2>2 DEF QueueInv, TypeOK
<1>4. CallsOK'
  <2>1. UploadsOK'
    <3>1. \A u \in uploads : UploadOK(u) /\ u.todo \subseteq Items
      BY CallTyped DEF QueueInv, TypeOK, CallsOK, UploadsOK
    <3>2. QED
      BY <1>1, <1>2, <3>1 DEF UploadsOK, UploadOK, LoopOfPage
  <2>2. OneLoop' /\ Apart' /\ PageOK'
    BY <1>1, <1>2 DEF QueueInv, CallsOK, OneLoop, LoopOfPage, Apart, PageOK
  <2>3. QED
    BY <2>1, <2>2 DEF CallsOK
<1>5. ListOK'
  <2>1. Images \subseteq Items
    BY QueueAssumption DEF Items
  <2>2. UrlsOfListed'
    BY <1>1, <1>2, <2>1 DEF QueueInv, ListOK, UrlsOfListed
  <2>3. StatusTellsUpload'
    BY <1>2, NoItemIsNone DEF StatusTellsUpload
  <2>4. QED
    BY <2>2, <2>3 DEF ListOK
<1>6. QED
  BY <1>3, <1>4, <1>5 DEF QueueInv

LEMMA EnterKeeps ==
    ASSUME QueueInv, Enter
    PROVE  QueueInv'
<1>1. /\ open' = TRUE /\ page' = page + 1 /\ ~open /\ page < MaxVisits
      /\ UNCHANGED <<items, added, isUploading, recent, urls, uploads>>
      /\ page \in 0..MaxVisits
  BY DEF Enter, QueueInv, TypeOK
<1>2. page' \in 0..MaxVisits /\ page' >= 1
  BY <1>1, QueueAssumption
<1>3. TypeOK'
  BY <1>1, <1>2 DEF QueueInv, TypeOK
<1>4. CallsOK'
  <2>1. ASSUME NEW u \in uploads
        PROVE  UploadOK(u)' /\ ~LoopOfPage(u)'
    <3>1. u \in Upload /\ UploadOK(u)
      BY DEF QueueInv, TypeOK, CallsOK, UploadsOK
    <3>2. u.page \in Nat /\ u.page <= page /\ u.todo \subseteq Items
      BY <3>1, CallTyped DEF UploadOK
    <3>3. u.page # page' /\ u.page <= page'
      BY <1>1, <3>2
    <3>4. \A i \in u.todo : ~Listed(i)'
      BY <1>1, <3>1 DEF UploadOK, Listed
    <3>5. QED
      BY <1>1, <3>1, <3>3, <3>4 DEF UploadOK, LoopOfPage
  <2>2. PageOK' /\ Apart'
    BY <1>1, <1>2 DEF QueueInv, CallsOK, PageOK, Apart, Listed
  <2>3. QED
    BY <1>1, <2>1, <2>2 DEF CallsOK, UploadsOK, OneLoop
<1>5. ListOK'
  BY <1>1 DEF QueueInv, ListOK, StatusTellsUpload, UrlsOfListed, Listed
<1>6. QED
  BY <1>3, <1>4, <1>5 DEF QueueInv

LEMMA ProgressKeeps ==
    ASSUME QueueInv, NEW u \in uploads, Progress(u)
    PROVE  QueueInv'
<1> DEFINE i == Current(u)
<1>1. u \in Upload /\ i \in Items
  BY CallTyped DEF QueueInv, TypeOK
<1>2. PICK v \in Percents : items' = [items EXCEPT ![i].progress = v]
  BY DEF Progress
<1>3. /\ Listed(i) /\ UNCHANGED <<added, isUploading, recent, urls, page, open, uploads>>
      /\ added \in Nat /\ page \in Nat
  BY DEF Progress, QueueInv, TypeOK
<1> HIDE DEF i
<1>4. ASSUME NEW j \in Items
      PROVE  /\ items'[j] \in Item \cup {NoItem} /\ (Listed(j)' <=> Listed(j))
             /\ items'[j].status = items[j].status
             /\ Listed(j) => items'[j].code = items[j].code
             /\ Listed(j) => items'[j].retryable = items[j].retryable
  <2>1. CASE j = i
    <3>1. PICK e \in Item : e = items[i]
      BY <1>1, <1>3, ListedTyped DEF QueueInv
    <3>2. items'[i] = [e EXCEPT !.progress = v]
      BY <1>1, <1>2, <3>1 DEF QueueInv, TypeOK
    <3>3. PICK x : x = [e EXCEPT !.progress = v]
      OBVIOUS
    <3>4. x \in Item /\ x.status = e.status /\ x.code = e.code /\ x.retryable = e.retryable
      BY <1>2, <3>3 DEF Item
    <3>5. x # NoItem
      BY <3>4, NoItemIsNone
    <3>6. items'[j] = x /\ items[j] = e
      BY <2>1, <3>1, <3>2, <3>3
    <3>7. QED
      BY <2>1, <1>3, <3>4, <3>5, <3>6 DEF Listed
  <2>2. CASE j # i
    <3>1. items'[j] = items[j] /\ items[j] \in Item \cup {NoItem}
      BY <1>1, <1>2, <2>2 DEF QueueInv, TypeOK
    <3>2. QED
      BY <3>1 DEF Listed
  <2>3. QED
    BY <2>1, <2>2
<1>5. TypeOK'
  <2>1. items' \in [Items -> Item \cup {NoItem}]
    BY <1>2, <1>4 DEF QueueInv, TypeOK
  <2>2. QED
    BY <1>3, <2>1 DEF QueueInv, TypeOK
<1>6. CallsOK'
  <2>1. \A j \in Items : Listed(j) => open \/ \A w \in uploads : j \notin w.todo
    BY DEF QueueInv, CallsOK, UploadsOK, UploadOK
  <2>2. open
    BY <1>1, <1>3, <2>1, CallTyped DEF i
  <2>3. \A j \in Items : Listed(j)' => j <= added
    BY <1>4 DEF QueueInv, CallsOK, PageOK
  <2>4. QED
    BY <1>3, <1>4, <2>2, <2>3, QuietCalls
<1>7. StatusTellsUpload'
  BY <1>3, <1>4 DEF QueueInv, ListOK, StatusTellsUpload
<1>8. UrlsOfListed'
  <2>1. Images \subseteq Items
    BY QueueAssumption DEF Items
  <2>2. QED
    BY <1>3, <1>4, <2>1 DEF QueueInv, ListOK, UrlsOfListed
<1>9. QED
  BY <1>5, <1>6, <1>7, <1>8 DEF QueueInv, ListOK

\* A call begins with items that no other call has, all waiting but the first, which
\* is sent.
LEMMA StartKeeps ==
    ASSUME QueueInv, open, ~isUploading,
           NEW S, S \subseteq Items, S # {}, NEW action \in Actions, NEW loop \in BOOLEAN,
           NEW n, n = [todo |-> S, action |-> action, loop |-> loop, page |-> page],
           \A i \in S : Listed(i) /\ \A u \in uploads : i \notin u.todo,
           \A i \in S \ {Min(S)} : items[i].status = "queued",
           ~loop => S = {Min(S)},
           isUploading' = loop, uploads' = uploads \cup {n},
           items' = Sending(items, Min(S)), UNCHANGED <<added, recent, urls, page, open>>
    PROVE  QueueInv'
<1> DEFINE c == Min(S)
<1>1. c \in S /\ c \in Items
  BY LeastIn
<1>2. page \in 1..MaxVisits /\ added \in Nat
  BY DEF QueueInv, TypeOK, CallsOK, PageOK
<1>3. /\ n \in Upload /\ n.todo = S /\ n.loop = loop /\ n.page = page
      /\ Current(n) = c /\ Rest(n) = S \ {c}
  BY <1>2, CallMade
<1>4. \A u \in uploads : u \in Upload /\ UploadOK(u)
  BY DEF QueueInv, TypeOK, CallsOK, UploadsOK
<1>5. Becomes(items, items', c, "uploading")
  BY <1>1, SendingBecomes DEF QueueInv, TypeOK, Lists
<1>6. /\ \A i \in Items : Listed(i)' <=> Listed(i)
      /\ \A i \in Items : i # c => items'[i] = items[i]
      /\ Listed(c) /\ items'[c].status = "uploading"
  BY <1>1, <1>5 DEF Becomes, Listed
<1> HIDE DEF c
<1>7. TypeOK'
  BY <1>3, <1>5 DEF QueueInv, TypeOK, Becomes, Lists
<1>8. \A u \in uploads : ~LoopOfPage(u) /\ ~LoopOfPage(u)'
  BY <1>4 DEF UploadOK, LoopOfPage
<1>9. CallsOK'
  <2>1. ASSUME NEW u \in uploads PROVE UploadOK(u)'
    <3>1. u.todo \subseteq Items
      BY <1>4, CallTyped
    <3>2. \A i \in u.todo : Listed(i)' => open' /\ u.page = page'
      BY <1>4, <1>6, <3>1 DEF UploadOK
    <3>3. QED
      BY <1>4, <1>8, <3>2 DEF UploadOK
  <2>2. UploadOK(n)'
    <3>1. \A i \in S : i <= added
      BY DEF QueueInv, CallsOK, PageOK
    <3>2. n.page <= page
      BY <1>2, <1>3
    <3>3. ~loop => S \ {c} = {}
      BY DEF c
    <3>4. QED
      BY <1>3, <3>1, <3>2, <3>3 DEF UploadOK, LoopOfPage
  <2>3. OneLoop'
    BY <1>8 DEF OneLoop
  <2>4. Apart'
    BY <1>3 DEF QueueInv, CallsOK, Apart
  <2>5. PageOK'
    BY <1>6 DEF QueueInv, CallsOK, PageOK
  <2>6. QED
    BY <2>1, <2>2, <2>3, <2>4, <2>5 DEF CallsOK, UploadsOK
<1>10. StatusTellsUpload'
  <2>1. ASSUME NEW i \in Items, Listed(i)'
        PROVE  /\ items'[i].status = "uploading" <=> \E u \in uploads' : Current(u) = i
               /\ \A u \in uploads' : i \in Rest(u) => items'[i].status = "queued"
    <3>1. \A u \in uploads : Current(u) \in u.todo /\ Rest(u) \subseteq u.todo
      BY <1>4, CallTyped
    <3>2. CASE i = c
      <4>1. \A u \in uploads : i \notin Rest(u)
        BY <1>1, <3>1, <3>2
      <4>2. QED
        BY <1>3, <1>6, <3>2, <4>1
    <3>3. CASE i # c
      <4>1. Listed(i) /\ items'[i] = items[i]
        BY <1>6, <2>1, <3>3
      <4>2. /\ items[i].status = "uploading" <=> \E u \in uploads : Current(u) = i
            /\ \A u \in uploads : i \in Rest(u) => items[i].status = "queued"
        BY <4>1 DEF QueueInv, ListOK, StatusTellsUpload
      <4>3. i \in Rest(n) => items[i].status = "queued"
        BY <1>3 DEF c
      <4>4. QED
        BY <1>3, <3>3, <4>1, <4>2, <4>3
    <3>4. QED
      BY <3>2, <3>3
  <2>2. QED
    BY <2>1 DEF StatusTellsUpload
<1>11. UrlsOfListed'
  <2>1. Images \subseteq Items
    BY QueueAssumption DEF Items
  <2>2. QED
    BY <1>6, <2>1 DEF QueueInv, ListOK, UrlsOfListed
<1>12. QED
  BY <1>7, <1>9, <1>10, <1>11 DEF QueueInv, ListOK

\* What the button sends is waiting, so no call has it: what the loop of the page has
\* before it is waiting too, but there is none.
LEMMA UploadQueuedKeeps ==
    ASSUME QueueInv, UploadQueued
    PROVE  QueueInv'
<1>1. open /\ ~isUploading /\ Queue # {} /\ Queue \subseteq Items
  BY DEF UploadQueued, StartLoop, Queue
<1>2. \A i \in Queue : items[i].status = "queued" /\ Listed(i)
  BY NoItemIsNone DEF Queue, Listed
<1>3. ASSUME NEW i \in Queue, NEW u \in uploads, i \in u.todo
      PROVE  FALSE
  <2>1. u \in Upload /\ UploadOK(u)
    BY DEF QueueInv, TypeOK, CallsOK, UploadsOK
  <2>2. i # Current(u)
    BY <1>1, <1>2 DEF QueueInv, ListOK, StatusTellsUpload
  <2>3. i \in Rest(u)
    BY <1>3, <2>1, <2>2, CallTyped
  <2>4. LoopOfPage(u)
    BY <1>2, <1>3, <2>1, <2>3 DEF UploadOK, LoopOfPage
  <2>5. QED
    BY <1>1, <2>1, <2>4 DEF UploadOK
<1> PICK n : n = [todo |-> Queue, action |-> "none", loop |-> TRUE, page |-> page]
  OBVIOUS
<1>4. /\ isUploading' = TRUE /\ uploads' = uploads \cup {n}
      /\ items' = Sending(items, Min(Queue))
      /\ UNCHANGED <<added, recent, urls, page, open>>
  BY DEF UploadQueued, StartLoop
<1> PICK S : S = Queue
  OBVIOUS
<1>5. "none" \in Actions
  BY DEF Actions
<1>6. QED
  BY <1>1, <1>2, <1>3, <1>4, <1>5, StartKeeps

LEMMA UploadOneKeeps ==
    ASSUME QueueInv, NEW i \in Items, NEW action \in Actions, UploadOne(i, action)
    PROVE  QueueInv'
<1>1. open /\ ~isUploading /\ items[i].status = "error" /\ Listed(i)
  BY NoItemIsNone DEF UploadOne, Listed
<1>2. ASSUME NEW u \in uploads, i \in u.todo
      PROVE  FALSE
  <2>1. u \in Upload
    BY DEF QueueInv, TypeOK
  <2>2. i # Current(u) /\ i \notin Rest(u)
    BY <1>1 DEF QueueInv, ListOK, StatusTellsUpload
  <2>3. QED
    BY <1>2, <2>1, <2>2, CallTyped
<1> PICK S : S = {i}
  OBVIOUS
<1> PICK n : n = [todo |-> S, action |-> action, loop |-> FALSE, page |-> page]
  OBVIOUS
<1>3. S \subseteq Items /\ S # {} /\ Min(S) = i
  BY LeastIn
<1>4. /\ isUploading' = FALSE /\ uploads' = uploads \cup {n}
      /\ items' = Sending(items, Min(S))
      /\ UNCHANGED <<added, recent, urls, page, open>>
  BY <1>1, <1>3 DEF UploadOne, QueueInv, TypeOK
<1>5. QED
  BY <1>1, <1>2, <1>3, <1>4, StartKeeps

-----------------------------------------------------------------------------
(* Answers. *)

\* The panel keeps MaxRecent results.
LEMMA PushTyped ==
    ASSUME TypeOK, NEW u \in uploads, NEW message \in Messages, Push(u, message)
    PROVE  /\ recent' \in Seq([item : Items, message : Messages])
           /\ Len(recent') <= MaxRecent
<1> DEFINE R == [item : Items, message : Messages]
           e == [item |-> Current(u), message |-> message]
           s == <<e>> \o recent
           n == IF Len(recent) < MaxRecent THEN Len(recent) + 1 ELSE MaxRecent
<1>1. recent \in Seq(R) /\ Len(recent) <= MaxRecent /\ MaxRecent \in Nat
  BY QueueAssumption DEF TypeOK
<1>2. e \in R
  BY CallTyped DEF TypeOK
<1> HIDE DEF e, R
<1>3. <<e>> \in Seq(R) /\ Len(<<e>>) = 1
  BY <1>2
<1>4. s \in Seq(R) /\ Len(s) = 1 + Len(recent) /\ Len(recent) \in Nat
  BY <1>1, <1>3, ConcatProperties
<1> HIDE DEF s
<1>5. n \in Nat /\ n <= Len(s) /\ n <= MaxRecent
  BY <1>1, <1>4
<1>6. \A i \in 1 .. n : s[i] \in R
  BY <1>4, <1>5
<1>7. SubSeq(s, 1, n) \in Seq(R) /\ Len(SubSeq(s, 1, n)) = IF 1 <= n THEN n - 1 + 1 ELSE 0
  BY <1>5, <1>6, SubSeqProperties
<1>8. recent' = SubSeq(s, 1, n) \/ recent' = recent
  BY DEF Push, s, e
<1> HIDE DEF n
<1>9. Len(SubSeq(s, 1, n)) <= MaxRecent
  BY <1>1, <1>5, <1>7
<1>10. recent' \in Seq(R) /\ Len(recent') <= MaxRecent
  BY <1>1, <1>7, <1>8, <1>9
<1>11. QED
  BY <1>10 DEF R

\* The answer has taken the item of call u off the list or shows it as failed; then
\* the call goes on.
LEMMA GoOnKeeps ==
    ASSUME QueueInv, NEW u \in uploads, NEW list \in Lists, GoOn(u, list),
           \A i \in Items : i # Current(u) => list[i] = items[i],
           list[Current(u)] # NoItem =>
               /\ Listed(Current(u))
               /\ list[Current(u)].status = "error"
               /\ list[Current(u)].code # "none" =>
                     (list[Current(u)].retryable
                         <=> list[Current(u)].code # "trashed_duplicate"),
           recent' \in Seq([item : Items, message : Messages]) /\ Len(recent') <= MaxRecent,
           urls' = {i \in Images : list[i] # NoItem},
           UNCHANGED <<added, page, open>>
    PROVE  QueueInv'
<1> DEFINE c == Current(u)
           n == [u EXCEPT !.todo = Rest(u)]
<1>1. u \in Upload /\ c \in u.todo /\ c \in Items /\ Rest(u) = u.todo \ {c}
  BY CallTyped DEF QueueInv, TypeOK
<1>2. \A v \in uploads : /\ v \in Upload /\ UploadOK(v) /\ v.todo \subseteq Items
                         /\ Current(v) \in v.todo /\ Rest(v) = v.todo \ {Current(v)}
  BY CallTyped DEF QueueInv, TypeOK, CallsOK, UploadsOK
<1>3. \A v \in uploads : v # u => \A i \in u.todo : i \notin v.todo
  BY DEF QueueInv, CallsOK, Apart
<1>4. \A i \in Items : list[i] # NoItem => Listed(i)
  BY <1>1 DEF Listed
<1>5. /\ list[c] # NoItem => list[c] \in Item /\ list[c].status = "error"
      /\ \A i \in Items : i # c => list[i] = items[i]
  BY <1>1 DEF Lists
<1>6. ASSUME NEW v \in uploads, LoopOfPage(v) => isUploading',
             \A i \in Items : Listed(i)' => Listed(i)
      PROVE  UploadOK(v)'
  <2>1. \A i \in v.todo : Listed(i)' => open' /\ v.page = page'
    BY <1>2, <1>6 DEF UploadOK
  <2>2. QED
    BY <1>2, <1>6, <2>1 DEF UploadOK, LoopOfPage
<1> HIDE DEF c
<1>7. CASE Rest(u) # {}
  <2>1. /\ uploads' = (uploads \ {u}) \cup {n} /\ isUploading' = isUploading
        /\ items' = Sending(list, Min(Rest(u)))
    BY <1>7 DEF GoOn
  <2>2. /\ n \in Upload /\ n.todo = Rest(u) /\ n.loop = u.loop /\ n.page = u.page
        /\ Current(n) = Min(Rest(u)) /\ Current(n) \in Rest(u)
        /\ Rest(n) = Rest(u) \ {Current(n)}
    BY <1>1, <1>7, CallGoesOn
  <2> DEFINE d == Current(n)
  <2>3. d \in Items /\ d # c /\ d \in u.todo
    BY <1>1, <2>2, CallTyped
  <2>4. Becomes(list, items', d, "uploading")
    BY <2>1, <2>2, <2>3, SendingBecomes
  <2> HIDE DEF n, d
  <2>5. /\ \A i \in Items : Listed(i)' <=> list[i] # NoItem
        /\ \A i \in Items : i # d => items'[i] = list[i]
        /\ Listed(d)' => items'[d].status = "uploading"
    BY <2>3, <2>4 DEF Becomes, Listed
  <2>6. TypeOK'
    BY <2>1, <2>2, <2>4, QueueAssumption DEF QueueInv, TypeOK, Becomes, Lists
  <2>7. CallsOK'
    <3>1. \A i \in Items : Listed(i)' => Listed(i)
      BY <1>4, <2>5
    <3>2. \A v \in uploads : v # u => UploadOK(v)'
      BY <1>2, <1>6, <2>1, <3>1 DEF UploadOK
    <3>3. UploadOK(n)'
      <4>1. UploadOK(u) /\ n.todo \subseteq u.todo /\ u.loop
        BY <1>1, <1>2, <1>7, <2>2 DEF UploadOK
      <4>2. \A i \in n.todo : Listed(i)' => open' /\ n.page = page'
        BY <1>2, <2>2, <3>1, <4>1 DEF UploadOK
      <4>3. LoopOfPage(n)' => isUploading'
        BY <2>1, <2>2, <4>1 DEF UploadOK, LoopOfPage
      <4>4. QED
        BY <2>2, <4>1, <4>2, <4>3 DEF UploadOK
    <3>4. OneLoop'
      BY <2>1, <2>2 DEF QueueInv, CallsOK, OneLoop, LoopOfPage
    <3>5. Apart'
      <4>1. n.todo \subseteq u.todo
        BY <1>1, <2>2
      <4>2. QED
        BY <1>3, <2>1, <4>1 DEF QueueInv, CallsOK, Apart
    <3>6. PageOK'
      BY <3>1 DEF QueueInv, CallsOK, PageOK
    <3>7. QED
      BY <2>1, <3>2, <3>3, <3>4, <3>5, <3>6 DEF CallsOK, UploadsOK
  <2>8. StatusTellsUpload'
    <3>1. ASSUME NEW i \in Items, Listed(i)'
          PROVE  /\ items'[i].status = "uploading" <=> \E v \in uploads' : Current(v) = i
                 /\ \A v \in uploads' : i \in Rest(v) => items'[i].status = "queued"
      <4>1. CASE i = d
        <5>1. \A v \in uploads' : i \notin Rest(v)
          BY <1>2, <1>3, <2>1, <2>2, <2>3, <4>1 DEF d
        <5>2. n \in uploads' /\ Current(n) = i
          BY <2>1, <4>1 DEF d
        <5>3. QED
          BY <2>5, <3>1, <4>1, <5>1, <5>2
      <4>2. CASE i = c
        <5>1. \A v \in uploads' : Current(v) # i /\ i \notin Rest(v)
          BY <1>1, <1>2, <1>3, <2>1, <2>2, <2>3, <4>2 DEF d
        <5>2. items'[i].status = "error"
          BY <1>5, <2>3, <2>5, <3>1, <4>2
        <5>3. QED
          BY <5>1, <5>2
      <4>3. CASE i # d /\ i # c
        <5>1. items'[i] = items[i] /\ Listed(i)
          BY <1>4, <1>5, <2>5, <3>1, <4>3
        <5>2. /\ items[i].status = "uploading" <=> \E v \in uploads : Current(v) = i
              /\ \A v \in uploads : i \in Rest(v) => items[i].status = "queued"
          BY <5>1 DEF QueueInv, ListOK, StatusTellsUpload
        <5>3. (\E v \in uploads' : Current(v) = i) <=> \E v \in uploads : Current(v) = i
          BY <2>1, <4>3 DEF c, d
        <5>4. i \in Rest(n) => i \in Rest(u)
          BY <2>2
        <5>5. QED
          BY <2>1, <5>1, <5>2, <5>3, <5>4
      <4>4. QED
        BY <4>1, <4>2, <4>3
    <3>2. QED
      BY <3>1 DEF StatusTellsUpload
  <2>9. UrlsOfListed'
    <3>1. Images \subseteq Items
      BY QueueAssumption DEF Items
    <3>2. QED
      BY <2>5, <3>1 DEF UrlsOfListed
  <2>10. QED
    BY <2>6, <2>7, <2>8, <2>9 DEF QueueInv, ListOK
<1>8. CASE Rest(u) = {}
  <2>1. /\ uploads' = uploads \ {u} /\ items' = list
        /\ isUploading' = (isUploading /\ ~(u.loop /\ u.page = page))
    BY <1>8 DEF GoOn
  <2>2. \A i \in Items : (Listed(i)' <=> list[i] # NoItem) /\ (Listed(i)' => Listed(i))
    BY <1>4, <2>1 DEF Listed
  <2>3. TypeOK'
    BY <2>1, QueueAssumption DEF QueueInv, TypeOK, Lists
  <2>4. CallsOK'
    <3>1. ASSUME NEW v \in uploads, v # u PROVE UploadOK(v)'
      <4>1. LoopOfPage(v) => ~LoopOfPage(u) /\ isUploading
        BY <1>2, <3>1 DEF QueueInv, CallsOK, OneLoop, UploadOK
      <4>2. LoopOfPage(v) => isUploading'
        BY <2>1, <4>1 DEF LoopOfPage
      <4>3. QED
        BY <1>6, <2>2, <3>1, <4>2
    <3>2. OneLoop' /\ Apart'
      BY <2>1 DEF QueueInv, CallsOK, OneLoop, LoopOfPage, Apart
    <3>3. PageOK'
      BY <2>2 DEF QueueInv, CallsOK, PageOK
    <3>4. QED
      BY <2>1, <3>1, <3>2, <3>3 DEF CallsOK, UploadsOK
  <2>5. StatusTellsUpload'
    <3>1. ASSUME NEW i \in Items, Listed(i)'
          PROVE  /\ items'[i].status = "uploading" <=> \E v \in uploads' : Current(v) = i
                 /\ \A v \in uploads' : i \in Rest(v) => items'[i].status = "queued"
      <4>1. CASE i = c
        <5>1. \A v \in uploads' : Current(v) # i /\ i \notin Rest(v)
          BY <1>1, <1>2, <1>3, <2>1, <4>1
        <5>2. items'[i].status = "error"
          BY <1>5, <2>1, <2>2, <3>1, <4>1
        <5>3. QED
          BY <5>1, <5>2
      <4>2. CASE i # c
        <5>1. items'[i] = items[i] /\ Listed(i)
          BY <1>5, <2>1, <2>2, <3>1, <4>2
        <5>2. /\ items[i].status = "uploading" <=> \E v \in uploads : Current(v) = i
              /\ \A v \in uploads : i \in Rest(v) => items[i].status = "queued"
          BY <5>1 DEF QueueInv, ListOK, StatusTellsUpload
        <5>3. QED
          BY <2>1, <4>2, <5>1, <5>2 DEF c
      <4>3. QED
        BY <4>1, <4>2
    <3>2. QED
      BY <3>1 DEF StatusTellsUpload
  <2>6. UrlsOfListed'
    <3>1. Images \subseteq Items
      BY QueueAssumption DEF Items
    <3>2. QED
      BY <2>2, <3>1 DEF UrlsOfListed
  <2>7. QED
    BY <2>3, <2>4, <2>5, <2>6 DEF QueueInv, ListOK
<1>9. QED
  BY <1>7, <1>8

LEMMA MessagesTyped ==
    ASSUME NEW action \in Actions
    PROVE  /\ Successes(action) \subseteq Messages
           /\ Failures(action) \subseteq Codes \ {"none"}
           /\ Failures(action) \subseteq Messages
BY DEF Successes, Failures, Messages, Codes

LEMMA SucceedKeeps ==
    ASSUME QueueInv, NEW u \in uploads, Succeed(u)
    PROVE  QueueInv'
<1> PICK c : c = Current(u)
  OBVIOUS
<1> PICK list : list = [items EXCEPT ![c] = NoItem]
  OBVIOUS
<1>1. c \in Items /\ u.action \in Actions
  BY CallTyped DEF QueueInv, TypeOK
<1>2. GoOn(u, list) /\ urls' = urls \ {c} /\ UNCHANGED <<added, page, open>>
  BY DEF Succeed
<1>3. /\ list \in Lists /\ list[c] = NoItem
      /\ \A i \in Items : i # c => list[i] = items[i]
  BY <1>1 DEF QueueInv, TypeOK, Lists
<1>4. PICK message \in Messages : Push(u, message)
  BY <1>1, MessagesTyped DEF Succeed
<1>5. urls' = {i \in Images : list[i] # NoItem}
  <2>1. Images \subseteq Items /\ urls = {i \in Images : Listed(i)}
    BY QueueAssumption DEF Items, QueueInv, ListOK, UrlsOfListed
  <2>2. \A i \in Items : list[i] # NoItem <=> Listed(i) /\ i # c
    BY <1>3 DEF Listed
  <2>3. QED
    BY <1>2, <2>1, <2>2
<1>6. QED
  BY <1>2, <1>3, <1>4, <1>5, PushTyped, GoOnKeeps DEF QueueInv

LEMMA FailKeeps ==
    ASSUME QueueInv, NEW u \in uploads, Fail(u)
    PROVE  QueueInv'
<1> PICK c : c = Current(u)
  OBVIOUS
<1>1. c \in Items /\ u.action \in Actions
  BY CallTyped DEF QueueInv, TypeOK
<1>2. PICK code \in Failures(u.action) :
          GoOn(u, Failed(items, Current(u), code)) /\ Push(u, code)
  BY DEF Fail
<1> PICK list : list = Failed(items, c, code)
  OBVIOUS
<1>3. code \in Codes /\ code # "none" /\ code \in Messages
  BY <1>1, <1>2, MessagesTyped
<1>4. GoOn(u, list) /\ UNCHANGED <<added, urls, page, open>>
  BY <1>2 DEF Fail
<1>5. /\ Becomes(items, list, c, "error")
      /\ Listed(c) =>
            list[c].code = code /\ list[c].retryable = (code # "trashed_duplicate")
  BY <1>1, <1>3, FailedBecomes DEF QueueInv, TypeOK, Lists, Listed
<1>6. /\ list \in Lists /\ \A i \in Items : i # c => list[i] = items[i]
      /\ list[c] # NoItem =>
            /\ Listed(c) /\ list[c].status = "error"
            /\ list[c].code # "none" =>
                  (list[c].retryable <=> list[c].code # "trashed_duplicate")
  BY <1>5 DEF Becomes, Listed
<1>7. urls' = {i \in Images : list[i] # NoItem}
  <2>1. Images \subseteq Items /\ urls = {i \in Images : Listed(i)}
    BY QueueAssumption DEF Items, QueueInv, ListOK, UrlsOfListed
  <2>2. \A i \in Items : list[i] # NoItem <=> Listed(i)
    BY <1>5 DEF Becomes, Listed
  <2>3. QED
    BY <1>4, <2>1, <2>2
<1>8. recent' \in Seq([item : Items, message : Messages]) /\ Len(recent') <= MaxRecent
  BY <1>2, <1>3, PushTyped DEF QueueInv
<1>9. QED
  BY <1>4, <1>6, <1>7, <1>8, GoOnKeeps

-----------------------------------------------------------------------------
(* The invariant holds, and with it the properties. *)

LEMMA InitQueue == Init => QueueInv
<1> SUFFICES ASSUME Init PROVE QueueInv
  OBVIOUS
<1>1. \A i \in Items : items[i] = NoItem /\ ~Listed(i)
  BY DEF Init, Listed
<1>2. TypeOK
  <2>1. recent \in Seq([item : Items, message : Messages]) /\ Len(recent) <= MaxRecent
    <3>1. MaxRecent \in Nat /\ Len(<<>>) = 0
      BY QueueAssumption
    <3>2. QED
      BY <3>1 DEF Init
  <2>2. items \in [Items -> Item \cup {NoItem}]
    BY DEF Init
  <2>3. /\ added \in 0..MaxItems /\ page \in 0..MaxVisits
    BY QueueAssumption DEF Init
  <2>4. /\ isUploading \in BOOLEAN /\ open \in BOOLEAN
        /\ urls \subseteq Images /\ uploads \subseteq Upload
    BY DEF Init
  <2>5. QED
    BY <2>1, <2>2, <2>3, <2>4 DEF TypeOK
<1>3. CallsOK
  BY <1>1 DEF Init, CallsOK, UploadsOK, OneLoop, Apart, PageOK
<1>4. ListOK
  <2>1. Images \subseteq Items
    BY QueueAssumption DEF Items
  <2>2. QED
    BY <1>1, <2>1, NoItemIsNone
       DEF Init, ListOK, StatusTellsUpload, UrlsOfListed
<1>5. QED
  BY <1>2, <1>3, <1>4 DEF QueueInv

LEMMA NextQueue == QueueInv /\ [Next]_queueVars => QueueInv'
<1> SUFFICES ASSUME QueueInv, [Next]_queueVars PROVE QueueInv'
  OBVIOUS
<1>1. CASE Next
  <2>1. CASE AddFiles
    BY <2>1, AddFilesKeeps
  <2>2. CASE UploadQueued
    BY <2>2, UploadQueuedKeeps
  <2>3. CASE Leave
    BY <2>3, LeaveKeeps
  <2>4. CASE Enter
    BY <2>4, EnterKeeps
  <2>5. ASSUME NEW i \in Items, RemoveItem(i) PROVE QueueInv'
    BY <2>5, RemoveItemKeeps
  <2>6. ASSUME NEW i \in Items, NEW action \in Actions, UploadOne(i, action) PROVE QueueInv'
    BY <2>6, UploadOneKeeps
  <2>7. ASSUME NEW u \in uploads, Progress(u) PROVE QueueInv'
    BY <2>7, ProgressKeeps
  <2>8. ASSUME NEW u \in uploads, Answered(u) PROVE QueueInv'
    BY <2>8, SucceedKeeps, FailKeeps DEF Answered
  <2>9. QED
    BY <1>1, <2>1, <2>2, <2>3, <2>4, <2>5, <2>6, <2>7, <2>8 DEF Next
<1>2. CASE UNCHANGED queueVars
  BY <1>2 DEF queueVars, QueueInv, TypeOK, CallsOK, UploadsOK, UploadOK, LoopOfPage,
       OneLoop, Apart, PageOK, ListOK, StatusTellsUpload, UrlsOfListed, Listed
<1>3. QED
  BY <1>1, <1>2

LEMMA QueueAlways == Spec => []QueueInv
BY InitQueue, NextQueue, PTL DEF Spec

\* Every variable of the panel keeps its type, for any number of files, visits and
\* results, and at most MaxRecent results are shown (upload-island.tsx:327-329).
THEOREM QueueTypes == Spec => []TypeOK
<1>1. QueueInv => TypeOK
  BY DEF QueueInv
<1>2. QED
  BY <1>1, QueueAlways, PTL

\* No file is sent twice: the loops of all visits and the clicks on failed items have
\* no item in common, although only the loop of the page that is shown disables the
\* buttons (upload-island.tsx:271-283, 360-434).
THEOREM SentOnce == Spec => []OneUploadPerItem
<1>1. QueueInv => OneUploadPerItem
  <2> SUFFICES ASSUME QueueInv, NEW i \in Items PROVE Cardinality(Under(i)) <= 1
    BY DEF OneUploadPerItem
  <2>1. \A u, v \in Under(i) : u = v
    BY DEF Under, QueueInv, CallsOK, Apart
  <2>2. CASE Under(i) = {}
    BY <2>2, FS_EmptySet
  <2>3. CASE Under(i) # {}
    <3>1. PICK u : u \in Under(i)
      BY <2>3
    <3>2. Under(i) = {u}
      BY <2>1, <3>1
    <3>3. Cardinality({u}) = 1
      BY FS_Singleton, Zenon
    <3>4. QED
      BY <3>2, <3>3
  <2>4. QED
    BY <2>2, <2>3
<1>2. QED
  BY <1>1, QueueAlways, PTL

\* The list shows as uploading exactly what is being sent, and as waiting what a loop
\* has still before it, whatever is added, removed or sent again while the loop walks
\* the list it captured (upload-island.tsx:191-197, 271-283).
THEOREM ListIsTrue == Spec => []StatusTellsUpload
<1>1. QueueInv => StatusTellsUpload
  BY DEF QueueInv, ListOK
<1>2. QED
  BY <1>1, QueueAlways, PTL

\* Exactly the images on the list have a preview URL that is not revoked, after
\* successes, removals and visits that ended (upload-island.tsx:76-84, 211-213,
\* 285-292).
THEOREM UrlsRevoked == Spec => []UrlsOfListed
<1>1. QueueInv => UrlsOfListed
  BY DEF QueueInv, ListOK
<1>2. QED
  BY <1>1, QueueAlways, PTL

\* An update for an item changes no other, and none brings an item to the list.
LEMMA SendingBringsNone ==
    ASSUME NEW list \in Lists, NEW i \in Items, NEW j \in Items, list[j] = NoItem
    PROVE  Sending(list, i)[j] = NoItem
BY SendingBecomes DEF Becomes

LEMMA FailedBringsNone ==
    ASSUME NEW list \in Lists, NEW i \in Items, NEW j \in Items, NEW c \in Codes,
           list[j] = NoItem
    PROVE  Failed(list, i, c) \in Lists /\ Failed(list, i, c)[j] = NoItem
BY FailedBecomes DEF Becomes

LEMMA GoOnBringsNone ==
    ASSUME NEW u \in Upload, NEW list \in Lists, GoOn(u, list), NEW j \in Items,
           list[j] = NoItem
    PROVE  items'[j] = NoItem
<1>1. CASE Rest(u) # {} /\ items' = Sending(list, Min(Rest(u)))
  <2>1. Min(Rest(u)) \in Items
    BY <1>1, CallTyped, LeastIn
  <2>2. QED
    BY <1>1, <2>1, SendingBringsNone
<1>2. CASE items' = list
  BY <1>2
<1>3. QED
  BY <1>1, <1>2 DEF GoOn

\* Whatever left the list by success, by removal or with its page is not listed
\* again by what its call goes on to do (upload-island.tsx:191-197, 247-259,
\* 271-292).
THEOREM NothingComesBack == Spec => GoneStaysGone
<1>1. QueueInv /\ [Next]_queueVars
        => [\A i \in 1..added : ~Listed(i) => ~Listed(i)']_queueVars
  <2> SUFFICES ASSUME QueueInv, Next, NEW j \in 1..added, ~Listed(j) PROVE ~Listed(j)'
    BY DEF queueVars
  <2>1. /\ j \in Items /\ items \in Lists /\ items[j] = NoItem
        /\ added \in Nat /\ uploads \subseteq Upload
    BY QueueAssumption DEF QueueInv, TypeOK, Items, Lists, Listed
  <2> SUFFICES items'[j] = NoItem
    BY DEF Listed
  <2>2. CASE AddFiles
    <3>1. j \notin added + 1 .. MaxItems
      BY <2>1
    <3>2. PICK n \in added + 1 .. MaxItems : \E invalid \in SUBSET (added + 1 .. n) :
            items' = [i \in Items |->
                          IF i \in added + 1 .. n
                          THEN [status |-> IF i \in invalid THEN "error" ELSE "queued",
                                progress |-> 0, code |-> "none",
                                retryable |-> i \notin invalid]
                          ELSE items[i]]
      BY <2>2 DEF AddFiles
    <3>3. j \notin added + 1 .. n
      BY <2>1
    <3>4. QED
      BY <2>1, <3>2, <3>3
  <2>3. CASE UploadQueued
    <3>1. Queue \subseteq Items /\ Queue # {} /\ items' = Sending(items, Min(Queue))
      BY <2>3 DEF UploadQueued, StartLoop, Queue
    <3>2. Min(Queue) \in Items
      BY <3>1, LeastIn
    <3>3. QED
      BY <2>1, <3>1, <3>2, SendingBringsNone
  <2>4. CASE Leave
    BY <2>1, <2>4 DEF Leave
  <2>5. CASE Enter
    BY <2>1, <2>5 DEF Enter
  <2>6. ASSUME NEW i \in Items, RemoveItem(i) PROVE items'[j] = NoItem
    BY <2>1, <2>6 DEF RemoveItem, Lists
  <2>7. ASSUME NEW i \in Items, NEW action \in Actions, UploadOne(i, action)
        PROVE  items'[j] = NoItem
    BY <2>1, <2>7, SendingBringsNone DEF UploadOne
  <2>8. ASSUME NEW u \in uploads, Progress(u) PROVE items'[j] = NoItem
    <3>1. Current(u) \in Items /\ items[Current(u)] # NoItem
      BY <2>1, <2>8, CallTyped DEF Progress, Listed
    <3>2. PICK v : items' = [items EXCEPT ![Current(u)].progress = v]
      BY <2>8 DEF Progress
    <3>3. QED
      BY <2>1, <3>1, <3>2 DEF Lists
  <2>9. ASSUME NEW u \in uploads, Succeed(u) PROVE items'[j] = NoItem
    <3> DEFINE list == [items EXCEPT ![Current(u)] = NoItem]
    <3>1. list \in Lists /\ list[j] = NoItem /\ GoOn(u, list)
      BY <2>1, <2>9, CallTyped DEF Succeed, Lists
    <3> HIDE DEF list
    <3>2. QED
      BY <2>1, <3>1, GoOnBringsNone
  <2>10. ASSUME NEW u \in uploads, Fail(u) PROVE items'[j] = NoItem
    <3>1. PICK c \in Failures(u.action) : GoOn(u, Failed(items, Current(u), c))
      BY <2>10 DEF Fail
    <3>2. c \in Codes /\ Current(u) \in Items
      BY <2>1, CallTyped DEF Failures, Codes
    <3>3. Failed(items, Current(u), c) \in Lists
          /\ Failed(items, Current(u), c)[j] = NoItem
      BY <2>1, <3>2, FailedBringsNone
    <3>4. QED
      BY <2>1, <3>1, <3>3, GoOnBringsNone
  <2>11. QED
    BY <2>2, <2>3, <2>4, <2>5, <2>6, <2>7, <2>8, <2>9, <2>10 DEF Next, Answered
<1>2. QED
  BY <1>1, QueueAlways, PTL DEF Spec, GoneStaysGone
-----------------------------------------------------------------------------
(* The bar. *)

\* The items up to k that the list shows.
ListedTo(k) == {i \in 1..k : Listed(i)}

\* The recursion of the bar has a solution.
LEMMA BarExists ==
    \E f : f = [k \in 0..MaxItems |-> IF k = 0 THEN 0 ELSE f[k - 1] + Weight(k)]
<1> DEFINE Upto(n, f) == f = [k \in 0..n |-> IF k = 0 THEN 0 ELSE f[k - 1] + Weight(k)]
           Without == {n \in 0..MaxItems : ~\E f : Upto(n, f)}
<1>1. Without = {}
  <2>1. SUFFICES ASSUME Without # {} PROVE FALSE
    OBVIOUS
  <2>2. Without \subseteq Nat
    BY QueueAssumption
  <2>3. PICK n \in Without : \A m \in Without : <<m, n>> \notin OpToRel(<, Nat)
    BY <2>1, <2>2, WFMin, NatLessThanWellFounded
  <2>4. n \in 0..MaxItems /\ ~\E f : Upto(n, f)
    BY <2>3
  <2>5. Upto(0, [k \in 0..0 |-> 0])
    OBVIOUS
  <2>6. n # 0
    BY <2>4, <2>5
  <2>7. n - 1 \in 0..MaxItems /\ <<n - 1, n>> \in OpToRel(<, Nat)
    BY <2>4, <2>6, QueueAssumption DEF OpToRel
  <2>8. PICK f : Upto(n - 1, f)
    BY <2>3, <2>7
  <2> DEFINE g == [k \in 0..n |-> IF k = n THEN f[n - 1] + Weight(n) ELSE f[k]]
  <2>9. Upto(n, g)
    <3>1. \A k \in 0..n : g[k] = IF k = 0 THEN 0 ELSE g[k - 1] + Weight(k)
      <4>1. SUFFICES ASSUME NEW k \in 0..n
                     PROVE  g[k] = IF k = 0 THEN 0 ELSE g[k - 1] + Weight(k)
        OBVIOUS
      <4>2. CASE k = n
        BY <4>2, <2>4, <2>6, QueueAssumption
      <4>3. CASE k # n
        <5>1. k \in 0..(n - 1) /\ (k # 0 => k - 1 \in 0..n /\ k - 1 # n)
          BY <4>3, <2>4, <2>6, QueueAssumption
        <5>2. f[k] = IF k = 0 THEN 0 ELSE f[k - 1] + Weight(k)
          BY <5>1, <2>8
        <5>3. QED
          BY <5>1, <5>2, <4>3
      <4>4. QED
        BY <4>2, <4>3
    <3>2. g = [k \in 0..n |-> g[k]]
      OBVIOUS
    <3> HIDE DEF g
    <3>3. QED
      BY <3>1, <3>2
  <2>10. QED
    BY <2>4, <2>9
<1>2. MaxItems \in 0..MaxItems
  BY QueueAssumption
<1>3. \E f : Upto(MaxItems, f)
  BY <1>1, <1>2
<1>4. QED
  BY <1>3

\* One item more.
LEMMA BarGrows ==
    /\ WeightedProgress[0] = 0
    /\ \A k \in 1..MaxItems : WeightedProgress[k] = WeightedProgress[k - 1] + Weight(k)
<1>1. WeightedProgress =
        [k \in 0..MaxItems |-> IF k = 0 THEN 0 ELSE WeightedProgress[k - 1] + Weight(k)]
  BY BarExists DEF WeightedProgress
<1>2. \A k \in 0..MaxItems :
        WeightedProgress[k] = IF k = 0 THEN 0 ELSE WeightedProgress[k - 1] + Weight(k)
  BY <1>1
<1>3. 0 \in 0..MaxItems /\ \A k \in 1..MaxItems : k \in 0..MaxItems /\ k # 0
  BY QueueAssumption
<1>4. QED
  BY <1>2, <1>3

LEMMA WeightTyped ==
    ASSUME TypeOK, NEW i \in Items
    PROVE  Weight(i) \in 0..100 /\ (~Listed(i) => Weight(i) = 0)
<1>1. items[i] \in Item \cup {NoItem}
  BY DEF TypeOK
<1>2. items[i] \in Item => items[i].progress \in 0..100
  BY ItemFields, QueueAssumption
<1>3. QED
  BY <1>1, <1>2, NoItemIsNone DEF Weight, Listed

\* The part of the items listed up to k that is done.
Done(k) ==
    /\ WeightedProgress[k] \in Nat /\ Cardinality(ListedTo(k)) \in Nat
    /\ WeightedProgress[k] <= 100 * Cardinality(ListedTo(k))
    /\ \A i \in ListedTo(k) :
          WeightedProgress[k] + (100 - Weight(i)) <= 100 * Cardinality(ListedTo(k))

\* One item more is one more in the denominator, if it is listed.
LEMMA ListedToGrows ==
    ASSUME NEW k \in 1..MaxItems
    PROVE  /\ IsFiniteSet(ListedTo(k - 1)) /\ k \notin ListedTo(k - 1)
           /\ ListedTo(k) = IF Listed(k) THEN ListedTo(k - 1) \cup {k} ELSE ListedTo(k - 1)
           /\ Cardinality(ListedTo(k)) =
                Cardinality(ListedTo(k - 1)) + (IF Listed(k) THEN 1 ELSE 0)
<1>1. k \in Nat /\ k >= 1 /\ k - 1 \in Nat
  BY QueueAssumption
<1>2. IsFiniteSet(ListedTo(k - 1))
  BY <1>1, FS_Interval, FS_Subset DEF ListedTo
<1>3. k \notin ListedTo(k - 1)
  BY <1>1 DEF ListedTo
<1>4. ListedTo(k) = IF Listed(k) THEN ListedTo(k - 1) \cup {k} ELSE ListedTo(k - 1)
  <2>1. 1..k = (1..(k - 1)) \cup {k}
    BY <1>1
  <2>2. QED
    BY <2>1 DEF ListedTo
<1>5. Cardinality(ListedTo(k - 1)) \in Nat
  BY <1>2, FS_CardinalityType
<1>6. QED
  BY <1>2, <1>3, <1>4, <1>5, FS_AddElement

LEMMA DoneGrows ==
    ASSUME TypeOK, NEW k \in 1..MaxItems, Done(k - 1)
    PROVE  Done(k)
<1>1. k \in Items /\ WeightedProgress[k] = WeightedProgress[k - 1] + Weight(k)
  BY BarGrows DEF Items
<1>2. Weight(k) \in 0..100 /\ (~Listed(k) => Weight(k) = 0)
  BY <1>1, WeightTyped
<1>3. \A i \in ListedTo(k - 1) : Weight(i) \in 0..100
  <2>1. ListedTo(k - 1) \subseteq Items
    BY QueueAssumption DEF ListedTo, Items
  <2>2. QED
    BY <2>1, WeightTyped
<1> DEFINE w == WeightedProgress[k - 1]
           c == Cardinality(ListedTo(k - 1))
<1>4. /\ w \in Nat /\ c \in Nat /\ w <= 100 * c
      /\ \A i \in ListedTo(k - 1) : w + (100 - Weight(i)) <= 100 * c
  BY DEF Done
<1>5. WeightedProgress[k] = w + Weight(k)
  BY <1>1
<1>6. CASE Listed(k)
  <2>1. ListedTo(k) = ListedTo(k - 1) \cup {k} /\ Cardinality(ListedTo(k)) = c + 1
    BY <1>6, ListedToGrows
  <2> HIDE DEF w, c
  <2>2. \A i \in ListedTo(k - 1) : w + Weight(k) + (100 - Weight(i)) <= 100 * (c + 1)
    BY <1>2, <1>3, <1>4
  <2>3. w + Weight(k) + (100 - Weight(k)) <= 100 * (c + 1)
    BY <1>2, <1>4
  <2>4. w + Weight(k) \in Nat /\ w + Weight(k) <= 100 * (c + 1) /\ c + 1 \in Nat
    BY <1>2, <1>4
  <2>5. QED
    BY <2>1, <2>2, <2>3, <2>4, <1>5 DEF Done
<1>7. CASE ~Listed(k)
  <2>1. ListedTo(k) = ListedTo(k - 1) /\ Cardinality(ListedTo(k)) = c
    <3>1. c \in Nat
      BY <1>4
    <3>2. QED
      BY <1>7, <3>1, ListedToGrows
  <2>2. WeightedProgress[k] = w
    BY <1>5, <1>2, <1>4, <1>7
  <2> HIDE DEF w, c
  <2>3. QED
    BY <2>1, <2>2, <1>4 DEF Done
<1>8. QED
  BY <1>6, <1>7

\* What any one listed item lacks is missing from the sum.
LEMMA SumLacks ==
    ASSUME TypeOK
    PROVE  Done(MaxItems)
<1> DEFINE Failing == {n \in 0..MaxItems : ~Done(n)}
<1>1. SUFFICES ASSUME Failing # {} PROVE FALSE
  <2>1. MaxItems \in 0..MaxItems
    BY QueueAssumption
  <2>2. QED
    BY <2>1
<1>2. Failing \subseteq Nat
  BY QueueAssumption
<1>3. PICK n \in Failing : \A m \in Failing : <<m, n>> \notin OpToRel(<, Nat)
  BY <1>1, <1>2, WFMin, NatLessThanWellFounded
<1>4. n \in 0..MaxItems /\ ~Done(n)
  BY <1>3
<1>5. Done(0)
  <2>1. ListedTo(0) = {}
    BY DEF ListedTo
  <2>2. Cardinality(ListedTo(0)) = 0
    BY <2>1, FS_EmptySet
  <2>3. QED
    BY <2>1, <2>2, BarGrows DEF Done
<1>6. n \in 1..MaxItems /\ n - 1 \in 0..MaxItems /\ <<n - 1, n>> \in OpToRel(<, Nat)
  BY <1>4, <1>5, QueueAssumption DEF OpToRel
<1>7. Done(n - 1)
  BY <1>3, <1>6
<1>8. QED
  BY <1>4, <1>6, <1>7, DoneGrows

\* What a rounded quotient of 100 says about the dividend.
LEMMA RoundedUp ==
    ASSUME NEW s \in Nat, NEW n \in Nat, n # 0, (2 * s + n) \div (2 * n) = 100
    PROVE  2 * s + n >= 200 * n
<1> DEFINE a == 2 * s + n
           b == 2 * n
<1>1. a \in Nat /\ b \in Nat /\ b > 0
  OBVIOUS
<1>2. a \div b = 100
  OBVIOUS
<1> HIDE DEF a, b
<1>3. a = b * (a \div b) + (a % b) /\ a % b >= 0
  BY <1>1
<1>4. a >= b * 100
  BY <1>1, <1>2, <1>3
<1>5. QED
  BY <1>4 DEF a, b

LEMMA BarFull == TypeOK => FullMeansSent
<1>1. SUFFICES ASSUME TypeOK, OverallProgress = 100, NEW i \in Items
               PROVE  LET n == Cardinality(Listing)
                      IN /\ items[i].status = "queued" => n >= 200
                         /\ items[i].status = "uploading" =>
                               2 * (100 - items[i].progress) <= n
  BY DEF FullMeansSent
<1>2. CASE ~Listed(i)
  BY <1>1, <1>2, NoItemIsNone DEF Listed
<1>3. CASE Listed(i)
  <2>1. Listing = ListedTo(MaxItems) /\ i \in ListedTo(MaxItems)
    BY <1>3 DEF Listing, ListedTo, Items
  <2> DEFINE n == Cardinality(Listing)
             s == WeightedProgress[MaxItems]
  <2>2. n \in Nat /\ s \in Nat /\ s + (100 - Weight(i)) <= 100 * n
    BY <1>1, <2>1, SumLacks DEF Done
  <2>3. n # 0 /\ (2 * s + n) \div (2 * n) = 100
    BY <1>1 DEF OverallProgress
  <2>4. Weight(i) \in 0..100
    BY <1>1, WeightTyped
  <2> HIDE DEF n, s
  <2>5. 2 * s + n >= 200 * n
    BY <2>2, <2>3, RoundedUp
  <2>6. 2 * (100 - Weight(i)) <= n
    BY <2>2, <2>4, <2>5
  <2>7. items[i].status = "queued" => Weight(i) = 0
    BY DEF Weight
  <2>8. items[i].status = "uploading" => Weight(i) = items[i].progress
    BY DEF Weight
  <2>9. /\ items[i].status = "queued" => n >= 200
        /\ items[i].status = "uploading" => 2 * (100 - items[i].progress) <= n
    BY <2>2, <2>6, <2>7, <2>8
  <2>10. QED
    BY <2>9 DEF n
<1>4. QED
  BY <1>2, <1>3

\* The bar of the summary reaches 100% only when the list is sent to its end, up
\* to what Math.round hides: with fewer than 200 files none is waiting, and none
\* under way lacks more than half a percent for every file listed
\* (upload-metrics.ts:14-44).
THEOREM BarTellsTheEnd == Spec => []FullMeansSent
BY QueueTypes, BarFull, PTL
=============================================================================
