------------------------- MODULE LibraryPagesProofs -------------------------
(***************************************************************************)
(* Theorems about LibraryPages for all values of its constants: any number *)
(* of assets, contents and calls under way. One inductive invariant says   *)
(* of every call what its answer may still do to the page, and gives type  *)
(* correctness and the five safety properties.                             *)
(***************************************************************************)
EXTENDS LibraryPages, TLAPS

-----------------------------------------------------------------------------
(* The inductive invariant. *)

Offered(p) == RemovalsOn(p) \cup (IF p = "trash" THEN {"emptyTrash"} ELSE {})

\* What a call under way has to do with the page.
LoadOK(call) ==
    call.kind \in Loads =>
        /\ call.kind = LoadOf(page) /\ call.asset = id
        /\ page # "detail" => loading
        /\ call.found \subseteq been
        /\ call.answer = "ok" => IF page = "detail" THEN call.found = {id}
                                 ELSE always \subseteq call.found

UploadOK(call) ==
    call.kind = "upload" /\ call.mounted =>
        page = "media" /\ (call.answer = "ok" => call.found \subseteq been)

RemovalOK(call) ==
    /\ call.step = "emptying" => call.kind = "emptyTrash"
    /\ call.kind \in Removals => (call.asset = Null <=> call.kind = "emptyTrash")
    /\ call.kind \in Removals /\ call.mounted =>
          /\ call.kind \in Offered(page) /\ ~loading
          /\ call.answer = "ok" /\ page # "detail" => call.asset \notin always
          /\ call.kind = "emptyTrash" =>
                /\ call.step = "emptying" => always \subseteq call.found
                /\ call.answer = "ok" => always = {}

CallOK(call) == LoadOK(call) /\ UploadOK(call) /\ RemovalOK(call)

\* A removal of the page may still be answered.
Pending(a) ==
    \E s \in Slots : /\ calls[s].mounted /\ calls[s].kind \in Removals
                     /\ calls[s].asset \in {a, Null}

PageOK ==
    /\ InPage(page) \subseteq been /\ always \subseteq InPage(page)
    /\ loading => taken = {} /\ (page # "media" => Shown = {})
    /\ \A a \in taken : page = "detail" \/ a \in Shown => error \/ Pending(a)

OneLoad == \A s, t \in Slots : calls[s].kind \in Loads /\ calls[t].kind \in Loads => s = t

PagesInv ==
    /\ TypeOK /\ PageOK /\ OneLoad /\ \A s \in Slots : CallOK(calls[s])
    /\ NoPhantomCards /\ AlwaysListed /\ NoDuplicateCards /\ DetailShowsId

-----------------------------------------------------------------------------
(* Calls that are sent. *)

New(kind, a) == [kind |-> kind, asset |-> a, mounted |-> TRUE, step |-> "sent",
                 answer |-> "none", found |-> {}]

CallList == [Slots -> Call \cup {Idle}]

\* A call that is sent takes a slot that is free.
LEMMA SentAdds ==
    ASSUME NEW list \in CallList, NEW kind \in Kinds, NEW a \in Assets \cup {Null},
           \E s \in Slots : list[s] = Idle
    PROVE  /\ New(kind, a) \in Call
           /\ \E s \in Slots : /\ list[s] = Idle
                               /\ Sent(list, kind, a) = [list EXCEPT ![s] = New(kind, a)]
<1>1. New(kind, a) \in Call
  BY DEF New, Call, Answers
<1> DEFINE t == CHOOSE s \in Slots : list[s] = Idle
<1>2. t \in Slots /\ list[t] = Idle
  OBVIOUS
<1>3. Sent(list, kind, a) = [list EXCEPT ![t] = New(kind, a)]
  BY DEF Sent, New
<1> HIDE DEF t
<1>4. QED
  BY <1>1, <1>2, <1>3

\* A call that is under way is a call.
LEMMA CallType ==
    ASSUME calls \in CallList, NEW s \in Slots, calls[s] # Idle
    PROVE  calls[s] \in Call
BY DEF CallList

\* Leaving a page, and leaving an asset's page for another's, keep the type of the
\* list; free slots stay free, no load is left, and after the page was left no
\* call is mounted.
LEMMA CleanupTypes ==
    ASSUME NEW list \in CallList
    PROVE  /\ Unmounted(list) \in CallList /\ Cancelled(list) \in CallList
           /\ \A s \in Slots :
                 /\ list[s] = Idle => Unmounted(list)[s] = Idle /\ Cancelled(list)[s] = Idle
                 /\ Unmounted(list)[s].kind \notin Loads /\ ~Unmounted(list)[s].mounted
                 /\ Unmounted(list)[s] # Idle =>
                       /\ Unmounted(list)[s].kind = list[s].kind
                       /\ Unmounted(list)[s].asset = list[s].asset
                       /\ Unmounted(list)[s].step = list[s].step
                 /\ Cancelled(list)[s].kind \notin Loads
                 /\ Cancelled(list)[s] \in {list[s], Idle}
                 /\ list[s].kind \notin Loads => Cancelled(list)[s] = list[s]
<1>1. Idle.kind \notin Loads /\ ~Idle.mounted /\ Idle.kind \notin Removals \cup {"upload"}
  BY DEF Idle, Loads, Removals
<1>2. \A s \in Slots : /\ Unmounted(list)[s] \in Call \cup {Idle}
                       /\ list[s] = Idle => Unmounted(list)[s] = Idle
                       /\ Unmounted(list)[s].kind \notin Loads /\ ~Unmounted(list)[s].mounted
                       /\ Unmounted(list)[s] # Idle =>
                             /\ Unmounted(list)[s].kind = list[s].kind
                             /\ Unmounted(list)[s].asset = list[s].asset
                             /\ Unmounted(list)[s].step = list[s].step
  <2> TAKE s \in Slots
  <2>1. CASE list[s].kind \notin Removals \cup {"upload"}
    BY <1>1, <2>1 DEF Unmounted
  <2>2. CASE list[s].kind \in Removals \cup {"upload"}
    <3>1. list[s] \in Call /\ list[s] # Idle
      BY <1>1, <2>2 DEF CallList
    <3>2. Unmounted(list)[s] = [list[s] EXCEPT !.mounted = FALSE]
      BY <2>2 DEF Unmounted
    <3>3. list[s].kind \notin Loads
      BY <2>2 DEF Removals, Loads
    <3>4. QED
      BY <3>1, <3>2, <3>3 DEF Call
  <2>3. QED
    BY <2>1, <2>2
<1>3. Unmounted(list) = [s \in Slots |-> Unmounted(list)[s]]
  BY DEF Unmounted
<1>4. Cancelled(list) \in CallList
  BY DEF Cancelled, CallList
<1>5. \A s \in Slots : /\ list[s] = Idle => Cancelled(list)[s] = Idle
                       /\ Cancelled(list)[s].kind \notin Loads
                       /\ Cancelled(list)[s] \in {list[s], Idle}
                       /\ list[s].kind \notin Loads => Cancelled(list)[s] = list[s]
  BY <1>1 DEF Cancelled
<1>6. Unmounted(list) \in CallList
  BY <1>2, <1>3 DEF CallList
<1>7. QED
  BY <1>2, <1>4, <1>5, <1>6

\* A call that a step does not touch keeps what the invariant says of it, while the
\* page stays.
LEMMA CallKept ==
    ASSUME NEW s \in Slots, CallOK(calls[s]), calls'[s] = calls[s],
           UNCHANGED <<page, id, loading>>, been \subseteq been', always' \subseteq always
    PROVE  CallOK(calls[s])'
BY DEF CallOK, LoadOK, UploadOK, RemovalOK

\* A slot that is free has nothing to do with the page.
LEMMA IdleOK == CallOK(Idle) /\ CallOK(Idle)'
BY DEF CallOK, LoadOK, UploadOK, RemovalOK, Idle, Loads, Removals

-----------------------------------------------------------------------------
(* A page that is opened satisfies the invariant, whatever calls are left. *)

\* Every page has a load of its own.
LEMMA LoadOfType == \A p \in Pages : LoadOf(p) \in Loads /\ LoadOf(p) \in Kinds
BY DEF LoadOf, Pages, Loads, Kinds

LEMMA ShowKeeps ==
    ASSUME PagesInv, NEW p \in Pages, NEW a \in Assets \cup {Null},
           a # Null <=> p = "detail",
           NEW list \in CallList, \E s \in Slots : list[s] = Idle,
           \A s \in Slots : list[s] \in {calls[s], Idle},
           Show(p, a, list), UNCHANGED libraryVars
    PROVE  PagesInv'
<1> DEFINE rest == Unmounted(list)
<1>1. PICK t \in Slots : /\ rest[t] = Idle
                         /\ calls' = [rest EXCEPT ![t] = New(LoadOf(p), a)]
                         /\ New(LoadOf(p), a) \in Call
  BY CleanupTypes, LoadOfType, SentAdds DEF Show
<1>2. rest \in CallList
  BY CleanupTypes
<1>3. /\ page' = p /\ id' = a /\ cards' = NoCards /\ loading' = TRUE /\ error' = FALSE
      /\ been' = InPage(p) /\ always' = InPage(p) /\ taken' = {}
      /\ status' = status /\ original' = original /\ known' = known
  BY DEF Show, libraryVars
<1>4. Shown' = {}
  BY <1>3 DEF Shown, NoCards
<1>5. InPage(page)' = InPage(p)
  BY <1>3 DEF InPage, Part
<1>6. TypeOK'
  <2>1. calls' \in CallList
    BY <1>1, <1>2 DEF CallList
  <2>2. Library!TypeOK'
    BY <1>3 DEF PagesInv, TypeOK, Library!TypeOK
  <2>3. id' \in IF page' = "detail" THEN Assets ELSE {Null}
    BY <1>3, PagesAssumption
  <2>4. InPage(p) \subseteq Assets
    BY DEF InPage, Part
  <2>5. cards' \in [Assets -> Nat]
    BY <1>3 DEF NoCards
  <2>6. QED
    BY <1>3, <2>1, <2>2, <2>3, <2>4, <2>5 DEF TypeOK, CallList
<1>7. PageOK'
  BY <1>3, <1>4, <1>5 DEF PageOK
<1>8. ASSUME NEW s \in Slots PROVE CallOK(calls[s])'
  <2>1. CASE s = t
    <3>1. calls'[s] = New(LoadOf(p), a)
      BY <1>1, <1>2, <2>1 DEF CallList
    <3>2. LoadOf(p) \notin Removals \cup {"upload"}
      BY DEF LoadOf, Pages, Removals
    <3>3. QED
      BY <1>3, <3>1, <3>2 DEF New, CallOK, LoadOK, UploadOK, RemovalOK
  <2>2. CASE s # t
    <3>1. calls'[s] = rest[s]
      BY <1>1, <1>2, <2>2 DEF CallList
    <3>2. CASE rest[s] = Idle
      BY <3>1, <3>2, IdleOK DEF CallOK, LoadOK, UploadOK, RemovalOK
    <3>3. CASE rest[s] # Idle
      <4>1. /\ rest[s].kind \notin Loads /\ ~rest[s].mounted
            /\ rest[s].kind = list[s].kind /\ rest[s].asset = list[s].asset
            /\ rest[s].step = list[s].step
        BY <3>3, CleanupTypes
      <4>2. list[s] = calls[s]
        BY <3>3, CleanupTypes
      <4>3. RemovalOK(calls[s])
        BY DEF PagesInv, CallOK
      <4>4. QED
        BY <3>1, <4>1, <4>2, <4>3 DEF CallOK, LoadOK, UploadOK, RemovalOK
    <3>4. QED
      BY <3>2, <3>3
  <2>3. QED
    BY <2>1, <2>2
<1>9. (NoPhantomCards /\ AlwaysListed /\ NoDuplicateCards)'
  BY <1>3, <1>4 DEF NoPhantomCards, AlwaysListed, NoDuplicateCards, NoCards
<1>10. DetailShowsId'
  <2>1. calls'[t].kind \in Loads
    BY <1>1, <1>2, LoadOfType DEF CallList, New
  <2>2. QED
    BY <2>1 DEF DetailShowsId
<1>11. OneLoad'
  <2>1. \A s \in Slots \ {t} : calls'[s].kind \notin Loads
    BY <1>1, <1>2, CleanupTypes DEF CallList
  <2>2. QED
    BY <2>1 DEF OneLoad
<1>12. QED
  BY <1>6, <1>7, <1>8, <1>9, <1>10, <1>11 DEF PagesInv

-----------------------------------------------------------------------------
(* What the user does. *)

LEMMA ClickKeeps ==
    ASSUME PagesInv, SlotFree, NEW kind \in Removals \cup {"upload"},
           NEW a \in Assets \cup {Null}, calls' = Sent(calls, kind, a),
           kind = "upload" => page = "media",
           kind \in Removals => /\ kind \in Offered(page) /\ ~loading
                                /\ a = Null <=> kind = "emptyTrash",
           UNCHANGED <<libraryVars, page, id, cards, loading, error, historyVars>>
    PROVE  PagesInv'
<1>1. calls \in CallList /\ kind \in Kinds
  BY DEF PagesInv, TypeOK, CallList, Kinds
<1>2. PICK t \in Slots : /\ calls[t] = Idle /\ calls' = [calls EXCEPT ![t] = New(kind, a)]
                         /\ New(kind, a) \in Call
  BY <1>1, SentAdds DEF SlotFree
<1>3. UNCHANGED <<status, original, known, page, id, cards, loading, error, been, always,
                  taken>>
  BY DEF libraryVars, historyVars
<1>4. calls'[t] = New(kind, a) /\ \A s \in Slots \ {t} : calls'[s] = calls[s]
  BY <1>1, <1>2 DEF CallList
<1>5. calls' \in CallList
  BY <1>1, <1>2 DEF CallList
<1>6. TypeOK'
  BY <1>3, <1>5 DEF PagesInv, TypeOK, Library!TypeOK, CallList
<1>7. kind \notin Loads
  BY DEF Removals, Loads
<1>8. \A s \in Slots : calls[s] # Idle => calls'[s] = calls[s]
  BY <1>2, <1>4
<1>9. ASSUME NEW x \in Assets, Pending(x) PROVE Pending(x)'
  <2>1. Idle.kind \notin Removals
    BY DEF Idle, Removals
  <2>2. QED
    BY <1>8, <1>9, <2>1 DEF Pending
<1>10. PageOK'
  <2>1. taken \subseteq Assets
    BY DEF PagesInv, TypeOK
  <2>2. InPage(page)' = InPage(page) /\ Shown' = Shown
    BY <1>3 DEF InPage, Part, Shown
  <2>3. QED
    BY <1>3, <1>9, <2>1, <2>2 DEF PagesInv, PageOK
<1>11. ASSUME NEW s \in Slots PROVE CallOK(calls[s])'
  <2>1. CASE s = t
    <3>1. CallOK(New(kind, a))'
      BY <1>3, <1>7 DEF CallOK, LoadOK, UploadOK, RemovalOK, New, Removals
    <3>2. QED
      BY <1>4, <2>1, <3>1 DEF CallOK, LoadOK, UploadOK, RemovalOK
  <2>2. CASE s # t
    BY <1>3, <1>4, <2>2, CallKept DEF PagesInv
  <2>3. QED
    BY <2>1, <2>2
<1>12. (NoPhantomCards /\ AlwaysListed /\ NoDuplicateCards)'
  BY <1>3 DEF PagesInv, NoPhantomCards, AlwaysListed, NoDuplicateCards, Shown
<1>13. \A s \in Slots : calls'[s].kind \in Loads <=> calls[s].kind \in Loads
  <2>1. Idle.kind \notin Loads
    BY DEF Idle, Loads
  <2>2. calls'[t].kind = kind
    BY <1>4 DEF New
  <2>3. QED
    BY <1>2, <1>4, <1>7, <2>1, <2>2
<1>14. OneLoad' /\ DetailShowsId'
  BY <1>3, <1>13 DEF PagesInv, OneLoad, DetailShowsId, Shown
<1>15. QED
  BY <1>6, <1>10, <1>11, <1>12, <1>14 DEF PagesInv

\* From one asset's page to another's, the only load is the new one, and the page,
\* with what it has pending, stays.
LEMMA JumpKeeps ==
    ASSUME PagesInv, NEW a \in Assets, Jump(a)
    PROVE  PagesInv'
<1>1. calls \in CallList
  BY DEF PagesInv, TypeOK, CallList
<1> DEFINE rest == Cancelled(calls)
<1>2. rest \in CallList /\ \E s \in Slots : rest[s] = Idle
  BY <1>1, CleanupTypes DEF Jump, SlotFree
<1>3. PICK t \in Slots : /\ rest[t] = Idle
                         /\ calls' = [rest EXCEPT ![t] = New("getMedia", a)]
                         /\ New("getMedia", a) \in Call
  BY <1>2, SentAdds DEF Jump, Kinds, Loads
<1>4. /\ page = "detail" /\ id' = a
      /\ UNCHANGED <<status, original, known, page, cards, loading, error, been, always, taken>>
  BY DEF Jump, libraryVars, historyVars
<1>5. calls'[t] = New("getMedia", a) /\ \A s \in Slots \ {t} : calls'[s] = rest[s]
  BY <1>2, <1>3 DEF CallList
<1>6. Idle.kind \notin Removals \cup Loads
  BY DEF Idle, Removals, Loads
<1>7. \A s \in Slots : calls[s].kind \in Removals => calls'[s] = calls[s]
  <2>1. \A s \in Slots : calls[s].kind \in Removals => rest[s] = calls[s]
    BY <1>1, CleanupTypes DEF Removals, Loads
  <2>2. QED
    BY <1>3, <1>5, <1>6, <2>1
<1>8. TypeOK'
  <2>1. calls' \in CallList
    BY <1>2, <1>3 DEF CallList
  <2>2. QED
    BY <1>4, <2>1 DEF PagesInv, TypeOK, Library!TypeOK, CallList
<1>9. PageOK'
  <2>1. ASSUME NEW x \in Assets, Pending(x) PROVE Pending(x)'
    BY <1>7, <2>1 DEF Pending
  <2>2. taken \subseteq Assets
    BY DEF PagesInv, TypeOK
  <2>3. InPage(page)' = InPage(page) /\ Shown' = Shown
    BY <1>4 DEF InPage, Part, Shown
  <2>4. QED
    BY <1>4, <2>1, <2>2, <2>3 DEF PagesInv, PageOK
<1>10. calls'[t].kind \in Loads /\ \A s \in Slots \ {t} : calls'[s].kind \notin Loads
  <2>1. calls'[t].kind \in Loads
    BY <1>5 DEF New, Loads
  <2>2. QED
    BY <1>1, <1>5, <2>1, CleanupTypes
<1>11. ASSUME NEW s \in Slots PROVE CallOK(calls[s])'
  <2>1. CASE s = t
    <3>1. CallOK(New("getMedia", a))'
      BY <1>4 DEF CallOK, LoadOK, UploadOK, RemovalOK, New, Removals, LoadOf
    <3>2. QED
      BY <1>5, <2>1, <3>1 DEF CallOK, LoadOK, UploadOK, RemovalOK
  <2>2. CASE s # t /\ rest[s] = Idle
    BY <1>5, <2>2, IdleOK DEF CallOK, LoadOK, UploadOK, RemovalOK
  <2>3. CASE s # t /\ rest[s] = calls[s]
    <3>1. calls'[s] = calls[s] /\ calls[s].kind \notin Loads
      BY <1>5, <1>10, <2>3
    <3>2. CallOK(calls[s])
      BY DEF PagesInv
    <3>3. QED
      BY <1>4, <3>1, <3>2 DEF CallOK, LoadOK, UploadOK, RemovalOK
  <2>4. QED
    BY <1>1, <2>1, <2>2, <2>3, CleanupTypes
<1>12. (NoPhantomCards /\ AlwaysListed /\ NoDuplicateCards)'
  BY <1>4 DEF PagesInv, NoPhantomCards, AlwaysListed, NoDuplicateCards, Shown
<1>13. OneLoad' /\ DetailShowsId'
  BY <1>10 DEF OneLoad, DetailShowsId
<1>14. QED
  BY <1>8, <1>9, <1>11, <1>12, <1>13 DEF PagesInv

-----------------------------------------------------------------------------
(* What the server and other clients do. *)

\* The library keeps its type.
LEMMA LibraryTypes == Library!TypeOK /\ Library!Next => Library!TypeOK'
BY DEF Library!TypeOK, Library!Next, Library!Add, Library!Abandon, Library!Learn,
       Library!Trash, Library!PutBack, Library!Purge

\* A step of the library with its histories: what was there all the time was there
\* before, and what is there has been there.
LEMMA WitnessKeeps ==
    ASSUME PagesInv, Witness, page' = page
    PROVE  /\ been \subseteq been' /\ been' \subseteq Assets
           /\ always' = always \cap InPage(page)'
           /\ InPage(page)' \subseteq been'
BY DEF PagesInv, TypeOK, Witness, InPage, Part

\* A step that leaves the page alone and every call in its slot: enough is that the
\* call it works on is all right, and that what it took is still to be reported.
LEMMA ServeKeeps ==
    ASSUME PagesInv, NEW s \in Slots,
           calls' \in CallList, \A t \in Slots \ {s} : calls'[t] = calls[t],
           calls'[s].kind = calls[s].kind, calls'[s].asset = calls[s].asset,
           calls'[s].mounted = calls[s].mounted,
           CallOK(calls[s])',
           UNCHANGED <<page, id, cards, loading, error>>,
           Library!TypeOK', been \subseteq been', been' \subseteq Assets,
           always' \subseteq always, always' \subseteq InPage(page)',
           InPage(page)' \subseteq been', taken' \subseteq Assets,
           \A x \in taken' : x \in taken \/ ( /\ calls[s].mounted /\ calls[s].kind \in Removals
                                             /\ calls[s].asset \in {x, Null} )
    PROVE  PagesInv'
<1>1. TypeOK'
  BY DEF PagesInv, TypeOK, CallList
<1>2. \A t \in Slots : /\ calls'[t].kind = calls[t].kind /\ calls'[t].asset = calls[t].asset
                       /\ calls'[t].mounted = calls[t].mounted
  OBVIOUS
<1>3. \A x : Pending(x)' <=> Pending(x)
  BY <1>2 DEF Pending
<1>4. Shown' = Shown
  BY DEF Shown
<1>5. \A x \in taken' : x \in taken \/ Pending(x)
  BY DEF Pending
<1>6. loading => taken' = {}
  <2>1. calls[s].mounted /\ calls[s].kind \in Removals => ~loading
    BY DEF PagesInv, CallOK, RemovalOK
  <2>2. loading => taken = {}
    BY DEF PagesInv, PageOK
  <2>3. QED
    BY <2>1, <2>2
<1>7. PageOK'
  BY <1>3, <1>4, <1>5, <1>6 DEF PagesInv, PageOK
<1>8. ASSUME NEW t \in Slots PROVE CallOK(calls[t])'
  <2>1. CASE t = s
    BY <2>1
  <2>2. CASE t # s
    BY <2>2, CallKept DEF PagesInv
  <2>3. QED
    BY <2>1, <2>2
<1>9. (NoPhantomCards /\ AlwaysListed /\ NoDuplicateCards)'
  BY <1>4 DEF PagesInv, NoPhantomCards, AlwaysListed, NoDuplicateCards
<1>10. OneLoad' /\ DetailShowsId'
  BY <1>2, <1>4 DEF PagesInv, OneLoad, DetailShowsId
<1>11. QED
  BY <1>1, <1>7, <1>8, <1>9, <1>10 DEF PagesInv

LEMMA ElsewhereKeeps == ASSUME PagesInv, Elsewhere PROVE PagesInv'
<1>1. 1 \in Slots
  BY PagesAssumption DEF Slots
<1>2. UNCHANGED <<page, id, cards, loading, error, calls>>
  BY DEF Elsewhere, tabVars
<1>3. taken' \subseteq taken
  BY DEF Elsewhere
<1>4. Library!TypeOK'
  BY LibraryTypes DEF Elsewhere, PagesInv, TypeOK
<1>5. /\ been \subseteq been' /\ been' \subseteq Assets /\ always' = always \cap InPage(page)'
      /\ InPage(page)' \subseteq been'
  BY <1>2, WitnessKeeps DEF Elsewhere
<1>6. calls' \in CallList
  BY <1>2 DEF PagesInv, TypeOK, CallList
<1>7. CallOK(calls[1])'
  BY <1>1, <1>2, <1>5, CallKept DEF PagesInv
<1>8. QED
  BY <1>1, <1>2, <1>3, <1>4, <1>5, <1>6, <1>7, ServeKeeps DEF PagesInv, TypeOK

\* An answer is put into the call and changes no other.
LEMMA AnsweredCall ==
    ASSUME PagesInv, NEW s \in Slots, calls[s].step # "idle",
           NEW answer \in Answers, NEW found \in SUBSET Assets, Answered(s, answer, found)
    PROVE  /\ calls' \in CallList /\ \A t \in Slots \ {s} : calls'[t] = calls[t]
           /\ calls'[s].kind = calls[s].kind /\ calls'[s].asset = calls[s].asset
           /\ calls'[s].mounted = calls[s].mounted
           /\ calls'[s].step = "answered" /\ calls'[s].answer = answer
           /\ calls'[s].found = found
<1>1. calls \in CallList /\ calls[s] \in Call
  BY DEF PagesInv, TypeOK, CallList, Idle
<1> DEFINE c == [calls[s] EXCEPT !.step = "answered", !.answer = answer, !.found = found]
<1>2. c \in Call /\ c.kind = calls[s].kind /\ c.asset = calls[s].asset
      /\ c.mounted = calls[s].mounted /\ c.step = "answered" /\ c.answer = answer
      /\ c.found = found
  BY <1>1 DEF Call
<1>3. calls' = [calls EXCEPT ![s] = c]
  BY <1>1 DEF Answered, CallList
<1> HIDE DEF c
<1>4. QED
  BY <1>1, <1>2, <1>3 DEF CallList

\* A step of the server that leaves the library alone.
LEMMA QuietKeeps ==
    ASSUME PagesInv, UNCHANGED <<libraryVars, page, id, cards, loading, error, historyVars>>
    PROVE  /\ UNCHANGED <<page, id, cards, loading, error, been, always, taken>>
           /\ Library!TypeOK' /\ been' \subseteq Assets /\ taken' \subseteq Assets
           /\ InPage(page)' \subseteq been' /\ always' \subseteq InPage(page)'
<1>1. UNCHANGED <<status, original, known, page, id, cards, loading, error, been, always,
                  taken>>
  BY DEF libraryVars, historyVars
<1>2. QED
  BY <1>1 DEF PagesInv, TypeOK, PageOK, Library!TypeOK, InPage, Part

LEMMA ReadsKeeps == ASSUME PagesInv, NEW s \in Slots, Reads(s) PROVE PagesInv'
<1>1. calls[s].kind \in Loads /\ calls[s].step = "sent" /\ calls[s].kind = LoadOf(page)
      /\ calls[s].asset = id
  BY DEF Reads, PagesInv, CallOK, LoadOK
<1>2. PICK found \in SUBSET Assets :
         /\ Answered(s, "ok", found)
         /\ IF page = "detail" THEN found = {id} ELSE found = InPage(page)
         /\ found \subseteq InPage(page)
  <2>1. page \in Pages /\ InPage(page) \subseteq Assets
    BY DEF PagesInv, TypeOK, InPage, Part
  <2>2. CASE page = "detail"
    <3>1. calls[s].kind = "getMedia" /\ id \in Assets
      BY <1>1, <2>2 DEF LoadOf, PagesInv, TypeOK
    <3>2. Answered(s, "ok", InPage("detail") \cap {id}) /\ InPage("detail") \cap {id} # {}
      BY <1>1, <3>1 DEF Reads
    <3>3. InPage("detail") \cap {id} = {id}
      BY <3>2
    <3>4. QED
      BY <2>1, <2>2, <3>1, <3>2, <3>3
  <2>3. CASE page = "media"
    <3>1. calls[s].kind = "listMedia"
      BY <1>1, <2>3 DEF LoadOf
    <3>2. QED
      BY <2>1, <2>3, <3>1 DEF Reads
  <2>4. CASE page = "trash"
    <3>1. calls[s].kind = "listTrash"
      BY <1>1, <2>4 DEF LoadOf
    <3>2. QED
      BY <2>1, <2>4, <3>1 DEF Reads
  <2>5. QED
    BY <2>1, <2>2, <2>3, <2>4 DEF Pages
<1>3. /\ calls' \in CallList /\ \A t \in Slots \ {s} : calls'[t] = calls[t]
      /\ calls'[s].kind = calls[s].kind /\ calls'[s].asset = calls[s].asset
      /\ calls'[s].mounted = calls[s].mounted
      /\ calls'[s].step = "answered" /\ calls'[s].answer = "ok"
      /\ calls'[s].found = found
  BY <1>1, <1>2, AnsweredCall DEF Answers
<1>4. /\ UNCHANGED <<page, id, cards, loading, error, been, always, taken>>
      /\ Library!TypeOK' /\ been' \subseteq Assets /\ taken' \subseteq Assets
      /\ InPage(page)' \subseteq been' /\ always' \subseteq InPage(page)'
  BY QuietKeeps DEF Reads
<1>5. CallOK(calls[s])'
  <2>1. calls[s].kind \notin Removals \cup {"upload"}
    BY <1>1 DEF Loads, Removals
  <2>2. InPage(page) \subseteq been /\ always \subseteq InPage(page) /\ LoadOK(calls[s])
    BY DEF PagesInv, PageOK, CallOK
  <2>3. QED
    BY <1>1, <1>2, <1>3, <1>4, <2>1, <2>2 DEF CallOK, LoadOK, UploadOK, RemovalOK
<1>6. QED
  BY <1>3, <1>4, <1>5, ServeKeeps

LEMMA RemovesKeeps == ASSUME PagesInv, NEW s \in Slots, Removes(s) PROVE PagesInv'
<1>1. /\ calls[s].kind \in Removals \ {"emptyTrash"} /\ calls[s].step = "sent"
      /\ calls[s].asset \in Assets /\ RemovalOK(calls[s])
  <2>1. calls[s].kind \in Removals \ {"emptyTrash"} /\ calls[s].step = "sent"
    BY DEF Removes
  <2>2. calls[s].asset # Null /\ RemovalOK(calls[s])
    BY <2>1 DEF PagesInv, CallOK, RemovalOK
  <2>3. calls[s] \in Call
    BY <2>1 DEF PagesInv, TypeOK, Idle
  <2>4. QED
    BY <2>1, <2>2, <2>3 DEF Call
<1>2. PICK answer \in {"ok", "failed"} : Answered(s, answer, {})
  BY DEF Removes
<1>3. /\ calls' \in CallList /\ \A t \in Slots \ {s} : calls'[t] = calls[t]
      /\ calls'[s].kind = calls[s].kind /\ calls'[s].asset = calls[s].asset
      /\ calls'[s].mounted = calls[s].mounted
      /\ calls'[s].step = "answered"
  BY <1>1, <1>2, AnsweredCall DEF Answers
<1>4. UNCHANGED <<page, id, cards, loading, error>>
  BY DEF Removes
<1>5. /\ been \subseteq been' /\ been' \subseteq Assets
      /\ always' = always \cap InPage(page)' /\ InPage(page)' \subseteq been'
  BY <1>4, WitnessKeeps DEF Removes
<1>6. Library!TypeOK'
  <2>1. Library!Next
    BY <1>1 DEF Removes, StepOf, Removals, Library!Next
  <2>2. QED
    BY <2>1, LibraryTypes DEF PagesInv, TypeOK
<1>7. /\ taken' \subseteq Assets
      /\ \A x \in taken' : x \in taken \/ (calls[s].mounted /\ calls[s].asset = x)
  BY <1>1 DEF Removes, Took, PagesInv, TypeOK
<1>8. calls[s].mounted /\ page # "detail" => calls[s].asset \notin InPage(page)'
  <2>1. status \in [Assets -> {"unborn", "live", "trashed", "gone"}]
    BY DEF PagesInv, TypeOK, Library!TypeOK
  <2>2. SUFFICES ASSUME calls[s].mounted, page # "detail"
                 PROVE  calls[s].asset \notin InPage(page)'
    OBVIOUS
  <2>3. page \in Pages /\ calls[s].kind \in Offered(page)
    BY <1>1, <2>2 DEF PagesInv, TypeOK, RemovalOK
  <2>4. CASE page = "media"
    <3>1. calls[s].kind = "deleteCard"
      BY <2>3, <2>4 DEF Offered, RemovalsOn
    <3>2. Library!Trash(calls[s].asset)
      BY <3>1 DEF Removes, StepOf
    <3>3. QED
      BY <1>1, <1>4, <2>1, <2>4, <3>2 DEF Library!Trash, InPage, Part
  <2>5. CASE page = "trash"
    <3>1. calls[s].kind \in {"restore", "purge"}
      BY <1>1, <2>3, <2>5 DEF Offered, RemovalsOn
    <3>2. Library!PutBack(calls[s].asset) \/ Library!Purge(calls[s].asset)
      BY <3>1 DEF Removes, StepOf
    <3>3. QED
      BY <1>1, <1>4, <2>1, <2>5, <3>2 DEF Library!PutBack, Library!Purge, InPage, Part
  <2>6. QED
    BY <2>2, <2>3, <2>4, <2>5 DEF Pages
<1>9. CallOK(calls[s])'
  <2>1. calls[s].kind \notin Loads \cup {"upload"}
    BY <1>1 DEF Loads, Removals
  <2>2. QED
    BY <1>1, <1>3, <1>4, <1>5, <1>8, <2>1 DEF CallOK, LoadOK, UploadOK, RemovalOK
<1>10. QED
  BY <1>1, <1>3, <1>4, <1>5, <1>6, <1>7, <1>9, ServeKeeps

LEMMA RefusesKeeps == ASSUME PagesInv, NEW s \in Slots, Refuses(s) PROVE PagesInv'
<1>1. /\ calls' \in CallList /\ \A t \in Slots \ {s} : calls'[t] = calls[t]
      /\ calls'[s].kind = calls[s].kind /\ calls'[s].asset = calls[s].asset
      /\ calls'[s].mounted = calls[s].mounted
      /\ calls'[s].step = "answered" /\ calls'[s].answer = "failed"
      /\ calls'[s].found = {}
  BY AnsweredCall DEF Refuses, Answers
<1>2. /\ UNCHANGED <<page, id, cards, loading, error, been, always, taken>>
      /\ Library!TypeOK' /\ been' \subseteq Assets /\ taken' \subseteq Assets
      /\ InPage(page)' \subseteq been' /\ always' \subseteq InPage(page)'
  BY QuietKeeps DEF Refuses
<1>3. CallOK(calls[s])'
  <2>1. CallOK(calls[s])
    BY DEF PagesInv
  <2>2. QED
    BY <1>1, <1>2, <2>1 DEF CallOK, LoadOK, UploadOK, RemovalOK
<1>4. QED
  BY <1>1, <1>2, <1>3, ServeKeeps

LEMMA StoresKeeps == ASSUME PagesInv, NEW s \in Slots, Stores(s) PROVE PagesInv'
<1>1. /\ calls[s].kind = "upload" /\ calls[s].step = "sent"
      /\ UNCHANGED <<page, id, cards, loading, error>>
  BY DEF Stores
<1>2. calls[s].kind \notin Loads \cup Removals
  BY <1>1 DEF Loads, Removals
<1>3. UploadOK(calls[s])
  BY DEF PagesInv, CallOK
<1>4. PICK a \in Assets :
         \/ /\ Library!PutBack(a) \/ \E c \in Contents : Library!Add(a, c)
            /\ \E answer \in {"ok", "failed"} : Answered(s, answer, {a})
            /\ taken' = taken \ {a} /\ Witness
         \/ /\ \/ status[a] = "live" /\ Answered(s, "existing", {a})
               \/ status[a] = "trashed" /\ Answered(s, "duplicate", {a})
            /\ UNCHANGED <<libraryVars, historyVars>>
  BY DEF Stores
<1>5. CASE /\ Library!PutBack(a) \/ \E c \in Contents : Library!Add(a, c)
           /\ \E answer \in {"ok", "failed"} : Answered(s, answer, {a})
           /\ taken' = taken \ {a} /\ Witness
  <2>1. PICK answer \in {"ok", "failed"} : Answered(s, answer, {a})
    BY <1>5
  <2>2. /\ calls' \in CallList /\ \A t \in Slots \ {s} : calls'[t] = calls[t]
        /\ calls'[s].kind = calls[s].kind /\ calls'[s].asset = calls[s].asset
        /\ calls'[s].mounted = calls[s].mounted
        /\ calls'[s].step = "answered" /\ calls'[s].found = {a}
    BY <1>1, <2>1, AnsweredCall DEF Answers
  <2>3. /\ been \subseteq been' /\ been' \subseteq Assets
        /\ always' = always \cap InPage(page)' /\ InPage(page)' \subseteq been'
    BY <1>1, <1>5, WitnessKeeps
  <2>4. Library!TypeOK'
    BY <1>5, LibraryTypes DEF PagesInv, TypeOK, Library!Next
  <2>5. status'[a] = "live"
    BY <1>5 DEF PagesInv, TypeOK, Library!TypeOK, Library!PutBack, Library!Add
  <2>6. page = "media" => a \in been'
    BY <1>1, <2>3, <2>5 DEF InPage, Part
  <2>7. CallOK(calls[s])'
    BY <1>1, <1>2, <1>3, <2>2, <2>6 DEF CallOK, LoadOK, UploadOK, RemovalOK
  <2>8. QED
    BY <1>1, <1>5, <2>2, <2>3, <2>4, <2>7, ServeKeeps DEF PagesInv, TypeOK
<1>6. CASE /\ \/ status[a] = "live" /\ Answered(s, "existing", {a})
              \/ status[a] = "trashed" /\ Answered(s, "duplicate", {a})
           /\ UNCHANGED <<libraryVars, historyVars>>
  <2>1. PICK answer \in {"existing", "duplicate"} : Answered(s, answer, {a})
    BY <1>6
  <2>2. /\ calls' \in CallList /\ \A t \in Slots \ {s} : calls'[t] = calls[t]
        /\ calls'[s].kind = calls[s].kind /\ calls'[s].asset = calls[s].asset
        /\ calls'[s].mounted = calls[s].mounted
        /\ calls'[s].step = "answered" /\ calls'[s].answer = answer
    BY <1>1, <2>1, AnsweredCall DEF Answers
  <2>3. /\ UNCHANGED <<page, id, cards, loading, error, been, always, taken>>
        /\ Library!TypeOK' /\ been' \subseteq Assets /\ taken' \subseteq Assets
        /\ InPage(page)' \subseteq been' /\ always' \subseteq InPage(page)'
    BY <1>1, <1>6, QuietKeeps
  <2>4. CallOK(calls[s])'
    BY <1>1, <1>2, <1>3, <2>2, <2>3 DEF CallOK, LoadOK, UploadOK, RemovalOK
  <2>5. QED
    BY <2>2, <2>3, <2>4, ServeKeeps
<1>7. QED
  BY <1>4, <1>5, <1>6

\* What was in the trash all the time is among what the emptying has before it.
LEMMA EmptyingKeeps ==
    ASSUME PagesInv, NEW s \in Slots, EmptyLists(s) \/ EmptyPurges(s) \/ EmptyDone(s)
    PROVE  PagesInv'
<1>1. calls[s].kind = "emptyTrash" /\ calls[s].step \in {"sent", "emptying"}
  BY DEF EmptyLists, EmptyPurges, EmptyDone, PagesInv, CallOK, RemovalOK
<1>2. calls \in CallList /\ calls[s] \in Call
  BY <1>1 DEF PagesInv, TypeOK, CallList, Idle
<1>3. /\ RemovalOK(calls[s]) /\ calls[s].kind \in Removals
      /\ calls[s].kind \notin Loads \cup {"upload"}
  BY <1>1 DEF PagesInv, CallOK, Removals, Loads
<1>4. calls[s].asset = Null
  BY <1>1, <1>3 DEF RemovalOK
<1>5. calls[s].mounted => page = "trash"
  <2>1. page \in Pages
    BY DEF PagesInv, TypeOK
  <2>2. QED
    BY <1>1, <1>3, <2>1 DEF RemovalOK, Offered, RemovalsOn, Pages
<1>6. CASE EmptyLists(s)
  <2>1. InPage("trash") \subseteq Assets
    BY DEF InPage, Part
  <2> DEFINE c == [calls[s] EXCEPT !.step = "emptying", !.found = InPage("trash")]
  <2>2. c \in Call /\ c.kind = calls[s].kind /\ c.asset = calls[s].asset
        /\ c.mounted = calls[s].mounted /\ c.step = "emptying" /\ c.found = InPage("trash")
        /\ c.answer = calls[s].answer
    BY <1>2, <2>1 DEF Call
  <2>3. calls' = [calls EXCEPT ![s] = c]
    BY <1>2, <1>6 DEF EmptyLists, CallList
  <2> HIDE DEF c
  <2>4. calls' \in CallList /\ calls'[s] = c /\ \A t \in Slots \ {s} : calls'[t] = calls[t]
    BY <1>2, <2>2, <2>3 DEF CallList
  <2>5. /\ UNCHANGED <<page, id, cards, loading, error, been, always, taken>>
        /\ Library!TypeOK' /\ been' \subseteq Assets /\ taken' \subseteq Assets
        /\ InPage(page)' \subseteq been' /\ always' \subseteq InPage(page)'
    BY <1>6, QuietKeeps DEF EmptyLists
  <2>6. always \subseteq InPage(page)
    BY DEF PagesInv, PageOK
  <2>7. CallOK(calls[s])'
    BY <1>1, <1>3, <1>5, <2>2, <2>4, <2>5, <2>6 DEF CallOK, LoadOK, UploadOK, RemovalOK
  <2>8. QED
    BY <2>2, <2>4, <2>5, <2>7, ServeKeeps
<1>7. CASE EmptyPurges(s)
  <2>1. PICK a \in calls[s].found :
           /\ calls[s].step = "emptying" /\ Library!Purge(a)
           /\ calls' = [calls EXCEPT ![s].found = @ \ {a}]
           /\ Took(s, a) /\ Witness /\ UNCHANGED <<page, id, cards, loading, error>>
    BY <1>7 DEF EmptyPurges
  <2>2. a \in Assets
    BY <1>2 DEF Call
  <2> DEFINE c == [calls[s] EXCEPT !.found = @ \ {a}]
  <2>3. c \in Call /\ c.kind = calls[s].kind /\ c.asset = calls[s].asset
        /\ c.mounted = calls[s].mounted /\ c.step = calls[s].step
        /\ c.found = calls[s].found \ {a} /\ c.answer = calls[s].answer
    BY <1>2 DEF Call
  <2>4. calls' = [calls EXCEPT ![s] = c]
    BY <1>2, <2>1 DEF CallList
  <2> HIDE DEF c
  <2>5. calls' \in CallList /\ calls'[s] = c /\ \A t \in Slots \ {s} : calls'[t] = calls[t]
    BY <1>2, <2>3, <2>4 DEF CallList
  <2>6. /\ been \subseteq been' /\ been' \subseteq Assets
        /\ always' = always \cap InPage(page)' /\ InPage(page)' \subseteq been'
    BY <2>1, WitnessKeeps
  <2>7. Library!TypeOK'
    BY <2>1, <2>2, LibraryTypes DEF PagesInv, TypeOK, Library!Next
  <2>8. page = "trash" => a \notin InPage(page)'
    BY <2>1, <2>2 DEF InPage, Part, Library!Purge, PagesInv, TypeOK, Library!TypeOK
  <2>9. CallOK(calls[s])'
    BY <1>1, <1>3, <1>5, <2>1, <2>3, <2>5, <2>6, <2>8
       DEF CallOK, LoadOK, UploadOK, RemovalOK
  <2>10. /\ taken' \subseteq Assets
         /\ \A x \in taken' : x \in taken \/ calls[s].mounted
    BY <2>1, <2>2 DEF Took, PagesInv, TypeOK
  <2>11. QED
    BY <1>3, <1>4, <2>1, <2>3, <2>5, <2>6, <2>7, <2>9, <2>10, ServeKeeps
<1>8. CASE EmptyDone(s)
  <2>1. /\ calls' \in CallList /\ \A t \in Slots \ {s} : calls'[t] = calls[t]
        /\ calls'[s].kind = calls[s].kind /\ calls'[s].asset = calls[s].asset
        /\ calls'[s].mounted = calls[s].mounted
        /\ calls'[s].step = "answered" /\ calls[s].step = "emptying" /\ calls[s].found = {}
    BY <1>1, <1>8, AnsweredCall DEF EmptyDone, Answers
  <2>2. /\ UNCHANGED <<page, id, cards, loading, error, been, always, taken>>
        /\ Library!TypeOK' /\ been' \subseteq Assets /\ taken' \subseteq Assets
        /\ InPage(page)' \subseteq been' /\ always' \subseteq InPage(page)'
    BY <1>8, QuietKeeps DEF EmptyDone
  <2>3. calls[s].mounted => always = {}
    BY <1>1, <1>3, <2>1 DEF RemovalOK
  <2>4. CallOK(calls[s])'
    BY <1>1, <1>3, <2>1, <2>2, <2>3 DEF CallOK, LoadOK, UploadOK, RemovalOK
  <2>5. QED
    BY <2>1, <2>2, <2>4, ServeKeeps
<1>9. QED
  BY <1>6, <1>7, <1>8

LEMMA ServesKeeps == ASSUME PagesInv, NEW s \in Slots, Serves(s) PROVE PagesInv'
BY ReadsKeeps, RemovesKeeps, StoresKeeps, RefusesKeeps, EmptyingKeeps DEF Serves

-----------------------------------------------------------------------------
(* Answers that arrive. *)

\* A call that has ended is gone, and no other is touched.
LEMMA EndedCall ==
    ASSUME PagesInv, NEW s \in Slots, calls' = Ended(s)
    PROVE  /\ calls' \in CallList /\ calls'[s] = Idle
           /\ \A t \in Slots \ {s} : calls'[t] = calls[t]
BY DEF PagesInv, TypeOK, CallList, Ended

\* An answer that leaves the page waiting or not, as it was: enough is that what it
\* does to the cards is right, and that the call's end leaves nothing unreported.
LEMMA ArriveKeeps ==
    ASSUME PagesInv, NEW s \in Slots, calls' = Ended(s), calls[s].kind \notin Loads,
           UNCHANGED <<libraryVars, page, id, loading, been, always>>,
           error => error', taken' \subseteq taken, cards' \in [Assets -> Nat], error' \in BOOLEAN,
           Shown' \subseteq been, NoDuplicateCards',
           page # "media" => Shown' \subseteq Shown,
           page = "detail" => cards' = cards,
           page # "detail" /\ ~error' => always \cap Shown \subseteq Shown',
           \A x \in taken' : x \in Shown' => x \in Shown,
           \A x \in taken' : (page = "detail" \/ x \in Shown') => 
               error' \/ ~(/\ calls[s].mounted /\ calls[s].kind \in Removals
                           /\ calls[s].asset \in {x, Null})
    PROVE  PagesInv'
<1>1. /\ calls' \in CallList /\ calls'[s] = Idle
      /\ \A t \in Slots \ {s} : calls'[t] = calls[t]
  BY EndedCall
<1>2. UNCHANGED <<status, original, known, page, id, loading, been, always>>
  BY DEF libraryVars
<1>3. Idle.kind \notin Loads
  BY DEF Idle, Loads
<1>4. TypeOK'
  BY <1>1, <1>2 DEF PagesInv, TypeOK, Library!TypeOK, CallList
<1>5. PageOK'
  <2>1. InPage(page)' = InPage(page)
    BY <1>2 DEF InPage, Part
  <2>2. ASSUME NEW x \in taken', page = "detail" \/ x \in Shown'
        PROVE  error' \/ Pending(x)'
    <3>1. error \/ Pending(x)
      BY <2>2 DEF PagesInv, PageOK
    <3>2. SUFFICES ASSUME ~error' PROVE Pending(x)'
      OBVIOUS
    <3>3. PICK t \in Slots : /\ calls[t].mounted /\ calls[t].kind \in Removals
                             /\ calls[t].asset \in {x, Null}
      BY <3>1, <3>2 DEF Pending
    <3>4. t # s
      BY <2>2, <3>2, <3>3
    <3>5. QED
      BY <1>1, <3>3, <3>4 DEF Pending
  <2>3. QED
    BY <1>2, <2>1, <2>2 DEF PagesInv, PageOK
<1>6. ASSUME NEW t \in Slots PROVE CallOK(calls[t])'
  <2>1. CASE t = s
    BY <1>1, <2>1, IdleOK DEF CallOK, LoadOK, UploadOK, RemovalOK
  <2>2. CASE t # s
    BY <1>1, <1>2, <2>2, CallKept DEF PagesInv
  <2>3. QED
    BY <2>1, <2>2
<1>7. (NoPhantomCards /\ AlwaysListed)'
  BY <1>2 DEF PagesInv, NoPhantomCards, AlwaysListed
<1>8. \A t \in Slots : calls'[t].kind \in Loads <=> calls[t].kind \in Loads
  BY <1>1, <1>3
<1>9. OneLoad' /\ DetailShowsId'
  BY <1>2, <1>8 DEF PagesInv, OneLoad, DetailShowsId, Shown
<1>10. QED
  BY <1>4, <1>5, <1>6, <1>7, <1>9 DEF PagesInv

LEMMA LoadedKeeps == ASSUME PagesInv, NEW s \in Slots, Loaded(s) PROVE PagesInv'
<1>1. calls[s].kind \in Loads /\ calls[s].step = "answered" /\ calls[s] \in Call
  BY DEF Loaded, PagesInv, TypeOK, Idle
<1>2. /\ calls' \in CallList /\ calls'[s] = Idle
      /\ \A t \in Slots \ {s} : calls'[t] = calls[t]
  BY EndedCall DEF Loaded
<1>3. /\ UNCHANGED <<status, original, known, page, id, been, always, taken>>
      /\ loading' = FALSE /\ error' = (error \/ calls[s].answer # "ok")
      /\ cards' = IF calls[s].answer = "ok"
                  THEN [a \in Assets |-> IF a \in calls[s].found THEN 1 ELSE 0] ELSE cards
  BY DEF Loaded, libraryVars, historyVars
<1>4. calls[s].found \subseteq Assets
  BY <1>1 DEF Call
<1>5. IF calls[s].answer = "ok" THEN Shown' = calls[s].found ELSE Shown' = Shown
  BY <1>3, <1>4 DEF Shown
<1>6. Idle.kind \notin Loads \cup Removals
  BY DEF Idle, Loads, Removals
<1>7. LoadOK(calls[s])
  BY DEF PagesInv, CallOK
<1>8. TypeOK'
  <2>1. cards' \in [Assets -> Nat]
    BY <1>3 DEF PagesInv, TypeOK
  <2>2. error' \in BOOLEAN
    BY <1>3 DEF PagesInv, TypeOK
  <2>3. QED
    BY <1>2, <1>3, <2>1, <2>2 DEF PagesInv, TypeOK, Library!TypeOK, CallList
<1>9. \A t \in Slots : calls'[t].kind \notin Loads
  BY <1>1, <1>2, <1>6 DEF PagesInv, OneLoad
<1>10. \A x : Pending(x) => Pending(x)'
  <2>1. calls[s].kind \notin Removals
    BY <1>1 DEF Loads, Removals
  <2>2. QED
    BY <1>2, <2>1 DEF Pending
<1>11. page # "detail" => taken = {}
  BY <1>1, <1>7 DEF PagesInv, PageOK, LoadOK
<1>12. PageOK'
  <2>1. InPage(page)' = InPage(page)
    BY <1>3 DEF InPage, Part
  <2>2. page = "detail" => \A x \in taken : error \/ Pending(x)
    BY DEF PagesInv, PageOK
  <2>3. QED
    BY <1>3, <1>10, <1>11, <2>1, <2>2 DEF PagesInv, PageOK
<1>13. ASSUME NEW t \in Slots PROVE CallOK(calls[t])'
  <2>1. CASE t = s
    BY <1>2, <2>1, IdleOK DEF CallOK, LoadOK, UploadOK, RemovalOK
  <2>2. CASE t # s
    <3>1. CallOK(calls[t]) /\ calls'[t] = calls[t]
      BY <1>2, <2>2 DEF PagesInv
    <3>2. QED
      BY <1>3, <1>9, <3>1 DEF CallOK, LoadOK, UploadOK, RemovalOK
  <2>3. QED
    BY <2>1, <2>2
<1>14. (NoPhantomCards /\ AlwaysListed /\ NoDuplicateCards)'
  <2>1. NoPhantomCards'
    BY <1>1, <1>3, <1>5, <1>7 DEF PagesInv, NoPhantomCards, LoadOK
  <2>2. AlwaysListed'
    BY <1>1, <1>3, <1>5, <1>7 DEF AlwaysListed, LoadOK
  <2>3. NoDuplicateCards'
    BY <1>3 DEF PagesInv, NoDuplicateCards
  <2>4. QED
    BY <2>1, <2>2, <2>3
<1>15. OneLoad' /\ DetailShowsId'
  BY <1>1, <1>3, <1>5, <1>7, <1>9 DEF OneLoad, DetailShowsId, LoadOK
<1>16. QED
  BY <1>8, <1>12, <1>13, <1>14, <1>15 DEF PagesInv

\* With its cards and its history unchanged, a page is as right as before.
LEMMA CardsStay ==
    ASSUME PagesInv, cards' = cards
    PROVE  /\ cards' \in [Assets -> Nat] /\ Shown' = Shown /\ Shown \subseteq been
           /\ NoDuplicateCards'
BY DEF PagesInv, TypeOK, Shown, NoPhantomCards, NoDuplicateCards

LEMMA UploadedKeeps == ASSUME PagesInv, NEW s \in Slots, Uploaded(s) PROVE PagesInv'
<1>1. /\ calls[s].kind = "upload" /\ calls[s].step = "answered" /\ calls' = Ended(s)
      /\ UNCHANGED <<libraryVars, page, id, loading, error, been, always>>
  BY DEF Uploaded
<1>2. calls[s].kind \notin Loads \cup Removals /\ error' \in BOOLEAN
  BY <1>1 DEF Loads, Removals, PagesInv, TypeOK
<1>3. CASE calls[s].mounted /\ calls[s].answer = "ok"
  <2>1. PICK a \in calls[s].found : UploadResolved(a) /\ taken' = taken \ {a}
    BY <1>3 DEF Uploaded
  <2>2. calls[s] \in Call
    BY <1>1 DEF PagesInv, TypeOK, Idle
  <2>3. page = "media" /\ a \in been
    BY <1>1, <1>3, <2>1 DEF PagesInv, CallOK, UploadOK
  <2>4. a \in Assets /\ cards \in [Assets -> Nat]
    BY <2>1, <2>2 DEF Call, PagesInv, TypeOK
  <2>5. cards' \in [Assets -> Nat] /\ Shown' = Shown \cup {a}
    BY <2>1, <2>4 DEF UploadResolved, Shown
  <2>6. NoDuplicateCards'
    BY <2>1, <2>4 DEF UploadResolved, PagesInv, NoDuplicateCards
  <2>7. Shown' \subseteq been
    BY <2>3, <2>5 DEF PagesInv, NoPhantomCards
  <2>8. QED
    BY <1>1, <1>2, <2>1, <2>3, <2>5, <2>6, <2>7, ArriveKeeps
<1>4. CASE ~(calls[s].mounted /\ calls[s].answer = "ok")
  <2>1. cards' = cards /\ taken' = taken
    BY <1>4 DEF Uploaded
  <2>2. QED
    BY <1>1, <1>2, <2>1, CardsStay, ArriveKeeps
<1>5. QED
  BY <1>3, <1>4

LEMMA RemovedKeeps == ASSUME PagesInv, NEW s \in Slots, Removed(s) PROVE PagesInv'
<1>1. /\ calls[s].kind \in {"deleteCard", "restore", "purge"} /\ calls[s].step = "answered"
      /\ calls' = Ended(s)
      /\ UNCHANGED <<libraryVars, page, id, loading, been, always, taken>>
      /\ error' = (error \/ (calls[s].mounted /\ calls[s].answer # "ok"))
  BY DEF Removed, historyVars
<1>2. calls[s].kind \in Removals /\ calls[s].kind \notin Loads /\ error' \in BOOLEAN
  BY <1>1 DEF Loads, Removals, PagesInv, TypeOK
<1>3. RemovalOK(calls[s]) /\ calls[s].asset # Null
  BY <1>1, <1>2 DEF PagesInv, CallOK, RemovalOK
<1>4. CASE calls[s].mounted /\ calls[s].answer = "ok"
  <2>1. page # "detail" /\ calls[s].asset \notin always
    BY <1>1, <1>2, <1>3, <1>4 DEF RemovalOK, Offered, RemovalsOn
  <2>2. calls[s].asset \in Assets
    BY <1>1, <1>3 DEF PagesInv, TypeOK, Idle, Call
  <2>3. cards' = [cards EXCEPT ![calls[s].asset] = 0] /\ cards \in [Assets -> Nat]
    BY <1>4 DEF Removed, PagesInv, TypeOK
  <2>4. cards' \in [Assets -> Nat] /\ Shown' = Shown \ {calls[s].asset}
    BY <2>2, <2>3 DEF Shown
  <2>5. NoDuplicateCards'
    BY <2>2, <2>3 DEF PagesInv, NoDuplicateCards
  <2>6. Shown' \subseteq been
    BY <2>4 DEF PagesInv, NoPhantomCards
  <2>7. QED
    BY <1>1, <1>2, <1>3, <2>1, <2>4, <2>5, <2>6, ArriveKeeps
<1>5. CASE ~(calls[s].mounted /\ calls[s].answer = "ok")
  <2>1. cards' = cards
    BY <1>5 DEF Removed
  <2>2. calls[s].mounted => error'
    BY <1>1, <1>5
  <2>3. QED
    BY <1>1, <1>2, <2>1, <2>2, CardsStay, ArriveKeeps
<1>6. QED
  BY <1>4, <1>5

LEMMA EmptiedKeeps == ASSUME PagesInv, NEW s \in Slots, Emptied(s) PROVE PagesInv'
<1>1. /\ calls[s].kind = "emptyTrash" /\ calls[s].step = "answered"
      /\ calls' = Ended(s)
      /\ UNCHANGED <<libraryVars, page, id, loading, been, always, taken>>
      /\ error' = (error \/ (calls[s].mounted /\ calls[s].answer # "ok"))
  BY DEF Emptied, historyVars
<1>2. calls[s].kind \in Removals /\ calls[s].kind \notin Loads /\ error' \in BOOLEAN
  BY <1>1 DEF Loads, Removals, PagesInv, TypeOK
<1>3. RemovalOK(calls[s])
  BY DEF PagesInv, CallOK
<1>4. CASE calls[s].mounted /\ calls[s].answer = "ok"
  <2>1. page # "detail" /\ always = {}
    BY <1>1, <1>2, <1>3, <1>4 DEF RemovalOK, Offered, RemovalsOn
  <2>2. cards' = NoCards
    BY <1>4 DEF Emptied
  <2>3. cards' \in [Assets -> Nat] /\ Shown' = {} /\ NoDuplicateCards'
    BY <2>2 DEF NoCards, Shown, NoDuplicateCards
  <2>4. QED
    BY <1>1, <1>2, <2>1, <2>3, ArriveKeeps
<1>5. CASE ~(calls[s].mounted /\ calls[s].answer = "ok")
  <2>1. cards' = cards
    BY <1>5 DEF Emptied
  <2>2. calls[s].mounted => error'
    BY <1>1, <1>5
  <2>3. QED
    BY <1>1, <1>2, <2>1, <2>2, CardsStay, ArriveKeeps
<1>6. QED
  BY <1>4, <1>5

LEMMA RemovedShownKeeps == ASSUME PagesInv, NEW s \in Slots, RemovedShown(s) PROVE PagesInv'
<1>1. calls[s].kind = "deleteShown" /\ calls[s].step = "answered" /\ UNCHANGED libraryVars
  BY DEF RemovedShown
<1>2. calls[s].kind \in Removals /\ calls[s].kind \notin Loads
  BY <1>1 DEF Loads, Removals
<1>3. CASE Show("media", Null, Ended(s))
  <2>1. calls \in CallList
    BY DEF PagesInv, TypeOK, CallList
  <2>2. /\ Ended(s) \in CallList /\ Ended(s)[s] = Idle
        /\ \A t \in Slots : Ended(s)[t] \in {calls[t], Idle}
    BY <2>1 DEF Ended, CallList
  <2>3. QED
    BY <1>1, <1>3, <2>2, ShowKeeps DEF Pages
<1>4. CASE /\ calls[s].answer # "ok" \/ page = "media"
           /\ error' = (error \/ (calls[s].mounted /\ calls[s].answer # "ok"))
           /\ calls' = Ended(s)
           /\ UNCHANGED <<page, id, cards, loading, historyVars>>
  <2>1. error' \in BOOLEAN /\ UNCHANGED <<page, id, cards, loading, been, always, taken>>
    BY <1>4 DEF PagesInv, TypeOK, historyVars
  <2>2. calls[s].mounted => error'
    <3>1. calls[s].mounted => page # "media"
      BY <1>1, <1>2 DEF PagesInv, CallOK, RemovalOK, Offered, RemovalsOn
    <3>2. QED
      BY <1>4, <3>1
  <2>3. QED
    BY <1>1, <1>2, <1>4, <2>1, <2>2, CardsStay, ArriveKeeps
<1>5. QED
  BY <1>3, <1>4 DEF RemovedShown

LEMMA ArrivesKeeps == ASSUME PagesInv, NEW s \in Slots, Arrives(s) PROVE PagesInv'
BY LoadedKeeps, UploadedKeeps, RemovedKeeps, EmptiedKeeps, RemovedShownKeeps DEF Arrives

-----------------------------------------------------------------------------
(* The invariant is inductive. *)

LEMMA InitInv == Init => PagesInv
<1> SUFFICES ASSUME Init PROVE PagesInv
  OBVIOUS
<1> DEFINE none == [s \in Slots |-> Idle]
<1>1. none \in CallList /\ \E s \in Slots : none[s] = Idle
  <2>1. 1 \in Slots
    BY PagesAssumption DEF Slots
  <2>2. QED
    BY <2>1 DEF CallList
<1>2. PICK t \in Slots : /\ calls = [none EXCEPT ![t] = New(LoadOf(page), id)]
                         /\ New(LoadOf(page), id) \in Call
  BY <1>1, LoadOfType, SentAdds DEF Init
<1>3. /\ calls \in CallList /\ calls[t] = New(LoadOf(page), id)
      /\ \A s \in Slots \ {t} : calls[s] = Idle
  BY <1>1, <1>2 DEF CallList
<1>4. Idle.kind \notin Loads
  BY DEF Idle, Loads
<1>5. calls[t].kind \in Loads
  BY <1>3, LoadOfType DEF New, Init
<1>6. /\ cards = NoCards /\ loading = TRUE /\ error = FALSE /\ taken = {}
      /\ been = InPage(page) /\ always = InPage(page) /\ page \in Pages
      /\ id \in Assets \cup {Null} /\ (id # Null <=> page = "detail")
  BY DEF Init
<1>7. Shown = {}
  BY <1>6 DEF Shown, NoCards
<1>8. Library!TypeOK
  BY PagesAssumption DEF Init, Library!Init, Library!TypeOK
<1>9. TypeOK
  <2>1. InPage(page) \subseteq Assets
    BY DEF InPage, Part
  <2>2. cards \in [Assets -> Nat]
    BY <1>6 DEF NoCards
  <2>3. id \in IF page = "detail" THEN Assets ELSE {Null}
    BY <1>6
  <2>4. QED
    BY <1>3, <1>6, <1>8, <2>1, <2>2, <2>3 DEF TypeOK, CallList
<1>10. PageOK /\ OneLoad
  BY <1>3, <1>4, <1>6, <1>7 DEF PageOK, OneLoad
<1>11. ASSUME NEW s \in Slots PROVE CallOK(calls[s])
  <2>1. CASE s = t
    <3>1. LoadOf(page) \notin Removals \cup {"upload"}
      BY <1>6 DEF LoadOf, Pages, Removals
    <3>2. QED
      BY <1>3, <1>6, <2>1, <3>1 DEF New, CallOK, LoadOK, UploadOK, RemovalOK
  <2>2. CASE s # t
    BY <1>3, <2>2, IdleOK
  <2>3. QED
    BY <2>1, <2>2
<1>12. NoPhantomCards /\ AlwaysListed /\ NoDuplicateCards /\ DetailShowsId
  BY <1>5, <1>6, <1>7 DEF NoPhantomCards, AlwaysListed, NoDuplicateCards, DetailShowsId, NoCards
<1>13. QED
  BY <1>9, <1>10, <1>11, <1>12 DEF PagesInv

LEMMA NextInv == PagesInv /\ [Next]_vars => PagesInv'
<1> SUFFICES ASSUME PagesInv, [Next]_vars PROVE PagesInv'
  OBVIOUS
<1>1. ASSUME NEW p \in Pages, NEW a \in Assets \cup {Null}, Open(p, a) PROVE PagesInv'
  <2>1. calls \in CallList /\ \E s \in Slots : calls[s] = Idle
    BY <1>1 DEF PagesInv, TypeOK, CallList, Open, SlotFree
  <2>2. QED
    BY <1>1, <2>1, ShowKeeps DEF Open
<1>2. ASSUME NEW a \in Assets, Jump(a) PROVE PagesInv'
  BY <1>2, JumpKeeps
<1>3. ASSUME NEW a \in Assets, Remove(a) PROVE PagesInv'
  <2>1. PICK kind \in RemovalsOn(page) : calls' = Sent(calls, kind, a)
    BY <1>3 DEF Remove
  <2>2. kind \in Removals /\ kind \in Offered(page) /\ kind # "upload" /\ kind # "emptyTrash"
    BY DEF RemovalsOn, Removals, Offered, PagesInv, TypeOK, Pages
  <2>3. SlotFree /\ ~loading
        /\ UNCHANGED <<libraryVars, page, id, cards, loading, error, historyVars>>
    BY <1>3 DEF Remove
  <2>4. QED
    BY <2>1, <2>2, <2>3, PagesAssumption, ClickKeeps
<1>4. CASE Upload
  BY <1>4, ClickKeeps DEF Upload, Removals
<1>5. CASE Empty
  <2>1. ~loading /\ page = "trash"
    BY <1>5 DEF Empty, PagesInv, PageOK
  <2>2. "emptyTrash" \in Removals /\ "emptyTrash" \in Offered(page)
    BY <2>1 DEF Removals, Offered
  <2>3. QED
    BY <1>5, <2>1, <2>2, ClickKeeps DEF Empty
<1>6. CASE Elsewhere
  BY <1>6, ElsewhereKeeps
<1>7. ASSUME NEW s \in Slots, Serves(s) \/ Arrives(s) PROVE PagesInv'
  BY <1>7, ServesKeeps, ArrivesKeeps
<1>8. CASE UNCHANGED vars
  <2>1. UNCHANGED <<status, original, known, page, id, cards, loading, error, calls, been,
                    always, taken>>
    BY <1>8 DEF vars, libraryVars, tabVars, historyVars
  <2>2. \A s \in Slots : CallOK(calls[s])'
    BY <2>1, CallKept DEF PagesInv
  <2>3. PageOK' /\ OneLoad' /\ TypeOK'
    BY <2>1 DEF PagesInv, PageOK, OneLoad, TypeOK, Library!TypeOK, InPage, Part, Shown, Pending
  <2>4. (NoPhantomCards /\ AlwaysListed /\ NoDuplicateCards /\ DetailShowsId)'
    BY <2>1 DEF PagesInv, NoPhantomCards, AlwaysListed, NoDuplicateCards, DetailShowsId, Shown
  <2>5. QED
    BY <2>2, <2>3, <2>4 DEF PagesInv
<1>9. QED
  BY <1>1, <1>2, <1>3, <1>4, <1>5, <1>6, <1>7, <1>8 DEF Next

LEMMA Invariance == Spec => []PagesInv
BY InitInv, NextInv, PTL DEF Spec

-----------------------------------------------------------------------------
(* The theorems, for any number of assets, contents and calls under way. *)

\* Every variable keeps its type (app.tsx, api-client.ts).
THEOREM PagesTypeCorrect == Spec => []TypeOK
<1>1. PagesInv => TypeOK
  BY DEF PagesInv
<1>2. QED
  BY <1>1, Invariance, PTL

\* No page shows an asset that was not in its part of the library since the page was
\* opened: only the page's own load and its own uploads give it cards, and both
\* carry what was there (app.tsx:184-187, 243-250, 450-453).
THEOREM OnlyWhatWasThere == Spec => []NoPhantomCards
<1>1. PagesInv => NoPhantomCards
  BY DEF PagesInv
<1>2. QED
  BY <1>1, Invariance, PTL

\* A loaded list without an error shows all that was there all the time: what an
\* answer takes off the list had left that part of the library
\* (app.tsx:186, 262, 272-275, 479, 492, 505).
THEOREM NothingHidden == Spec => []AlwaysListed
<1>1. PagesInv => AlwaysListed
  BY DEF PagesInv
<1>2. QED
  BY <1>1, Invariance, PTL

\* No asset has two cards (app.tsx:243-250).
THEOREM OneCardEach == Spec => []NoDuplicateCards
<1>1. PagesInv => NoDuplicateCards
  BY DEF PagesInv
<1>2. QED
  BY <1>1, Invariance, PTL

\* The page of an asset shows that asset once its load has ended without an error,
\* and not the one that it showed before (app.tsx:333-355).
THEOREM ShowsItsAsset == Spec => []DetailShowsId
<1>1. PagesInv => DetailShowsId
  BY DEF PagesInv
<1>2. QED
  BY <1>1, Invariance, PTL

\* What the page removed is off the page, or its removal is still to be answered, or
\* an error is shown (app.tsx:182-196, 260-265, 272, 503-508).
THEOREM RemovalsReported == Spec => []RemovedGoes
<1>1. PagesInv => RemovedGoes
  BY DEF PagesInv, PageOK, RemovedGoes, Pending
<1>2. QED
  BY <1>1, Invariance, PTL
=============================================================================
