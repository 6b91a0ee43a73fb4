----------------------------- MODULE LibraryPages -----------------------------
(***************************************************************************)
(* The pages of one browser tab (app.tsx): the media list, the trash, and  *)
(* the page of one asset, over the library that MediaLibrary promises and  *)
(* that other clients use too. A call of the page is sent, carried out by  *)
(* the server and answered in separate steps, so that answers overtake one *)
(* another, fail, get lost, or come to a page that was left meanwhile.     *)
(***************************************************************************)
EXTENDS Integers, FiniteSets

CONSTANTS
    Assets, Contents, Null, Old, OldContent,   \* see MediaLibrary
    MaxCalls                                   \* bound: calls under way at a time

ASSUME PagesAssumption ==
    /\ MaxCalls \in Nat \ {0} /\ Null \notin Assets
    /\ Old \subseteq Assets /\ OldContent \in [Old -> Contents]

VARIABLES
    status, original, known,   \* the library, see MediaLibrary
    page,      \* which page is shown
    id,        \* the asset that the URL names, on the page "detail"
    cards,     \* asset -> how many cards the page holds of it
    loading,   \* the page waits for its first answer and shows no card
    error,     \* the page shows an error
    calls,     \* slot -> a call that is under way, or Idle
    been,      \* history: what was in the page's part of the library since the
               \* page was opened, for a moment at least
    always,    \* history: ... and all the time
    taken      \* history: what this page had removed, until its state changes again
               \* or an upload's answer lists it again

Library == INSTANCE MediaLibrary

libraryVars == <<status, original, known>>
tabVars == <<page, id, cards, loading, error, calls>>
historyVars == <<been, always, taken>>
vars == <<libraryVars, tabVars, historyVars>>

Pages == {"media", "detail", "trash"}
Slots == 1..MaxCalls

Loads == {"listMedia", "getMedia", "listTrash"}
Removals == {"deleteCard", "deleteShown", "restore", "purge", "emptyTrash"}
Kinds == Loads \cup Removals \cup {"upload"}
Answers == {"none", "ok", "existing", "duplicate", "failed"}

\* "mounted" until the page that made the call is left; "found" is what the
\* answer carries, or what emptying the trash has still before it.
Call == [kind : Kinds, asset : Assets \cup {Null}, mounted : BOOLEAN,
         step : {"sent", "emptying", "answered"}, answer : Answers,
         found : SUBSET Assets]
Idle == [kind |-> "none", asset |-> Null, mounted |-> FALSE, step |-> "idle",
         answer |-> "none", found |-> {}]

NoCards == [a \in Assets |-> 0]
Shown == {a \in Assets : cards[a] > 0}

\* The part of the library that a page is about.
Part(states, p) == {a \in Assets : states[a] = IF p = "trash" THEN "trashed" ELSE "live"}
InPage(p) == Part(status, p)

\* Histories after a step of the library.
Witness ==
    /\ been' = been \cup Part(status', page)
    /\ always' = always \cap Part(status', page)

-----------------------------------------------------------------------------
(* Calls. *)

Sent(list, kind, a) ==
    LET s == CHOOSE s \in Slots : list[s] = Idle
    IN [list EXCEPT ![s] = [kind |-> kind, asset |-> a, mounted |-> TRUE,
                            step |-> "sent", answer |-> "none", found |-> {}]]

SlotFree == \E s \in Slots : calls[s] = Idle

Answered(s, answer, found) ==
    calls' = [calls EXCEPT ![s].step = "answered", ![s].answer = answer,
                           ![s].found = found]

Ended(s) == [calls EXCEPT ![s] = Idle]

\* Mutant: a load goes on when the page shows another asset.
CancelledNot(list) == list

\* The effect's cleanup: nothing takes the answer to the load any more.
Cancelled(list) == [s \in Slots |-> IF list[s].kind \in Loads THEN Idle ELSE list[s]]

\* Nor does a page that is left take updates from its other calls.
Unmounted(list) ==
    [s \in Slots |-> IF list[s].kind \in Removals \cup {"upload"}
                     THEN [list[s] EXCEPT !.mounted = FALSE] ELSE Idle]

-----------------------------------------------------------------------------
(* The user. *)

LoadOf(p) == CASE p = "media" -> "listMedia"
               [] p = "trash" -> "listTrash"
               [] p = "detail" -> "getMedia"

\* Mutant: the id of the page before is kept.
ShowKeepsId(p, a, list) ==
    /\ page' = p /\ id' = id
    /\ cards' = NoCards /\ loading' = TRUE /\ error' = FALSE
    /\ calls' = Sent(Unmounted(list), LoadOf(p), a)
    /\ been' = InPage(p) /\ always' = InPage(p) /\ taken' = {}

\* A new page, without cards, that sends its load.
Show(p, a, list) ==
    /\ page' = p /\ id' = a
    /\ cards' = NoCards /\ loading' = TRUE /\ error' = FALSE
    /\ calls' = Sent(Unmounted(list), LoadOf(p), a)
    /\ been' = InPage(p) /\ always' = InPage(p) /\ taken' = {}

\* Links lead to the list and to the trash, and from a card of the list to the
\* page of its asset. The browser's history leads anywhere.
Open(p, a) ==
    /\ SlotFree /\ p # page
    /\ a # Null <=> p = "detail"
    /\ Show(p, a, calls)
    /\ UNCHANGED libraryVars

\* From one asset's page to another's through the browser's history: the route
\* is the same, so the page stays as it is and only its effect runs again.
Jump(a) ==
    /\ SlotFree /\ page = "detail" /\ a # id
    /\ id' = a
    /\ calls' = Sent(Cancelled(calls), "getMedia", a)
    /\ UNCHANGED <<libraryVars, page, cards, loading, error, historyVars>>

Upload ==
    /\ SlotFree /\ page = "media"
    /\ calls' = Sent(calls, "upload", Null)
    /\ UNCHANGED <<libraryVars, page, id, cards, loading, error, historyVars>>

RemovalsOn(p) == CASE p = "media" -> {"deleteCard"}
                   [] p = "detail" -> {"deleteShown"}
                   [] p = "trash" -> {"restore", "purge"}

\* Mutant: the cards are shown while the page is loading.
RemoveEarly(a) ==
    /\ SlotFree /\ a \in Shown
    /\ \E kind \in RemovalsOn(page) : calls' = Sent(calls, kind, a)
    /\ UNCHANGED <<libraryVars, page, id, cards, loading, error, historyVars>>

\* Mutant: the card is taken away before the answer.
RemoveAtOnce(a) ==
    /\ SlotFree /\ ~loading /\ a \in Shown
    /\ \E kind \in RemovalsOn(page) : calls' = Sent(calls, kind, a)
    /\ cards' = IF page = "detail" THEN cards ELSE [cards EXCEPT ![a] = 0]
    /\ UNCHANGED <<libraryVars, page, id, loading, error, historyVars>>

\* The buttons of a card, once the user has confirmed; they are not disabled
\* while an earlier click waits for its answer.
Remove(a) ==
    /\ SlotFree /\ ~loading /\ a \in Shown
    /\ \E kind \in RemovalsOn(page) : calls' = Sent(calls, kind, a)
    /\ UNCHANGED <<libraryVars, page, id, cards, loading, error, historyVars>>

Empty ==
    /\ SlotFree /\ page = "trash" /\ Shown # {}
    /\ calls' = Sent(calls, "emptyTrash", Null)
    /\ UNCHANGED <<libraryVars, page, id, cards, loading, error, historyVars>>

-----------------------------------------------------------------------------
(* The server. An answer "failed" may follow a step that was carried out: it *)
(* was lost on its way, or an unlink failed after the row was gone.          *)

Reads(s) ==
    LET call == calls[s]
        found == CASE call.kind = "listMedia" -> InPage("media")
                   [] call.kind = "listTrash" -> InPage("trash")
                   [] call.kind = "getMedia" -> InPage("detail") \cap {call.asset}
    IN /\ call.kind \in Loads /\ call.step = "sent"
       /\ call.kind = "getMedia" => found # {}
       /\ Answered(s, "ok", found)
       /\ UNCHANGED <<libraryVars, page, id, cards, loading, error, historyVars>>

StepOf(kind, a) == CASE kind \in {"deleteCard", "deleteShown"} -> Library!Trash(a)
                     [] kind = "restore" -> Library!PutBack(a)
                     [] kind = "purge" -> Library!Purge(a)

Took(s, a) == taken' = IF calls[s].mounted THEN taken \cup {a} ELSE taken \ {a}

Removes(s) ==
    LET call == calls[s]
    IN /\ call.kind \in Removals \ {"emptyTrash"} /\ call.step = "sent"
       /\ StepOf(call.kind, call.asset)
       /\ \E answer \in {"ok", "failed"} : Answered(s, answer, {})
       /\ Took(s, call.asset) /\ Witness
       /\ UNCHANGED <<page, id, cards, loading, error>>

\* EmptyTrash lists the trash and purges one asset after the other; the first
\* that is not in the trash any more ends it.
EmptyLists(s) ==
    /\ calls[s].kind = "emptyTrash" /\ calls[s].step = "sent"
    /\ calls' = [calls EXCEPT ![s].step = "emptying", ![s].found = InPage("trash")]
    /\ UNCHANGED <<libraryVars, page, id, cards, loading, error, historyVars>>

EmptyPurges(s) ==
    \E a \in calls[s].found :
        /\ calls[s].step = "emptying"
        /\ Library!Purge(a)
        /\ calls' = [calls EXCEPT ![s].found = @ \ {a}]
        /\ Took(s, a) /\ Witness
        /\ UNCHANGED <<page, id, cards, loading, error>>

EmptyDone(s) ==
    /\ calls[s].step = "emptying" /\ calls[s].found = {}
    /\ Answered(s, "ok", {})
    /\ UNCHANGED <<libraryVars, page, id, cards, loading, error, historyVars>>

\* An upload adds an asset, restores one (after the user's choice), or finds
\* its content in the library or in the trash.
Stores(s) ==
    /\ calls[s].kind = "upload" /\ calls[s].step = "sent"
    /\ \E a \in Assets :
          \/ /\ Library!PutBack(a) \/ \E c \in Contents : Library!Add(a, c)
             /\ \E answer \in {"ok", "failed"} : Answered(s, answer, {a})
             /\ taken' = taken \ {a} /\ Witness
          \/ /\ \/ status[a] = "live" /\ Answered(s, "existing", {a})
                \/ status[a] = "trashed" /\ Answered(s, "duplicate", {a})
             /\ UNCHANGED <<libraryVars, historyVars>>
    /\ UNCHANGED <<page, id, cards, loading, error>>

\* Refused, or lost on its way there or, with nothing done, back.
Refuses(s) ==
    /\ calls[s].step \in {"sent", "emptying"}
    /\ Answered(s, "failed", {})
    /\ UNCHANGED <<libraryVars, page, id, cards, loading, error, historyVars>>

Serves(s) ==
    \/ Reads(s) \/ Removes(s) \/ Stores(s) \/ Refuses(s)
    \/ EmptyLists(s) \/ EmptyPurges(s) \/ EmptyDone(s)

\* Other clients, and other tabs.
Elsewhere ==
    /\ Library!Next /\ Witness
    /\ taken' = {a \in taken : status'[a] = status[a]}
    /\ UNCHANGED tabVars

-----------------------------------------------------------------------------
(* Answers that arrive. *)

\* Mutant: only a success ends the loading.
LoadedOnly(s) ==
    LET call == calls[s]
    IN /\ call.kind \in Loads /\ call.step = "answered"
       /\ cards' = IF call.answer = "ok"
                   THEN [a \in Assets |-> IF a \in call.found THEN 1 ELSE 0] ELSE cards
       /\ error' = (error \/ call.answer # "ok")
       /\ loading' = (loading /\ call.answer # "ok")
       /\ calls' = Ended(s)
       /\ UNCHANGED <<libraryVars, page, id, historyVars>>

Loaded(s) ==
    LET call == calls[s]
    IN /\ call.kind \in Loads /\ call.step = "answered"
       /\ cards' = IF call.answer = "ok"
                   THEN [a \in Assets |-> IF a \in call.found THEN 1 ELSE 0] ELSE cards
       /\ error' = (error \/ call.answer # "ok")
       /\ loading' = FALSE
       /\ calls' = Ended(s)
       /\ UNCHANGED <<libraryVars, page, id, historyVars>>

\* Mutant: the asset is put on the list without a look at the list.
UploadResolvedTwice(a) == cards' = [cards EXCEPT ![a] = @ + 1]

UploadResolved(a) == cards' = [cards EXCEPT ![a] = IF @ > 0 THEN @ ELSE 1]

\* Mutant: the asset of a refused upload, which is in the trash, is listed too.
UploadedAny(s) ==
    /\ calls[s].kind = "upload" /\ calls[s].step = "answered"
    /\ IF calls[s].mounted /\ calls[s].answer \in {"ok", "duplicate"}
       THEN \E a \in calls[s].found : UploadResolved(a)
       ELSE UNCHANGED cards
    /\ calls' = Ended(s)
    /\ UNCHANGED <<libraryVars, page, id, loading, error, historyVars>>

\* Only a new or restored asset is handed to the list; failures are shown by
\* the upload panel (UploadQueue).
Uploaded(s) ==
    /\ calls[s].kind = "upload" /\ calls[s].step = "answered"
    /\ IF calls[s].mounted /\ calls[s].answer = "ok"
       THEN \E a \in calls[s].found : UploadResolved(a) /\ taken' = taken \ {a}
       ELSE UNCHANGED <<cards, taken>>
    /\ calls' = Ended(s)
    /\ UNCHANGED <<libraryVars, page, id, loading, error, been, always>>

\* The card of a removed asset goes, or an error is shown.
Removed(s) ==
    LET call == calls[s]
    IN /\ call.kind \in {"deleteCard", "restore", "purge"} /\ call.step = "answered"
       /\ cards' = IF call.mounted /\ call.answer = "ok"
                   THEN [cards EXCEPT ![call.asset] = 0] ELSE cards
       /\ error' = (error \/ (call.mounted /\ call.answer # "ok"))
       /\ calls' = Ended(s)
       /\ UNCHANGED <<libraryVars, page, id, loading, historyVars>>

\* navigate("/media") works from a page that was left, too; on the list itself
\* it does nothing.
RemovedShown(s) ==
    LET call == calls[s]
    IN /\ call.kind = "deleteShown" /\ call.step = "answered"
       /\ \/ /\ call.answer = "ok" /\ page # "media"
             /\ Show("media", Null, Ended(s))
          \/ /\ call.answer # "ok" \/ page = "media"
             /\ error' = (error \/ (call.mounted /\ call.answer # "ok"))
             /\ calls' = Ended(s)
             /\ UNCHANGED <<page, id, cards, loading, historyVars>>
       /\ UNCHANGED libraryVars

\* After an error every card stays, though part of the trash may be gone.
Emptied(s) ==
    LET call == calls[s]
    IN /\ call.kind = "emptyTrash" /\ call.step = "answered"
       /\ cards' = IF call.mounted /\ call.answer = "ok" THEN NoCards ELSE cards
       /\ error' = (error \/ (call.mounted /\ call.answer # "ok"))
       /\ calls' = Ended(s)
       /\ UNCHANGED <<libraryVars, page, id, loading, historyVars>>

Arrives(s) == Loaded(s) \/ Uploaded(s) \/ Removed(s) \/ RemovedShown(s) \/ Emptied(s)

-----------------------------------------------------------------------------
\* The tab is opened on any page.
Init ==
    /\ Library!Init
    /\ page \in Pages /\ id \in Assets \cup {Null} /\ (id # Null <=> page = "detail")
    /\ cards = NoCards /\ loading = TRUE /\ error = FALSE
    /\ calls = Sent([s \in Slots |-> Idle], LoadOf(page), id)
    /\ been = InPage(page) /\ always = InPage(page) /\ taken = {}

Next ==
    \/ \E p \in Pages, a \in Assets \cup {Null} : Open(p, a)
    \/ \E a \in Assets : Jump(a) \/ Remove(a)
    \/ Upload \/ Empty \/ Elsewhere
    \/ \E s \in Slots : Serves(s) \/ Arrives(s)

Spec == Init /\ [][Next]_vars

\* Every call is answered, by the server or with an error of the network, and
\* its answer is taken; nobody has to click.
FairSpec == Spec /\ \A s \in Slots : WF_vars(Serves(s)) /\ WF_vars(Arrives(s))

-----------------------------------------------------------------------------
(* Properties. *)

\* Every variable keeps its type.
TypeOK ==
    /\ Library!TypeOK
    /\ page \in Pages /\ id \in IF page = "detail" THEN Assets ELSE {Null}
    /\ cards \in [Assets -> Nat] /\ loading \in BOOLEAN /\ error \in BOOLEAN
    /\ calls \in [Slots -> Call \cup {Idle}]
    /\ been \subseteq Assets /\ always \subseteq been /\ taken \subseteq Assets

\* No page shows an asset that has not been in its part of the library at some
\* time since the page was opened, whatever answers arrive late or for another
\* page (app.tsx:184-187, 243-250, 450-453).
NoPhantomCards == Shown \subseteq been

\* A list that is loaded and shows no error has a card for every asset that was
\* in its part of the library all the time: neither another answer nor another
\* user's click hides it, and "nothing uploaded yet" is not said of a library
\* with such an asset (app.tsx:186, 262, 272-275, 479, 492, 505).
AlwaysListed == page # "detail" /\ ~loading /\ ~error => always \subseteq Shown

\* An asset has one card: an upload may be answered before or after a listing
\* that has it, and may restore an asset whose old card is still there
\* (app.tsx:243-250).
NoDuplicateCards == \A a \in Assets : cards[a] <= 1

\* Once the page of an asset has loaded without an error, it shows the asset that
\* the URL names, also when it showed another before (app.tsx:333-355).
DetailShowsId ==
    page = "detail" /\ ~error /\ ~(\E s \in Slots : calls[s].kind \in Loads)
       => Shown = {id}

\* What the page had removed disappears from it once no removal is under way, or
\* an error is shown: an asset never stays silently, or returns with the answer
\* to a listing from before (app.tsx:182-196, 260-265, 272, 503-508).
RemovedGoes ==
    \A a \in taken \cap Shown :
        \/ error
        \/ \E s \in Slots : /\ calls[s].mounted /\ calls[s].kind \in Removals
                           /\ calls[s].asset \in {a, Null}

\* A page on which the user stays comes to the end of its loading
\* (app.tsx:192-196, 345-349, 458-462).
LoadingEnds == <>[][FALSE]_<<page, id>> => <>[]~loading

\* What an upload has put on the list stays there when the listing arrives: a
\* file that is uploaded appears in the list (e2e/tests/upload.spec.ts:7, 25).
UploadedStays ==
    [][\A s \in Slots : Loaded(s) /\ page = "media" =>
          \A a \in Shown : status[a] = "live" => a \in Shown']_vars
=============================================================================
