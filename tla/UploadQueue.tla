----------------------------- MODULE UploadQueue -----------------------------
(***************************************************************************)
(* The upload panel of the media page (upload-island.tsx): a list of files *)
(* that wait, are being uploaded or have failed, and a loop that uploads   *)
(* the waiting ones in turn. The loop walks the list as it was when the    *)
(* button was clicked, while files are added, removed and retried, and it  *)
(* goes on when the page is left. The panel is drawn again before the next *)
(* event, so a click acts on the list as it is.                            *)
(***************************************************************************)
EXTENDS Integers, Sequences, FiniteSetsExt

CONSTANTS
    MaxItems,     \* bound: files added in a history
    Images,       \* the items whose file is an image and has a preview
    MaxVisits,    \* bound: times the page is opened
    MaxRecent,    \* results the panel shows
    Percents      \* bound: the values a progress event rounds to, of 0..100

ASSUME QueueAssumption ==
    /\ MaxItems \in Nat /\ MaxVisits \in Nat /\ MaxRecent \in Nat \ {0}
    /\ Images \subseteq 1..MaxItems
    /\ 0 \in Percents /\ Percents \subseteq 0..100

\* Numbered as they are added, which is the order of the list.
Items == 1..MaxItems

VARIABLES
    items,         \* item -> what the list shows of it, or NoItem
    added,         \* how many items were ever added
    isUploading,   \* the upload button is disabled
    recent,        \* the last results, newest first
    urls,          \* items whose preview URL is not revoked
    page,          \* how often the page was opened
    open,          \* whether it is open now
    uploads        \* calls that run: the loops, and uploads by a click

queueVars == <<items, added, isUploading, recent, urls, page, open, uploads>>

Messages == {"created", "existing", "restored", "trashed_duplicate", "other"}
Actions == {"none", "restore", "new"}
Codes == {"none", "trashed_duplicate", "other"}

Item == [status : {"queued", "uploading", "error"}, progress : Percents,
         code : Codes, retryable : BOOLEAN]
NoItem == [status |-> "absent"]
Listed(i) == items[i] # NoItem

\* A call takes the items of todo in the order of the list.
Upload == [todo : (SUBSET Items) \ {{}}, action : Actions, loop : BOOLEAN,
           page : 1..MaxVisits]

\* The item whose request is under way, and those still before it.
Current(u) == Min(u.todo)
Rest(u) == u.todo \ {Current(u)}

\* What the server may answer (UploadMediaJSON), errors of the network included.
Successes(action) == {"created", "existing"} \cup
                     (IF action = "restore" THEN {"restored"} ELSE {})
Failures(action) == {"other"} \cup
                    (IF action = "none" THEN {"trashed_duplicate"} ELSE {})

-----------------------------------------------------------------------------
(* The summary above the list. *)

Count(status) == Cardinality({i \in Items : items[i].status = status})

\* Mutant: a waiting file counts like a finished one.
WeightQueued(i) == IF items[i].status = "uploading" THEN items[i].progress
                   ELSE IF Listed(i) THEN 100 ELSE 0

Weight(i) == IF items[i].status = "uploading" THEN items[i].progress
             ELSE IF items[i].status = "error" THEN 100 ELSE 0

\* weightedProgress when the items up to k have been taken.
WeightedProgress[k \in 0..MaxItems] ==
    IF k = 0 THEN 0 ELSE WeightedProgress[k - 1] + Weight(k)

Listing == {i \in Items : Listed(i)}

\* Math.round rounds halves up.
OverallProgress ==
    LET n == Cardinality(Listing)
    IN IF n = 0 THEN 0 ELSE (2 * WeightedProgress[MaxItems] + n) \div (2 * n)

-----------------------------------------------------------------------------
(* Updates of the list by functions of the current list: an item that is no *)
(* longer in it is not brought back.                                        *)

\* Mutant: the item is put on the list as the call has it in its snapshot.
SendingSnapshot(list, i) ==
    [list EXCEPT ![i] = [status |-> "uploading", progress |-> 0, code |-> "none",
                         retryable |-> TRUE]]

Sending(list, i) ==
    LET sent == [list[i] EXCEPT !.status = "uploading", !.progress = 0,
                                !.retryable = TRUE]
    IN [list EXCEPT ![i] = IF list[i] = NoItem THEN NoItem ELSE sent]

Failed(list, i, c) ==
    LET failed == [list[i] EXCEPT !.status = "error", !.code = c,
                                  !.retryable = c # "trashed_duplicate"]
    IN [list EXCEPT ![i] = IF list[i] = NoItem THEN NoItem ELSE failed]

\* Mutant: the loop also takes the failed items along.
QueueFailed == {i \in Items : items[i].status \in {"queued", "error"}}

Queue == {i \in Items : items[i].status = "queued"}

\* Mutant: old results are never dropped.
PushAll(u, message) ==
    recent' = IF open /\ u.page = page
              THEN <<[item |-> Current(u), message |-> message]>> \o recent
              ELSE recent

\* setState of a panel that was left has no effect.
Push(u, message) ==
    recent' = IF open /\ u.page = page
              THEN SubSeq(<<[item |-> Current(u), message |-> message]>> \o recent, 1,
                          IF Len(recent) < MaxRecent THEN Len(recent) + 1 ELSE MaxRecent)
              ELSE recent

-----------------------------------------------------------------------------
(* Actions of the user. *)

\* Some of the added files may be refused at once, for their type or size.
AddFiles ==
    /\ open
    /\ \E n \in added + 1 .. MaxItems : \E invalid \in SUBSET (added + 1 .. n) :
          /\ items' = [i \in Items |->
                          IF i \in added + 1 .. n
                          THEN [status |-> IF i \in invalid THEN "error" ELSE "queued",
                                progress |-> 0, code |-> "none",
                                retryable |-> i \notin invalid]
                          ELSE items[i]]
          /\ urls' = urls \cup (Images \cap (added + 1 .. n))
          /\ added' = n
    /\ UNCHANGED <<isUploading, recent, page, open, uploads>>

StartLoop ==
    /\ Queue # {}
    /\ isUploading' = TRUE
    /\ uploads' = uploads \cup {[todo |-> Queue, action |-> "none", loop |-> TRUE,
                                 page |-> page]}
    /\ items' = Sending(items, Min(Queue))
    /\ UNCHANGED <<added, recent, urls, page, open>>

\* Mutant: the button works while a loop is running.
UploadQueuedAgain == open /\ StartLoop

UploadQueued == open /\ ~isUploading /\ StartLoop

\* The buttons of a failed item: retry, or restore and new for a trashed
\* duplicate. A click does not disable the upload button.
UploadOne(i, action) ==
    /\ open /\ ~isUploading /\ items[i].status = "error"
    /\ IF action = "none" THEN items[i].retryable
                          ELSE items[i].code = "trashed_duplicate"
    /\ uploads' = uploads \cup {[todo |-> {i}, action |-> action, loop |-> FALSE,
                                 page |-> page]}
    /\ items' = Sending(items, i)
    /\ UNCHANGED <<added, isUploading, recent, urls, page, open>>

\* Mutant: the preview's URL is not revoked.
RemoveItemKeepsUrl(i) ==
    /\ open /\ items[i].status \in {"queued", "error"}
    /\ items' = [items EXCEPT ![i] = NoItem]
    /\ UNCHANGED <<added, isUploading, recent, urls, page, open, uploads>>

\* Also while a loop is running that still has the item before it.
RemoveItem(i) ==
    /\ open /\ items[i].status \in {"queued", "error"}
    /\ items' = [items EXCEPT ![i] = NoItem]
    /\ urls' = urls \ {i}
    /\ UNCHANGED <<added, isUploading, recent, page, open, uploads>>

\* The panel is unmounted; what it started goes on.
Leave ==
    /\ open /\ open' = FALSE
    /\ items' = [i \in Items |-> NoItem]
    /\ urls' = urls \ {i \in Images : Listed(i)}
    /\ isUploading' = FALSE /\ recent' = <<>>
    /\ UNCHANGED <<added, page, uploads>>

Enter ==
    /\ ~open /\ page < MaxVisits
    /\ open' = TRUE /\ page' = page + 1
    /\ UNCHANGED <<items, added, isUploading, recent, urls, uploads>>

-----------------------------------------------------------------------------
(* Events of the requests. *)

Progress(u) ==
    LET i == Current(u)
    IN /\ Listed(i)
       /\ \E v \in Percents :
             v > items[i].progress /\ items' = [items EXCEPT ![i].progress = v]
       /\ UNCHANGED <<added, isUploading, recent, urls, page, open, uploads>>

\* The rest of the call after an answer: the loop sends the next item of its
\* list, whether or not the panel still shows it, or ends.
GoOn(u, list) ==
    \/ /\ Rest(u) # {}
       /\ uploads' = (uploads \ {u}) \cup {[u EXCEPT !.todo = Rest(u)]}
       /\ items' = Sending(list, Min(Rest(u)))
       /\ UNCHANGED isUploading
    \/ /\ Rest(u) = {}
       /\ uploads' = uploads \ {u}
       /\ items' = list
       /\ isUploading' = (isUploading /\ ~(u.loop /\ u.page = page))

Succeed(u) ==
    LET i == Current(u)
    IN /\ GoOn(u, [items EXCEPT ![i] = NoItem])
       /\ urls' = urls \ {i}
       /\ \E message \in Successes(u.action) : Push(u, message)
       /\ UNCHANGED <<added, page, open>>

\* Mutant: an error leaves the loop.
FailLeaves(u) ==
    \E c \in Failures(u.action) :
        /\ items' = Failed(items, Current(u), c)
        /\ uploads' = uploads \ {u}
        /\ Push(u, c)
        /\ UNCHANGED <<added, isUploading, urls, page, open>>

Fail(u) ==
    \E c \in Failures(u.action) :
        /\ GoOn(u, Failed(items, Current(u), c))
        /\ Push(u, c)
        /\ UNCHANGED <<added, urls, page, open>>

Answered(u) == Succeed(u) \/ Fail(u)

-----------------------------------------------------------------------------
Init ==
    /\ items = [i \in Items |-> NoItem]
    /\ added = 0 /\ isUploading = FALSE /\ recent = <<>> /\ urls = {}
    /\ page = 0 /\ open = FALSE /\ uploads = {}

Next ==
    \/ AddFiles \/ UploadQueued \/ Leave \/ Enter
    \/ \E i \in Items : RemoveItem(i) \/ \E action \in Actions : UploadOne(i, action)
    \/ \E u \in uploads : Progress(u) \/ Answered(u)

Spec == Init /\ [][Next]_queueVars

\* Every request ends, with an answer or an error; nobody has to click.
AnsweredFor(i) == \E u \in uploads : Current(u) = i /\ Answered(u)
FairSpec == Spec /\ \A i \in Items : WF_queueVars(AnsweredFor(i))

-----------------------------------------------------------------------------
(* Properties. *)

Under(i) == {u \in uploads : i \in u.todo}

\* Every variable keeps its type.
TypeOK ==
    /\ items \in [Items -> Item \cup {NoItem}]
    /\ added \in 0..MaxItems /\ page \in 0..MaxVisits
    /\ isUploading \in BOOLEAN /\ open \in BOOLEAN
    /\ urls \subseteq Images /\ uploads \subseteq Upload
    /\ recent \in Seq([item : Items, message : Messages]) /\ Len(recent) <= MaxRecent

\* No file is sent twice: however clicks, loops and visits overlap, at most one
\* call has an item under way or still before it (upload-island.tsx:271-283).
OneUploadPerItem == \A i \in Items : Cardinality(Under(i)) <= 1

\* The list shows as uploading exactly the listed items with a request under
\* way, and whatever a loop still has before it is shown as waiting, or not at
\* all (upload-island.tsx:191-197, 278-281).
StatusTellsUpload ==
    \A i \in Items : Listed(i) =>
        /\ items[i].status = "uploading" <=> \E u \in uploads : Current(u) = i
        /\ \A u \in uploads : i \in Rest(u) => items[i].status = "queued"

\* Every preview of the list can be shown, and no URL outlives its item
\* (upload-island.tsx:76-84, 211-213, 285-292).
UrlsOfListed == urls = {i \in Images : Listed(i)}

\* What left the list stays away: a loop goes on with an item that was removed
\* before its turn, and answers arrive after their item, or the whole page, is gone;
\* none of their updates lists the item again, on this visit or on a later one
\* (upload-island.tsx:191-197, 247-259, 271-292).
GoneStaysGone == [][\A i \in 1..added : ~Listed(i) => ~Listed(i)']_queueVars

\* The summary says 100% only when the list is sent to its end, but for what the
\* rounding hides: no file waits unless 200 or more are listed, and of n files
\* none under way lacks more than n/2 percent (upload-metrics.ts:14-44).
FullMeansSent ==
    LET n == Cardinality(Listing)
    IN OverallProgress = 100 =>
          \A i \in Items :
             /\ items[i].status = "queued" => n >= 200
             /\ items[i].status = "uploading" => 2 * (100 - items[i].progress) <= n

\* Every item a call has before it is answered, failures before it or not, and
\* the upload button comes back (upload-island.tsx:271-283).
EveryUploadEnds ==
    /\ \A i \in Items : Under(i) # {} ~> Under(i) = {}
    /\ isUploading ~> ~isUploading

\* When the panel reports that a duplicate in the trash waits for the user's
\* choice, it offers the choice (README.md:97, upload-island.tsx:264).
TrashedDuplicateOffersChoice ==
    [][recent' # recent /\ recent' # <<>> /\ recent'[1].message = "trashed_duplicate"
          => LET item == items'[recent'[1].item]
             IN item.status = "error" /\ item.code = "trashed_duplicate"]_queueVars
=============================================================================
