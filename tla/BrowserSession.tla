---------------------------- MODULE BrowserSession ----------------------------
(***************************************************************************)
(* Sessions as the tabs of one browser see them (app.tsx: App, LoginPage,  *)
(* PageLayout; internal/http/auth.go and handlers.go). The server keeps no *)
(* session: it signs a cookie with an expiry, and derives from the cookie  *)
(* the token that requests must carry. All tabs share the cookies; each    *)
(* keeps the status it got last. A request takes the cookies as they are   *)
(* when it is sent, and its answer changes them when it arrives.           *)
(***************************************************************************)
EXTENDS Integers, FiniteSets

CONSTANTS
    Tabs, Nobody,
    Tokens,        \* tokens of the login form; bound: how many are in use at a time
    Slots,         \* bound: one slot for each request under way
    MaxSessions    \* bound: values of the session cookie in a history

ASSUME SessionAssumption ==
    /\ MaxSessions \in Nat
    /\ Tokens \cap (-1..MaxSessions) = {} /\ Nobody \notin Tabs \cup Slots

\* The values of the cookie, numbered as they are issued, which is the order of
\* their expiry. A number also stands for the token derived from the value.
Sessions == 1..MaxSessions
None == 0

VARIABLES
    session,    \* the session cookie, or None
    loginCSRF,  \* the login cookie, or None
    issued,     \* how many session cookies the server has made
    expired,    \* how many of them it refuses by now
    tabs,       \* what each tab keeps
    requests,   \* slot -> a request that is under way, or Idle
    ended,      \* history: sessions whose cookie the answer to a logout removed
    shared,     \* history: sessions that belong to more than one login, or to one
                \* of several logins under way together
    writer      \* history: the tab whose answer set or cleared the login cookie,
                \* or Nobody

serverVars == <<issued, expired>>
historyVars == <<ended, shared, writer>>
vars == <<session, loginCSRF, serverVars, tabs, requests, historyVars>>

\* "token" is None until a status has arrived; "submitting" is the slot of the
\* login that the form waits for, or Nobody; "left" is history: a logout of this tab
\* was answered, and no status since.
Tab == [loading : BOOLEAN, authenticated : BOOLEAN, token : Tokens \cup 0..MaxSessions,
        submitting : Slots \cup {Nobody}, left : BOOLEAN]
NewTab == [loading |-> TRUE, authenticated |-> FALSE, token |-> None,
           submitting |-> Nobody, left |-> FALSE]

PagesShown(x) == tabs[x].authenticated
FormShown(x) == ~tabs[x].loading /\ ~tabs[x].authenticated

Keep == -1
Answer == [ok : BOOLEAN, authenticated : BOOLEAN, token : Tokens \cup 0..MaxSessions,
           session : -1..MaxSessions, login : Tokens \cup {None, Keep}]
Refused == [ok |-> FALSE, authenticated |-> FALSE, token |-> None,
            session |-> Keep, login |-> Keep]

\* "good" are the right name and password; "late" is history: the session that the
\* tab had left when its page sent the request, or None.
Request == [kind : {"status", "statusAfterLogout", "login", "logout", "post", "read"},
            tab : Tabs \cup {Nobody}, token : Tokens \cup 0..MaxSessions, good : BOOLEAN,
            session : 0..MaxSessions, login : Tokens \cup {None},
            late : Tokens \cup 0..MaxSessions,
            step : {"sent", "answered"}, answer : Answer]
Idle == [kind |-> "none", tab |-> Nobody, step |-> "idle"]
Busy == {s \in Slots : requests[s] # Idle}

\* The login cookie is kept with logins only, which alone have a use for it; a
\* request that only reads carries no token. What a tab keeps of its session does
\* not depend on the answer to a page's own request, so none waits for that here.
Sent(kind, x, good, jar, form) ==
    LET asks == kind \in {"status", "statusAfterLogout", "read"}
        late == kind \in {"logout", "post", "read"} /\ tabs[x].left
    IN [kind |-> kind, tab |-> IF kind \in {"post", "read"} THEN Nobody ELSE x,
        token |-> IF asks THEN None ELSE tabs[x].token,
        good |-> good, session |-> jar, login |-> IF kind = "login" THEN form ELSE None,
        late |-> IF late THEN tabs[x].token ELSE None,
        step |-> "sent", answer |-> Refused]

Send(s, kind, x, good) ==
    requests' = [requests EXCEPT ![s] = Sent(kind, x, good, session, loginCSRF)]

-----------------------------------------------------------------------------
(* The user, and time. *)

\* A tab is opened or loaded again; nobody waits for what it had asked before.
Open(x) ==
    \E s \in Slots \ Busy :
        /\ tabs' = [tabs EXCEPT ![x] = NewTab]
        /\ requests' =
              [[f \in Slots |-> IF requests[f].tab = x THEN [requests[f] EXCEPT !.tab = Nobody]
                                                       ELSE requests[f]]
                  EXCEPT ![s] = Sent("status", x, FALSE, session, loginCSRF)]
        /\ UNCHANGED <<session, loginCSRF, serverVars, historyVars>>

\* The form's button is disabled until its answer; without a token the form only
\* shows an error.
Submit(x) ==
    /\ FormShown(x) /\ tabs[x].submitting = Nobody /\ tabs[x].token # None
    /\ \E s \in Slots \ Busy, good \in BOOLEAN :
          /\ Send(s, "login", x, good)
          /\ tabs' = [tabs EXCEPT ![x].submitting = s]
    /\ UNCHANGED <<session, loginCSRF, serverVars, historyVars>>

\* The button may be clicked again before the answer.
Logout(x) ==
    /\ PagesShown(x)
    /\ \E s \in Slots \ Busy : Send(s, "logout", x, FALSE)
    /\ UNCHANGED <<session, loginCSRF, serverVars, tabs, historyVars>>

\* Any request of a page that changes the library.
Post(x) ==
    /\ PagesShown(x)
    /\ \E s \in Slots \ Busy : Send(s, "post", x, FALSE)
    /\ UNCHANGED <<session, loginCSRF, serverVars, tabs, historyVars>>

\* Any request of a page for a listing, an asset or a file.
Read(x) ==
    /\ PagesShown(x)
    /\ \E s \in Slots \ Busy : Send(s, "read", x, FALSE)
    /\ UNCHANGED <<session, loginCSRF, serverVars, tabs, historyVars>>

\* A session comes to its end on the server, then in the browser. No answer is
\* under way for as long as a session lasts.
Expire ==
    /\ expired < issued /\ expired' = expired + 1
    /\ \A s \in Busy : requests[s].answer.session # expired'
    /\ UNCHANGED <<session, loginCSRF, issued, tabs, requests, historyVars>>

DropSession ==
    /\ session # None /\ session <= expired /\ session' = None
    /\ UNCHANGED <<loginCSRF, serverVars, tabs, requests, historyVars>>

DropLogin ==
    /\ loginCSRF # None /\ loginCSRF' = None /\ writer' = Nobody
    /\ UNCHANGED <<session, serverVars, tabs, requests, ended, shared>>

-----------------------------------------------------------------------------
(* The server, which looks at a request and the time. *)

IsAuthenticated(q) == q.session # None /\ q.session > expired

\* Mutant: any token of a session will do.
VerifySessionCSRFAny(q) == q.token \in Sessions

VerifySessionCSRF(q) == q.token = q.session

VerifyLoginCSRF(q) == q.token # None /\ q.token = q.login

\* Of what it has looked at, only the session matters from now on.
Answered(s, answer) ==
    requests' = [requests EXCEPT ![s] = [@ EXCEPT !.step = "answered", !.answer = answer,
                                    !.token = None, !.login = None, !.good = FALSE]]

\* Random, so one that nobody has.
Fresh == Tokens \ ({loginCSRF} \cup {tabs[x].token : x \in Tabs} \cup
                   UNION {{requests[s].token, requests[s].login, requests[s].answer.token}
                             : s \in Busy})

Status(q) == [Refused EXCEPT !.ok = TRUE, !.authenticated = TRUE, !.token = q.session]

AuthStatus(s) ==
    LET q == requests[s]
    IN /\ q.kind \in {"status", "statusAfterLogout"}
       /\ \/ IsAuthenticated(q) /\ Answered(s, Status(q))
          \/ /\ ~IsAuthenticated(q)
             /\ \E t \in Fresh :
                   Answered(s, [Refused EXCEPT !.ok = TRUE, !.token = t, !.login = t])
       /\ UNCHANGED <<serverVars, shared>>

\* Sessions that are in the browser, or on their way to it, and good.
Carried == {v \in {session} \cup {requests[s].answer.session : s \in Busy} : v > expired}

\* The value is made of the name and the second of expiry: a login in the same
\* second gets the same.
StartSession(s) ==
    \E v \in Sessions \cap {issued, issued + 1} :
        LET others == Carried \ {v, requests[s].session}
        IN /\ v > expired
           /\ issued' = v
           /\ Answered(s, [Refused EXCEPT !.ok = TRUE, !.authenticated = TRUE, !.token = v,
                                          !.session = v, !.login = None])
           /\ shared' = shared \cup (IF v = issued \/ others # {} THEN {v} \cup others
                                                                  ELSE {})
           /\ UNCHANGED expired

\* Mutant: a login is a login, also with a session.
LoginAnyway(s) ==
    LET q == requests[s]
    IN /\ q.kind = "login"
       /\ \/ VerifyLoginCSRF(q) /\ q.good /\ StartSession(s)
          \/ /\ ~(VerifyLoginCSRF(q) /\ q.good)
             /\ Answered(s, Refused) /\ UNCHANGED <<serverVars, shared>>

\* Mutant: the login cookie is cleared before the password is checked.
LoginClearsEarly(s) ==
    LET q == requests[s]
    IN /\ q.kind = "login"
       /\ \/ IsAuthenticated(q) /\ Answered(s, Status(q)) /\ UNCHANGED <<serverVars, shared>>
          \/ ~IsAuthenticated(q) /\ VerifyLoginCSRF(q) /\ q.good /\ StartSession(s)
          \/ /\ ~IsAuthenticated(q) /\ ~(VerifyLoginCSRF(q) /\ q.good)
             /\ Answered(s, [Refused EXCEPT !.login = None])
             /\ UNCHANGED <<serverVars, shared>>

Login(s) ==
    LET q == requests[s]
    IN /\ q.kind = "login"
       /\ \/ IsAuthenticated(q) /\ Answered(s, Status(q)) /\ UNCHANGED <<serverVars, shared>>
          \/ ~IsAuthenticated(q) /\ VerifyLoginCSRF(q) /\ q.good /\ StartSession(s)
          \/ /\ ~IsAuthenticated(q) /\ ~(VerifyLoginCSRF(q) /\ q.good)
             /\ Answered(s, Refused) /\ UNCHANGED <<serverVars, shared>>

Accepted(cookie) == [Refused EXCEPT !.ok = TRUE, !.session = cookie]

\* It looks at the session cookie alone: the code 401, or a redirect to the login.
RequireAuth(q, answer) == IF IsAuthenticated(q) THEN answer ELSE Refused

\* Mutant: the answer to a logout leaves the cookie in the browser.
ProtectedKeepsCookie(s) ==
    LET q == requests[s]
    IN /\ q.kind \in {"logout", "post"}
       /\ Answered(s, RequireAuth(q, IF VerifySessionCSRF(q) THEN Accepted(Keep) ELSE Refused))
       /\ UNCHANGED <<serverVars, shared>>

\* The POST handlers, which check the token too. Nothing is recorded of a session
\* that ends: the answer removes the cookie.
Protected(s) ==
    LET q == requests[s]
        cookie == IF q.kind = "logout" THEN None ELSE Keep
    IN /\ q.kind \in {"logout", "post"}
       /\ Answered(s, RequireAuth(q, IF VerifySessionCSRF(q) THEN Accepted(cookie) ELSE Refused))
       /\ UNCHANGED <<serverVars, shared>>

\* The GET handlers check nothing more.
ProtectedRead(s) ==
    /\ requests[s].kind = "read"
    /\ Answered(s, RequireAuth(requests[s], Accepted(Keep)))
    /\ UNCHANGED <<serverVars, shared>>

\* The server fails or refuses (too many logins), or the network does.
Fails(s) ==
    /\ Answered(s, Refused)
    /\ UNCHANGED <<serverVars, shared>>

Serves(s) ==
    /\ requests[s].step = "sent"
    /\ AuthStatus(s) \/ Login(s) \/ Protected(s) \/ ProtectedRead(s) \/ Fails(s)
    /\ UNCHANGED <<session, loginCSRF, tabs, ended, writer>>

\* An answer may still be lost.
Loses(s) ==
    /\ requests[s].step = "answered" /\ requests[s].answer.ok
    /\ Fails(s)
    /\ UNCHANGED <<session, loginCSRF, tabs, ended, writer>>

-----------------------------------------------------------------------------
(* Answers that arrive: the cookies change, and the tab goes on. *)

Cookies(q) ==
    /\ session' = IF q.answer.session = Keep THEN session ELSE q.answer.session
    /\ loginCSRF' = IF q.answer.login = Keep THEN loginCSRF ELSE q.answer.login
    /\ writer' = IF q.answer.login = Keep THEN writer ELSE q.tab
    /\ ended' = IF q.answer.session = None THEN ended \cup ({session, q.session} \ {None})
                ELSE ended
    /\ UNCHANGED <<serverVars, shared>>

\* What setSession makes of a status; with pages shown there is no form.
WithStatus(tab, answer) ==
    [tab EXCEPT !.loading = FALSE, !.authenticated = answer.authenticated,
                !.token = answer.token, !.left = FALSE,
                !.submitting = IF answer.authenticated THEN Nobody ELSE @]

Done(s) == requests' = [requests EXCEPT ![s] = Idle]

\* The tab is loaded again by then, or the request was one of a page.
Unheard(s) ==
    /\ requests[s].tab = Nobody
    /\ Done(s) /\ UNCHANGED tabs

\* refreshSession: without a status after an error.
Refreshes(s) ==
    LET q == requests[s]
    IN /\ q.kind = "status" /\ q.tab # Nobody
       /\ tabs' = [tabs EXCEPT ![q.tab] = WithStatus(@, q.answer)]
       /\ Done(s)

LoggedIn(s) ==
    LET q == requests[s]
        tab == IF tabs[q.tab].submitting = s THEN [tabs[q.tab] EXCEPT !.submitting = Nobody]
                                             ELSE tabs[q.tab]
    IN /\ q.kind = "login" /\ q.tab # Nobody
       /\ tabs' = [tabs EXCEPT ![q.tab] = IF q.answer.ok THEN WithStatus(tab, q.answer)
                                                          ELSE tab]
       /\ Done(s)

\* handleLogout asks for a status next; an error changes nothing that is shown.
LoggedOut(s) ==
    LET q == requests[s]
    IN /\ q.kind = "logout" /\ q.tab # Nobody
       /\ \/ /\ q.answer.ok
             /\ tabs' = [tabs EXCEPT ![q.tab].left = TRUE]
             /\ requests' = [requests EXCEPT ![s] =
                                Sent("statusAfterLogout", q.tab, FALSE, session', loginCSRF')]
          \/ ~q.answer.ok /\ Done(s) /\ UNCHANGED tabs

\* Mutant: after an error the tab is logged out too, without a new token.
SeesLogoutAnyway(s) ==
    LET q == requests[s]
    IN /\ q.kind = "statusAfterLogout" /\ q.tab # Nobody
       /\ tabs' = IF q.answer.ok THEN [tabs EXCEPT ![q.tab] = WithStatus(@, q.answer)]
                  ELSE [tabs EXCEPT ![q.tab].authenticated = FALSE]
       /\ Done(s)

\* The status that follows a logout; an error leaves the tab on its page.
SeesLogout(s) ==
    LET q == requests[s]
    IN /\ q.kind = "statusAfterLogout" /\ q.tab # Nobody
       /\ tabs' = IF q.answer.ok THEN [tabs EXCEPT ![q.tab] = WithStatus(@, q.answer)] ELSE tabs
       /\ Done(s)

Arrives(s) ==
    /\ requests[s].step = "answered"
    /\ Cookies(requests[s])
    /\ \/ Unheard(s) \/ Refreshes(s) \/ LoggedIn(s) \/ LoggedOut(s) \/ SeesLogout(s)

-----------------------------------------------------------------------------
\* No tab has been opened: each waits for its first status, which Open sends.
Init ==
    /\ session = None /\ loginCSRF = None /\ issued = 0 /\ expired = 0
    /\ tabs = [x \in Tabs |-> [NewTab EXCEPT !.loading = FALSE]]
    /\ requests = [s \in Slots |-> Idle]
    /\ ended = {} /\ shared = {} /\ writer = Nobody

Next ==
    \/ \E x \in Tabs : Open(x) \/ Submit(x) \/ Logout(x) \/ Post(x) \/ Read(x)
    \/ Expire \/ DropSession \/ DropLogin
    \/ \E s \in Slots : Serves(s) \/ Loses(s) \/ Arrives(s)

Spec == Init /\ [][Next]_vars

-----------------------------------------------------------------------------
(* Properties. *)

\* Every variable keeps its type; pages are shown only with a session's token,
\* and a form has one of the login's, or none.
TypeOK ==
    /\ session \in 0..MaxSessions /\ loginCSRF \in Tokens \cup {None}
    /\ issued \in 0..MaxSessions /\ expired \in 0..issued
    /\ tabs \in [Tabs -> Tab] /\ requests \in [Slots -> Request \cup {Idle}]
    /\ ended \subseteq Sessions /\ shared \subseteq Sessions
    /\ writer \in Tabs \cup {Nobody}
    /\ \A x \in Tabs : tabs[x].token \in IF PagesShown(x) THEN Sessions ELSE Tokens \cup {None}

\* A tab that shows the pages can use them: its token fits the cookie until the
\* session expires, the answer to a logout removes the cookie, or two logins were
\* under way together. No other tab's login takes its session away
\* (handlers.go:98-136, app.tsx:36-37, 125-126).
TabKeepsSession ==
    \A x \in Tabs :
        PagesShown(x) /\ tabs[x].token > expired /\ tabs[x].token \notin ended \cup shared
            => session = tabs[x].token

\* The login form of a tab can be submitted, after refused attempts and after a
\* logout too, until the cookie expires, or another tab takes a token or logs in
\* (auth.go:90-116, handlers.go:117-127, app.tsx:117-136, 568-573).
LoginFormWorks ==
    \A x \in Tabs : FormShown(x) /\ tabs[x].token # None /\ writer = x
                        => loginCSRF = tabs[x].token

\* A tab whose logout was answered but which got no status after it still shows
\* the pages, with the token of the session that it left. No POST of it is
\* accepted, a logout or any other, whoever logs in meanwhile, unless two logins got
\* the same session or were under way together (app.tsx:568-578, auth.go:75-88).
LeftChangesNothing ==
    \A s \in Busy : LET q == requests[s]
                    IN q.kind \in {"logout", "post"} /\ q.late # None /\ q.answer.ok =>
                          q.late \in shared

\* Such a tab can still read, since a GET needs the shared cookie alone, but never
\* with the session that it left: only after a later login in some tab, with the
\* same exception (router.go:33-43, auth.go:62-64, 171-188, app.tsx:568-578).
LeftReadsByLaterLogin ==
    \A s \in Busy : LET q == requests[s]
                    IN q.kind = "read" /\ q.late # None /\ q.answer.ok =>
                          q.session > q.late \/ q.late \in shared
=============================================================================
