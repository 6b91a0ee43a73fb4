------------------------ MODULE BrowserSessionProofs ------------------------
(***************************************************************************)
(* Theorems about BrowserSession for all values of its constants: any      *)
(* number of tabs, requests under way and sessions. One inductive          *)
(* invariant says what the answers under way may still do to the cookies,  *)
(* and gives type correctness and the safety properties.                   *)
(***************************************************************************)
EXTENDS BrowserSession, TLAPS

-----------------------------------------------------------------------------
(* The inductive invariant. *)

\* What an answer can be.
GivesForm(q, a) ==
    /\ q.kind \in {"status", "statusAfterLogout"} /\ ~a.authenticated
    /\ a.token \in Tokens /\ a.login = a.token /\ a.session = Keep
GivesStatus(q, a) ==
    /\ q.kind \in {"status", "statusAfterLogout", "login"} /\ a.authenticated
    /\ q.session \in Sessions /\ a.token = q.session /\ a.session = Keep /\ a.login = Keep
GivesSession(q, a) ==
    /\ q.kind = "login" /\ a.authenticated
    /\ a.session \in Sessions /\ a.token = a.session /\ a.login = None
EndsSession(q, a) ==
    /\ q.kind = "logout" /\ ~a.authenticated /\ a.token = None
    /\ a.session = None /\ a.login = Keep
Accepts(q, a) ==
    /\ q.kind \in {"post", "read"} /\ ~a.authenticated /\ a.token = None
    /\ a.session = Keep /\ a.login = Keep

AnswerOK(q) ==
    \/ q.answer = Refused
    \/ /\ q.step = "answered" /\ q.answer.ok
       /\ \/ GivesForm(q, q.answer) \/ GivesStatus(q, q.answer) \/ GivesSession(q, q.answer)
          \/ EndsSession(q, q.answer) \/ Accepts(q, q.answer)

AnswersOK == \A s \in Busy : AnswerOK(requests[s])

\* Nothing names a session that the server has not issued.
IssuedOK ==
    /\ session <= issued
    /\ \A x \in Tabs : PagesShown(x) => tabs[x].token <= issued
    /\ \A s \in Busy : requests[s].session <= issued /\ requests[s].answer.session <= issued
    /\ \A v \in ended \cup shared : v <= issued

Live(v) == v > expired /\ v \notin ended \cup shared

\* Two sessions are around only after two logins at a time, and an older one than the
\* last only then.
CarriedOK ==
    /\ \A u, v \in Carried : u # v => u \in shared /\ v \in shared
    /\ \A v \in Sessions, u \in Carried : v <= issued /\ v \notin shared => u >= v

Brings(s, v) == requests[s].answer.session = v

\* A session on its way to the browser is new there, or shared.
NewOK ==
    \A s \in Busy, v \in Sessions : Brings(s, v) =>
        /\ v > expired
        /\ \/ v \in shared
           \/ /\ v # session /\ v \notin ended
              /\ \A r \in Busy : /\ requests[r].session # v
                                 /\ r # s => ~Brings(r, v)

\* What a request carries is what the browser has, for as long as it is good.
SentOK ==
    \A s \in Busy : requests[s].session # None /\ Live(requests[s].session) =>
        session = requests[s].session

SessionOK == session > expired /\ session \in ended => session \in shared

LeftOK == \A x \in Tabs : PagesShown(x) /\ tabs[x].left => ~Live(tabs[x].token)

\* A request of a tab that had left has no cookie that is good, or one of a later login.
LateOK(q) ==
    q.late # None =>
        /\ q.kind \in {"logout", "post", "read"} /\ q.late \in Sessions
        /\ q.kind # "read" /\ q.step = "sent" => q.token = q.late
        /\ q.session > q.late \/ q.late \in shared \/ q.session <= expired
        /\ q.kind # "read" /\ q.answer.ok => q.late \in shared
        /\ q.answer.ok => q.session > q.late \/ q.late \in shared

LatesOK == \A s \in Busy : LateOK(requests[s])

\* What the requests say of the sessions, and what the tabs do.
RequestsOK == AnswersOK /\ IssuedOK /\ CarriedOK /\ NewOK /\ SentOK /\ SessionOK /\ LatesOK
TabsOK == TabKeepsSession /\ LeftOK /\ LoginFormWorks

SessionInv == TypeOK /\ RequestsOK /\ TabsOK

-----------------------------------------------------------------------------
(* Types. *)

LEMMA IdleIsNoRequest == Idle \notin Request
BY DEF Idle, Request

LEMMA RefusedTyped ==
    /\ Refused \in Answer
    /\ Refused.ok = FALSE /\ Refused.authenticated = FALSE /\ Refused.token = None
    /\ Refused.session = Keep /\ Refused.login = Keep
BY SessionAssumption DEF Refused, Answer, Keep, None

LEMMA AnswerTyped ==
    ASSUME NEW a \in Answer
    PROVE  /\ a.ok \in BOOLEAN /\ a.authenticated \in BOOLEAN
           /\ a.token \in Tokens \cup 0..MaxSessions
           /\ a.session \in -1..MaxSessions /\ a.login \in Tokens \cup {None, Keep}
BY DEF Answer

LEMMA RequestTyped ==
    ASSUME NEW q \in Request
    PROVE  /\ q.kind \in {"status", "statusAfterLogout", "login", "logout", "post", "read"}
           /\ q.tab \in Tabs \cup {Nobody} /\ q.token \in Tokens \cup 0..MaxSessions
           /\ q.good \in BOOLEAN /\ q.session \in 0..MaxSessions
           /\ q.login \in Tokens \cup {None} /\ q.late \in Tokens \cup 0..MaxSessions
           /\ q.step \in {"sent", "answered"} /\ q.answer \in Answer
BY DEF Request

LEMMA BusyTyped ==
    ASSUME TypeOK, NEW s \in Slots
    PROVE  s \in Busy <=> requests[s] \in Request
BY IdleIsNoRequest DEF TypeOK, Busy

\* A slot with a step is busy.
LEMMA StepIsBusy ==
    ASSUME TypeOK, NEW s \in Slots, requests[s].step \in {"sent", "answered"}
    PROVE  s \in Busy
BY DEF Busy, Idle

LEMMA TabTyped ==
    ASSUME TypeOK, NEW x \in Tabs
    PROVE  /\ tabs[x].loading \in BOOLEAN /\ tabs[x].authenticated \in BOOLEAN
           /\ tabs[x].token \in Tokens \cup 0..MaxSessions
           /\ tabs[x].submitting \in Slots \cup {Nobody} /\ tabs[x].left \in BOOLEAN
BY DEF TypeOK, Tab

\* The numbers among tokens and sessions.
LEMMA Numbers ==
    /\ MaxSessions \in Nat /\ None = 0 /\ Keep = -1
    /\ Sessions \subseteq 0..MaxSessions
    /\ \A v \in 0..MaxSessions : v \in Int /\ v >= 0 /\ (v # None => v \in Sessions)
    /\ \A v \in Sessions : v \in Int /\ v >= 1 /\ v # None /\ v # Keep
    /\ \A t \in Tokens : t \notin 0..MaxSessions /\ t # None /\ t # Keep
BY SessionAssumption DEF None, Keep, Sessions

LEMMA SentTyped ==
    ASSUME NEW kind \in {"status", "statusAfterLogout", "login", "logout", "post", "read"},
           TypeOK, NEW x \in Tabs, NEW good \in BOOLEAN,
           NEW jar \in 0..MaxSessions, NEW form \in Tokens \cup {None}
    PROVE  LET q == Sent(kind, x, good, jar, form)
           IN /\ q \in Request
              /\ q.kind = kind /\ q.session = jar /\ q.step = "sent" /\ q.answer = Refused
              /\ q.late = IF kind \in {"logout", "post", "read"} /\ tabs[x].left
                          THEN tabs[x].token ELSE None
              /\ kind \in {"logout", "post"} => q.token = tabs[x].token
<1> DEFINE who == IF kind \in {"post", "read"} THEN Nobody ELSE x
           tok == IF kind \in {"status", "statusAfterLogout", "read"} THEN None
                                                                    ELSE tabs[x].token
           lat == IF kind \in {"logout", "post", "read"} /\ tabs[x].left
                  THEN tabs[x].token ELSE None
           log == IF kind = "login" THEN form ELSE None
<1>1. /\ tok \in Tokens \cup 0..MaxSessions /\ lat \in Tokens \cup 0..MaxSessions
      /\ log \in Tokens \cup {None} /\ who \in Tabs \cup {Nobody}
  BY TabTyped, Numbers
<1>2. Sent(kind, x, good, jar, form) =
        [kind |-> kind, tab |-> who, token |-> tok, good |-> good, session |-> jar,
         login |-> log, late |-> lat, step |-> "sent", answer |-> Refused]
  BY DEF Sent
<1>3. kind \in {"logout", "post"} => tok = tabs[x].token  OBVIOUS
<1> HIDE DEF who, tok, log
<1> QED  BY <1>1, <1>2, <1>3, RefusedTyped DEF Request

\* A request that is answered.
LEMMA AnsweredTyped ==
    ASSUME TypeOK, NEW s \in Busy, NEW a \in Answer, Answered(s, a)
    PROVE  /\ requests' \in [Slots -> Request \cup {Idle}]
           /\ \A r \in Slots \ {s} : requests'[r] = requests[r]
           /\ LET q == requests[s]  p == requests'[s]
              IN /\ p \in Request /\ p.answer = a /\ p.step = "answered"
                 /\ p.kind = q.kind /\ p.tab = q.tab
                 /\ p.session = q.session /\ p.late = q.late
<1>1. s \in Slots /\ requests[s] \in Request  BY BusyTyped DEF Busy
<1> DEFINE q == requests[s]
           r == [q EXCEPT !.step = "answered", !.answer = a, !.token = None,
                          !.login = None, !.good = FALSE]
<1>2. requests' = [requests EXCEPT ![s] = r]
  BY Zenon DEF Answered
<1>3. r \in Request
  <2>1. None \in Tokens \cup 0..MaxSessions
    BY Numbers
  <2> QED  BY <1>1, <2>1 DEF Request
<1>4. /\ r.answer = a /\ r.step = "answered"
      /\ r.kind = q.kind /\ r.tab = q.tab
      /\ r.session = q.session /\ r.late = q.late
  BY <1>1 DEF Request
<1> HIDE DEF r
<1> QED  BY <1>1, <1>2, <1>3, <1>4 DEF TypeOK

-----------------------------------------------------------------------------
(* What every step must do for the sessions that are good to stay so. *)

LEMMA CarriedAre ==
    ASSUME TypeOK, NEW v
    PROVE  v \in Carried <=> /\ v > expired
                             /\ v = session \/ \E s \in Busy : Brings(s, v)
BY DEF Carried, Brings

\* A session that ends stays ended.
LEMMA LiveBefore ==
    ASSUME TypeOK, TypeOK', NEW v \in 0..MaxSessions,
           expired <= expired', ended \subseteq ended', shared \subseteq shared', Live(v)'
    PROVE  Live(v)
BY Numbers DEF TypeOK, Live

\* One more request, with the session that the browser has.
LEMMA OneMore ==
    ASSUME SessionInv, TypeOK', NEW s \in Slots \ Busy,
           UNCHANGED <<session, serverVars, ended, shared>>,
           \A x \in Tabs : PagesShown(x)' => tabs[x].token' = tabs[x].token /\ PagesShown(x),
           requests'[s] \in Request, requests'[s].answer = Refused,
           requests'[s].session = session, LateOK(requests'[s]),
           \A r \in Slots \ {s} : (requests'[r] \in Request) = (requests[r] \in Request),
           \A r \in Busy : LET p == requests'[r]  q == requests[r]
                           IN /\ p.kind = q.kind /\ p.step = q.step /\ p.token = q.token
                              /\ p.session = q.session /\ p.late = q.late
                              /\ p.answer = q.answer
    PROVE  RequestsOK'
<1> USE DEF SessionInv, RequestsOK
<1>1. /\ \A r \in Slots : r \in Busy <=> requests[r] \in Request
      /\ \A r \in Slots : (r \in Busy)' <=> requests'[r] \in Request
      /\ Busy \subseteq Slots /\ Busy' \subseteq Slots
  <2>1. \A r \in Slots : r \in Busy <=> requests[r] \in Request
    BY BusyTyped
  <2>2. \A r \in Slots : (r \in Busy)' <=> requests'[r] \in Request
    BY IdleIsNoRequest DEF TypeOK, Busy
  <2>3. Busy \subseteq Slots /\ Busy' \subseteq Slots
    BY DEF Busy
  <2> QED  BY <2>1, <2>2, <2>3
<1>2. Busy' = Busy \cup {s}
  BY <1>1
<1>3. \A r \in Busy' : r = s \/ (r # s /\ r \in Busy)
  BY <1>2
<1>4. \A r \in Busy : r # s
  OBVIOUS
<1>5. session \in 0..MaxSessions /\ issued \in Int /\ expired \in Int
  BY SessionAssumption DEF TypeOK
<1>6. AnswersOK'
  <2> SUFFICES ASSUME NEW r \in Busy' PROVE AnswerOK(requests[r])'
    BY DEF AnswersOK
  <2>1. CASE r = s
    BY <2>1 DEF AnswerOK
  <2>2. CASE r # s
    <3>1. AnswerOK(requests[r])  BY <1>3, <2>2 DEF AnswersOK
    <3> QED
      BY <1>3, <2>2, <3>1
      DEF AnswerOK, GivesForm, GivesStatus, GivesSession, EndsSession, Accepts
  <2> QED  BY <2>1, <2>2
<1>7. IssuedOK'
  <2>1. session' <= issued' /\ \A v \in ended' \cup shared' : v <= issued'
    BY DEF IssuedOK, serverVars
  <2>2. \A x \in Tabs : PagesShown(x)' => tabs'[x].token <= issued'
    BY DEF IssuedOK, serverVars
  <2>3. \A r \in Busy' : requests'[r].session <= issued' /\ requests'[r].answer.session <= issued'
    <3> SUFFICES ASSUME NEW r \in Busy'
                 PROVE  requests'[r].session <= issued' /\ requests'[r].answer.session <= issued'
      OBVIOUS
    <3>1. CASE r = s
      BY <3>1, <1>5, RefusedTyped, Numbers DEF IssuedOK, serverVars, TypeOK
    <3>2. CASE r # s
      BY <3>2, <1>3 DEF IssuedOK, serverVars
    <3> QED  BY <3>1, <3>2
  <2> QED  BY <2>1, <2>2, <2>3 DEF IssuedOK
<1>8. \A r \in Busy', v \in 0..MaxSessions : Brings(r, v)' => r \in Busy /\ r # s /\ Brings(r, v)
  BY <1>3, RefusedTyped, Numbers DEF Brings
<1>9. CarriedOK'
  <2>1. \A v : v \in Carried' => v \in Carried
    <3> SUFFICES ASSUME NEW v \in Carried' PROVE v \in Carried
      OBVIOUS
    <3>1. v > expired /\ (v = session \/ \E r \in Busy' : v = requests'[r].answer.session)
      BY DEF Carried, serverVars
    <3>2. CASE v = session
      BY <3>1, <3>2 DEF Carried
    <3>3. ASSUME NEW r \in Busy', v = requests'[r].answer.session PROVE v \in Carried
      <4>1. r # s
        BY <3>1, <3>3, <1>5, RefusedTyped, Numbers DEF TypeOK
      <4> QED  BY <3>1, <3>3, <4>1, <1>3 DEF Carried
    <3> QED  BY <3>1, <3>2, <3>3
  <2> QED  BY <2>1 DEF CarriedOK, serverVars
<1>10. NewOK'
  <2> SUFFICES ASSUME NEW r \in Busy', NEW v \in Sessions, Brings(r, v)'
               PROVE  /\ v > expired'
                      /\ \/ v \in shared'
                         \/ /\ v # session' /\ v \notin ended'
                            /\ \A t \in Busy' : /\ requests'[t].session # v
                                                /\ t # r => ~Brings(t, v)'
    BY DEF NewOK
  <2>1. r \in Busy /\ Brings(r, v)  BY <1>8, Numbers
  <2>2. /\ v > expired
        /\ \/ v \in shared
           \/ /\ v # session /\ v \notin ended
              /\ \A t \in Busy : requests[t].session # v /\ (t # r => ~Brings(t, v))
    BY <2>1 DEF NewOK
  <2>3. CASE v \in shared
    BY <2>2, <2>3 DEF serverVars
  <2>4. CASE v \notin shared
    <3>1. \A t \in Busy' : requests'[t].session # v
      BY <2>2, <2>4, <1>3
    <3>2. \A t \in Busy' : t # r => ~Brings(t, v)'
      BY <2>2, <2>4, <1>8, Numbers
    <3> QED  BY <2>2, <2>4, <3>1, <3>2 DEF serverVars
  <2> QED  BY <2>3, <2>4
<1>11. SentOK'
  <2> SUFFICES ASSUME NEW r \in Busy', requests'[r].session # None, Live(requests[r].session)'
               PROVE  session' = requests'[r].session
    BY DEF SentOK
  <2>1. CASE r = s  BY <2>1
  <2>2. CASE r # s  BY <2>2, <1>3 DEF SentOK, Live, serverVars
  <2> QED  BY <2>1, <2>2
<1>12. SessionOK'
  BY DEF SessionOK, serverVars
<1>13. LatesOK'
  <2> SUFFICES ASSUME NEW r \in Busy' PROVE LateOK(requests[r])'
    BY DEF LatesOK
  <2>1. CASE r = s  BY <2>1 DEF LateOK, serverVars
  <2>2. CASE r # s  BY <2>2, <1>3 DEF LatesOK, LateOK, serverVars
  <2> QED  BY <2>1, <2>2
<1> QED  BY <1>6, <1>7, <1>9, <1>10, <1>11, <1>12, <1>13

-----------------------------------------------------------------------------
(* The server's steps. *)

\* The tabs keep what they show while cookies and tabs are as they were.
LEMMA TabsAsTheyWere ==
    ASSUME SessionInv, TypeOK', UNCHANGED <<session, loginCSRF, tabs, ended, writer>>,
           expired <= expired', shared \subseteq shared'
    PROVE  TabsOK'
<1>1. \A x \in Tabs : PagesShown(x) => tabs[x].token \in 0..MaxSessions
  BY Numbers DEF SessionInv, TypeOK
<1>2. \A v \in 0..MaxSessions : Live(v)' => Live(v)
  BY LiveBefore DEF SessionInv
<1>3. TabKeepsSession'
  <2> SUFFICES ASSUME NEW x \in Tabs, PagesShown(x)', Live(tabs[x].token)'
               PROVE  session' = tabs'[x].token
    BY DEF TabKeepsSession, Live
  <2> QED
    BY <1>1, <1>2 DEF SessionInv, TabsOK, TabKeepsSession, Live, PagesShown
<1>4. LeftOK'
  BY <1>1, <1>2 DEF SessionInv, TabsOK, LeftOK, PagesShown
<1>5. LoginFormWorks'
  BY DEF SessionInv, TabsOK, LoginFormWorks, FormShown
<1> QED  BY <1>3, <1>4, <1>5 DEF TabsOK

\* The slots after an answer is made.
LEMMA SlotsAnswered ==
    ASSUME SessionInv, NEW s \in Busy, NEW a \in Answer, Answered(s, a)
    PROVE  /\ Busy' = Busy /\ Busy \subseteq Slots
           /\ \A r \in Busy : r # s => requests'[r] = requests[r]
           /\ LET q == requests[s]  p == requests'[s]
              IN /\ p.answer = a /\ p.step = "answered" /\ p.kind = q.kind
                 /\ p.session = q.session /\ p.late = q.late
BY AnsweredTyped, BusyTyped, IdleIsNoRequest DEF SessionInv, Busy

LEMMA AnswerKeepsType ==
    ASSUME SessionInv, NEW s \in Busy, NEW a \in Answer, Answered(s, a),
           UNCHANGED <<session, loginCSRF, tabs, ended, writer, expired>>,
           issued' \in 0..MaxSessions, issued <= issued', shared' \subseteq Sessions
    PROVE  TypeOK'
BY AnsweredTyped, SessionAssumption DEF SessionInv, TypeOK, PagesShown

LEMMA AnswersKept ==
    ASSUME SessionInv, NEW s \in Busy, NEW a \in Answer, Answered(s, a),
           AnswerOK(requests'[s])
    PROVE  AnswersOK'
<1> SUFFICES ASSUME NEW r \in Busy' PROVE AnswerOK(requests'[r])
  BY DEF AnswersOK, AnswerOK, GivesForm, GivesStatus, GivesSession, EndsSession, Accepts
<1>1. CASE r = s
  BY <1>1
<1>2. CASE r # s
  BY <1>2, SlotsAnswered DEF AnswersOK, SessionInv, RequestsOK
<1> QED  BY <1>1, <1>2

\* Any answer that brings no session.
LEMMA AnswerKeepsRequests ==
    ASSUME SessionInv, TypeOK', NEW s \in Busy, NEW a \in Answer, Answered(s, a),
           UNCHANGED <<session, tabs, ended, serverVars, shared>>,
           a.session \in {Keep, None}, AnswerOK(requests'[s]), LateOK(requests'[s])
    PROVE  RequestsOK'
<1> USE DEF SessionInv, RequestsOK
<1>1. /\ Busy' = Busy /\ \A r \in Busy : r # s => requests'[r] = requests[r]
      /\ requests'[s].answer = a /\ requests'[s].session = requests[s].session
  BY SlotsAnswered
<1>2. AnswersOK'
  BY AnswersKept
<1>3. IssuedOK'
  <2>1. \A r \in Busy : requests'[r].session <= issued /\ requests'[r].answer.session <= issued
    BY <1>1, Numbers DEF IssuedOK, TypeOK
  <2> QED  BY <1>1, <2>1 DEF IssuedOK, PagesShown, serverVars
<1>4. \A r \in Busy, v \in Sessions : Brings(r, v)' => r # s /\ Brings(r, v)
  BY <1>1, Numbers DEF Brings
<1>5. CarriedOK'
  <2>1. \A v : v \in Carried' => v \in Carried
    <3> SUFFICES ASSUME NEW v \in Carried' PROVE v \in Carried
      OBVIOUS
    <3>1. v > expired /\ (v = session \/ \E r \in Busy : v = requests'[r].answer.session)
      BY <1>1 DEF Carried, serverVars
    <3>2. CASE v = session
      BY <3>1, <3>2 DEF Carried
    <3>3. ASSUME NEW r \in Busy, v = requests'[r].answer.session PROVE v \in Carried
      <4>1. r # s
        BY <3>1, <3>3, <1>1, Numbers DEF TypeOK
      <4> QED  BY <3>1, <3>3, <4>1, <1>1 DEF Carried
    <3> QED  BY <3>1, <3>2, <3>3
  <2> QED  BY <2>1 DEF CarriedOK, serverVars
<1>6. NewOK'
  <2> SUFFICES ASSUME NEW r \in Busy, NEW v \in Sessions, Brings(r, v)'
               PROVE  /\ v > expired
                      /\ \/ v \in shared
                         \/ /\ v # session /\ v \notin ended
                            /\ \A t \in Busy : /\ requests'[t].session # v
                                               /\ t # r => ~Brings(t, v)'
    BY <1>1 DEF NewOK, serverVars
  <2>1. Brings(r, v)  BY <1>4
  <2>2. /\ v > expired
        /\ \/ v \in shared
           \/ /\ v # session /\ v \notin ended
              /\ \A t \in Busy : requests[t].session # v /\ (t # r => ~Brings(t, v))
    BY <2>1 DEF NewOK
  <2>3. \A t \in Busy : requests'[t].session = requests[t].session
    BY <1>1
  <2> QED  BY <2>2, <2>3, <1>4
<1>7. SentOK'
  BY <1>1 DEF SentOK, Live, serverVars
<1>8. SessionOK'
  BY DEF SessionOK, serverVars
<1>9. LatesOK'
  <2> SUFFICES ASSUME NEW r \in Busy PROVE LateOK(requests[r])'
    BY <1>1 DEF LatesOK
  <2>1. CASE r = s  BY <2>1 DEF LateOK, serverVars
  <2>2. CASE r # s  BY <2>2, <1>1 DEF LatesOK, LateOK, serverVars
  <2> QED  BY <2>1, <2>2
<1> QED  BY <1>2, <1>3, <1>5, <1>6, <1>7, <1>8, <1>9

\* Only the requests of a page are said to be late.
LEMMA NotOfPage ==
    ASSUME SessionInv, NEW s \in Busy, requests[s].kind \notin {"logout", "post", "read"}
    PROVE  requests[s].late = None
BY DEF SessionInv, RequestsOK, LatesOK, LateOK

LEMMA NewSession ==
    ASSUME NEW v \in Tokens \cup 0..MaxSessions, v \in -1..MaxSessions, NEW a,
           a = [Refused EXCEPT !.ok = TRUE, !.authenticated = TRUE, !.token = v,
                               !.session = v, !.login = None]
    PROVE  /\ a \in Answer /\ a.ok /\ a.authenticated /\ a.token = v /\ a.session = v
           /\ a.login = None
BY DEF Refused, Answer

\* A login makes a session: a new one, or the same for two.
LEMMA StartKeepsRequests ==
    ASSUME SessionInv, TypeOK', NEW s \in Busy, requests[s].step = "sent",
           requests[s].kind = "login", ~IsAuthenticated(requests[s]), StartSession(s),
           UNCHANGED <<session, tabs, ended>>
    PROVE  RequestsOK' /\ expired' = expired /\ shared \subseteq shared'
<1> USE DEF SessionInv, RequestsOK
<1>1. PICK v \in Sessions \cap {issued, issued + 1} :
        LET others == Carried \ {v, requests[s].session}
        IN /\ v > expired
           /\ issued' = v
           /\ Answered(s, [Refused EXCEPT !.ok = TRUE, !.authenticated = TRUE, !.token = v,
                                          !.session = v, !.login = None])
           /\ shared' = shared \cup (IF v = issued \/ others # {} THEN {v} \cup others
                                                                  ELSE {})
           /\ UNCHANGED expired
  BY DEF StartSession
<1> DEFINE a == [Refused EXCEPT !.ok = TRUE, !.authenticated = TRUE, !.token = v,
                                !.session = v, !.login = None]
<1>2. /\ a \in Answer /\ a.ok /\ a.authenticated /\ a.token = v /\ a.session = v
      /\ a.login = None
  <2>1. v \in Tokens \cup 0..MaxSessions /\ v \in -1..MaxSessions
    BY SessionAssumption DEF Sessions
  <2> QED  BY <2>1, NewSession
<1>3. Answered(s, a)
  BY <1>1
<1> HIDE DEF a
<1>4. /\ Busy' = Busy /\ \A r \in Busy : r # s => requests'[r] = requests[r]
      /\ requests'[s].answer = a /\ requests'[s].session = requests[s].session
      /\ requests'[s].kind = "login" /\ requests'[s].step = "answered"
  BY <1>2, <1>3, SlotsAnswered
<1>5. /\ v \in Int /\ issued \in Int /\ expired \in Int /\ session \in Int /\ issued <= v
      /\ v # Keep /\ v # None /\ v > expired
      /\ \A r \in Busy : requests[r].session \in 0..MaxSessions
      /\ requests[s].session <= expired
  <2>1. \A r \in Busy : requests[r] \in Request
    BY BusyTyped DEF Busy
  <2>2. \A r \in Busy : requests[r].session \in 0..MaxSessions
    BY <2>1 DEF Request
  <2> QED  BY <1>1, <2>2, Numbers DEF TypeOK, IsAuthenticated
<1>6. requests[s].answer = Refused
  BY DEF AnswersOK, AnswerOK
<1>7. expired' = expired /\ shared \subseteq shared'
  BY <1>1
<1>8. AnswersOK'
  <2>1. AnswerOK(requests'[s])
    BY <1>1, <1>2, <1>4 DEF AnswerOK, GivesSession
  <2> QED  BY <1>2, <1>3, <2>1, AnswersKept
<1>9. \A u : u \in Carried => u <= issued /\ u > expired /\ u # requests[s].session
  <2> SUFFICES ASSUME NEW u \in Carried
               PROVE  u <= issued /\ u > expired /\ u # requests[s].session
    OBVIOUS
  <2>1. u \in Int /\ u > expired /\ u <= issued
    <3>1. u > expired /\ (u = session \/ \E r \in Busy : u = requests[r].answer.session)
      BY DEF Carried
    <3>2. \A r \in Busy : requests[r].answer.session \in -1..MaxSessions
      <4>1. \A r \in Busy : requests[r] \in Request  BY BusyTyped DEF Busy
      <4> QED  BY <4>1 DEF Request, Answer
    <3> QED  BY <3>1, <3>2, <1>5, Numbers DEF IssuedOK
  <2> QED  BY <2>1, <1>5
<1>10. \A u : u \in Carried' => u = v \/ u \in Carried
  <2> SUFFICES ASSUME NEW u \in Carried', u # v PROVE u \in Carried
    OBVIOUS
  <2>1. u > expired /\ (u = session \/ \E r \in Busy : u = requests'[r].answer.session)
    BY <1>4, <1>7 DEF Carried
  <2> QED  BY <2>1, <1>2, <1>4 DEF Carried
<1>11. \A u \in Carried : u # v => u \in shared' /\ v \in shared'
  BY <1>1, <1>9
<1>12. v = issued => v \in shared'
  BY <1>1
<1>13. v # issued => v = issued + 1
  BY <1>1
<1>14. \A u : u \in shared' => u <= issued'
  <2>1. \A u : u \in shared' => u \in shared \/ u = v \/ u \in Carried
    BY <1>1
  <2> QED  BY <1>1, <1>5, <1>9, <2>1, Numbers DEF IssuedOK, TypeOK
<1>15. IssuedOK'
  <2>1. \A x \in Tabs : PagesShown(x) => tabs[x].token \in Int
    BY Numbers DEF TypeOK
  <2>2. \A r \in Busy : requests'[r].session <= issued' /\ requests'[r].answer.session <= issued'
    <3> SUFFICES ASSUME NEW r \in Busy
                 PROVE  requests'[r].session <= issued' /\ requests'[r].answer.session <= issued'
      OBVIOUS
    <3>1. requests[r].session \in Int /\ requests[r].answer.session \in Int
      <4>1. requests[r] \in Request  BY BusyTyped DEF Busy
      <4> QED  BY <4>1 DEF Request, Answer
    <3>2. requests[r].session <= issued /\ requests[r].answer.session <= issued
      BY DEF IssuedOK
    <3> QED  BY <3>1, <3>2, <1>1, <1>2, <1>4, <1>5
  <2>3. \A u \in ended : u \in Int /\ u <= issued
    BY Numbers DEF TypeOK, IssuedOK
  <2>4. \A x \in Tabs : PagesShown(x)' => tabs'[x].token <= issued'
    BY <1>1, <1>5, <2>1 DEF IssuedOK, PagesShown
  <2>5. session' <= issued'
    BY <1>1, <1>5 DEF IssuedOK
  <2> QED  BY <1>1, <1>4, <1>5, <1>14, <2>2, <2>3, <2>4, <2>5 DEF IssuedOK
<1>16. CarriedOK'
  <2>1. ASSUME NEW u \in Carried', NEW w \in Carried', u # w
        PROVE  u \in shared' /\ w \in shared'
    BY <2>1, <1>7, <1>10, <1>11 DEF CarriedOK
  <2>2. ASSUME NEW w \in Sessions, NEW u \in Carried', w <= issued', w \notin shared'
        PROVE  u >= w
    <3>1. CASE u = v
      BY <2>2, <3>1, <1>1, <1>5, Numbers
    <3>2. CASE u # v
      <4>1. u \in Carried /\ w # v /\ w \notin shared
        BY <2>2, <3>2, <1>7, <1>10, <1>11
      <4>2. w <= issued
        BY <2>2, <4>1, <1>1, <1>5, <1>13, Numbers
      <4> QED  BY <4>1, <4>2 DEF CarriedOK
    <3> QED  BY <3>1, <3>2
  <2> QED  BY <2>1, <2>2 DEF CarriedOK
<1>17. NewOK'
  <2> SUFFICES ASSUME NEW r \in Busy, NEW w \in Sessions, Brings(r, w)'
               PROVE  /\ w > expired
                      /\ \/ w \in shared'
                         \/ /\ w # session /\ w \notin ended
                            /\ \A t \in Busy : /\ requests'[t].session # w
                                               /\ t # r => ~Brings(t, w)'
    BY <1>4, <1>7 DEF NewOK
  <2>1. \A t \in Busy : requests'[t].session = requests[t].session
    BY <1>4
  <2>2. \A t \in Busy : t # s => (Brings(t, w)' <=> Brings(t, w))
    BY <1>4 DEF Brings
  <2>3. Brings(s, w)' <=> w = v
    BY <1>2, <1>4 DEF Brings
  <2>4. \A t \in Busy : Brings(t, w) => w > expired /\ w <= issued
    <3>1. \A t \in Busy : Brings(t, w) => w > expired
      BY DEF NewOK
    <3> QED  BY <3>1 DEF Brings, IssuedOK
  <2>5. CASE r = s
    <3>1. w = v  BY <2>3, <2>5
    <3>2. CASE v = issued
      BY <1>5, <1>12, <3>1, <3>2
    <3>3. CASE v = issued + 1
      <4>1. w # session /\ w \notin ended
        BY <3>1, <3>3, <1>5 DEF IssuedOK
      <4>2. \A t \in Busy : requests[t].session # w /\ ~Brings(t, w)
        BY <3>1, <3>3, <1>5, <2>4 DEF IssuedOK
      <4> QED  BY <4>1, <4>2, <2>1, <2>2, <2>5, <3>1, <1>5
    <3> QED  BY <1>13, <3>2, <3>3
  <2>6. CASE r # s
    <3>1. Brings(r, w)  BY <2>2, <2>6
    <3>2. /\ w > expired
          /\ \/ w \in shared
             \/ /\ w # session /\ w \notin ended
                /\ \A t \in Busy : requests[t].session # w /\ (t # r => ~Brings(t, w))
      BY <3>1 DEF NewOK
    <3>3. CASE w = v
      <4>1. v = issued  BY <3>1, <3>3, <2>4, <1>5, <1>13
      <4> QED  BY <3>2, <3>3, <4>1, <1>12
    <3>4. CASE w # v
      BY <3>2, <3>4, <1>7, <2>1, <2>2, <2>3
    <3> QED  BY <3>3, <3>4
  <2> QED  BY <2>5, <2>6
<1>18. SentOK'
  <2> SUFFICES ASSUME NEW r \in Busy, requests'[r].session # None, Live(requests[r].session)'
               PROVE  session = requests'[r].session
    BY <1>4 DEF SentOK
  <2>1. requests'[r].session = requests[r].session
    BY <1>4
  <2>2. Live(requests[r].session)
    BY <2>1, <1>5, <1>7, LiveBefore
  <2> QED  BY <2>1, <2>2 DEF SentOK
<1>19. SessionOK'
  BY <1>7 DEF SessionOK
<1>20. LatesOK'
  <2> SUFFICES ASSUME NEW r \in Busy PROVE LateOK(requests[r])'
    BY <1>4 DEF LatesOK
  <2>1. CASE r = s
    <3>1. requests'[s].late = None
      BY <1>2, <1>3, SlotsAnswered, NotOfPage
    <3> QED  BY <2>1, <3>1 DEF LateOK
  <2>2. CASE r # s
    <3>1. LateOK(requests[r]) /\ requests'[r] = requests[r]
      BY <2>2, <1>4 DEF LatesOK
    <3> QED  BY <3>1, <1>7 DEF LateOK
  <2> QED  BY <2>1, <2>2
<1> QED  BY <1>7, <1>8, <1>15, <1>16, <1>17, <1>18, <1>19, <1>20

\* The answers that the server makes.
LEMMA Ranges ==
    /\ None \in 0..MaxSessions /\ None \in -1..MaxSessions /\ Keep \in -1..MaxSessions
    /\ Sessions \subseteq 0..MaxSessions /\ Sessions \subseteq -1..MaxSessions
BY SessionAssumption DEF None, Keep, Sessions

LEMMA StatusAnswer ==
    ASSUME NEW q, q.session \in Sessions
    PROVE  LET a == Status(q)
           IN /\ a \in Answer /\ a.ok /\ a.authenticated /\ a.token = q.session
              /\ a.session = Keep /\ a.login = Keep
<1>1. ASSUME NEW a, a = [Refused EXCEPT !.ok = TRUE, !.authenticated = TRUE,
                                        !.token = q.session]
      PROVE  /\ a \in Answer /\ a.ok /\ a.authenticated /\ a.token = q.session
             /\ a.session = Keep /\ a.login = Keep
  BY <1>1, Ranges DEF Refused, Answer
<1> QED  BY <1>1 DEF Status

LEMMA FormAnswer ==
    ASSUME NEW t \in Tokens, NEW a,
           a = [Refused EXCEPT !.ok = TRUE, !.token = t, !.login = t]
    PROVE  /\ a \in Answer /\ a.ok /\ ~a.authenticated /\ a.token = t
           /\ a.session = Keep /\ a.login = t
BY Ranges DEF Refused, Answer

LEMMA AcceptedAnswer ==
    ASSUME NEW v \in {None, Keep}
    PROVE  LET a == Accepted(v)
           IN /\ a \in Answer /\ a.ok /\ ~a.authenticated /\ a.token = None
              /\ a.session = v /\ a.login = Keep
BY Ranges DEF Accepted, Refused, Answer

\* Any answer that brings no session, whatever made it.
LEMMA AnswerKeepsInv ==
    ASSUME SessionInv, NEW s \in Busy, NEW a \in Answer, Answered(s, a),
           UNCHANGED <<session, loginCSRF, tabs, ended, writer, serverVars, shared>>,
           a.session \in {Keep, None}, AnswerOK(requests'[s]), LateOK(requests'[s])
    PROVE  SessionInv'
<1>1. TypeOK'
  BY AnswerKeepsType, Numbers DEF SessionInv, serverVars, TypeOK
<1>2. RequestsOK'
  BY <1>1, AnswerKeepsRequests DEF serverVars
<1>3. TabsOK'
  BY <1>1, TabsAsTheyWere, Numbers DEF SessionInv, TypeOK, serverVars
<1> QED  BY <1>1, <1>2, <1>3 DEF SessionInv

\* What a busy request's session is when the server knows it.
LEMMA KnownSession ==
    ASSUME TypeOK, NEW s \in Busy, IsAuthenticated(requests[s])
    PROVE  requests[s].session \in Sessions /\ requests[s].session > expired
BY BusyTyped, RequestTyped, Numbers DEF Busy, IsAuthenticated

LEMMA FailsKeepsInv ==
    ASSUME SessionInv, NEW s \in Busy, Fails(s),
           UNCHANGED <<session, loginCSRF, tabs, ended, writer>>
    PROVE  SessionInv'
<1>1. requests'[s].answer = Refused
  BY RefusedTyped, SlotsAnswered DEF Fails
<1>2. AnswerOK(requests'[s])
  BY <1>1 DEF AnswerOK
<1>3. LateOK(requests'[s])
  BY SlotsAnswered, RefusedTyped, <1>1 DEF Fails, SessionInv, RequestsOK, LatesOK, LateOK
<1> QED  BY <1>2, <1>3, RefusedTyped, AnswerKeepsInv DEF Fails

LEMMA StatusKeepsInv ==
    ASSUME SessionInv, NEW s \in Busy, IsAuthenticated(requests[s]),
           requests[s].kind \in {"status", "statusAfterLogout", "login"},
           Answered(s, Status(requests[s])),
           UNCHANGED <<session, loginCSRF, tabs, ended, writer, serverVars, shared>>
    PROVE  SessionInv'
<1> DEFINE a == Status(requests[s])
<1>1. requests[s].session \in Sessions
  BY KnownSession DEF SessionInv
<1>2. /\ a \in Answer /\ a.ok /\ a.authenticated /\ a.token = requests[s].session
      /\ a.session = Keep /\ a.login = Keep /\ Answered(s, a)
  BY <1>1, StatusAnswer
<1> HIDE DEF a
<1>3. AnswerOK(requests'[s]) /\ LateOK(requests'[s])
  <2>1. requests'[s].late = None
    BY <1>2, SlotsAnswered, NotOfPage
  <2> QED  BY <1>1, <1>2, <2>1, SlotsAnswered DEF AnswerOK, GivesStatus, LateOK
<1> QED  BY <1>2, <1>3, AnswerKeepsInv

LEMMA AuthStatusKeepsInv ==
    ASSUME SessionInv, NEW s \in Busy, requests[s].step = "sent", AuthStatus(s),
           UNCHANGED <<session, loginCSRF, tabs, ended, writer>>
    PROVE  SessionInv'
<1>1. requests[s].kind \in {"status", "statusAfterLogout"}
      /\ UNCHANGED <<serverVars, shared>>
  BY DEF AuthStatus
<1>2. CASE IsAuthenticated(requests[s]) /\ Answered(s, Status(requests[s]))
  BY <1>1, <1>2, StatusKeepsInv
<1>3. ASSUME NEW t \in Tokens,
             Answered(s, [Refused EXCEPT !.ok = TRUE, !.token = t, !.login = t])
      PROVE  SessionInv'
  <2> DEFINE a == [Refused EXCEPT !.ok = TRUE, !.token = t, !.login = t]
  <2>1. /\ a \in Answer /\ a.ok /\ ~a.authenticated /\ a.token = t
        /\ a.session = Keep /\ a.login = t
    BY FormAnswer
  <2>2. Answered(s, a)  BY <1>3
  <2> HIDE DEF a
  <2>3. AnswerOK(requests'[s]) /\ LateOK(requests'[s])
    <3>1. requests'[s].late = None
      BY <1>1, <2>1, <2>2, SlotsAnswered, NotOfPage
    <3> QED  BY <1>1, <2>1, <2>2, <3>1, SlotsAnswered DEF AnswerOK, GivesForm, LateOK
  <2> QED  BY <1>1, <2>1, <2>2, <2>3, AnswerKeepsInv
<1>4. Fresh \subseteq Tokens
  BY DEF Fresh
<1> QED  BY <1>2, <1>3, <1>4 DEF AuthStatus

LEMMA LoginKeepsInv ==
    ASSUME SessionInv, NEW s \in Busy, requests[s].step = "sent", Login(s),
           UNCHANGED <<session, loginCSRF, tabs, ended, writer>>
    PROVE  SessionInv'
<1>1. requests[s].kind = "login"
  BY DEF Login
<1>2. CASE /\ IsAuthenticated(requests[s]) /\ Answered(s, Status(requests[s]))
           /\ UNCHANGED <<serverVars, shared>>
  BY <1>1, <1>2, StatusKeepsInv
<1>3. CASE ~IsAuthenticated(requests[s]) /\ StartSession(s)
  <2>1. TypeOK'
    <3>1. PICK v \in Sessions \cap {issued, issued + 1} :
            /\ issued' = v
            /\ Answered(s, [Refused EXCEPT !.ok = TRUE, !.authenticated = TRUE, !.token = v,
                                           !.session = v, !.login = None])
            /\ \/ shared' = shared
               \/ shared' = shared \cup ({v} \cup (Carried \ {v, requests[s].session}))
            /\ UNCHANGED expired
      BY <1>3 DEF StartSession
    <3> DEFINE a == [Refused EXCEPT !.ok = TRUE, !.authenticated = TRUE, !.token = v,
                                    !.session = v, !.login = None]
    <3>2. a \in Answer
      <4>1. v \in Tokens \cup 0..MaxSessions /\ v \in -1..MaxSessions
        BY Numbers
      <4> QED  BY <4>1, NewSession
    <3>3. Answered(s, a)  BY <3>1
    <3> HIDE DEF a
    <3>4. Carried \subseteq Sessions
      <4> SUFFICES ASSUME NEW u \in Carried PROVE u \in Sessions
        OBVIOUS
      <4>1. u > expired /\ (u = session \/ \E r \in Busy : u = requests[r].answer.session)
        BY DEF Carried
      <4>2. \A r \in Busy : requests[r].answer.session \in -1..MaxSessions
        <5>1. \A r \in Busy : requests[r] \in Request
          BY BusyTyped DEF SessionInv, Busy
        <5> QED  BY <5>1 DEF Request, Answer
      <4> QED
        BY <4>1, <4>2, SessionAssumption DEF SessionInv, TypeOK, Sessions
    <3>5. shared' \subseteq Sessions /\ issued' \in 0..MaxSessions /\ issued <= issued'
      BY <3>1, <3>4, Numbers DEF SessionInv, TypeOK
    <3> QED  BY <3>1, <3>2, <3>3, <3>5, AnswerKeepsType
  <2>2. RequestsOK' /\ expired' = expired /\ shared \subseteq shared'
    BY <1>1, <1>3, <2>1, StartKeepsRequests
  <2>3. TabsOK'
    BY <2>1, <2>2, TabsAsTheyWere, SessionAssumption DEF SessionInv, TypeOK
  <2> QED  BY <2>1, <2>2, <2>3 DEF SessionInv
<1>4. CASE Answered(s, Refused) /\ UNCHANGED <<serverVars, shared>>
  BY <1>4, FailsKeepsInv DEF Fails
<1> QED  BY <1>2, <1>3, <1>4 DEF Login

\* A request that passes, with any answer that changes at most the session cookie.
LEMMA PassesKeepsInv ==
    ASSUME SessionInv, NEW s \in Busy, requests[s].step = "sent",
           IsAuthenticated(requests[s]),
           NEW v \in {None, Keep}, Answered(s, Accepted(v)),
           \/ requests[s].kind = "logout" /\ v = None
           \/ requests[s].kind \in {"post", "read"} /\ v = Keep,
           requests[s].kind # "read" => VerifySessionCSRF(requests[s]),
           UNCHANGED <<session, loginCSRF, tabs, ended, writer, serverVars, shared>>
    PROVE  SessionInv'
<1> DEFINE q == requests[s]
           a == Accepted(v)
<1>1. /\ Answered(s, a) /\ a \in Answer /\ a.ok /\ ~a.authenticated /\ a.token = None
      /\ a.session = v /\ a.login = Keep
  BY AcceptedAnswer
<1> HIDE DEF a
<1>2. AnswerOK(requests'[s])
  BY <1>1, SlotsAnswered DEF AnswerOK, EndsSession, Accepts
<1>3. LateOK(requests'[s])
  <2>1. LateOK(q)
    BY DEF SessionInv, RequestsOK, LatesOK
  <2>2. q.session \in Sessions /\ q.session > expired /\ expired \in Int
    BY KnownSession, SessionAssumption DEF SessionInv, TypeOK
  <2>3. q.late # None => q.session > q.late \/ q.late \in shared
    <3>1. q.late # None => q.session > q.late \/ q.late \in shared \/ q.session <= expired
      BY <2>1 DEF LateOK
    <3>2. q.session \in Int
      BY <2>2, SessionAssumption DEF Sessions
    <3>3. ~(q.session <= expired)
      <4> HIDE DEF q
      <4> QED  BY <2>2, <3>2
    <3> QED  BY <3>1, <3>3
  <2>4. q.kind # "read" /\ q.late # None => q.late \in shared
    <3>1. q.kind # "read" /\ q.late # None => q.session = q.late
      BY <2>1 DEF LateOK, VerifySessionCSRF
    <3>2. q.session \in Int
      BY <2>2, SessionAssumption DEF Sessions
    <3> HIDE DEF q
    <3> QED  BY <2>3, <3>1, <3>2
  <2>5. /\ requests'[s].kind = q.kind /\ requests'[s].late = q.late
        /\ requests'[s].session = q.session /\ requests'[s].step = "answered"
    BY <1>1, SlotsAnswered
  <2> QED  BY <2>1, <2>3, <2>4, <2>5 DEF LateOK
<1> QED  BY <1>1, <1>2, <1>3, AnswerKeepsInv

LEMMA ProtectedKeepsInv ==
    ASSUME SessionInv, NEW s \in Busy, requests[s].step = "sent", Protected(s),
           UNCHANGED <<session, loginCSRF, tabs, ended, writer>>
    PROVE  SessionInv'
<1> DEFINE q == requests[s]
<1>1. q.kind \in {"logout", "post"} /\ UNCHANGED <<serverVars, shared>>
  BY DEF Protected
<1>2. CASE ~(IsAuthenticated(q) /\ VerifySessionCSRF(q))
  BY <1>1, <1>2, FailsKeepsInv DEF Protected, RequireAuth, Fails
<1>3. CASE IsAuthenticated(q) /\ VerifySessionCSRF(q)
  <2> DEFINE v == IF q.kind = "logout" THEN None ELSE Keep
  <2>1. Answered(s, Accepted(v))
    BY <1>3 DEF Protected, RequireAuth
  <2>2. /\ v \in {None, Keep}
        /\ \/ q.kind = "logout" /\ v = None
           \/ q.kind \in {"post", "read"} /\ v = Keep
    BY <1>1
  <2> HIDE DEF v
  <2> QED  BY <1>1, <1>3, <2>1, <2>2, PassesKeepsInv
<1> QED  BY <1>2, <1>3

LEMMA ProtectedReadKeepsInv ==
    ASSUME SessionInv, NEW s \in Busy, requests[s].step = "sent", ProtectedRead(s),
           UNCHANGED <<session, loginCSRF, tabs, ended, writer>>
    PROVE  SessionInv'
<1>1. requests[s].kind = "read" /\ UNCHANGED <<serverVars, shared>>
  BY DEF ProtectedRead
<1>2. CASE ~IsAuthenticated(requests[s])
  BY <1>1, <1>2, FailsKeepsInv DEF ProtectedRead, RequireAuth, Fails
<1>3. CASE IsAuthenticated(requests[s])
  <2>1. Answered(s, Accepted(Keep))
    BY <1>3 DEF ProtectedRead, RequireAuth
  <2> QED  BY <1>1, <1>3, <2>1, PassesKeepsInv
<1> QED  BY <1>2, <1>3

LEMMA ServerKeepsInv ==
    ASSUME SessionInv, NEW s \in Slots, Serves(s) \/ Loses(s)
    PROVE  SessionInv'
<1>1. s \in Busy
  BY StepIsBusy DEF SessionInv, Serves, Loses
<1>2. CASE Serves(s)
  BY <1>1, <1>2, AuthStatusKeepsInv, LoginKeepsInv, ProtectedKeepsInv,
     ProtectedReadKeepsInv, FailsKeepsInv
  DEF Serves
<1>3. CASE Loses(s)
  BY <1>1, <1>3, FailsKeepsInv DEF Loses
<1> QED  BY <1>2, <1>3

-----------------------------------------------------------------------------
(* The steps of the user, and time. *)

\* A request that is sent leaves the others as they are.
LEMMA SendTyped ==
    ASSUME TypeOK, NEW s \in Slots \ Busy, NEW x \in Tabs, NEW good \in BOOLEAN,
           NEW kind \in {"login", "logout", "post", "read"}, Send(s, kind, x, good)
    PROVE  /\ requests' \in [Slots -> Request \cup {Idle}]
           /\ \A r \in Slots \ {s} : requests'[r] = requests[r]
           /\ LET q == requests'[s]
              IN /\ q \in Request /\ q.kind = kind /\ q.session = session
                 /\ q.answer = Refused
                 /\ q.late = IF kind \in {"logout", "post", "read"} /\ tabs[x].left
                             THEN tabs[x].token ELSE None
                 /\ kind \in {"logout", "post"} => q.token = tabs[x].token
<1> DEFINE q == Sent(kind, x, good, session, loginCSRF)
<1>1. /\ q \in Request /\ q.kind = kind /\ q.session = session
      /\ q.answer = Refused
      /\ q.late = IF kind \in {"logout", "post", "read"} /\ tabs[x].left
                  THEN tabs[x].token ELSE None
      /\ kind \in {"logout", "post"} => q.token = tabs[x].token
  BY SentTyped DEF TypeOK
<1>2. requests' = [requests EXCEPT ![s] = q]
  BY DEF Send
<1> HIDE DEF q
<1> QED  BY <1>1, <1>2 DEF TypeOK

\* A request of a tab that keeps what it shows.
LEMMA SendKeepsInv ==
    ASSUME SessionInv, NEW s \in Slots \ Busy, NEW x \in Tabs, NEW good \in BOOLEAN,
           NEW kind \in {"login", "logout", "post", "read"}, Send(s, kind, x, good),
           kind \in {"logout", "post", "read"} => PagesShown(x),
           UNCHANGED <<session, loginCSRF, serverVars, historyVars>>,
           \/ UNCHANGED tabs
           \/ tabs' = [tabs EXCEPT ![x].submitting = s]
    PROVE  SessionInv'
<1> USE DEF SessionInv
<1>1. /\ requests' \in [Slots -> Request \cup {Idle}]
      /\ \A r \in Slots \ {s} : requests'[r] = requests[r]
      /\ requests'[s] \in Request /\ requests'[s].kind = kind
      /\ requests'[s].session = session
      /\ requests'[s].answer = Refused
      /\ requests'[s].late = IF kind \in {"logout", "post", "read"} /\ tabs[x].left
                              THEN tabs[x].token ELSE None
      /\ kind \in {"logout", "post"} => requests'[s].token = tabs[x].token
  BY SendTyped
<1>2. /\ tabs' \in [Tabs -> Tab]
      /\ \A y \in Tabs : /\ tabs'[y].loading = tabs[y].loading
                         /\ tabs'[y].authenticated = tabs[y].authenticated
                         /\ tabs'[y].token = tabs[y].token /\ tabs'[y].left = tabs[y].left
  <2>1. CASE UNCHANGED tabs
    BY <2>1 DEF TypeOK
  <2>2. CASE tabs' = [tabs EXCEPT ![x].submitting = s]
    BY <2>2 DEF TypeOK, Tab
  <2> QED  BY <2>1, <2>2
<1>3. TypeOK'
  BY <1>1, <1>2 DEF TypeOK, PagesShown, serverVars, historyVars
<1>4. LateOK(requests'[s])
  <2>1. CASE kind \notin {"logout", "post", "read"} \/ ~tabs[x].left
    BY <1>1, <2>1 DEF LateOK
  <2>2. CASE kind \in {"logout", "post", "read"} /\ tabs[x].left
    <3> DEFINE v == tabs[x].token
    <3>1. ~Live(v) /\ v \in Sessions /\ v <= issued
      BY <2>2 DEF TabsOK, LeftOK, TypeOK, RequestsOK, IssuedOK
    <3>2. expired \in Int /\ session \in Int /\ v \in Int
      BY <3>1, SessionAssumption, Numbers DEF TypeOK
    <3>3. ASSUME session > expired, v \notin shared
          PROVE  session > v
      <4>1. session >= v
        BY <3>1, <3>3 DEF RequestsOK, CarriedOK, Carried
      <4>2. session # v
        BY <3>1, <3>3 DEF RequestsOK, SessionOK, Live
      <4> QED  BY <3>2, <4>1, <4>2
    <3>4. session > v \/ v \in shared \/ session <= expired
      BY <3>2, <3>3
    <3>5. ~requests'[s].answer.ok /\ requests'[s].late = v
      BY <1>1, <2>2, RefusedTyped
    <3> HIDE DEF v
    <3>6. kind \in {"logout", "post"} => requests'[s].token = v
      BY <1>1 DEF v
    <3> QED  BY <1>1, <2>2, <3>1, <3>4, <3>5, <3>6 DEF LateOK
  <2> QED  BY <2>1, <2>2
<1>5. \A r \in Slots \ {s} : (requests'[r] \in Request) = (requests[r] \in Request)
  BY <1>1
<1>6. \A r \in Busy : requests'[r] = requests[r]
  BY <1>1 DEF Busy
<1>7. RequestsOK'
  BY <1>1, <1>2, <1>3, <1>4, <1>5, <1>6, OneMore DEF serverVars, historyVars, PagesShown
<1>8. TabsOK'
  BY <1>2 DEF TabsOK, TabKeepsSession, LeftOK, LoginFormWorks, PagesShown, FormShown, Live,
              serverVars, historyVars
<1> QED  BY <1>3, <1>7, <1>8

LEMMA OpenKeepsInv ==
    ASSUME SessionInv, NEW x \in Tabs, Open(x)
    PROVE  SessionInv'
<1> USE DEF SessionInv
<1> DEFINE heard == [f \in Slots |->
                        IF requests[f].tab = x THEN [requests[f] EXCEPT !.tab = Nobody]
                                               ELSE requests[f]]
           q == Sent("status", x, FALSE, session, loginCSRF)
<1>1. PICK s \in Slots \ Busy :
        /\ tabs' = [tabs EXCEPT ![x] = NewTab]
        /\ requests' = [heard EXCEPT ![s] = q]
        /\ UNCHANGED <<session, loginCSRF, serverVars, historyVars>>
  BY DEF Open
<1>2. /\ q \in Request /\ q.kind = "status" /\ q.session = session /\ q.answer = Refused
      /\ q.late = None
  <2>1. ASSUME NEW kind \in {"status", "statusAfterLogout"}, NEW good \in BOOLEAN
        PROVE  LET r == Sent(kind, x, good, session, loginCSRF)
               IN /\ r \in Request /\ r.kind = kind /\ r.session = session
                  /\ r.answer = Refused /\ r.late = None
    <3> DEFINE r == Sent(kind, x, good, session, loginCSRF)
    <3>1. /\ kind \in {"status", "statusAfterLogout", "login", "logout", "post", "read"}
          /\ kind \notin {"logout", "post", "read"}
          /\ session \in 0..MaxSessions /\ loginCSRF \in Tokens \cup {None}
      BY DEF TypeOK
    <3>2. /\ r \in Request /\ r.kind = kind /\ r.session = session
          /\ r.answer = Refused
          /\ r.late = IF kind \in {"logout", "post", "read"} /\ tabs[x].left
                      THEN tabs[x].token ELSE None
      BY <3>1, SentTyped
    <3> HIDE DEF r
    <3>3. r.late = None
      BY <3>1, <3>2
    <3> QED  BY <3>2, <3>3 DEF r
  <2> QED  BY <2>1
<1>3. \A r \in Slots \ Busy : heard[r] = requests[r] /\ requests[r] = Idle
  BY SessionAssumption DEF Busy, Idle
<1>4. \A r \in Busy : LET p == heard[r]  old == requests[r]
                      IN /\ p \in Request
                         /\ p.kind = old.kind /\ p.step = old.step /\ p.token = old.token
                         /\ p.session = old.session /\ p.late = old.late
                         /\ p.answer = old.answer
  <2> SUFFICES ASSUME NEW r \in Busy
               PROVE  LET p == heard[r]  old == requests[r]
                      IN /\ p \in Request
                         /\ p.kind = old.kind /\ p.step = old.step /\ p.token = old.token
                         /\ p.session = old.session /\ p.late = old.late
                         /\ p.answer = old.answer
    OBVIOUS
  <2>1. r \in Slots /\ requests[r] \in Request
    BY BusyTyped DEF Busy
  <2>2. heard[r] = requests[r] \/ heard[r] = [requests[r] EXCEPT !.tab = Nobody]
    BY <2>1
  <2> HIDE DEF heard
  <2> QED  BY <2>1, <2>2 DEF Request
<1>5. heard \in [Slots -> Request \cup {Idle}]
  <2>1. \A r \in Slots : heard[r] \in Request \cup {Idle}
    BY <1>3, <1>4
  <2> QED  BY <2>1
<1> HIDE DEF heard, q
<1>6. /\ requests' \in [Slots -> Request \cup {Idle}] /\ requests'[s] = q
      /\ \A r \in Slots \ {s} : requests'[r] = heard[r]
  BY <1>1, <1>2, <1>5
<1>7. /\ NewTab \in Tab /\ NewTab.loading /\ ~NewTab.authenticated /\ NewTab.token = None
      /\ NewTab.left = FALSE
  BY Ranges DEF NewTab, Tab
<1>8. /\ tabs' \in [Tabs -> Tab] /\ tabs'[x] = NewTab
      /\ \A y \in Tabs \ {x} : tabs'[y] = tabs[y]
  BY <1>1, <1>7 DEF TypeOK
<1>9. TypeOK'
  BY <1>1, <1>6, <1>7, <1>8 DEF TypeOK, PagesShown, serverVars, historyVars
<1>10. \A y \in Tabs : PagesShown(y)' => PagesShown(y) /\ tabs'[y] = tabs[y]
  BY <1>7, <1>8 DEF PagesShown
<1>11. RequestsOK'
  <2>1. \A r \in Slots \ {s} : (requests'[r] \in Request) = (requests[r] \in Request)
    BY <1>3, <1>4, <1>6, BusyTyped
  <2>2. \A r \in Busy : requests'[r] = heard[r]
    BY <1>6 DEF Busy
  <2>3. LateOK(requests'[s])
    BY <1>2, <1>6 DEF LateOK
  <2> QED
    BY <1>1, <1>2, <1>4, <1>6, <1>9, <1>10, <2>1, <2>2, <2>3, OneMore
    DEF serverVars, historyVars
<1>12. TabsOK'
  <2>1. \A y \in Tabs : FormShown(y)' => FormShown(y) /\ tabs'[y] = tabs[y]
    BY <1>7, <1>8 DEF FormShown
  <2> QED
    BY <1>1, <1>10, <2>1
    DEF TabsOK, TabKeepsSession, LeftOK, LoginFormWorks, Live, serverVars, historyVars
<1> QED  BY <1>9, <1>11, <1>12

LEMMA UserKeepsInv ==
    ASSUME SessionInv, NEW x \in Tabs, Submit(x) \/ Logout(x) \/ Post(x) \/ Read(x)
    PROVE  SessionInv'
<1>1. CASE Submit(x)
  <2>1. PICK s \in Slots \ Busy, good \in BOOLEAN :
          Send(s, "login", x, good) /\ tabs' = [tabs EXCEPT ![x].submitting = s]
    BY <1>1 DEF Submit
  <2> QED  BY <1>1, <2>1, SendKeepsInv DEF Submit
<1>2. CASE Logout(x)
  BY <1>2, SendKeepsInv DEF Logout
<1>3. CASE Post(x)
  BY <1>3, SendKeepsInv DEF Post
<1>4. CASE Read(x)
  BY <1>4, SendKeepsInv DEF Read
<1> QED  BY <1>1, <1>2, <1>3, <1>4

\* A session that expires is good for nobody, and is not on its way.
LEMMA ExpireKeepsInv ==
    ASSUME SessionInv, Expire
    PROVE  SessionInv'
<1> USE DEF SessionInv, RequestsOK, Expire
<1>1. /\ expired \in Int /\ issued \in Int /\ issued \in 0..MaxSessions
      /\ expired >= 0 /\ expired' = expired + 1 /\ expired' <= issued
      /\ session \in Int
  BY SessionAssumption DEF TypeOK
<1>2. TypeOK'
  BY <1>1, SessionAssumption DEF TypeOK, PagesShown, historyVars
<1>3. Busy' = Busy
  BY DEF Busy
<1>4. AnswersOK'
  BY <1>3 DEF AnswersOK, AnswerOK, GivesForm, GivesStatus, GivesSession, EndsSession, Accepts
<1>5. IssuedOK'
  BY <1>3 DEF IssuedOK, PagesShown, historyVars
<1>6. \A r \in Busy : /\ requests[r].session \in 0..MaxSessions
                      /\ requests[r].answer.session \in -1..MaxSessions
  <2>1. \A r \in Busy : requests[r] \in Request
    BY BusyTyped DEF Busy
  <2> QED  BY <2>1 DEF Request, Answer
<1>7. CarriedOK'
  <2>1. \A u \in Carried' : u \in Carried
    BY <1>1, <1>3, <1>6 DEF Carried
  <2> QED  BY <2>1 DEF CarriedOK, historyVars
<1>8. NewOK'
  <2> SUFFICES ASSUME NEW r \in Busy, NEW v \in Sessions, Brings(r, v)
               PROVE  /\ v > expired'
                      /\ \/ v \in shared
                         \/ /\ v # session /\ v \notin ended
                            /\ \A t \in Busy : /\ requests[t].session # v
                                               /\ t # r => ~Brings(t, v)
    BY <1>3 DEF NewOK, Brings, historyVars
  <2>1. v > expired /\ v # expired'
    BY DEF NewOK, Brings
  <2> QED  BY <1>1, <2>1, Numbers DEF NewOK
<1>9. \A v \in 0..MaxSessions : Live(v)' => Live(v)
  BY <1>1, <1>2, LiveBefore DEF historyVars
<1>10. SentOK'
  BY <1>3, <1>6, <1>9 DEF SentOK
<1>11. SessionOK'
  BY <1>1 DEF SessionOK, historyVars
<1>12. LatesOK'
  <2> SUFFICES ASSUME NEW r \in Busy PROVE LateOK(requests[r])'
    BY <1>3 DEF LatesOK
  <2>1. LateOK(requests[r]) /\ requests[r].session \in Int
    BY <1>6 DEF LatesOK
  <2> QED  BY <1>1, <2>1 DEF LateOK, historyVars
<1>13. TabsOK'
  BY <1>1, <1>2, TabsAsTheyWere DEF historyVars
<1> QED  BY <1>2, <1>4, <1>5, <1>7, <1>8, <1>10, <1>11, <1>12, <1>13

\* A cookie that the browser drops was good for nothing any more.
LEMMA DropSessionKeepsInv ==
    ASSUME SessionInv, DropSession
    PROVE  SessionInv'
<1> USE DEF SessionInv, RequestsOK, DropSession
<1>1. /\ expired \in Int /\ issued \in Int /\ expired >= 0
      /\ session \in Int /\ session <= expired
  BY SessionAssumption DEF TypeOK
<1>2. TypeOK'
  BY Ranges DEF TypeOK, PagesShown, serverVars, historyVars
<1>3. Busy' = Busy
  BY DEF Busy
<1>4. AnswersOK'
  BY <1>3 DEF AnswersOK, AnswerOK, GivesForm, GivesStatus, GivesSession, EndsSession, Accepts
<1>5. IssuedOK'
  BY <1>1, <1>3, SessionAssumption DEF IssuedOK, TypeOK, PagesShown, serverVars, historyVars, None
<1>6. CarriedOK'
  <2>1. \A u \in Carried' : u \in Carried
    BY <1>1, <1>3, Numbers DEF Carried, serverVars
  <2> QED  BY <2>1 DEF CarriedOK, historyVars, serverVars
<1>7. NewOK'
  BY <1>3, Numbers DEF NewOK, Brings, serverVars, historyVars
<1>8. \A v \in Sessions : Live(v) => v # session
  BY <1>1, Numbers DEF Live
<1>9. SentOK'
  <2>1. \A r \in Busy : requests[r].session \in 0..MaxSessions
    <3>1. \A r \in Busy : requests[r] \in Request
      BY BusyTyped DEF Busy
    <3> QED  BY <3>1 DEF Request
  <2> QED  BY <1>3, <1>8, <2>1, Numbers DEF SentOK, Live, serverVars, historyVars
<1>10. SessionOK'
  BY <1>1, Numbers DEF SessionOK, serverVars
<1>11. LatesOK'
  BY <1>3 DEF LatesOK, LateOK, serverVars, historyVars
<1>12. TabsOK'
  <2>1. \A x \in Tabs : PagesShown(x) => tabs[x].token \in Sessions
    BY DEF TypeOK
  <2>2. TabKeepsSession'
    BY <1>8, <2>1 DEF TabsOK, TabKeepsSession, Live, PagesShown, serverVars, historyVars
  <2> QED
    BY <2>2 DEF TabsOK, LeftOK, LoginFormWorks, Live, PagesShown, FormShown, serverVars,
                historyVars
<1> QED  BY <1>2, <1>4, <1>5, <1>6, <1>7, <1>9, <1>10, <1>11, <1>12

LEMMA DropLoginKeepsInv ==
    ASSUME SessionInv, DropLogin
    PROVE  SessionInv'
<1> USE DEF SessionInv, DropLogin
<1>1. TypeOK'
  BY DEF TypeOK, PagesShown, serverVars
<1>2. RequestsOK'
  BY DEF RequestsOK, AnswersOK, AnswerOK, GivesForm, GivesStatus, GivesSession, EndsSession,
         Accepts, IssuedOK, CarriedOK, Carried, NewOK, Brings, SentOK, SessionOK, LatesOK,
         LateOK, Live, Busy, PagesShown, serverVars
<1>3. TabsOK'
  BY SessionAssumption
  DEF TabsOK, TabKeepsSession, LeftOK, LoginFormWorks, Live, PagesShown, FormShown, serverVars
<1> QED  BY <1>1, <1>2, <1>3

-----------------------------------------------------------------------------
(* An answer arrives. *)

\* What the answer of a busy request is made of.
LEMMA AnswerParts ==
    ASSUME SessionInv, NEW s \in Busy
    PROVE  LET a == requests[s].answer
           IN /\ AnswerOK(requests[s]) /\ requests[s].session \in 0..MaxSessions
              /\ requests[s].tab \in Tabs \cup {Nobody}
              /\ a.ok \in BOOLEAN /\ a.authenticated \in BOOLEAN
              /\ a.token \in Tokens \cup 0..MaxSessions
              /\ a.session \in -1..MaxSessions /\ a.login \in Tokens \cup {None, Keep}
<1>1. requests[s] \in Request /\ AnswerOK(requests[s])
  BY BusyTyped DEF SessionInv, Busy, RequestsOK, AnswersOK
<1>2. requests[s].answer \in Answer
  BY <1>1, RequestTyped
<1> QED  BY <1>1, <1>2, RequestTyped, AnswerTyped

\* The session in the browser is there until it is good no more.
LEMMA SessionStays ==
    ASSUME SessionInv, NEW s \in Busy, Cookies(requests[s])
    PROVE  /\ session' \in 0..MaxSessions /\ session' <= issued
           /\ loginCSRF' \in Tokens \cup {None} /\ writer' \in Tabs \cup {Nobody}
           /\ ended' \subseteq Sessions /\ ended \subseteq ended'
           /\ \A v \in ended' : v <= issued
           /\ \A v \in Sessions : v = session /\ Live(v)' => session' = v
<1> USE DEF SessionInv, RequestsOK
<1> DEFINE q == requests[s]
           a == q.answer
<1>1. /\ a.session \in -1..MaxSessions /\ a.login \in Tokens \cup {None, Keep}
      /\ q.session \in 0..MaxSessions /\ q.tab \in Tabs \cup {Nobody}
  BY AnswerParts
<1>2. /\ session \in 0..MaxSessions /\ expired \in Int /\ issued \in Int
      /\ q.session <= issued /\ a.session <= issued /\ session <= issued
  BY SessionAssumption DEF TypeOK, IssuedOK
<1>3. session' \in 0..MaxSessions /\ session' <= issued
  BY <1>1, <1>2, SessionAssumption DEF Cookies, Keep
<1>4. loginCSRF' \in Tokens \cup {None} /\ writer' \in Tabs \cup {Nobody}
  BY <1>1 DEF Cookies, TypeOK
<1>5. /\ ended' \subseteq Sessions /\ ended \subseteq ended'
      /\ \A v \in ended' : v <= issued
  <2>1. ended' \subseteq ended \cup ({session, q.session} \ {None}) /\ ended \subseteq ended'
    BY DEF Cookies
  <2>2. session # None => session \in Sessions
    BY <1>2, Numbers
  <2>3. q.session # None => q.session \in Sessions
    BY <1>1, Numbers
  <2>4. ended \subseteq Sessions /\ \A v \in ended : v <= issued
    BY DEF TypeOK, IssuedOK
  <2>5. \A v \in ended' : v \in ended \/ (v = session /\ v # None) \/ (v = q.session /\ v # None)
    BY <2>1
  <2> HIDE DEF q
  <2> QED  BY <2>1, <2>2, <2>3, <2>4, <2>5, <1>2
<1>6. ASSUME NEW v \in Sessions, v = session, Live(v)' PROVE session' = v
  <2>1. v \notin ended' /\ v > expired /\ v \notin shared /\ v # None
    BY <1>6, Numbers DEF Live, Cookies, serverVars
  <2>2. CASE a.session = Keep
    BY <1>6, <2>2 DEF Cookies
  <2>3. CASE a.session = None
    BY <1>6, <2>1, <2>3 DEF Cookies
  <2>4. CASE a.session \in Sessions /\ a.session # v
    <3>1. a.session > expired
      BY <2>4 DEF NewOK, Brings
    <3>2. v \in Carried /\ a.session \in Carried
      BY <1>6, <2>1, <3>1 DEF Carried
    <3> QED  BY <2>1, <2>4, <3>2 DEF CarriedOK
  <2>5. CASE a.session \in Sessions /\ a.session = v
    BY <2>5, Numbers DEF Cookies
  <2>6. a.session = Keep \/ a.session \in Sessions \/ a.session = None
    BY <1>1, SessionAssumption DEF Keep, None, Sessions
  <2> QED  BY <2>2, <2>3, <2>4, <2>5, <2>6
<1> QED  BY <1>3, <1>4, <1>5, <1>6

\* The requests after an answer has arrived; one of them may be new.
LEMMA ArrivalKeepsRequests ==
    ASSUME SessionInv, TypeOK', NEW s \in Busy, Cookies(requests[s]),
           \A r \in Slots \ {s} : requests'[r] = requests[r],
           \/ requests'[s] = Idle
           \/ /\ requests'[s] \in Request /\ requests'[s].answer = Refused
              /\ requests'[s].session = session' /\ requests'[s].late = None,
           \A x \in Tabs : PagesShown(x)' => tabs'[x].token <= issued
    PROVE  RequestsOK'
<1> USE DEF SessionInv, RequestsOK
<1> DEFINE q == requests[s]
           a == q.answer
<1>1. /\ Busy' \subseteq Slots /\ Busy \subseteq Slots
      /\ \A r \in Busy' : \/ /\ r # s /\ r \in Busy /\ requests'[r] = requests[r]
                          \/ /\ r = s /\ requests'[s] \in Request
                             /\ requests'[s].answer = Refused
                             /\ requests'[s].session = session' /\ requests'[s].late = None
  <2>1. Busy' \subseteq Slots /\ Busy \subseteq Slots
    BY DEF Busy
  <2>2. \A r \in Busy' : requests'[r] # Idle
    BY DEF Busy
  <2>3. \A r \in Slots : r # s /\ requests'[r] # Idle => r \in Busy
    BY DEF Busy
  <2> QED  BY <2>1, <2>2, <2>3
<1>2. /\ a.session \in -1..MaxSessions /\ q.session \in 0..MaxSessions
      /\ a.session = Keep \/ a.session = None \/ a.session \in Sessions
  BY AnswerParts, SessionAssumption DEF Keep, None, Sessions
<1>3. /\ session' \in 0..MaxSessions /\ session' <= issued
      /\ ended' \subseteq Sessions /\ ended \subseteq ended'
      /\ \A v \in ended' : v <= issued
      /\ \A v \in Sessions : v = session /\ Live(v)' => session' = v
  BY SessionStays
<1>4. /\ issued' = issued /\ expired' = expired /\ shared' = shared
      /\ session \in 0..MaxSessions /\ expired \in Int /\ issued \in Int /\ expired >= 0
  BY SessionAssumption DEF Cookies, serverVars, TypeOK
<1>5. session' = session \/ session' = None \/ (session' = a.session /\ a.session \in Sessions)
  BY <1>2 DEF Cookies
<1>6. ended' = ended \/ (session' = None /\ ended' \subseteq ended \cup {session, q.session})
  BY Numbers DEF Cookies
<1>7. AnswersOK'
  <2> SUFFICES ASSUME NEW r \in Busy' PROVE AnswerOK(requests'[r])
    BY DEF AnswersOK, AnswerOK, GivesForm, GivesStatus, GivesSession, EndsSession, Accepts
  <2> QED  BY <1>1 DEF AnswersOK, AnswerOK
<1>8. IssuedOK'
  <2>1. \A r \in Busy' : requests'[r].session <= issued /\ requests'[r].answer.session <= issued
    <3> SUFFICES ASSUME NEW r \in Busy'
                 PROVE  requests'[r].session <= issued /\ requests'[r].answer.session <= issued
      OBVIOUS
    <3>1. CASE r # s
      BY <3>1, <1>1 DEF IssuedOK
    <3>2. CASE r = s
      BY <3>2, <1>1, <1>3, RefusedTyped, SessionAssumption DEF Keep, TypeOK
    <3> QED  BY <3>1, <3>2
  <2> QED  BY <2>1, <1>3, <1>4 DEF IssuedOK
<1>9. \A r \in Busy', w \in Sessions : Brings(r, w)' => r # s /\ r \in Busy /\ Brings(r, w)
  BY <1>1, RefusedTyped, Numbers DEF Brings
<1>10. CarriedOK'
  <2>1. \A u : u \in Carried' => u \in Carried
    <3> SUFFICES ASSUME NEW u \in Carried' PROVE u \in Carried
      OBVIOUS
    <3>1. u > expired /\ (u = session' \/ \E r \in Busy' : u = requests'[r].answer.session)
      BY <1>4 DEF Carried
    <3>2. CASE u = session'
      <4>1. session' # None
        BY <3>1, <3>2, <1>4 DEF None
      <4> QED  BY <3>1, <3>2, <4>1, <1>5 DEF Carried
    <3>3. ASSUME NEW r \in Busy', u = requests'[r].answer.session PROVE u \in Carried
      <4>1. r # s
        BY <3>1, <3>3, <1>1, <1>4, RefusedTyped DEF Keep
      <4> QED  BY <3>1, <3>3, <4>1, <1>1 DEF Carried
    <3> QED  BY <3>1, <3>2, <3>3
  <2> QED  BY <2>1, <1>4 DEF CarriedOK
<1>11. NewOK'
  <2> SUFFICES ASSUME NEW r \in Busy', NEW w \in Sessions, Brings(r, w)'
               PROVE  /\ w > expired
                      /\ \/ w \in shared
                         \/ /\ w # session' /\ w \notin ended'
                            /\ \A t \in Busy' : /\ requests'[t].session # w
                                                /\ t # r => ~Brings(t, w)'
    BY <1>4 DEF NewOK
  <2>1. r # s /\ r \in Busy /\ Brings(r, w) /\ w # None
    BY <1>9, Numbers
  <2>2. /\ w > expired
        /\ \/ w \in shared
           \/ /\ w # session /\ w \notin ended
              /\ \A t \in Busy : requests[t].session # w /\ (t # r => ~Brings(t, w))
    BY <2>1 DEF NewOK
  <2>3. CASE w \notin shared
    <3>1. w # q.session /\ w # a.session
      BY <2>1, <2>2, <2>3 DEF Brings
    <3>2. w # session'
      BY <2>1, <2>2, <2>3, <3>1, <1>5
    <3>3. w \notin ended'
      BY <2>2, <2>3, <3>1, <1>6
    <3>4. \A t \in Busy' : requests'[t].session # w
      BY <2>2, <2>3, <3>2, <1>1
    <3>5. \A t \in Busy' : t # r => ~Brings(t, w)'
      BY <2>2, <2>3, <1>9
    <3> QED  BY <2>2, <3>2, <3>3, <3>4, <3>5
  <2> QED  BY <2>2, <2>3
<1>12. SentOK'
  <2> SUFFICES ASSUME NEW r \in Busy', requests'[r].session # None, Live(requests[r].session)'
               PROVE  session' = requests'[r].session
    BY DEF SentOK
  <2>1. CASE r = s
    BY <2>1, <1>1
  <2>2. CASE r # s
    <3> DEFINE v == requests[r].session
    <3>1. r \in Busy /\ requests'[r].session = v /\ v \in 0..MaxSessions /\ v # None
      BY <2>2, <1>1, AnswerParts
    <3>2. Live(v)'
      BY <3>1
    <3>3. Live(v)
      BY <3>1, <3>2, <1>3, <1>4, LiveBefore
    <3>4. session = v /\ v \in Sessions
      BY <3>1, <3>3, Numbers DEF SentOK
    <3> QED  BY <3>1, <3>2, <3>4, <1>3
  <2> QED  BY <2>1, <2>2
<1>13. SessionOK'
  <2> SUFFICES ASSUME session' > expired, session' \in ended' PROVE session' \in shared
    BY <1>4 DEF SessionOK
  <2>1. session' # None
    BY <1>4 DEF None
  <2>2. ended' = ended
    BY <2>1, <1>6
  <2>3. CASE session' = session
    BY <2>2, <2>3 DEF SessionOK
  <2>4. CASE session' = a.session /\ a.session \in Sessions
    BY <2>2, <2>4 DEF NewOK, Brings
  <2> QED  BY <2>1, <2>3, <2>4, <1>5
<1>14. LatesOK'
  <2> SUFFICES ASSUME NEW r \in Busy' PROVE LateOK(requests[r])'
    BY DEF LatesOK
  <2> QED  BY <1>1, <1>4 DEF LatesOK, LateOK
<1> QED  BY <1>7, <1>8, <1>10, <1>11, <1>12, <1>13, <1>14

\* The three properties of one tab.
TabOK(x) ==
    /\ PagesShown(x) /\ Live(tabs[x].token) => session = tabs[x].token
    /\ PagesShown(x) /\ tabs[x].left => ~Live(tabs[x].token)
    /\ FormShown(x) /\ tabs[x].token # None /\ writer = x => loginCSRF = tabs[x].token

LEMMA TabsAreOK == (\A x \in Tabs : TabOK(x)) <=> TabsOK
BY DEF TabOK, TabsOK, TabKeepsSession, LeftOK, LoginFormWorks, Live

\* A tab that shows what it showed before.
LEMMA SameTab ==
    ASSUME SessionInv, TypeOK', NEW s \in Busy, Cookies(requests[s]), NEW x \in Tabs,
           tabs'[x].loading = tabs[x].loading, tabs'[x].token = tabs[x].token,
           tabs'[x].authenticated = tabs[x].authenticated,
           tabs'[x].left => tabs[x].left \/ requests[s].answer.session = None,
           x # requests[s].tab \/ requests[s].answer.login = Keep
    PROVE  TabOK(x)'
<1> USE DEF SessionInv
<1> DEFINE t == tabs[x].token
<1>1. TabOK(x)
  BY TabsAreOK
<1>2. PagesShown(x) => t \in Sessions /\ t \in 0..MaxSessions
  BY Numbers DEF TypeOK
<1>3. PagesShown(x)' = PagesShown(x) /\ FormShown(x)' = FormShown(x)
  BY DEF PagesShown, FormShown
<1>4. ASSUME PagesShown(x), Live(t)' PROVE Live(t) /\ session = t /\ session' = t
  <2>1. Live(t)
    BY <1>2, <1>4, SessionStays, LiveBefore DEF Cookies, serverVars, TypeOK
  <2>2. session = t
    BY <1>1, <1>4, <2>1 DEF TabOK
  <2> QED  BY <1>2, <1>4, <2>1, <2>2, SessionStays
<1>5. ASSUME PagesShown(x), tabs'[x].left, Live(t)' PROVE FALSE
  <2>1. Live(t) /\ session = t /\ t # None
    BY <1>2, <1>4, <1>5, Numbers
  <2>2. ~tabs[x].left
    BY <1>1, <1>5, <2>1 DEF TabOK
  <2>3. session \in ended'
    BY <1>5, <2>1, <2>2 DEF Cookies
  <2> QED  BY <1>5, <2>1, <2>3 DEF Live
<1>6. writer' = x => writer = x /\ loginCSRF' = loginCSRF
  BY DEF Cookies
<1> QED  BY <1>1, <1>3, <1>4, <1>5, <1>6 DEF TabOK

\* A tab that gets a status, or learns after an error that there is none.
LEMMA StatusTab ==
    ASSUME SessionInv, TypeOK', NEW s \in Busy, Cookies(requests[s]), NEW x \in Tabs,
           requests[s].tab = x, ~tabs'[x].left,
           tabs'[x].authenticated = requests[s].answer.authenticated,
           tabs'[x].token = requests[s].answer.token
    PROVE  TabOK(x)'
<1> USE DEF SessionInv
<1> DEFINE q == requests[s]
           a == q.answer
<1>1. AnswerOK(q) /\ q.session \in 0..MaxSessions
  BY AnswerParts
<1>2. CASE a = Refused \/ EndsSession(q, a) \/ Accepts(q, a)
  BY <1>2, RefusedTyped DEF TabOK, PagesShown, EndsSession, Accepts
<1>3. CASE GivesForm(q, a)
  <2>1. a.login # Keep
    BY <1>3, Numbers DEF GivesForm
  <2> QED  BY <1>3, <2>1 DEF TabOK, PagesShown, GivesForm, Cookies
<1>4. CASE GivesStatus(q, a)
  <2>1. /\ a.authenticated /\ a.token = q.session /\ q.session \in Sessions
        /\ q.session # None /\ a.session = Keep
    BY <1>4, Numbers DEF GivesStatus
  <2>2. session' = session
    BY <2>1 DEF Cookies
  <2>3. PICK v \in 0..MaxSessions : v = q.session
    BY <1>1
  <2>4. Live(v)' => Live(v)
    BY SessionStays, LiveBefore, SessionAssumption DEF Cookies, serverVars, TypeOK
  <2>5. Live(v) => session = v
    BY <2>1, <2>3 DEF RequestsOK, SentOK
  <2>6. tabs'[x].authenticated /\ tabs'[x].token = v /\ ~tabs'[x].left
    BY <2>1, <2>3
  <2> HIDE DEF q
  <2> QED  BY <2>2, <2>4, <2>5, <2>6 DEF TabOK, PagesShown, FormShown
<1>5. CASE GivesSession(q, a)
  <2>1. session' = a.session
    BY <1>5, Numbers DEF Cookies, GivesSession
  <2> QED  BY <1>5, <2>1 DEF TabOK, PagesShown, FormShown, GivesSession
<1> QED  BY <1>1, <1>2, <1>3, <1>4, <1>5 DEF AnswerOK

\* The token that comes with a status is a session's if there is one.
LEMMA StatusToken ==
    ASSUME SessionInv, NEW s \in Busy
    PROVE  LET a == requests[s].answer
           IN /\ a.authenticated => a.token \in Sessions /\ a.token <= issued
              /\ ~a.authenticated => a.token \in Tokens \cup {None}
<1> DEFINE q == requests[s]
           a == q.answer
<1>1. AnswerOK(q) /\ a.session <= issued /\ q.session <= issued
  BY AnswerParts DEF SessionInv, RequestsOK, IssuedOK
<1>2. CASE a = Refused \/ EndsSession(q, a) \/ Accepts(q, a)
  BY <1>2, RefusedTyped DEF EndsSession, Accepts
<1>3. CASE GivesForm(q, a)
  BY <1>3 DEF GivesForm
<1>4. CASE GivesStatus(q, a)
  BY <1>1, <1>4 DEF GivesStatus
<1>5. CASE GivesSession(q, a)
  BY <1>1, <1>5 DEF GivesSession
<1> QED  BY <1>1, <1>2, <1>3, <1>4, <1>5 DEF AnswerOK

LEMMA WithStatusTyped ==
    ASSUME NEW tab \in Tab, NEW a, a.authenticated \in BOOLEAN,
           a.token \in Tokens \cup 0..MaxSessions
    PROVE  LET new == WithStatus(tab, a)
           IN /\ new \in Tab /\ ~new.left /\ new.authenticated = a.authenticated
              /\ new.token = a.token
BY DEF WithStatus, Tab

\* The tabs after an answer: at most the one that asked is changed.
LEMMA ArrivalKeepsType ==
    ASSUME SessionInv, NEW s \in Busy, Cookies(requests[s]),
           \A r \in Slots \ {s} : requests'[r] = requests[r],
           requests' \in [Slots -> Request \cup {Idle}],
           tabs' \in [Tabs -> Tab],
           \A x \in Tabs :
             \/ /\ tabs'[x].authenticated = tabs[x].authenticated
                /\ tabs'[x].token = tabs[x].token
             \/ /\ tabs'[x].authenticated = requests[s].answer.authenticated
                /\ tabs'[x].token = requests[s].answer.token
    PROVE  TypeOK' /\ \A x \in Tabs : PagesShown(x)' => tabs'[x].token <= issued
<1> USE DEF SessionInv
<1>1. /\ session' \in 0..MaxSessions /\ loginCSRF' \in Tokens \cup {None}
      /\ writer' \in Tabs \cup {Nobody} /\ ended' \subseteq Sessions
  BY SessionStays
<1>2. ASSUME NEW x \in Tabs
      PROVE  /\ PagesShown(x)' => tabs'[x].token \in Sessions /\ tabs'[x].token <= issued
             /\ ~PagesShown(x)' => tabs'[x].token \in Tokens \cup {None}
  <2>1. CASE /\ tabs'[x].authenticated = tabs[x].authenticated
             /\ tabs'[x].token = tabs[x].token
    BY <2>1 DEF TypeOK, PagesShown, RequestsOK, IssuedOK
  <2>2. CASE /\ tabs'[x].authenticated = requests[s].answer.authenticated
             /\ tabs'[x].token = requests[s].answer.token
    BY <2>2, StatusToken DEF PagesShown
  <2> QED  BY <2>1, <2>2
<1> QED  BY <1>1, <1>2 DEF TypeOK, Cookies, serverVars

\* An answer of which the tab takes the status.
LEMMA StatusArrives ==
    ASSUME SessionInv, NEW s \in Busy, Cookies(requests[s]), Done(s),
           NEW x \in Tabs, requests[s].tab = x,
           NEW tab \in Tab,
           tabs' = [tabs EXCEPT ![x] = WithStatus(tab, requests[s].answer)]
    PROVE  SessionInv'
<1> USE DEF SessionInv
<1> DEFINE a == requests[s].answer
           new == WithStatus(tab, a)
<1>1. /\ new \in Tab /\ ~new.left /\ new.authenticated = a.authenticated
      /\ new.token = a.token
  BY AnswerParts, WithStatusTyped
<1>2. tabs' = [tabs EXCEPT ![x] = new]
  OBVIOUS
<1> HIDE DEF new
<1>3. tabs' \in [Tabs -> Tab] /\ tabs'[x] = new /\ \A y \in Tabs \ {x} : tabs'[y] = tabs[y]
  BY <1>1, <1>2 DEF TypeOK
<1>4. /\ requests' \in [Slots -> Request \cup {Idle}] /\ requests'[s] = Idle
      /\ \A r \in Slots \ {s} : requests'[r] = requests[r]
  BY DEF Done, TypeOK, Busy
<1>5. TypeOK' /\ \A y \in Tabs : PagesShown(y)' => tabs'[y].token <= issued
  BY <1>1, <1>3, <1>4, ArrivalKeepsType
<1>6. RequestsOK'
  BY <1>4, <1>5, ArrivalKeepsRequests
<1>7. TabOK(x)'
  BY <1>1, <1>3, <1>5, StatusTab
<1>8. ASSUME NEW y \in Tabs, y # x PROVE TabOK(y)'
  BY <1>3, <1>5, <1>8, SameTab
<1>9. TabsOK'
  <2>1. (\A y \in Tabs : TabOK(y))'
    BY <1>7, <1>8
  <2> QED  BY <2>1 DEF TabOK, TabsOK, TabKeepsSession, LeftOK, LoginFormWorks, Live
<1> QED  BY <1>5, <1>6, <1>9

\* An answer of which the tab shows nothing.
LEMMA NothingShown ==
    ASSUME SessionInv, NEW s \in Busy, Cookies(requests[s]),
           requests' \in [Slots -> Request \cup {Idle}],
           \A r \in Slots \ {s} : requests'[r] = requests[r],
           \/ requests'[s] = Idle
           \/ /\ requests'[s] \in Request /\ requests'[s].answer = Refused
              /\ requests'[s].session = session' /\ requests'[s].late = None,
           requests[s].tab = Nobody \/ requests[s].answer.login = Keep,
           tabs' \in [Tabs -> Tab],
           \A x \in Tabs :
             /\ tabs'[x].loading = tabs[x].loading /\ tabs'[x].token = tabs[x].token
             /\ tabs'[x].authenticated = tabs[x].authenticated
             /\ tabs'[x].left => tabs[x].left \/ requests[s].answer.session = None
    PROVE  SessionInv'
<1> USE DEF SessionInv
<1>1. TypeOK' /\ \A x \in Tabs : PagesShown(x)' => tabs'[x].token <= issued
  BY ArrivalKeepsType
<1>2. RequestsOK'
  BY <1>1, ArrivalKeepsRequests
<1>3. \A x \in Tabs : x # requests[s].tab \/ requests[s].answer.login = Keep
  BY SessionAssumption
<1>4. ASSUME NEW x \in Tabs PROVE TabOK(x)'
  BY <1>1, <1>3, SameTab
<1>5. TabsOK'
  <2>1. (\A x \in Tabs : TabOK(x))'
    BY <1>4
  <2> QED  BY <2>1 DEF TabOK, TabsOK, TabKeepsSession, LeftOK, LoginFormWorks, Live
<1> QED  BY <1>1, <1>2, <1>5

\* Each of the answers, as the tab takes it.
LEMMA DoneLeaves ==
    ASSUME SessionInv, NEW s \in Busy, Done(s)
    PROVE  /\ requests' \in [Slots -> Request \cup {Idle}] /\ requests'[s] = Idle
           /\ \A r \in Slots \ {s} : requests'[r] = requests[r]
BY DEF Done, SessionInv, TypeOK, Busy

LEMMA QuietArrival ==
    ASSUME SessionInv, NEW s \in Busy, Cookies(requests[s]), Done(s), UNCHANGED tabs,
           requests[s].tab = Nobody \/ requests[s].answer.login = Keep
    PROVE  SessionInv'
BY DoneLeaves, NothingShown DEF SessionInv, TypeOK

\* An error changes no cookie, and so does the answer to a request of a page.
LEMMA KeepsLogin ==
    ASSUME SessionInv, NEW s \in Busy,
           ~requests[s].answer.ok \/ requests[s].kind \in {"logout", "post", "read"}
    PROVE  requests[s].answer.login = Keep
BY AnswerParts, RefusedTyped
DEF AnswerOK, GivesForm, GivesStatus, GivesSession, EndsSession, Accepts

LEMMA LoggedInKeepsInv ==
    ASSUME SessionInv, NEW s \in Busy, Cookies(requests[s]), LoggedIn(s)
    PROVE  SessionInv'
<1> USE DEF SessionInv
<1>1. PICK x \in Tabs : x = requests[s].tab
  BY AnswerParts DEF LoggedIn
<1> DEFINE tab == IF tabs[x].submitting = s THEN [tabs[x] EXCEPT !.submitting = Nobody]
                                             ELSE tabs[x]
<1>2. /\ tab \in Tab /\ tab.loading = tabs[x].loading /\ tab.token = tabs[x].token
      /\ tab.authenticated = tabs[x].authenticated /\ tab.left = tabs[x].left
  <2>1. tabs[x] \in Tab  BY DEF TypeOK
  <2> QED  BY <2>1 DEF Tab
<1>3. /\ Done(s)
      /\ requests[s].answer.ok => tabs' = [tabs EXCEPT ![x] = WithStatus(tab, requests[s].answer)]
      /\ ~requests[s].answer.ok => tabs' = [tabs EXCEPT ![x] = tab]
  <2>1. Done(s)  BY DEF LoggedIn
  <2>2. tabs' = [tabs EXCEPT ![x] =
                    IF requests[s].answer.ok THEN WithStatus(tab, requests[s].answer) ELSE tab]
    BY <1>1 DEF LoggedIn
  <2> QED  BY <2>1, <2>2
<1> HIDE DEF tab
<1>4. CASE requests[s].answer.ok
  BY <1>1, <1>2, <1>3, <1>4, StatusArrives
<1>5. CASE ~requests[s].answer.ok
  <2>1. /\ tabs' \in [Tabs -> Tab]
        /\ \A y \in Tabs :
             /\ tabs'[y].loading = tabs[y].loading /\ tabs'[y].token = tabs[y].token
             /\ tabs'[y].authenticated = tabs[y].authenticated
             /\ tabs'[y].left = tabs[y].left
    BY <1>2, <1>3, <1>5 DEF TypeOK
  <2>2. requests[s].answer.login = Keep
    BY <1>5, KeepsLogin
  <2> QED  BY <1>3, <2>1, <2>2, DoneLeaves, NothingShown
<1> QED  BY <1>4, <1>5

LEMMA LoggedOutKeepsInv ==
    ASSUME SessionInv, NEW s \in Busy, Cookies(requests[s]), LoggedOut(s)
    PROVE  SessionInv'
<1> USE DEF SessionInv
<1>1. PICK x \in Tabs : x = requests[s].tab
  BY AnswerParts DEF LoggedOut
<1>2. requests[s].answer.login = Keep /\ s \in Slots
  BY KeepsLogin DEF LoggedOut, Busy
<1>3. CASE requests[s].answer.ok
  <2> DEFINE q == Sent("statusAfterLogout", x, FALSE, session', loginCSRF')
  <2>1. /\ tabs' = [tabs EXCEPT ![x].left = TRUE]
        /\ requests' = [requests EXCEPT ![s] = q]
    BY <1>1, <1>3 DEF LoggedOut
  <2>2. /\ tabs' \in [Tabs -> Tab]
        /\ \A y \in Tabs :
             /\ tabs'[y].loading = tabs[y].loading /\ tabs'[y].token = tabs[y].token
             /\ tabs'[y].authenticated = tabs[y].authenticated
    BY <2>1 DEF TypeOK, Tab
  <2>3. requests[s].answer.session = None
    BY <1>3, AnswerParts, RefusedTyped
    DEF LoggedOut, AnswerOK, GivesForm, GivesStatus, GivesSession, EndsSession, Accepts
  <2>4. q \in Request /\ q.answer = Refused /\ q.session = session' /\ q.late = None
    <3>1. ASSUME NEW kind \in {"statusAfterLogout"}, NEW good \in BOOLEAN,
                 NEW jar \in 0..MaxSessions, NEW form \in Tokens \cup {None}
          PROVE  LET r == Sent(kind, x, good, jar, form)
                 IN r \in Request /\ r.answer = Refused /\ r.session = jar /\ r.late = None
      <4> DEFINE r == Sent(kind, x, good, jar, form)
      <4>1. kind \in {"status", "statusAfterLogout", "login", "logout", "post", "read"}
            /\ kind \notin {"logout", "post", "read"}
        OBVIOUS
      <4>2. /\ r \in Request /\ r.answer = Refused /\ r.session = jar
            /\ r.late = IF kind \in {"logout", "post", "read"} /\ tabs[x].left
                        THEN tabs[x].token ELSE None
        BY <4>1, SentTyped
      <4> HIDE DEF r
      <4> QED  BY <4>1, <4>2 DEF r
    <3>2. session' \in 0..MaxSessions /\ loginCSRF' \in Tokens \cup {None}
      BY SessionStays
    <3> QED  BY <3>1, <3>2
  <2> HIDE DEF q
  <2>5. /\ requests' \in [Slots -> Request \cup {Idle}] /\ requests'[s] = q
        /\ \A r \in Slots \ {s} : requests'[r] = requests[r]
    BY <1>2, <2>1, <2>4 DEF TypeOK
  <2> QED  BY <1>2, <2>2, <2>3, <2>4, <2>5, NothingShown
<1>4. CASE ~requests[s].answer.ok
  BY <1>2, <1>4, QuietArrival DEF LoggedOut
<1> QED  BY <1>3, <1>4

LEMMA ArrivesKeepsInv ==
    ASSUME SessionInv, NEW s \in Slots, Arrives(s)
    PROVE  SessionInv'
<1> USE DEF SessionInv
<1>1. s \in Busy /\ Cookies(requests[s])
  BY StepIsBusy DEF Arrives
<1>2. CASE Unheard(s)
  BY <1>1, <1>2, QuietArrival DEF Unheard
<1>3. CASE Refreshes(s)
  <2>1. PICK x \in Tabs : x = requests[s].tab
    BY <1>1, <1>3, AnswerParts DEF Refreshes
  <2>2. /\ tabs[x] \in Tab /\ Done(s)
        /\ tabs' = [tabs EXCEPT ![x] = WithStatus(tabs[x], requests[s].answer)]
    BY <1>3, <2>1 DEF Refreshes, TypeOK
  <2> QED  BY <1>1, <2>1, <2>2, StatusArrives
<1>4. CASE LoggedIn(s)
  BY <1>1, <1>4, LoggedInKeepsInv
<1>5. CASE LoggedOut(s)
  BY <1>1, <1>5, LoggedOutKeepsInv
<1>6. CASE SeesLogout(s)
  <2>1. PICK x \in Tabs : x = requests[s].tab
    BY <1>1, <1>6, AnswerParts DEF SeesLogout
  <2>2. CASE requests[s].answer.ok
    <3>1. /\ tabs[x] \in Tab /\ Done(s)
          /\ tabs' = [tabs EXCEPT ![x] = WithStatus(tabs[x], requests[s].answer)]
      BY <1>6, <2>1, <2>2 DEF SeesLogout, TypeOK
    <3> QED  BY <1>1, <2>1, <3>1, StatusArrives
  <2>3. CASE ~requests[s].answer.ok
    BY <1>1, <1>6, <2>3, KeepsLogin, QuietArrival DEF SeesLogout
  <2> QED  BY <2>2, <2>3
<1> QED  BY <1>2, <1>3, <1>4, <1>5, <1>6 DEF Arrives

-----------------------------------------------------------------------------
(* The theorems. *)

LEMMA InitSession == Init => SessionInv
<1> SUFFICES ASSUME Init PROVE SessionInv
  OBVIOUS
<1> USE DEF Init
<1>1. Busy = {} /\ Carried = {}
  BY SessionAssumption DEF Busy, Carried, None
<1> DEFINE tab == [NewTab EXCEPT !.loading = FALSE]
<1>2. tab \in Tab /\ ~tab.authenticated /\ tab.token = None
  BY Ranges DEF NewTab, Tab
<1>3. tabs \in [Tabs -> Tab] /\ \A x \in Tabs : ~tabs[x].authenticated /\ tabs[x].token = None
  BY <1>2
<1>4. TypeOK
  <2>1. /\ session \in 0..MaxSessions /\ loginCSRF \in Tokens \cup {None}
        /\ issued \in 0..MaxSessions /\ expired \in 0..issued
    BY SessionAssumption DEF None
  <2>2. requests \in [Slots -> Request \cup {Idle}]
    OBVIOUS
  <2> QED  BY <1>3, <2>1, <2>2 DEF TypeOK, PagesShown
<1>5. RequestsOK
  <2>1. IssuedOK
    <3>1. session <= issued /\ ended \cup shared = {}
      BY DEF None
    <3>2. \A x \in Tabs : ~PagesShown(x)
      BY <1>3 DEF PagesShown
    <3> QED  BY <1>1, <3>1, <3>2 DEF IssuedOK
  <2>2. AnswersOK /\ CarriedOK /\ NewOK /\ SentOK /\ SessionOK /\ LatesOK
    BY <1>1 DEF AnswersOK, CarriedOK, NewOK, SentOK, SessionOK, LatesOK
  <2> QED  BY <2>1, <2>2 DEF RequestsOK
<1>6. TabsOK
  BY <1>3, SessionAssumption
  DEF TabsOK, TabKeepsSession, LeftOK, LoginFormWorks, PagesShown, FormShown
<1> QED  BY <1>4, <1>5, <1>6 DEF SessionInv

LEMMA NextSession == SessionInv /\ [Next]_vars => SessionInv'
<1> SUFFICES ASSUME SessionInv, [Next]_vars PROVE SessionInv'
  OBVIOUS
<1>1. CASE UNCHANGED vars
  BY <1>1
  DEF vars, serverVars, historyVars, SessionInv, TypeOK, RequestsOK, TabsOK, AnswersOK,
      AnswerOK, GivesForm, GivesStatus, GivesSession, EndsSession, Accepts, IssuedOK,
      CarriedOK, Carried, NewOK, Brings, SentOK, SessionOK, LatesOK, LateOK, Live, Busy,
      TabKeepsSession, LeftOK, LoginFormWorks, PagesShown, FormShown
<1>2. CASE Next
  <2>1. ASSUME NEW x \in Tabs, Open(x) \/ Submit(x) \/ Logout(x) \/ Post(x) \/ Read(x)
        PROVE  SessionInv'
    BY <2>1, OpenKeepsInv, UserKeepsInv
  <2>2. CASE Expire \/ DropSession \/ DropLogin
    BY <2>2, ExpireKeepsInv, DropSessionKeepsInv, DropLoginKeepsInv
  <2>3. ASSUME NEW s \in Slots, Serves(s) \/ Loses(s) \/ Arrives(s)
        PROVE  SessionInv'
    BY <2>3, ServerKeepsInv, ArrivesKeepsInv
  <2> QED  BY <1>2, <2>1, <2>2, <2>3 DEF Next
<1> QED  BY <1>1, <1>2

\* The invariant holds in every state, whatever the tabs do and answers are lost
\* (app.tsx: App, LoginPage; auth.go; handlers.go: Login, Logout, AuthStatus).
THEOREM SessionAlways == Spec => []SessionInv
<1> QED  BY InitSession, NextSession, PTL DEF Spec

\* Every variable keeps its type; in particular, a tab that shows pages has a
\* session's token and a tab with the form has a token of the login's or none
\* (app.tsx:36-37, handlers.go:78-96).
THEOREM SessionTypes == Spec => []TypeOK
<1>1. SessionInv => TypeOK
  BY DEF SessionInv
<1> QED  BY <1>1, SessionAlways, PTL

\* A tab that shows the pages can use them: the cookie is the one its token fits
\* until that session expires, is logged out, or two logins were under way together
\* (handlers.go:98-136, app.tsx:36-37, 125-126).
THEOREM PagesStayUsable == Spec => []TabKeepsSession
<1>1. SessionInv => TabKeepsSession
  BY DEF SessionInv, TabsOK
<1> QED  BY <1>1, SessionAlways, PTL

\* The form whose tab was the last to set the login cookie has the token for it
\* (auth.go:90-116, handlers.go:117-127, app.tsx:117-136, 568-573).
THEOREM FormStaysUsable == Spec => []LoginFormWorks
<1>1. SessionInv => LoginFormWorks
  BY DEF SessionInv, TabsOK
<1> QED  BY <1>1, SessionAlways, PTL

\* No POST, a logout or any other, is accepted from a tab whose logout was answered
\* and which got no status after that, whoever logs in meanwhile, unless two logins got the same
\* session or were under way together (app.tsx:568-578, auth.go:75-88).
THEOREM LogoutEndsPosts == Spec => []LeftChangesNothing
<1>1. SessionInv => LeftChangesNothing
  BY DEF SessionInv, RequestsOK, LatesOK, LateOK, LeftChangesNothing
<1> QED  BY <1>1, SessionAlways, PTL

\* What such a tab reads, which takes the shared cookie and no token, it reads with
\* the session of a later login, with the same exception (router.go:33-43,
\* auth.go:62-64, 171-188, app.tsx:568-578).
THEOREM LogoutEndsReads == Spec => []LeftReadsByLaterLogin
<1>1. SessionInv => LeftReadsByLaterLogin
  BY DEF SessionInv, RequestsOK, LatesOK, LateOK, LeftReadsByLaterLogin
<1> QED  BY <1>1, SessionAlways, PTL
=============================================================================
