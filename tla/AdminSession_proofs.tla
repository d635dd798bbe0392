------------------------ MODULE AdminSession_proofs ------------------------
(***************************************************************************)
(* AdminSession for any number of tabs, passwords and restarts: the typing, *)
(* then what the secrets in circulation say about the password they stand   *)
(* for, then where a notice can be between the request that makes it and    *)
(* the page that shows it.                                                  *)
(***************************************************************************)
EXTENDS AdminSession, TLAPS

-----------------------------------------------------------------------------
(* Typing.                                                                 *)

LEMMA TypedValues ==
    /\ NoSession \in Session /\ NoToken \in Token /\ NoNotice \in Notice
    /\ NoForm \in Form /\ EmptyJar \in Jar /\ Plain \in Answer
  BY SessionAssumption
  DEF NoSession, Session, NoToken, Token, NoNotice, Notice, NoForm, Form, EmptyJar,
      Cookies, Jar, Plain, Answering, Answer

LEMMA TypedCookies ==
    ASSUME NEW s \in Session, NEW k \in Token, NEW n \in Notice
    PROVE  /\ Cookies(s, k, n) \in Jar
           /\ Cookies(s, k, n).session = s
           /\ Cookies(s, k, n).token = k
           /\ Cookies(s, k, n).notice = n
  BY DEF Cookies, Jar

LEMMA TypedAnswer ==
    ASSUME NEW form \in Form, NEW sets \in SUBSET {"session", "token", "notice"},
           NEW cookies \in Jar, NEW shows \in Nat
    PROVE  Answering(form, sets, cookies, shows) \in Answer
  BY DEF Answering, Answer

LEMMA TypedTabs ==
    /\ \A form \in Form : Showing(form) \in Tab
    /\ \A answer \in Answer : Answered(answer) \in Tab
    /\ \A x \in Tab : At(x, "verifying") \in Tab /\ At(x, "authorized") \in Tab
  BY TypedValues DEF Showing, Answered, At, Tab

LEMMA TypedSend ==
    ASSUME TypeOK, NEW t \in Tabs, NEW ask \in Asks, NEW password \in Passwords \cup {None},
           Send(t, ask, password)
    PROVE  TypeOK'
<1> DEFINE form == IF ask \in {"page", "login page"} THEN NoForm ELSE tab[t].form
<1>1. tab[t] \in Tab /\ jar \in Jar
  BY DEF TypeOK
<1>2. form \in Form
  BY <1>1, TypedValues DEF Tab
<1>3. Carries(ask) \in Jar
  <2>1. jar.session \in Session /\ jar.token \in Token /\ jar.notice \in Notice
    BY <1>1 DEF Jar
  <2> QED
    BY <2>1, TypedValues, TypedCookies DEF Carries
<1> HIDE DEF form
<1>4. [pc |-> "sent", ask |-> ask, password |-> password, sent |-> Carries(ask),
       form |-> form, answer |-> Plain] \in Tab
  BY <1>2, <1>3, TypedValues DEF Tab
<1>5. tab' \in [Tabs -> Tab]
  BY <1>4 DEF Send, Goto, TypeOK, form
<1> QED
  BY <1>5 DEF TypeOK, Send, counters

LEMMA TypedReceive ==
    ASSUME TypeOK, NEW t \in Tabs, Receive(t)
    PROVE  TypeOK'
<1> DEFINE a == tab[t].answer
<1>1. /\ tab[t] \in Tab /\ a \in Answer /\ a.jar \in Jar /\ jar \in Jar
      /\ a.form \in Form /\ a.shows \in Nat
  BY DEF TypeOK, Tab, Answer
<1>2. /\ jar.session \in Session /\ jar.token \in Token /\ jar.notice \in Notice
      /\ a.jar.session \in Session /\ a.jar.token \in Token /\ a.jar.notice \in Notice
  BY <1>1 DEF Jar
<1> HIDE DEF a
<1>3. jar' \in Jar
  BY <1>2, TypedCookies DEF Receive, a
<1>4. tab' \in [Tabs -> Tab]
  BY <1>1, TypedTabs DEF Receive, Goto, TypeOK, a
<1>5. seen' \subseteq Nat
  BY <1>1 DEF Receive, TypeOK, a
<1> QED
  BY <1>3, <1>4, <1>5 DEF TypeOK, Receive, counters

\* What the handlers reply is an answer.
LEMMA TypedReplies ==
    ASSUME TypeOK, NEW t \in Tabs
    PROVE  /\ Plain \in Answer
           /\ LoginForm(t) \in Answer
           /\ Answering(NoForm, {"session", "token"},
                        Cookies(NewSession(sessions + 1), NoToken, NoNotice), 0) \in Answer
           /\ Answering(AdminForm(tab[t].sent.session), {"notice"}, EmptyJar,
                        Shown(tab[t].sent.notice)) \in Answer
           /\ Answering(AdminForm(tab[t].sent.session), {}, EmptyJar, 0) \in Answer
           /\ Answering(NoForm, {"notice"},
                        Cookies(NoSession, NoToken, NewNotice(notices + 1)), 0) \in Answer
           /\ Answering(NoForm, {"session"}, EmptyJar, 0) \in Answer
<1>1. server.secret \in Nat /\ server.password \in Passwords \cup {None}
  BY DEF TypeOK, Auth, Down
<1>2. /\ tab[t].sent.session \in Session /\ tab[t].sent.session.id \in Nat
      /\ tab[t].sent.notice.id \in Nat
  BY DEF TypeOK, Tab, Jar, Session, Notice
<1>3. NewSession(sessions + 1) \in Session
  BY <1>1, SessionAssumption DEF NewSession, Session, TypeOK
<1>4. NewNotice(notices + 1) \in Notice
  BY <1>1, SessionAssumption DEF NewNotice, Notice, TypeOK
<1>5. AdminForm(tab[t].sent.session) \in Form
  BY <1>1, <1>2 DEF AdminForm, Form
<1>6. Shown(tab[t].sent.notice) \in Nat
  BY <1>2 DEF Shown
<1>7. [tab |-> t, secret |-> server.secret] \in Token
  BY <1>1 DEF Token
<1>8. [kind |-> "login", session |-> 0, secret |-> server.secret] \in Form
  BY <1>1 DEF Form
<1>9. LoginForm(t) \in Answer
  BY <1>7, <1>8, TypedValues, TypedCookies, TypedAnswer DEF LoginForm
<1> QED
  BY <1>3, <1>4, <1>5, <1>6, <1>9, TypedValues, TypedCookies, TypedAnswer

LEMMA TypedHandle ==
    ASSUME TypeOK, NEW t \in Tabs, Handle(t)
    PROVE  TypeOK'
<1>1. \/ \E answer \in Answer : Reply(t, answer)
      \/ \E pc \in {"verifying", "authorized"} : Goto(t, At(tab[t], pc))
      \/ Goto(t, Showing(tab[t].form))
  BY TypedReplies
  DEF Handle, LoginPage, Verify, RefuseLogin, LogIn, WrongPassword, ShowPage,
      SendToLogin, Authorize, Reject, Change, FailChange, Panic, LogOut
<1>2. tab[t] \in Tab /\ tab[t].form \in Form
  BY DEF TypeOK, Tab
<1>3. \E x \in Tab : Goto(t, x)
  BY <1>1, <1>2, TypedTabs DEF Reply
<1>4. tab' \in [Tabs -> Tab]
  BY <1>3 DEF Goto, TypeOK
<1>5. /\ UNCHANGED <<clock, auth, server, jar, seen>>
      /\ sessions' \in {sessions, sessions + 1} /\ notices' \in {notices, notices + 1}
  BY DEF Handle, LoginPage, Verify, RefuseLogin, LogIn, WrongPassword, ShowPage,
         SendToLogin, Authorize, Reject, Change, FailChange, Panic, LogOut, counters
<1> QED
  BY <1>4, <1>5 DEF TypeOK

LEMMA TypedProcess ==
    ASSUME TypeOK,
           Start \/ Stop \/ Tick \/ \E password \in Passwords : SetAdminPassword(password)
    PROVE  TypeOK'
<1>1. CASE Start
  BY <1>1 DEF Start, TypeOK, counters
<1>2. CASE Stop
  <2>1. \A t \in Tabs : tab[t] \in Tab /\ Showing(tab[t].form) \in Tab
    BY TypedTabs DEF TypeOK, Tab
  <2>2. tab' \in [Tabs -> Tab]
    BY <1>2, <2>1 DEF Stop
  <2> QED
    BY <1>2, <2>2 DEF Stop, TypeOK, counters
<1>3. CASE Tick
  BY <1>3 DEF Tick, TypeOK, counters
<1>4. ASSUME NEW password \in Passwords, SetAdminPassword(password)
      PROVE  TypeOK'
  BY <1>4 DEF SetAdminPassword, TypeOK, Auth, counters
<1> QED
  BY <1>1, <1>2, <1>3, <1>4

LEMMA TypeInit == Init => TypeOK
<1> SUFFICES ASSUME Init PROVE TypeOK
  OBVIOUS
<1>1. auth \in Auth
  BY DEF Init, Auth
<1>2. tab \in [Tabs -> Tab]
  BY TypedValues, TypedTabs DEF Init
<1> QED
  BY <1>1, <1>2, TypedValues DEF Init, TypeOK

LEMMA TypeStep == TypeOK /\ [Next]_vars => TypeOK'
<1> SUFFICES ASSUME TypeOK, [Next]_vars PROVE TypeOK'
  OBVIOUS
<1>1. CASE UNCHANGED vars
  BY <1>1 DEF vars, counters, TypeOK
<1>2. CASE Next
  BY <1>2, TypedSend, TypedReceive, TypedHandle, TypedProcess DEF Next
<1> QED
  BY <1>1, <1>2

\* Every variable of the browser and of the process keeps its kind of value.
THEOREM TypeCorrect == Spec => []TypeOK
  BY TypeInit, TypeStep, PTL DEF Spec

-----------------------------------------------------------------------------
(* The steps of one tab, by what becomes of it.                            *)

Sets(t, answer) == tab'[t] = Answered(answer) /\ notices' = notices

LEMMA HandlerSteps ==
    ASSUME TypeOK, NEW t \in Tabs, Handle(t)
    PROVE  \/ tab'[t] = At(tab[t], "verifying") /\ notices' = notices
           \/ /\ tab'[t] = At(tab[t], "authorized") /\ notices' = notices
              /\ Authorized(t) /\ tab[t].pc = "sent"
           \/ /\ tab'[t] = Showing(tab[t].form) /\ notices' = notices
              /\ ~StillThere(tab[t].sent.session)
           \/ Sets(t, Plain)
           \/ Sets(t, LoginForm(t))
           \/ Sets(t, Answering(NoForm, {"session", "token"},
                               Cookies(NewSession(sessions + 1), NoToken, NoNotice), 0))
           \/ Sets(t, Answering(AdminForm(tab[t].sent.session), {"notice"}, EmptyJar,
                               Shown(tab[t].sent.notice)))
           \/ Sets(t, Answering(AdminForm(tab[t].sent.session), {}, EmptyJar, 0))
           \/ Sets(t, Answering(NoForm, {"session"}, EmptyJar, 0))
           \/ /\ tab'[t] = Answered(Answering(NoForm, {"notice"},
                                Cookies(NoSession, NoToken, NewNotice(notices + 1)), 0))
              /\ notices' = notices + 1
<1>1. \A x : Goto(t, x) => tab'[t] = x
  BY DEF Goto, TypeOK
<1>2. CASE LoginPage(t) \/ RefuseLogin(t) \/ SendToLogin(t) \/ Reject(t)
  BY <1>1, <1>2 DEF LoginPage, RefuseLogin, SendToLogin, Reject, Reply, Sets, counters
<1>3. CASE Verify(t) \/ Authorize(t)
  BY <1>1, <1>3 DEF Verify, Authorize, Ask, counters
<1>4. CASE LogIn(t) \/ WrongPassword(t)
  BY <1>1, <1>4 DEF LogIn, WrongPassword, Reply, Sets, counters
<1>5. CASE ShowPage(t) \/ LogOut(t)
  BY <1>1, <1>5 DEF ShowPage, LogOut, Reply, Sets, counters
<1>6. CASE Change(t)
  BY <1>1, <1>6 DEF Change, Reply
<1>7. CASE FailChange(t) \/ Panic(t)
  BY <1>1, <1>7 DEF FailChange, Panic, Reply, Sets, counters
<1> QED
  BY <1>2, <1>3, <1>4, <1>5, <1>6, <1>7 DEF Handle

LEMMA HandlerLeaves ==
    ASSUME TypeOK, NEW t \in Tabs, Handle(t)
    PROVE  /\ UNCHANGED <<clock, auth, server, jar, seen>> /\ Up
           /\ \A u \in Tabs \ {t} : tab'[u] = tab[u]
<1>1. \A x : Goto(t, x) => \A u \in Tabs \ {t} : tab'[u] = tab[u]
  BY DEF Goto, TypeOK
<1>2. \E x : Goto(t, x)
  BY DEF Handle, LoginPage, Verify, RefuseLogin, LogIn, WrongPassword, ShowPage,
         SendToLogin, Authorize, Reject, Change, FailChange, Panic, LogOut, Reply
<1>3. UNCHANGED <<clock, auth, server, jar, seen>> /\ Up
  BY DEF Handle, LoginPage, Verify, RefuseLogin, LogIn, WrongPassword, ShowPage,
         SendToLogin, Authorize, Reject, Change, FailChange, Panic, LogOut, Ask
<1> QED
  BY <1>1, <1>2, <1>3

\* What is carried by the tabs that these steps leave.
LEMMA Carried ==
    /\ EmptyJar.session = NoSession /\ EmptyJar.notice = NoNotice
    /\ Plain.jar = EmptyJar /\ Plain.shows = 0
    /\ \A form : /\ Showing(form).pc = "idle" /\ Showing(form).form = form
                 /\ Showing(form).sent = EmptyJar /\ Showing(form).answer = Plain
    /\ \A answer : /\ Answered(answer).pc = "answered" /\ Answered(answer).sent = EmptyJar
                   /\ Answered(answer).answer = answer
    /\ \A x, pc : /\ At(x, pc).pc = pc /\ At(x, pc).form = x.form
                  /\ At(x, pc).sent = x.sent /\ At(x, pc).answer = x.answer
    /\ \A form, sets, cookies, shows :
         /\ Answering(form, sets, cookies, shows).jar = cookies
         /\ Answering(form, sets, cookies, shows).shows = shows
         /\ Answering(form, sets, cookies, shows).sets = sets
    /\ \A s, k, n : Cookies(s, k, n).session = s /\ Cookies(s, k, n).notice = n
    /\ \A t : /\ LoginForm(t).jar.session = NoSession /\ LoginForm(t).jar.notice = NoNotice
              /\ LoginForm(t).shows = 0
  BY DEF EmptyJar, Plain, Showing, Answered, At, Answering, Cookies, LoginForm

-----------------------------------------------------------------------------
(* Sessions.  Secrets are numbered in the order they were drawn, so a        *)
(* session whose secret is the one of the file, or of the process, was      *)
(* issued for the password that came with it.                               *)

ProvenFor(s, file, process) ==
    s.id # 0 => /\ 1 <= s.secret /\ s.secret <= file.secret
                /\ s.secret = file.secret => s.password = file.password
                /\ s.secret = process.secret => s.password = process.password

FileAhead(file, process) ==
    /\ 1 <= file.secret
    /\ process.secret <= file.secret
    /\ process.secret = file.secret => process.password = file.password

SessionsProven ==
    /\ FileAhead(auth, server)
    /\ ProvenFor(jar.session, auth, server)
    /\ \A t \in Tabs : /\ ProvenFor(tab[t].sent.session, auth, server)
                       /\ ProvenFor(tab[t].answer.jar.session, auth, server)

\* Nothing comes between authorize_mutation and the operation that would make
\* another form or another secret of the one that was checked.
StillAuthorized ==
    \A t \in Tabs : tab[t].pc = "authorized" =>
        /\ Up
        /\ tab[t].sent.session.id # 0
        /\ tab[t].sent.session.secret = server.secret
        /\ tab[t].form = AdminForm(tab[t].sent.session)

SessionInv == TypeOK /\ SessionsProven /\ StillAuthorized

\* What a step leaves or puts where a session can be.
LEMMA SessionsMove ==
    ASSUME TypeOK, Next
    PROVE  /\ jar'.session = jar.session
              \/ \E t \in Tabs : jar'.session = tab[t].answer.jar.session
           /\ \A t \in Tabs :
                /\ tab'[t].sent.session \in {NoSession, jar.session, tab[t].sent.session}
                /\ \/ tab'[t].answer.jar.session \in {NoSession, tab[t].answer.jar.session}
                   \/ /\ tab'[t].answer.jar.session = NewSession(sessions + 1)
                      /\ Up /\ UNCHANGED <<auth, server>>
<1>1. CASE \E t \in Tabs, ask \in Asks, password \in Passwords \cup {None} :
             Send(t, ask, password)
  <2>1. PICK t \in Tabs, ask \in Asks, password \in Passwords \cup {None} :
          Send(t, ask, password)
    BY <1>1
  <2>2. Carries(ask).session \in {NoSession, jar.session}
    BY DEF Carries, Cookies
  <2>3. tab'[t].sent.session = Carries(ask).session /\ tab'[t].answer.jar.session = NoSession
    BY <2>1 DEF Send, Goto, TypeOK, Plain, Answering, EmptyJar, Cookies
  <2>4. \A u \in Tabs \ {t} : tab'[u] = tab[u]
    BY <2>1 DEF Send, Goto, TypeOK
  <2>5. jar' = jar
    BY <2>1 DEF Send
  <2> QED
    BY <2>2, <2>3, <2>4, <2>5
<1>2. CASE \E t \in Tabs : Receive(t)
  <2>1. PICK t \in Tabs : Receive(t)
    BY <1>2
  <2>2. jar'.session \in {jar.session, tab[t].answer.jar.session}
    BY <2>1 DEF Receive, Cookies
  <2>3. tab'[t].sent.session = NoSession /\ tab'[t].answer.jar.session = NoSession
    BY <2>1 DEF Receive, Goto, TypeOK, Showing, Plain, Answering, EmptyJar, Cookies
  <2>4. \A u \in Tabs \ {t} : tab'[u] = tab[u]
    BY <2>1 DEF Receive, Goto, TypeOK
  <2> QED
    BY <2>2, <2>3, <2>4
<1>3. CASE \E t \in Tabs : Handle(t)
  <2>1. PICK t \in Tabs : Handle(t)
    BY <1>3
  <2>2. jar' = jar /\ UNCHANGED <<auth, server>> /\ Up
    BY <2>1, HandlerLeaves
  <2>3. \A u \in Tabs \ {t} : tab'[u] = tab[u]
    BY <2>1, HandlerLeaves
  <2>4. tab'[t].sent.session \in {NoSession, tab[t].sent.session}
    BY <2>1, HandlerSteps, Carried DEF Sets
  <2>5. tab'[t].answer.jar.session
          \in {NoSession, tab[t].answer.jar.session, NewSession(sessions + 1)}
    BY <2>1, HandlerSteps, Carried DEF Sets
  <2> QED
    BY <2>2, <2>3, <2>4, <2>5
<1>4. CASE Stop
  <2>1. \A t \in Tabs : tab'[t] = tab[t] \/ tab'[t] = Showing(tab[t].form)
    BY <1>4 DEF Stop
  <2>2. \A form : /\ Showing(form).sent.session = NoSession
                  /\ Showing(form).answer.jar.session = NoSession
    BY DEF Showing, Plain, Answering, EmptyJar, Cookies
  <2>3. jar' = jar
    BY <1>4 DEF Stop
  <2> QED
    BY <2>1, <2>2, <2>3
<1>5. CASE Start \/ Tick \/ \E password \in Passwords : SetAdminPassword(password)
  BY <1>5 DEF Start, Tick, SetAdminPassword
<1> QED
  BY <1>1, <1>2, <1>3, <1>4, <1>5 DEF Next

\* The file and the process only move forward.
LEMMA SecretsMove ==
    ASSUME TypeOK, Next, FileAhead(auth, server)
    PROVE  /\ FileAhead(auth', server')
           /\ \A s \in Session : ProvenFor(s, auth, server) => ProvenFor(s, auth', server')
<1>1. auth.secret \in Nat /\ server.secret \in Nat
  BY DEF TypeOK, Auth, Down
<1>2. \A s \in Session : s.secret \in Nat
  BY DEF Session
<1>3. CASE UNCHANGED <<auth, server>>
  BY <1>3
<1>4. CASE Start
  BY <1>1, <1>2, <1>4 DEF Start, FileAhead, ProvenFor
<1>5. CASE Stop
  BY <1>1, <1>2, <1>5 DEF Stop, FileAhead, ProvenFor, Down
<1>6. ASSUME NEW password \in Passwords, SetAdminPassword(password)
      PROVE  /\ FileAhead(auth', server')
             /\ \A s \in Session : ProvenFor(s, auth, server) => ProvenFor(s, auth', server')
  BY <1>1, <1>2, <1>6 DEF SetAdminPassword, FileAhead, ProvenFor
<1>7. CASE Tick \/ \E t \in Tabs : Receive(t)
  BY <1>3, <1>7 DEF Tick, Receive
<1>8. CASE \E t \in Tabs, ask \in Asks, password \in Passwords \cup {None} :
             Send(t, ask, password)
  BY <1>3, <1>8 DEF Send
<1>9. CASE \E t \in Tabs : Handle(t)
  BY <1>3, <1>9
  DEF Handle, LoginPage, Verify, RefuseLogin, LogIn, WrongPassword, ShowPage,
      SendToLogin, Authorize, Reject, Change, FailChange, Panic, LogOut
<1> QED
  BY <1>4, <1>5, <1>6, <1>7, <1>8, <1>9 DEF Next

LEMMA ProvenStep ==
    ASSUME TypeOK, SessionsProven, Next
    PROVE  SessionsProven'
<1>1. \A s \in Session : ProvenFor(s, auth, server) => ProvenFor(s, auth', server')
  BY SecretsMove DEF SessionsProven
<1>2. ProvenFor(NoSession, auth, server) /\ NoSession \in Session
  BY TypedValues DEF ProvenFor, NoSession
<1>3. /\ jar.session \in Session
      /\ \A t \in Tabs : /\ tab[t].sent.session \in Session
                         /\ tab[t].answer.jar.session \in Session
  BY DEF TypeOK, Jar, Tab, Answer
<1>4. NewSession(sessions + 1).id # 0
  BY DEF NewSession, TypeOK
<1>5. Up => ProvenFor(NewSession(sessions + 1), auth, server)
  <2>1. server.secret \in Nat
    BY DEF TypeOK, Auth, Down
  <2> QED
    BY <2>1 DEF Up, ProvenFor, NewSession, SessionsProven, FileAhead
<1>6. ProvenFor(jar'.session, auth', server')
  BY <1>1, <1>3, SessionsMove DEF SessionsProven
<1>7. ASSUME NEW t \in Tabs
      PROVE  ProvenFor(tab'[t].sent.session, auth', server')
  BY <1>1, <1>2, <1>3, SessionsMove DEF SessionsProven
<1>8. ASSUME NEW t \in Tabs
      PROVE  ProvenFor(tab'[t].answer.jar.session, auth', server')
  <2>1. CASE tab'[t].answer.jar.session \in {NoSession, tab[t].answer.jar.session}
    BY <1>1, <1>2, <1>3, <2>1 DEF SessionsProven
  <2>2. CASE /\ tab'[t].answer.jar.session = NewSession(sessions + 1)
             /\ Up /\ UNCHANGED <<auth, server>>
    BY <1>5, <2>2
  <2> QED
    BY <2>1, <2>2, SessionsMove
<1>9. FileAhead(auth', server')
  BY SecretsMove DEF SessionsProven
<1> QED
  BY <1>6, <1>7, <1>8, <1>9 DEF SessionsProven

\* A tab becomes authorized at Authorize only, and stays as it is until its
\* answer, unless the process stops.
LEMMA AuthorizedTabs ==
    ASSUME TypeOK, Next, NEW t \in Tabs, tab'[t].pc = "authorized"
    PROVE  \/ UNCHANGED server /\ tab'[t] = tab[t]
           \/ UNCHANGED server /\ Authorized(t) /\ Up /\ tab'[t] = At(tab[t], "authorized")
           \/ ~Up /\ tab'[t] = tab[t]
<1>1. CASE \E u \in Tabs, ask \in Asks, password \in Passwords \cup {None} :
             Send(u, ask, password)
  <2>1. PICK u \in Tabs, ask \in Asks, password \in Passwords \cup {None} :
          Send(u, ask, password)
    BY <1>1
  <2>2. tab'[u].pc = "sent" /\ \A v \in Tabs \ {u} : tab'[v] = tab[v]
    BY <2>1 DEF Send, Goto, TypeOK
  <2> QED
    BY <2>1, <2>2 DEF Send
<1>2. CASE \E u \in Tabs : Receive(u)
  BY <1>2 DEF Receive, Goto, TypeOK, Showing
<1>3. CASE \E u \in Tabs : Handle(u)
  <2>1. PICK u \in Tabs : Handle(u)
    BY <1>3
  <2>2. UNCHANGED server /\ Up /\ \A v \in Tabs \ {u} : tab'[v] = tab[v]
    BY <2>1, HandlerLeaves
  <2>3. CASE u = t
    <3>1. Authorized(t) /\ tab'[t] = At(tab[t], "authorized")
      BY <2>1, <2>3, HandlerSteps, Carried DEF Sets
    <3> QED
      BY <2>2, <3>1
  <2> QED
    BY <2>2, <2>3
<1>4. CASE Stop
  BY <1>4 DEF Stop, Showing
<1>5. CASE Start
  BY <1>5 DEF Start
<1>6. CASE Tick \/ \E password \in Passwords : SetAdminPassword(password)
  BY <1>6 DEF Tick, SetAdminPassword
<1> QED
  BY <1>1, <1>2, <1>3, <1>4, <1>5, <1>6 DEF Next

LEMMA StillAuthorizedStep ==
    ASSUME TypeOK, StillAuthorized, Next
    PROVE  StillAuthorized'
<1> SUFFICES ASSUME NEW t \in Tabs, tab'[t].pc = "authorized"
             PROVE  /\ server'.secret # 0
                    /\ tab'[t].sent.session.id # 0
                    /\ tab'[t].sent.session.secret = server'.secret
                    /\ tab'[t].form = [kind |-> "admin", session |-> tab'[t].sent.session.id,
                                       secret |-> server'.secret]
  BY DEF StillAuthorized, Up, AdminForm
<1>1. CASE UNCHANGED server /\ tab'[t] = tab[t]
  BY <1>1 DEF StillAuthorized, Up, AdminForm
<1>2. CASE UNCHANGED server /\ Authorized(t) /\ Up /\ tab'[t] = At(tab[t], "authorized")
  BY <1>2 DEF Authorized, ValidSession, At, Up, AdminForm
<1>3. CASE ~Up /\ tab'[t] = tab[t]
  BY <1>3 DEF StillAuthorized
<1> QED
  BY <1>1, <1>2, <1>3, AuthorizedTabs

LEMMA SessionInit == Init => SessionInv
<1> SUFFICES ASSUME Init PROVE SessionInv
  OBVIOUS
<1>1. FileAhead(auth, server)
  BY DEF Init, FileAhead, Down
<1>2. ProvenFor(NoSession, auth, server)
  BY DEF ProvenFor, NoSession
<1>3. /\ jar.session = NoSession
      /\ \A t \in Tabs : /\ tab[t].sent.session = NoSession
                         /\ tab[t].answer.jar.session = NoSession
                         /\ tab[t].pc = "idle"
  BY DEF Init, Showing, Plain, Answering, EmptyJar, Cookies
<1> QED
  BY <1>1, <1>2, <1>3, TypeInit DEF SessionInv, SessionsProven, StillAuthorized

LEMMA SessionStep == SessionInv /\ [Next]_vars => SessionInv'
<1> SUFFICES ASSUME SessionInv, [Next]_vars PROVE SessionInv'
  OBVIOUS
<1>1. TypeOK'
  BY TypeStep DEF SessionInv
<1>2. CASE UNCHANGED vars
  BY <1>1, <1>2 DEF vars, counters, SessionInv, SessionsProven, StillAuthorized, Up, AdminForm
<1>3. CASE Next
  BY <1>1, <1>3, ProvenStep, StillAuthorizedStep DEF SessionInv
<1> QED
  BY <1>2, <1>3

LEMMA SessionInvariant == Spec => []SessionInv
  BY SessionInit, SessionStep, PTL DEF Spec

\* Whichever session the process accepts was issued for the password it runs
\* with, after any number of new passwords and restarts.
THEOREM SessionProvesPasswordHolds == Spec => []SessionProvesPassword
<1>1. SessionInv => SessionProvesPassword
  BY DEF SessionInv, SessionsProven, ProvenFor, SessionProvesPassword, ProvesPassword
<1> QED
  BY <1>1, SessionInvariant, PTL

\* A tab that was authorized is answered, or the process stopped, or its
\* session came to its end.
LEMMA AuthorizedEnds ==
    ASSUME SessionInv, Next, NEW t \in Tabs, tab[t].pc = "authorized", tab'[t].pc = "idle"
    PROVE  server' = Down \/ tab[t].sent.session.expires < clock
<1> TypeOK
  BY DEF SessionInv
<1>1. /\ tab[t].sent.session.id # 0 /\ tab[t].sent.session.secret = server.secret
      /\ tab[t].sent.session.expires \in Nat /\ clock \in Nat
  BY DEF SessionInv, StillAuthorized, TypeOK, Tab, Jar, Session
<1>2. CASE \E u \in Tabs, ask \in Asks, password \in Passwords \cup {None} :
             Send(u, ask, password)
  <2>1. PICK u \in Tabs, ask \in Asks, password \in Passwords \cup {None} :
          Send(u, ask, password)
    BY <1>2
  <2>2. tab'[u].pc = "sent" /\ \A v \in Tabs \ {u} : tab'[v] = tab[v]
    BY <2>1 DEF Send, Goto, SessionInv, TypeOK
  <2> QED
    BY <2>2
<1>3. CASE \E u \in Tabs : Receive(u)
  BY <1>3 DEF Receive, Goto, SessionInv, TypeOK
<1>4. CASE \E u \in Tabs : Handle(u)
  <2>1. PICK u \in Tabs : Handle(u)
    BY <1>4
  <2>2. u = t
    BY <2>1, HandlerLeaves
  <2>3. ~StillThere(tab[t].sent.session)
    BY <2>1, <2>2, HandlerSteps, Carried DEF Sets
  <2>4. server.secret \in Nat
    BY DEF SessionInv, TypeOK, Auth, Down
  <2> QED
    BY <1>1, <2>3, <2>4 DEF StillThere, ValidSession
<1>5. CASE Stop
  BY <1>5 DEF Stop
<1>6. CASE Start \/ Tick \/ \E password \in Passwords : SetAdminPassword(password)
  BY <1>6 DEF Start, Tick, SetAdminPassword
<1> QED
  BY <1>2, <1>3, <1>4, <1>5, <1>6 DEF Next

\* No change without a session of the password in force and a form of it.
THEOREM ChangesAreAuthorizedHolds == Spec => ChangesAreAuthorized
<1> DEFINE Proven ==
      \A t \in Tabs : tab[t].pc = "authorized" /\ tab'[t].pc = "answered" =>
         /\ tab[t].sent.session.password = server.password
         /\ tab[t].form.session = tab[t].sent.session.id
         /\ tab[t].form.secret = tab[t].sent.session.secret
<1>1. ASSUME SessionInv, NEW t \in Tabs, tab[t].pc = "authorized"
      PROVE  /\ tab[t].sent.session.password = server.password
             /\ tab[t].form.session = tab[t].sent.session.id
             /\ tab[t].form.secret = tab[t].sent.session.secret
  <2>1. /\ tab[t].sent.session.id # 0
        /\ tab[t].sent.session.secret = server.secret
        /\ tab[t].form = AdminForm(tab[t].sent.session)
    BY <1>1 DEF SessionInv, StillAuthorized
  <2>2. ProvenFor(tab[t].sent.session, auth, server)
    BY <1>1 DEF SessionInv, SessionsProven
  <2> QED
    BY <2>1, <2>2 DEF ProvenFor, AdminForm
<1>2. SessionInv /\ [Next]_vars => [Proven]_vars
  BY <1>1
<1> HIDE DEF Proven
<1>3. Spec => [][Proven]_vars
  BY <1>2, SessionInvariant, PTL DEF Spec
<1> QED
  BY <1>3 DEF Proven, ChangesAreAuthorized

\* create_person finds the session it was authorized with unless the time of
\* the session is over.
THEOREM AnsweredHolds == Spec => AnsweredUnlessExpired
<1> DEFINE Ended ==
      \A t \in Tabs : tab[t].pc = "authorized" /\ tab'[t].pc = "idle" =>
         server' = Down \/ tab[t].sent.session.expires < clock
<1>1. SessionInv /\ Next => Ended
  BY AuthorizedEnds
<1>2. SessionInv /\ [Next]_vars => [Ended]_vars
  BY <1>1
<1> HIDE DEF Ended
<1>3. Spec => [][Ended]_vars
  BY <1>2, SessionInvariant, PTL DEF Spec
<1> QED
  BY <1>3 DEF Ended, AnsweredUnlessExpired

-----------------------------------------------------------------------------
(* Notices.  Until the browser has it, a new notice is in one answer only;   *)
(* from then on it is the cookie, and the page that shows it takes the      *)
(* cookie away.                                                             *)

SetBy(t) == tab[t].answer.jar.notice.id

Fresh(t) ==
    SetBy(t) # 0 =>
        /\ SetBy(t) \notin seen
        /\ SetBy(t) # jar.notice.id
        /\ tab[t].answer.shows = 0
        /\ \A u \in Tabs : /\ tab[u].answer.shows # SetBy(t)
                           /\ tab[u].sent.notice.id # SetBy(t)
                           /\ u # t => SetBy(u) # SetBy(t)

\* The answer that shows a notice clears the cookie.
Clears(t) ==
    tab[t].answer.shows # 0 =>
        "notice" \in tab[t].answer.sets /\ tab[t].answer.jar.notice = NoNotice

\* Every notice anywhere was issued.
Issued ==
    /\ jar.notice.id <= notices
    /\ \A n \in seen : n <= notices
    /\ \A t \in Tabs : /\ tab[t].sent.notice.id <= notices
                       /\ tab[t].answer.shows <= notices
                       /\ SetBy(t) <= notices

NoticeInv ==
    /\ TypeOK
    /\ NoticeOnce
    /\ 0 \notin seen
    /\ Issued
    /\ \A t \in Tabs : Fresh(t) /\ Clears(t)

\* What a step leaves of the notices in tab t: nothing, what was there, what
\* the browser kept, or what comes of the request it carried.
Emptied(t) ==
    /\ tab'[t].sent.notice \in {NoNotice, jar.notice}
    /\ tab'[t].answer = Plain
AsBefore(t) ==
    /\ tab'[t].sent = tab[t].sent
    /\ tab'[t].answer = tab[t].answer
Replied(t) ==
    /\ tab'[t].sent = EmptyJar
    /\ tab'[t].answer.jar.notice = NoNotice
    /\ \/ tab'[t].answer.shows = 0
       \/ /\ tab'[t].answer.shows = tab[t].sent.notice.id
          /\ tab'[t].answer.sets = {"notice"}
Announced(t) ==
    /\ tab'[t].sent = EmptyJar
    /\ tab'[t].answer.jar.notice.id = notices + 1
    /\ tab'[t].answer.shows = 0
    /\ notices' = notices + 1

LEMMA HandlerNotices ==
    ASSUME TypeOK, NEW t \in Tabs, Handle(t)
    PROVE  \/ Announced(t)
           \/ notices' = notices /\ (Emptied(t) \/ AsBefore(t) \/ Replied(t))
<1>1. Shown(tab[t].sent.notice) \in {0, tab[t].sent.notice.id}
  BY DEF Shown
<1>2. NewNotice(notices + 1).id = notices + 1
  BY DEF NewNotice
<1> QED
  BY <1>1, <1>2, HandlerSteps, Carried
  DEF Sets, Announced, Emptied, AsBefore, Replied

LEMMA NoticeNumbers ==
    ASSUME TypeOK
    PROVE  /\ notices \in Nat /\ jar.notice.id \in Nat /\ seen \subseteq Nat
           /\ \A t \in Tabs : /\ tab[t].sent.notice.id \in Nat
                              /\ tab[t].answer.shows \in Nat
                              /\ SetBy(t) \in Nat
  BY DEF TypeOK, Tab, Jar, Answer, Notice, SetBy

LEMMA QuietStep ==
    ASSUME NoticeInv, TypeOK', UNCHANGED <<jar, seen, notices>>,
           \A t \in Tabs : Emptied(t) \/ AsBefore(t) \/ Replied(t)
    PROVE  NoticeInv'
<1> TypeOK
  BY DEF NoticeInv
<1>1. NoNotice.id = 0 /\ EmptyJar.notice = NoNotice
  BY Carried DEF NoNotice
<1>2. ASSUME NEW t \in Tabs
      PROVE  /\ tab'[t].sent.notice.id \in {0, jar.notice.id, tab[t].sent.notice.id}
             /\ tab'[t].answer.jar.notice.id \in {0, SetBy(t)}
             /\ tab'[t].answer.jar.notice.id # 0 =>
                  tab'[t].answer.shows = tab[t].answer.shows
             /\ tab'[t].answer.shows \in {0, tab[t].answer.shows, tab[t].sent.notice.id}
  BY <1>1, Carried DEF Emptied, AsBefore, Replied, SetBy
<1>3. ASSUME NEW t \in Tabs
      PROVE  Fresh(t)'
  <2>1. SUFFICES ASSUME tab'[t].answer.jar.notice.id # 0
                 PROVE  /\ tab'[t].answer.jar.notice.id \notin seen
                        /\ tab'[t].answer.jar.notice.id # jar.notice.id
                        /\ tab'[t].answer.shows = 0
                        /\ \A u \in Tabs :
                             /\ tab'[u].answer.shows # tab'[t].answer.jar.notice.id
                             /\ tab'[u].sent.notice.id # tab'[t].answer.jar.notice.id
                             /\ u # t => tab'[u].answer.jar.notice.id
                                           # tab'[t].answer.jar.notice.id
    BY DEF Fresh, SetBy
  <2>2. /\ tab'[t].answer.jar.notice.id = SetBy(t) /\ SetBy(t) # 0
        /\ tab'[t].answer.shows = tab[t].answer.shows
    BY <1>2, <2>1
  <2>3. Fresh(t)
    BY DEF NoticeInv
  <2> QED
    BY <1>2, <2>2, <2>3 DEF Fresh
<1>4. ASSUME NEW t \in Tabs
      PROVE  Clears(t)'
  <2>1. Clears(t)
    BY DEF NoticeInv
  <2> QED
    BY <2>1, Carried DEF Clears, Emptied, AsBefore, Replied
<1>5. Issued'
  BY <1>2, NoticeNumbers DEF NoticeInv, Issued, SetBy
<1> QED
  BY <1>3, <1>4, <1>5 DEF NoticeInv, NoticeOnce

LEMMA AnnounceStep ==
    ASSUME NoticeInv, TypeOK', UNCHANGED <<jar, seen>>, NEW t \in Tabs, Announced(t),
           \A u \in Tabs \ {t} : tab'[u] = tab[u]
    PROVE  NoticeInv'
<1> TypeOK
  BY DEF NoticeInv
<1>1. NoNotice.id = 0 /\ EmptyJar.notice = NoNotice
  BY Carried DEF NoNotice
<1>2. /\ tab'[t].sent.notice.id = 0 /\ tab'[t].answer.shows = 0
      /\ tab'[t].answer.jar.notice.id = notices + 1 /\ notices' = notices + 1
  BY <1>1 DEF Announced
<1>3. \A n \in seen : n \in Nat /\ n <= notices
  BY NoticeNumbers DEF NoticeInv, Issued
<1>4. jar.notice.id <= notices
  BY DEF NoticeInv, Issued
<1>5. \A u \in Tabs : /\ tab[u].sent.notice.id <= notices
                      /\ tab[u].answer.shows <= notices
                      /\ tab[u].answer.jar.notice.id <= notices
  BY DEF NoticeInv, Issued, SetBy
<1>6. \A u \in Tabs : /\ tab[u].sent.notice.id \in Nat
                      /\ tab[u].answer.shows \in Nat
                      /\ tab[u].answer.jar.notice.id \in Nat
  BY NoticeNumbers DEF SetBy
<1>7. Fresh(t)'
  <2>1. \A v \in Tabs : /\ tab'[v].answer.shows <= notices
                        /\ tab'[v].sent.notice.id <= notices
                        /\ v # t => tab'[v].answer.jar.notice.id <= notices
    BY <1>2, <1>5, NoticeNumbers
  <2>2. \A v \in Tabs : /\ tab'[v].answer.shows # notices + 1
                        /\ tab'[v].sent.notice.id # notices + 1
                        /\ v # t => tab'[v].answer.jar.notice.id # notices + 1
    BY <1>2, <1>5, <1>6, NoticeNumbers
  <2>3. notices + 1 \notin seen' /\ notices + 1 # jar'.notice.id
    BY <1>3, <1>4, NoticeNumbers
  <2>4. \A v \in Tabs \ {t} : SetBy(v)' # notices + 1
    BY <2>2 DEF SetBy
  <2>5. SetBy(t)' = notices + 1
    BY <1>2 DEF SetBy
  <2> QED
    BY <1>2, <2>2, <2>3, <2>4, <2>5 DEF Fresh
<1>8. ASSUME NEW u \in Tabs
      PROVE  Fresh(u)'
  <2>1. CASE u = t
    BY <1>7, <2>1
  <2>2. CASE u # t
    <3>1. Fresh(u) /\ tab'[u] = tab[u]
      BY <2>2 DEF NoticeInv
    <3>2. tab[u].answer.jar.notice.id # notices + 1
      BY <1>5, <1>6, NoticeNumbers
    <3> QED
      BY <1>2, <2>2, <3>1, <3>2 DEF Fresh, SetBy
  <2> QED
    BY <2>1, <2>2
<1>9. ASSUME NEW u \in Tabs
      PROVE  Clears(u)'
  BY <1>2 DEF NoticeInv, Clears
<1>10. Issued'
  BY <1>2, <1>3, <1>4, <1>5, <1>6, NoticeNumbers DEF Issued, SetBy
<1> QED
  BY <1>8, <1>9, <1>10 DEF NoticeInv, NoticeOnce

LEMMA ReceiveStep ==
    ASSUME NoticeInv, TypeOK', NEW t \in Tabs, Receive(t)
    PROVE  NoticeInv'
<1> TypeOK
  BY DEF NoticeInv
<1>1. NoNotice.id = 0 /\ EmptyJar.notice = NoNotice
  BY Carried DEF NoNotice
<1>2. /\ tab'[t] = Showing(tab[t].answer.form) /\ \A u \in Tabs \ {t} : tab'[u] = tab[u]
      /\ notices' = notices
  BY DEF Receive, Goto, TypeOK, counters
<1>3. /\ tab'[t].sent.notice.id = 0 /\ tab'[t].answer.shows = 0
      /\ tab'[t].answer.jar.notice.id = 0
  BY <1>1, <1>2, Carried
<1>4. jar'.notice = IF "notice" \in tab[t].answer.sets THEN tab[t].answer.jar.notice
                                                       ELSE jar.notice
  BY DEF Receive, Cookies
<1>5. seen' = IF tab[t].answer.shows = 0 THEN seen ELSE seen \cup {tab[t].answer.shows}
  BY DEF Receive
<1>6. Clears(t) /\ Fresh(t) /\ 0 \notin seen /\ jar.notice.id \notin seen
  BY DEF NoticeInv, NoticeOnce
<1>7. jar'.notice.id \in {jar.notice.id, SetBy(t)}
  BY <1>4 DEF SetBy
<1>8. jar'.notice.id \notin seen' /\ 0 \notin seen'
  <2>1. CASE tab[t].answer.shows = 0
    BY <1>5, <1>6, <1>7, <2>1 DEF Fresh
  <2>2. CASE tab[t].answer.shows # 0
    BY <1>1, <1>4, <1>5, <1>6, <2>2 DEF Clears
  <2> QED
    BY <2>1, <2>2
<1>9. ASSUME NEW u \in Tabs
      PROVE  Fresh(u)'
  <2>1. CASE u = t
    BY <1>3, <2>1 DEF Fresh, SetBy
  <2>2. CASE u # t
    <3>1. Fresh(u) /\ tab'[u] = tab[u]
      BY <1>2, <2>2 DEF NoticeInv
    <3>2. SetBy(u) # 0 => SetBy(u) \notin seen' /\ SetBy(u) # jar'.notice.id
      BY <1>5, <1>7, <2>2, <3>1 DEF Fresh
    <3> QED
      BY <1>2, <1>3, <3>1, <3>2 DEF Fresh, SetBy
  <2> QED
    BY <2>1, <2>2
<1>10. ASSUME NEW u \in Tabs
       PROVE  Clears(u)'
  BY <1>2, <1>3 DEF NoticeInv, Clears
<1>11. Issued'
  BY <1>2, <1>3, <1>5, <1>7, NoticeNumbers DEF NoticeInv, Issued, SetBy
<1> QED
  BY <1>8, <1>9, <1>10, <1>11 DEF NoticeInv, NoticeOnce

LEMMA NoticeStep == NoticeInv /\ [Next]_vars => NoticeInv'
<1> SUFFICES ASSUME NoticeInv, [Next]_vars PROVE NoticeInv'
  OBVIOUS
<1>1. TypeOK /\ TypeOK'
  BY TypeStep DEF NoticeInv
<1>2. CASE UNCHANGED <<jar, tab, seen, notices>>
  BY <1>1, <1>2, QuietStep DEF AsBefore
<1>3. CASE \E t \in Tabs, ask \in Asks, password \in Passwords \cup {None} :
             Send(t, ask, password)
  <2>1. PICK t \in Tabs, ask \in Asks, password \in Passwords \cup {None} :
          Send(t, ask, password)
    BY <1>3
  <2>2. Carries(ask).notice \in {NoNotice, jar.notice}
    BY Carried DEF Carries
  <2>3. tab'[t].sent = Carries(ask) /\ tab'[t].answer = Plain
    BY <1>1, <2>1 DEF Send, Goto, TypeOK
  <2>4. \A u \in Tabs \ {t} : tab'[u] = tab[u]
    BY <1>1, <2>1 DEF Send, Goto, TypeOK
  <2>5. UNCHANGED <<jar, seen, notices>>
    BY <2>1 DEF Send, counters
  <2>6. \A u \in Tabs : Emptied(u) \/ AsBefore(u)
    BY <2>2, <2>3, <2>4 DEF Emptied, AsBefore
  <2> QED
    BY <1>1, <2>5, <2>6, QuietStep
<1>4. CASE \E t \in Tabs : Receive(t)
  BY <1>1, <1>4, ReceiveStep
<1>5. CASE \E t \in Tabs : Handle(t)
  <2>1. PICK t \in Tabs : Handle(t)
    BY <1>5
  <2>2. UNCHANGED <<jar, seen>> /\ \A u \in Tabs \ {t} : tab'[u] = tab[u]
    BY <1>1, <2>1, HandlerLeaves
  <2>3. CASE Announced(t)
    BY <1>1, <2>2, <2>3, AnnounceStep
  <2>4. CASE notices' = notices /\ (Emptied(t) \/ AsBefore(t) \/ Replied(t))
    <3>1. \A u \in Tabs : Emptied(u) \/ AsBefore(u) \/ Replied(u)
      BY <2>2, <2>4 DEF AsBefore
    <3> QED
      BY <1>1, <2>2, <2>4, <3>1, QuietStep
  <2> QED
    BY <1>1, <2>1, <2>3, <2>4, HandlerNotices
<1>6. CASE Stop
  <2>1. \A t \in Tabs : tab'[t] = tab[t] \/ tab'[t] = Showing(tab[t].form)
    BY <1>6 DEF Stop
  <2>2. \A t \in Tabs : Emptied(t) \/ AsBefore(t)
    BY <2>1, Carried DEF Emptied, AsBefore
  <2> QED
    BY <1>1, <1>6, <2>2, QuietStep DEF Stop, counters
<1>7. CASE Start \/ Tick \/ \E password \in Passwords : SetAdminPassword(password)
  BY <1>2, <1>7 DEF Start, Tick, SetAdminPassword, counters
<1>8. CASE UNCHANGED vars
  BY <1>2, <1>8 DEF vars, counters
<1> QED
  BY <1>3, <1>4, <1>5, <1>6, <1>7, <1>8 DEF Next

LEMMA NoticeInit == Init => NoticeInv
<1> SUFFICES ASSUME Init PROVE NoticeInv
  OBVIOUS
<1>1. NoNotice.id = 0
  BY DEF NoNotice
<1>2. /\ jar.notice.id = 0 /\ seen = {} /\ notices = 0
      /\ \A t \in Tabs : /\ tab[t].sent.notice.id = 0 /\ tab[t].answer.shows = 0
                         /\ tab[t].answer.jar.notice.id = 0
  BY <1>1, Carried DEF Init
<1> QED
  BY <1>2, TypeInit DEF NoticeInv, NoticeOnce, Issued, Fresh, Clears, SetBy

\* No request that is sent after a page has shown a notice carries it again.
THEOREM NoticeOnceHolds == Spec => []NoticeOnce
<1>1. NoticeInv => NoticeOnce
  BY DEF NoticeInv
<1> QED
  BY <1>1, NoticeInit, NoticeStep, PTL DEF Spec
=============================================================================
