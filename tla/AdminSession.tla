----------------------------- MODULE AdminSession -----------------------------
(***************************************************************************)
(* Who may change anything through the web administration (src/web.rs):     *)
(* the signed session and the login token and notice cookies of a browser,  *)
(* its tabs, whose requests overlap, and the process that serves them with   *)
(* the copy of the authentication file it made when it started, while       *)
(* ssh-exam-admin set-admin-password replaces that file.                    *)
(*                                                                         *)
(* A request takes along the cookies the browser holds when it is sent, and  *)
(* what its answer says about cookies counts when the answer arrives: other *)
(* answers may have come in between.  A signature is modelled by the secret *)
(* that made it; every secret and nonce is drawn anew.                      *)
(***************************************************************************)
EXTENDS Naturals

CONSTANTS
    Tabs,        \* of the one browser an administrator uses
    Passwords,
    Ttl,         \* session_ttl_seconds
    NoticeTtl,   \* of a flash message
    MaxClock, MaxSecret, MaxSession, MaxNotice,   \* bounds of the model
    None

ASSUME SessionAssumption ==
    /\ {Ttl, NoticeTtl, MaxClock, MaxSecret, MaxSession, MaxNotice} \subseteq Nat
    /\ None \notin Passwords \cup Tabs

VARIABLES
    clock,      \* unix_time
    auth,       \* the authentication file
    server,     \* what the running process loaded from it, Down when none runs
    jar,        \* the cookies of the browser
    tab,        \* the page and the request of each tab
    sessions,   \* number of sessions issued
    notices,    \* number of notices issued
    seen        \* history: notices that a page on screen has shown

counters == <<sessions, notices>>
vars == <<clock, auth, server, jar, tab, counters, seen>>

Auth == [password : Passwords, secret : Nat]
Down == [password |-> None, secret |-> 0]

\* password is history: what the session was issued for.
Session == [id : Nat, expires : Nat, secret : Nat, password : Passwords \cup {None}]
NoSession == [id |-> 0, expires |-> 0, secret |-> 0, password |-> None]

Token == [tab : Tabs \cup {None}, secret : Nat]
NoToken == [tab |-> None, secret |-> 0]

Notice == [id : Nat, expires : Nat, secret : Nat]
NoNotice == [id |-> 0, expires |-> 0, secret |-> 0]

Jar == [session : Session, token : Token, notice : Notice]
Cookies(session, token, notice) == [session |-> session, token |-> token, notice |-> notice]
EmptyJar == Cookies(NoSession, NoToken, NoNotice)

\* The forms on a page: the login form, or those of the administration with
\* the csrf value of a session.
Form == [kind : {"none", "login", "admin"}, session : Nat, secret : Nat]
NoForm == [kind |-> "none", session |-> 0, secret |-> 0]

\* What an answer brings: a page, cookies to set, a notice to show.
Answer == [form : Form, sets : SUBSET {"session", "token", "notice"}, jar : Jar, shows : Nat]
Answering(form, sets, cookies, shows) ==
    [form |-> form, sets |-> sets, jar |-> cookies, shows |-> shows]
Plain == Answering(NoForm, {}, EmptyJar, 0)

Asks == {"login page", "login", "page", "create", "change", "logout"}

Tab == [pc : {"idle", "sent", "verifying", "authorized", "answered"},
        form : Form,
        ask : Asks \cup {"none"},
        password : Passwords \cup {None},
        sent : Jar,
        answer : Answer]

\* A tab between two requests, and one whose answer is on its way.
Showing(form) == [pc |-> "idle", form |-> form, ask |-> "none", password |-> None,
                  sent |-> EmptyJar, answer |-> Plain]
At(x, pc) == [pc |-> pc, form |-> x.form, ask |-> x.ask, password |-> x.password,
              sent |-> x.sent, answer |-> x.answer]
Answered(answer) == [pc |-> "answered", form |-> NoForm, ask |-> "none",
                     password |-> None, sent |-> EmptyJar, answer |-> answer]

Init ==
    /\ clock = 0
    /\ auth \in [password : Passwords, secret : {1}]
    /\ server = Down
    /\ jar = EmptyJar
    /\ tab = [t \in Tabs |-> Showing(NoForm)]
    /\ sessions = 0 /\ notices = 0
    /\ seen = {}

Up == server.secret # 0

Goto(t, x) == tab' = [tab EXCEPT ![t] = x]

-----------------------------------------------------------------------------
(* The browser.                                                            *)

\* The cookies of a request that its handler reads.
Carries(ask) ==
    Cookies(IF ask = "login" THEN NoSession ELSE jar.session,
            IF ask = "login" THEN jar.token ELSE NoToken,
            IF ask = "page" THEN jar.notice ELSE NoNotice)

\* A form is sent from a page that has it.
Send(t, ask, password) ==
    /\ tab[t].pc = "idle"
    /\ ask = "login" => tab[t].form.kind = "login" /\ password # None
    /\ ask # "login" => password = None
    /\ ask \in {"create", "change", "logout"} => tab[t].form.kind = "admin"
    /\ Goto(t, [pc |-> "sent", ask |-> ask, password |-> password, sent |-> Carries(ask),
                form |-> IF ask \in {"page", "login page"} THEN NoForm ELSE tab[t].form,
                answer |-> Plain])
    /\ UNCHANGED <<clock, auth, server, jar, counters, seen>>

\* The answer arrives.
Receive(t) ==
    LET a == tab[t].answer IN
    /\ tab[t].pc = "answered"
    /\ jar' = Cookies(IF "session" \in a.sets THEN a.jar.session ELSE jar.session,
                      IF "token" \in a.sets THEN a.jar.token ELSE jar.token,
                      IF "notice" \in a.sets THEN a.jar.notice ELSE jar.notice)
    /\ seen' = IF a.shows = 0 THEN seen ELSE seen \cup {a.shows}
    /\ Goto(t, Showing(a.form))
    /\ UNCHANGED <<clock, auth, server, counters>>

-----------------------------------------------------------------------------
(* Signed values.                                                          *)

\* session_from_headers
ValidSession(s) ==
    /\ s.id # 0
    /\ s.secret = server.secret
    /\ s.expires >= clock

\* new_session
NewSession(id) == [id |-> id, expires |-> clock + Ttl, secret |-> server.secret,
                   password |-> server.password]

\* flash_message
ValidNotice(n) ==
    /\ n.id # 0
    /\ n.secret = server.secret
    /\ n.expires >= clock

Shown(n) == IF ValidNotice(n) THEN n.id ELSE 0

NewNotice(id) == [id |-> id, expires |-> clock + NoticeTtl, secret |-> server.secret]

\* render_login
LoginForm(t) ==
    Answering([kind |-> "login", session |-> 0, secret |-> server.secret], {"token"},
              Cookies(NoSession, [tab |-> t, secret |-> server.secret], NoNotice), 0)

\* csrf_for_session, in every form of a page of the administration.
AdminForm(s) == [kind |-> "admin", session |-> s.id, secret |-> server.secret]

-----------------------------------------------------------------------------
(* The handlers.                                                           *)

Ask(t, point, ask) == Up /\ tab[t].pc = point /\ tab[t].ask = ask

Reply(t, answer) == Goto(t, Answered(answer))

LoginPage(t) ==
    /\ Ask(t, "sent", "login page")
    /\ \/ ValidSession(tab[t].sent.session) /\ Reply(t, Plain)
       \/ ~ValidSession(tab[t].sent.session) /\ Reply(t, LoginForm(t))
    /\ UNCHANGED <<clock, auth, server, jar, counters, seen>>

\* validate_login_csrf: the token of the cookie is the one in the form.
TokenMatches(t) ==
    /\ tab[t].sent.token = [tab |-> t, secret |-> server.secret]
    /\ tab[t].form.secret = server.secret

\* login, until the password is verified on another thread.
Verify(t) ==
    /\ Ask(t, "sent", "login")
    /\ TokenMatches(t)
    /\ Goto(t, At(tab[t], "verifying"))
    /\ UNCHANGED <<clock, auth, server, jar, counters, seen>>

\* No token, or too many failures (LoginThrottle).
RefuseLogin(t) ==
    /\ Ask(t, "sent", "login")
    /\ Reply(t, Plain)
    /\ UNCHANGED <<clock, auth, server, jar, counters, seen>>

\* The new session comes, the token of the login page goes.
LogIn(t) ==
    /\ Ask(t, "verifying", "login")
    /\ tab[t].password = server.password
    /\ sessions < MaxSession
    /\ sessions' = sessions + 1
    /\ Reply(t, Answering(NoForm, {"session", "token"},
                          Cookies(NewSession(sessions + 1), NoToken, NoNotice), 0))
    /\ UNCHANGED <<clock, auth, server, jar, notices, seen>>

WrongPassword(t) ==
    /\ Ask(t, "verifying", "login")
    /\ tab[t].password # server.password
    /\ Reply(t, LoginForm(t))
    /\ UNCHANGED <<clock, auth, server, jar, counters, seen>>

\* Slip: the page shows the notice and leaves the cookie alone.
ShowPageKeepingNotice(t) ==
    /\ Ask(t, "sent", "page")
    /\ ValidSession(tab[t].sent.session)
    /\ Reply(t, Answering(AdminForm(tab[t].sent.session), {}, EmptyJar,
                          Shown(tab[t].sent.notice)))
    /\ UNCHANGED <<clock, auth, server, jar, counters, seen>>

\* Every page: flash_message, and clear_flash whether there was one or not.
ShowPage(t) ==
    /\ Ask(t, "sent", "page")
    /\ ValidSession(tab[t].sent.session)
    /\ Reply(t, Answering(AdminForm(tab[t].sent.session), {"notice"}, EmptyJar,
                          Shown(tab[t].sent.notice)))
    /\ UNCHANGED <<clock, auth, server, jar, counters, seen>>

SendToLogin(t) ==
    /\ Ask(t, "sent", "page")
    /\ ~ValidSession(tab[t].sent.session)
    /\ Reply(t, Plain)
    /\ UNCHANGED <<clock, auth, server, jar, counters, seen>>

\* Slip: any csrf value made with the right secret will do.
AuthorizedByAnyPage(t) ==
    /\ ValidSession(tab[t].sent.session)
    /\ tab[t].form.secret = server.secret

\* authorize_mutation
Authorized(t) ==
    /\ ValidSession(tab[t].sent.session)
    /\ tab[t].form = AdminForm(tab[t].sent.session)

Mutations == {"create", "change", "logout"}

Authorize(t) ==
    /\ \E ask \in Mutations : Ask(t, "sent", ask)
    /\ Authorized(t)
    /\ Goto(t, At(tab[t], "authorized"))
    /\ UNCHANGED <<clock, auth, server, jar, counters, seen>>

\* mutation_rejection
Reject(t) ==
    /\ \E ask \in Mutations : Ask(t, "sent", ask)
    /\ ~Authorized(t)
    /\ Reply(t, Plain)
    /\ UNCHANGED <<clock, auth, server, jar, counters, seen>>

\* The operation succeeds: flash_redirect.
Change(t) ==
    /\ Ask(t, "authorized", "create") \/ Ask(t, "authorized", "change")
    /\ notices < MaxNotice
    /\ notices' = notices + 1
    /\ Reply(t, Answering(NoForm, {"notice"},
                          Cookies(NoSession, NoToken, NewNotice(notices + 1)), 0))
    /\ UNCHANGED <<clock, auth, server, jar, sessions, seen>>

\* Slip: create_person reads the session again as if it might end sooner.
EndsSooner(s) == s.expires > clock

\* It fails: the page is shown again.  create_person reads the session once
\* more for this, and expects to find it.
StillThere(s) == ValidSession(s)

FailChange(t) ==
    /\ \/ Ask(t, "authorized", "change")
       \/ Ask(t, "authorized", "create") /\ StillThere(tab[t].sent.session)
    /\ Reply(t, Answering(AdminForm(tab[t].sent.session), {}, EmptyJar, 0))
    /\ UNCHANGED <<clock, auth, server, jar, counters, seen>>

\* expect("authorized session") panics: the connection closes, no answer.
Panic(t) ==
    /\ Ask(t, "authorized", "create") /\ ~StillThere(tab[t].sent.session)
    /\ Goto(t, Showing(tab[t].form))
    /\ UNCHANGED <<clock, auth, server, jar, counters, seen>>

LogOut(t) ==
    /\ Ask(t, "authorized", "logout")
    /\ Reply(t, Answering(NoForm, {"session"}, EmptyJar, 0))
    /\ UNCHANGED <<clock, auth, server, jar, counters, seen>>

-----------------------------------------------------------------------------
(* The process and the file.                                               *)

Start ==
    /\ ~Up
    /\ server' = auth
    /\ UNCHANGED <<clock, auth, jar, tab, counters, seen>>

\* The requests under way are lost, answers that were sent are not.
Stop ==
    /\ Up
    /\ server' = Down
    /\ tab' = [t \in Tabs |-> IF tab[t].pc \in {"sent", "verifying", "authorized"}
                                THEN Showing(tab[t].form) ELSE tab[t]]
    /\ UNCHANGED <<clock, auth, jar, counters, seen>>

\* Slip: write_admin_auth keeps the secret of the file it replaces.
SetAdminPasswordOnly(password) ==
    /\ auth.secret < MaxSecret
    /\ auth' = [auth EXCEPT !.password = password]
    /\ UNCHANGED <<clock, server, jar, tab, counters, seen>>

\* One rename replaces password hash and secret together.
SetAdminPassword(password) ==
    /\ auth.secret < MaxSecret
    /\ auth' = [password |-> password, secret |-> auth.secret + 1]
    /\ UNCHANGED <<clock, server, jar, tab, counters, seen>>

Tick ==
    /\ clock < MaxClock
    /\ clock' = clock + 1
    /\ UNCHANGED <<auth, server, jar, tab, counters, seen>>

-----------------------------------------------------------------------------
Handle(t) ==
    \/ LoginPage(t) \/ Verify(t) \/ RefuseLogin(t) \/ LogIn(t) \/ WrongPassword(t)
    \/ ShowPage(t) \/ SendToLogin(t)
    \/ Authorize(t) \/ Reject(t) \/ Change(t) \/ FailChange(t) \/ Panic(t) \/ LogOut(t)

Next ==
    \/ \E t \in Tabs, ask \in Asks, password \in Passwords \cup {None} :
         Send(t, ask, password)
    \/ \E t \in Tabs : Receive(t) \/ Handle(t)
    \/ Start \/ Stop \/ Tick
    \/ \E password \in Passwords : SetAdminPassword(password)

Spec == Init /\ [][Next]_vars

-----------------------------------------------------------------------------
(* Properties.                                                             *)

\* Every field holds a value of its kind, and the process runs with what some
\* version of the file said (WebState::new_with_catalog).
TypeOK ==
    /\ clock \in Nat
    /\ auth \in Auth
    /\ server \in Auth \cup {Down}
    /\ jar \in Jar
    /\ tab \in [Tabs -> Tab]
    /\ sessions \in Nat
    /\ notices \in Nat
    /\ seen \subseteq Nat

\* A session that the process accepts, in the browser or on its way, was
\* issued to somebody who gave the password the process runs with: after a new
\* password and a restart no earlier session counts, however it is delayed
\* (README, Password rotation; write_admin_auth draws a new secret).
ProvesPassword(s) == s.id # 0 /\ s.secret = server.secret => s.password = server.password

SessionProvesPassword ==
    /\ ProvesPassword(jar.session)
    /\ \A t \in Tabs : /\ ProvesPassword(tab[t].sent.session)
                       /\ ProvesPassword(tab[t].answer.jar.session)

\* Whatever a request changes, it changes for a session of the password the
\* process runs with, from a form made for that session: a page left over from
\* an earlier login or an earlier password changes nothing, however long the
\* request waits between authorize_mutation and the operation.
ChangesAreAuthorized ==
    [][\A t \in Tabs : tab[t].pc = "authorized" /\ tab'[t].pc = "answered" =>
         /\ tab[t].sent.session.password = server.password
         /\ tab[t].form.session = tab[t].sent.session.id
         /\ tab[t].form.secret = tab[t].sent.session.secret]_vars

\* README, Security Model: "one-time signed flash messages": once a page with
\* a notice is on screen, no request that is sent from then on shows it again,
\* whichever order the answers of other tabs arrive in.
NoticeOnce == jar.notice.id \notin seen

\* A request that was authorized is answered, unless the process stops or the
\* session came to its end in between (create_person, expect).
AnsweredUnlessExpired ==
    [][\A t \in Tabs : tab[t].pc = "authorized" /\ tab'[t].pc = "idle" =>
         server' = Down \/ tab[t].sent.session.expires < clock]_vars
=============================================================================
