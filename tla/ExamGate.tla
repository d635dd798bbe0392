------------------------------ MODULE ExamGate ------------------------------
(***************************************************************************)
(* The gate: the SQLite database of people, keys, tests, publications,     *)
(* passes and attempts (src/db.rs and migrations/), the administration     *)
(* operations on it, the OpenSSH key-policy decision (src/policy.rs), the  *)
(* terminal exam (src/bin/ssh-exam-tui.rs) and the starts that bring the   *)
(* passes of an earlier version along, all interleaved.                    *)
(*                                                                         *)
(* Every database call opens its own connection and is one statement or    *)
(* one IMMEDIATE transaction, so each is one atomic action here.  A call   *)
(* that returns an error leaves the database alone; in the administration  *)
(* it is then no step at all, in a terminal session it ends the session.   *)
(***************************************************************************)
EXTENDS Naturals, FiniteSets

CONSTANTS
    MaxPerson,     \* bound on the row ids of table persons
    Humans,        \* the people whom administrators register
    Users,         \* Unix accounts of the host
    Fingerprints,  \* SHA256 fingerprints of public keys
    Tests,         \* test ids
    Revisions,     \* SHA256 revisions of published snapshots
    TestOf,        \* the test a revision is a snapshot of
    MaxAttempts,   \* the attempt limit inside that snapshot
    Sessions,      \* concurrent SSH connections
    Starts,        \* processes of init, migrate and serve
    LegacyTest,    \* LEGACY_BANK_ID, the test that they make
    None           \* SQL NULL, or nothing at all

ASSUME MaxPersonAssumption == MaxPerson \in Nat
ASSUME TestOfAssumption == TestOf \in [Revisions -> Tests]
ASSUME MaxAttemptsAssumption == MaxAttempts \in [Revisions -> Nat \ {0}]
ASSUME LegacyTestAssumption == LegacyTest \in Tests
ASSUME NoneAssumption ==
    None \notin Users \cup Fingerprints \cup Revisions \cup Humans

PersonIds == 1 .. MaxPerson

VARIABLES
    people,     \* persons.id of the rows present
    personOn,   \* those with persons.enabled = 1
    account,    \* persons.unix_username
    human,      \* whom the row was created for; no update changes it
    passedAt,   \* those with a persons.passed_at: passes of versions without tests
    owner,      \* ssh_keys.person_id by fingerprint, 0 where there is no row
    keyOn,      \* fingerprints whose row has ssh_keys.enabled = 1
    tests,      \* tests.id
    pubs,       \* test_publications.revision
    active,     \* active_test_publication, None before the first publication
    passes,     \* exam_passes: <<person_id, revision>>
    failed,     \* number of exam_attempts rows with passed = 0
    won,        \* number of exam_attempts rows with passed = 1
    carried,    \* those of passes that a start took from passedAt; no step reads it
    start,      \* one process in ensure_legacy_test
    tui         \* one SSH connection: key policy, forced command, exam

personVars  == <<people, personOn, account, human>>
keyVars     == <<owner, keyOn>>
testVars    == <<tests, pubs, active>>
recordVars  == <<passes, failed, won, carried, passedAt>>
vars == <<personVars, keyVars, testVars, recordVars, start, tui>>

Pairs == PersonIds \X Revisions

(***************************************************************************)
(* A connection.  "started": sshd got a Pending line for user and fp and   *)
(* runs ssh-exam-tui; "resolved", "identified": the two reads of           *)
(* load_identity; "exam": questions are on screen; "result": the attempt   *)
(* is stored; "shell": sshd got a Passed line.                             *)
(***************************************************************************)
AtExam == {"resolved", "identified", "exam", "result"}

Session == [pc     : {"idle", "started", "shell"} \cup AtExam,
            user   : Users \cup {None},
            fp     : Fingerprints \cup {None},
            pid    : PersonIds \cup {0},
            human  : Humans \cup {None},
            rev    : Revisions \cup {None},
            passed : BOOLEAN,
            count  : Nat]

Idle == [pc |-> "idle", user |-> None, fp |-> None, pid |-> 0,
         human |-> None, rev |-> None, passed |-> FALSE, count |-> 0]

(***************************************************************************)
(* A start.  "off": not running, or past ensure_legacy_test; any other     *)
(* point is the call that comes next.  rev is what publish_test returned.  *)
(***************************************************************************)
StartPoints == {"off", "list", "create", "publish", "read", "carry", "clear"}

StartUp == [pc : StartPoints, rev : Revisions \cup {None}]

Off == [pc |-> "off", rev |-> None]

\* Whatever a version before the fourth left behind, or nothing at all.  Those
\* versions know no tests; their attempts name none and are counted for none,
\* their passes are in passed_at.
Init ==
    /\ people \in SUBSET PersonIds
    /\ personOn \in SUBSET people
    /\ account \in [PersonIds -> Users \cup {None}]
    /\ human \in [PersonIds -> Humans \cup {None}]
    /\ \A p \in PersonIds : IF p \in people THEN human[p] # None
                                          ELSE human[p] = None /\ account[p] = None
    /\ \A p, q \in people : account[p] # None /\ account[p] = account[q] => p = q
    /\ owner \in [Fingerprints -> people \cup {0}]
    /\ keyOn \in SUBSET {f \in Fingerprints : owner[f] # 0}
    /\ passedAt \in SUBSET people
    /\ tests = {} /\ pubs = {} /\ active = None
    /\ passes = {} /\ carried = {}
    /\ failed = [e \in Pairs |-> 0]
    /\ won = [e \in Pairs |-> 0]
    /\ start = [q \in Starts |-> Off]
    /\ tui = [s \in Sessions |-> Idle]

-----------------------------------------------------------------------------
(* People.                                                                 *)

\* INTEGER PRIMARY KEY without AUTOINCREMENT: the largest id present plus
\* one, so the id of the last row is given out again once it is deleted.
NextRowId(p) ==
    /\ p \notin people
    /\ \A q \in people : q < p
    /\ p = 1 \/ p - 1 \in people

\* Slip: uniqueness looked up among enabled people only.
AccountFreeAmongEnabled(p, u) ==
    u = None \/ \A q \in personOn \ {p} : account[q] # u

\* The partial unique index person_unix_username.
AccountFree(p, u) == u = None \/ \A q \in people \ {p} : account[q] # u

CreatePerson(p, h, u) ==
    /\ NextRowId(p)
    /\ AccountFree(p, u)
    /\ people' = people \cup {p}
    /\ personOn' = personOn \cup {p}
    /\ account' = [account EXCEPT ![p] = u]
    /\ human' = [human EXCEPT ![p] = h]
    /\ UNCHANGED <<keyVars, testVars, recordVars, start, tui>>

\* update_person and set_person_unix_username; the display name is not kept.
UpdatePerson(p, u) ==
    /\ p \in people
    /\ AccountFree(p, u)
    /\ account' = [account EXCEPT ![p] = u]
    /\ UNCHANGED <<people, personOn, human, keyVars, testVars, recordVars, start, tui>>

SetPersonEnabled(p, on) ==
    /\ p \in people
    /\ personOn' = IF on THEN personOn \cup {p} ELSE personOn \ {p}
    /\ UNCHANGED <<people, account, human, keyVars, testVars, recordVars, start, tui>>

\* The rows of exam_passes and exam_attempts of these pairs go.
Erase(gone) ==
    /\ passes' = passes \ gone
    /\ carried' = carried \ gone
    /\ failed' = [e \in Pairs |-> IF e \in gone THEN 0 ELSE failed[e]]
    /\ won' = [e \in Pairs |-> IF e \in gone THEN 0 ELSE won[e]]

\* Slip: PRAGMA foreign_keys left at SQLite's default, so nothing cascades.
DeletePersonAlone(p) ==
    /\ p \in people
    /\ people' = people \ {p}
    /\ personOn' = personOn \ {p}
    /\ account' = [account EXCEPT ![p] = None]
    /\ human' = [human EXCEPT ![p] = None]
    /\ passedAt' = passedAt \ {p}
    /\ UNCHANGED <<keyVars, testVars, passes, failed, won, carried, start, tui>>

\* ON DELETE CASCADE takes the keys, attempts and passes of the row along.
DeletePerson(p) ==
    /\ p \in people
    /\ people' = people \ {p}
    /\ personOn' = personOn \ {p}
    /\ account' = [account EXCEPT ![p] = None]
    /\ human' = [human EXCEPT ![p] = None]
    /\ owner' = [f \in Fingerprints |-> IF owner[f] = p THEN 0 ELSE owner[f]]
    /\ keyOn' = {f \in keyOn : owner[f] # p}
    /\ passedAt' = passedAt \ {p}
    /\ Erase({e \in Pairs : e[1] = p})
    /\ UNCHANGED <<testVars, start, tui>>

\* Slip: the pass is cleared, its attempts stay.
ResetExamPassOnly(p) ==
    /\ p \in people
    /\ passedAt' = passedAt \ {p}
    /\ passes' = passes \ {<<p, active>>}
    /\ carried' = carried \ {<<p, active>>}
    /\ UNCHANGED <<personVars, keyVars, testVars, failed, won, start, tui>>

\* Slip: the DELETEs lost their test_id and revision conditions.
ResetExamEverything(p) ==
    /\ p \in people
    /\ passedAt' = passedAt \ {p}
    /\ Erase({e \in Pairs : e[1] = p})
    /\ UNCHANGED <<personVars, keyVars, testVars, start, tui>>

\* Clears a pass of an earlier version, and passes and attempts of the revision
\* that is active now, no other.
ResetExam(p) ==
    /\ p \in people
    /\ passedAt' = passedAt \ {p}
    /\ Erase({<<p, active>>})
    /\ UNCHANGED <<personVars, keyVars, testVars, start, tui>>

-----------------------------------------------------------------------------
(* Keys.  The UNIQUE fingerprint names the row.                            *)

AddKey(p, f) ==
    /\ p \in people
    /\ owner[f] = 0
    /\ owner' = [owner EXCEPT ![f] = p]
    /\ keyOn' = keyOn \cup {f}
    /\ UNCHANGED <<personVars, testVars, recordVars, start, tui>>

SetKeyEnabled(f, on) ==
    /\ owner[f] # 0
    /\ keyOn' = IF on THEN keyOn \cup {f} ELSE keyOn \ {f}
    /\ UNCHANGED <<personVars, owner, testVars, recordVars, start, tui>>

RemoveKey(f) ==
    /\ owner[f] # 0
    /\ owner' = [owner EXCEPT ![f] = 0]
    /\ keyOn' = keyOn \ {f}
    /\ UNCHANGED <<personVars, testVars, recordVars, start, tui>>

-----------------------------------------------------------------------------
(* Tests and publications.  What a draft says is left to Publishing: here  *)
(* the revision that publishing it yields is any revision of that test.    *)

CreateTest(t) ==
    /\ t \notin tests
    /\ tests' = tests \cup {t}
    /\ UNCHANGED <<personVars, keyVars, pubs, active, recordVars, start, tui>>

\* The transaction of publish_test: reuse or insert, then make active.
Publication(r) ==
    /\ TestOf[r] \in tests
    /\ pubs' = pubs \cup {r}
    /\ active' = r
    /\ UNCHANGED tests

PublishTest(r) ==
    /\ Publication(r)
    /\ UNCHANGED <<personVars, keyVars, recordVars, start, tui>>

ActivatePublication(r) ==
    /\ r \in pubs
    /\ active' = r
    /\ UNCHANGED <<personVars, keyVars, tests, pubs, recordVars, start, tui>>

\* Slip: only the active test is protected.
NotActive(t) == \A r \in pubs : r = active => TestOf[r] # t

\* delete_test refuses the active test and any test with publications.
NeverPublished(t) == \A r \in pubs : TestOf[r] # t

DeleteTest(t) ==
    /\ t \in tests
    /\ NeverPublished(t)
    /\ tests' = tests \ {t}
    /\ Erase({e \in Pairs : TestOf[e[2]] = t})
    /\ UNCHANGED <<personVars, keyVars, pubs, active, passedAt, start, tui>>

-----------------------------------------------------------------------------
(* The key policy and the terminal exam.                                   *)

\* Slip: the active publication is joined with LEFT JOIN.
ResolvesUnpublished(u, f, p) ==
    /\ owner[f] = p
    /\ f \in keyOn
    /\ p \in personOn
    /\ account[p] = u

\* The join of resolve_policy: enabled person, enabled key, the account, and
\* an active publication.
Resolves(u, f, p) ==
    /\ active # None
    /\ owner[f] = p
    /\ f \in keyOn
    /\ p \in personOn
    /\ account[p] = u

\* Slip: the pass is matched by test_id and not by revision.
HasPassOfTest(p) ==
    \E r \in Revisions : <<p, r>> \in passes /\ TestOf[r] = TestOf[active]

\* Its EXISTS column.
HasPass(p) == <<p, active>> \in passes

\* sshd runs ssh-exam-key-policy: Pending is the forced command, Passed the
\* plain key, Deny no line and no session.
Connect(s, u, f, p) ==
    /\ tui[s].pc = "idle"
    /\ Resolves(u, f, p)
    /\ tui' = [tui EXCEPT ![s] =
                 IF HasPass(p)
                   THEN [Idle EXCEPT !.pc = "shell", !.user = u, !.fp = f, !.pid = p]
                   ELSE [Idle EXCEPT !.pc = "started", !.user = u, !.fp = f]]
    /\ UNCHANGED <<personVars, keyVars, testVars, recordVars, start>>

\* load_identity, first connection: the policy query again.
ResolvePolicy(s, p) ==
    /\ tui[s].pc = "started"
    /\ Resolves(tui[s].user, tui[s].fp, p)
    /\ tui' = [tui EXCEPT ![s] = [@ EXCEPT !.pc = "resolved", !.pid = p,
                                           !.rev = active, !.passed = HasPass(p)]]
    /\ UNCHANGED <<personVars, keyVars, testVars, recordVars, start>>

\* load_identity, second connection: whose row it is and how many attempts.
CountAttempts(s) ==
    /\ tui[s].pc = "resolved"
    /\ tui[s].pid \in people
    /\ LET e == <<tui[s].pid, tui[s].rev>>
       IN  tui' = [tui EXCEPT ![s] = [@ EXCEPT !.pc = "identified",
                                               !.human = human[tui[s].pid],
                                               !.count = failed[e] + won[e]]]
    /\ UNCHANGED <<personVars, keyVars, testVars, recordVars, start>>

\* published_test, a third read, and the checks of run before the questions.
MayBegin(s) ==
    /\ active = tui[s].rev
    /\ ~tui[s].passed
    /\ tui[s].count < MaxAttempts[tui[s].rev]

BeginExam(s) ==
    /\ tui[s].pc = "identified"
    /\ MayBegin(s)
    /\ tui' = [tui EXCEPT ![s] = [@ EXCEPT !.pc = "exam"]]
    /\ UNCHANGED <<personVars, keyVars, testVars, recordVars, start>>

\* Slip: the limit is left to the check run made when the exam began.
MayRecordUncounted(p, r) ==
    /\ p \in personOn
    /\ <<p, r>> \notin passes

\* Slip: an earlier pass is left to the check run made when the exam began.
MayRecordAgain(p, r) ==
    /\ p \in personOn
    /\ failed[<<p, r>>] + won[<<p, r>>] < MaxAttempts[r]

\* What record_attempt checks inside its transaction.
MayRecord(p, r) ==
    /\ p \in personOn
    /\ <<p, r>> \notin passes
    /\ failed[<<p, r>>] + won[<<p, r>>] < MaxAttempts[r]

RecordAttempt(s, ok) ==
    LET e == <<tui[s].pid, tui[s].rev>> IN
    /\ tui[s].pc = "exam"
    /\ MayRecord(tui[s].pid, tui[s].rev)
    /\ IF ok
         THEN /\ won' = [won EXCEPT ![e] = @ + 1]
              /\ passes' = passes \cup {e}
              /\ UNCHANGED failed
         ELSE /\ failed' = [failed EXCEPT ![e] = @ + 1]
              /\ UNCHANGED <<won, passes>>
    /\ tui' = [tui EXCEPT ![s] = [@ EXCEPT !.pc = "result"]]
    /\ UNCHANGED <<personVars, keyVars, testVars, carried, passedAt, start>>

\* The user quits, a check or a read fails, or the connection is lost.
Close(s) ==
    /\ tui[s].pc # "idle"
    /\ tui' = [tui EXCEPT ![s] = Idle]
    /\ UNCHANGED <<personVars, keyVars, testVars, recordVars, start>>

-----------------------------------------------------------------------------
(* ensure_legacy_test, call by call.  LegacySeed has the contents of the   *)
(* legacy bank and the comparison with the saved test; here publishing     *)
(* yields some revision of the legacy test.                                *)

Goto(q, x) == start' = [start EXCEPT ![q] = x]
At(q, point) == start[q].pc = point
GoOn(q, point) == Goto(q, [start[q] EXCEPT !.pc = point])

\* With something published already it returns at once.
FindActive(q) ==
    /\ At(q, "off")
    /\ active = None
    /\ GoOn(q, "list")
    /\ UNCHANGED <<personVars, keyVars, testVars, recordVars, tui>>

ListTests(q) ==
    /\ At(q, "list")
    /\ GoOn(q, IF tests = {} THEN "create" ELSE "publish")
    /\ UNCHANGED <<personVars, keyVars, testVars, recordVars, tui>>

CreateLegacy(q) ==
    /\ At(q, "create")
    /\ LegacyTest \notin tests
    /\ tests' = tests \cup {LegacyTest}
    /\ GoOn(q, "publish")
    /\ UNCHANGED <<personVars, keyVars, pubs, active, recordVars, tui>>

PublishLegacy(q, r) ==
    /\ At(q, "publish")
    /\ TestOf[r] = LegacyTest
    /\ Publication(r)
    /\ GoOn(q, "read")
    /\ UNCHANGED <<personVars, keyVars, recordVars, tui>>

\* publish_test returns what is active when it reads it back.
ReadBack(q) ==
    /\ At(q, "read")
    /\ active # None
    /\ Goto(q, [pc |-> "carry", rev |-> active])
    /\ UNCHANGED <<personVars, keyVars, testVars, recordVars, tui>>

\* Slip: the SELECT lost its condition.
CarryEverybody(q) ==
    LET brought == people \X {start[q].rev} IN
    /\ At(q, "carry")
    /\ passes' = passes \cup brought
    /\ carried' = carried \cup (brought \ passes)
    /\ GoOn(q, "clear")
    /\ UNCHANGED <<personVars, keyVars, testVars, failed, won, passedAt, tui>>

\* A pass without an attempt; one that is there already stays as it is.
Carry(q) ==
    LET brought == passedAt \X {start[q].rev} IN
    /\ At(q, "carry")
    /\ passes' = passes \cup brought
    /\ carried' = carried \cup (brought \ passes)
    /\ GoOn(q, "clear")
    /\ UNCHANGED <<personVars, keyVars, testVars, failed, won, passedAt, tui>>

Clear(q) ==
    /\ At(q, "clear")
    /\ passedAt' = {}
    /\ Goto(q, Off)
    /\ UNCHANGED <<personVars, keyVars, testVars, passes, failed, won, carried, tui>>

\* A call fails, or the process is killed.
Stop(q) ==
    /\ ~At(q, "off")
    /\ Goto(q, Off)
    /\ UNCHANGED <<personVars, keyVars, testVars, recordVars, tui>>

-----------------------------------------------------------------------------
Administer ==
    \/ \E p \in PersonIds, h \in Humans, u \in Users \cup {None} :
         CreatePerson(p, h, u)
    \/ \E p \in PersonIds, u \in Users \cup {None} : UpdatePerson(p, u)
    \/ \E p \in PersonIds, on \in BOOLEAN : SetPersonEnabled(p, on)
    \/ \E p \in PersonIds : DeletePerson(p)
    \/ \E p \in PersonIds : ResetExam(p)
    \/ \E p \in PersonIds, f \in Fingerprints : AddKey(p, f)
    \/ \E f \in Fingerprints, on \in BOOLEAN : SetKeyEnabled(f, on)
    \/ \E f \in Fingerprints : RemoveKey(f)
    \/ \E t \in Tests : CreateTest(t)
    \/ \E t \in Tests : DeleteTest(t)
    \/ \E r \in Revisions : PublishTest(r)
    \/ \E r \in Revisions : ActivatePublication(r)

Connection(s) ==
    \/ \E u \in Users, f \in Fingerprints, p \in PersonIds : Connect(s, u, f, p)
    \/ \E p \in PersonIds : ResolvePolicy(s, p)
    \/ CountAttempts(s)
    \/ BeginExam(s)
    \/ \E ok \in BOOLEAN : RecordAttempt(s, ok)
    \/ Close(s)

Seed(q) ==
    \/ FindActive(q)
    \/ ListTests(q)
    \/ CreateLegacy(q)
    \/ \E r \in Revisions : PublishLegacy(q, r)
    \/ ReadBack(q)
    \/ Carry(q)
    \/ Clear(q)
    \/ Stop(q)

Next ==
    \/ Administer
    \/ \E s \in Sessions : Connection(s)
    \/ \E q \in Starts : Seed(q)

Spec == Init /\ [][Next]_vars

-----------------------------------------------------------------------------
(* Properties.                                                             *)

\* Every column holds a value of its type, keys and enabled flags belong to
\* rows that exist, and a session past load_identity knows its person and
\* revision (db.rs: load_identity returns them or nothing).
TypeOK ==
    /\ people \subseteq PersonIds
    /\ personOn \subseteq people
    /\ account \in [PersonIds -> Users \cup {None}]
    /\ human \in [PersonIds -> Humans \cup {None}]
    /\ owner \in [Fingerprints -> PersonIds \cup {0}]
    /\ keyOn \subseteq {f \in Fingerprints : owner[f] # 0}
    /\ tests \subseteq Tests
    /\ pubs \subseteq Revisions
    /\ active \in Revisions \cup {None}
    /\ passes \subseteq Pairs
    /\ failed \in [Pairs -> Nat]
    /\ won \in [Pairs -> Nat]
    /\ carried \subseteq passes
    /\ passedAt \subseteq people
    /\ start \in [Starts -> StartUp]
    /\ \A q \in Starts : /\ start[q].pc = "read" => active # None
                         /\ start[q].pc \in {"carry", "clear"} => start[q].rev \in Revisions
    /\ tui \in [Sessions -> Session]
    /\ \A s \in Sessions : tui[s].pc \in AtExam =>
         tui[s].pid \in PersonIds /\ tui[s].rev \in Revisions

\* However many sessions of one person run at once, whatever is reset or
\* republished meanwhile, no person has more attempts at a revision than
\* that revision allows (record_attempt counts inside its transaction; the
\* count the session showed when it began is stale by then).
AttemptLimit == \A e \in Pairs : failed[e] + won[e] <= MaxAttempts[e[2]]

\* A pass row stands for exactly one passing attempt that is still stored, or
\* for none if ensure_legacy_test carried it over; and a passing attempt never
\* stands without its pass row, through resets, deletions, concurrent
\* submissions and starts.
PassIsOneAttempt == \A e \in Pairs : won[e] = IF e \in passes \ carried THEN 1 ELSE 0

\* A row id that is free carries nothing: whoever is registered next under
\* the same id inherits no key, account, attempt or pass of the person who
\* was deleted (ON DELETE CASCADE, record_attempt looking for the row, and a
\* start carrying only what is in a row at that moment).
FreeIdIsClean ==
    \A p \in PersonIds \ people :
        /\ account[p] = None
        /\ \A f \in Fingerprints : owner[f] # p
        /\ \A r \in Revisions : /\ <<p, r>> \notin passes
                                /\ failed[<<p, r>>] = 0
                                /\ won[<<p, r>>] = 0

\* One Unix account never leads to two people.
AccountUnique ==
    \A p, q \in people : account[p] # None /\ account[p] = account[q] => p = q

\* Whatever refers to a revision - the active pointer, an attempt, a pass, an
\* exam in progress, a start about to carry passes - refers to one that is
\* still published, and its test is still there; so delete_test, which erases
\* the attempts and passes of its test, never has any to erase.
RevisionsPublished ==
    /\ active # None => active \in pubs
    /\ \A r \in pubs : TestOf[r] \in tests
    /\ \A e \in Pairs : e \in passes \/ failed[e] + won[e] > 0 => e[2] \in pubs
    /\ \A s \in Sessions : tui[s].pc \in AtExam => tui[s].rev \in pubs
    /\ \A q \in Starts : start[q].pc \in {"carry", "clear"} => start[q].rev \in pubs

Safety ==
    /\ AttemptLimit
    /\ PassIsOneAttempt
    /\ FreeIdIsClean
    /\ AccountUnique
    /\ RevisionsPublished

\* Once a person has passed a revision, no session that is still open adds
\* an attempt to it.
NoAttemptAfterPass ==
    [][\A e \in Pairs : e \in passes =>
         failed'[e] <= failed[e] /\ won'[e] <= won[e]]_vars

\* A pass goes only with its person, or by a reset while its own revision is
\* the active one: publishing, activating another revision, deleting tests
\* or resetting a different revision keep it, so that reactivating the
\* revision restores it (README, Tests and Publication).
PassKept ==
    [][\A e \in passes \ passes' : e[1] \notin people' \/ e[2] = active]_vars

\* A plain shell is granted only over an enabled key to an enabled person with
\* a passing attempt, still stored, at the revision active at that moment, or
\* with a pass of an earlier version that a start carried to that revision.
ShellNeedsCurrentPass ==
    [][\A s \in Sessions : tui[s].pc # "shell" /\ tui'[s].pc = "shell" =>
         /\ tui'[s].pid \in personOn
         /\ owner[tui'[s].fp] = tui'[s].pid
         /\ tui'[s].fp \in keyOn
         /\ account[tui'[s].pid] = tui'[s].user
         /\ active \in pubs
         /\ \/ won[<<tui'[s].pid, active>>] = 1
            \/ <<tui'[s].pid, active>> \in carried]_vars

\* README, Security Model: "Pass state belongs to the person and the
\* immutable test revision": an attempt is stored for the human who sat it.
\* The row id of a deleted person can be given to the next one while the
\* exam is still open, and record_attempt looks only for that id.
AttemptBelongsToSitter ==
    [][\A s \in Sessions : tui[s].pc = "exam" /\ tui'[s].pc = "result" =>
         human[tui[s].pid] = tui[s].human]_vars

-----------------------------------------------------------------------------
(* What all of this is for: Gate, with the rows of one person and revision *)
(* counted, and of a connection only the shell at its end.                 *)

Used == [e \in Pairs |-> failed[e] + won[e]]

Admitted == [s \in Sessions |-> IF tui[s].pc = "shell" THEN tui[s].pid ELSE 0]

Promised == INSTANCE Gate WITH
    People <- PersonIds, Nobody <- 0,
    used <- Used, passed <- passes, owed <- passedAt, admitted <- Admitted

\* README, Tests and Publication: every step of the database, the policy and
\* the sessions is a step of Gate or none at all: draft tests, accounts and
\* keys may change and sessions may run into each other without a trace in
\* what people have done, delete_test, which deletes rows of exam_attempts
\* and exam_passes, never takes anything from anybody, and a start gives
\* passes to those only who had passed before, and forgets that they had only
\* when they have one (src/db.rs).
KeepsPromise == Promised!Spec
=============================================================================
