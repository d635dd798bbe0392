------------------------------ MODULE LegacySeed ------------------------------
(***************************************************************************)
(* The first start after an upgrade: ensure_legacy_test (src/db.rs) makes a *)
(* test of the legacy bank, publishes it, and carries the passes of earlier *)
(* versions (persons.passed_at) over to that publication.                  *)
(*                                                                         *)
(* migrate, init and serve of ssh-exam-admin all call it.  Each of its      *)
(* steps is a connection of its own, so that other processes may come in   *)
(* between, and the process may end there.                                 *)
(***************************************************************************)
CONSTANTS
    Persons,
    Processes,    \* migrate, init and serve processes at one time
    OwnTests,     \* tests an administrator creates with ssh-exam-admin
    Policies,     \* title, threshold, limits and shuffles in a bank file
    Questions,    \* its questions
    None

Content == [policy : Policies, questions : Questions]

\* A publication of the legacy test is what was published; of another test it
\* is enough to know which.
Publications == Content \cup OwnTests

ASSUME SeedNoneAssumption == None \notin Publications \cup Policies

VARIABLES
    quizFile,      \* the file at quiz_path
    legacyPolicy,  \* settings of the legacy row of tests, None without one
    ownRows,       \* the other rows
    active,        \* active_test_publication
    passedAt,      \* persons whose passed_at is not NULL
    passes,        \* exam_passes
    owed,          \* persons who had passed and were not reset since
    proc           \* control point and locals of each process

vars == <<quizFile, legacyPolicy, ownRows, active, passedAt, passes, owed, proc>>

Points == {"off", "active", "list", "create", "compare", "insert", "read", "carry",
           "clear", "up"}

Process == [pc : Points, quiz : Content \cup {None}, pub : Publications \cup {None}]

Off == [pc |-> "off", quiz |-> None, pub |-> None]

Init ==
    /\ quizFile \in Content
    /\ legacyPolicy = None
    /\ ownRows = {}
    /\ active = None
    /\ passedAt \in SUBSET Persons
    /\ passes = {}
    /\ owed = passedAt
    /\ proc = [q \in Processes |-> Off]

-----------------------------------------------------------------------------
(* ensure_legacy_test, by process q.                                       *)

Goto(q, x) == proc' = [proc EXCEPT ![q] = x]
At(q, point) == proc[q].pc = point
GoOn(q, point) == Goto(q, [proc[q] EXCEPT !.pc = point])

Tests == <<legacyPolicy, ownRows, active>>
Passes == <<passedAt, passes, owed>>

\* Quiz::load of the legacy bank, the argument.
Load(q) ==
    /\ At(q, "off")
    /\ Goto(q, [Off EXCEPT !.pc = "active", !.quiz = quizFile])
    /\ UNCHANGED <<quizFile, Tests, Passes>>

FindActive(q) ==
    /\ At(q, "active")
    /\ GoOn(q, IF active # None THEN "up" ELSE "list")
    /\ UNCHANGED <<quizFile, Tests, Passes>>

ListTests(q) ==
    /\ At(q, "list")
    /\ GoOn(q, IF legacyPolicy = None /\ ownRows = {} THEN "create" ELSE "compare")
    /\ UNCHANGED <<quizFile, Tests, Passes>>

CreateLegacy(q) ==
    /\ At(q, "create")
    /\ legacyPolicy = None
    /\ legacyPolicy' = proc[q].quiz.policy
    /\ GoOn(q, "compare")
    /\ UNCHANGED <<quizFile, ownRows, active, Passes>>

\* publish_test: the saved settings must be those of the file.
Compare(q) ==
    /\ At(q, "compare")
    /\ legacyPolicy = proc[q].quiz.policy
    /\ GoOn(q, "insert")
    /\ UNCHANGED <<quizFile, Tests, Passes>>

Publish(q) ==
    /\ At(q, "insert")
    /\ active' = proc[q].quiz
    /\ GoOn(q, "read")
    /\ UNCHANGED <<quizFile, legacyPolicy, ownRows, Passes>>

\* Slip: passed_at is cleared before it is copied.
ReadBackAndClear(q) ==
    /\ At(q, "read")
    /\ Goto(q, [proc[q] EXCEPT !.pc = "carry", !.pub = active])
    /\ passedAt' = {}
    /\ UNCHANGED <<quizFile, Tests, passes, owed>>

\* publish_test returns published_test(): what is active by then.
ReadBack(q) ==
    /\ At(q, "read")
    /\ Goto(q, [proc[q] EXCEPT !.pc = "carry", !.pub = active])
    /\ UNCHANGED <<quizFile, Tests, Passes>>

Carry(q) ==
    /\ At(q, "carry")
    /\ passes' = passes \cup (passedAt \X {proc[q].pub})
    /\ GoOn(q, "clear")
    /\ UNCHANGED <<quizFile, Tests, passedAt, owed>>

Clear(q) ==
    /\ At(q, "clear")
    /\ passedAt' = {}
    /\ GoOn(q, "up")
    /\ UNCHANGED <<quizFile, Tests, passes, owed>>

\* A read or a write fails, the process is killed or is done.
Stop(q) ==
    /\ ~At(q, "off")
    /\ Goto(q, Off)
    /\ UNCHANGED <<quizFile, Tests, Passes>>

-----------------------------------------------------------------------------
(* What else may happen.                                                   *)

EditQuiz(c) ==
    /\ quizFile' = c
    /\ UNCHANGED <<Tests, Passes, proc>>

CreateOwn(t) ==
    /\ t \notin ownRows
    /\ ownRows' = ownRows \cup {t}
    /\ UNCHANGED <<quizFile, legacyPolicy, active, Passes, proc>>

PublishOwn(t) ==
    /\ t \in ownRows
    /\ active' = t
    /\ UNCHANGED <<quizFile, legacyPolicy, ownRows, Passes, proc>>

\* Slip: reset_exam leaves passed_at alone.
ResetPassOnly(p) ==
    /\ passes' = passes \ {<<p, active>>}
    /\ owed' = owed \ {p}
    /\ UNCHANGED <<quizFile, Tests, passedAt, proc>>

\* reset_exam forgets the old pass and the pass for the active publication.
ResetExam(p) ==
    /\ passedAt' = passedAt \ {p}
    /\ passes' = passes \ {<<p, active>>}
    /\ owed' = owed \ {p}
    /\ UNCHANGED <<quizFile, Tests, proc>>

-----------------------------------------------------------------------------
Start(q) ==
    \/ Load(q)
    \/ FindActive(q)
    \/ ListTests(q)
    \/ CreateLegacy(q)
    \/ Compare(q)
    \/ Publish(q)
    \/ ReadBack(q)
    \/ Carry(q)
    \/ Clear(q)
    \/ Stop(q)

Next ==
    \/ \E q \in Processes : Start(q)
    \/ \E c \in Content : EditQuiz(c)
    \/ \E t \in OwnTests : CreateOwn(t) \/ PublishOwn(t)
    \/ \E p \in Persons : ResetExam(p)

Spec == Init /\ [][Next]_vars

-----------------------------------------------------------------------------
(* Properties.                                                             *)

TypeOK ==
    /\ quizFile \in Content
    /\ legacyPolicy \in Policies \cup {None}
    /\ ownRows \subseteq OwnTests
    /\ active \in Publications \cup {None}
    /\ passedAt \subseteq Persons
    /\ passes \subseteq Persons \X Publications
    /\ owed \subseteq Persons
    /\ proc \in [Processes -> Process]
    /\ \A q \in Processes :
         /\ proc[q].pc # "off" => proc[q].quiz \in Content
         /\ proc[q].pc = "read" => active # None
         /\ proc[q].pc \in {"carry", "clear"} => proc[q].pub # None

HasPass(p) == \E x \in Publications : <<p, x>> \in passes

\* A pass of an earlier version is never lost, wherever a start stops and
\* however many run: it is in passed_at until it is in exam_passes
\* (ensure_legacy_test inserts before it clears).
LegacyPassKept == \A p \in owed : p \in passedAt \/ HasPass(p)

\* A start under way when reset_exam runs does not bring the pass back.
ResetIsFinal ==
    [][\A p \in Persons \ owed, x \in Publications :
         <<p, x>> \in passes' => <<p, x>> \in passes]_vars

\* README, Tests and Publication: publishing "requires a new pass": passes of
\* earlier versions are carried to the test made of the legacy bank, not to a
\* test that an administrator publishes meanwhile (ensure_legacy_test).
CarriedToLegacy == passes \subseteq Persons \X Content

\* The test migration_from_v3_carries_pass_once_then_clears_legacy_state in
\* src/db.rs: once ensure_legacy_test has returned, whoever had passed is
\* let in and no passed_at is left.
StartCarriesPasses ==
    \A q \in Processes : At(q, "up") => passedAt = {} /\ \A p \in owed : HasPass(p)
=============================================================================
