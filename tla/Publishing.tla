----------------------------- MODULE Publishing -----------------------------
(***************************************************************************)
(* Question-bank files (src/quiz.rs, QuizCatalog), saved tests and their   *)
(* publication (src/db.rs), and the requests that work on both: handlers   *)
(* of the web administration (src/web.rs), which hold quiz_lock from their *)
(* first read to their last write, and commands of ssh-exam-admin          *)
(* (src/bin/ssh-exam-admin.rs), which are other processes and hold nothing.*)
(*                                                                         *)
(* A request is a sequence of steps, one per file or database access.  It  *)
(* may fail between any two of them; what it had not yet done stays undone *)
(* and the guard gives the lock back.                                      *)
(***************************************************************************)
EXTENDS Naturals, FiniteSets

CONSTANTS
    Banks,        \* bank ids
    LegacyBank,   \* the id that stands for quiz_path
    Contents,     \* valid bank contents
    Tests,        \* test ids
    Settings,     \* title, threshold, limits and shuffles of a test
    WebJobs,      \* requests in the web administration at one time
    CliJobs,      \* ssh-exam-admin processes at one time
    None          \* no file, no lock holder, nothing read yet

ASSUME LegacyBankAssumption == LegacyBank \in Banks
ASSUME PublishingNoneAssumption ==
    None \notin Contents \cup Settings \cup Banks \cup Tests \cup WebJobs \cup CliJobs
ASSUME JobsAssumption == WebJobs \cap CliJobs = {}

Jobs == WebJobs \cup CliJobs

VARIABLES
    file,       \* content of each bank file, None if there is no file
    banksOf,    \* tests.bank_ids_json, {} where there is no row
    settingsOf, \* the other columns of tests
    published,  \* tests with at least one row in test_publications
    snapshot,   \* the publication made last
    lock,       \* holder of quiz_lock
    job         \* control point and locals of each request

vars == <<file, banksOf, settingsOf, published, snapshot, lock, job>>

\* One entry per bank: its content, or None for a bank that is not part of it.
Quiz == [Banks -> Contents \cup {None}]
NoQuiz == [b \in Banks |-> None]

\* What the revision is a hash of: test id, bank ids and the composed quiz.
Snapshot == [test : Tests, banks : SUBSET Banks, settings : Settings \cup {None},
             quiz : Quiz]

Ops == {"import", "edit", "delete", "create", "update", "publish"}

Points == {"idle", "lock", "check", "load", "rename", "used", "unlink",
           "compose", "store", "get", "reread", "insert"}

Job == [pc       : Points,
        op       : Ops \cup {"none"},
        bank     : Banks \cup {None},
        seen     : Contents \cup {None},     \* what edit loaded
        test     : Tests \cup {None},
        banks    : SUBSET Banks,             \* bank_ids to compose or to store
        settings : Settings \cup {None},
        todo     : SUBSET Banks,             \* banks compose has yet to load
        quiz     : Quiz,                     \* what it has loaded
        saved    : SUBSET Banks]             \* bank_ids publish_test read itself

Idle == [pc |-> "idle", op |-> "none", bank |-> None, seen |-> None, test |-> None,
         banks |-> {}, settings |-> None, todo |-> {}, quiz |-> NoQuiz, saved |-> {}]

Init ==
    /\ file \in [Banks -> Contents \cup {None}]
    /\ file[LegacyBank] # None
    /\ banksOf = [t \in Tests |-> {}]
    /\ settingsOf = [t \in Tests |-> None]
    /\ published = {}
    /\ snapshot = None
    /\ lock = None
    /\ job = [j \in Jobs |-> Idle]

Rows == <<banksOf, settingsOf, published, snapshot>>

-----------------------------------------------------------------------------
(* Control.                                                                *)

FirstPoint(op) ==
    CASE op = "import" -> "check"
      [] op = "edit" -> "load"
      [] op = "delete" -> "used"
      [] op \in {"create", "update"} -> "compose"
      [] op = "publish" -> "get"

\* The points a request passes, between taking the lock and returning.
PointsOf(op) ==
    CASE op = "import" -> {"check", "rename"}
      [] op = "edit" -> {"load", "rename"}
      [] op = "delete" -> {"used", "unlink"}
      [] op \in {"create", "update"} -> {"compose", "store"}
      [] op = "publish" -> {"get", "compose", "reread", "insert"}

Goto(j, x) == job' = [job EXCEPT ![j] = x]

\* The guard is dropped when the closure that holds it returns.
Released(j) == IF lock = j THEN None ELSE lock

Finish(j) == Goto(j, Idle) /\ lock' = Released(j)

\* What a request may ask for.  The legacy bank is neither imported nor
\* deleted; the command line only imports, creates and publishes.
Requests(j) ==
    {x \in [op : Ops, bank : Banks \cup {None}, test : Tests \cup {None},
            banks : SUBSET Banks, settings : Settings \cup {None}] :
       /\ j \in CliJobs => x.op \in {"import", "create", "publish"}
       /\ x.op \in {"import", "edit", "delete"} =>
            x.bank # None /\ x.test = None /\ x.banks = {} /\ x.settings = None
       /\ x.op \in {"import", "delete"} => x.bank # LegacyBank
       /\ x.op \in {"create", "update"} =>
            x.bank = None /\ x.test # None /\ x.banks # {} /\ x.settings # None
       /\ x.op = "publish" =>
            x.bank = None /\ x.test # None /\ x.banks = {} /\ x.settings = None}

Start(j, x) ==
    /\ job[j].pc = "idle"
    /\ Goto(j, [Idle EXCEPT !.pc = IF j \in WebJobs THEN "lock" ELSE FirstPoint(x.op),
                            !.op = x.op, !.bank = x.bank, !.test = x.test,
                            !.banks = x.banks, !.todo = x.banks,
                            !.settings = x.settings])
    /\ UNCHANGED <<file, Rows, lock>>

\* Slip: the handler works without taking quiz_lock.
AcquireNothing(j) ==
    /\ job[j].pc = "lock"
    /\ Goto(j, [job[j] EXCEPT !.pc = FirstPoint(job[j].op)])
    /\ UNCHANGED <<file, Rows, lock>>

Acquire(j) ==
    /\ job[j].pc = "lock"
    /\ lock = None
    /\ lock' = j
    /\ Goto(j, [job[j] EXCEPT !.pc = FirstPoint(job[j].op)])
    /\ UNCHANGED <<file, Rows>>

\* Slip: an early return leaks the guard.
FailHoldingLock(j) ==
    /\ job[j].pc # "idle"
    /\ Goto(j, Idle)
    /\ UNCHANGED <<file, Rows, lock>>

\* Any check, read or write of the request fails.
Fail(j) ==
    /\ job[j].pc # "idle"
    /\ Finish(j)
    /\ UNCHANGED <<file, Rows>>

-----------------------------------------------------------------------------
(* Bank files.                                                             *)

\* Slip: the target is not looked at before the import.
ImportUnchecked(j) ==
    /\ job[j].pc = "check"
    /\ Goto(j, [job[j] EXCEPT !.pc = "rename"])
    /\ UNCHANGED <<file, Rows, lock>>

\* QuizCatalog::create: the target must not exist.
ImportCheck(j) ==
    /\ job[j].pc = "check"
    /\ file[job[j].bank] = None
    /\ Goto(j, [job[j] EXCEPT !.pc = "rename"])
    /\ UNCHANGED <<file, Rows, lock>>

\* Quiz::update: load and change in memory.
EditLoad(j) ==
    /\ job[j].pc = "load"
    /\ file[job[j].bank] # None
    /\ Goto(j, [job[j] EXCEPT !.pc = "rename", !.seen = file[job[j].bank]])
    /\ UNCHANGED <<file, Rows, lock>>

\* Quiz::save_atomic renames a complete temporary file over the target.
Rename(j, c) ==
    /\ job[j].pc = "rename"
    /\ file' = [file EXCEPT ![job[j].bank] = c]
    /\ Finish(j)
    /\ UNCHANGED Rows

\* Slip: only drafts that were never published count as using the bank.
NoDraftUses(b) == \A t \in Tests \ published : b \notin banksOf[t]

\* tests_using_bank(b) is empty.
Unused(b) == \A t \in Tests : b \notin banksOf[t]

DeleteCheck(j) ==
    /\ job[j].pc = "used"
    /\ Unused(job[j].bank)
    /\ Goto(j, [job[j] EXCEPT !.pc = "unlink"])
    /\ UNCHANGED <<file, Rows, lock>>

Unlink(j) ==
    /\ job[j].pc = "unlink"
    /\ file[job[j].bank] # None
    /\ file' = [file EXCEPT ![job[j].bank] = None]
    /\ Finish(j)
    /\ UNCHANGED Rows

-----------------------------------------------------------------------------
(* Saved tests and publications.                                           *)

\* QuizCatalog::compose loads bank after bank; the last one loaded, it goes on.
Compose(j, b) ==
    /\ job[j].pc = "compose"
    /\ b \in job[j].todo
    /\ file[b] # None
    /\ Goto(j, [job[j] EXCEPT
         !.quiz = [job[j].quiz EXCEPT ![b] = file[b]],
         !.todo = job[j].todo \ {b},
         !.pc = IF job[j].todo # {b} THEN "compose"
                ELSE IF job[j].op = "publish" THEN "reread" ELSE "store"])
    /\ UNCHANGED <<file, Rows, lock>>

\* Slip: INSERT OR REPLACE, and an UPDATE that inserts where there is no row.
StoreReplacing(j) ==
    LET x == job[j] IN
    /\ x.pc = "store"
    /\ banksOf' = [banksOf EXCEPT ![x.test] = x.banks]
    /\ settingsOf' = [settingsOf EXCEPT ![x.test] = x.settings]
    /\ Finish(j)
    /\ UNCHANGED <<file, published, snapshot>>

\* create_test and update_test: INSERT conflicts with a row, UPDATE needs one.
StoreTest(j) ==
    LET x == job[j] IN
    /\ x.pc = "store"
    /\ x.op = "create" <=> banksOf[x.test] = {}
    /\ banksOf' = [banksOf EXCEPT ![x.test] = x.banks]
    /\ settingsOf' = [settingsOf EXCEPT ![x.test] = x.settings]
    /\ Finish(j)
    /\ UNCHANGED <<file, published, snapshot>>

\* The handler's get_test.
GetTest(j) ==
    LET t == job[j].test IN
    /\ job[j].pc = "get"
    /\ banksOf[t] # {}
    /\ Goto(j, [job[j] EXCEPT !.pc = "compose", !.banks = banksOf[t],
                              !.todo = banksOf[t], !.settings = settingsOf[t]])
    /\ UNCHANGED <<file, Rows, lock>>

\* Db::publish_test reads the test again and compares all but its bank ids.
RereadTest(j) ==
    LET t == job[j].test IN
    /\ job[j].pc = "reread"
    /\ banksOf[t] # {}
    /\ settingsOf[t] = job[j].settings
    /\ Goto(j, [job[j] EXCEPT !.pc = "insert", !.saved = banksOf[t]])
    /\ UNCHANGED <<file, Rows, lock>>

\* Slip: PRAGMA foreign_keys left off, the test need not be there any more.
InsertDangling(j) ==
    LET x == job[j] IN
    /\ x.pc = "insert"
    /\ published' = published \cup {x.test}
    /\ snapshot' = [test |-> x.test, banks |-> x.saved,
                    settings |-> x.settings, quiz |-> x.quiz]
    /\ Finish(j)
    /\ UNCHANGED <<file, banksOf, settingsOf>>

\* Its transaction; the foreign key needs the test to be there still.
InsertPublication(j) ==
    LET x == job[j] IN
    /\ x.pc = "insert"
    /\ banksOf[x.test] # {}
    /\ published' = published \cup {x.test}
    /\ snapshot' = [test |-> x.test, banks |-> x.saved,
                    settings |-> x.settings, quiz |-> x.quiz]
    /\ Finish(j)
    /\ UNCHANGED <<file, banksOf, settingsOf>>

\* The web handler delete_test takes no quiz_lock: one transaction.
DeleteTest(t) ==
    /\ banksOf[t] # {}
    /\ t \notin published
    /\ banksOf' = [banksOf EXCEPT ![t] = {}]
    /\ settingsOf' = [settingsOf EXCEPT ![t] = None]
    /\ UNCHANGED <<file, published, snapshot, lock, job>>

-----------------------------------------------------------------------------
Step(j) ==
    \/ Acquire(j)
    \/ ImportCheck(j)
    \/ EditLoad(j)
    \/ \E c \in Contents : Rename(j, c)
    \/ DeleteCheck(j)
    \/ Unlink(j)
    \/ \E b \in Banks : Compose(j, b)
    \/ StoreTest(j)
    \/ GetTest(j)
    \/ RereadTest(j)
    \/ InsertPublication(j)
    \/ Fail(j)

Next ==
    \/ \E j \in Jobs : Step(j) \/ \E x \in Requests(j) : Start(j, x)
    \/ \E t \in Tests : DeleteTest(t)

Spec == Init /\ [][Next]_vars

\* A request that has started is scheduled until it returns; nothing makes
\* anyone start one.
FairSpec == Spec /\ \A j \in Jobs : WF_vars(Step(j))

-----------------------------------------------------------------------------
(* Properties.                                                             *)

Inside(j) == job[j].pc \notin {"idle", "lock"}

\* A request names what its operation is about and stands at a point of it;
\* only handlers wait for the lock.
Consistent(j, x) ==
    /\ x.pc # "idle" => x.op \in Ops
    /\ x.pc = "lock" => j \in WebJobs
    /\ x.pc \notin {"idle", "lock"} => x.pc \in PointsOf(x.op)
    /\ x.op \in {"import", "edit", "delete"} => x.bank \in Banks
    /\ x.op \in {"create", "update", "publish"} => x.test \in Tests

\* Every variable has its type, and a web request is past its first line
\* exactly when it holds quiz_lock; no command ever holds it.
TypeOK ==
    /\ file \in [Banks -> Contents \cup {None}]
    /\ banksOf \in [Tests -> SUBSET Banks]
    /\ settingsOf \in [Tests -> Settings \cup {None}]
    /\ published \subseteq Tests
    /\ snapshot \in Snapshot \cup {None}
    /\ lock \in WebJobs \cup {None}
    /\ job \in [Jobs -> Job]
    /\ \A j \in Jobs : Consistent(j, job[j])
    /\ \A j \in WebJobs : Inside(j) <=> lock = j

\* README, Tests and Publication: "a question bank referenced by any saved
\* test cannot be removed" - not even between the check and the unlink.
UsedBankKept ==
    [][\A b \in Banks, t \in Tests :
         file[b] # None /\ file'[b] = None => b \notin banksOf[t]]_vars

\* So every saved test can still load all of its banks.
SavedTestHasItsBanks ==
    \A t \in Tests, b \in Banks : b \in banksOf[t] => file[b] # None

\* What is published is the saved test as it is at that moment, made of the
\* bank files as they are at that moment (publish_test in web.rs reads the
\* test, then the banks, then the test again, and inserts).
PublishesCurrentDraft ==
    [][snapshot' # snapshot =>
         LET t == snapshot'.test IN
         /\ snapshot'.banks = banksOf[t]
         /\ snapshot'.settings = settingsOf[t]
         /\ snapshot'.quiz = [b \in Banks |-> IF b \in banksOf[t] THEN file[b]
                                                               ELSE None]]_vars

\* README, Tests and Publication: the revision is computed "from the test
\* identity, bank order, policy, and questions": the bank ids that are hashed
\* are those of the banks whose questions are published.
RevisionNamesItsBanks ==
    snapshot # None => snapshot.banks = {b \in Banks : snapshot.quiz[b] # None}

Saves(j, op) == job[j].op = op /\ job[j].pc = "rename" /\ job'[j] = Idle /\ file' # file

\* QuizCatalog::create says "already exists" rather than replace a bank.
ImportNeverReplaces ==
    [][\A j \in Jobs : Saves(j, "import") => file[job[j].bank] = None]_vars

\* An edit is saved over the very content it was made from: no edit of
\* another administrator is lost.
NoLostEdit ==
    [][\A j \in Jobs : Saves(j, "edit") => file[job[j].bank] = job[j].seen]_vars

\* quiz_lock is always given back, whatever fails.
LockReleased == \A j \in WebJobs : lock = j ~> lock # j

-----------------------------------------------------------------------------
(* What quiz_lock is for: Catalogue, with of each request only what it asks *)
(* for.  The banks and settings that publish_test has read are its own.     *)

Task(x) ==
    LET publishing == x.op = "publish" IN
    [op |-> x.op, bank |-> x.bank, test |-> x.test,
     banks |-> IF publishing THEN {} ELSE x.banks,
     settings |-> IF publishing THEN None ELSE x.settings]

Asked == [j \in Jobs |-> Task(job[j])]

Atomic == INSTANCE Catalogue WITH asked <- Asked

\* As long as only web requests run, every request acts at once or not at all,
\* although it reads files and rows in several steps and delete_test, which
\* takes no lock, deletes tests between any two of them (web.rs).
ActsAtOnce == Atomic!Spec
=============================================================================
