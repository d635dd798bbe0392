-------------------------- MODULE Publishing_proofs --------------------------
(* Machine-checked proofs about Publishing, for any banks, tests and jobs.  *)
(* The theorems about what quiz_lock protects assume CliJobs = {}: the runs *)
(* publishing_cli_* show that they fail beside the command line.            *)
EXTENDS Publishing, TLAPS

USE LegacyBankAssumption, PublishingNoneAssumption, JobsAssumption

-----------------------------------------------------------------------------
(* Types and mutual exclusion.                                             *)

\* A step of job j that puts it into a well-typed state x and leaves it inside
\* exactly if it ends up with the lock keeps the part of TypeOK about jobs.
LEMMA JobUpdate ==
    ASSUME TypeOK, NEW j \in Jobs, NEW x \in Job, Goto(j, x), Consistent(j, x),
           lock' \in WebJobs \cup {None},
           j \in WebJobs => (x.pc \notin {"idle", "lock"} <=> lock' = j),
           lock' # j => (lock' = lock \/ (lock = j /\ lock' = None)),
           lock' = j => lock \in {j, None},
           j \in CliJobs => lock' = lock
    PROVE  /\ job' \in [Jobs -> Job]
           /\ \A i \in Jobs : Consistent(i, job'[i])
           /\ \A i \in WebJobs : Inside(i)' <=> lock' = i
<1>1. job' \in [Jobs -> Job] /\ job'[j] = x
  BY DEF TypeOK, Goto
<1>2. ASSUME NEW i \in WebJobs
      PROVE  job'[i].pc \notin {"idle", "lock"} <=> lock' = i
  <2>1. CASE i = j
    BY <1>1, <2>1
  <2>2. CASE i # j
    <3>1. job'[i] = job[i]
      BY <2>2 DEF TypeOK, Goto, Jobs
    <3>2. job[i].pc \notin {"idle", "lock"} <=> lock = i
      BY DEF TypeOK, Inside
    <3>3. lock' = i <=> lock = i
      BY <2>2 DEF Jobs
    <3> QED BY <3>1, <3>2, <3>3
  <2> QED BY <2>1, <2>2
<1>3. ASSUME NEW i \in Jobs
      PROVE  Consistent(i, job'[i])
  <2>1. CASE i = j
    BY <1>1, <2>1
  <2>2. CASE i # j
    BY <2>2 DEF TypeOK, Goto
  <2> QED BY <2>1, <2>2
<1> QED BY <1>1, <1>2, <1>3 DEF Inside

\* Returning, with or without the lock.
LEMMA FinishType ==
    ASSUME TypeOK, NEW j \in Jobs, Finish(j)
    PROVE  /\ lock' \in WebJobs \cup {None}
           /\ job' \in [Jobs -> Job]
           /\ \A i \in Jobs : Consistent(i, job'[i])
           /\ \A i \in WebJobs : Inside(i)' <=> lock' = i
<1>1. Idle \in Job /\ Idle.pc = "idle" /\ Consistent(j, Idle)
  BY DEF Idle, Job, Points, Quiz, NoQuiz, Consistent
<1>2. lock' \in WebJobs \cup {None} /\ Goto(j, Idle)
  BY DEF Finish, Released, TypeOK
<1>3. /\ lock' # j
      /\ lock' = lock \/ (lock = j /\ lock' = None)
      /\ j \in CliJobs => lock' = lock
  BY DEF Finish, Released, TypeOK, Jobs
<1> QED BY <1>1, <1>2, <1>3, JobUpdate

\* Going on to the next point of the same request.
LEMMA AdvanceType ==
    ASSUME TypeOK, NEW j \in Jobs, NEW x \in Job, Goto(j, x), lock' = lock,
           Consistent(j, x), Inside(j), x.pc \notin {"idle", "lock"}
    PROVE  /\ lock' \in WebJobs \cup {None}
           /\ job' \in [Jobs -> Job]
           /\ \A i \in Jobs : Consistent(i, job'[i])
           /\ \A i \in WebJobs : Inside(i)' <=> lock' = i
<1>1. j \in WebJobs => (x.pc \notin {"idle", "lock"} <=> lock' = j)
  BY DEF TypeOK
<1>2. lock' \in WebJobs \cup {None}
  BY DEF TypeOK
<1>3. lock' # j => (lock' = lock \/ (lock = j /\ lock' = None))
  OBVIOUS
<1>4. lock' = j => lock \in {j, None}
  OBVIOUS
<1> QED BY <1>1, <1>2, <1>3, <1>4, JobUpdate

LEMMA StartType ==
    ASSUME TypeOK, NEW j \in Jobs, NEW r \in Requests(j), Start(j, r)
    PROVE  TypeOK'
<1> DEFINE x == [Idle EXCEPT !.pc = IF j \in WebJobs THEN "lock" ELSE FirstPoint(r.op),
                             !.op = r.op, !.bank = r.bank, !.test = r.test,
                             !.banks = r.banks, !.todo = r.banks,
                             !.settings = r.settings]
<1>1. /\ r.op \in Ops /\ r.bank \in Banks \cup {None} /\ r.test \in Tests \cup {None}
      /\ r.banks \in SUBSET Banks /\ r.settings \in Settings \cup {None}
  BY DEF Requests
<1>2. FirstPoint(r.op) \in Points \ {"idle", "lock"}
  BY <1>1 DEF FirstPoint, Ops, Points
<1>3. x \in Job /\ x.pc = (IF j \in WebJobs THEN "lock" ELSE FirstPoint(r.op))
      /\ x.op = r.op /\ x.bank = r.bank /\ x.test = r.test
  <2>1. (IF j \in WebJobs THEN "lock" ELSE FirstPoint(r.op)) \in Points
    BY <1>2 DEF Points
  <2>2. NoQuiz \in Quiz
    BY DEF NoQuiz, Quiz
  <2> HIDE DEF Points
  <2> QED BY <1>1, <2>1, <2>2 DEF Idle, Job
<1>4. Goto(j, x) /\ lock' = lock /\ job[j].pc = "idle"
  BY DEF Start
<1>5. j \in WebJobs => lock # j
  BY <1>4 DEF TypeOK, Inside
<1> HIDE DEF x
<1>c. Consistent(j, x)
  BY <1>1, <1>3 DEF Consistent, Requests, FirstPoint, PointsOf, Ops
<1>6. /\ job' \in [Jobs -> Job]
      /\ \A i \in Jobs : Consistent(i, job'[i])
      /\ \A i \in WebJobs : Inside(i)' <=> lock' = i
  <2>1. j \in WebJobs => (x.pc \notin {"idle", "lock"} <=> lock' = j)
    BY <1>3, <1>4, <1>5
  <2>2. lock' \in WebJobs \cup {None} /\ lock' # j
    BY <1>4, <1>5 DEF TypeOK, Jobs
  <2> QED BY <1>3, <1>c, <1>4, <2>1, <2>2, JobUpdate
<1> QED BY <1>4, <1>6 DEF Start, Rows, TypeOK

\* Each point of a request leads to the next one or to its end.
LEMMA StepType ==
    ASSUME TypeOK, NEW j \in Jobs, Step(j)
    PROVE  TypeOK'
<1> DEFINE y == job[j]
           JobsOK == /\ lock' \in WebJobs \cup {None}
                     /\ job' \in [Jobs -> Job]
                     /\ \A i \in Jobs : Consistent(i, job'[i])
                     /\ \A i \in WebJobs : Inside(i)' <=> lock' = i
<1>y. y \in Job /\ Consistent(j, y)
  BY DEF TypeOK
<1>f. /\ file \in [Banks -> Contents \cup {None}]
      /\ banksOf \in [Tests -> SUBSET Banks]
      /\ settingsOf \in [Tests -> Settings \cup {None}]
      /\ y.quiz \in Quiz /\ y.saved \in SUBSET Banks /\ y.banks \in SUBSET Banks
      /\ y.settings \in Settings \cup {None} /\ y.todo \in SUBSET Banks
      /\ y.op \in Ops \cup {"none"}
  BY <1>y DEF TypeOK, Job
<1>1. ASSUME Acquire(j) PROVE TypeOK'
  <2> DEFINE x == [y EXCEPT !.pc = FirstPoint(y.op)]
  <2>1. y.op \in Ops /\ j \in WebJobs
    BY <1>1, <1>y DEF Acquire, Consistent
  <2>2. FirstPoint(y.op) \in PointsOf(y.op) /\ FirstPoint(y.op) \in Points \ {"idle", "lock"}
    BY <2>1 DEF FirstPoint, PointsOf, Ops, Points
  <2>3. x \in Job /\ Consistent(j, x) /\ x.pc \notin {"idle", "lock"}
    BY <1>y, <2>1, <2>2 DEF Job, Consistent
  <2>4. Goto(j, x) /\ lock = None /\ lock' = j
    BY <1>1 DEF Acquire
  <2> HIDE DEF x
  <2>5. JobsOK
    BY <2>1, <2>3, <2>4, JobUpdate
  <2> QED BY <1>1, <2>5 DEF Acquire, Rows, TypeOK
<1>2. ASSUME ImportCheck(j) PROVE TypeOK'
  <2> DEFINE x == [y EXCEPT !.pc = "rename"]
  <2>1. y.op = "import"
    BY <1>2, <1>y, <1>f DEF ImportCheck, Consistent, PointsOf, Ops
  <2>2. x \in Job /\ Consistent(j, x) /\ x.pc \notin {"idle", "lock"}
    BY <1>y, <2>1 DEF Job, Consistent, PointsOf, Ops, Points
  <2>3. Goto(j, x) /\ lock' = lock /\ Inside(j)
    BY <1>2 DEF ImportCheck, Inside
  <2> HIDE DEF x
  <2>4. JobsOK
    BY <2>2, <2>3, AdvanceType
  <2> QED BY <1>2, <2>4 DEF ImportCheck, Rows, TypeOK
<1>3. ASSUME EditLoad(j) PROVE TypeOK'
  <2> DEFINE x == [y EXCEPT !.pc = "rename", !.seen = file[y.bank]]
  <2>1. y.op = "edit" /\ y.bank \in Banks
    BY <1>3, <1>y, <1>f DEF EditLoad, Consistent, PointsOf, Ops
  <2>2. x \in Job /\ Consistent(j, x) /\ x.pc \notin {"idle", "lock"}
    BY <1>y, <1>f, <2>1 DEF Job, Consistent, PointsOf, Ops, Points
  <2>3. Goto(j, x) /\ lock' = lock /\ Inside(j)
    BY <1>3 DEF EditLoad, Inside
  <2> HIDE DEF x
  <2>4. JobsOK
    BY <2>2, <2>3, AdvanceType
  <2> QED BY <1>3, <2>4 DEF EditLoad, Rows, TypeOK
<1>4. ASSUME NEW c \in Contents, Rename(j, c) PROVE TypeOK'
  <2>1. JobsOK
    BY <1>4, FinishType DEF Rename
  <2>2. file' \in [Banks -> Contents \cup {None}]
    BY <1>4, <1>f DEF Rename
  <2> QED BY <1>4, <2>1, <2>2 DEF Rename, Rows, TypeOK
<1>5. ASSUME DeleteCheck(j) PROVE TypeOK'
  <2> DEFINE x == [y EXCEPT !.pc = "unlink"]
  <2>1. y.op = "delete"
    BY <1>5, <1>y, <1>f DEF DeleteCheck, Consistent, PointsOf, Ops
  <2>2. x \in Job /\ Consistent(j, x) /\ x.pc \notin {"idle", "lock"}
    BY <1>y, <2>1 DEF Job, Consistent, PointsOf, Ops, Points
  <2>3. Goto(j, x) /\ lock' = lock /\ Inside(j)
    BY <1>5 DEF DeleteCheck, Inside
  <2> HIDE DEF x
  <2>4. JobsOK
    BY <2>2, <2>3, AdvanceType
  <2> QED BY <1>5, <2>4 DEF DeleteCheck, Rows, TypeOK
<1>6. ASSUME Unlink(j) PROVE TypeOK'
  <2>1. JobsOK
    BY <1>6, FinishType DEF Unlink
  <2>2. file' \in [Banks -> Contents \cup {None}]
    BY <1>6, <1>f DEF Unlink
  <2> QED BY <1>6, <2>1, <2>2 DEF Unlink, Rows, TypeOK
<1>7. ASSUME NEW b \in Banks, Compose(j, b) PROVE TypeOK'
  <2> DEFINE n == IF y.todo # {b} THEN "compose"
                  ELSE IF y.op = "publish" THEN "reread" ELSE "store"
             q == [y.quiz EXCEPT ![b] = file[b]]
             x == [y EXCEPT !.quiz = q, !.todo = y.todo \ {b}, !.pc = n]
  <2>1. y.op \in {"create", "update", "publish"}
    BY <1>7, <1>y, <1>f DEF Compose, Consistent, PointsOf, Ops
  <2>2. n \in PointsOf(y.op) /\ n \in Points \ {"idle", "lock"}
    BY <2>1 DEF PointsOf, Points
  <2>3. q \in Quiz
    BY <1>f DEF Quiz
  <2> HIDE DEF n, q
  <2>4. x \in Job /\ Consistent(j, x) /\ x.pc \notin {"idle", "lock"}
    BY <1>y, <1>f, <2>1, <2>2, <2>3 DEF Job, Consistent, Ops
  <2>5. Goto(j, x) /\ lock' = lock /\ Inside(j)
    BY <1>7 DEF Compose, Inside, n, q
  <2> HIDE DEF x
  <2>6. JobsOK
    BY <2>4, <2>5, AdvanceType
  <2> QED BY <1>7, <2>6 DEF Compose, Rows, TypeOK
<1>8. ASSUME StoreTest(j) PROVE TypeOK'
  <2>1. JobsOK
    BY <1>8, FinishType DEF StoreTest
  <2>2. banksOf' \in [Tests -> SUBSET Banks] /\ settingsOf' \in [Tests -> Settings \cup {None}]
    BY <1>8, <1>f DEF StoreTest
  <2> QED BY <1>8, <2>1, <2>2 DEF StoreTest, TypeOK
<1>9. ASSUME GetTest(j) PROVE TypeOK'
  <2> DEFINE x == [y EXCEPT !.pc = "compose", !.banks = banksOf[y.test],
                            !.todo = banksOf[y.test], !.settings = settingsOf[y.test]]
  <2>1. y.op = "publish" /\ y.test \in Tests
    BY <1>9, <1>y, <1>f DEF GetTest, Consistent, PointsOf, Ops
  <2>2. x \in Job /\ Consistent(j, x) /\ x.pc \notin {"idle", "lock"}
    BY <1>y, <1>f, <2>1 DEF Job, Consistent, PointsOf, Ops, Points
  <2>3. Goto(j, x) /\ lock' = lock /\ Inside(j)
    BY <1>9 DEF GetTest, Inside
  <2> HIDE DEF x
  <2>4. JobsOK
    BY <2>2, <2>3, AdvanceType
  <2> QED BY <1>9, <2>4 DEF GetTest, Rows, TypeOK
<1>10. ASSUME RereadTest(j) PROVE TypeOK'
  <2> DEFINE x == [y EXCEPT !.pc = "insert", !.saved = banksOf[y.test]]
  <2>1. y.op = "publish" /\ y.test \in Tests
    BY <1>10, <1>y, <1>f DEF RereadTest, Consistent, PointsOf, Ops
  <2>2. x \in Job /\ Consistent(j, x) /\ x.pc \notin {"idle", "lock"}
    BY <1>y, <1>f, <2>1 DEF Job, Consistent, PointsOf, Ops, Points
  <2>3. Goto(j, x) /\ lock' = lock /\ Inside(j)
    BY <1>10 DEF RereadTest, Inside
  <2> HIDE DEF x
  <2>4. JobsOK
    BY <2>2, <2>3, AdvanceType
  <2> QED BY <1>10, <2>4 DEF RereadTest, Rows, TypeOK
<1>11. ASSUME InsertPublication(j) PROVE TypeOK'
  <2>1. JobsOK
    BY <1>11, FinishType DEF InsertPublication
  <2>2. y.test \in Tests
    BY <1>11, <1>y, <1>f DEF InsertPublication, Consistent, PointsOf, Ops
  <2>3. snapshot' \in Snapshot /\ published' \subseteq Tests
    BY <1>11, <1>f, <2>2 DEF InsertPublication, Snapshot, TypeOK
  <2> QED BY <1>11, <2>1, <2>3 DEF InsertPublication, TypeOK
<1>12. ASSUME Fail(j) PROVE TypeOK'
  <2>1. JobsOK
    BY <1>12, FinishType DEF Fail
  <2> QED BY <1>12, <2>1 DEF Fail, Rows, TypeOK
<1> HIDE DEF y, JobsOK
<1> QED
  BY <1>1, <1>2, <1>3, <1>4, <1>5, <1>6, <1>7, <1>8, <1>9, <1>10, <1>11, <1>12,
     Step(j)
  DEF Step

\* Types, and mutual exclusion of the web requests, whatever runs beside them.
THEOREM PublishingTypes == Spec => []TypeOK
<1>1. Init => TypeOK
  <2> SUFFICES ASSUME Init PROVE TypeOK
    OBVIOUS
  <2>1. Idle \in Job /\ \A j \in Jobs : Consistent(j, Idle)
    BY DEF Idle, Job, Points, Quiz, NoQuiz, Consistent
  <2> QED BY <2>1 DEF Init, TypeOK, Inside, Idle, Jobs
<1>2. TypeOK /\ [Next]_vars => TypeOK'
  <2> SUFFICES ASSUME TypeOK, [Next]_vars PROVE TypeOK'
    OBVIOUS
  <2>1. CASE UNCHANGED vars
    BY <2>1 DEF TypeOK, vars, Inside
  <2>2. ASSUME NEW t \in Tests, DeleteTest(t) PROVE TypeOK'
    BY <2>2 DEF DeleteTest, TypeOK, Inside
  <2> QED BY <2>1, <2>2, StepType, StartType DEF Next
<1> QED BY <1>1, <1>2, PTL DEF Spec

-----------------------------------------------------------------------------
(* What quiz_lock protects.                                                *)

\* What a request of the web administration knows at its point; delete_test
\* takes no lock, so the test may be gone.
Progress(j) ==
    LET x == job[j] IN
    /\ x.pc = "unlink" => Unused(x.bank)
    /\ x.pc \in {"lock", "get"} => x.quiz = NoQuiz
    /\ x.pc = "lock" /\ x.op \in {"create", "update"} => x.todo = x.banks
    /\ x.pc \in {"compose", "store", "reread", "insert"} =>
         /\ x.todo \subseteq x.banks
         /\ \A b \in Banks :
              x.quiz[b] = IF b \in x.banks \ x.todo THEN file[b] ELSE None
         /\ \A b \in x.banks \ x.todo : file[b] # None
    /\ x.pc \in {"store", "reread", "insert"} => x.todo = {}
    /\ x.pc \in {"compose", "reread", "insert"} /\ x.op = "publish" =>
         \/ banksOf[x.test] = {}
         \/ banksOf[x.test] = x.banks /\ settingsOf[x.test] = x.settings
    /\ x.pc = "insert" => x.saved = x.banks

\* As long as only web requests run, quiz_lock keeps what a handler has read
\* true until it returns: the banks it loaded are still the files, the bank it
\* found unused still is, the test it read is still saved so or deleted
\* (delete_bank, mutate_test_definition and publish_test in web.rs).
LockedView == \A j \in Jobs : Progress(j)

WebInv == SavedTestHasItsBanks /\ RevisionNamesItsBanks /\ LockedView

\* While one web request is past its first line no other is.
LEMMA Alone ==
    ASSUME TypeOK, CliJobs = {}, NEW j \in Jobs, NEW i \in Jobs, Inside(j), i # j
    PROVE  job[i].pc \in {"idle", "lock"}
BY DEF TypeOK, Inside, Jobs

\* So it may change files and rows under them, as long as it leaves its own
\* view true.
LEMMA OthersKeepTheirView ==
    ASSUME TypeOK, CliJobs = {}, NEW j \in Jobs, NEW x, Goto(j, x),
           LockedView, Inside(j), Progress(j)'
    PROVE  LockedView'
<1> SUFFICES ASSUME NEW i \in Jobs, i # j
             PROVE  Progress(i)'
  BY DEF LockedView
<1>1. job'[i] = job[i]
  BY DEF Goto, TypeOK
<1>2. job[i].pc \in {"idle", "lock"} /\ Progress(i)
  BY Alone DEF LockedView
<1> QED BY <1>1, <1>2 DEF Progress

\* A request that returns has nothing left to know.
LEMMA ReturnKeepsViews ==
    ASSUME TypeOK, CliJobs = {}, NEW j \in Jobs, Finish(j), LockedView, Inside(j)
    PROVE  LockedView'
<1>1. job'[j] = Idle /\ Goto(j, Idle)
  BY DEF Finish, Goto, TypeOK
<1>2. Progress(j)'
  BY <1>1 DEF Progress, Idle
<1> QED BY <1>1, <1>2, OthersKeepTheirView

\* A step that leaves files and rows alone only has its own view to establish.
LEMMA AdvanceView ==
    ASSUME TypeOK, CliJobs = {}, WebInv, NEW j \in Jobs, NEW x, Goto(j, x), Inside(j),
           UNCHANGED <<file, Rows>>, Progress(j)'
    PROVE  WebInv'
<1>1. LockedView'
  BY OthersKeepTheirView DEF WebInv
<1> QED BY <1>1 DEF WebInv, SavedTestHasItsBanks, RevisionNamesItsBanks, Rows

LEMMA WebStart ==
    ASSUME TypeOK, CliJobs = {}, WebInv, NEW j \in Jobs, NEW r \in Requests(j), Start(j, r)
    PROVE  WebInv'
<1>1. /\ job'[j].pc = "lock" /\ job'[j].quiz = NoQuiz
      /\ job'[j].todo = job'[j].banks /\ UNCHANGED <<file, Rows>>
  BY DEF Start, Goto, TypeOK, Jobs, Idle
<1>2. ASSUME NEW i \in Jobs PROVE Progress(i)'
  <2>1. CASE i = j
    BY <1>1, <2>1 DEF Progress
  <2>2. CASE i # j
    <3>1. job'[i] = job[i] /\ Progress(i)
      BY <2>2 DEF Start, Goto, TypeOK, WebInv, LockedView
    <3> QED BY <1>1, <3>1 DEF Progress, Rows, Unused
  <2> QED BY <2>1, <2>2
<1> QED BY <1>1, <1>2 DEF WebInv, LockedView, SavedTestHasItsBanks, RevisionNamesItsBanks, Rows

LEMMA WebDeleteTest ==
    ASSUME TypeOK, WebInv, NEW t \in Tests, DeleteTest(t)
    PROVE  WebInv'
<1>1. /\ UNCHANGED <<file, published, snapshot, lock, job>>
      /\ \A u \in Tests : banksOf'[u] = {} \/ ( /\ banksOf'[u] = banksOf[u]
                                              /\ settingsOf'[u] = settingsOf[u])
  BY DEF DeleteTest, TypeOK
<1>2. ASSUME NEW i \in Jobs PROVE Progress(i)'
  <2>1. Progress(i) /\ job'[i] = job[i]
    BY <1>1 DEF WebInv, LockedView
  <2>2. job[i].op = "publish" => job[i].test \in Tests
    BY DEF TypeOK, Consistent
  <2>3. \A b \in Banks : Unused(b) => Unused(b)'
    BY <1>1 DEF Unused
  <2>4. job[i].pc = "unlink" => job[i].bank \in Banks
    BY DEF TypeOK, Consistent, PointsOf, Ops
  <2> QED BY <1>1, <2>1, <2>2, <2>3, <2>4 DEF Progress
<1>3. SavedTestHasItsBanks'
  BY <1>1 DEF WebInv, SavedTestHasItsBanks
<1> QED BY <1>1, <1>2, <1>3 DEF WebInv, LockedView, RevisionNamesItsBanks

LEMMA WebStep ==
    ASSUME TypeOK, CliJobs = {}, WebInv, NEW j \in Jobs, Step(j)
    PROVE  WebInv'
<1> DEFINE y == job[j]
<1>y. y \in Job /\ Consistent(j, y) /\ Progress(j)
  BY DEF TypeOK, WebInv, LockedView
<1>f. /\ file \in [Banks -> Contents \cup {None}]
      /\ y.quiz \in Quiz /\ y.banks \subseteq Banks /\ y.todo \subseteq Banks
      /\ y.op \in Ops \cup {"none"}
  BY <1>y DEF TypeOK, Job
<1>1. ASSUME Acquire(j) PROVE WebInv'
  <2> DEFINE x == [y EXCEPT !.pc = FirstPoint(y.op)]
  <2>1. /\ Goto(j, x) /\ job'[j] = x /\ UNCHANGED <<file, Rows>> /\ y.pc = "lock"
    BY <1>1 DEF Acquire, Goto, TypeOK
  <2>2. y.op \in Ops
    BY <1>y, <2>1 DEF Consistent
  <2>3. /\ x.pc = FirstPoint(y.op) /\ x.op = y.op /\ x.quiz = NoQuiz
        /\ x.todo = y.todo /\ x.banks = y.banks
        /\ y.op \in {"create", "update"} => y.todo = y.banks
    BY <1>y, <2>1 DEF Job, Progress
  <2>4. Progress(j)'
    BY <1>f, <2>1, <2>2, <2>3 DEF Progress, FirstPoint, Ops, NoQuiz
  <2>5. ASSUME NEW i \in Jobs, i # j PROVE Progress(i)'
    <3>1. job'[i] = job[i] /\ Progress(i)
      BY <2>1, <2>5 DEF Goto, TypeOK, WebInv, LockedView
    <3> QED BY <2>1, <3>1 DEF Progress, Rows, Unused
  <2> QED
    BY <2>1, <2>4, <2>5 DEF WebInv, LockedView, SavedTestHasItsBanks, RevisionNamesItsBanks, Rows
<1>2. ASSUME ImportCheck(j) PROVE WebInv'
  <2> DEFINE x == [y EXCEPT !.pc = "rename"]
  <2>1. Goto(j, x) /\ job'[j] = x /\ UNCHANGED <<file, Rows>> /\ Inside(j)
    BY <1>2 DEF ImportCheck, Goto, TypeOK, Inside
  <2>2. x.pc = "rename"
    BY <1>y DEF Job
  <2>3. Progress(j)'
    BY <2>1, <2>2 DEF Progress
  <2> HIDE DEF x
  <2> QED BY <2>1, <2>3, AdvanceView
<1>3. ASSUME EditLoad(j) PROVE WebInv'
  <2> DEFINE x == [y EXCEPT !.pc = "rename", !.seen = file[y.bank]]
  <2>1. Goto(j, x) /\ job'[j] = x /\ UNCHANGED <<file, Rows>> /\ Inside(j)
    BY <1>3 DEF EditLoad, Goto, TypeOK, Inside
  <2>2. x.pc = "rename"
    BY <1>y DEF Job
  <2>3. Progress(j)'
    BY <2>1, <2>2 DEF Progress
  <2> HIDE DEF x
  <2> QED BY <2>1, <2>3, AdvanceView
<1>4. ASSUME NEW c \in Contents, Rename(j, c) PROVE WebInv'
  <2>1. LockedView'
    BY <1>4, ReturnKeepsViews DEF Rename, Inside, WebInv
  <2>2. \A b \in Banks : file[b] # None => file'[b] # None
    BY <1>4, <1>f DEF Rename
  <2> QED BY <1>4, <2>1, <2>2 DEF Rename, Rows, WebInv, SavedTestHasItsBanks, RevisionNamesItsBanks, TypeOK
<1>5. ASSUME DeleteCheck(j) PROVE WebInv'
  <2> DEFINE x == [y EXCEPT !.pc = "unlink"]
  <2>1. Goto(j, x) /\ job'[j] = x /\ UNCHANGED <<file, Rows>> /\ Inside(j) /\ Unused(y.bank)
    BY <1>5 DEF DeleteCheck, Goto, TypeOK, Inside
  <2>2. x.pc = "unlink" /\ x.bank = y.bank
    BY <1>y DEF Job
  <2>3. Progress(j)'
    BY <2>1, <2>2 DEF Progress, Unused, Rows
  <2> HIDE DEF x
  <2> QED BY <2>1, <2>3, AdvanceView
<1>6. ASSUME Unlink(j) PROVE WebInv'
  <2>1. LockedView'
    BY <1>6, ReturnKeepsViews DEF Unlink, Inside, WebInv
  <2>2. Unused(y.bank) /\ \A b \in Banks \ {y.bank} : file'[b] = file[b]
    BY <1>6, <1>y, <1>f DEF Unlink, Progress
  <2> QED BY <1>6, <2>1, <2>2 DEF Unlink, Unused, Rows, WebInv, SavedTestHasItsBanks, RevisionNamesItsBanks
<1>7. ASSUME NEW b \in Banks, Compose(j, b) PROVE WebInv'
  <2> DEFINE n == IF y.todo # {b} THEN "compose"
                  ELSE IF y.op = "publish" THEN "reread" ELSE "store"
             q == [y.quiz EXCEPT ![b] = file[b]]
             x == [y EXCEPT !.quiz = q, !.todo = y.todo \ {b}, !.pc = n]
  <2>1. /\ Goto(j, x) /\ job'[j] = x /\ UNCHANGED <<file, Rows>> /\ Inside(j)
        /\ y.pc = "compose" /\ b \in y.todo /\ file[b] # None
    BY <1>7 DEF Compose, Goto, TypeOK, Inside
  <2>2. /\ x.pc = n /\ x.op = y.op /\ x.todo = y.todo \ {b} /\ x.quiz = q
        /\ x.banks = y.banks /\ x.test = y.test /\ x.settings = y.settings
    BY <1>y DEF Job
  <2>3. /\ y.todo \subseteq y.banks
        /\ \A d \in Banks : y.quiz[d] = IF d \in y.banks \ y.todo THEN file[d] ELSE None
        /\ \A d \in y.banks \ y.todo : file[d] # None
    BY <1>y, <2>1 DEF Progress
  <2>4. \A d \in Banks : q[d] = IF d \in y.banks \ (y.todo \ {b}) THEN file[d] ELSE None
    BY <1>f, <2>1, <2>3 DEF Quiz
  <2>5. /\ n \in {"compose", "store", "reread"}
        /\ n # "compose" => y.todo \ {b} = {}
        /\ n = "reread" => y.op = "publish"
    OBVIOUS
  <2>6. y.op = "publish" =>
          \/ banksOf[y.test] = {}
          \/ banksOf[y.test] = y.banks /\ settingsOf[y.test] = y.settings
    BY <1>y, <2>1 DEF Progress
  <2> HIDE DEF n, q, x
  <2>7. Progress(j)'
    <3>1. job'[j].pc = n /\ job'[j].op = y.op /\ job'[j].todo = y.todo \ {b}
          /\ job'[j].quiz = q /\ job'[j].banks = y.banks /\ job'[j].test = y.test
          /\ job'[j].settings = y.settings
      BY <2>1, <2>2
    <3>2. file' = file /\ banksOf' = banksOf /\ settingsOf' = settingsOf
      BY <2>1 DEF Rows
    <3>3. /\ y.todo \ {b} \subseteq y.banks
          /\ \A d \in y.banks \ (y.todo \ {b}) : file[d] # None
      BY <2>1, <2>3
    <3> HIDE DEF y
    <3> QED BY <2>4, <2>5, <2>6, <3>1, <3>2, <3>3 DEF Progress
  <2> QED BY <2>1, <2>7, AdvanceView
<1>8. ASSUME StoreTest(j) PROVE WebInv'
  <2>1. LockedView'
    BY <1>8, ReturnKeepsViews DEF StoreTest, Inside, WebInv
  <2>2. \A b \in y.banks : file[b] # None
    BY <1>8, <1>y DEF StoreTest, Progress
  <2>3. /\ UNCHANGED <<file, snapshot>>
        /\ \A t \in Tests : banksOf'[t] = banksOf[t] \/ banksOf'[t] = y.banks
    BY <1>8 DEF StoreTest, TypeOK
  <2> QED BY <2>1, <2>2, <2>3 DEF WebInv, SavedTestHasItsBanks, RevisionNamesItsBanks
<1>9. ASSUME GetTest(j) PROVE WebInv'
  <2> DEFINE x == [y EXCEPT !.pc = "compose", !.banks = banksOf[y.test],
                            !.todo = banksOf[y.test], !.settings = settingsOf[y.test]]
  <2>1. /\ Goto(j, x) /\ job'[j] = x /\ UNCHANGED <<file, Rows>> /\ Inside(j)
        /\ y.pc = "get"
    BY <1>9 DEF GetTest, Goto, TypeOK, Inside
  <2>2. /\ x.pc = "compose" /\ x.banks = banksOf[y.test] /\ x.todo = banksOf[y.test]
        /\ x.settings = settingsOf[y.test] /\ x.test = y.test /\ x.quiz = NoQuiz
    BY <1>y, <2>1 DEF Job, Progress
  <2> HIDE DEF x
  <2>3. Progress(j)'
    BY <2>1, <2>2 DEF Progress, NoQuiz, Rows
  <2> QED BY <2>1, <2>3, AdvanceView
<1>10. ASSUME RereadTest(j) PROVE WebInv'
  <2> DEFINE x == [y EXCEPT !.pc = "insert", !.saved = banksOf[y.test]]
  <2>1. /\ Goto(j, x) /\ job'[j] = x /\ UNCHANGED <<file, Rows>> /\ Inside(j)
        /\ y.pc = "reread" /\ banksOf[y.test] # {}
    BY <1>10 DEF RereadTest, Goto, TypeOK, Inside
  <2>2. /\ x.pc = "insert" /\ x.saved = banksOf[y.test] /\ x.quiz = y.quiz
        /\ x.banks = y.banks /\ x.todo = y.todo /\ x.test = y.test /\ x.op = y.op
        /\ x.settings = y.settings
    BY <1>y DEF Job
  <2>3. y.op = "publish"
    BY <1>y, <1>f, <2>1 DEF Consistent, PointsOf, Ops
  <2> HIDE DEF x
  <2>4. Progress(j)'
    BY <1>y, <2>1, <2>2, <2>3 DEF Progress, Rows
  <2> QED BY <2>1, <2>4, AdvanceView
<1>11. ASSUME InsertPublication(j) PROVE WebInv'
  <2>1. LockedView'
    BY <1>11, ReturnKeepsViews DEF InsertPublication, Inside, WebInv
  <2>2. /\ y.saved = y.banks /\ y.todo = {}
        /\ \A b \in Banks : y.quiz[b] = IF b \in y.banks THEN file[b] ELSE None
        /\ \A b \in y.banks : file[b] # None
    BY <1>11, <1>y DEF InsertPublication, Progress
  <2>3. /\ snapshot' # None => snapshot'.banks = y.saved /\ snapshot'.quiz = y.quiz
        /\ UNCHANGED <<file, banksOf>>
    BY <1>11 DEF InsertPublication
  <2>4. y.saved = {b \in Banks : y.quiz[b] # None}
    BY <1>f, <2>2
  <2> QED BY <2>1, <2>3, <2>4 DEF WebInv, SavedTestHasItsBanks, RevisionNamesItsBanks
<1>12. ASSUME Fail(j) PROVE WebInv'
  <2>1. UNCHANGED <<file, Rows>> /\ Finish(j)
    BY <1>12 DEF Fail
  <2>2. LockedView'
    <3>1. CASE Inside(j)
      BY <2>1, <3>1, ReturnKeepsViews DEF WebInv
    <3>2. CASE ~Inside(j)
      <4>1. ASSUME NEW i \in Jobs PROVE Progress(i)'
        <5>1. CASE i = j
          <6>1. job'[i].pc = "idle"
            BY <2>1, <5>1 DEF Finish, Goto, TypeOK, Idle
          <6> QED BY <6>1 DEF Progress
        <5>2. CASE i # j
          <6>1. job'[i] = job[i] /\ Progress(i)
            BY <2>1, <5>2 DEF Finish, Goto, TypeOK, WebInv, LockedView
          <6> QED BY <2>1, <6>1 DEF Progress, Rows, Unused
        <5> QED BY <5>1, <5>2
      <4> QED BY <4>1 DEF LockedView
    <3> QED BY <3>1, <3>2
  <2> QED BY <2>1, <2>2 DEF WebInv, SavedTestHasItsBanks, RevisionNamesItsBanks, Rows
<1> HIDE DEF y
<1> QED
  BY <1>1, <1>2, <1>3, <1>4, <1>5, <1>6, <1>7, <1>8, <1>9, <1>10, <1>11, <1>12,
     Step(j)
  DEF Step

LEMMA WebInit == Init => WebInv
<1> SUFFICES ASSUME Init PROVE WebInv
  OBVIOUS
<1>1. ASSUME NEW j \in Jobs PROVE Progress(j)
  BY <1>1 DEF Init, Idle, Progress
<1> QED BY <1>1 DEF Init, WebInv, LockedView, SavedTestHasItsBanks, RevisionNamesItsBanks

LEMMA WebNext ==
    ASSUME TypeOK, CliJobs = {}, WebInv, [Next]_vars
    PROVE  WebInv'
<1>1. CASE UNCHANGED vars
  <2>1. \A j \in Jobs : Progress(j) <=> Progress(j)'
    BY <1>1 DEF vars, Rows, Progress, Unused
  <2> QED
    BY <1>1, <2>1 DEF vars, Rows, WebInv, LockedView, SavedTestHasItsBanks, RevisionNamesItsBanks
<1> QED BY <1>1, WebStep, WebStart, WebDeleteTest DEF Next

LEMMA WebInvariant == ASSUME CliJobs = {} PROVE Spec => [](TypeOK /\ WebInv)
<1>1. TypeOK /\ WebInv /\ [Next]_vars => WebInv'
  BY WebNext
<1> QED BY <1>1, WebInit, PublishingTypes, PTL DEF Spec

\* Under quiz_lock alone, whatever a handler has read stays true until it
\* returns.
THEOREM LockedViewHolds == ASSUME CliJobs = {} PROVE Spec => []LockedView
<1>1. WebInv => LockedView
  BY DEF WebInv
<1> QED BY <1>1, WebInvariant, PTL

\* Under quiz_lock alone, no saved test loses one of its banks (delete_bank
\* in web.rs against create_test and update_test).
THEOREM SavedTestHasItsBanksHolds ==
    ASSUME CliJobs = {} PROVE Spec => []SavedTestHasItsBanks
<1>1. WebInv => SavedTestHasItsBanks
  BY DEF WebInv
<1> QED BY <1>1, WebInvariant, PTL

\* Under quiz_lock alone, a revision hashes the ids of the banks whose
\* questions are published (publish_test in web.rs and db.rs).
THEOREM RevisionNamesItsBanksHolds ==
    ASSUME CliJobs = {} PROVE Spec => []RevisionNamesItsBanks
<1>1. WebInv => RevisionNamesItsBanks
  BY DEF WebInv
<1> QED BY <1>1, WebInvariant, PTL

-----------------------------------------------------------------------------
(* What no step of a web request does.                                     *)

\* Under quiz_lock alone, delete_bank never unlinks the file of a bank that a
\* saved test uses.
THEOREM UsedBankKeptHolds == ASSUME CliJobs = {} PROVE Spec => UsedBankKept
<1>1. ASSUME TypeOK, WebInv, [Next]_vars, NEW b \in Banks, NEW t \in Tests,
             file[b] # None, file'[b] = None
      PROVE  b \notin banksOf[t]
  <2>1. PICK j \in Jobs : Step(j)
    <3>1. ~UNCHANGED file
      BY <1>1
    <3>2. \A i \in Jobs : \A r \in Requests(i) : ~Start(i, r)
      BY <3>1 DEF Start
    <3>3. \A s \in Tests : ~DeleteTest(s)
      BY <3>1 DEF DeleteTest
    <3> QED BY <1>1, <3>1, <3>2, <3>3 DEF Next, vars
  <2>2. \A c \in Contents : ~Rename(j, c)
    BY <1>1, PublishingNoneAssumption DEF Rename, TypeOK
  <2>3. CASE Unlink(j)
    <3>1. job[j].bank = b /\ job[j].pc = "unlink" /\ Progress(j)
      BY <1>1, <2>3 DEF Unlink, TypeOK, WebInv, LockedView
    <3> QED BY <3>1 DEF Progress, Unused
  <2>4. CASE UNCHANGED file
    BY <1>1, <2>4
  <2> QED
    BY <2>1, <2>2, <2>3, <2>4
    DEF Step, Acquire, ImportCheck, EditLoad, DeleteCheck, Compose, StoreTest, GetTest,
        RereadTest, InsertPublication, Fail
<1>2. TypeOK /\ WebInv /\ [Next]_vars =>
        [\A b \in Banks, t \in Tests :
           file[b] # None /\ file'[b] = None => b \notin banksOf[t]]_vars
  BY <1>1
<1> QED BY <1>2, WebInvariant, PTL DEF Spec, UsedBankKept

\* Under quiz_lock alone, publish_test publishes the test as it is saved, made
\* of the bank files as they are, at the moment of its INSERT.
THEOREM PublishesCurrentDraftHolds ==
    ASSUME CliJobs = {} PROVE Spec => PublishesCurrentDraft
<1> DEFINE Current(t) ==
             /\ snapshot'.banks = banksOf[t]
             /\ snapshot'.settings = settingsOf[t]
             /\ snapshot'.quiz = [b \in Banks |-> IF b \in banksOf[t] THEN file[b] ELSE None]
<1>1. ASSUME TypeOK, WebInv, [Next]_vars, snapshot' # snapshot
      PROVE  Current(snapshot'.test)
  <2>1. PICK j \in Jobs : InsertPublication(j)
    BY <1>1
    DEF Next, vars, Step, Start, DeleteTest, Rows, Acquire, ImportCheck, EditLoad, Rename,
        DeleteCheck, Unlink, Compose, StoreTest, GetTest, RereadTest, Fail
  <2> DEFINE x == job[j]
  <2>2. x.op = "publish"
    BY <1>1, <2>1 DEF InsertPublication, TypeOK, Consistent, PointsOf, Ops
  <2>3. x.quiz \in [Banks -> Contents \cup {None}]
    BY <1>1 DEF TypeOK, Job, Quiz
  <2>4. /\ x.todo = {} /\ x.saved = x.banks
        /\ banksOf[x.test] = x.banks /\ settingsOf[x.test] = x.settings
        /\ \A b \in Banks : x.quiz[b] = IF b \in x.banks THEN file[b] ELSE None
    <3>1. Progress(j) /\ x.pc = "insert" /\ banksOf[x.test] # {}
      BY <1>1, <2>1 DEF WebInv, LockedView, InsertPublication
    <3> QED BY <2>2, <3>1 DEF Progress
  <2>5. /\ snapshot'.test = x.test /\ snapshot'.banks = x.saved
        /\ snapshot'.settings = x.settings /\ snapshot'.quiz = x.quiz
    BY <2>1 DEF InsertPublication
  <2> HIDE DEF x
  <2>6. x.quiz = [b \in Banks |-> IF b \in x.banks THEN file[b] ELSE None]
    BY <2>3, <2>4
  <2> QED BY <2>4, <2>5, <2>6
<1>2. TypeOK /\ WebInv /\ [Next]_vars =>
        [snapshot' # snapshot => Current(snapshot'.test)]_vars
  <2> HIDE DEF Current
  <2> QED BY <1>1
<1>3. PublishesCurrentDraft <=> [][snapshot' # snapshot => Current(snapshot'.test)]_vars
  BY DEF PublishesCurrentDraft
<1> HIDE DEF Current
<1> QED BY <1>2, <1>3, WebInvariant, PTL DEF Spec

-----------------------------------------------------------------------------
(* What a step does to the request that takes it.                          *)

\* It still asks for the same; what publish_test reads is not asked for.
SameTask(j) ==
    /\ job'[j].op = job[j].op /\ job'[j].bank = job[j].bank /\ job'[j].test = job[j].test
    /\ job[j].op # "publish" =>
         job'[j].banks = job[j].banks /\ job'[j].settings = job[j].settings

LEMMA StepAlone ==
    ASSUME TypeOK, NEW j \in Jobs, Step(j)
    PROVE  \A i \in Jobs \ {j} : job'[i] = job[i]
BY DEF Step, Acquire, ImportCheck, EditLoad, Rename, DeleteCheck, Unlink, Compose,
       StoreTest, GetTest, RereadTest, InsertPublication, Fail, Finish, Goto, TypeOK

LEMMA AcquireEffect ==
    ASSUME TypeOK, NEW j \in Jobs, Acquire(j)
    PROVE  /\ SameTask(j) /\ job[j].op \in Ops
           /\ job'[j].pc = FirstPoint(job[j].op)
           /\ job'[j].banks = job[j].banks /\ job'[j].todo = job[j].todo
           /\ job'[j].quiz = job[j].quiz
<1> DEFINE x == [job[j] EXCEPT !.pc = FirstPoint(job[j].op)]
<1>1. job'[j] = x /\ job[j].op \in Ops /\ job[j] \in Job
  BY DEF Acquire, Goto, TypeOK, Consistent
<1>2. /\ x.op = job[j].op /\ x.bank = job[j].bank /\ x.test = job[j].test
      /\ x.pc = FirstPoint(job[j].op) /\ x.banks = job[j].banks
      /\ x.settings = job[j].settings /\ x.todo = job[j].todo /\ x.quiz = job[j].quiz
  BY <1>1 DEF Job
<1> HIDE DEF x
<1> QED BY <1>1, <1>2 DEF SameTask

\* ImportCheck, EditLoad and DeleteCheck lead to the last point of an operation
\* on a bank.
LEMMA CheckEffect ==
    ASSUME TypeOK, NEW j \in Jobs, ImportCheck(j) \/ EditLoad(j) \/ DeleteCheck(j)
    PROVE  /\ SameTask(j) /\ job[j].op \in {"import", "edit", "delete"}
           /\ job'[j].pc \in {"rename", "unlink"}
           /\ job'[j].pc = "unlink" => Unused(job[j].bank)
<1> DEFINE y == job[j]
<1>y. y \in Job /\ Consistent(j, y)
  BY DEF TypeOK
<1>1. y.op \in {"import", "edit", "delete"}
  BY <1>y DEF ImportCheck, EditLoad, DeleteCheck, Consistent, PointsOf, Ops
<1>2. CASE ImportCheck(j)
  <2>1. job'[j] = [y EXCEPT !.pc = "rename"]
    BY <1>2 DEF ImportCheck, Goto, TypeOK
  <2> QED BY <1>y, <1>1, <2>1 DEF Job, SameTask
<1>3. CASE EditLoad(j)
  <2> DEFINE x == [y EXCEPT !.pc = "rename", !.seen = file[y.bank]]
  <2>1. job'[j] = x
    BY <1>3 DEF EditLoad, Goto, TypeOK
  <2>2. /\ x.pc = "rename" /\ x.op = y.op /\ x.bank = y.bank /\ x.test = y.test
        /\ x.banks = y.banks /\ x.settings = y.settings
    BY <1>y DEF Job
  <2> HIDE DEF x
  <2> QED BY <1>1, <2>1, <2>2 DEF SameTask
<1>4. CASE DeleteCheck(j)
  <2>1. job'[j] = [y EXCEPT !.pc = "unlink"] /\ Unused(y.bank)
    BY <1>4 DEF DeleteCheck, Goto, TypeOK
  <2> QED BY <1>y, <1>1, <2>1 DEF Job, SameTask
<1> QED BY <1>2, <1>3, <1>4

LEMMA ComposeEffect ==
    ASSUME TypeOK, NEW j \in Jobs, NEW b \in Banks, Compose(j, b)
    PROVE  /\ SameTask(j)
           /\ job'[j].pc \in {"compose", "store", "reread"}
           /\ job'[j].pc # "compose" => job'[j].todo = {}
           /\ job'[j].pc = "reread" => job[j].op = "publish"
           /\ job'[j].banks = job[j].banks
           /\ job'[j].todo = job[j].todo \ {b}
           /\ job'[j].quiz = [job[j].quiz EXCEPT ![b] = file[b]]
<1> DEFINE y == job[j]
           n == IF y.todo # {b} THEN "compose"
                ELSE IF y.op = "publish" THEN "reread" ELSE "store"
           q == [y.quiz EXCEPT ![b] = file[b]]
           x == [y EXCEPT !.quiz = q, !.todo = y.todo \ {b}, !.pc = n]
<1>1. job'[j] = x /\ y \in Job
  BY DEF Compose, Goto, TypeOK
<1>2. /\ x.pc = n /\ x.op = y.op /\ x.bank = y.bank /\ x.test = y.test
      /\ x.banks = y.banks /\ x.settings = y.settings
      /\ x.todo = y.todo \ {b} /\ x.quiz = q
  BY <1>1 DEF Job
<1>3. /\ n \in {"compose", "store", "reread"}
      /\ n # "compose" => y.todo \ {b} = {}
      /\ n = "reread" => y.op = "publish"
  OBVIOUS
<1> HIDE DEF n, x
<1> QED BY <1>1, <1>2, <1>3 DEF SameTask

LEMMA GetEffect ==
    ASSUME TypeOK, NEW j \in Jobs, GetTest(j)
    PROVE  /\ SameTask(j) /\ job[j].op = "publish"
           /\ job'[j].pc = "compose"
           /\ job'[j].banks = banksOf[job[j].test] /\ job'[j].todo = banksOf[job[j].test]
           /\ job'[j].quiz = job[j].quiz
<1> DEFINE y == job[j]
           x == [y EXCEPT !.pc = "compose", !.banks = banksOf[y.test],
                          !.todo = banksOf[y.test], !.settings = settingsOf[y.test]]
<1>1. job'[j] = x /\ y \in Job /\ y.op = "publish"
  BY DEF GetTest, Goto, TypeOK, Job, Consistent, PointsOf, Ops
<1>2. /\ x.pc = "compose" /\ x.op = y.op /\ x.bank = y.bank /\ x.test = y.test
      /\ x.banks = banksOf[y.test] /\ x.todo = banksOf[y.test] /\ x.quiz = y.quiz
  BY <1>1 DEF Job
<1> HIDE DEF x
<1> QED BY <1>1, <1>2 DEF SameTask

LEMMA RereadEffect ==
    ASSUME TypeOK, NEW j \in Jobs, RereadTest(j)
    PROVE  /\ SameTask(j) /\ job[j].op = "publish"
           /\ job'[j].pc = "insert" /\ job'[j].saved = banksOf[job[j].test]
           /\ job'[j].quiz = job[j].quiz
<1> DEFINE y == job[j]
           x == [y EXCEPT !.pc = "insert", !.saved = banksOf[y.test]]
<1>1. job'[j] = x /\ y \in Job /\ y.op = "publish"
  BY DEF RereadTest, Goto, TypeOK, Job, Consistent, PointsOf, Ops
<1>2. /\ x.pc = "insert" /\ x.op = y.op /\ x.bank = y.bank /\ x.test = y.test
      /\ x.saved = banksOf[y.test] /\ x.quiz = y.quiz
  BY <1>1 DEF Job
<1> HIDE DEF x
<1> QED BY <1>1, <1>2 DEF SameTask

Returns(j) ==
    \/ \E c \in Contents : Rename(j, c)
    \/ Unlink(j) \/ StoreTest(j) \/ InsertPublication(j) \/ Fail(j)

LEMMA ReturnEffect ==
    ASSUME TypeOK, NEW j \in Jobs, Returns(j)
    PROVE  job'[j] = Idle
BY DEF Returns, Rename, Unlink, StoreTest, InsertPublication, Fail, Finish, Goto, TypeOK

LEMMA StartEffect ==
    ASSUME TypeOK, NEW j \in Jobs, NEW r \in Requests(j), Start(j, r)
    PROVE  /\ \A i \in Jobs \ {j} : job'[i] = job[i]
           /\ job'[j].pc = IF j \in WebJobs THEN "lock" ELSE FirstPoint(r.op)
           /\ job'[j].op = r.op /\ r.op \in Ops
           /\ job'[j].quiz = NoQuiz /\ job'[j].todo = job'[j].banks
BY DEF Start, Goto, TypeOK, Jobs, Idle, Requests

-----------------------------------------------------------------------------
(* What a save of a bank goes by.                                          *)

\* The command line imports, creates and publishes, nothing else.
CommandOps == \A j \in CliJobs : job[j].op \in {"none", "import", "create", "publish"}

LEMMA CommandOpsAlways == Spec => []CommandOps
<1>1. Init => CommandOps
  BY DEF Init, Idle, CommandOps, Jobs
<1>2. TypeOK /\ CommandOps /\ [Next]_vars => CommandOps'
  <2> SUFFICES ASSUME TypeOK, CommandOps, [Next]_vars PROVE CommandOps'
    OBVIOUS
  <2>1. CASE UNCHANGED job
    BY <2>1 DEF CommandOps
  <2>2. ASSUME NEW j \in Jobs, NEW r \in Requests(j), Start(j, r) PROVE CommandOps'
    BY <2>2, StartEffect DEF CommandOps, Requests, Jobs
  <2>3. ASSUME NEW j \in Jobs, Step(j) PROVE CommandOps'
    <3>1. job'[j].op \in {"none", job[j].op}
      <4>1. CASE Returns(j)
        BY <4>1, ReturnEffect DEF Idle
      <4>2. CASE ~Returns(j)
        <5>1. SameTask(j)
          BY <2>3, <4>2, AcquireEffect, CheckEffect, ComposeEffect, GetEffect, RereadEffect
          DEF Step, Returns
        <5> QED BY <5>1 DEF SameTask
      <4> QED BY <4>1, <4>2
    <3> QED BY <2>3, <3>1, StepAlone DEF CommandOps, Jobs
  <2> QED BY <2>1, <2>2, <2>3 DEF Next, DeleteTest, vars
<1> QED BY <1>1, <1>2, PublishingTypes, PTL DEF Spec

\* No command imports a bank; commands may still create and publish tests.
NoCommandImports == \A j \in CliJobs : job[j].op # "import"

\* A request about to save still has the file as it found it.
AsSeen(j) ==
    job[j].pc = "rename" =>
        /\ job[j].op = "import" => file[job[j].bank] = None
        /\ job[j].op = "edit" => file[job[j].bank] = job[j].seen /\ job[j].seen # None

EveryoneAsSeen == \A j \in Jobs : AsSeen(j)

LEMMA AsSeenMine ==
    ASSUME TypeOK, NEW j \in Jobs, Step(j)
    PROVE  AsSeen(j)'
<1> DEFINE y == job[j]
<1>y. y \in Job /\ Consistent(j, y)
  BY DEF TypeOK
<1>1. CASE Acquire(j)
  BY <1>1, AcquireEffect DEF FirstPoint, Ops, AsSeen
<1>2. CASE ImportCheck(j)
  <2>1. y.op = "import" /\ file[y.bank] = None /\ UNCHANGED file
    BY <1>y, <1>2 DEF ImportCheck, Consistent, PointsOf, Ops
  <2> QED BY <1>2, <2>1, CheckEffect DEF SameTask, AsSeen
<1>3. CASE EditLoad(j)
  <2> DEFINE x == [y EXCEPT !.pc = "rename", !.seen = file[y.bank]]
  <2>1. y.op = "edit" /\ file[y.bank] # None /\ UNCHANGED file /\ job'[j] = x
    BY <1>y, <1>3 DEF EditLoad, Consistent, PointsOf, Ops, Goto, TypeOK
  <2>2. x.op = y.op /\ x.bank = y.bank /\ x.seen = file[y.bank]
    BY <1>y DEF Job
  <2> HIDE DEF x
  <2> QED BY <2>1, <2>2 DEF AsSeen
<1>4. CASE DeleteCheck(j)
  <2>1. y.op = "delete"
    BY <1>y, <1>4 DEF DeleteCheck, Consistent, PointsOf, Ops
  <2> QED BY <1>4, <2>1, CheckEffect DEF SameTask, AsSeen
<1>5. CASE GetTest(j) \/ RereadTest(j) \/ \E b \in Banks : Compose(j, b)
  <2>1. job'[j].pc # "rename"
    BY <1>5, GetEffect, RereadEffect, ComposeEffect
  <2> QED BY <2>1 DEF AsSeen
<1>6. CASE Returns(j)
  BY <1>6, ReturnEffect DEF Idle, AsSeen
<1> QED BY <1>1, <1>2, <1>3, <1>4, <1>5, <1>6 DEF Step, Returns

\* Whoever changes a file is the one handler that holds quiz_lock, and the
\* others have looked at nothing yet.
LEMMA AsSeenOthers ==
    ASSUME TypeOK, CommandOps, NoCommandImports, NEW j \in Jobs, Step(j), file' # file,
           NEW i \in Jobs \ {j}
    PROVE  AsSeen(i)'
<1>1. (\E c \in Contents : Rename(j, c)) \/ Unlink(j)
  BY DEF Step, Acquire, ImportCheck, EditLoad, DeleteCheck, Compose, StoreTest, GetTest,
         RereadTest, InsertPublication, Fail
<1>2. Inside(j) /\ job[j].op \in {"import", "edit", "delete"}
  BY <1>1 DEF Rename, Unlink, Inside, TypeOK, Consistent, PointsOf, Ops
<1>3. j \in WebJobs
  BY <1>2 DEF CommandOps, NoCommandImports, Jobs
<1>4. job[i].pc # "rename"
  <2>1. CASE i \in WebJobs
    BY <1>2, <1>3, <2>1 DEF TypeOK, Inside
  <2>2. CASE i \in CliJobs
    <3>1. job[i].op \notin {"import", "edit"} /\ Consistent(i, job[i])
      BY <2>2 DEF CommandOps, NoCommandImports, TypeOK
    <3> QED BY <3>1 DEF Consistent, PointsOf, Ops
  <2> QED BY <2>1, <2>2 DEF Jobs
<1> QED BY <1>4, StepAlone DEF AsSeen

LEMMA EveryoneAsSeenStep ==
    ASSUME TypeOK, CommandOps, NoCommandImports, EveryoneAsSeen, [Next]_vars
    PROVE  EveryoneAsSeen'
<1>1. CASE UNCHANGED <<file, job>>
  BY <1>1 DEF EveryoneAsSeen, AsSeen
<1>2. ASSUME NEW j \in Jobs, NEW r \in Requests(j), Start(j, r) PROVE EveryoneAsSeen'
  <2>1. job'[j].pc # "rename" /\ UNCHANGED file
    BY <1>2, StartEffect DEF Start, FirstPoint, Ops
  <2> QED BY <1>2, <2>1, StartEffect DEF EveryoneAsSeen, AsSeen
<1>3. ASSUME NEW j \in Jobs, Step(j) PROVE EveryoneAsSeen'
  <2>1. ASSUME NEW i \in Jobs \ {j} PROVE AsSeen(i)'
    <3>1. CASE UNCHANGED file
      BY <1>3, <3>1, StepAlone DEF EveryoneAsSeen, AsSeen
    <3>2. CASE ~UNCHANGED file
      BY <1>3, <3>2, AsSeenOthers
    <3> QED BY <3>1, <3>2
  <2> QED BY <1>3, <2>1, AsSeenMine DEF EveryoneAsSeen
<1> QED BY <1>1, <1>2, <1>3 DEF Next, DeleteTest, vars

LEMMA EveryoneAsSeenAlways == Spec /\ []NoCommandImports => []EveryoneAsSeen
<1>1. Init => EveryoneAsSeen
  BY DEF Init, Idle, EveryoneAsSeen, AsSeen
<1>2. TypeOK /\ CommandOps /\ NoCommandImports /\ EveryoneAsSeen /\ [Next]_vars
        => EveryoneAsSeen'
  BY EveryoneAsSeenStep
<1> QED BY <1>1, <1>2, PublishingTypes, CommandOpsAlways, PTL DEF Spec

\* An import never replaces a bank that is there by the time of its rename
\* (QuizCatalog::create), and an edit is saved over the content it was made
\* from (Quiz::update), however many commands create and publish tests beside
\* the web administration.
THEOREM NoCommandImportsKeepsEdits ==
    Spec /\ []NoCommandImports => ImportNeverReplaces /\ NoLostEdit
<1>1. EveryoneAsSeen /\ [Next]_vars =>
        [\A j \in Jobs : Saves(j, "import") => file[job[j].bank] = None]_vars
  BY DEF EveryoneAsSeen, AsSeen, Saves
<1>2. EveryoneAsSeen /\ [Next]_vars =>
        [\A j \in Jobs : Saves(j, "edit") => file[job[j].bank] = job[j].seen]_vars
  BY DEF EveryoneAsSeen, AsSeen, Saves
<1> QED
  BY <1>1, <1>2, EveryoneAsSeenAlways, PTL DEF Spec, ImportNeverReplaces, NoLostEdit

\* Under quiz_lock alone, an import never replaces a bank.
THEOREM ImportNeverReplacesHolds ==
    ASSUME CliJobs = {} PROVE Spec => ImportNeverReplaces
<1>1. NoCommandImports
  BY DEF NoCommandImports
<1> QED BY <1>1, NoCommandImportsKeepsEdits, PTL

\* Under quiz_lock alone, no edit of another administrator is lost.
THEOREM NoLostEditHolds == ASSUME CliJobs = {} PROVE Spec => NoLostEdit
<1>1. NoCommandImports
  BY DEF NoCommandImports
<1> QED BY <1>1, NoCommandImportsKeepsEdits, PTL

-----------------------------------------------------------------------------
(* With commands of ssh-exam-admin beside the web administration.          *)

\* No test is stored between the two reads of a publication of it.
Untouched ==
    \A i, j \in Jobs :
        StoreTest(i) /\ job[j].op = "publish" /\ job[j].pc \in {"compose", "reread"} =>
            job[i].test # job[j].test

\* Then publish_test hashes the ids of the banks it composes, whoever else
\* imports, edits or deletes banks meanwhile, with or without quiz_lock.
NamesItsBanks(j) ==
    LET x == job[j] IN
    x.op = "publish" =>
        /\ x.pc \in {"lock", "get"} => x.quiz = NoQuiz
        /\ x.pc \in {"compose", "reread"} =>
             /\ x.todo \subseteq x.banks
             /\ x.banks \ x.todo = {b \in Banks : x.quiz[b] # None}
             /\ banksOf[x.test] \in {{}, x.banks}
        /\ x.pc = "reread" => x.todo = {}
        /\ x.pc = "insert" => x.saved = {b \in Banks : x.quiz[b] # None}

NamesInv == RevisionNamesItsBanks /\ \A j \in Jobs : NamesItsBanks(j)

\* The request that takes a step still names its banks.
LEMMA NamesMine ==
    ASSUME TypeOK, NamesInv, NEW j \in Jobs, Step(j)
    PROVE  NamesItsBanks(j)'
<1> DEFINE y == job[j]
<1>y. /\ y \in Job /\ Consistent(j, y) /\ NamesItsBanks(j)
      /\ file \in [Banks -> Contents \cup {None}]
      /\ y.quiz \in [Banks -> Contents \cup {None}]
      /\ banksOf \in [Tests -> SUBSET Banks]
  BY DEF TypeOK, NamesInv, Job, Quiz
<1>1. CASE Acquire(j)
  BY <1>1, <1>y, AcquireEffect DEF Acquire, NamesItsBanks, FirstPoint, SameTask
<1>2. CASE ImportCheck(j) \/ EditLoad(j) \/ DeleteCheck(j)
  BY <1>2, CheckEffect DEF NamesItsBanks, SameTask
<1>3. CASE Returns(j)
  BY <1>3, ReturnEffect DEF NamesItsBanks, Idle
<1>4. ASSUME NEW b \in Banks, Compose(j, b) PROVE NamesItsBanks(j)'
  <2>1. SUFFICES ASSUME y.op = "publish" PROVE NamesItsBanks(j)'
    BY <1>4, ComposeEffect DEF SameTask, NamesItsBanks
  <2>2. /\ y.todo \subseteq y.banks /\ b \in y.todo /\ file[b] # None
        /\ y.banks \ y.todo = {d \in Banks : y.quiz[d] # None}
        /\ banksOf[y.test] \in {{}, y.banks} /\ banksOf' = banksOf
    BY <1>4, <1>y, <2>1 DEF Compose, NamesItsBanks, Rows
  <2>3. {d \in Banks : [y.quiz EXCEPT ![b] = file[b]][d] # None}
          = {d \in Banks : y.quiz[d] # None} \cup {b}
    BY <1>y, <2>2
  <2>4. y.banks \ (y.todo \ {b}) = (y.banks \ y.todo) \cup {b}
    BY <2>2
  <2>5. /\ job'[j].op = y.op /\ job'[j].test = y.test /\ job'[j].banks = y.banks
        /\ job'[j].pc \in {"compose", "store", "reread"}
        /\ job'[j].pc # "compose" => job'[j].todo = {}
        /\ job'[j].todo = y.todo \ {b} /\ job'[j].quiz = [y.quiz EXCEPT ![b] = file[b]]
    BY <1>4, ComposeEffect DEF SameTask
  <2> HIDE DEF y
  <2>6. /\ job'[j].todo \subseteq job'[j].banks
        /\ job'[j].banks \ job'[j].todo = {d \in Banks : job'[j].quiz[d] # None}
        /\ banksOf'[job'[j].test] \in {{}, job'[j].banks}
    BY <2>2, <2>3, <2>4, <2>5
  <2> QED BY <2>5, <2>6 DEF NamesItsBanks
<1>5. CASE GetTest(j)
  <2>1. {d \in Banks : NoQuiz[d] # None} = {}
    BY DEF NoQuiz
  <2>2. y.pc = "get" /\ y.quiz = NoQuiz /\ banksOf' = banksOf
    BY <1>5, <1>y, GetEffect DEF GetTest, NamesItsBanks, Rows
  <2> QED BY <1>5, <2>1, <2>2, GetEffect DEF NamesItsBanks, SameTask
<1>6. CASE RereadTest(j)
  <2>1. /\ y.todo = {} /\ banksOf[y.test] = y.banks
        /\ y.banks \ y.todo = {d \in Banks : y.quiz[d] # None}
    BY <1>6, <1>y, RereadEffect DEF RereadTest, NamesItsBanks
  <2> QED BY <1>6, <2>1, RereadEffect DEF NamesItsBanks, SameTask
<1> QED BY <1>1, <1>2, <1>3, <1>4, <1>5, <1>6 DEF Step, Returns

\* And every other one does, as long as the test it publishes is not stored.
LEMMA NamesOthers ==
    ASSUME NEW i \in Jobs, NamesItsBanks(i), job'[i] = job[i],
           \/ banksOf'[job[i].test] \in {{}, banksOf[job[i].test]}
           \/ job[i].op # "publish" \/ job[i].pc \notin {"compose", "reread"}
    PROVE  NamesItsBanks(i)'
BY DEF NamesItsBanks

LEMMA NamesStep == TypeOK /\ NamesInv /\ [Next]_vars /\ [Untouched]_vars => NamesInv'
<1> SUFFICES ASSUME TypeOK, NamesInv, [Next]_vars, [Untouched]_vars PROVE NamesInv'
  OBVIOUS
<1>1. CASE UNCHANGED vars
  BY <1>1 DEF vars, Rows, NamesInv, NamesItsBanks, RevisionNamesItsBanks
<1>2. ASSUME NEW t \in Tests, DeleteTest(t) PROVE NamesInv'
  <2>1. /\ UNCHANGED <<snapshot, job>>
        /\ \A u \in Tests : banksOf'[u] \in {{}, banksOf[u]}
    BY <1>2 DEF DeleteTest, TypeOK
  <2>2. ASSUME NEW i \in Jobs PROVE NamesItsBanks(i)'
    <3>1. job[i].op = "publish" => job[i].test \in Tests
      BY DEF TypeOK, Consistent
    <3> QED BY <2>1, <3>1, NamesOthers DEF NamesInv
  <2> QED BY <2>1, <2>2 DEF NamesInv, RevisionNamesItsBanks
<1>3. ASSUME NEW j \in Jobs, NEW r \in Requests(j), Start(j, r) PROVE NamesInv'
  <2>1. UNCHANGED Rows
    BY <1>3 DEF Start
  <2>2. NamesItsBanks(j)'
    BY <1>3, StartEffect DEF NamesItsBanks, FirstPoint
  <2>3. ASSUME NEW i \in Jobs \ {j} PROVE NamesItsBanks(i)'
    BY <1>3, <2>1, StartEffect, NamesOthers DEF NamesInv, Rows
  <2> QED BY <2>1, <2>2, <2>3 DEF NamesInv, RevisionNamesItsBanks, Rows
<1>4. ASSUME NEW j \in Jobs, Step(j) PROVE NamesInv'
  <2>1. ASSUME NEW i \in Jobs \ {j} PROVE NamesItsBanks(i)'
    <3>1. job'[i] = job[i] /\ NamesItsBanks(i)
      BY <1>4, StepAlone DEF NamesInv
    <3>2. CASE banksOf' = banksOf
      BY <3>1, <3>2, NamesOthers
    <3>3. CASE banksOf' # banksOf
      <4>1. StoreTest(j)
        BY <1>4, <3>3
        DEF Step, Acquire, ImportCheck, EditLoad, Rename, DeleteCheck, Unlink, Compose,
            GetTest, RereadTest, InsertPublication, Fail, Rows
      <4>2. Untouched
        BY <3>3 DEF vars, Rows
      <4>3. \/ job[j].test # job[i].test
            \/ job[i].op # "publish" \/ job[i].pc \notin {"compose", "reread"}
        BY <4>1, <4>2 DEF Untouched
      <4>4. job[i].op = "publish" => job[i].test \in Tests
        BY DEF TypeOK, Consistent
      <4>5. \A u \in Tests \ {job[j].test} : banksOf'[u] = banksOf[u]
        BY <4>1 DEF StoreTest, TypeOK
      <4> QED BY <3>1, <4>3, <4>4, <4>5, NamesOthers
    <3> QED BY <3>2, <3>3
  <2>2. RevisionNamesItsBanks'
    <3>1. CASE InsertPublication(j)
      <4>1. job[j].op = "publish" /\ NamesItsBanks(j)
        BY <3>1 DEF InsertPublication, TypeOK, Consistent, PointsOf, Ops, NamesInv
      <4>2. job[j].saved = {b \in Banks : job[j].quiz[b] # None}
        BY <3>1, <4>1 DEF InsertPublication, NamesItsBanks
      <4>3. snapshot'.banks = job[j].saved /\ snapshot'.quiz = job[j].quiz
        BY <3>1 DEF InsertPublication
      <4> QED BY <4>2, <4>3 DEF RevisionNamesItsBanks
    <3>2. CASE ~InsertPublication(j)
      <4>1. UNCHANGED snapshot
        BY <1>4, <3>2
        DEF Step, Acquire, ImportCheck, EditLoad, Rename, DeleteCheck, Unlink, Compose,
            StoreTest, GetTest, RereadTest, Fail, Rows
      <4> QED BY <4>1 DEF NamesInv, RevisionNamesItsBanks
    <3> QED BY <3>1, <3>2
  <2> QED BY <1>4, <2>1, <2>2, NamesMine DEF NamesInv
<1> QED BY <1>1, <1>2, <1>3, <1>4 DEF Next

\* A revision hashes the ids of the banks whose questions are published, with
\* any requests and commands beside each other, unless the test is stored
\* between the get_test of publish_test and the one of Db::publish_test: the
\* finding of publishing_cli_revision has no other cause.
THEOREM UntouchedNamesItsBanks ==
    Spec /\ [][Untouched]_vars => []RevisionNamesItsBanks
<1>1. Init => NamesInv
  BY DEF Init, Idle, NamesInv, NamesItsBanks, RevisionNamesItsBanks
<1>2. NamesInv => RevisionNamesItsBanks
  BY DEF NamesInv
<1> QED BY <1>1, <1>2, NamesStep, PublishingTypes, PTL DEF Spec

\* No command saves a test; commands may still import banks and publish.
NoCommandCreates == \A j \in CliJobs : job[j].op # "create"

\* Then a bank that a request relies on stays: only delete_bank takes one away,
\* and only handlers, under quiz_lock, look whether a bank is there or unused.
HoldsItsBanks(j) ==
    LET x == job[j] IN
    /\ j \in CliJobs => x.op \in {"none", "import", "publish"}
    /\ x.pc = "unlink" => Unused(x.bank)
    /\ x.op \in {"create", "update"} =>
         /\ x.pc = "lock" => x.todo = x.banks
         /\ x.pc \in {"compose", "store"} => \A b \in x.banks \ x.todo : file[b] # None
         /\ x.pc = "store" => x.todo = {}

HoldsInv == SavedTestHasItsBanks /\ \A j \in Jobs : HoldsItsBanks(j)

\* The request that takes a step still holds its banks.
LEMMA HoldsMine ==
    ASSUME TypeOK, HoldsInv, NEW j \in Jobs, Step(j)
    PROVE  HoldsItsBanks(j)'
<1> DEFINE y == job[j]
<1>y. /\ y \in Job /\ Consistent(j, y) /\ HoldsItsBanks(j)
      /\ j \in CliJobs => y.op \in {"none", "import", "publish"}
  BY DEF TypeOK, HoldsInv, HoldsItsBanks
<1>1. CASE Acquire(j)
  <2>1. /\ y.op \in {"create", "update"} => y.todo = y.banks
        /\ FirstPoint(y.op) \notin {"unlink", "store", "lock"}
    BY <1>1, <1>y, AcquireEffect DEF Acquire, HoldsItsBanks, FirstPoint, Ops
  <2> QED BY <1>1, <1>y, <2>1, AcquireEffect DEF HoldsItsBanks, SameTask
<1>2. CASE ImportCheck(j) \/ EditLoad(j) \/ DeleteCheck(j)
  <2>1. UNCHANGED banksOf
    BY <1>2 DEF ImportCheck, EditLoad, DeleteCheck, Rows
  <2> QED BY <1>2, <1>y, <2>1, CheckEffect DEF HoldsItsBanks, SameTask, Unused
<1>3. CASE Returns(j)
  BY <1>3, ReturnEffect DEF HoldsItsBanks, Idle
<1>4. ASSUME NEW b \in Banks, Compose(j, b) PROVE HoldsItsBanks(j)'
  <2>1. y.pc = "compose" /\ file[b] # None /\ UNCHANGED file
    BY <1>4 DEF Compose
  <2>2. y.op \in {"create", "update"} => \A d \in y.banks \ y.todo : file[d] # None
    BY <1>y, <2>1 DEF HoldsItsBanks
  <2>3. /\ job'[j].op = y.op /\ job'[j].banks = y.banks
        /\ job'[j].pc \in {"compose", "store", "reread"}
        /\ job'[j].pc # "compose" => job'[j].todo = {}
        /\ job'[j].todo = y.todo \ {b}
    BY <1>4, ComposeEffect DEF SameTask
  <2> HIDE DEF y
  <2>4. y.op \in {"create", "update"} =>
          \A d \in job'[j].banks \ job'[j].todo : file'[d] # None
    BY <2>1, <2>2, <2>3
  <2> QED BY <1>y, <2>3, <2>4 DEF HoldsItsBanks
<1>5. CASE GetTest(j)
  BY <1>5, <1>y, GetEffect DEF HoldsItsBanks, SameTask
<1>6. CASE RereadTest(j)
  BY <1>6, <1>y, RereadEffect DEF HoldsItsBanks, SameTask
<1> QED BY <1>1, <1>2, <1>3, <1>4, <1>5, <1>6 DEF Step, Returns

\* And every other one does, while banks only come and uses only go.
LEMMA HoldsOthers ==
    ASSUME TypeOK, NEW i \in Jobs, HoldsItsBanks(i), job'[i] = job[i],
           \A b \in Banks : file[b] # None => file'[b] # None,
           \A t \in Tests : banksOf'[t] \subseteq banksOf[t]
    PROVE  HoldsItsBanks(i)'
<1>1. job[i].banks \subseteq Banks
  BY DEF TypeOK, Job
<1> QED BY <1>1 DEF HoldsItsBanks, Unused

\* When a bank goes or a use comes, it is the doing of a handler that holds
\* quiz_lock, and nobody else relies on a bank by then.
LEMMA HoldsUnderLock ==
    ASSUME TypeOK, NEW j \in WebJobs, Inside(j), NEW i \in Jobs, i # j,
           HoldsItsBanks(i), job'[i] = job[i]
    PROVE  HoldsItsBanks(i)'
<1>1. CASE i \in WebJobs
  <2>1. job[i].pc \in {"idle", "lock"}
    BY <1>1 DEF TypeOK, Inside
  <2> QED BY <2>1 DEF HoldsItsBanks
<1>2. CASE i \in CliJobs
  <2>1. job[i].op \in {"none", "import", "publish"} /\ Consistent(i, job[i])
    BY <1>2 DEF HoldsItsBanks, TypeOK
  <2>2. job[i].pc # "unlink"
    BY <2>1 DEF Consistent, PointsOf, Ops
  <2> QED BY <2>1, <2>2 DEF HoldsItsBanks
<1> QED BY <1>1, <1>2 DEF Jobs

LEMMA HoldsStep == TypeOK /\ HoldsInv /\ [Next]_vars /\ NoCommandCreates' => HoldsInv'
<1> SUFFICES ASSUME TypeOK, HoldsInv, [Next]_vars, NoCommandCreates' PROVE HoldsInv'
  OBVIOUS
<1>1. CASE UNCHANGED vars
  BY <1>1 DEF vars, Rows, HoldsInv, HoldsItsBanks, SavedTestHasItsBanks, Unused
<1>2. ASSUME NEW t \in Tests, DeleteTest(t) PROVE HoldsInv'
  <2>1. /\ UNCHANGED <<file, job>>
        /\ \A u \in Tests : banksOf'[u] \subseteq banksOf[u]
    BY <1>2 DEF DeleteTest, TypeOK
  <2> QED BY <2>1, HoldsOthers DEF HoldsInv, SavedTestHasItsBanks
<1>3. ASSUME NEW j \in Jobs, NEW r \in Requests(j), Start(j, r) PROVE HoldsInv'
  <2>1. UNCHANGED <<file, Rows>>
    BY <1>3 DEF Start
  <2>2. HoldsItsBanks(j)'
    <3>1. CASE j \in WebJobs
      <4>1. j \notin CliJobs /\ job'[j].pc = "lock" /\ job'[j].todo = job'[j].banks
        BY <1>3, <3>1, StartEffect, JobsAssumption
      <4> QED BY <4>1 DEF HoldsItsBanks
    <3>2. CASE j \in CliJobs
      <4>1. r.op \in {"import", "create", "publish"}
        BY <3>2 DEF Requests
      <4>2. job'[j].op \in {"import", "publish"}
        BY <1>3, <3>2, <4>1, StartEffect DEF NoCommandCreates
      <4>3. job'[j].pc # "unlink"
        BY <1>3, <3>2, <4>1, StartEffect, JobsAssumption DEF FirstPoint
      <4> QED BY <4>2, <4>3 DEF HoldsItsBanks
    <3> QED BY <3>1, <3>2 DEF Jobs
  <2>3. ASSUME NEW i \in Jobs \ {j} PROVE HoldsItsBanks(i)'
    BY <1>3, <2>1, StartEffect, HoldsOthers DEF HoldsInv, Rows
  <2> QED BY <2>1, <2>2, <2>3 DEF HoldsInv, SavedTestHasItsBanks, Rows
<1>4. ASSUME NEW j \in Jobs, Step(j) PROVE HoldsInv'
  <2> DEFINE y == job[j]
  <2>y. /\ Consistent(j, y) /\ HoldsItsBanks(j) /\ y.banks \subseteq Banks
        /\ j \in CliJobs => y.op \in {"none", "import", "publish"}
        /\ file \in [Banks -> Contents \cup {None}]
    BY DEF TypeOK, HoldsInv, HoldsItsBanks, Job
  <2>1. CASE Unlink(j) \/ StoreTest(j)
    <3>1. y.op \in {"delete", "create", "update"} /\ Inside(j)
      BY <2>1, <2>y DEF Unlink, StoreTest, Consistent, PointsOf, Ops, Inside
    <3>2. j \in WebJobs
      BY <2>y, <3>1 DEF Jobs
    <3>3. \A i \in Jobs \ {j} : HoldsItsBanks(i)'
      BY <1>4, <3>1, <3>2, StepAlone, HoldsUnderLock DEF HoldsInv
    <3>4. SavedTestHasItsBanks'
      <4>1. CASE Unlink(j)
        <5>1. Unused(y.bank) /\ UNCHANGED banksOf /\ \A b \in Banks \ {y.bank} : file'[b] = file[b]
          BY <4>1, <2>y DEF Unlink, HoldsItsBanks, Rows
        <5> QED BY <5>1 DEF HoldsInv, SavedTestHasItsBanks, Unused
      <4>2. CASE StoreTest(j)
        <5>1. y.op \in {"create", "update"} /\ y.pc = "store"
          BY <4>2, <2>y DEF StoreTest, Consistent, PointsOf, Ops
        <5>2. \A b \in y.banks : file[b] # None
          BY <2>y, <5>1 DEF HoldsItsBanks
        <5>3. /\ UNCHANGED file
              /\ \A t \in Tests : banksOf'[t] \in {banksOf[t], y.banks}
          BY <4>2 DEF StoreTest, TypeOK
        <5> QED BY <5>2, <5>3 DEF HoldsInv, SavedTestHasItsBanks
      <4> QED BY <2>1, <4>1, <4>2
    <3> QED BY <1>4, <3>3, <3>4, HoldsMine DEF HoldsInv
  <2>2. CASE ~(Unlink(j) \/ StoreTest(j))
    <3>1. UNCHANGED banksOf
      BY <1>4, <2>2
      DEF Step, Acquire, ImportCheck, EditLoad, Rename, DeleteCheck, Compose, GetTest,
          RereadTest, InsertPublication, Fail, Rows
    <3>2. \A b \in Banks : file[b] # None => file'[b] # None
      <4>1. ASSUME NEW c \in Contents, Rename(j, c)
            PROVE  \A b \in Banks : file[b] # None => file'[b] # None
        BY <4>1, <2>y, PublishingNoneAssumption DEF Rename
      <4>2. CASE UNCHANGED file
        BY <4>2
      <4> QED
        BY <1>4, <2>2, <4>1, <4>2
        DEF Step, Acquire, ImportCheck, EditLoad, DeleteCheck, Compose, GetTest,
            RereadTest, InsertPublication, Fail
    <3>3. \A i \in Jobs \ {j} : HoldsItsBanks(i)'
      BY <1>4, <3>1, <3>2, StepAlone, HoldsOthers DEF HoldsInv
    <3> QED
      BY <1>4, <3>1, <3>2, <3>3, HoldsMine DEF HoldsInv, SavedTestHasItsBanks
  <2> QED BY <2>1, <2>2
<1> QED BY <1>1, <1>2, <1>3, <1>4 DEF Next

LEMMA HoldsInvariant == Spec /\ []NoCommandCreates => [](TypeOK /\ HoldsInv)
<1>1. Init => HoldsInv
  BY DEF Init, Idle, HoldsInv, HoldsItsBanks, SavedTestHasItsBanks
<1> QED BY <1>1, HoldsStep, PublishingTypes, PTL DEF Spec

\* No saved test loses a bank however many commands import banks and publish
\* tests beside the web administration: create-test alone, which composes and
\* stores without quiz_lock, can come between the check and the unlink of
\* delete_bank.
THEOREM NoCommandCreatesKeepsBanks ==
    Spec /\ []NoCommandCreates => []SavedTestHasItsBanks /\ UsedBankKept
<1>1. HoldsInv => SavedTestHasItsBanks
  BY DEF HoldsInv
<1>2. ASSUME TypeOK, HoldsInv, [Next]_vars, NEW b \in Banks, NEW t \in Tests,
             file[b] # None, file'[b] = None
      PROVE  b \notin banksOf[t]
  <2>1. PICK j \in Jobs : Step(j)
    <3>1. ~UNCHANGED file
      BY <1>2
    <3> QED BY <1>2, <3>1 DEF Next, vars, Start, DeleteTest
  <2>2. \A c \in Contents : ~Rename(j, c)
    BY <1>2, PublishingNoneAssumption DEF Rename, TypeOK
  <2>3. Unlink(j)
    BY <1>2, <2>1, <2>2
    DEF Step, Acquire, ImportCheck, EditLoad, DeleteCheck, Compose, StoreTest, GetTest,
        RereadTest, InsertPublication, Fail
  <2>4. job[j].bank = b /\ job[j].pc = "unlink" /\ HoldsItsBanks(j)
    BY <1>2, <2>3 DEF Unlink, TypeOK, HoldsInv
  <2> QED BY <2>4 DEF HoldsItsBanks, Unused
<1>3. TypeOK /\ HoldsInv /\ [Next]_vars =>
        [\A b \in Banks, t \in Tests :
           file[b] # None /\ file'[b] = None => b \notin banksOf[t]]_vars
  BY <1>2
<1> QED BY <1>1, <1>3, HoldsInvariant, PTL DEF Spec, UsedBankKept

-----------------------------------------------------------------------------
(* Under quiz_lock alone, every request acts at once or not at all.        *)

NothingAsked == Atomic!NoRequest

LEMMA IdleAsksNothing == Task(Idle) = NothingAsked
BY DEF Task, Idle, NothingAsked, Atomic!NoRequest

\* A request that is on its way still asks for the same.
LEMMA StillAsked ==
    ASSUME TypeOK, NEW j \in Jobs, SameTask(j), \A i \in Jobs \ {j} : job'[i] = job[i]
    PROVE  Asked' = Asked
<1>1. Task(job'[j]) = Task(job[j])
  BY DEF SameTask, Task
<1>2. \A i \in Jobs : Task(job'[i]) = Task(job[i])
  BY <1>1
<1> QED BY <1>2 DEF Asked

\* One that returns is answered.
LEMMA ReturnAnswers ==
    ASSUME TypeOK, NEW j \in Jobs, job'[j] = Idle, \A i \in Jobs \ {j} : job'[i] = job[i]
    PROVE  Atomic!Answer(j)
<1>1. \A i \in Jobs : Task(job'[i]) = IF i = j THEN NothingAsked ELSE Task(job[i])
  BY IdleAsksNothing
<1>2. Asked' = [Asked EXCEPT ![j] = NothingAsked]
  BY <1>1 DEF Asked
<1> QED BY <1>2 DEF Atomic!Answer, NothingAsked

\* A request that is not under way has nothing left in it.
IdleInv == \A j \in Jobs : job[j].pc = "idle" => job[j] = Idle

LEMMA IdleAlways == Spec => []IdleInv
<1>1. Init => IdleInv
  BY DEF Init, IdleInv
<1>2. TypeOK /\ IdleInv /\ [Next]_vars => IdleInv'
  <2> SUFFICES ASSUME TypeOK, IdleInv, [Next]_vars PROVE IdleInv'
    OBVIOUS
  <2>1. CASE UNCHANGED job
    BY <2>1 DEF IdleInv
  <2>2. ASSUME NEW j \in Jobs, NEW r \in Requests(j), Start(j, r) PROVE IdleInv'
    <3>1. job'[j].pc # "idle"
      BY <2>2, StartEffect DEF FirstPoint, Ops
    <3> QED BY <2>2, <3>1, StartEffect DEF IdleInv
  <2>3. ASSUME NEW j \in Jobs, Step(j) PROVE IdleInv'
    <3>1. job'[j] = Idle \/ job'[j].pc # "idle"
      <4>1. CASE Acquire(j)
        BY <4>1, AcquireEffect DEF FirstPoint, Ops
      <4>2. CASE ImportCheck(j) \/ EditLoad(j) \/ DeleteCheck(j)
        BY <4>2, CheckEffect
      <4>3. CASE \E b \in Banks : Compose(j, b)
        BY <4>3, ComposeEffect
      <4>4. CASE GetTest(j) \/ RereadTest(j)
        BY <4>4, GetEffect, RereadEffect
      <4>5. CASE Returns(j)
        BY <4>5, ReturnEffect
      <4> QED BY <2>3, <4>1, <4>2, <4>3, <4>4, <4>5 DEF Step, Returns
    <3> QED BY <2>3, <3>1, StepAlone DEF IdleInv
  <2> QED BY <2>1, <2>2, <2>3 DEF Next, DeleteTest, vars
<1> QED BY <1>1, <1>2, PublishingTypes, PTL DEF Spec

\* A handler or a command that starts asks for what it is to do.
LEMMA StartAsks ==
    ASSUME TypeOK, IdleInv, NEW j \in Jobs, NEW r \in Requests(j), Start(j, r)
    PROVE  Atomic!Ask(j)
<1>1. job[j] = Idle /\ UNCHANGED <<file, Rows>>
  BY DEF Start, IdleInv
<1>2. Task(job'[j]) = r
  <2>1. /\ job'[j].op = r.op /\ job'[j].bank = r.bank /\ job'[j].test = r.test
        /\ job'[j].banks = r.banks /\ job'[j].settings = r.settings
    BY DEF Start, Goto, TypeOK, Idle
  <2>2. /\ r \in [op : Ops, bank : Banks \cup {None}, test : Tests \cup {None},
                  banks : SUBSET Banks, settings : Settings \cup {None}]
        /\ r.op = "publish" => r.banks = {} /\ r.settings = None
    BY DEF Requests
  <2> QED BY <2>1, <2>2 DEF Task
<1>3. \A i \in Jobs : Task(job'[i]) = IF i = j THEN r ELSE Task(job[i])
  BY <1>2, StartEffect
<1>4. Asked' = [Asked EXCEPT ![j] = r] /\ Asked'[j] = r
  BY <1>3 DEF Asked
<1>5. Asked[j] = NothingAsked
  BY <1>1, IdleAsksNothing DEF Asked
<1>6. r \in Atomic!Request
  BY DEF Requests, Ops, Atomic!Request
<1> QED BY <1>1, <1>4, <1>5, <1>6 DEF Atomic!Ask, NothingAsked, Rows

\* A step of a handler is what it asked for, done at once, or not seen at all.
LEMMA StepAtOnce ==
    ASSUME TypeOK, CliJobs = {}, WebInv, EveryoneAsSeen, NEW j \in Jobs, Step(j)
    PROVE  [Atomic!Next]_(Atomic!vars)
<1> DEFINE y == job[j]
<1>y. /\ y \in Job /\ Consistent(j, y) /\ Progress(j) /\ AsSeen(j)
      /\ \A i \in Jobs \ {j} : job'[i] = job[i]
  BY StepAlone DEF TypeOK, WebInv, LockedView, EveryoneAsSeen
<1>q. /\ Asked[j].op = y.op /\ Asked[j].bank = y.bank /\ Asked[j].test = y.test
      /\ y.op # "publish" => Asked[j].banks = y.banks /\ Asked[j].settings = y.settings
  BY DEF Asked, Task
<1>1. CASE \/ Acquire(j) \/ ImportCheck(j) \/ EditLoad(j) \/ DeleteCheck(j)
           \/ GetTest(j) \/ RereadTest(j) \/ \E b \in Banks : Compose(j, b)
  <2>1. SameTask(j)
    BY <1>1, AcquireEffect, CheckEffect, GetEffect, RereadEffect, ComposeEffect
  <2>2. Asked' = Asked
    BY <1>y, <2>1, StillAsked
  <2>3. UNCHANGED <<file, Rows>>
    BY <1>1 DEF Acquire, ImportCheck, EditLoad, DeleteCheck, GetTest, RereadTest, Compose
  <2> QED BY <2>2, <2>3 DEF Rows, Atomic!vars
<1>2. ASSUME NEW c \in Contents, Rename(j, c) PROVE Atomic!Save(j, c)
  <2>1. y.op \in {"import", "edit"}
    BY <1>2, <1>y DEF Rename, Consistent, PointsOf, Ops
  <2>2. y.op = "import" <=> file[y.bank] = None
    BY <1>2, <1>y, <2>1 DEF Rename, AsSeen
  <2>3. Atomic!Answer(j)
    BY <1>2, <1>y, ReturnEffect, ReturnAnswers DEF Returns
  <2> QED BY <1>2, <1>q, <2>1, <2>2, <2>3 DEF Rename, Rows, Atomic!Save
<1>3. CASE Unlink(j)
  <2>1. y.op = "delete" /\ Unused(y.bank)
    BY <1>3, <1>y DEF Unlink, Consistent, PointsOf, Ops, Progress
  <2>2. Atomic!Answer(j)
    BY <1>3, <1>y, ReturnEffect, ReturnAnswers DEF Returns
  <2>3. Atomic!Delete(j)
    BY <1>3, <1>q, <2>1, <2>2 DEF Unlink, Unused, Rows, Atomic!Delete
  <2> QED BY <2>3 DEF Atomic!Next
<1>4. CASE StoreTest(j)
  <2>1. y.op \in {"create", "update"} /\ \A b \in y.banks : file[b] # None
    BY <1>4, <1>y DEF StoreTest, Consistent, PointsOf, Ops, Progress
  <2>2. Atomic!Answer(j)
    BY <1>4, <1>y, ReturnEffect, ReturnAnswers DEF Returns
  <2>3. Atomic!Store(j)
    BY <1>4, <1>q, <2>1, <2>2 DEF StoreTest, Atomic!Store
  <2> QED BY <2>3 DEF Atomic!Next
<1>5. CASE InsertPublication(j)
  <2>1. /\ y.op = "publish" /\ y.todo = {} /\ y.saved = y.banks
        /\ banksOf[y.test] = y.banks /\ settingsOf[y.test] = y.settings
        /\ \A b \in Banks : y.quiz[b] = IF b \in y.banks THEN file[b] ELSE None
    <3>1. y.op = "publish" /\ y.pc = "insert" /\ banksOf[y.test] # {}
      BY <1>5, <1>y DEF InsertPublication, Consistent, PointsOf, Ops
    <3> QED BY <1>y, <3>1 DEF Progress
  <2>2. y.quiz = [b \in Banks |-> IF b \in banksOf[y.test] THEN file[b] ELSE None]
    <3>1. y.quiz \in [Banks -> Contents \cup {None}]
      BY <1>y DEF Job, Quiz
    <3> HIDE DEF y
    <3> QED BY <2>1, <3>1
  <2>3. Atomic!Answer(j)
    BY <1>5, <1>y, ReturnEffect, ReturnAnswers DEF Returns
  <2>4. Atomic!Publish(j)
    BY <1>5, <1>q, <2>1, <2>2, <2>3 DEF InsertPublication, Atomic!Publish
  <2> QED BY <2>4 DEF Atomic!Next
<1>6. CASE Fail(j)
  <2>1. Asked[j] # NothingAsked
    BY <1>6, <1>y, <1>q DEF Fail, Consistent, Ops, NothingAsked, Atomic!NoRequest
  <2>2. Atomic!Answer(j)
    BY <1>6, <1>y, ReturnEffect, ReturnAnswers DEF Returns
  <2>3. Atomic!Refuse(j)
    BY <1>6, <2>1, <2>2 DEF Fail, Rows, NothingAsked, Atomic!Refuse
  <2> QED BY <2>3 DEF Atomic!Next
<1>7. (\E c \in Contents : Rename(j, c)) => Atomic!Next
  BY <1>2 DEF Atomic!Next
<1> HIDE DEF y
<1> QED BY <1>1, <1>3, <1>4, <1>5, <1>6, <1>7 DEF Step

\* Under quiz_lock alone, every import, edit, deletion, save and publication of
\* the web administration acts at one moment, on the banks and tests as they
\* are then, or not at all (handlers of web.rs that hold the lock, against one
\* another and against delete_test, which does not).
THEOREM ActsAtOnceHolds == ASSUME CliJobs = {} PROVE Spec => ActsAtOnce
<1>1. Init => Atomic!Init
  <2> SUFFICES ASSUME Init PROVE Atomic!Init
    OBVIOUS
  <2>1. Asked = [j \in Jobs |-> NothingAsked]
    BY IdleAsksNothing DEF Init, Asked
  <2> QED BY <2>1 DEF Init, Atomic!Init, NothingAsked
<1>2. TypeOK /\ IdleInv /\ WebInv /\ EveryoneAsSeen /\ [Next]_vars
        => [Atomic!Next]_(Atomic!vars)
  <2> SUFFICES ASSUME TypeOK, IdleInv, WebInv, EveryoneAsSeen, [Next]_vars
               PROVE  [Atomic!Next]_(Atomic!vars)
    OBVIOUS
  <2>1. CASE UNCHANGED vars
    BY <2>1 DEF vars, Rows, Asked, Atomic!vars
  <2>2. ASSUME NEW t \in Tests, DeleteTest(t) PROVE Atomic!Next
    <3>1. Atomic!DeleteTest(t)
      BY <2>2 DEF DeleteTest, Asked, Atomic!DeleteTest
    <3> QED BY <3>1 DEF Atomic!Next
  <2>3. ASSUME NEW j \in Jobs, NEW r \in Requests(j), Start(j, r) PROVE Atomic!Next
    BY <2>3, StartAsks DEF Atomic!Next
  <2> QED BY <2>1, <2>2, <2>3, StepAtOnce DEF Next
<1>3. NoCommandImports
  BY DEF NoCommandImports
<1> QED
  BY <1>1, <1>2, <1>3, WebInvariant, IdleAlways, EveryoneAsSeenAlways, PTL
  DEF Spec, ActsAtOnce, Atomic!Spec

-----------------------------------------------------------------------------
(* What Catalogue promises is enough: what the runs check of banks, tests  *)
(* and publications follows from it alone, whatever implements it.         *)

CatalogueInv ==
    /\ file \in [Banks -> Contents \cup {None}]
    /\ banksOf \in [Tests -> SUBSET Banks]
    /\ Asked \in [Jobs -> Atomic!Request \cup {NothingAsked}]
    /\ SavedTestHasItsBanks

LEMMA CatalogueStep ==
    ASSUME CatalogueInv, [Atomic!Next]_(Atomic!vars)
    PROVE  CatalogueInv'
<1> DEFINE Answered == Asked' \in [Jobs -> Atomic!Request \cup {NothingAsked}]
<1>0. \A j \in Jobs : Asked[j].op \in {"import", "edit", "delete", "create", "update", "publish"} =>
         Asked[j] \in Atomic!Request
  BY DEF CatalogueInv, NothingAsked, Atomic!NoRequest
<1>1. \A j \in Jobs : Atomic!Answer(j) => Answered
  BY DEF CatalogueInv, Atomic!Answer, NothingAsked
<1>2. ASSUME NEW j \in Jobs, NEW c \in Contents, Atomic!Save(j, c) PROVE CatalogueInv'
  <2>1. Answered /\ UNCHANGED banksOf /\ file' = [file EXCEPT ![Asked[j].bank] = c]
    BY <1>1, <1>2 DEF Atomic!Save
  <2>2. \A b \in Banks : file[b] # None => file'[b] # None
    BY <2>1, PublishingNoneAssumption DEF CatalogueInv
  <2> QED BY <2>1, <2>2 DEF CatalogueInv, SavedTestHasItsBanks
<1>3. ASSUME NEW j \in Jobs, Atomic!Delete(j) PROVE CatalogueInv'
  <2>1. /\ Answered /\ UNCHANGED banksOf /\ file' = [file EXCEPT ![Asked[j].bank] = None]
        /\ \A t \in Tests : Asked[j].bank \notin banksOf[t]
    BY <1>1, <1>3 DEF Atomic!Delete
  <2> QED BY <2>1 DEF CatalogueInv, SavedTestHasItsBanks
<1>4. ASSUME NEW j \in Jobs, Atomic!Store(j) PROVE CatalogueInv'
  <2> DEFINE x == Asked[j]
  <2>1. /\ Answered /\ UNCHANGED file /\ banksOf' = [banksOf EXCEPT ![x.test] = x.banks]
        /\ \A b \in x.banks : file[b] # None
    BY <1>1, <1>4 DEF Atomic!Store
  <2>2. x.banks \subseteq Banks
    BY <1>0, <1>4 DEF Atomic!Store, Atomic!Request
  <2> HIDE DEF x
  <2> QED BY <2>1, <2>2 DEF CatalogueInv, SavedTestHasItsBanks
<1>5. ASSUME NEW j \in Jobs, Atomic!Publish(j) \/ Atomic!Refuse(j) PROVE CatalogueInv'
  BY <1>1, <1>5 DEF CatalogueInv, SavedTestHasItsBanks, Atomic!Publish, Atomic!Refuse
<1>6. ASSUME NEW j \in Jobs, Atomic!Ask(j) PROVE CatalogueInv'
  BY <1>6 DEF CatalogueInv, SavedTestHasItsBanks, Atomic!Ask
<1>7. ASSUME NEW t \in Tests, Atomic!DeleteTest(t) PROVE CatalogueInv'
  BY <1>7 DEF CatalogueInv, SavedTestHasItsBanks, Atomic!DeleteTest
<1>8. CASE UNCHANGED Atomic!vars
  BY <1>8 DEF CatalogueInv, SavedTestHasItsBanks, Atomic!vars
<1> QED BY <1>2, <1>3, <1>4, <1>5, <1>6, <1>7, <1>8 DEF Atomic!Next

LEMMA CatalogueRevision ==
    ASSUME CatalogueInv, RevisionNamesItsBanks, [Atomic!Next]_(Atomic!vars)
    PROVE  RevisionNamesItsBanks'
<1>1. CASE UNCHANGED snapshot
  BY <1>1 DEF RevisionNamesItsBanks
<1>2. ASSUME NEW j \in Jobs, Atomic!Publish(j) PROVE RevisionNamesItsBanks'
  <2> DEFINE t == Asked[j].test
  <2>1. Asked[j] \in Atomic!Request
    BY <1>2 DEF CatalogueInv, Atomic!Publish, NothingAsked, Atomic!NoRequest
  <2>2. t \in Tests
    BY <1>2, <2>1 DEF Atomic!Publish, Atomic!Request
  <2>3. banksOf[t] \subseteq Banks /\ \A b \in banksOf[t] : file[b] # None
    BY <2>2 DEF CatalogueInv, SavedTestHasItsBanks
  <2>4. /\ snapshot'.banks = banksOf[t]
        /\ snapshot'.quiz = [b \in Banks |-> IF b \in banksOf[t] THEN file[b] ELSE None]
    BY <1>2 DEF Atomic!Publish
  <2> HIDE DEF t
  <2> QED BY <2>3, <2>4 DEF RevisionNamesItsBanks
<1> QED
  BY <1>1, <1>2
  DEF Atomic!Next, Atomic!vars, Atomic!Ask, Atomic!Save, Atomic!Delete, Atomic!Store,
      Atomic!Refuse, Atomic!DeleteTest

\* Whatever acts at once keeps the banks of saved tests, publishes the test as
\* it is saved, and names the banks whose questions it publishes.
THEOREM CatalogueIsEnough ==
    ActsAtOnce => /\ []SavedTestHasItsBanks
                  /\ []RevisionNamesItsBanks
                  /\ UsedBankKept
                  /\ PublishesCurrentDraft
<1> DEFINE Kept == \A b \in Banks, t \in Tests :
                     file[b] # None /\ file'[b] = None => b \notin banksOf[t]
           Current(t) ==
             /\ snapshot'.banks = banksOf[t]
             /\ snapshot'.settings = settingsOf[t]
             /\ snapshot'.quiz = [b \in Banks |-> IF b \in banksOf[t] THEN file[b] ELSE None]
<1>1. Atomic!Init => CatalogueInv /\ RevisionNamesItsBanks
  BY DEF Atomic!Init, CatalogueInv, SavedTestHasItsBanks, RevisionNamesItsBanks, NothingAsked
<1>2. CatalogueInv /\ [Atomic!Next]_(Atomic!vars) => [Kept]_vars
  <2> SUFFICES ASSUME CatalogueInv, [Atomic!Next]_(Atomic!vars) PROVE Kept
    OBVIOUS
  <2> SUFFICES ASSUME NEW b \in Banks, NEW t \in Tests, file[b] # None, file'[b] = None
               PROVE  b \notin banksOf[t]
    OBVIOUS
  <2>1. ASSUME NEW j \in Jobs, NEW c \in Contents, Atomic!Save(j, c) PROVE FALSE
    BY <2>1, PublishingNoneAssumption DEF Atomic!Save, CatalogueInv
  <2>2. ASSUME NEW j \in Jobs, Atomic!Delete(j) PROVE b \notin banksOf[t]
    BY <2>2 DEF Atomic!Delete, CatalogueInv
  <2>3. CASE UNCHANGED file
    BY <2>3
  <2> QED
    BY <2>1, <2>2, <2>3
    DEF Atomic!Next, Atomic!vars, Atomic!Ask, Atomic!Store, Atomic!Publish, Atomic!Refuse,
        Atomic!DeleteTest
<1>3. [Atomic!Next]_(Atomic!vars) => [snapshot' # snapshot => Current(snapshot'.test)]_vars
  <2> SUFFICES ASSUME [Atomic!Next]_(Atomic!vars), snapshot' # snapshot
               PROVE  Current(snapshot'.test)
    OBVIOUS
  <2>1. PICK j \in Jobs : Atomic!Publish(j)
    BY DEF Atomic!Next, Atomic!vars, Atomic!Ask, Atomic!Save, Atomic!Delete, Atomic!Store,
           Atomic!Refuse, Atomic!DeleteTest
  <2> QED BY <2>1 DEF Atomic!Publish
<1>4. PublishesCurrentDraft <=> [][snapshot' # snapshot => Current(snapshot'.test)]_vars
  BY DEF PublishesCurrentDraft
<1>5. UsedBankKept <=> [][Kept]_vars
  BY DEF UsedBankKept
<1>6. CatalogueInv => SavedTestHasItsBanks
  BY DEF CatalogueInv
<1> HIDE DEF Current, Kept
<1> QED
  BY <1>1, <1>2, <1>3, <1>4, <1>5, <1>6, CatalogueStep, CatalogueRevision, PTL
  DEF ActsAtOnce, Atomic!Spec
=============================================================================
