-------------------------- MODULE LegacySeed_proofs --------------------------
(***************************************************************************)
(* No pass of an earlier version is lost or comes back, for any number of  *)
(* persons, processes and bank files.                                      *)
(***************************************************************************)
EXTENDS LegacySeed, TLAPS

\* A process that goes to a point keeps the array of processes well formed.
LEMMA GotoType ==
    ASSUME TypeOK, NEW q \in Processes, NEW x \in Process, Goto(q, x),
           active' # None \/ active' = active,
           x.pc # "off" => x.quiz \in Content,
           x.pc = "read" => active' # None,
           x.pc \in {"carry", "clear"} => x.pub # None
    PROVE  /\ proc' \in [Processes -> Process]
           /\ \A r \in Processes :
                /\ proc'[r].pc # "off" => proc'[r].quiz \in Content
                /\ proc'[r].pc = "read" => active' # None
                /\ proc'[r].pc \in {"carry", "clear"} => proc'[r].pub # None
BY DEF TypeOK, Goto

LEMMA StartType ==
    ASSUME TypeOK, NEW q \in Processes, Start(q)
    PROVE  TypeOK'
<1> DEFINE y == proc[q]
           ProcOK(p, a) ==
             /\ p \in [Processes -> Process]
             /\ \A r \in Processes :
                  /\ p[r].pc # "off" => p[r].quiz \in Content
                  /\ p[r].pc = "read" => a # None
                  /\ p[r].pc \in {"carry", "clear"} => p[r].pub # None
<1>y. /\ y \in Process /\ (y.pc # "off" => y.quiz \in Content)
      /\ y.pc = "read" => active # None
      /\ y.pc \in {"carry", "clear"} => y.pub # None
  BY DEF TypeOK
<1>1. ASSUME Load(q) PROVE TypeOK'
  <2> DEFINE x == [Off EXCEPT !.pc = "active", !.quiz = quizFile]
  <2>1. x \in Process /\ x.pc = "active" /\ x.quiz \in Content
    BY DEF Off, Process, Points, TypeOK
  <2>2. Goto(q, x) /\ UNCHANGED <<quizFile, Tests, Passes>>
    BY <1>1 DEF Load
  <2> HIDE DEF x
  <2>3. ProcOK(proc', active')
    BY <2>1, <2>2, GotoType DEF Tests
  <2> QED BY <2>2, <2>3 DEF TypeOK, Tests, Passes
<1>2. ASSUME NEW point \in Points, point \notin {"off", "read", "carry", "clear"},
             y.pc # "off", GoOn(q, point), UNCHANGED active
      PROVE  ProcOK(proc', active')
  <2> DEFINE x == [y EXCEPT !.pc = point]
  <2>1. x \in Process /\ x.pc = point /\ x.quiz \in Content
    BY <1>y, <1>2 DEF Process
  <2>2. Goto(q, x)
    BY <1>2 DEF GoOn
  <2> HIDE DEF x, y
  <2> QED BY <1>2, <2>1, <2>2, GotoType
<1>3. CASE FindActive(q) \/ ListTests(q) \/ Compare(q)
  <2>1. ProcOK(proc', active')
    BY <1>2, <1>3 DEF FindActive, ListTests, Compare, At, Tests, Points
  <2> QED BY <1>3, <2>1 DEF FindActive, ListTests, Compare, TypeOK, Tests, Passes
<1>4. CASE CreateLegacy(q)
  <2>1. ProcOK(proc', active')
    BY <1>2, <1>4 DEF CreateLegacy, At, Points
  <2>2. y.quiz.policy \in Policies
    BY <1>y, <1>4 DEF CreateLegacy, At, Content
  <2> QED BY <1>4, <2>1, <2>2 DEF CreateLegacy, TypeOK, Passes
<1>5. CASE Publish(q)
  <2> DEFINE x == [y EXCEPT !.pc = "read"]
  <2>1. x \in Process /\ x.pc = "read" /\ x.quiz \in Content /\ y.quiz \in Content
    BY <1>y, <1>5 DEF Process, Points, Publish, At
  <2>2. Goto(q, x) /\ active' = y.quiz
    BY <1>5 DEF Publish, GoOn
  <2>3. active' # None
    BY <2>1, <2>2, SeedNoneAssumption DEF Publications
  <2> HIDE DEF x, y
  <2>4. ProcOK(proc', active')
    BY <2>1, <2>2, <2>3, GotoType
  <2> QED BY <1>5, <2>1, <2>2, <2>4 DEF Publish, TypeOK, Passes, Publications
<1>6. CASE ReadBack(q)
  <2> DEFINE x == [y EXCEPT !.pc = "carry", !.pub = active]
  <2>1. x \in Process /\ x.pc = "carry" /\ x.quiz \in Content /\ x.pub # None
    BY <1>y, <1>6 DEF Process, Points, ReadBack, At, TypeOK
  <2>2. Goto(q, x) /\ UNCHANGED <<quizFile, Tests, Passes>>
    BY <1>6 DEF ReadBack
  <2> HIDE DEF x
  <2>3. ProcOK(proc', active')
    BY <2>1, <2>2, GotoType DEF Tests
  <2> QED BY <2>2, <2>3 DEF TypeOK, Tests, Passes
<1>7. CASE Carry(q)
  <2> DEFINE x == [y EXCEPT !.pc = "clear"]
  <2>1. x \in Process /\ x.pc = "clear" /\ x.quiz \in Content /\ x.pub # None
    BY <1>y, <1>7 DEF Process, Points, Carry, At
  <2>2. Goto(q, x) /\ UNCHANGED Tests
    BY <1>7 DEF Carry, GoOn
  <2>3. y.pub \in Publications
    BY <1>y, <1>7 DEF Process, Carry, At
  <2> HIDE DEF x
  <2>4. ProcOK(proc', active')
    BY <2>1, <2>2, GotoType DEF Tests
  <2> QED BY <1>7, <2>3, <2>4 DEF Carry, TypeOK, Tests
<1>8. CASE Clear(q)
  <2>1. ProcOK(proc', active')
    BY <1>2, <1>8 DEF Clear, At, Tests, Points
  <2> QED BY <1>8, <2>1 DEF Clear, TypeOK, Tests
<1>9. CASE Stop(q)
  <2>1. Off \in Process /\ Off.pc = "off"
    BY DEF Off, Process, Points
  <2>2. Goto(q, Off) /\ UNCHANGED <<quizFile, Tests, Passes>>
    BY <1>9 DEF Stop
  <2>3. ProcOK(proc', active')
    BY <2>1, <2>2, GotoType DEF Tests
  <2> QED BY <2>2, <2>3 DEF TypeOK, Tests, Passes
<1> QED
  BY <1>1, <1>3, <1>4, <1>5, <1>6, <1>7, <1>8, <1>9, Start(q) DEF Start

LEMMA SeedTypeStep == TypeOK /\ [Next]_vars => TypeOK'
<1> SUFFICES ASSUME TypeOK, [Next]_vars PROVE TypeOK'
  OBVIOUS
<1>1. ASSUME NEW c \in Content, EditQuiz(c) PROVE TypeOK'
  BY <1>1 DEF EditQuiz, TypeOK, Tests, Passes
<1>2. ASSUME NEW t \in OwnTests, CreateOwn(t) PROVE TypeOK'
  BY <1>2 DEF CreateOwn, TypeOK, Passes
<1>3. ASSUME NEW t \in OwnTests, PublishOwn(t) PROVE TypeOK'
  BY <1>3, SeedNoneAssumption DEF PublishOwn, TypeOK, Passes, Publications
<1>4. ASSUME NEW p \in Persons, ResetExam(p) PROVE TypeOK'
  BY <1>4 DEF ResetExam, TypeOK, Tests
<1>5. CASE UNCHANGED vars
  BY <1>5 DEF vars, TypeOK
<1> QED BY <1>1, <1>2, <1>3, <1>4, <1>5, StartType DEF Next

-----------------------------------------------------------------------------
\* Why no pass is lost: a process about to clear passed_at has carried every
\* person who is still in it; and a person who was reset is not in it.
Carried ==
    \A q \in Processes : At(q, "clear") => \A p \in passedAt : HasPass(p)

SeedInv == LegacyPassKept /\ Carried /\ passedAt \subseteq owed

LEMMA SeedStart ==
    ASSUME TypeOK, SeedInv, NEW q \in Processes, Start(q)
    PROVE  SeedInv'
<1>1. CASE Carry(q)
  <2>1. proc[q].pub \in Publications
    BY <1>1 DEF Carry, At, TypeOK, Process
  <2>2. /\ \A p \in passedAt : HasPass(p)'
        /\ \A p \in Persons : HasPass(p) => HasPass(p)'
        /\ UNCHANGED <<passedAt, owed>>
    BY <1>1, <2>1 DEF Carry, HasPass
  <2> QED BY <2>2 DEF SeedInv, LegacyPassKept, Carried, TypeOK
<1>2. CASE Clear(q)
  <2>1. \A p \in passedAt : HasPass(p)
    BY <1>2 DEF Clear, SeedInv, Carried
  <2>2. passedAt' = {} /\ UNCHANGED <<passes, owed>>
    BY <1>2 DEF Clear
  <2> QED BY <2>1, <2>2 DEF SeedInv, LegacyPassKept, Carried, HasPass
<1>3. ASSUME UNCHANGED Passes, \A r \in Processes : At(r, "clear")' => At(r, "clear")
      PROVE  SeedInv'
  BY <1>3 DEF SeedInv, LegacyPassKept, Carried, Passes, HasPass
<1>4. ASSUME NEW x, Goto(q, x), x.pc # "clear", UNCHANGED Passes
      PROVE  SeedInv'
  <2>1. \A r \in Processes : At(r, "clear")' => At(r, "clear")
    BY <1>4 DEF Goto, At, TypeOK
  <2> QED BY <1>3, <1>4, <2>1
<1>5. ASSUME NEW point \in Points, point # "clear", GoOn(q, point), UNCHANGED Passes
      PROVE  SeedInv'
  <2> DEFINE x == [proc[q] EXCEPT !.pc = point]
  <2>1. x.pc = point /\ Goto(q, x)
    BY <1>5 DEF GoOn, TypeOK, Process
  <2> HIDE DEF x
  <2> QED BY <1>4, <1>5, <2>1
<1>6. CASE Load(q)
  <2> DEFINE x == [Off EXCEPT !.pc = "active", !.quiz = quizFile]
  <2>1. x.pc # "clear" /\ Goto(q, x) /\ UNCHANGED Passes
    BY <1>6 DEF Off, Load
  <2> HIDE DEF x
  <2> QED BY <1>4, <2>1
<1>7. CASE ReadBack(q)
  <2> DEFINE x == [proc[q] EXCEPT !.pc = "carry", !.pub = active]
  <2>1. x.pc # "clear" /\ Goto(q, x) /\ UNCHANGED Passes
    BY <1>7 DEF ReadBack, TypeOK, Process
  <2> HIDE DEF x
  <2> QED BY <1>4, <2>1
<1>8. CASE Stop(q)
  BY <1>4, <1>8 DEF Stop, Off
<1>9. CASE FindActive(q) \/ ListTests(q) \/ CreateLegacy(q) \/ Compare(q) \/ Publish(q)
  BY <1>5, <1>9 DEF FindActive, ListTests, CreateLegacy, Compare, Publish, Points
<1> QED
  BY <1>1, <1>2, <1>6, <1>7, <1>8, <1>9, Start(q) DEF Start

LEMMA SeedStep == TypeOK /\ SeedInv /\ [Next]_vars => SeedInv'
<1> SUFFICES ASSUME TypeOK, SeedInv, [Next]_vars PROVE SeedInv'
  OBVIOUS
<1>1. ASSUME UNCHANGED <<Passes, proc>> PROVE SeedInv'
  BY <1>1 DEF SeedInv, LegacyPassKept, Carried, Passes, HasPass, At
<1>2. ASSUME NEW p \in Persons, ResetExam(p) PROVE SeedInv'
  <2>1. \A r \in Persons \ {p} : HasPass(r) => HasPass(r)'
    BY <1>2 DEF ResetExam, HasPass
  <2>2. passedAt' = passedAt \ {p} /\ owed' = owed \ {p} /\ proc' = proc
    BY <1>2 DEF ResetExam
  <2> QED BY <2>1, <2>2 DEF SeedInv, LegacyPassKept, Carried, At, TypeOK
<1>3. ASSUME NEW c \in Content, EditQuiz(c) PROVE SeedInv'
  BY <1>1, <1>3 DEF EditQuiz
<1>4. ASSUME NEW t \in OwnTests, CreateOwn(t) \/ PublishOwn(t) PROVE SeedInv'
  BY <1>1, <1>4 DEF CreateOwn, PublishOwn
<1>5. CASE UNCHANGED vars
  BY <1>1, <1>5 DEF vars, Passes
<1> QED BY <1>2, <1>3, <1>4, <1>5, SeedStart DEF Next

\* The types of LegacySeed, and both facts that the two theorems below rest on.
THEOREM SeedSafety == Spec => [](TypeOK /\ SeedInv)
<1>1. Init => TypeOK
  BY DEF Init, TypeOK, Off, Process, Points
<1>2. Init => SeedInv
  BY DEF Init, SeedInv, LegacyPassKept, Carried, At, Off
<1> QED BY <1>1, <1>2, SeedTypeStep, SeedStep, PTL DEF Spec

\* The steps of ensure_legacy_test leave every process and table of its kind.
THEOREM SeedTypes == Spec => []TypeOK
BY SeedSafety, PTL

\* ensure_legacy_test loses no pass of an earlier version, however many
\* processes call it and wherever they are killed.
THEOREM LegacyPassKeptHolds == Spec => []LegacyPassKept
<1>1. SeedInv => LegacyPassKept
  BY DEF SeedInv
<1> QED BY <1>1, SeedSafety, PTL

\* A pass that reset_exam took away is not brought back by ensure_legacy_test.
THEOREM ResetIsFinalHolds == Spec => ResetIsFinal
<1>1. ASSUME TypeOK, SeedInv, [Next]_vars, NEW p \in Persons \ owed, NEW x \in Publications,
             <<p, x>> \in passes'
      PROVE  <<p, x>> \in passes
  <2>1. p \notin passedAt
    BY <1>1 DEF SeedInv
  <2>2. ASSUME NEW q \in Processes, Carry(q) PROVE <<p, x>> \in passes
    BY <1>1, <2>1, <2>2 DEF Carry
  <2>3. CASE passes' \subseteq passes
    BY <1>1, <2>3
  <2> QED
    BY <1>1, <2>2, <2>3
    DEF Next, vars, Start, Passes, Load, FindActive, ListTests, CreateLegacy, Compare,
        Publish, ReadBack, Clear, Stop, EditQuiz, CreateOwn, PublishOwn, ResetExam
<1>2. TypeOK /\ SeedInv /\ [Next]_vars =>
        [\A p \in Persons \ owed, x \in Publications :
           <<p, x>> \in passes' => <<p, x>> \in passes]_vars
  BY <1>1
<1> QED BY <1>2, SeedSafety, PTL DEF Spec, ResetIsFinal

-----------------------------------------------------------------------------
(* What the start after an upgrade does promise.  StartCarriesPasses and    *)
(* CarriedToLegacy do not hold; these are the steps that break them, and    *)
(* without those steps they do.                                             *)

\* The legacy test is published and its passes are not yet carried over.
Window == {"read", "carry", "clear"}
Carrying(q) == proc[q].pc \in Window

\* No process is killed in that window, none looks for an active publication
\* while another one is in it, and the first publication is the legacy test.
Undisturbed ==
    /\ \A q \in Processes : Carrying(q) => ~Stop(q)
    /\ (\E r \in Processes : Carrying(r)) => \A q \in Processes : ~FindActive(q)
    /\ active = None => \A t \in OwnTests : ~PublishOwn(t)

\* Then a publication means that nothing is left in passed_at, or that some
\* process is about to empty it.
CarryInv ==
    /\ active # None => passedAt = {} \/ \E q \in Processes : Carrying(q)
    /\ \A q \in Processes : At(q, "up") => passedAt = {}

LEMMA CarryStart ==
    ASSUME TypeOK, CarryInv, NEW q \in Processes, Start(q), Undisturbed
    PROVE  CarryInv'
<1>1. CASE Clear(q)
  BY <1>1 DEF Clear, CarryInv
<1>2. ASSUME NEW x, Goto(q, x), UNCHANGED passedAt,
             x.pc = "up" => passedAt = {},
             x.pc \in Window \/ (~Carrying(q) /\ active' = active)
      PROVE  CarryInv'
  <2>1. proc'[q] = x /\ \A r \in Processes \ {q} : proc'[r] = proc[r]
    BY <1>2 DEF Goto, TypeOK
  <2>2. CASE x.pc \in Window
    <3>1. Carrying(q)'
      BY <2>1, <2>2 DEF Carrying
    <3>2. \A r \in Processes : At(r, "up")' => passedAt' = {}
      BY <1>2, <2>1 DEF CarryInv, At
    <3> QED BY <3>1, <3>2 DEF CarryInv
  <2>3. CASE ~Carrying(q) /\ active' = active
    <3>1. \A r \in Processes : Carrying(r) => Carrying(r)'
      BY <2>1, <2>3 DEF Carrying
    <3>2. \A r \in Processes : At(r, "up")' => passedAt' = {}
      BY <1>2, <2>1 DEF CarryInv, At
    <3> QED BY <1>2, <2>3, <3>1, <3>2 DEF CarryInv
  <2> QED BY <1>2, <2>2, <2>3
<1>3. ASSUME NEW point \in Points, GoOn(q, point), UNCHANGED passedAt,
             point = "up" => passedAt = {},
             point \in Window \/ (~Carrying(q) /\ active' = active)
      PROVE  CarryInv'
  <2> DEFINE x == [proc[q] EXCEPT !.pc = point]
  <2>1. x.pc = point /\ Goto(q, x)
    BY <1>3 DEF GoOn, TypeOK, Process
  <2> HIDE DEF x
  <2> QED BY <1>2, <1>3, <2>1
<1>4. CASE Load(q)
  <2> DEFINE x == [Off EXCEPT !.pc = "active", !.quiz = quizFile]
  <2>1. x.pc = "active" /\ Goto(q, x) /\ UNCHANGED <<passedAt, active>> /\ ~Carrying(q)
    BY <1>4 DEF Off, Load, Carrying, Window, At, Tests, Passes
  <2> HIDE DEF x
  <2> QED BY <1>2, <2>1
<1>5. CASE FindActive(q)
  <2>1. active # None => passedAt = {}
    BY <1>5 DEF Undisturbed, CarryInv
  <2>2. ~Carrying(q) /\ UNCHANGED <<passedAt, active>>
    BY <1>5 DEF FindActive, Carrying, Window, At, Tests, Passes
  <2> QED BY <1>3, <1>5, <2>1, <2>2 DEF FindActive, Points
<1>6. CASE ListTests(q) \/ CreateLegacy(q) \/ Compare(q)
  <2>1. ~Carrying(q) /\ UNCHANGED <<passedAt, active>>
    BY <1>6 DEF ListTests, CreateLegacy, Compare, Carrying, Window, At, Tests, Passes
  <2> QED BY <1>3, <1>6, <2>1 DEF ListTests, CreateLegacy, Compare, Points
<1>7. CASE Publish(q) \/ Carry(q)
  <2>1. PICK point \in {"read", "clear"} : GoOn(q, point) /\ UNCHANGED passedAt
    BY <1>7 DEF Publish, Carry, Passes
  <2>2. point \in Points /\ point # "up" /\ point \in Window
    BY DEF Points, Window
  <2> QED BY <1>3, <2>1, <2>2
<1>8. CASE ReadBack(q)
  <2> DEFINE x == [proc[q] EXCEPT !.pc = "carry", !.pub = active]
  <2>1. x.pc = "carry" /\ Goto(q, x) /\ UNCHANGED passedAt
    BY <1>8 DEF ReadBack, TypeOK, Process, Passes
  <2>2. x.pc # "up" /\ x.pc \in Window
    BY <2>1 DEF Window
  <2> HIDE DEF x
  <2> QED BY <1>2, <2>1, <2>2
<1>9. CASE Stop(q)
  <2>1. ~Carrying(q)
    BY <1>9 DEF Undisturbed
  <2> QED BY <1>2, <1>9, <2>1 DEF Stop, Off, Tests, Passes
<1> QED
  BY <1>1, <1>4, <1>5, <1>6, <1>7, <1>8, <1>9, Start(q) DEF Start

LEMMA CarryStep == TypeOK /\ CarryInv /\ [Next]_vars /\ [Undisturbed]_vars => CarryInv'
<1> SUFFICES ASSUME TypeOK, CarryInv, [Next]_vars, [Undisturbed]_vars PROVE CarryInv'
  OBVIOUS
<1>1. ASSUME UNCHANGED proc, passedAt' \subseteq passedAt, active' # None => active # None
      PROVE  CarryInv'
  BY <1>1 DEF CarryInv, Carrying, At
<1>2. CASE UNCHANGED vars
  BY <1>1, <1>2 DEF vars
<1>3. CASE Undisturbed
  <2>1. ASSUME NEW c \in Content, EditQuiz(c) PROVE CarryInv'
    BY <1>1, <2>1 DEF EditQuiz, Tests, Passes
  <2>2. ASSUME NEW t \in OwnTests, CreateOwn(t) \/ PublishOwn(t) PROVE CarryInv'
    <3>1. active' # None => active # None
      BY <1>3, <2>2 DEF Undisturbed, CreateOwn
    <3> QED BY <1>1, <2>2, <3>1 DEF CreateOwn, PublishOwn, Passes
  <2>3. ASSUME NEW p \in Persons, ResetExam(p) PROVE CarryInv'
    BY <1>1, <2>3 DEF ResetExam, Tests
  <2> QED BY <1>2, <1>3, <2>1, <2>2, <2>3, CarryStart DEF Next
<1> QED BY <1>2, <1>3

\* Once ensure_legacy_test has returned, whoever had passed is let in and no
\* passed_at is left, unless a process was killed or another one looked while
\* it was being carried over, or another test was published first: the three
\* ways to break StartCarriesPasses are all there are.
THEOREM UndisturbedStartCarries ==
    Spec /\ [][Undisturbed]_vars => []StartCarriesPasses
<1>1. Init => CarryInv
  BY DEF Init, CarryInv, At, Off
<1>2. SeedInv /\ CarryInv => StartCarriesPasses
  BY DEF SeedInv, LegacyPassKept, CarryInv, StartCarriesPasses
<1> QED BY <1>1, <1>2, CarryStep, SeedSafety, PTL DEF Spec

\* No other test is published between the INSERT of the legacy test and the
\* read of published_test that tells publish_test what it published.
NoneBetween ==
    (\E q \in Processes : At(q, "read")) => \A t \in OwnTests : ~PublishOwn(t)

\* Then what a process reads back is a publication of the legacy test.
LegacyInv ==
    /\ CarriedToLegacy
    /\ \A q \in Processes : /\ At(q, "read") => active \in Content
                            /\ At(q, "carry") => proc[q].pub \in Content

LEMMA LegacyStart ==
    ASSUME TypeOK, LegacyInv, NEW q \in Processes, Start(q)
    PROVE  LegacyInv'
<1>1. ASSUME NEW x, Goto(q, x), UNCHANGED passes, active' = active \/ active' \in Content,
             x.pc = "read" => active' \in Content, x.pc = "carry" => x.pub \in Content
      PROVE  LegacyInv'
  <2>1. proc'[q] = x /\ \A r \in Processes \ {q} : proc'[r] = proc[r]
    BY <1>1 DEF Goto, TypeOK
  <2> QED BY <1>1, <2>1 DEF LegacyInv, CarriedToLegacy, At
<1>2. ASSUME NEW point \in Points \ {"read", "carry"}, GoOn(q, point),
             UNCHANGED <<active, passes>>
      PROVE  LegacyInv'
  <2> DEFINE x == [proc[q] EXCEPT !.pc = point]
  <2>1. x.pc \notin {"read", "carry"} /\ Goto(q, x)
    BY <1>2 DEF GoOn, TypeOK, Process
  <2> HIDE DEF x
  <2> QED BY <1>1, <1>2, <2>1
<1>3. CASE Load(q)
  <2> DEFINE x == [Off EXCEPT !.pc = "active", !.quiz = quizFile]
  <2>1. x.pc \notin {"read", "carry"} /\ Goto(q, x) /\ UNCHANGED <<active, passes>>
    BY <1>3 DEF Off, Load, Tests, Passes
  <2> HIDE DEF x
  <2> QED BY <1>1, <2>1
<1>4. CASE FindActive(q) \/ ListTests(q) \/ CreateLegacy(q) \/ Compare(q) \/ Clear(q)
  <2>1. PICK point \in Points \ {"read", "carry"} :
          GoOn(q, point) /\ UNCHANGED <<active, passes>>
    BY <1>4 DEF FindActive, ListTests, CreateLegacy, Compare, Clear, Points, Tests, Passes
  <2> QED BY <1>2, <2>1
<1>5. CASE Publish(q)
  <2> DEFINE x == [proc[q] EXCEPT !.pc = "read"]
  <2>1. x.pc = "read" /\ Goto(q, x) /\ active' \in Content /\ UNCHANGED passes
    BY <1>5 DEF Publish, GoOn, At, TypeOK, Process, Passes
  <2>2. x.pc # "carry"
    BY <2>1
  <2> HIDE DEF x
  <2> QED BY <1>1, <2>1, <2>2
<1>6. CASE ReadBack(q)
  <2> DEFINE x == [proc[q] EXCEPT !.pc = "carry", !.pub = active]
  <2>1. x.pc = "carry" /\ x.pub = active /\ Goto(q, x) /\ UNCHANGED <<active, passes>>
    BY <1>6 DEF ReadBack, TypeOK, Process, Tests, Passes
  <2>2. active \in Content
    BY <1>6 DEF ReadBack, LegacyInv
  <2>3. x.pc # "read"
    BY <2>1
  <2> HIDE DEF x
  <2> QED BY <1>1, <2>1, <2>2, <2>3
<1>7. CASE Carry(q)
  <2> DEFINE x == [proc[q] EXCEPT !.pc = "clear"]
  <2>1. x.pc = "clear" /\ Goto(q, x) /\ active' = active
    BY <1>7 DEF Carry, GoOn, TypeOK, Process, Tests
  <2>2. passes' \subseteq Persons \X Content
    BY <1>7 DEF Carry, LegacyInv, CarriedToLegacy, TypeOK
  <2>3. proc'[q] = x /\ \A r \in Processes \ {q} : proc'[r] = proc[r]
    BY <2>1 DEF Goto, TypeOK
  <2>4. x.pc # "read" /\ x.pc # "carry"
    BY <2>1
  <2> HIDE DEF x
  <2> QED BY <2>1, <2>2, <2>3, <2>4 DEF LegacyInv, CarriedToLegacy, At
<1>8. CASE Stop(q)
  <2>1. Off.pc \notin {"read", "carry"}
    BY DEF Off
  <2> QED BY <1>1, <1>8, <2>1 DEF Stop, Tests, Passes
<1> QED
  BY <1>3, <1>4, <1>5, <1>6, <1>7, <1>8, Start(q) DEF Start

LEMMA LegacyStep == TypeOK /\ LegacyInv /\ [Next]_vars /\ [NoneBetween]_vars => LegacyInv'
<1> SUFFICES ASSUME TypeOK, LegacyInv, [Next]_vars, [NoneBetween]_vars PROVE LegacyInv'
  OBVIOUS
<1>1. ASSUME UNCHANGED proc, passes' \subseteq passes,
             active' = active \/ ~\E q \in Processes : At(q, "read")
      PROVE  LegacyInv'
  BY <1>1 DEF LegacyInv, CarriedToLegacy, At
<1>2. CASE UNCHANGED vars
  BY <1>1, <1>2 DEF vars
<1>3. CASE NoneBetween
  <2>1. ASSUME NEW c \in Content, EditQuiz(c) PROVE LegacyInv'
    BY <1>1, <2>1 DEF EditQuiz, Tests, Passes
  <2>2. ASSUME NEW t \in OwnTests, CreateOwn(t) \/ PublishOwn(t) PROVE LegacyInv'
    BY <1>1, <1>3, <2>2 DEF NoneBetween, CreateOwn, PublishOwn, Passes
  <2>3. ASSUME NEW p \in Persons, ResetExam(p) PROVE LegacyInv'
    BY <1>1, <2>3 DEF ResetExam, Tests
  <2> QED BY <1>2, <1>3, <2>1, <2>2, <2>3, LegacyStart DEF Next
<1> QED BY <1>2, <1>3

\* Passes of earlier versions go to the legacy test alone, unless another
\* test is published between those two accesses of publish_test: the finding
\* of seed_cli has no other cause, not even a process that is killed.
THEOREM NoneBetweenCarriedToLegacy ==
    Spec /\ [][NoneBetween]_vars => []CarriedToLegacy
<1>1. Init => LegacyInv
  BY DEF Init, LegacyInv, CarriedToLegacy, At, Off
<1>2. LegacyInv => CarriedToLegacy
  BY DEF LegacyInv
<1> QED BY <1>1, <1>2, LegacyStep, SeedTypes, PTL DEF Spec
=============================================================================
