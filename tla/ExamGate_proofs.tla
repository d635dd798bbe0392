--------------------------- MODULE ExamGate_proofs ---------------------------
(* Machine-checked proofs about ExamGate, for any number of people, keys,  *)
(* tests, revisions, concurrent connections and starts.                    *)
EXTENDS ExamGate, TLAPS

USE MaxPersonAssumption, TestOfAssumption, MaxAttemptsAssumption,
    LegacyTestAssumption, NoneAssumption DEF PersonIds, Pairs

-----------------------------------------------------------------------------
(* Types.                                                                  *)

\* The administration keeps every column of its type.
LEMMA AdministerType ==
    ASSUME TypeOK, Administer
    PROVE  TypeOK'
<1> USE DEF TypeOK, personVars, keyVars, testVars, recordVars
<1>1. ASSUME NEW p \in PersonIds, NEW h \in Humans, NEW u \in Users \cup {None},
             CreatePerson(p, h, u)
      PROVE  TypeOK'
  BY <1>1 DEF CreatePerson
<1>2. ASSUME NEW p \in PersonIds, NEW u \in Users \cup {None}, UpdatePerson(p, u)
      PROVE  TypeOK'
  BY <1>2 DEF UpdatePerson
<1>3. ASSUME NEW p \in PersonIds, NEW on \in BOOLEAN, SetPersonEnabled(p, on)
      PROVE  TypeOK'
  BY <1>3 DEF SetPersonEnabled
<1>e. ASSUME NEW gone, Erase(gone)
      PROVE  /\ failed' \in [Pairs -> Nat] /\ won' \in [Pairs -> Nat]
             /\ passes' \subseteq Pairs /\ carried' \subseteq passes'
  BY <1>e DEF Erase
<1>4. ASSUME NEW p \in PersonIds, DeletePerson(p)
      PROVE  TypeOK'
  <2>1. owner' \in [Fingerprints -> PersonIds \cup {0}]
    BY <1>4 DEF DeletePerson
  <2>2. keyOn' \subseteq {f \in Fingerprints : owner'[f] # 0}
    BY <1>4 DEF DeletePerson
  <2> QED BY <1>4, <1>e, <2>1, <2>2 DEF DeletePerson
<1>5. ASSUME NEW p \in PersonIds, ResetExam(p)
      PROVE  TypeOK'
  BY <1>5, <1>e DEF ResetExam
<1>6. ASSUME NEW p \in PersonIds, NEW f \in Fingerprints, AddKey(p, f)
      PROVE  TypeOK'
  BY <1>6 DEF AddKey
<1>7. ASSUME NEW f \in Fingerprints, NEW on \in BOOLEAN, SetKeyEnabled(f, on)
      PROVE  TypeOK'
  BY <1>7 DEF SetKeyEnabled
<1>8. ASSUME NEW f \in Fingerprints, RemoveKey(f)
      PROVE  TypeOK'
  BY <1>8 DEF RemoveKey
<1>9. ASSUME NEW t \in Tests, CreateTest(t)
      PROVE  TypeOK'
  BY <1>9 DEF CreateTest
<1>10. ASSUME NEW t \in Tests, DeleteTest(t)
       PROVE  TypeOK'
  BY <1>10, <1>e DEF DeleteTest
<1>11. ASSUME NEW r \in Revisions, PublishTest(r)
       PROVE  TypeOK'
  BY <1>11 DEF PublishTest, Publication
<1>12. ASSUME NEW r \in Revisions, ActivatePublication(r)
       PROVE  TypeOK'
  BY <1>12 DEF ActivatePublication
<1> HIDE DEF TypeOK
<1> QED
  BY <1>1, <1>2, <1>3, <1>4, <1>5, <1>6, <1>7, <1>8, <1>9, <1>10, <1>11, <1>12
  DEF Administer

\* What a session may be: a record of the right fields that knows its person
\* and revision once load_identity has returned them.
WellFormed(x) ==
    /\ x \in Session
    /\ x.pc \in AtExam => x.pid \in PersonIds /\ x.rev \in Revisions

LEMMA SessionUpdate ==
    ASSUME TypeOK, NEW s \in Sessions, NEW x, WellFormed(x),
           tui' = [tui EXCEPT ![s] = x]
    PROVE  /\ tui' \in [Sessions -> Session]
           /\ \A c \in Sessions : tui'[c].pc \in AtExam =>
                tui'[c].pid \in PersonIds /\ tui'[c].rev \in Revisions
BY DEF TypeOK, WellFormed

\* Every step of a connection keeps the types too.
LEMMA ConnectionType ==
    ASSUME TypeOK, NEW s \in Sessions, Connection(s)
    PROVE  TypeOK'
<1> DEFINE x == tui[s]
<1>x. WellFormed(x) /\ x \in Session
  BY DEF TypeOK, WellFormed
<1>i. WellFormed(Idle)
  BY DEF WellFormed, Idle, Session, AtExam
<1>1. ASSUME NEW u \in Users, NEW f \in Fingerprints, NEW p \in PersonIds,
             Connect(s, u, f, p)
      PROVE  TypeOK'
  <2> DEFINE y == [Idle EXCEPT !.pc = "shell", !.user = u, !.fp = f, !.pid = p]
             z == [Idle EXCEPT !.pc = "started", !.user = u, !.fp = f]
  <2>1. WellFormed(y) /\ WellFormed(z)
    BY DEF WellFormed, Idle, Session, AtExam
  <2>2. tui' = [tui EXCEPT ![s] = IF HasPass(p) THEN y ELSE z]
    BY <1>1 DEF Connect
  <2>3. WellFormed(IF HasPass(p) THEN y ELSE z)
    BY <2>1
  <2> HIDE DEF y, z
  <2>4. /\ tui' \in [Sessions -> Session]
        /\ \A c \in Sessions : tui'[c].pc \in AtExam =>
             tui'[c].pid \in PersonIds /\ tui'[c].rev \in Revisions
    BY <2>2, <2>3, SessionUpdate
  <2> QED
    BY <1>1, <2>4 DEF Connect, TypeOK, personVars, keyVars, testVars, recordVars
<1>2. ASSUME NEW p \in PersonIds, ResolvePolicy(s, p)
      PROVE  TypeOK'
  <2> DEFINE y == [x EXCEPT !.pc = "resolved", !.pid = p, !.rev = active,
                            !.passed = HasPass(p)]
  <2>0. active \in Revisions
    BY <1>2 DEF ResolvePolicy, Resolves, TypeOK
  <2>p. HasPass(p) \in BOOLEAN
    BY DEF HasPass
  <2>1. WellFormed(y)
    BY <1>x, <2>0, <2>p DEF WellFormed, Session, AtExam
  <2>2. tui' = [tui EXCEPT ![s] = y]
    BY <1>2 DEF ResolvePolicy
  <2> HIDE DEF y
  <2>3. /\ tui' \in [Sessions -> Session]
        /\ \A c \in Sessions : tui'[c].pc \in AtExam =>
             tui'[c].pid \in PersonIds /\ tui'[c].rev \in Revisions
    BY <2>1, <2>2, SessionUpdate
  <2> QED
    BY <1>2, <2>3 DEF ResolvePolicy, TypeOK, personVars, keyVars, testVars, recordVars
<1>3. CASE CountAttempts(s)
  <2> DEFINE e == <<x.pid, x.rev>>
             y == [x EXCEPT !.pc = "identified", !.human = human[x.pid],
                            !.count = failed[e] + won[e]]
  <2>0. x.pc \in AtExam
    BY <1>3 DEF CountAttempts, AtExam
  <2>1. e \in Pairs
    BY <1>x, <2>0 DEF WellFormed
  <2>2. failed[e] + won[e] \in Nat /\ human[x.pid] \in Humans \cup {None}
    BY <2>1 DEF TypeOK
  <2>3. WellFormed(y)
    BY <1>x, <2>0, <2>2 DEF WellFormed, Session, AtExam
  <2>4. tui' = [tui EXCEPT ![s] = y]
    BY <1>3 DEF CountAttempts
  <2> HIDE DEF y
  <2>5. /\ tui' \in [Sessions -> Session]
        /\ \A c \in Sessions : tui'[c].pc \in AtExam =>
             tui'[c].pid \in PersonIds /\ tui'[c].rev \in Revisions
    BY <2>3, <2>4, SessionUpdate
  <2> QED
    BY <1>3, <2>5 DEF CountAttempts, TypeOK, personVars, keyVars, testVars, recordVars
<1>4. CASE BeginExam(s)
  <2> DEFINE y == [x EXCEPT !.pc = "exam"]
  <2>1. WellFormed(y)
    BY <1>4, <1>x DEF BeginExam, WellFormed, Session, AtExam
  <2>2. tui' = [tui EXCEPT ![s] = y]
    BY <1>4 DEF BeginExam
  <2> HIDE DEF y
  <2>3. /\ tui' \in [Sessions -> Session]
        /\ \A c \in Sessions : tui'[c].pc \in AtExam =>
             tui'[c].pid \in PersonIds /\ tui'[c].rev \in Revisions
    BY <2>1, <2>2, SessionUpdate
  <2> QED
    BY <1>4, <2>3 DEF BeginExam, TypeOK, personVars, keyVars, testVars, recordVars
<1>5. ASSUME NEW ok \in BOOLEAN, RecordAttempt(s, ok)
      PROVE  TypeOK'
  <2> DEFINE e == <<x.pid, x.rev>>
             y == [x EXCEPT !.pc = "result"]
  <2>1. e \in Pairs
    BY <1>5, <1>x DEF RecordAttempt, WellFormed, AtExam
  <2>2. /\ failed' \in [Pairs -> Nat] /\ won' \in [Pairs -> Nat]
        /\ passes' \subseteq Pairs /\ passes \subseteq passes'
    <3>1. \/ /\ won' = [won EXCEPT ![e] = @ + 1]
             /\ passes' = passes \cup {e}
             /\ failed' = failed
          \/ /\ failed' = [failed EXCEPT ![e] = @ + 1]
             /\ won' = won /\ passes' = passes
      BY <1>5 DEF RecordAttempt
    <3>2. failed \in [Pairs -> Nat] /\ won \in [Pairs -> Nat] /\ passes \subseteq Pairs
      BY DEF TypeOK
    <3> HIDE DEF e, Pairs
    <3>3. /\ [won EXCEPT ![e] = @ + 1] \in [Pairs -> Nat]
          /\ [failed EXCEPT ![e] = @ + 1] \in [Pairs -> Nat]
      BY <2>1, <3>2
    <3> QED BY <2>1, <3>1, <3>2, <3>3
  <2>3. WellFormed(y)
    BY <1>5, <1>x DEF RecordAttempt, WellFormed, Session, AtExam
  <2>4. tui' = [tui EXCEPT ![s] = y]
    BY <1>5 DEF RecordAttempt
  <2> HIDE DEF y
  <2>5. /\ tui' \in [Sessions -> Session]
        /\ \A c \in Sessions : tui'[c].pc \in AtExam =>
             tui'[c].pid \in PersonIds /\ tui'[c].rev \in Revisions
    BY <2>3, <2>4, SessionUpdate
  <2> QED
    BY <1>5, <2>2, <2>5 DEF RecordAttempt, TypeOK, personVars, keyVars, testVars
<1>6. CASE Close(s)
  <2>1. /\ tui' \in [Sessions -> Session]
        /\ \A c \in Sessions : tui'[c].pc \in AtExam =>
             tui'[c].pid \in PersonIds /\ tui'[c].rev \in Revisions
    BY <1>6, <1>i, SessionUpdate DEF Close
  <2> QED
    BY <1>6, <2>1 DEF Close, TypeOK, personVars, keyVars, testVars, recordVars
<1> QED BY <1>1, <1>2, <1>3, <1>4, <1>5, <1>6 DEF Connection

\* A start touches tests, publications and passes, and nothing else.
LEMMA SeedLeaves ==
    ASSUME NEW q \in Starts, Seed(q)
    PROVE  UNCHANGED <<personVars, keyVars, failed, won, tui>>
BY DEF Seed, FindActive, ListTests, CreateLegacy, PublishLegacy, ReadBack, Carry, Clear,
       Stop, recordVars

LEMMA StartUpdate ==
    ASSUME TypeOK, NEW q \in Starts, NEW x \in StartUp, Goto(q, x),
           x.pc = "read" => active' # None,
           x.pc \in {"carry", "clear"} => x.rev \in Revisions,
           active # None => active' # None
    PROVE  /\ start' \in [Starts -> StartUp]
           /\ \A o \in Starts :
                /\ start'[o].pc = "read" => active' # None
                /\ start'[o].pc \in {"carry", "clear"} => start'[o].rev \in Revisions
BY DEF TypeOK, Goto

\* Every call of ensure_legacy_test keeps the types.
LEMMA SeedType ==
    ASSUME TypeOK, NEW q \in Starts, Seed(q)
    PROVE  TypeOK'
<1> USE DEF At
<1>0. /\ start[q] \in StartUp
      /\ start[q].pc \in {"carry", "clear"} => start[q].rev \in Revisions
      /\ active \in Revisions \cup {None}
  BY DEF TypeOK
<1>g. \A point \in StartPoints : [start[q] EXCEPT !.pc = point] \in StartUp
  BY <1>0 DEF StartUp
<1>h. \A point \in StartPoints :
        /\ [start[q] EXCEPT !.pc = point].pc = point
        /\ [start[q] EXCEPT !.pc = point].rev = start[q].rev
  BY <1>0 DEF StartUp
<1>1. ASSUME FindActive(q) \/ ListTests(q)
      PROVE  TypeOK'
  <2>1. PICK point \in {"list", "create", "publish"} : GoOn(q, point)
    BY <1>1 DEF FindActive, ListTests
  <2>2. UNCHANGED <<personVars, keyVars, testVars, recordVars, tui>>
    BY <1>1 DEF FindActive, ListTests
  <2>3. point \in StartPoints
    BY DEF StartPoints
  <2>4. /\ start' \in [Starts -> StartUp]
        /\ \A o \in Starts :
             /\ start'[o].pc = "read" => active' # None
             /\ start'[o].pc \in {"carry", "clear"} => start'[o].rev \in Revisions
    BY <1>g, <1>h, <2>1, <2>2, <2>3, StartUpdate DEF GoOn, testVars
  <2> QED BY <2>2, <2>4 DEF TypeOK, personVars, keyVars, testVars, recordVars
<1>2. ASSUME CreateLegacy(q)
      PROVE  TypeOK'
  <2>1. "publish" \in StartPoints
    BY DEF StartPoints
  <2>2. /\ start' \in [Starts -> StartUp]
        /\ \A o \in Starts :
             /\ start'[o].pc = "read" => active' # None
             /\ start'[o].pc \in {"carry", "clear"} => start'[o].rev \in Revisions
    BY <1>2, <1>g, <1>h, <2>1, StartUpdate DEF CreateLegacy, GoOn
  <2> QED BY <1>2, <2>2 DEF CreateLegacy, TypeOK, personVars, keyVars, recordVars
<1>3. ASSUME NEW r \in Revisions, PublishLegacy(q, r)
      PROVE  TypeOK'
  <2>1. "read" \in StartPoints /\ active' # None
    BY <1>3 DEF StartPoints, PublishLegacy, Publication
  <2>2. /\ start' \in [Starts -> StartUp]
        /\ \A o \in Starts :
             /\ start'[o].pc = "read" => active' # None
             /\ start'[o].pc \in {"carry", "clear"} => start'[o].rev \in Revisions
    BY <1>3, <1>g, <1>h, <2>1, StartUpdate DEF PublishLegacy, GoOn
  <2> QED
    BY <1>3, <2>2 DEF PublishLegacy, Publication, TypeOK, personVars, keyVars, recordVars
<1>4. ASSUME ReadBack(q)
      PROVE  TypeOK'
  <2> DEFINE x == [pc |-> "carry", rev |-> active]
  <2>1. x \in StartUp /\ x.pc = "carry" /\ x.rev \in Revisions
    BY <1>0, <1>4 DEF ReadBack, StartUp, StartPoints
  <2>2. Goto(q, x) /\ active' = active
    BY <1>4 DEF ReadBack, testVars
  <2> HIDE DEF x
  <2>3. /\ start' \in [Starts -> StartUp]
        /\ \A o \in Starts :
             /\ start'[o].pc = "read" => active' # None
             /\ start'[o].pc \in {"carry", "clear"} => start'[o].rev \in Revisions
    BY <2>1, <2>2, StartUpdate
  <2> QED BY <1>4, <2>3 DEF ReadBack, TypeOK, personVars, keyVars, testVars, recordVars
<1>5. ASSUME Carry(q)
      PROVE  TypeOK'
  <2>1. "clear" \in StartPoints /\ start[q].rev \in Revisions /\ active' = active
    BY <1>0, <1>5 DEF StartPoints, Carry, testVars
  <2>2. /\ start' \in [Starts -> StartUp]
        /\ \A o \in Starts :
             /\ start'[o].pc = "read" => active' # None
             /\ start'[o].pc \in {"carry", "clear"} => start'[o].rev \in Revisions
    BY <1>5, <1>g, <1>h, <2>1, StartUpdate DEF Carry, GoOn
  <2>3. passedAt \X {start[q].rev} \subseteq Pairs
    BY <2>1 DEF TypeOK
  <2>4. passes' \subseteq Pairs /\ carried' \subseteq passes'
    BY <1>5, <2>3 DEF Carry, TypeOK
  <2> QED BY <1>5, <2>2, <2>4 DEF Carry, TypeOK, personVars, keyVars, testVars
<1>6. ASSUME Clear(q) \/ Stop(q)
      PROVE  TypeOK'
  <2>1. Off \in StartUp /\ Off.pc = "off" /\ Goto(q, Off) /\ active' = active
    BY <1>6 DEF Clear, Stop, Off, StartUp, StartPoints, testVars
  <2>2. /\ start' \in [Starts -> StartUp]
        /\ \A o \in Starts :
             /\ start'[o].pc = "read" => active' # None
             /\ start'[o].pc \in {"carry", "clear"} => start'[o].rev \in Revisions
    BY <2>1, StartUpdate
  <2> QED
    BY <1>6, <2>2 DEF Clear, Stop, TypeOK, personVars, keyVars, testVars, recordVars
<1> QED BY <1>1, <1>2, <1>3, <1>4, <1>5, <1>6 DEF Seed

\* Type correctness of the gate.
THEOREM TypeCorrect == Spec => []TypeOK
<1>1. Init => TypeOK
  <2> SUFFICES ASSUME Init PROVE TypeOK
    OBVIOUS
  <2>1. owner \in [Fingerprints -> PersonIds \cup {0}] /\ passedAt \subseteq people
    BY DEF Init
  <2>2. /\ failed \in [Pairs -> Nat] /\ won \in [Pairs -> Nat]
        /\ tui \in [Sessions -> Session] /\ \A s \in Sessions : tui[s].pc = "idle"
        /\ start \in [Starts -> StartUp] /\ \A q \in Starts : start[q].pc = "off"
    BY DEF Init, Session, Idle, StartUp, StartPoints, Off
  <2> QED BY <2>1, <2>2 DEF Init, TypeOK, AtExam
<1>2. TypeOK /\ [Next]_vars => TypeOK'
  <2> SUFFICES ASSUME TypeOK, [Next]_vars PROVE TypeOK'
    OBVIOUS
  <2>1. CASE UNCHANGED vars
    BY <2>1 DEF TypeOK, vars, personVars, keyVars, testVars, recordVars
  <2> QED BY <2>1, AdministerType, ConnectionType, SeedType DEF Next
<1> QED BY <1>1, <1>2, PTL DEF Spec

-----------------------------------------------------------------------------
(* Exam records: what one step does to the attempts and the pass of one    *)
(* person at one revision.                                                 *)

Kept(e) ==
    /\ failed'[e] = failed[e] /\ won'[e] = won[e]
    /\ e \in passes' <=> e \in passes
    /\ e \in carried' <=> e \in carried

Cleared(e) == failed'[e] = 0 /\ won'[e] = 0 /\ e \notin passes'

Recorded(e) ==
    /\ e[1] \in personOn
    /\ e \notin passes
    /\ failed[e] + won[e] < MaxAttempts[e[2]]
    /\ e \notin carried'
    /\ \/ failed'[e] = failed[e] /\ won'[e] = won[e] + 1 /\ e \in passes'
       \/ failed'[e] = failed[e] + 1 /\ won'[e] = won[e] /\ e \notin passes'

Brought(e) ==
    /\ e[1] \in passedAt
    /\ failed'[e] = failed[e] /\ won'[e] = won[e]
    /\ e \notin passes /\ e \in passes' /\ e \in carried'

\* record_attempt touches the pair of its own session only, and only if its
\* checks hold for that pair.
LEMMA RecordAttemptEffect ==
    ASSUME TypeOK, NEW s \in Sessions, NEW ok \in BOOLEAN, RecordAttempt(s, ok),
           NEW e \in Pairs
    PROVE  Kept(e) \/ (Recorded(e) /\ e = <<tui[s].pid, tui[s].rev>>)
<1>1. <<tui[s].pid, tui[s].rev>> \in Pairs
  BY DEF RecordAttempt, TypeOK, AtExam
<1>m. PICK m \in Pairs : m = <<tui[s].pid, tui[s].rev>>
  BY <1>1
<1>2. /\ m[1] \in personOn /\ m \notin passes
      /\ failed[m] + won[m] < MaxAttempts[m[2]]
  BY <1>m DEF RecordAttempt, MayRecord
<1>3. \/ /\ won' = [won EXCEPT ![m] = @ + 1]
         /\ passes' = passes \cup {m}
         /\ failed' = failed
      \/ /\ failed' = [failed EXCEPT ![m] = @ + 1]
         /\ won' = won /\ passes' = passes
  BY <1>m DEF RecordAttempt
<1>4. failed \in [Pairs -> Nat] /\ won \in [Pairs -> Nat]
  BY DEF TypeOK
<1>c. carried' = carried /\ m \notin carried
  BY <1>2 DEF RecordAttempt, TypeOK
<1> HIDE DEF Pairs
<1>5. CASE e = m
  <2>1. \/ failed'[m] = failed[m] /\ won'[m] = won[m] + 1 /\ m \in passes'
        \/ failed'[m] = failed[m] + 1 /\ won'[m] = won[m] /\ m \notin passes'
    BY <1>2, <1>3, <1>4
  <2> QED BY <1>m, <1>2, <1>5, <1>c, <2>1, Zenon DEF Recorded
<1>6. CASE e # m
  BY <1>3, <1>4, <1>6, <1>c DEF Kept
<1> QED BY <1>5, <1>6

\* The administration keeps the pair's records or clears them altogether.
LEMMA AdministerRecords ==
    ASSUME TypeOK, Administer, NEW e \in Pairs
    PROVE  Kept(e) \/ Cleared(e)
<1>e. ASSUME NEW gone, Erase(gone)
      PROVE  Kept(e) \/ Cleared(e)
  BY <1>e DEF Erase, Kept, Cleared
<1>1. ASSUME NEW p \in PersonIds, DeletePerson(p)
      PROVE  Kept(e) \/ Cleared(e)
  BY <1>1, <1>e DEF DeletePerson
<1>2. ASSUME NEW p \in PersonIds, ResetExam(p)
      PROVE  Kept(e) \/ Cleared(e)
  BY <1>2, <1>e DEF ResetExam
<1>3. ASSUME NEW t \in Tests, DeleteTest(t)
      PROVE  Kept(e) \/ Cleared(e)
  BY <1>3, <1>e DEF DeleteTest
<1>4. CASE UNCHANGED recordVars
  BY <1>4 DEF recordVars, Kept
<1>5. \/ UNCHANGED recordVars
      \/ \E p \in PersonIds : DeletePerson(p) \/ ResetExam(p)
      \/ \E t \in Tests : DeleteTest(t)
  BY DEF Administer, CreatePerson, UpdatePerson, SetPersonEnabled, AddKey,
         SetKeyEnabled, RemoveKey, CreateTest, PublishTest, ActivatePublication
<1> QED BY <1>1, <1>2, <1>3, <1>4, <1>5

\* A start adds passes only, of people who had passed before, at its revision.
LEMMA SeedRecords ==
    ASSUME TypeOK, NEW q \in Starts, Seed(q), NEW e \in Pairs
    PROVE  Kept(e) \/ (Brought(e) /\ Carry(q) /\ e[2] = start[q].rev)
<1>1. UNCHANGED <<passes, failed, won, carried>> \/ Carry(q)
  BY DEF Seed, FindActive, ListTests, CreateLegacy, PublishLegacy, ReadBack, Clear, Stop,
         recordVars
<1>2. CASE UNCHANGED <<passes, failed, won, carried>>
  BY <1>2 DEF Kept
<1>3. CASE Carry(q)
  <2> DEFINE brought == passedAt \X {start[q].rev}
  <2>1. /\ passes' = passes \cup brought /\ carried' = carried \cup (brought \ passes)
        /\ failed' = failed /\ won' = won
    BY <1>3 DEF Carry
  <2>2. e \in brought => e[1] \in passedAt /\ e[2] = start[q].rev
    OBVIOUS
  <2> HIDE DEF brought
  <2> QED BY <1>3, <2>1, <2>2 DEF Kept, Brought
<1> QED BY <1>1, <1>2, <1>3

LEMMA RecordsStep ==
    ASSUME TypeOK, [Next]_vars, NEW e \in Pairs
    PROVE  Kept(e) \/ Cleared(e) \/ Recorded(e) \/ Brought(e)
<1>1. CASE Administer
  BY <1>1, AdministerRecords
<1>2. ASSUME NEW s \in Sessions, Connection(s)
      PROVE  Kept(e) \/ Recorded(e)
  <2>1. UNCHANGED recordVars \/ \E ok \in BOOLEAN : RecordAttempt(s, ok)
    BY <1>2 DEF Connection, Connect, ResolvePolicy, CountAttempts, BeginExam, Close
  <2>2. CASE UNCHANGED recordVars
    BY <2>2 DEF recordVars, Kept
  <2> QED BY <2>1, <2>2, RecordAttemptEffect
<1>3. CASE UNCHANGED vars
  BY <1>3 DEF vars, recordVars, Kept
<1> QED BY <1>1, <1>2, <1>3, SeedRecords DEF Next

-----------------------------------------------------------------------------
(* The safety invariants.                                                  *)

\* The two invariants about one pair follow from what a step may do to it.
LEMMA RecordInvariants ==
    ASSUME TypeOK, AttemptLimit, PassIsOneAttempt, [Next]_vars
    PROVE  AttemptLimit' /\ PassIsOneAttempt'
<1> SUFFICES ASSUME NEW e \in Pairs
             PROVE  /\ failed'[e] + won'[e] <= MaxAttempts[e[2]]
                    /\ won'[e] = IF e \in passes' \ carried' THEN 1 ELSE 0
  BY DEF AttemptLimit, PassIsOneAttempt
<1>1. /\ failed[e] \in Nat /\ won[e] \in Nat
      /\ MaxAttempts[e[2]] \in Nat \ {0}
  BY DEF TypeOK
<1>2. /\ failed[e] + won[e] <= MaxAttempts[e[2]]
      /\ won[e] = IF e \in passes \ carried THEN 1 ELSE 0
  BY DEF AttemptLimit, PassIsOneAttempt
<1>3. CASE Kept(e)
  BY <1>2, <1>3 DEF Kept
<1>4. CASE Cleared(e)
  BY <1>1, <1>4 DEF Cleared
<1>5. CASE Recorded(e)
  <2>1. won[e] = 0 /\ failed[e] + won[e] + 1 <= MaxAttempts[e[2]]
    BY <1>1, <1>2, <1>5 DEF Recorded
  <2>2. CASE failed'[e] = failed[e] /\ won'[e] = won[e] + 1 /\ e \in passes'
    BY <1>1, <1>5, <2>1, <2>2 DEF Recorded
  <2>3. CASE failed'[e] = failed[e] + 1 /\ won'[e] = won[e] /\ e \notin passes'
    BY <1>1, <2>1, <2>3
  <2> QED BY <1>5, <2>2, <2>3 DEF Recorded
<1>6. CASE Brought(e)
  BY <1>2, <1>6 DEF Brought
<1> QED BY <1>3, <1>4, <1>5, <1>6, RecordsStep

\* Deleting a person empties its id, and nothing else fills a free one.
LEMMA FreeIdStep ==
    ASSUME TypeOK, FreeIdIsClean, [Next]_vars
    PROVE  FreeIdIsClean'
<1> SUFFICES ASSUME NEW p \in PersonIds, p \notin people'
             PROVE  /\ account'[p] = None
                    /\ \A f \in Fingerprints : owner'[f] # p
                    /\ \A r \in Revisions : /\ <<p, r>> \notin passes'
                                            /\ failed'[<<p, r>>] = 0
                                            /\ won'[<<p, r>>] = 0
  BY DEF FreeIdIsClean
<1>1. CASE DeletePerson(p)
  BY <1>1 DEF DeletePerson, Erase, TypeOK
<1>2. CASE p \notin people
  <2>1. ASSUME NEW r \in Revisions
        PROVE  <<p, r>> \notin passes' /\ failed'[<<p, r>>] = 0 /\ won'[<<p, r>>] = 0
    <3> DEFINE e == <<p, r>>
    <3>1. e \in Pairs /\ e[1] = p
      OBVIOUS
    <3>2. e \notin passes /\ failed[e] = 0 /\ won[e] = 0
      BY <1>2 DEF FreeIdIsClean
    <3>3. ~Recorded(e) /\ ~Brought(e)
      BY <1>2, <3>1 DEF Recorded, Brought, TypeOK
    <3>4. Kept(e) \/ Cleared(e)
      BY <3>1, <3>3, RecordsStep
    <3> QED BY <3>2, <3>4 DEF Kept, Cleared
  <2>2. account[p] = None /\ \A f \in Fingerprints : owner[f] # p
    BY <1>2 DEF FreeIdIsClean
  <2>3. account'[p] = None
    <3>1. CASE UNCHANGED account
      BY <2>2, <3>1
    <3>2. ASSUME NEW q \in PersonIds, NEW h \in Humans, NEW u \in Users \cup {None},
                 CreatePerson(q, h, u)
          PROVE  account'[p] = None
      BY <2>2, <3>2 DEF CreatePerson, TypeOK
    <3>3. ASSUME NEW q \in PersonIds, NEW u \in Users \cup {None}, UpdatePerson(q, u)
          PROVE  account'[p] = None
      BY <1>2, <2>2, <3>3 DEF UpdatePerson, TypeOK
    <3>4. ASSUME NEW q \in PersonIds, DeletePerson(q)
          PROVE  account'[p] = None
      BY <2>2, <3>4 DEF DeletePerson, TypeOK
    <3> QED
      BY <3>1, <3>2, <3>3, <3>4, SeedLeaves
      DEF Next, Administer, SetPersonEnabled, ResetExam, AddKey, SetKeyEnabled,
          RemoveKey, CreateTest, DeleteTest, PublishTest, ActivatePublication,
          Connection, Connect, ResolvePolicy, CountAttempts, BeginExam,
          RecordAttempt, Close, personVars, vars
  <2>4. ASSUME NEW f \in Fingerprints PROVE owner'[f] # p
    <3>1. CASE UNCHANGED owner
      BY <2>2, <3>1
    <3>2. ASSUME NEW q \in PersonIds, NEW g \in Fingerprints, AddKey(q, g)
          PROVE  owner'[f] # p
      BY <1>2, <2>2, <3>2 DEF AddKey, TypeOK
    <3>3. ASSUME NEW g \in Fingerprints, RemoveKey(g)
          PROVE  owner'[f] # p
      BY <2>2, <3>3 DEF RemoveKey, TypeOK
    <3>4. ASSUME NEW q \in PersonIds, DeletePerson(q)
          PROVE  owner'[f] # p
      BY <2>2, <3>4 DEF DeletePerson
    <3> QED
      BY <3>1, <3>2, <3>3, <3>4, SeedLeaves
      DEF Next, Administer, CreatePerson, UpdatePerson, SetPersonEnabled,
          ResetExam, SetKeyEnabled, CreateTest, DeleteTest, PublishTest,
          ActivatePublication, Connection, Connect, ResolvePolicy,
          CountAttempts, BeginExam, RecordAttempt, Close, keyVars, vars
  <2> QED BY <2>1, <2>3, <2>4
<1>3. CASE p \in people /\ ~DeletePerson(p)
  <2>1. CASE UNCHANGED people
    BY <1>3, <2>1
  <2>2. ASSUME NEW q \in PersonIds, NEW h \in Humans, NEW u \in Users \cup {None},
               CreatePerson(q, h, u)
        PROVE  p \in people'
    BY <1>3, <2>2 DEF CreatePerson
  <2>3. ASSUME NEW q \in PersonIds, DeletePerson(q)
        PROVE  p \in people'
    <3>1. q # p
      BY <1>3, <2>3
    <3> QED BY <1>3, <2>3, <3>1 DEF DeletePerson
  <2> QED
    BY <2>1, <2>2, <2>3, SeedLeaves
    DEF Next, Administer, UpdatePerson, SetPersonEnabled, ResetExam, AddKey,
        SetKeyEnabled, RemoveKey, CreateTest, DeleteTest, PublishTest,
        ActivatePublication, Connection, Connect, ResolvePolicy, CountAttempts,
        BeginExam, RecordAttempt, Close, personVars, vars
<1> QED BY <1>1, <1>2, <1>3

\* The unique index: an account is given only where it is free.
LEMMA AccountStep ==
    ASSUME TypeOK, AccountUnique, [Next]_vars
    PROVE  AccountUnique'
<1>1. ASSUME NEW p \in PersonIds, NEW h \in Humans, NEW u \in Users \cup {None},
             CreatePerson(p, h, u)
      PROVE  AccountUnique'
  BY <1>1 DEF CreatePerson, AccountFree, AccountUnique, TypeOK
<1>2. ASSUME NEW p \in PersonIds, NEW u \in Users \cup {None}, UpdatePerson(p, u)
      PROVE  AccountUnique'
  BY <1>2 DEF UpdatePerson, AccountFree, AccountUnique, TypeOK
<1>3. ASSUME NEW p \in PersonIds, DeletePerson(p)
      PROVE  AccountUnique'
  BY <1>3 DEF DeletePerson, AccountUnique, TypeOK
<1>4. CASE UNCHANGED <<people, account>>
  BY <1>4 DEF AccountUnique
<1> QED
  BY <1>1, <1>2, <1>3, <1>4, SeedLeaves
  DEF Next, Administer, SetPersonEnabled, ResetExam, AddKey, SetKeyEnabled,
      RemoveKey, CreateTest, DeleteTest, PublishTest, ActivatePublication,
      Connection, Connect, ResolvePolicy, CountAttempts, BeginExam,
      RecordAttempt, Close, personVars, vars

\* Of the steps of a start, two touch tests and publications.
LEMMA SeedPublishes ==
    ASSUME NEW q \in Starts, Seed(q)
    PROVE  \/ UNCHANGED testVars
           \/ CreateLegacy(q)
           \/ \E r \in Revisions : PublishLegacy(q, r)
BY DEF Seed, FindActive, ListTests, ReadBack, Carry, Clear, Stop

\* Publications are never removed and keep their tests, so what refers to a
\* published revision goes on doing so; new references are made to the active
\* revision, or by an exam or a start that already holds one.
LEMMA PublishedStep ==
    ASSUME TypeOK, RevisionsPublished, [Next]_vars
    PROVE  RevisionsPublished'
<1>0. ASSUME NEW s \in Sessions, Connection(s)
      PROVE  UNCHANGED testVars
  BY <1>0 DEF Connection, Connect, ResolvePolicy, CountAttempts, BeginExam,
              RecordAttempt, Close
<1>1. pubs \subseteq pubs'
  BY <1>0, SeedPublishes
  DEF Next, Administer, CreatePerson, UpdatePerson, SetPersonEnabled, DeletePerson,
      ResetExam, AddKey, SetKeyEnabled, RemoveKey, CreateTest, DeleteTest, PublishTest,
      ActivatePublication, CreateLegacy, PublishLegacy, Publication, testVars, vars
<1>2. /\ active' # None => active' \in pubs'
      /\ \A r \in pubs' : TestOf[r] \in tests'
  <2>1. CASE UNCHANGED testVars
    BY <2>1 DEF RevisionsPublished, testVars
  <2>2. ASSUME NEW t \in Tests, CreateTest(t) \/ DeleteTest(t)
        PROVE  <1>2!1 /\ <1>2!2
    BY <2>2 DEF CreateTest, DeleteTest, NeverPublished, RevisionsPublished
  <2>3. ASSUME NEW r \in Revisions, PublishTest(r) \/ ActivatePublication(r)
        PROVE  <1>2!1 /\ <1>2!2
    BY <2>3 DEF PublishTest, Publication, ActivatePublication, RevisionsPublished
  <2>4. ASSUME NEW q \in Starts, CreateLegacy(q)
        PROVE  <1>2!1 /\ <1>2!2
    BY <2>4 DEF CreateLegacy, RevisionsPublished
  <2>5. ASSUME NEW q \in Starts, NEW r \in Revisions, PublishLegacy(q, r)
        PROVE  <1>2!1 /\ <1>2!2
    BY <2>5 DEF PublishLegacy, Publication, RevisionsPublished
  <2> QED
    BY <1>0, <2>1, <2>2, <2>3, <2>4, <2>5, SeedPublishes
    DEF Next, Administer, CreatePerson, UpdatePerson, SetPersonEnabled,
        DeletePerson, ResetExam, AddKey, SetKeyEnabled, RemoveKey, testVars, vars
<1>3. ASSUME NEW e \in Pairs, e \in passes' \/ failed'[e] + won'[e] > 0
      PROVE  e[2] \in pubs'
  <2>1. CASE Kept(e)
    BY <1>1, <1>3, <2>1 DEF Kept, RevisionsPublished
  <2>2. CASE Cleared(e)
    BY <1>3, <2>2 DEF Cleared
  <2>3. ASSUME NEW s \in Sessions, Connection(s), ~Kept(e)
        PROVE  e[2] \in pubs'
    <3>1. PICK ok \in BOOLEAN : RecordAttempt(s, ok)
      BY <2>3
      DEF Connection, Connect, ResolvePolicy, CountAttempts, BeginExam, Close,
          recordVars, Kept
    <3>2. e = <<tui[s].pid, tui[s].rev>>
      BY <2>3, <3>1, RecordAttemptEffect
    <3>3. tui[s].rev \in pubs
      BY <3>1 DEF RecordAttempt, RevisionsPublished, AtExam
    <3> QED BY <1>1, <3>2, <3>3
  <2>4. ASSUME NEW q \in Starts, Seed(q), ~Kept(e)
        PROVE  e[2] \in pubs'
    <3>1. Carry(q) /\ e[2] = start[q].rev
      BY <2>4, SeedRecords
    <3> QED BY <1>1, <3>1 DEF Carry, At, RevisionsPublished
  <2>5. CASE UNCHANGED vars
    BY <2>1, <2>5 DEF vars, recordVars, Kept
  <2> QED BY <2>1, <2>2, <2>3, <2>4, <2>5, AdministerRecords DEF Next
<1>4. ASSUME NEW s \in Sessions, tui'[s].pc \in AtExam
      PROVE  tui'[s].rev \in pubs'
  <2>1. CASE tui'[s] = tui[s]
    BY <1>1, <1>4, <2>1 DEF RevisionsPublished
  <2>2. CASE tui'[s] # tui[s]
    <3>1. PICK c \in Sessions : Connection(c)
      BY <2>2, SeedLeaves
      DEF Next, Administer, CreatePerson, UpdatePerson, SetPersonEnabled,
          DeletePerson, ResetExam, AddKey, SetKeyEnabled, RemoveKey, CreateTest,
          DeleteTest, PublishTest, ActivatePublication, vars
    <3>2. ASSUME NEW u \in Users, NEW f \in Fingerprints, NEW p \in PersonIds,
                 Connect(c, u, f, p)
          PROVE  FALSE
      BY <1>4, <2>2, <3>2 DEF Connect, Idle, AtExam, TypeOK
    <3>3. ASSUME NEW p \in PersonIds, ResolvePolicy(c, p)
          PROVE  tui'[s].rev \in pubs'
      BY <1>1, <2>2, <3>3 DEF ResolvePolicy, Resolves, RevisionsPublished, TypeOK, Session
    <3>4. CASE CountAttempts(c) \/ BeginExam(c) \/ \E ok \in BOOLEAN : RecordAttempt(c, ok)
      <4>1. tui[c].pc \in AtExam /\ s = c
        BY <2>2, <3>4 DEF CountAttempts, BeginExam, RecordAttempt, AtExam, TypeOK
      <4>2. ASSUME CountAttempts(c) PROVE tui'[s].rev = tui[s].rev
        BY <4>1, <4>2 DEF CountAttempts, TypeOK, Session
      <4>3. ASSUME BeginExam(c) PROVE tui'[s].rev = tui[s].rev
        BY <4>1, <4>3 DEF BeginExam, TypeOK, Session
      <4>4. ASSUME NEW ok \in BOOLEAN, RecordAttempt(c, ok)
            PROVE  tui'[s].rev = tui[s].rev
        BY <4>1, <4>4 DEF RecordAttempt, TypeOK, Session
      <4>5. tui'[s].rev = tui[s].rev
        BY <3>4, <4>2, <4>3, <4>4
      <4> QED BY <1>1, <4>1, <4>5 DEF RevisionsPublished
    <3>5. CASE Close(c)
      BY <1>4, <2>2, <3>5 DEF Close, Idle, AtExam, TypeOK
    <3> QED BY <3>1, <3>2, <3>3, <3>4, <3>5 DEF Connection
  <2> QED BY <2>1, <2>2
<1>5. ASSUME NEW o \in Starts, start'[o].pc \in {"carry", "clear"}
      PROVE  start'[o].rev \in pubs'
  <2>1. CASE start'[o] = start[o]
    BY <1>1, <1>5, <2>1 DEF RevisionsPublished
  <2>2. CASE start'[o] # start[o]
    <3>1. PICK q \in Starts : Seed(q)
      BY <2>2
      DEF Next, Administer, CreatePerson, UpdatePerson, SetPersonEnabled,
          DeletePerson, ResetExam, AddKey, SetKeyEnabled, RemoveKey, CreateTest,
          DeleteTest, PublishTest, ActivatePublication, Connection, Connect,
          ResolvePolicy, CountAttempts, BeginExam, RecordAttempt, Close, vars
    <3>2. CASE ReadBack(q)
      <4>1. start'[o].rev = active
        BY <2>2, <3>2 DEF ReadBack, Goto, TypeOK
      <4> QED BY <1>1, <3>2, <4>1 DEF ReadBack, RevisionsPublished
    <3>3. CASE Carry(q)
      <4>1. o = q /\ start'[o].rev = start[q].rev /\ start[q].pc = "carry"
        BY <2>2, <3>3 DEF Carry, At, GoOn, Goto, TypeOK, StartUp
      <4> QED BY <1>1, <4>1 DEF RevisionsPublished
    <3>4. CASE ~ReadBack(q) /\ ~Carry(q)
      <4>1. start'[o].pc \in {"list", "create", "publish", "read", "off"}
        BY <2>2, <3>1, <3>4
        DEF Seed, FindActive, ListTests, CreateLegacy, PublishLegacy, Clear, Stop,
            GoOn, Goto, Off, TypeOK, StartUp
      <4> QED BY <1>5, <4>1
    <3> QED BY <3>2, <3>3, <3>4
  <2> QED BY <2>1, <2>2
<1> QED BY <1>2, <1>3, <1>4, <1>5 DEF RevisionsPublished

\* The safety invariants of the gate hold for any number of people, sessions,
\* starts and revisions, from the database of any earlier version: the attempt
\* limit, one passing attempt per pass that no start carried over, clean free
\* ids, unique accounts and revisions that stay published.
THEOREM GateSafety == Spec => []Safety
<1>1. Init => Safety
  <2> SUFFICES ASSUME Init PROVE Safety
    OBVIOUS
  <2>1. AttemptLimit /\ PassIsOneAttempt
    BY DEF Init, AttemptLimit, PassIsOneAttempt
  <2>2. FreeIdIsClean
    BY DEF Init, FreeIdIsClean
  <2>3. AccountUnique
    BY DEF Init, AccountUnique
  <2>4. RevisionsPublished
    BY DEF Init, RevisionsPublished, Idle, Off, AtExam
  <2> QED BY <2>1, <2>2, <2>3, <2>4 DEF Safety
<1>2. TypeOK /\ Safety /\ [Next]_vars => Safety'
  BY RecordInvariants, FreeIdStep, AccountStep, PublishedStep DEF Safety
<1> QED BY <1>1, <1>2, TypeCorrect, PTL DEF Spec

\* However many sessions run at once, no revision's attempt limit is exceeded.
THEOREM AttemptLimitHolds == Spec => []AttemptLimit
BY GateSafety, PTL DEF Safety

\* A pass row that no start carried over stands for exactly one stored passing
\* attempt, and a passing attempt for a pass row that no start carried over.
THEOREM PassIsOneAttemptHolds == Spec => []PassIsOneAttempt
BY GateSafety, PTL DEF Safety

\* A row id that is given out again brings nothing of its former person along.
THEOREM FreeIdIsCleanHolds == Spec => []FreeIdIsClean
BY GateSafety, PTL DEF Safety

\* One Unix account never leads to two people.
THEOREM AccountUniqueHolds == Spec => []AccountUnique
BY GateSafety, PTL DEF Safety

\* What refers to a revision refers to a published one.
THEOREM RevisionsPublishedHolds == Spec => []RevisionsPublished
BY GateSafety, PTL DEF Safety

-----------------------------------------------------------------------------
(* What no step does.                                                      *)

\* Once a person has passed a revision, no open session adds an attempt.
THEOREM NoAttemptAfterPassHolds == Spec => NoAttemptAfterPass
<1> DEFINE Frozen == \A e \in Pairs : e \in passes =>
                       failed'[e] <= failed[e] /\ won'[e] <= won[e]
<1>1. TypeOK /\ [Next]_vars => [Frozen]_vars
  <2> SUFFICES ASSUME TypeOK, [Next]_vars, NEW e \in Pairs, e \in passes
               PROVE  failed'[e] <= failed[e] /\ won'[e] <= won[e]
    OBVIOUS
  <2>1. failed[e] \in Nat /\ won[e] \in Nat
    BY DEF TypeOK
  <2>2. Kept(e) \/ Cleared(e)
    BY RecordsStep DEF Recorded, Brought
  <2> QED BY <2>1, <2>2 DEF Kept, Cleared
<1>2. Spec => [][Frozen]_vars
  BY <1>1, TypeCorrect, PTL DEF Spec
<1> QED BY <1>2 DEF NoAttemptAfterPass

\* A pass goes only with its person or by a reset while its revision is active.
THEOREM PassKeptHolds == Spec => PassKept
<1> DEFINE Stays == \A e \in passes \ passes' : e[1] \notin people' \/ e[2] = active
<1>1. TypeOK /\ Safety /\ [Next]_vars => [Stays]_vars
  <2> SUFFICES ASSUME TypeOK, Safety, [Next]_vars, NEW e \in passes \ passes'
               PROVE  e[1] \notin people' \/ e[2] = active
    OBVIOUS
  <2>1. e \in Pairs /\ ~Kept(e)
    BY DEF TypeOK, Kept
  <2>2. ASSUME NEW p \in PersonIds, DeletePerson(p)
        PROVE  e[1] \notin people'
    BY <2>1, <2>2 DEF DeletePerson, Erase
  <2>3. ASSUME NEW p \in PersonIds, ResetExam(p)
        PROVE  e[2] = active
    BY <2>1, <2>3 DEF ResetExam, Erase
  <2>4. ASSUME NEW t \in Tests, DeleteTest(t)
        PROVE  FALSE
    BY <2>1, <2>4 DEF DeleteTest, Erase, NeverPublished, Safety, RevisionsPublished
  <2>5. ASSUME NEW s \in Sessions, Connection(s)
        PROVE  FALSE
    BY <2>5
    DEF Connection, Connect, ResolvePolicy, CountAttempts, BeginExam,
        RecordAttempt, Close, recordVars
  <2>6. ASSUME NEW q \in Starts, Seed(q)
        PROVE  FALSE
    BY <2>1, <2>6, SeedRecords DEF Brought
  <2> QED
    BY <2>2, <2>3, <2>4, <2>5, <2>6
    DEF Next, Administer, CreatePerson, UpdatePerson, SetPersonEnabled, AddKey,
        SetKeyEnabled, RemoveKey, CreateTest, PublishTest, ActivatePublication,
        recordVars, vars
<1>2. Spec => [][Stays]_vars
  BY <1>1, TypeCorrect, GateSafety, PTL DEF Spec
<1> QED BY <1>2 DEF PassKept

\* A shell needs a stored passing attempt at the revision active right then, or
\* a pass that a start carried to it.
THEOREM ShellNeedsCurrentPassHolds == Spec => ShellNeedsCurrentPass
<1> DEFINE Grant(s) == /\ tui'[s].pid \in personOn
                       /\ owner[tui'[s].fp] = tui'[s].pid
                       /\ tui'[s].fp \in keyOn
                       /\ account[tui'[s].pid] = tui'[s].user
                       /\ active \in pubs
                       /\ \/ won[<<tui'[s].pid, active>>] = 1
                          \/ <<tui'[s].pid, active>> \in carried
           Shells == \A s \in Sessions :
                       tui[s].pc # "shell" /\ tui'[s].pc = "shell" => Grant(s)
<1>1. TypeOK /\ Safety /\ [Next]_vars => [Shells]_vars
  <2> SUFFICES ASSUME TypeOK, Safety, [Next]_vars, NEW s \in Sessions,
                      tui[s].pc # "shell", tui'[s].pc = "shell"
               PROVE  Grant(s)
    OBVIOUS
  <2>1. PICK c \in Sessions : Connection(c)
    BY SeedLeaves
    DEF Next, Administer, CreatePerson, UpdatePerson, SetPersonEnabled,
           DeletePerson, ResetExam, AddKey, SetKeyEnabled, RemoveKey, CreateTest,
           DeleteTest, PublishTest, ActivatePublication, vars
  <2>2. ASSUME NEW u \in Users, NEW f \in Fingerprints, NEW p \in PersonIds,
               Connect(c, u, f, p)
        PROVE  Grant(s)
    <3>1. HasPass(p) /\ Resolves(u, f, p)
      BY <2>2 DEF Connect, Idle, TypeOK
    <3>2. tui'[s].pid = p /\ tui'[s].fp = f /\ tui'[s].user = u
      BY <2>2, <3>1 DEF Connect, Idle, TypeOK
    <3>3. active \in pubs /\ <<p, active>> \in Pairs
      BY <3>1 DEF Resolves, TypeOK, Safety, RevisionsPublished
    <3>4. won[<<p, active>>] = 1 \/ <<p, active>> \in carried
      BY <3>1, <3>3 DEF HasPass, Safety, PassIsOneAttempt
    <3> QED BY <3>1, <3>2, <3>3, <3>4 DEF Resolves
  <2>3. CASE Close(c)
    BY <2>3 DEF Close, Idle, TypeOK
  <2>4. ASSUME NEW p \in PersonIds, ResolvePolicy(c, p)
        PROVE  FALSE
    BY <2>4 DEF ResolvePolicy, TypeOK, Session
  <2>5. ASSUME CountAttempts(c)
        PROVE  FALSE
    BY <2>5 DEF CountAttempts, TypeOK, Session
  <2>6. ASSUME BeginExam(c)
        PROVE  FALSE
    BY <2>6 DEF BeginExam, TypeOK, Session
  <2>7. ASSUME NEW ok \in BOOLEAN, RecordAttempt(c, ok)
        PROVE  FALSE
    BY <2>7 DEF RecordAttempt, TypeOK, Session
  <2> QED BY <2>1, <2>2, <2>3, <2>4, <2>5, <2>6, <2>7 DEF Connection
<1>2. Spec => [][Shells]_vars
  BY <1>1, TypeCorrect, GateSafety, PTL DEF Spec
<1> QED BY <1>2 DEF ShellNeedsCurrentPass

-----------------------------------------------------------------------------
(* ExamGate keeps what Gate promises.                                      *)

\* Once anything is published, something is active (publish_test does both in
\* one transaction, and nothing takes the active row away).
PublishedActive == pubs # {} => active # None

LEMMA PublishedActiveAlways == Spec => []PublishedActive
<1>1. Init => PublishedActive
  BY DEF Init, PublishedActive
<1>2. PublishedActive /\ [Next]_vars => PublishedActive'
  <2> SUFFICES ASSUME PublishedActive, [Next]_vars PROVE PublishedActive'
    OBVIOUS
  <2>1. ASSUME NEW r \in Revisions, PublishTest(r) \/ ActivatePublication(r)
        PROVE  PublishedActive'
    BY <2>1 DEF PublishTest, Publication, ActivatePublication, PublishedActive
  <2>2. ASSUME UNCHANGED <<pubs, active>>
        PROVE  PublishedActive'
    BY <2>2 DEF PublishedActive
  <2>3. ASSUME NEW s \in Sessions, Connection(s)
        PROVE  UNCHANGED <<pubs, active>>
    BY <2>3 DEF Connection, Connect, ResolvePolicy, CountAttempts, BeginExam,
                RecordAttempt, Close, testVars
  <2>4. ASSUME NEW q \in Starts, Seed(q)
        PROVE  PublishedActive'
    BY <2>2, <2>4, SeedPublishes
    DEF CreateLegacy, PublishLegacy, Publication, PublishedActive, testVars
  <2> QED
    BY <2>1, <2>2, <2>3, <2>4
    DEF Next, Administer, CreatePerson, UpdatePerson, SetPersonEnabled, DeletePerson,
        ResetExam, AddKey, SetKeyEnabled, RemoveKey, CreateTest, DeleteTest, testVars, vars
<1> QED BY <1>1, <1>2, PTL DEF Spec

\* What a start is about to clear it has carried: whoever has a passed_at still
\* has the pass.  DeletePerson and ResetExam take both.
CarriedFirst ==
    \A q \in Starts : start[q].pc = "clear" => passedAt \X {start[q].rev} \subseteq passes

LEMMA CarriedFirstStep ==
    ASSUME TypeOK, RevisionsPublished, CarriedFirst, [Next]_vars
    PROVE  CarriedFirst'
<1>1. ASSUME passes \subseteq passes', passedAt' \subseteq passedAt, UNCHANGED start
      PROVE  CarriedFirst'
  BY <1>1 DEF CarriedFirst
<1>2. ASSUME NEW p \in PersonIds, DeletePerson(p)
      PROVE  CarriedFirst'
  <2>1. /\ passes' = passes \ {e \in Pairs : e[1] = p}
        /\ passedAt' = passedAt \ {p} /\ start' = start
    BY <1>2 DEF DeletePerson, Erase
  <2> QED BY <2>1 DEF CarriedFirst
<1>3. ASSUME NEW p \in PersonIds, ResetExam(p)
      PROVE  CarriedFirst'
  <2>1. passes' = passes \ {<<p, active>>} /\ passedAt' = passedAt \ {p} /\ start' = start
    BY <1>3 DEF ResetExam, Erase
  <2> QED BY <2>1 DEF CarriedFirst
<1>4. ASSUME NEW t \in Tests, DeleteTest(t)
      PROVE  CarriedFirst'
  <2>1. /\ passes' = passes \ {e \in Pairs : TestOf[e[2]] = t}
        /\ passedAt' = passedAt /\ start' = start
    BY <1>4 DEF DeleteTest, Erase
  <2>2. \A q \in Starts : start[q].pc = "clear" => TestOf[start[q].rev] # t
    BY <1>4 DEF DeleteTest, NeverPublished, RevisionsPublished
  <2> QED BY <2>1, <2>2 DEF CarriedFirst
<1>5. CASE Administer
  BY <1>1, <1>2, <1>3, <1>4, <1>5
  DEF Administer, CreatePerson, UpdatePerson, SetPersonEnabled, AddKey, SetKeyEnabled,
      RemoveKey, CreateTest, PublishTest, ActivatePublication, recordVars
<1>6. ASSUME NEW s \in Sessions, Connection(s)
      PROVE  CarriedFirst'
  <2>1. passes \subseteq passes' /\ passedAt' = passedAt /\ start' = start
    BY <1>6 DEF Connection, Connect, ResolvePolicy, CountAttempts, BeginExam, RecordAttempt,
                Close, recordVars
  <2> QED BY <1>1, <2>1
<1>7. ASSUME NEW q \in Starts, Seed(q)
      PROVE  CarriedFirst'
  <2>1. CASE Carry(q)
    <3>1. /\ passes' = passes \cup (passedAt \X {start[q].rev}) /\ passedAt' = passedAt
          /\ start' = [start EXCEPT ![q] = [start[q] EXCEPT !.pc = "clear"]]
      BY <2>1 DEF Carry, GoOn, Goto
    <3>2. start'[q].rev = start[q].rev /\ \A o \in Starts \ {q} : start'[o] = start[o]
      BY <3>1 DEF TypeOK, StartUp
    <3> QED BY <3>1, <3>2 DEF CarriedFirst
  <2>2. CASE Clear(q)
    BY <2>2 DEF Clear, CarriedFirst
  <2>3. CASE ~Carry(q) /\ ~Clear(q)
    <3>1. passes' = passes /\ passedAt' = passedAt
      BY <1>7, <2>3
      DEF Seed, FindActive, ListTests, CreateLegacy, PublishLegacy, ReadBack, Stop,
          recordVars
    <3>2. start'[q].pc # "clear" /\ \A o \in Starts \ {q} : start'[o] = start[o]
      BY <1>7, <2>3
      DEF Seed, FindActive, ListTests, CreateLegacy, PublishLegacy, ReadBack, Stop, GoOn,
          Goto, Off, TypeOK, StartUp
    <3> QED BY <3>1, <3>2 DEF CarriedFirst
  <2> QED BY <2>1, <2>2, <2>3
<1>8. CASE UNCHANGED vars
  BY <1>1, <1>8 DEF vars, recordVars
<1> QED BY <1>5, <1>6, <1>7, <1>8 DEF Next

LEMMA CarriedFirstAlways == Spec => []CarriedFirst
<1>1. Init => CarriedFirst
  BY DEF Init, CarriedFirst, Off
<1>2. TypeOK /\ Safety /\ CarriedFirst /\ [Next]_vars => CarriedFirst'
  BY CarriedFirstStep DEF Safety
<1> QED BY <1>1, <1>2, TypeCorrect, GateSafety, PTL DEF Spec

\* A step that leaves the records, the active revision and the shells alone is
\* no step of Gate.
Unseen == UNCHANGED <<active, failed, won, passes, passedAt, tui>>

LEMMA UnseenStutters ==
    ASSUME Unseen
    PROVE  UNCHANGED Promised!vars
BY DEF Unseen, Promised!vars, Used, Admitted

\* Neither is a step of one connection that neither opens nor closes a shell.
LEMMA SessionStutters ==
    ASSUME TypeOK, NEW s \in Sessions, NEW x,
           tui' = [tui EXCEPT ![s] = x], tui[s].pc # "shell", x.pc # "shell"
    PROVE  Admitted' = Admitted
<1>1. \A c \in Sessions : tui'[c].pc = "shell" <=> tui[c].pc = "shell"
  BY DEF TypeOK
<1>2. \A c \in Sessions : tui[c].pc = "shell" => tui'[c] = tui[c]
  BY DEF TypeOK
<1> QED BY <1>1, <1>2 DEF Admitted

\* Every administration operation is a step of Gate or none.
LEMMA AdministerPromised ==
    ASSUME TypeOK, Safety, Administer
    PROVE  [Promised!Next]_(Promised!vars)
<1>1. ASSUME NEW p \in PersonIds, DeletePerson(p)
      PROVE  Promised!Forget(p)
  <2>1. Used' = [e \in DOMAIN Used |-> IF e[1] = p THEN 0 ELSE Used[e]]
    BY <1>1 DEF DeletePerson, Erase, Used
  <2>2. Admitted' = Admitted
    BY <1>1 DEF DeletePerson, Admitted
  <2>3. passes' = {e \in passes : e[1] # p}
    BY <1>1 DEF DeletePerson, Erase, TypeOK
  <2> QED BY <1>1, <2>1, <2>2, <2>3 DEF DeletePerson, Promised!Forget, testVars
<1>2. ASSUME NEW p \in PersonIds, ResetExam(p)
      PROVE  Promised!Reset(p)
  <2>1. Used' = [e \in DOMAIN Used |-> IF e = <<p, active>> THEN 0 ELSE Used[e]]
    BY <1>2 DEF ResetExam, Erase, Used
  <2>2. Admitted' = Admitted
    BY <1>2 DEF ResetExam, Admitted
  <2> QED BY <1>2, <2>1, <2>2 DEF ResetExam, Erase, Promised!Reset, testVars
<1>3. ASSUME NEW r \in Revisions, PublishTest(r) \/ ActivatePublication(r)
      PROVE  Promised!Activate(r)
  BY <1>3 DEF PublishTest, Publication, ActivatePublication, Promised!Activate, recordVars,
              Used, Admitted
<1>4. ASSUME NEW t \in Tests, DeleteTest(t)
      PROVE  UNCHANGED Promised!vars
  <2>1. ASSUME NEW e \in Pairs, TestOf[e[2]] = t
        PROVE  e \notin passes /\ failed[e] = 0 /\ won[e] = 0
    <3>1. e[2] \notin pubs
      BY <1>4, <2>1 DEF DeleteTest, NeverPublished
    <3>2. e \notin passes /\ ~(failed[e] + won[e] > 0)
      BY <3>1 DEF Safety, RevisionsPublished
    <3>3. failed[e] \in Nat /\ won[e] \in Nat
      BY DEF TypeOK
    <3> QED BY <3>2, <3>3
  <2>2. passes' = passes
    BY <1>4, <2>1 DEF DeleteTest, Erase, TypeOK
  <2>3. \A e \in Pairs : failed'[e] = failed[e] /\ won'[e] = won[e]
    BY <1>4, <2>1 DEF DeleteTest, Erase
  <2>4. Used' = Used
    BY <2>3 DEF Used
  <2>5. UNCHANGED <<active, Admitted, passedAt>>
    BY <1>4 DEF DeleteTest, Admitted
  <2> QED BY <2>2, <2>4, <2>5 DEF Promised!vars
<1>5. Unseen \/ \/ \E p \in PersonIds : DeletePerson(p) \/ ResetExam(p)
                \/ \E r \in Revisions : PublishTest(r) \/ ActivatePublication(r)
                \/ \E t \in Tests : DeleteTest(t)
  BY DEF Administer, Unseen, CreatePerson, UpdatePerson, SetPersonEnabled, AddKey,
         SetKeyEnabled, RemoveKey, CreateTest, testVars, recordVars
<1>6. \A p \in PersonIds : Promised!Forget(p) \/ Promised!Reset(p) => Promised!Next
  BY DEF Promised!Next
<1>7. \A r \in Revisions : Promised!Activate(r) => Promised!Next
  BY DEF Promised!Next
<1> QED BY <1>1, <1>2, <1>3, <1>4, <1>5, <1>6, <1>7, UnseenStutters

\* record_attempt is an attempt within the limit, and before any pass.
LEMMA AttemptPromised ==
    ASSUME TypeOK, Safety, PublishedActive,
           NEW s \in Sessions, NEW ok \in BOOLEAN, RecordAttempt(s, ok)
    PROVE  Promised!Attempt(tui[s].pid, tui[s].rev, ok)
<1> DEFINE e == <<tui[s].pid, tui[s].rev>>
<1>1. e \in Pairs /\ tui[s].rev \in pubs
  BY DEF RecordAttempt, TypeOK, AtExam, Safety, RevisionsPublished
<1>2. active # None
  BY <1>1 DEF PublishedActive
<1>3. e \notin passes /\ Used[e] < MaxAttempts[tui[s].rev]
  BY <1>1 DEF RecordAttempt, MayRecord, Used
<1>4. Used' = [Used EXCEPT ![e] = @ + 1]
  <2>1. failed \in [Pairs -> Nat] /\ won \in [Pairs -> Nat]
    BY DEF TypeOK
  <2>2. \A d \in Pairs : failed'[d] + won'[d] =
                           IF d = e THEN failed[d] + won[d] + 1 ELSE failed[d] + won[d]
    <3>1. \/ won' = [won EXCEPT ![e] = @ + 1] /\ failed' = failed
          \/ failed' = [failed EXCEPT ![e] = @ + 1] /\ won' = won
      BY DEF RecordAttempt
    <3> HIDE DEF e, Pairs
    <3> QED BY <1>1, <2>1, <3>1
  <2> QED BY <1>1, <2>2 DEF Used
<1>5. passes' = IF ok THEN passes \cup {e} ELSE passes
  BY DEF RecordAttempt
<1>6. Admitted' = Admitted
  <2>1. tui' = [tui EXCEPT ![s] = [tui[s] EXCEPT !.pc = "result"]]
    BY DEF RecordAttempt
  <2>2. tui[s].pc # "shell" /\ [tui[s] EXCEPT !.pc = "result"].pc # "shell"
    BY DEF RecordAttempt, TypeOK, Session
  <2> QED BY <2>1, <2>2, SessionStutters
<1>7. active' = active /\ passedAt' = passedAt
  BY DEF RecordAttempt, testVars
<1> QED BY <1>2, <1>3, <1>4, <1>5, <1>6, <1>7 DEF Promised!Attempt

\* Every step of a connection is a step of Gate or none.
LEMMA ConnectionPromised ==
    ASSUME TypeOK, Safety, PublishedActive, NEW s \in Sessions, Connection(s)
    PROVE  [Promised!Next]_(Promised!vars)
<1>1. ASSUME UNCHANGED <<active, failed, won, passes, passedAt>>, Admitted' = Admitted
      PROVE  UNCHANGED Promised!vars
  BY <1>1 DEF Promised!vars, Used
<1>2. ASSUME NEW u \in Users, NEW f \in Fingerprints, NEW p \in PersonIds,
             Connect(s, u, f, p), HasPass(p)
      PROVE  Promised!Admit(s, p)
  <2>1. tui'[s].pc = "shell" /\ tui'[s].pid = p
    BY <1>2 DEF Connect, Idle, TypeOK
  <2>2. \A c \in Sessions \ {s} : tui'[c] = tui[c]
    BY <1>2 DEF Connect, TypeOK
  <2>3. Admitted[s] = 0
    BY <1>2 DEF Connect, Admitted
  <2>4. \A c \in Sessions : Admitted'[c] = IF c = s THEN p ELSE Admitted[c]
    BY <2>1, <2>2 DEF Admitted
  <2>5. Admitted' = [Admitted EXCEPT ![s] = p]
    BY <2>4 DEF Admitted
  <2>6. UNCHANGED <<active, Used, passes, passedAt>>
    BY <1>2 DEF Connect, testVars, recordVars, Used
  <2> QED BY <1>2, <2>3, <2>5, <2>6 DEF HasPass, Promised!Admit
<1>3. ASSUME NEW u \in Users, NEW f \in Fingerprints, NEW p \in PersonIds,
             Connect(s, u, f, p), ~HasPass(p)
      PROVE  UNCHANGED Promised!vars
  <2> DEFINE x == [Idle EXCEPT !.pc = "started", !.user = u, !.fp = f]
  <2>1. tui' = [tui EXCEPT ![s] = x] /\ tui[s].pc # "shell" /\ x.pc # "shell"
    BY <1>3 DEF Connect, Idle
  <2>2. Admitted' = Admitted
    BY <2>1, SessionStutters
  <2> QED BY <1>1, <1>3, <2>2 DEF Connect, testVars, recordVars
<1>4. ASSUME NEW p \in PersonIds, ResolvePolicy(s, p)
      PROVE  UNCHANGED Promised!vars
  <2> DEFINE x == [tui[s] EXCEPT !.pc = "resolved", !.pid = p, !.rev = active,
                                 !.passed = HasPass(p)]
  <2>1. tui' = [tui EXCEPT ![s] = x] /\ tui[s].pc # "shell" /\ x.pc # "shell"
    BY <1>4 DEF ResolvePolicy, TypeOK, Session
  <2>2. Admitted' = Admitted
    BY <2>1, SessionStutters
  <2> QED BY <1>1, <1>4, <2>2 DEF ResolvePolicy, testVars, recordVars
<1>5. ASSUME CountAttempts(s)
      PROVE  UNCHANGED Promised!vars
  <2> DEFINE e == <<tui[s].pid, tui[s].rev>>
             x == [tui[s] EXCEPT !.pc = "identified", !.human = human[tui[s].pid],
                                 !.count = failed[e] + won[e]]
  <2>1. tui' = [tui EXCEPT ![s] = x] /\ tui[s].pc # "shell" /\ x.pc # "shell"
    BY <1>5 DEF CountAttempts, TypeOK, Session
  <2>2. Admitted' = Admitted
    BY <2>1, SessionStutters
  <2> QED BY <1>1, <1>5, <2>2 DEF CountAttempts, testVars, recordVars
<1>6. ASSUME BeginExam(s)
      PROVE  UNCHANGED Promised!vars
  <2> DEFINE x == [tui[s] EXCEPT !.pc = "exam"]
  <2>1. tui' = [tui EXCEPT ![s] = x] /\ tui[s].pc # "shell" /\ x.pc # "shell"
    BY <1>6 DEF BeginExam, TypeOK, Session
  <2>2. Admitted' = Admitted
    BY <2>1, SessionStutters
  <2> QED BY <1>1, <1>6, <2>2 DEF BeginExam, testVars, recordVars
<1>7. ASSUME NEW ok \in BOOLEAN, RecordAttempt(s, ok)
      PROVE  Promised!Next
  <2>1. tui[s].pid \in PersonIds /\ tui[s].rev \in Revisions
    BY <1>7 DEF RecordAttempt, TypeOK, AtExam
  <2> QED BY <1>7, <2>1, AttemptPromised DEF Promised!Next
<1>8. ASSUME Close(s)
      PROVE  Promised!Leave(s)
  <2>1. tui'[s].pc # "shell"
    BY <1>8 DEF Close, Idle, TypeOK
  <2>2. \A c \in Sessions \ {s} : tui'[c] = tui[c]
    BY <1>8 DEF Close, TypeOK
  <2>3. Admitted' = [Admitted EXCEPT ![s] = 0]
    BY <2>1, <2>2 DEF Admitted
  <2>4. UNCHANGED <<active, Used, passes, passedAt>>
    BY <1>8 DEF Close, testVars, recordVars, Used
  <2> QED BY <2>3, <2>4 DEF Promised!Leave
<1>9. /\ \A p \in PersonIds : Promised!Admit(s, p) => Promised!Next
      /\ Promised!Leave(s) => Promised!Next
  BY DEF Promised!Next
<1> QED BY <1>2, <1>3, <1>4, <1>5, <1>6, <1>7, <1>8, <1>9 DEF Connection

\* Publishing is Activate, carrying is Recognise and clearing is Settle; the
\* other calls of a start are no step of Gate.
LEMMA SeedPromised ==
    ASSUME TypeOK, Safety, PublishedActive, CarriedFirst, NEW q \in Starts, Seed(q)
    PROVE  [Promised!Next]_(Promised!vars)
<1>1. UNCHANGED <<failed, won, tui>>
  BY SeedLeaves
<1>2. Used' = Used /\ Admitted' = Admitted
  BY <1>1 DEF Used, Admitted
<1>3. ASSUME NEW r \in Revisions, PublishLegacy(q, r)
      PROVE  Promised!Activate(r)
  BY <1>2, <1>3 DEF PublishLegacy, Publication, Promised!Activate, recordVars
<1>4. ASSUME Carry(q)
      PROVE  start[q].rev \in Revisions /\ Promised!Recognise(start[q].rev)
  <2>1. start[q].rev \in pubs /\ start[q].rev \in Revisions
    BY <1>4 DEF Carry, At, TypeOK, Safety, RevisionsPublished
  <2>2. active # None
    BY <2>1 DEF PublishedActive
  <2> QED BY <1>2, <1>4, <2>1, <2>2 DEF Carry, Promised!Recognise, testVars
<1>5. ASSUME Clear(q)
      PROVE  Promised!Settle
  <2>1. start[q].rev \in Revisions /\ passedAt \X {start[q].rev} \subseteq passes
    BY <1>5 DEF Clear, At, TypeOK, CarriedFirst
  <2>2. \A p \in passedAt : \E r \in Revisions : <<p, r>> \in passes
    BY <2>1
  <2> QED BY <1>2, <1>5, <2>2 DEF Clear, Promised!Settle, testVars
<1>6. \/ Unseen \/ Carry(q) \/ Clear(q)
      \/ \E r \in Revisions : PublishLegacy(q, r)
  BY <1>1
  DEF Seed, Unseen, FindActive, ListTests, CreateLegacy, ReadBack, Stop, testVars, recordVars
<1>7. /\ \A r \in Revisions : Promised!Activate(r) \/ Promised!Recognise(r) => Promised!Next
      /\ Promised!Settle => Promised!Next
  BY DEF Promised!Next
<1> QED BY <1>3, <1>4, <1>5, <1>6, <1>7, UnseenStutters

\* For any number of people, revisions, connections and starts, from the
\* database of any earlier version: every behaviour of the database, the policy,
\* the sessions and the starts is a behaviour of Gate.
THEOREM GateImplemented == Spec => KeepsPromise
<1>1. Init => Promised!Init
  BY DEF Init, Promised!Init, Used, Admitted, Idle
<1>2. TypeOK /\ Safety /\ PublishedActive /\ CarriedFirst /\ [Next]_vars
        => [Promised!Next]_(Promised!vars)
  <2> SUFFICES ASSUME TypeOK, Safety, PublishedActive, CarriedFirst, [Next]_vars
               PROVE  [Promised!Next]_(Promised!vars)
    OBVIOUS
  <2>1. CASE UNCHANGED vars
    BY <2>1, UnseenStutters DEF Unseen, vars, testVars, recordVars
  <2> QED BY <2>1, AdministerPromised, ConnectionPromised, SeedPromised DEF Next
<1> QED
  BY <1>1, <1>2, TypeCorrect, GateSafety, PublishedActiveAlways, CarriedFirstAlways, PTL
  DEF Spec, KeepsPromise, Promised!Spec

-----------------------------------------------------------------------------
(* What Gate promises is enough: the limit follows from it alone.          *)

PromiseInv ==
    /\ Used \in [Pairs -> Nat]
    /\ passes \subseteq Pairs
    /\ \A e \in Pairs : Used[e] <= MaxAttempts[e[2]]
    /\ passedAt \subseteq PersonIds

LEMMA PromiseStep ==
    ASSUME PromiseInv, [Promised!Next]_(Promised!vars)
    PROVE  PromiseInv'
<1>m. \A r \in Revisions : MaxAttempts[r] \in Nat
  BY MaxAttemptsAssumption
<1>1. ASSUME NEW p \in PersonIds, NEW r \in Revisions, NEW ok \in BOOLEAN,
             Promised!Attempt(p, r, ok)
      PROVE  PromiseInv'
  <2> DEFINE d == <<p, r>>
  <2>1. d \in Pairs /\ d[2] = r
    BY DEF Pairs
  <2>2. Used' = [Used EXCEPT ![d] = @ + 1] /\ Used[d] < MaxAttempts[d[2]]
    BY <1>1, <2>1 DEF Promised!Attempt
  <2>3. passes' \in {passes, passes \cup {d}}
    BY <1>1 DEF Promised!Attempt
  <2>4. \A e \in Pairs : Used'[e] = IF e = d THEN Used[e] + 1 ELSE Used[e]
    BY <2>1, <2>2 DEF PromiseInv
  <2>5. Used' \in [Pairs -> Nat]
    BY <2>1, <2>2 DEF PromiseInv
  <2>6. \A e \in Pairs : MaxAttempts[e[2]] \in Nat
    BY <1>m DEF Pairs
  <2> HIDE DEF d
  <2>7. \A e \in Pairs : Used'[e] <= MaxAttempts[e[2]]
    BY <2>2, <2>4, <2>6 DEF PromiseInv
  <2>8. passes' \subseteq Pairs /\ passedAt' \subseteq PersonIds
    BY <1>1, <2>1, <2>3 DEF PromiseInv, Promised!Attempt
  <2> QED BY <2>5, <2>7, <2>8 DEF PromiseInv
<1>2. ASSUME NEW gone, Used' = [e \in Pairs |-> IF e \in gone THEN 0 ELSE Used[e]],
             passes' = passes \ gone, passedAt' \subseteq passedAt
      PROVE  PromiseInv'
  <2>1. \A e \in Pairs : MaxAttempts[e[2]] \in Nat
    BY <1>m DEF Pairs
  <2> QED BY <1>2, <2>1 DEF PromiseInv
<1>3. ASSUME NEW p \in PersonIds, Promised!Reset(p) PROVE PromiseInv'
  <2> DEFINE gone == {e \in Pairs : e = <<p, active>>}
  <2>1. Used' = [e \in Pairs |-> IF e \in gone THEN 0 ELSE Used[e]]
    BY <1>3 DEF Promised!Reset, PromiseInv
  <2>2. passes' = passes \ gone
    BY <1>3 DEF Promised!Reset, PromiseInv
  <2>3. passedAt' \subseteq passedAt
    BY <1>3 DEF Promised!Reset
  <2> HIDE DEF gone
  <2> QED BY <1>2, <2>1, <2>2, <2>3
<1>4. ASSUME NEW p \in PersonIds, Promised!Forget(p) PROVE PromiseInv'
  <2> DEFINE gone == {e \in Pairs : e[1] = p}
  <2>1. Used' = [e \in Pairs |-> IF e \in gone THEN 0 ELSE Used[e]]
    BY <1>4 DEF Promised!Forget, PromiseInv
  <2>2. passes' = passes \ gone
    BY <1>4 DEF Promised!Forget, PromiseInv
  <2>3. passedAt' \subseteq passedAt
    BY <1>4 DEF Promised!Forget
  <2> HIDE DEF gone
  <2> QED BY <1>2, <2>1, <2>2, <2>3
<1>5. CASE UNCHANGED <<Used, passes, passedAt>>
  BY <1>5 DEF PromiseInv
<1>6. ASSUME NEW r \in Revisions, Promised!Recognise(r) PROVE PromiseInv'
  BY <1>6 DEF PromiseInv, Promised!Recognise
<1>7. CASE Promised!Settle
  BY <1>7 DEF PromiseInv, Promised!Settle
<1> QED
  BY <1>1, <1>3, <1>4, <1>5, <1>6, <1>7
  DEF Promised!Next, Promised!vars, Promised!Activate, Promised!Admit, Promised!Leave

\* A step of Gate adds an attempt only where there is no pass, and a pass only
\* with an attempt, or to somebody who had passed before.
Earned ==
    /\ \A e \in passes : Used'[e] <= Used[e]
    /\ \A e \in passes' \ passes : Used'[e] = Used[e] + 1 \/ e[1] \in passedAt

LEMMA PromiseEarned ==
    ASSUME PromiseInv, [Promised!Next]_(Promised!vars)
    PROVE  Earned
<1>0. passes \subseteq Pairs /\ \A e \in Pairs : Used[e] \in Nat
  BY DEF PromiseInv
<1>1. ASSUME NEW p \in PersonIds, NEW r \in Revisions, NEW ok \in BOOLEAN,
             Promised!Attempt(p, r, ok)
      PROVE  Earned
  <2> DEFINE d == <<p, r>>
  <2>1. d \in Pairs
    BY DEF Pairs
  <2>2. Used' = [Used EXCEPT ![d] = @ + 1] /\ d \notin passes
    BY <1>1 DEF Promised!Attempt
  <2>3. passes' \in {passes, passes \cup {d}}
    BY <1>1 DEF Promised!Attempt
  <2>4. \A e \in Pairs : Used'[e] = IF e = d THEN Used[e] + 1 ELSE Used[e]
    BY <2>1, <2>2 DEF PromiseInv
  <2> HIDE DEF d
  <2> QED BY <1>0, <2>1, <2>2, <2>3, <2>4 DEF Earned
<1>2. ASSUME NEW r \in Revisions, Promised!Recognise(r)
      PROVE  Earned
  <2>1. Used' = Used /\ passes' = passes \cup (passedAt \X {r})
    BY <1>2 DEF Promised!Recognise
  <2> QED BY <1>0, <2>1 DEF Earned
<1>3. ASSUME NEW p \in PersonIds, Promised!Reset(p) \/ Promised!Forget(p)
      PROVE  Earned
  <2>1. passes' \subseteq passes /\ \A e \in Pairs : Used'[e] \in {0, Used[e]}
    BY <1>3 DEF Promised!Reset, Promised!Forget, PromiseInv
  <2> QED BY <1>0, <2>1 DEF Earned
<1>4. CASE UNCHANGED <<Used, passes>>
  BY <1>0, <1>4 DEF Earned
<1> QED
  BY <1>1, <1>2, <1>3, <1>4
  DEF Promised!Next, Promised!vars, Promised!Activate, Promised!Settle, Promised!Admit,
      Promised!Leave

\* Whatever keeps what Gate promises keeps everybody within the attempts of a
\* revision, adds no attempt to a pass, and lets nobody pass without an attempt
\* except who had passed before there were revisions.
THEOREM PromiseIsEnough ==
    KeepsPromise => []AttemptLimit /\ [][Earned]_(Promised!vars)
<1>1. Promised!Init => PromiseInv
  <2> SUFFICES ASSUME Promised!Init PROVE PromiseInv
    OBVIOUS
  <2>1. Used = [e \in Pairs |-> 0] /\ passes = {} /\ passedAt \subseteq PersonIds
    BY DEF Promised!Init, Pairs
  <2>2. \A e \in Pairs : MaxAttempts[e[2]] \in Nat
    BY MaxAttemptsAssumption DEF Pairs
  <2> QED BY <2>1, <2>2 DEF PromiseInv
<1>2. PromiseInv => AttemptLimit
  BY DEF PromiseInv, AttemptLimit, Used
<1>3. PromiseInv /\ [Promised!Next]_(Promised!vars) => [Earned]_(Promised!vars)
  BY PromiseEarned
<1> QED BY <1>1, <1>2, <1>3, PromiseStep, PTL DEF KeepsPromise, Promised!Spec

-----------------------------------------------------------------------------
(* Whose attempt it is.  AttemptBelongsToSitter does not hold; this is the  *)
(* one step that breaks it.                                                 *)

\* No one is registered under the row id of an exam that is still open.
NotReused ==
    \A s \in Sessions : tui[s].pc \in {"identified", "exam"} =>
        \A h \in Humans, u \in Users \cup {None} : ~CreatePerson(tui[s].pid, h, u)

\* Then the row of an exam is that of whoever sits it, or is gone.
SitterInv ==
    \A s \in Sessions : tui[s].pc \in {"identified", "exam"} /\ tui[s].pid \in people =>
        human[tui[s].pid] = tui[s].human

LEMMA SitterConnection ==
    ASSUME TypeOK, SitterInv, NEW s \in Sessions, Connection(s)
    PROVE  SitterInv'
<1> DEFINE Mine(x) == x.pc \in {"identified", "exam"} /\ x.pid \in people =>
                        human[x.pid] = x.human
<1>1. ASSUME NEW x, tui' = [tui EXCEPT ![s] = x], Mine(x), UNCHANGED <<people, human>>
      PROVE  SitterInv'
  <2>1. tui'[s] = x /\ \A c \in Sessions \ {s} : tui'[c] = tui[c]
    BY <1>1 DEF TypeOK
  <2> QED BY <1>1, <2>1 DEF SitterInv
<1>2. UNCHANGED <<people, human>>
  BY DEF Connection, Connect, ResolvePolicy, CountAttempts, BeginExam, RecordAttempt,
         Close, personVars
<1>3. tui[s] \in Session /\ Mine(tui[s])
  BY DEF TypeOK, SitterInv
<1>4. ASSUME NEW u \in Users, NEW f \in Fingerprints, NEW p \in PersonIds, Connect(s, u, f, p)
      PROVE  SitterInv'
  <2> DEFINE x == IF HasPass(p)
                    THEN [Idle EXCEPT !.pc = "shell", !.user = u, !.fp = f, !.pid = p]
                    ELSE [Idle EXCEPT !.pc = "started", !.user = u, !.fp = f]
  <2>1. tui' = [tui EXCEPT ![s] = x] /\ x.pc \notin {"identified", "exam"}
    BY <1>4 DEF Connect, Idle
  <2> HIDE DEF x
  <2> QED BY <1>1, <1>2, <2>1
<1>5. ASSUME NEW p \in PersonIds, ResolvePolicy(s, p) PROVE SitterInv'
  <2> DEFINE x == [tui[s] EXCEPT !.pc = "resolved", !.pid = p, !.rev = active,
                                 !.passed = HasPass(p)]
  <2>1. tui' = [tui EXCEPT ![s] = x]
    BY <1>5 DEF ResolvePolicy
  <2>2. x.pc \notin {"identified", "exam"}
    BY <1>3 DEF Session
  <2> HIDE DEF x
  <2> QED BY <1>1, <1>2, <2>1, <2>2
<1>6. ASSUME CountAttempts(s) PROVE SitterInv'
  <2> DEFINE e == <<tui[s].pid, tui[s].rev>>
             x == [tui[s] EXCEPT !.pc = "identified", !.human = human[tui[s].pid],
                                 !.count = failed[e] + won[e]]
  <2>1. tui' = [tui EXCEPT ![s] = x]
    BY <1>6 DEF CountAttempts
  <2>2. x.pid = tui[s].pid /\ x.human = human[tui[s].pid]
    BY <1>3 DEF Session
  <2> HIDE DEF x
  <2> QED BY <1>1, <1>2, <2>1, <2>2
<1>7. ASSUME BeginExam(s) PROVE SitterInv'
  <2> DEFINE x == [tui[s] EXCEPT !.pc = "exam"]
  <2>1. tui' = [tui EXCEPT ![s] = x] /\ tui[s].pc = "identified"
    BY <1>7 DEF BeginExam
  <2>2. x.pid = tui[s].pid /\ x.human = tui[s].human
    BY <1>3 DEF Session
  <2> HIDE DEF x
  <2> QED BY <1>1, <1>2, <1>3, <2>1, <2>2
<1>8. ASSUME NEW ok \in BOOLEAN, RecordAttempt(s, ok) PROVE SitterInv'
  <2> DEFINE x == [tui[s] EXCEPT !.pc = "result"]
  <2>1. tui' = [tui EXCEPT ![s] = x]
    BY <1>8 DEF RecordAttempt
  <2>2. x.pc \notin {"identified", "exam"}
    BY <1>3 DEF Session
  <2> HIDE DEF x
  <2> QED BY <1>1, <1>2, <2>1, <2>2
<1>9. CASE Close(s)
  BY <1>1, <1>2, <1>9 DEF Close, Idle
<1> QED BY <1>4, <1>5, <1>6, <1>7, <1>8, <1>9 DEF Connection

LEMMA SitterStep == TypeOK /\ SitterInv /\ [Next]_vars /\ [NotReused]_vars => SitterInv'
<1> SUFFICES ASSUME TypeOK, SitterInv, [Next]_vars, [NotReused]_vars PROVE SitterInv'
  OBVIOUS
<1>1. ASSUME UNCHANGED <<people, human, tui>> PROVE SitterInv'
  BY <1>1 DEF SitterInv
<1>2. ASSUME NEW p \in PersonIds, DeletePerson(p) PROVE SitterInv'
  <2>1. /\ people' = people \ {p} /\ UNCHANGED tui
        /\ \A q \in PersonIds \ {p} : human'[q] = human[q]
    BY <1>2 DEF DeletePerson, TypeOK
  <2> QED BY <2>1 DEF SitterInv, TypeOK
<1>3. ASSUME NEW p \in PersonIds, NEW h \in Humans, NEW u \in Users \cup {None},
             CreatePerson(p, h, u)
      PROVE  SitterInv'
  <2>1. /\ people' = people \cup {p} /\ p \notin people /\ UNCHANGED tui
        /\ \A q \in PersonIds \ {p} : human'[q] = human[q]
    BY <1>3 DEF CreatePerson, NextRowId, TypeOK
  <2>2. NotReused
    BY <2>1 DEF vars, personVars
  <2>3. \A s \in Sessions : tui[s].pc \in {"identified", "exam"} => tui[s].pid # p
    BY <1>3, <2>2 DEF NotReused
  <2> QED BY <2>1, <2>3 DEF SitterInv, TypeOK
<1>4. CASE UNCHANGED vars
  BY <1>1, <1>4 DEF vars, personVars
<1>5. CASE Administer
  BY <1>1, <1>2, <1>3, <1>5
  DEF Administer, UpdatePerson, SetPersonEnabled, ResetExam, AddKey, SetKeyEnabled, RemoveKey,
      CreateTest, DeleteTest, PublishTest, ActivatePublication, personVars
<1>6. ASSUME NEW q \in Starts, Seed(q) PROVE SitterInv'
  BY <1>1, <1>6, SeedLeaves DEF personVars
<1> QED BY <1>4, <1>5, <1>6, SitterConnection DEF Next

\* An attempt is stored for the human who sat it unless, while the exam is on
\* screen, its row is deleted and somebody else is registered under the same
\* id: neither the deletion alone nor any other race of record_attempt does it.
THEOREM NotReusedBelongsToSitter ==
    Spec /\ [][NotReused]_vars => AttemptBelongsToSitter
<1>1. Init => SitterInv
  BY DEF Init, SitterInv, Idle
<1>2. ASSUME TypeOK, SitterInv, [Next]_vars, NEW s \in Sessions,
             tui[s].pc = "exam", tui'[s].pc = "result"
      PROVE  human[tui[s].pid] = tui[s].human
  <2>1. PICK c \in Sessions : Connection(c)
    BY <1>2, SeedLeaves
    DEF Next, Administer, CreatePerson, UpdatePerson, SetPersonEnabled, DeletePerson,
        ResetExam, AddKey, SetKeyEnabled, RemoveKey, CreateTest, DeleteTest, PublishTest,
        ActivatePublication, vars
  <2>2. c = s
    <3> SUFFICES ASSUME c # s PROVE FALSE
      OBVIOUS
    <3>1. tui'[s] = tui[s]
      BY <1>2, <2>1
      DEF TypeOK, Connection, Connect, ResolvePolicy, CountAttempts, BeginExam,
          RecordAttempt, Close
    <3> QED BY <1>2, <3>1
  <2>3. PICK ok \in BOOLEAN : RecordAttempt(s, ok)
    <3>1. ~Close(s)
      BY <1>2 DEF Close, Idle, TypeOK
    <3> QED
      BY <1>2, <2>1, <2>2, <3>1
      DEF Connection, Connect, ResolvePolicy, CountAttempts, BeginExam
  <2>4. tui[s].pid \in people
    BY <1>2, <2>3 DEF RecordAttempt, MayRecord, TypeOK
  <2> QED BY <1>2, <2>4 DEF SitterInv
<1>3. TypeOK /\ SitterInv /\ [Next]_vars =>
        [\A s \in Sessions : tui[s].pc = "exam" /\ tui'[s].pc = "result" =>
           human[tui[s].pid] = tui[s].human]_vars
  BY <1>2
<1> QED BY <1>1, <1>3, SitterStep, TypeCorrect, PTL DEF Spec, AttemptBelongsToSitter
=============================================================================
