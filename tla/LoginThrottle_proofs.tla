------------------------ MODULE LoginThrottle_proofs ------------------------
(***************************************************************************)
(* The block of LoginThrottle, for any limit, any windows and any number   *)
(* of logins under way.                                                    *)
(***************************************************************************)
EXTENDS LoginThrottle, TLAPS

LEMMA ThrottleTypeStep == TypeOK /\ [Next]_vars => TypeOK'
<1> USE ThrottleAssumption
<1> SUFFICES ASSUME TypeOK, [Next]_vars PROVE TypeOK'
  OBVIOUS
<1>1. CASE Tick
  <2>1. \A r \in Logins : Verifying(r)' => login[r]' <= clock' /\ clock' <= login[r]' + Slow
    BY <1>1 DEF Tick, TypeOK, Verifying
  <2> QED BY <1>1, <2>1 DEF Tick, TypeOK, throttle
<1>2. ASSUME NEW r \in Logins, NEW t \in Nat, login' = [login EXCEPT ![r] = t],
             t \in {0, clock}, UNCHANGED clock
      PROVE  /\ login' \in [Logins -> Nat]
             /\ \A l \in Logins : Verifying(l)' => login[l]' <= clock' /\ clock' <= login[l]' + Slow
  BY <1>2 DEF TypeOK, Verifying
<1>3. ASSUME NEW r \in Logins, Admit(r) PROVE TypeOK'
  BY <1>2, <1>3 DEF Admit, TypeOK
<1>4. ASSUME NEW r \in Logins, RecordSuccess(r) PROVE TypeOK'
  BY <1>2, <1>4 DEF RecordSuccess, TypeOK
<1>5. ASSUME NEW r \in Logins, RecordFailure(r) PROVE TypeOK'
  <2>1. login[r] \in Nat /\ login[r] + Block \in Nat /\ Counted(login[r]) \in Nat
    BY DEF TypeOK, Counted
  <2>2. window_started_at' \in Nat /\ failures' \in Nat /\ blocked_until' \in Nat
    BY <1>5, <2>1 DEF RecordFailure, TypeOK
  <2> QED BY <1>2, <1>5, <2>2 DEF RecordFailure, TypeOK
<1>6. CASE UNCHANGED vars
  BY <1>6 DEF vars, throttle, TypeOK, Verifying
<1> QED BY <1>1, <1>3, <1>4, <1>5, <1>6 DEF Next, Refuse

-----------------------------------------------------------------------------
\* What is recorded lies in the past: a window was opened at some time that has
\* been, which is the reason why a block always covers it.
Past == window_started_at <= clock

ThrottleInv == BlockEnds /\ LimitCoversWindow /\ Past

LEMMA ThrottleStep == TypeOK /\ ThrottleInv /\ [Next]_vars => ThrottleInv'
<1> USE ThrottleAssumption
<1> SUFFICES ASSUME TypeOK, ThrottleInv, [Next]_vars PROVE ThrottleInv'
  OBVIOUS
<1>1. CASE Tick
  BY <1>1 DEF Tick, TypeOK, throttle, ThrottleInv, BlockEnds, LimitCoversWindow, Past
<1>2. ASSUME NEW r \in Logins, Admit(r) PROVE ThrottleInv'
  BY <1>2 DEF Admit, TypeOK, ThrottleInv, BlockEnds, LimitCoversWindow, Past
<1>3. ASSUME NEW r \in Logins, RecordSuccess(r) PROVE ThrottleInv'
  BY <1>3 DEF RecordSuccess, TypeOK, ThrottleInv, BlockEnds, LimitCoversWindow, Past
<1>4. ASSUME NEW r \in Logins, RecordFailure(r) PROVE ThrottleInv'
  <2> DEFINE now == login[r]
  <2>1. now \in Nat /\ now <= clock /\ clock <= now + Slow
    BY <1>4 DEF RecordFailure, TypeOK
  <2>2. window_started_at' \in {now, window_started_at} /\ Counted(now) \in Nat
    BY <1>4 DEF RecordFailure, Counted, TypeOK
  <2>3. CASE Counted(now) >= Limit
    <3>1. blocked_until' = now + Block /\ clock' = clock
      BY <1>4, <2>3 DEF RecordFailure
    <3> QED BY <2>1, <2>2, <3>1 DEF TypeOK, ThrottleInv, BlockEnds, LimitCoversWindow, Past
  <2>4. CASE ~(Counted(now) >= Limit)
    <3>1. blocked_until' = blocked_until /\ failures' < Limit /\ clock' = clock
      BY <1>4, <2>2, <2>4 DEF RecordFailure
    <3>2. ~(failures' >= Limit)
      BY <1>4, <2>2, <3>1 DEF RecordFailure
    <3> QED
      BY <2>1, <2>2, <3>1, <3>2 DEF TypeOK, ThrottleInv, BlockEnds, LimitCoversWindow, Past
  <2> QED BY <2>3, <2>4
<1>5. CASE UNCHANGED vars
  BY <1>5 DEF vars, throttle, ThrottleInv, BlockEnds, LimitCoversWindow, Past
<1> QED BY <1>1, <1>2, <1>3, <1>4, <1>5 DEF Next, Refuse

\* Types and the facts that the theorems below rest on.
THEOREM ThrottleSafety == Spec => [](TypeOK /\ ThrottleInv)
<1>1. Init => TypeOK
  BY ThrottleAssumption DEF Init, TypeOK, Verifying
<1>2. Init => ThrottleInv
  BY ThrottleAssumption DEF Init, ThrottleInv, BlockEnds, LimitCoversWindow, Past
<1> QED BY <1>1, <1>2, ThrottleTypeStep, ThrottleStep, PTL DEF Spec

\* The times and counters of LoginThrottle stay numbers, no login waits longer
\* than Slow for its password to be verified.
THEOREM ThrottleTypes == Spec => []TypeOK
BY ThrottleSafety, PTL

\* Nobody is locked out of the administration for longer than one block.
THEOREM BlockEndsHolds == Spec => []BlockEnds
<1>1. ThrottleInv => BlockEnds
  BY DEF ThrottleInv
<1> QED BY <1>1, ThrottleSafety, PTL

\* A limit reached blocks what is left of its window, whatever logins were
\* under way when it was.
THEOREM LimitCoversWindowHolds == Spec => []LimitCoversWindow
<1>1. ThrottleInv => LimitCoversWindow
  BY DEF ThrottleInv
<1> QED BY <1>1, ThrottleSafety, PTL

\* A failure recorded late takes no more from a block than it was late, and
\* nothing else but a success takes anything from it.
THEOREM BlockHoldsHolds == Spec => BlockHolds
<1> DEFINE Kept == blocked_until > clock =>
                     \/ blocked_until' + Slow >= blocked_until
                     \/ \E r \in Logins : RecordSuccess(r)
<1>1. ASSUME TypeOK, TypeOK', ThrottleInv, [Next]_vars, blocked_until > clock,
             \A r \in Logins : ~RecordSuccess(r)
      PROVE  blocked_until' + Slow >= blocked_until
  <2> USE ThrottleAssumption
  <2>1. CASE blocked_until' = blocked_until
    BY <1>1, <2>1 DEF TypeOK
  <2>2. ASSUME NEW r \in Logins, RecordFailure(r)
        PROVE  blocked_until' + Slow >= blocked_until
    <3>1. login[r] \in Nat /\ clock <= login[r] + Slow /\ blocked_until <= clock + Block
      BY <1>1, <2>2 DEF RecordFailure, TypeOK, ThrottleInv, BlockEnds
    <3>2. CASE blocked_until' = login[r] + Block
      BY <1>1, <3>1, <3>2 DEF TypeOK
    <3> QED BY <2>1, <2>2, <3>2 DEF RecordFailure
  <2>3. \A r \in Logins : ~Admit(r)
    BY <1>1 DEF Admit, TypeOK
  <2> QED BY <1>1, <2>1, <2>2, <2>3 DEF Next, Tick, Refuse, vars, throttle
<1>2. TypeOK /\ TypeOK' /\ ThrottleInv /\ [Next]_vars => [Kept]_vars
  BY <1>1
<1>3. BlockHolds <=> [][Kept]_vars
  BY DEF BlockHolds
<1> HIDE DEF Kept
<1> QED BY <1>2, <1>3, ThrottleSafety, PTL DEF Spec
=============================================================================
