---------------------------- MODULE LoginThrottle ----------------------------
(***************************************************************************)
(* LoginThrottle and the login handler of the web administration           *)
(* (src/web.rs).  A login reads the clock once, asks is_blocked, verifies   *)
(* the password on another thread without the mutex, and records the       *)
(* outcome under the time it read at first: other logins come in between.   *)
(***************************************************************************)
EXTENDS Naturals, FiniteSets

CONSTANTS
    Logins,     \* login requests at one time
    Limit,      \* LOGIN_FAILURE_LIMIT
    Window,     \* LOGIN_FAILURE_WINDOW_SECONDS
    Block,      \* LOGIN_BLOCK_SECONDS
    Slow,       \* seconds a verification takes at most
    Boot,       \* unix_time when the process starts
    MaxClock    \* bound of the model

ASSUME ThrottleAssumption ==
    /\ {Limit, Window, Block, Boot} \subseteq Nat \ {0}
    /\ Slow \in Nat
    /\ MaxClock \in Nat
    /\ Boot >= Window
    /\ Block >= Window

VARIABLES
    clock,               \* unix_time
    window_started_at,
    failures,
    blocked_until,
    login                \* each request: the time it read, 0 if there is none

throttle == <<window_started_at, failures, blocked_until>>
vars == <<clock, throttle, login>>

Init ==
    /\ clock = Boot
    /\ window_started_at = 0
    /\ failures = 0
    /\ blocked_until = 0
    /\ login = [r \in Logins |-> 0]

Verifying(r) == login[r] # 0

\* saturating_sub
Since(t, now) == IF now > t THEN now - t ELSE 0

WindowOver(now) == Since(window_started_at, now) >= Window

\* Slip: a new window is opened before the block is looked at.
AdmitAfterReset(r) ==
    /\ ~Verifying(r)
    /\ WindowOver(clock) \/ blocked_until <= clock
    /\ window_started_at' = IF WindowOver(clock) THEN clock ELSE window_started_at
    /\ failures' = IF WindowOver(clock) THEN 0 ELSE failures
    /\ blocked_until' = IF WindowOver(clock) THEN 0 ELSE blocked_until
    /\ login' = [login EXCEPT ![r] = clock]
    /\ UNCHANGED clock

\* is_blocked returns true: too many failed login attempts.
Refuse(r) ==
    /\ ~Verifying(r)
    /\ blocked_until > clock
    /\ UNCHANGED vars

\* is_blocked returns false.
Admit(r) ==
    /\ ~Verifying(r)
    /\ blocked_until <= clock
    /\ window_started_at' = IF WindowOver(clock) THEN clock ELSE window_started_at
    /\ failures' = IF WindowOver(clock) THEN 0 ELSE failures
    /\ blocked_until' = IF WindowOver(clock) THEN 0 ELSE blocked_until
    /\ login' = [login EXCEPT ![r] = clock]
    /\ UNCHANGED clock

\* Slip: a success takes one failure back.
ForgiveOne(r) ==
    /\ Verifying(r)
    /\ failures' = failures - 1
    /\ login' = [login EXCEPT ![r] = 0]
    /\ UNCHANGED <<clock, window_started_at, blocked_until>>

\* record(true, now)
RecordSuccess(r) ==
    /\ Verifying(r)
    /\ window_started_at' = 0
    /\ failures' = 0
    /\ blocked_until' = 0
    /\ login' = [login EXCEPT ![r] = 0]
    /\ UNCHANGED clock

NewWindow(now) == window_started_at = 0 \/ WindowOver(now)

Counted(now) == IF NewWindow(now) THEN 1 ELSE failures + 1

\* Slip: the block starts one failure late.
RecordFailureLate(r) ==
    /\ Verifying(r)
    /\ window_started_at' = IF NewWindow(login[r]) THEN login[r] ELSE window_started_at
    /\ failures' = Counted(login[r])
    /\ blocked_until' = IF Counted(login[r]) > Limit THEN login[r] + Block ELSE blocked_until
    /\ login' = [login EXCEPT ![r] = 0]
    /\ UNCHANGED clock

\* Slip: the block is added to the one that is there.
RecordFailureAdding(r) ==
    /\ Verifying(r)
    /\ window_started_at' = IF NewWindow(login[r]) THEN login[r] ELSE window_started_at
    /\ failures' = Counted(login[r])
    /\ blocked_until' = IF Counted(login[r]) < Limit THEN blocked_until
                        ELSE IF blocked_until > login[r] THEN blocked_until + Block
                        ELSE login[r] + Block
    /\ login' = [login EXCEPT ![r] = 0]
    /\ UNCHANGED clock

\* record(false, now)
RecordFailure(r) ==
    /\ Verifying(r)
    /\ window_started_at' = IF NewWindow(login[r]) THEN login[r] ELSE window_started_at
    /\ failures' = Counted(login[r])
    /\ blocked_until' = IF Counted(login[r]) >= Limit THEN login[r] + Block ELSE blocked_until
    /\ login' = [login EXCEPT ![r] = 0]
    /\ UNCHANGED clock

\* No verification takes longer than Slow.
Tick ==
    /\ clock < MaxClock
    /\ \A r \in Logins : Verifying(r) => clock < login[r] + Slow
    /\ clock' = clock + 1
    /\ UNCHANGED <<throttle, login>>

Next ==
    \/ Tick
    \/ \E r \in Logins : Refuse(r) \/ Admit(r) \/ RecordSuccess(r) \/ RecordFailure(r)

Spec == Init /\ [][Next]_vars

-----------------------------------------------------------------------------
(* Properties.                                                             *)

TypeOK ==
    /\ clock \in Nat
    /\ window_started_at \in Nat
    /\ failures \in Nat
    /\ blocked_until \in Nat
    /\ login \in [Logins -> Nat]
    /\ \A r \in Logins : Verifying(r) => login[r] <= clock /\ clock <= login[r] + Slow

\* Whatever is recorded, and in what order, nobody is locked out for longer
\* than one block from now on (LoginThrottle::record).
BlockEnds == blocked_until <= clock + Block

\* Once the limit is reached, the block covers what is left of the window, but
\* for the seconds by which the failure that started it may have been late:
\* nobody goes on guessing in the same window (LoginThrottle::is_blocked, which
\* looks at the block before it opens a new window, and record).
LimitCoversWindow ==
    failures >= Limit => blocked_until + Slow >= window_started_at + Window

\* A block is over when its time is, or when somebody gives the right
\* password; a slow failure, recorded under the time it began, brings the end
\* nearer by no more than it was slow (login in web.rs).
BlockHolds ==
    [][blocked_until > clock =>
         \/ blocked_until' + Slow >= blocked_until
         \/ \E r \in Logins : RecordSuccess(r)]_vars
=============================================================================
