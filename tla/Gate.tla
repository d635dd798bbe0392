--------------------------------- MODULE Gate ---------------------------------
(***************************************************************************)
(* What ssh-exam promises, in the words of README ("Tests and Publication",  *)
(* "Security Model") and nothing else: whoever passes the published         *)
(* revision within its attempts gets a shell, and so does whoever had       *)
(* passed before there were revisions and was recognised for it, and nobody *)
(* else; what a person has done at one revision is changed by nothing that  *)
(* happens at another.  There is no database here, no key, no terminal and  *)
(* no test that is not published; ExamGate says how the code keeps this.    *)
(***************************************************************************)
EXTENDS Naturals

CONSTANTS
    People,
    Revisions,
    MaxAttempts,  \* what a revision allows
    Sessions,
    Nobody,
    None

VARIABLES
    active,    \* the revision that counts now, None before the first
    used,      \* attempts each person has made at each revision
    passed,    \* who has passed what
    owed,      \* who had passed an earlier version's exam, until that is settled
    admitted   \* who sits in the shell of a connection, Nobody if none does

vars == <<active, used, passed, owed, admitted>>

Init ==
    /\ active = None
    /\ used = [e \in People \X Revisions |-> 0]
    /\ passed = {}
    /\ owed \in SUBSET People
    /\ admitted = [s \in Sessions |-> Nobody]

\* A revision is published, or an earlier one activated again.
Activate(r) ==
    /\ active' = r
    /\ UNCHANGED <<used, passed, owed, admitted>>

\* An exam is handed in.  It need not be at the revision active by now.
Attempt(p, r, ok) ==
    /\ active # None
    /\ <<p, r>> \notin passed
    /\ used[<<p, r>>] < MaxAttempts[r]
    /\ used' = [used EXCEPT ![<<p, r>>] = @ + 1]
    /\ passed' = IF ok THEN passed \cup {<<p, r>>} ELSE passed
    /\ UNCHANGED <<active, owed, admitted>>

\* Who had passed before has passed a published revision.
Recognise(r) ==
    /\ active # None
    /\ passed' = passed \cup (owed \X {r})
    /\ UNCHANGED <<active, used, owed, admitted>>

\* Nothing is owed any more once everybody concerned has passed something.
Settle ==
    /\ \A p \in owed : \E r \in Revisions : <<p, r>> \in passed
    /\ owed' = {}
    /\ UNCHANGED <<active, used, passed, admitted>>

\* An administrator clears what a person did at the active revision.
Reset(p) ==
    /\ used' = [e \in DOMAIN used |-> IF e = <<p, active>> THEN 0 ELSE used[e]]
    /\ passed' = passed \ {<<p, active>>}
    /\ owed' = owed \ {p}
    /\ UNCHANGED <<active, admitted>>

\* A person is deleted, and all that was theirs.
Forget(p) ==
    /\ used' = [e \in DOMAIN used |-> IF e[1] = p THEN 0 ELSE used[e]]
    /\ passed' = {e \in passed : e[1] # p}
    /\ owed' = owed \ {p}
    /\ UNCHANGED <<active, admitted>>

\* A shell opens for somebody who has passed what is active at that moment.
Admit(s, p) ==
    /\ admitted[s] = Nobody
    /\ <<p, active>> \in passed
    /\ admitted' = [admitted EXCEPT ![s] = p]
    /\ UNCHANGED <<active, used, passed, owed>>

Leave(s) ==
    /\ admitted' = [admitted EXCEPT ![s] = Nobody]
    /\ UNCHANGED <<active, used, passed, owed>>

Next ==
    \/ \E r \in Revisions : Activate(r) \/ Recognise(r)
    \/ Settle
    \/ \E p \in People, r \in Revisions, ok \in BOOLEAN : Attempt(p, r, ok)
    \/ \E p \in People : Reset(p) \/ Forget(p)
    \/ \E s \in Sessions, p \in People : Admit(s, p)
    \/ \E s \in Sessions : Leave(s)

Spec == Init /\ [][Next]_vars
=============================================================================
