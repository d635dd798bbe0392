------------------------------ MODULE BankStore ------------------------------
(***************************************************************************)
(* What everybody who reads question banks may rely on, and all that        *)
(* Publishing uses of them: a name leads to nothing or to one bank that      *)
(* somebody saved, a save replaces it in one step, and a power failure takes *)
(* names back to an earlier state of theirs and never to anything else.      *)
(* There are no temporary files, no partial files and no directories here.   *)
(***************************************************************************)
CONSTANTS
    Banks,
    Contents,
    None

VARIABLES
    view,   \* what each name leads to
    kept    \* what it would lead to after a power failure

vars == <<view, kept>>

Init ==
    /\ view \in [Banks -> Contents \cup {None}]
    /\ kept = view

Save(b, c) ==
    /\ view' = [view EXCEPT ![b] = c]
    /\ UNCHANGED kept

Delete(b) ==
    /\ view' = [view EXCEPT ![b] = None]
    /\ UNCHANGED kept

Settle(b) ==
    /\ kept' = [kept EXCEPT ![b] = view[b]]
    /\ UNCHANGED view

PowerFailure ==
    /\ view' = kept
    /\ UNCHANGED kept

Next ==
    \/ \E b \in Banks, c \in Contents : Save(b, c)
    \/ \E b \in Banks : Delete(b) \/ Settle(b)
    \/ PowerFailure

Spec == Init /\ [][Next]_vars
=============================================================================
