----------------------------- MODULE MCExamGate -----------------------------
(* Instances of ExamGate for TLC: which revision snapshots which test, the *)
(* attempt limits, and the sets whose members are interchangeable.         *)
EXTENDS ExamGate, TLC

CONSTANTS r1, t1, t2

OneTest == [r \in Revisions |-> t1]
TwoTests == [r \in Revisions |-> IF r = r1 THEN t1 ELSE t2]

TwoAttempts == [r \in Revisions |-> 2]
OneAttempt == [r \in Revisions |-> 1]

SameSessions == Permutations(Sessions)
=============================================================================
