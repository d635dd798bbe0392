--------------------------- MODULE MCLoginThrottle ---------------------------
(* Short windows and blocks, in which a verification may take several ticks. *)
EXTENDS LoginThrottle, TLC

SameLogins == Permutations(Logins)
=============================================================================
