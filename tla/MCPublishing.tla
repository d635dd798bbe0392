---------------------------- MODULE MCPublishing ----------------------------
(* Instances of Publishing for TLC: requests of one kind of job, or of both. *)
EXTENDS Publishing
=============================================================================
