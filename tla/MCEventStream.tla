---------------------------- MODULE MCEventStream ----------------------------
(* Instances of EventStream for TLC; the two publishers are symmetric, but the *)
(* runs check liveness, for which TLC takes no symmetry.                       *)
EXTENDS EventStream
==============================================================================
