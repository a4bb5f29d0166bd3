--------------------------- MODULE MCProvisioning ---------------------------
(* Instances of Provisioning for TLC. *)
EXTENDS Provisioning

AllFaults == {"timeout", "store", "provider", "setup", "crash"}
==============================================================================
