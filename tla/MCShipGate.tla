------------------------------ MODULE MCShipGate ------------------------------
(* Instances of ShipGate for TLC: reviewers of three turns, every kind of fault. *)
EXTENDS ShipGate

AllFaults == {"model", "sandbox", "store"}
==============================================================================
