---- MODULE MCBackground ----
(* Background for TLC: every kind of fault. *)
EXTENDS Background

AllFaults == {"exec", "store", "cancel", "crash", "provider", "overlap"}
====
