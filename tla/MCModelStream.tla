---- MODULE MCModelStream ----
(* ModelStream for TLC; every constant is a number. *)
EXTENDS ModelStream
====
