---------------------------- MODULE MCConfigCache ----------------------------
(* Two processes, as during a deploy: the one with the Settings screen and two *)
(* requests in flight, and the one being replaced.                             *)
EXTENDS ConfigCache, TLC

CONSTANTS new, old, c1, c2, c3

TwoHomes == c1 :> new @@ c2 :> new @@ c3 :> old
==============================================================================
