------------------------------- MODULE MCBoot -------------------------------
(***************************************************************************)
(* Boot for TLC: two machines, two builds of which one lacks a version     *)
(* that comes before the one it knows.                                     *)
(***************************************************************************)
EXTENDS Boot, TLC

SomeBuilds == {{2}, {1, 2}}

\* Every machine runs the same build.
OneBuild == {{1}}

Symmetry == Permutations(Machines) \cup Permutations(Requests)
=============================================================================
