---------------------------- MODULE Conversation ----------------------------
(***************************************************************************)
(* What the operator's page promises of a conversation: messages appear at *)
(* its end, block by block, in the order they were written, and nothing    *)
(* shown is moved or taken back.  Nothing of events, the hub, connections  *)
(* or requests is visible here; EventStream implements this specification. *)
(***************************************************************************)
EXTENDS Naturals, Sequences

VARIABLES
    written,  \* messages 1..written exist
    reached,  \* the page has dealt with messages 1..reached
    screen,   \* the messages on the page, from top to bottom
    lost      \* those it has passed over without showing them

vars == <<written, reached, screen, lost>>

Init == written = 0 /\ reached = 0 /\ screen = <<>> /\ lost = {}

Writes ==
    /\ written' = written + 1
    /\ UNCHANGED <<reached, screen, lost>>

\* Messages are dealt with from the first one not yet reached, none left out.
Shows ==
    \E n \in reached + 1..written :
        /\ reached' = n
        /\ screen' = screen \o [k \in 1..(n - reached) |-> reached + k]
        /\ UNCHANGED <<written, lost>>

\* A block arrives in name only.
Loses ==
    \E n \in reached + 1..written :
        /\ reached' = n
        /\ lost' = lost \cup (reached + 1..n)
        /\ UNCHANGED <<written, screen>>

Next == Writes \/ Shows \/ Loses

Spec == Init /\ [][Next]_vars
==============================================================================
