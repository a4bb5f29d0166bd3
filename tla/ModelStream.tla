------------------------------ MODULE ModelStream ------------------------------
(***************************************************************************)
(* One model call of the run loop: the attempts of streamWithRetry, the    *)
(* stream each of them reads, the batch that passes the text on to the     *)
(* operator's page, and what the loop appends to the transcript.           *)
(*                                                                         *)
(* The endpoint is external and may send anything at any time, or nothing. *)
(* A piece is one text delta, numbered in the order of arrival over all    *)
(* attempts; blank pieces are those TrimSpace removes.                     *)
(***************************************************************************)
EXTENDS Naturals

CONSTANTS
    MaxAttempts,  \* maxAttempts (4 in the code)
    MaxPieces     \* bound: text deltas of all attempts together

ASSUME ModelStreamAssumption == MaxAttempts \in Nat \ {0} /\ MaxPieces \in Nat

VARIABLES
    pc,         \* where the loop is
    attempt,    \* number of this attempt
    cancelled,  \* the worker's stream context was cancelled
    fed,        \* pieces 1..fed were handed to the batch
    blank,      \* those of them that are white space
    text,       \* pieces of this attempt
    final,      \* its terminal event: what calls it carries, or "missing"
    told,       \* it carries the reply's text, whether deltas brought it or not
    erred,      \* an error frame, or a terminal event that reports failure
    broke,      \* how the connection ended: "open", "clean", "broken", "cancelled"
    result,     \* what streamWithRetry returned: "none", "nil", "response", "error"
    outcome,    \* what became of the step
    reply,      \* pieces of the appended message
    buf,        \* pieces in the batch
    timer,      \* of the batch: "off", "armed", "woken"
    carried,    \* what each woken flush has taken and not yet published
    rest,       \* what close has taken
    shown       \* pieces the hub was given

response == <<text, final, told, erred, broke>>
batch    == <<buf, timer, carried, rest, shown>>
vars == <<pc, attempt, cancelled, fed, blank, response, result, outcome, reply, batch>>

Pieces   == 1..MaxPieces
Payloads == {"nothing", "calls", "cut"}   \* "cut": the arguments end early

At(p)   == pc = p
Goto(p) == pc' = p

-----------------------------------------------------------------------------
(* Stream *)

\* An attempt under a cancelled context ends at once.
Opens ==
    /\ At("open")
    /\ text' = {} /\ final' = "missing" /\ told' = FALSE /\ erred' = FALSE
    /\ IF cancelled THEN Goto("judge") /\ broke' = "cancelled"
       ELSE Goto("stream") /\ broke' = "open"
    /\ UNCHANGED <<attempt, cancelled, fed, blank, result, outcome, reply, batch>>

\* deltaBatch.add: the first piece in an empty batch arms the timer.
Arms == timer' = IF timer = "off" THEN "armed" ELSE timer

Receives ==
    /\ At("stream") /\ fed < MaxPieces
    /\ fed' = fed + 1
    /\ blank' \in {blank, blank \cup {fed + 1}}
    /\ text' = text \cup {fed + 1}
    /\ buf' = buf \cup {fed + 1} /\ Arms
    /\ UNCHANGED <<pc, attempt, cancelled, final, told, erred, broke, result, outcome, reply,
                   carried, rest, shown>>

\* response.completed and .incomplete, or .failed; an error frame has no payload.
Terminates ==
    /\ At("stream") /\ final = "missing"
    /\ final' \in Payloads /\ told' \in BOOLEAN /\ erred' \in {erred, TRUE}
    /\ UNCHANGED <<pc, attempt, cancelled, fed, blank, text, broke, result, outcome, reply, batch>>

Errs ==
    /\ At("stream") /\ ~erred
    /\ erred' = TRUE
    /\ UNCHANGED <<pc, attempt, cancelled, fed, blank, text, final, told, broke, result, outcome,
                   reply, batch>>

Leaves(how) ==
    /\ broke' = how /\ Goto("judge")
    /\ UNCHANGED <<attempt, cancelled, fed, blank, text, final, told, erred, result, outcome,
                   reply, batch>>

\* The endpoint ends the stream, or the connection breaks.
Ends == At("stream") /\ \E how \in {"clean", "broken"} : Leaves(how)

\* streamTimeout: whatever the endpoint does, an attempt ends.
Expires == At("stream") /\ Leaves("broken")

\* The context of the attempt is seen to be cancelled.
Stops == At("stream") /\ cancelled /\ Leaves("cancelled")

-----------------------------------------------------------------------------
(* streamWithRetry *)

Heard    == text \ blank # {}
Absorbed == broke = "clean" /\ final # "missing"
Said     == Heard \/ (Absorbed /\ told)
Called   == Absorbed /\ final \in {"calls", "cut"}
Failed   == broke # "clean" \/ erred \/ final = "missing"

\* Mutant of Final: an attempt that called no tool is tried again.
FinalIfCalled == ~Failed \/ broke = "cancelled" \/ Called

\* An attempt that succeeded, was cancelled, or produced anything is the last.
Final == ~Failed \/ broke = "cancelled" \/ Said \/ Called

Returns ==
    /\ At("judge") /\ Final
    /\ result' = IF Failed THEN "error" ELSE "response"
    /\ Goto("close")
    /\ UNCHANGED <<attempt, cancelled, fed, blank, response, outcome, reply, batch>>

\* Mutant of Spent: one attempt too many.
SpentLate == attempt > MaxAttempts

Spent == attempt = MaxAttempts

BacksOff ==
    /\ At("judge") /\ ~Final
    /\ IF Spent THEN Goto("close") /\ result' = "nil"
       ELSE Goto("backoff") /\ UNCHANGED result
    /\ UNCHANGED <<attempt, cancelled, fed, blank, response, outcome, reply, batch>>

\* After a delay; a context cancelled at the same moment may lose the select.
Retries ==
    /\ At("backoff")
    /\ attempt' = attempt + 1 /\ Goto("open")
    /\ UNCHANGED <<cancelled, fed, blank, response, result, outcome, reply, batch>>

Abandons ==
    /\ At("backoff") /\ cancelled
    /\ result' = "nil" /\ Goto("close")
    /\ UNCHANGED <<attempt, cancelled, fed, blank, response, outcome, reply, batch>>

\* A pause or a shutdown cancels the stream of the worker while it has one.
Cancels ==
    /\ pc \in {"open", "stream", "judge", "backoff"} /\ ~cancelled
    /\ cancelled' = TRUE
    /\ UNCHANGED <<pc, attempt, fed, blank, response, result, outcome, reply, batch>>

-----------------------------------------------------------------------------
(* deltaBatch *)

Wakes ==
    /\ timer = "armed" /\ timer' = "woken"
    /\ UNCHANGED <<pc, attempt, cancelled, fed, blank, response, result, outcome, reply,
                   buf, carried, rest, shown>>

\* Mutant of Emptied: the buffer is not reset.
NotEmptied == buf' = buf

\* The builder is reset under the lock; publishing comes after it.
Emptied == buf' = {}

Takes ==
    /\ timer = "woken" /\ timer' = "off"
    /\ carried' = IF buf = {} THEN carried ELSE carried \cup {buf}
    /\ Emptied
    /\ UNCHANGED <<pc, attempt, cancelled, fed, blank, response, result, outcome, reply,
                   rest, shown>>

Publishes ==
    /\ \E load \in carried : shown' = shown \cup load /\ carried' = carried \ {load}
    /\ UNCHANGED <<pc, attempt, cancelled, fed, blank, response, result, outcome, reply,
                   buf, timer, rest>>

\* Timer.Stop, which does not stop one that has woken, and the last flush.
Closes ==
    /\ At("close")
    /\ timer' = IF timer = "armed" THEN "off" ELSE timer
    /\ rest' = buf /\ Emptied
    /\ Goto("flush")
    /\ UNCHANGED <<attempt, cancelled, fed, blank, response, result, outcome, reply,
                   carried, shown>>

\* Mutant of Flushes: a closed batch publishes nothing any more.
FlushesNothing ==
    /\ At("flush")
    /\ rest' = {} /\ Goto("persist")
    /\ UNCHANGED <<attempt, cancelled, fed, blank, response, result, outcome, reply,
                   buf, timer, carried, shown>>

Flushes ==
    /\ At("flush")
    /\ shown' = shown \cup rest /\ rest' = {}
    /\ Goto("persist")
    /\ UNCHANGED <<attempt, cancelled, fed, blank, response, result, outcome, reply,
                   buf, timer, carried>>

-----------------------------------------------------------------------------
(* advance, from the call's return to the step's end *)

Ended(how, pieces) ==
    /\ outcome' = how /\ reply' = pieces /\ Goto("done")
    /\ UNCHANGED <<attempt, cancelled, fed, blank, response, result, batch>>

\* AppendMessage, of a whole or of an interrupted turn; it may fail.
Appends ==
    /\ At("persist")
    /\ \/ result = "response" /\ (Said \/ Called) /\ final # "cut"
       \/ result = "error" /\ Said
    /\ \/ Ended(IF result = "response" THEN "whole" ELSE "interrupted", text)
       \/ Ended("lost", {})

\* Nothing to append: the run parks, paused or with the error.
Parks ==
    /\ At("persist")
    /\ \/ result = "nil"
       \/ result = "error" /\ ~Said
       \/ result = "response" /\ ~Said /\ ~Called
    /\ Ended("parked", {})

\* Calls whose arguments are not JSON cannot be encoded: the step fails, its text
\* with it.
Refuses ==
    /\ At("persist")
    /\ result = "response" /\ final = "cut"
    /\ Ended("refused", {})

-----------------------------------------------------------------------------
Init ==
    /\ pc = "open" /\ attempt = 1 /\ cancelled = FALSE
    /\ fed = 0 /\ blank = {}
    /\ text = {} /\ final = "missing" /\ told = FALSE /\ erred = FALSE /\ broke = "open"
    /\ result = "none" /\ outcome = "none" /\ reply = {}
    /\ buf = {} /\ timer = "off" /\ carried = {} /\ rest = {} /\ shown = {}

Endpoint == Receives \/ Terminates \/ Errs \/ Ends
Loop     == \/ Opens \/ Stops \/ Returns \/ BacksOff \/ Retries \/ Abandons
            \/ Closes \/ Flushes \/ Appends \/ Parks \/ Refuses
Timer    == Wakes \/ Takes \/ Publishes

Next == Endpoint \/ Expires \/ Loop \/ Timer \/ Cancels

Spec == Init /\ [][Next]_vars

\* The goroutine runs, timers fire and the deadline passes; the endpoint owes
\* nothing.
Fairness == WF_vars(Loop) /\ WF_vars(Timer) /\ WF_vars(Expires)

FairSpec == Spec /\ Fairness

-----------------------------------------------------------------------------
(* Properties *)

\* The types; a result exists from the end of the retries on, an outcome at the end.
TypeOK ==
    /\ pc \in {"open", "stream", "judge", "backoff", "close", "flush", "persist", "done"}
    /\ attempt \in 1..MaxAttempts
    /\ cancelled \in BOOLEAN
    /\ fed \in 0..MaxPieces
    /\ blank \subseteq 1..fed /\ text \subseteq 1..fed /\ reply \subseteq text
    /\ final \in Payloads \cup {"missing"}
    /\ told \in BOOLEAN /\ erred \in BOOLEAN
    /\ broke \in {"open", "clean", "broken", "cancelled"}
    /\ result \in {"none", "nil", "response", "error"}
    /\ outcome \in {"none", "whole", "interrupted", "lost", "parked", "refused"}
    /\ result = "none" <=> pc \in {"open", "stream", "judge", "backoff"}
    /\ outcome = "none" <=> pc # "done"
    /\ outcome = "none" => reply = {}
    /\ buf \subseteq 1..fed /\ rest \subseteq 1..fed /\ shown \subseteq 1..fed
    /\ timer \in {"off", "armed", "woken"}
    /\ carried \subseteq SUBSET (1..fed)

\* Every text delta is in exactly one place on its way to the hub (which may drop
\* it: deltas are the frames a slow page loses): no flush of the
\* timer, of close or of both at once publishes it twice or forgets it, and what
\* waits in the batch has a timer, or the close, to take it out.
Once ==
    /\ 1..fed = buf \cup rest \cup shown \cup UNION carried
    /\ buf \cap (rest \cup shown \cup UNION carried) = {}
    /\ rest \cap (shown \cup UNION carried) = {}
    /\ shown \cap UNION carried = {}
    /\ \A a, b \in carried : a = b \/ a \cap b = {}
    /\ buf # {} => timer # "off"

\* What the operator watched arrive is what the transcript keeps: when the step
\* ends, all text of all attempts is in the message appended, unless appending
\* itself failed, or the calls beside it could not be encoded.
WatchedIsKept ==
    At("done") /\ outcome \notin {"lost", "refused"} => (1..fed) \ blank \subseteq reply

\* A call comes to an end though the endpoint may hang at any point, after any
\* number of failed attempts.
CallReturns == At("open") ~> At("done")

\* A piece that arrived is published, whichever of the timer and the end of the
\* call comes first.
AllShown == \A n \in Pieces : fed >= n ~> n \in shown

\* What the operator waits for: the end of every call, and the publication of
\* every piece of text that arrived before it.
Delivers == CallReturns /\ AllShown
==============================================================================
