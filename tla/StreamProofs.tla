----------------------------- MODULE StreamProofs -----------------------------
(***************************************************************************)
(* Proofs about the two halves of streaming: ModelStream, which hands the  *)
(* text of a reply to the hub, and EventStream, which brings the           *)
(* messages to the page.                                                   *)
(*                                                                         *)
(* ModelStream, for any number of attempts and of text deltas: the types,  *)
(* that no delta is published twice or forgotten, and that the transcript  *)
(* keeps what the operator watched.  None is inductive.  The types need    *)
(* that an attempt backed off from is not the last (Counted), Once that    *)
(* what close has taken is published before anything else is (Rested), and *)
(* WatchedIsKept that an attempt that is tried again, or given up, showed  *)
(* white space only (Spoken).                                              *)
(*                                                                         *)
(* EventStream, for any number of publishers and any size of the buffer,   *)
(* the replay and the tables: the types, and that the page shows every     *)
(* message once and in order.  The heart of it is Page: one request at a   *)
(* time, whose start is the cursor as it still is when its answer lands.   *)
(***************************************************************************)
EXTENDS ModelStream, EventStream, SequenceTheorems, FiniteSetTheorems, TLAPS

-----------------------------------------------------------------------------
(* ModelStream *)

\* The text of all attempts that the operator can see.
Words == (1..fed) \ blank

Rested == pc # "flush" => rest = {}

Counted == pc = "backoff" => attempt # MaxAttempts

Spoken ==
    /\ pc \in {"open", "backoff"} \/ result = "nil" => Words = {}
    /\ pc # "open" => Words \subseteq text

\* The inductive invariant.
IInv == TypeOK /\ Once /\ Rested /\ Counted /\ Spoken /\ WatchedIsKept

-----------------------------------------------------------------------------
\* The piece that arrives is a new one, and all that arrived before stay.
LEMMA NextPiece ==
    ASSUME TypeOK, fed < MaxPieces
    PROVE  /\ fed + 1 \in 1..MaxPieces /\ fed + 1 \notin 1..fed
           /\ 1..(fed + 1) = (1..fed) \cup {fed + 1}
BY ModelStreamAssumption DEF TypeOK

\* At first nothing has arrived.
LEMMA Initially == Init => IInv
<1> SUFFICES ASSUME Init PROVE IInv
    OBVIOUS
<1>1. 1..fed = {} /\ fed \in 0..MaxPieces /\ attempt \in 1..MaxAttempts
  BY ModelStreamAssumption DEF Init
<1>2. TypeOK
  BY <1>1 DEF Init, TypeOK
<1>3. Once
  BY <1>1 DEF Init, Once
<1>4. Rested /\ Counted /\ Spoken /\ WatchedIsKept
  BY <1>1 DEF Init, Rested, Counted, Spoken, Words, WatchedIsKept, At
<1> QED BY <1>2, <1>3, <1>4 DEF IInv

-----------------------------------------------------------------------------
(* The batch and what the hub was given *)

\* Every step leaves each piece in one place.
LEMMA OnceKept == ASSUME IInv, Next PROVE Once' /\ Rested'
<1> USE DEF IInv, Goto, At
<1>1. CASE Receives
  <2>1. 1..fed' = (1..fed) \cup {fed + 1} /\ fed + 1 \notin 1..fed
    BY <1>1, NextPiece DEF Receives
  <2>2. buf' = buf \cup {fed + 1} /\ UNCHANGED <<pc, rest, shown, carried>> /\ timer' # "off"
    BY <1>1 DEF Receives, Arms
  <2>3. UNION carried \subseteq 1..fed /\ shown \subseteq 1..fed /\ rest \subseteq 1..fed
    BY DEF TypeOK
  <2> QED BY <2>1, <2>2, <2>3 DEF Once, Rested
<1>2. CASE Takes
  <2>1. UNCHANGED <<pc, fed, rest, shown>> /\ buf' = {}
    BY <1>2 DEF Takes, Emptied
  <2>2. CASE buf = {}
    BY <1>2, <2>1, <2>2 DEF Takes, Once, Rested
  <2>3. CASE buf # {}
    <3>1. carried' = carried \cup {buf}
      BY <1>2, <2>3 DEF Takes
    <3>2. UNION carried' = buf \cup UNION carried
      BY <3>1
    <3>3. \A a \in carried : a \cap buf = {}
      BY DEF Once
    <3> QED BY <2>1, <3>1, <3>2, <3>3 DEF Once, Rested
  <2> QED BY <2>2, <2>3
<1>3. CASE Publishes
  <2>1. PICK load \in carried : shown' = shown \cup load /\ carried' = carried \ {load}
    BY <1>3 DEF Publishes
  <2>2. UNCHANGED <<pc, fed, buf, timer, rest>>
    BY <1>3 DEF Publishes
  <2>3. UNION carried = load \cup UNION carried'
    BY <2>1
  <2>4. load \cap UNION carried' = {}
    BY <2>1 DEF Once
  <2>5. load \subseteq UNION carried
    BY <2>1
  <2> QED BY <2>1, <2>2, <2>3, <2>4, <2>5 DEF Once, Rested
<1>4. CASE Closes
  <2>1. buf' = {} /\ rest' = buf /\ rest = {} /\ pc' = "flush" /\ UNCHANGED <<fed, carried, shown>>
    BY <1>4 DEF Closes, Emptied, Rested
  <2> QED BY <2>1 DEF Once, Rested
<1>5. CASE Flushes
  BY <1>5 DEF Flushes, Once, Rested
<1>6. CASE Wakes
  BY <1>6 DEF Wakes, Once, Rested
<1>7. CASE ~ (Receives \/ Takes \/ Publishes \/ Closes \/ Flushes \/ Wakes)
  <2>1. UNCHANGED <<fed, buf, timer, carried, rest, shown>>
    BY <1>7 DEF Next, Endpoint, Loop, Timer, Opens, Terminates, Errs, Ends, Expires, Stops,
         Leaves,
       Returns, BacksOff, Retries, Abandons, Cancels, Appends, Parks, Refuses, Ended, batch
  <2>2. pc # "flush"  \/ pc' = pc
    BY <1>7 DEF Next, Endpoint, Loop, Timer, Opens, Terminates, Errs, Ends, Expires, Stops,
         Leaves,
       Returns, BacksOff, Retries, Abandons, Cancels, Appends, Parks, Refuses, Ended
  <2>3. pc' # "flush" \/ pc' = pc
    BY <1>7 DEF Next, Endpoint, Loop, Timer, Opens, Terminates, Errs, Ends, Expires, Stops,
         Leaves,
       Returns, BacksOff, Retries, Abandons, Cancels, Appends, Parks, Refuses, Ended
  <2> QED BY <2>1, <2>2, <2>3 DEF Once, Rested
<1> QED BY <1>1, <1>2, <1>3, <1>4, <1>5, <1>6, <1>7

-----------------------------------------------------------------------------
(* The types *)

\* A flush and the timer move pieces, and make none up.
LEMMA BatchTyped ==
    ASSUME TypeOK, Timer \/ Closes \/ Flushes
    PROVE  TypeOK'
<1> USE DEF Goto, At
<1>1. CASE Wakes
  BY <1>1 DEF TypeOK, Wakes, response
<1>2. CASE Takes
  <2>1. UNCHANGED <<pc, attempt, cancelled, fed, blank, response, result, outcome, reply, rest, shown>>
        /\ buf' = {} /\ timer' = "off"
    BY <1>2 DEF Takes, Emptied
  <2>2. carried' \subseteq SUBSET (1..fed)
    BY <1>2 DEF TypeOK, Takes
  <2> QED BY <2>1, <2>2 DEF TypeOK, response
<1>3. CASE Publishes
  <2>1. carried' \subseteq carried /\ shown' \subseteq 1..fed
    BY <1>3 DEF TypeOK, Publishes
  <2>2. UNCHANGED <<pc, attempt, cancelled, fed, blank, response, result, outcome, reply,
                    buf, timer, rest>>
    BY <1>3 DEF Publishes
  <2> QED BY <2>1, <2>2 DEF TypeOK, response
<1>4. CASE Closes
  BY <1>4 DEF TypeOK, Closes, Emptied, response
<1>5. CASE Flushes
  BY <1>5 DEF TypeOK, Flushes, response
<1> QED BY <1>1, <1>2, <1>3, <1>4, <1>5 DEF Timer

\* Every step keeps the types.
LEMMA Typed == ASSUME IInv, Next PROVE TypeOK'
<1> USE DEF IInv, Goto, At
<1>1. CASE Timer \/ Closes \/ Flushes
  BY <1>1, BatchTyped
<1>2. CASE Receives
  <2>1. 1..fed' = (1..fed) \cup {fed + 1} /\ fed' \in 0..MaxPieces
    BY <1>2, NextPiece, ModelStreamAssumption DEF Receives, TypeOK
  <2>2. /\ blank' \subseteq 1..fed' /\ text' \subseteq 1..fed' /\ buf' \subseteq 1..fed'
        /\ reply' = reply /\ text \subseteq text'
    BY <1>2, <2>1 DEF Receives, TypeOK
  <2>3. /\ rest' \subseteq 1..fed' /\ shown' \subseteq 1..fed'
        /\ carried' \subseteq SUBSET (1..fed')
    BY <1>2, <2>1 DEF Receives, TypeOK
  <2>4. timer' \in {"off", "armed", "woken"}
    BY <1>2 DEF Receives, Arms, TypeOK
  <2>5. UNCHANGED <<pc, attempt, cancelled, final, told, erred, broke, result, outcome>>
    BY <1>2 DEF Receives
  <2> QED BY <2>1, <2>2, <2>3, <2>4, <2>5 DEF TypeOK
<1>3. CASE Opens
  <2>1. outcome = "none"
    BY <1>3 DEF Opens, TypeOK
  <2>2. reply = {}
    BY <2>1 DEF TypeOK
  <2> QED BY <1>3, <2>1, <2>2 DEF TypeOK, Opens, batch
<1>4. CASE Terminates \/ Errs
  BY <1>4 DEF TypeOK, Terminates, Errs, batch
<1>5. CASE Ends \/ Expires \/ Stops
  BY <1>5 DEF TypeOK, Ends, Expires, Stops, Leaves, batch
<1>6. CASE Returns \/ Abandons \/ Cancels
  BY <1>6 DEF TypeOK, Returns, Abandons, Cancels, batch, response
<1>7. CASE BacksOff \/ Retries
  <2>1. attempt' \in 1..MaxAttempts
    BY <1>7, ModelStreamAssumption DEF TypeOK, Counted, BacksOff, Spent, Retries
  <2>2. UNCHANGED <<cancelled, fed, blank, text, final, told, erred, broke, outcome, reply, batch>>
    BY <1>7 DEF BacksOff, Retries, response
  <2>3. /\ pc' \in {"close", "backoff", "open"} /\ pc \in {"judge", "backoff"}
        /\ IF pc' = "close" THEN result' = "nil" ELSE result' = result
    BY <1>7 DEF BacksOff, Retries
  <2>4. result = "none" /\ outcome = "none"
    BY <2>3 DEF TypeOK
  <2>5. UNCHANGED <<buf, timer, carried, rest, shown>>
    BY <2>2 DEF batch
  <2> QED BY <2>1, <2>2, <2>3, <2>4, <2>5 DEF TypeOK
<1>8. CASE Appends \/ Parks \/ Refuses
  <2>1. /\ pc = "persist" /\ pc' = "done" /\ reply' \in {{}, text}
        /\ outcome' \in {"whole", "interrupted", "lost", "parked", "refused"}
    BY <1>8 DEF Appends, Parks, Refuses, Ended
  <2>2. UNCHANGED <<attempt, cancelled, fed, blank, response, result, batch>>
    BY <1>8 DEF Appends, Parks, Refuses, Ended
  <2>3. UNCHANGED <<text, final, told, erred, broke, buf, timer, carried, rest, shown>>
    BY <2>2 DEF response, batch
  <2> QED BY <2>1, <2>2, <2>3 DEF TypeOK
<1> QED BY <1>1, <1>2, <1>3, <1>4, <1>5, <1>6, <1>7, <1>8 DEF Next, Endpoint, Loop

\* Only an attempt that may have a successor is backed off from.
LEMMA CountedKept == ASSUME IInv, Next PROVE Counted'
<1> USE DEF IInv, Counted, Goto, At
<1>1. CASE BacksOff
  BY <1>1 DEF BacksOff, Spent
<1>2. CASE ~BacksOff
  <2>1. pc' = "backoff" => pc = "backoff" /\ attempt' = attempt
    BY <1>2 DEF Next, Endpoint, Loop, Timer, Opens, Receives, Terminates, Errs, Ends, Expires,
       Stops, Leaves, Returns, Retries, Abandons, Cancels, Closes, Flushes, Wakes, Takes,
       Publishes, Appends, Parks, Refuses, Ended
  <2> QED BY <2>1
<1> QED BY <1>1, <1>2

-----------------------------------------------------------------------------
(* What the operator saw and what the transcript keeps *)

\* An attempt nobody heard leaves nothing to see: all there was is white space.
LEMMA NothingSaid == ASSUME Spoken, ~Heard, pc # "open" PROVE Words = {}
BY DEF Spoken, Heard, Words

\* Every step keeps what is known of the words, and none drops them at the end.
LEMMA WordsKept == ASSUME IInv, Next PROVE Spoken' /\ WatchedIsKept'
<1> USE DEF IInv, Goto, At
<1>1. CASE Receives
  <2>1. 1..fed' = (1..fed) \cup {fed + 1}
    BY <1>1, NextPiece DEF Receives
  <2>2. Words' \subseteq Words \cup {fed + 1} /\ text' = text \cup {fed + 1}
    BY <1>1, <2>1 DEF Receives, Words
  <2>3. pc = "stream" /\ pc' = "stream" /\ result' # "nil"
    BY <1>1 DEF Receives, TypeOK
  <2> QED BY <2>2, <2>3 DEF Spoken, WatchedIsKept
<1>2. CASE ~Receives
  <2>1. fed' = fed /\ blank' = blank
    BY <1>2 DEF Next, Endpoint, Loop, Timer, Opens, Terminates, Errs, Ends, Expires, Stops,
         Leaves,
       Returns, BacksOff, Retries, Abandons, Cancels, Closes, Flushes, Wakes, Takes, Publishes,
       Appends, Parks, Refuses, Ended
  <2>2. Words' = Words
    BY <2>1 DEF Words
  <2>3. CASE Opens
    <3>1. Words = {} /\ pc' \in {"stream", "judge"}
      BY <2>3 DEF Opens, Spoken
    <3> QED BY <2>2, <3>1 DEF Spoken, WatchedIsKept
  <2>4. CASE BacksOff
    <3>1. Words = {} /\ pc' # "done"
      BY <2>4, NothingSaid DEF BacksOff, Final, Said
    <3> QED BY <2>2, <3>1 DEF Spoken, WatchedIsKept
  <2>5. CASE Retries \/ Abandons
    <3>1. Words = {} /\ pc' # "done"
      BY <2>5 DEF Retries, Abandons, Spoken
    <3> QED BY <2>2, <3>1 DEF Spoken, WatchedIsKept
  <2>6. CASE Appends \/ Refuses
    <3>1. pc = "persist" /\ pc' = "done" /\ text' = text /\ result' # "nil"
          /\ (outcome' \in {"lost", "refused"} \/ reply' = text)
      BY <2>6 DEF Appends, Refuses, Ended, response
    <3>2. Words \subseteq text
      BY <3>1 DEF Spoken
    <3> QED BY <2>1, <2>2, <3>1, <3>2 DEF Spoken, WatchedIsKept, Words
  <2>7. CASE Parks
    <3>1. pc = "persist" /\ pc' = "done" /\ UNCHANGED <<text, result>>
      BY <2>7 DEF Parks, Ended, response
    <3>2. result = "nil" \/ ~Heard
      BY <2>7 DEF Parks, Said
    <3>3. Words = {}
      BY <3>1, <3>2, NothingSaid DEF Spoken
    <3> QED BY <2>1, <2>2, <3>1, <3>3 DEF Spoken, WatchedIsKept, Words
  <2>8. CASE Returns
    <3>1. pc = "judge" /\ pc' = "close" /\ text' = text /\ result' # "nil"
      BY <2>8 DEF Returns, response
    <3> QED BY <2>2, <3>1 DEF Spoken, WatchedIsKept
  <2>9. CASE Terminates \/ Errs \/ Ends \/ Expires \/ Stops
    <3>1. pc = "stream" /\ pc' \in {"stream", "judge"} /\ UNCHANGED <<text, result>>
      BY <2>9 DEF Terminates, Errs, Ends, Expires, Stops, Leaves
    <3> QED BY <2>2, <3>1 DEF Spoken, WatchedIsKept
  <2>10. CASE Closes \/ Flushes
    <3>1. pc \in {"close", "flush"} /\ pc' \in {"flush", "persist"} /\ UNCHANGED <<text, result>>
      BY <2>10 DEF Closes, Flushes, response
    <3> QED BY <2>2, <3>1 DEF Spoken, WatchedIsKept
  <2>11. CASE Cancels \/ Timer
    <3>1. UNCHANGED <<pc, text, result, outcome, reply>>
      BY <2>11 DEF Cancels, Timer, Wakes, Takes, Publishes, response
    <3> QED BY <2>1, <2>2, <3>1 DEF Spoken, WatchedIsKept, Words
  <2> QED BY <1>2, <2>3, <2>4, <2>5, <2>6, <2>7, <2>8, <2>9, <2>10, <2>11
          DEF Next, Endpoint, Loop
<1> QED BY <1>1, <1>2

-----------------------------------------------------------------------------
(* The theorems *)

\* A step or a stutter keeps the invariant.
LEMMA Preserved == IInv /\ [Next]_vars => IInv'
<1> SUFFICES ASSUME IInv, [Next]_vars PROVE IInv'
    OBVIOUS
<1>1. CASE Next
  BY <1>1, Typed, OnceKept, CountedKept, WordsKept DEF IInv
<1>2. CASE UNCHANGED vars
  BY <1>2 DEF IInv, TypeOK, Once, Rested, Counted, Spoken, Words, WatchedIsKept, At,
     vars, response, batch
<1> QED BY <1>1, <1>2

\* The inductive invariant holds in every reachable state of a model call.
THEOREM Invariance == Spec => []IInv
BY Initially, Preserved, PTL DEF Spec

\* The types, and that the call's result and the step's outcome are set when the
\* retries, and the step, are over.
THEOREM TypeCorrect == Spec => []TypeOK
<1>1. IInv => TypeOK
  BY DEF IInv
<1> QED BY <1>1, Invariance, PTL

\* Whatever the order of the timer, its flush and the close, a text delta is published
\* exactly once.
THEOREM PiecesOnce == Spec => []Once
<1>1. IInv => Once
  BY DEF IInv
<1> QED BY <1>1, Invariance, PTL

\* No retry, cancellation or failure of the stream makes the transcript lose text
\* that the operator watched arrive.
THEOREM TextKept == Spec => []WatchedIsKept
<1>1. IInv => WatchedIsKept
  BY DEF IInv
<1> QED BY <1>1, Invariance, PTL

-----------------------------------------------------------------------------
(* EventStream *)

\* Messages committed whose event is not recorded yet.
Committed == {q \in Pubs : pub[q].at = "committed"}

\* Every event stands for a message of its own: no table runs ahead of the other.
Tables ==
    /\ rows \in 0..MaxRows /\ events \in Nat
    /\ pub \in [Pubs -> [at : {"idle", "committed", "recorded"}, row : 0..rows, id : 0..events]]
    /\ IsFiniteSet(Committed) /\ events + Cardinality(Committed) <= rows

\* What is on its way between the hub and the browser.
Pipes ==
    /\ quiet \in 0..MaxQuiet /\ faults \in 0..MaxFaults
    /\ conn \in {"closed", "subscribed", "live"}
    /\ chan \in Seq(0..events) /\ Len(chan) <= Buffer
    /\ wire \in Seq(0..events \cup {Opening})
    /\ owed \in 0..rows

Fetch == [after : Nat, upto : Nat]

\* One request at a time, and the cursor where it started.
Page ==
    /\ last = None \/ last \in 1..events
    /\ fetches \in Seq(Fetch) /\ Len(fetches) <= 1
    /\ \A i \in DOMAIN fetches : /\ fetches[i].after = cursor
                                 /\ fetches[i].upto \in cursor..rows \cup {Unread}
    /\ refetch \in BOOLEAN
    /\ cursor \in 0..rows /\ torn \subseteq 1..cursor

Shown == screen \in Seq(Nat) /\ ScreenInOrder

\* The inductive invariant of the event stream.
EventsIInv == Tables /\ Pipes /\ Page /\ Shown

\* The larger of two numbers is one of them, and none exceeds it.
LEMMA Larger == \A a, b \in Nat : /\ Max({a, b}) \in {a, b}
                                  /\ a <= Max({a, b}) /\ b <= Max({a, b})
<1> SUFFICES ASSUME NEW a \in Nat, NEW b \in Nat
             PROVE  /\ Max({a, b}) \in {a, b}
                    /\ a <= Max({a, b}) /\ b <= Max({a, b})
  OBVIOUS
<1>1. \E x \in {a, b} : \A y \in {a, b} : x >= y
  BY a >= b \/ b >= a
<1> QED BY <1>1 DEF Max

\* The smaller of two numbers is one of them, and exceeds none.
LEMMA Smaller == \A a, b \in Nat : /\ Min({a, b}) \in {a, b}
                                   /\ Min({a, b}) <= a /\ Min({a, b}) <= b
<1> SUFFICES ASSUME NEW a \in Nat, NEW b \in Nat
             PROVE  /\ Min({a, b}) \in {a, b}
                    /\ Min({a, b}) <= a /\ Min({a, b}) <= b
  OBVIOUS
<1>1. \E x \in {a, b} : \A y \in {a, b} : x <= y
  BY a >= b \/ b >= a
<1> QED BY <1>1 DEF Min

\* A table that grows keeps what was typed by it.
LEMMA Grows ==
    ASSUME NEW S, NEW T, S \subseteq T
    PROVE  Seq(S) \subseteq Seq(T)
BY SeqMonotonic

\* The page has just been rendered from an empty transcript.
LEMMA EventsInitially == EventInit => EventsIInv
<1> SUFFICES ASSUME EventInit PROVE EventsIInv
  OBVIOUS
<1>1. Committed = {}
  BY DEF EventInit, Committed, Free
<1>2. Tables
  BY <1>1, FS_EmptySet, EventStreamAssumption DEF EventInit, Tables, Free
<1>3. Pipes
  <2>1. <<>> \in Seq(0..events) /\ <<>> \in Seq(0..events \cup {Opening}) /\ Len(<<>>) = 0
    BY EmptySeq
  <2>2. quiet \in 0..MaxQuiet /\ faults \in 0..MaxFaults /\ 0 <= Buffer /\ owed \in 0..rows
    BY EventStreamAssumption DEF EventInit
  <2>3. chan = <<>> /\ wire = <<>> /\ conn = "closed"
    BY DEF EventInit
  <2> QED BY <2>1, <2>2, <2>3 DEF Pipes
<1>5. Page
  <2>1. fetches \in Seq(Fetch) /\ Len(fetches) = 0 /\ DOMAIN fetches = 1..0
    BY EmptySeq, LenProperties DEF EventInit
  <2>2. last = None /\ refetch = FALSE /\ cursor = 0 /\ rows = 0 /\ torn = {}
    BY DEF EventInit
  <2>3. \A i \in DOMAIN fetches : FALSE
    <3>1. 1..0 = {}
      OBVIOUS
    <3> QED BY <2>1, <3>1
  <2>4. fetches \in Seq(Fetch) /\ Len(fetches) <= 1
    BY <2>1
  <2>5. cursor \in 0..rows /\ torn \subseteq 1..cursor
    BY <2>2
  <2> QED BY <2>2, <2>3, <2>4, <2>5 DEF Page
<1>4. Shown
  BY DEF EventInit, Shown, ScreenInOrder, Range
<1> QED BY <1>2, <1>3, <1>5, <1>4 DEF EventsIInv

\* The hub's channel is typed and bounded whatever is sent.
LEMMA Sends ==
    ASSUME Pipes, Tables, NEW frame \in 0..events, Send(frame)
    PROVE  chan' \in Seq(0..events) /\ Len(chan') <= Buffer
<1>1. CASE conn = "closed"
  BY <1>1, EventStreamAssumption DEF Send
<1>2. CASE conn # "closed"
  <2>1. chan' = Offered(frame)
    BY <1>2 DEF Send
  <2>2. CASE Len(chan) < Buffer
    <3>1. chan' = Append(chan, frame)
      BY <2>1, <2>2 DEF Offered
    <3> QED BY <2>2, <3>1, AppendProperties, EventStreamAssumption DEF Pipes
  <2> QED BY <2>1, <2>2 DEF Offered, Pipes
<1> QED BY <1>1, <1>2

\* Only a commit and the recording of its event move the tables.
LEMMA TablesStep == EventsIInv /\ [EventNext]_eventVars => Tables'
<1> SUFFICES ASSUME EventsIInv, [EventNext]_eventVars PROVE Tables'
  OBVIOUS
<1> USE DEF EventsIInv
<1>1. ASSUME NEW q \in Pubs, Commits(q) PROVE Tables'
  <2>1. Committed' = Committed \cup {q} /\ q \notin Committed
    BY <1>1 DEF Commits, Committed, Tables
  <2>2. IsFiniteSet(Committed') /\ Cardinality(Committed') = Cardinality(Committed) + 1
    BY <2>1, FS_AddElement DEF Tables
  <2>3. pub' \in [Pubs -> [at : {"idle", "committed", "recorded"}, row : 0..rows', id : 0..events']]
    BY <1>1 DEF Commits, Tables
  <2> QED BY <1>1, <2>2, <2>3, FS_CardinalityType, EventStreamAssumption DEF Commits, Tables
<1>2. ASSUME NEW q \in Pubs, Records(q) PROVE Tables'
  <2>1. Committed' = Committed \ {q} /\ q \in Committed
    BY <1>2 DEF Records, Committed, Tables
  <2>2. IsFiniteSet(Committed') /\ Cardinality(Committed') = Cardinality(Committed) - 1
    BY <2>1, FS_RemoveElement DEF Tables
  <2>3. pub' \in [Pubs -> [at : {"idle", "committed", "recorded"}, row : 0..rows', id : 0..events']]
    BY <1>2 DEF Records, Tables
  <2> QED BY <1>2, <2>2, <2>3, FS_CardinalityType DEF Records, Tables
<1>3. ASSUME NEW q \in Pubs, RecordFails(q) PROVE Tables'
  <2>1. Committed' = Committed \ {q} /\ q \in Committed
    BY <1>3 DEF RecordFails, Free, Committed, Tables
  <2>2. IsFiniteSet(Committed') /\ Cardinality(Committed') = Cardinality(Committed) - 1
    BY <2>1, FS_RemoveElement DEF Tables
  <2>3. pub' \in [Pubs -> [at : {"idle", "committed", "recorded"}, row : 0..rows', id : 0..events']]
    BY <1>3 DEF RecordFails, Free, Tables
  <2> QED BY <1>3, <2>2, <2>3, FS_CardinalityType DEF RecordFails, Tables
<1>4. ASSUME NEW q \in Pubs, HandsToHub(q) PROVE Tables'
  <2>1. Committed' = Committed
    BY <1>4 DEF HandsToHub, Free, Committed, Tables
  <2>2. pub' \in [Pubs -> [at : {"idle", "committed", "recorded"}, row : 0..rows', id : 0..events']]
    BY <1>4 DEF HandsToHub, Free, Tables
  <2> QED BY <1>4, <2>1, <2>2 DEF HandsToHub, Tables
<1>5. CASE Restarts
  <2>1. Committed' = {}
    BY <1>5 DEF Restarts, Free, Committed
  <2>2. pub' \in [Pubs -> [at : {"idle", "committed", "recorded"}, row : 0..rows', id : 0..events']]
    BY <1>5 DEF Restarts, Free, Tables
  <2> QED BY <1>5, <2>1, <2>2, FS_EmptySet, FS_CardinalityType DEF Restarts, Tables
<1>6. CASE UNCHANGED server
  BY <1>6 DEF server, Tables, Committed
<1>7. CASE Handle \/ Browse \/ Murmurs \/ Disconnects \/ FetchFails \/ FetchTears \/ UNCHANGED eventVars
  BY <1>6, <1>7 DEF Handle, Subscribes, Replays, Forwards, Browse, Reconciles, TakesFrame,
       FetchReads,
     FetchLands, Murmurs, Disconnects, FetchFails, FetchTears, eventVars, server
<1> QED BY <1>1, <1>2, <1>3, <1>4, <1>5, <1>7 DEF EventNext, Publish

\* Frames name recorded events, and a full channel takes no more.
LEMMA PipesStep == EventsIInv /\ [EventNext]_eventVars => Pipes'
<1> SUFFICES ASSUME EventsIInv, [EventNext]_eventVars PROVE Pipes'
  OBVIOUS
<1> USE DEF EventsIInv
<1>0. events \in Nat /\ events <= rows /\ rows <= MaxRows /\ MaxRows \in Nat
  BY FS_CardinalityType, EventStreamAssumption DEF Tables
<1>1. ASSUME NEW q \in Pubs, Commits(q) \/ RecordFails(q) PROVE Pipes'
  BY <1>1, EventStreamAssumption DEF Commits, RecordFails, Fault, Pipes, Tables
<1>2. ASSUME NEW q \in Pubs, Records(q) PROVE Pipes'
  <2>1. 0..events \subseteq 0..events' /\ 0..events \cup {Opening} \subseteq 0..events' \cup {Opening}
    BY <1>0, <1>2 DEF Records
  <2>2. chan \in Seq(0..events') /\ wire \in Seq(0..events' \cup {Opening})
    BY <2>1, Grows DEF Pipes
  <2> QED BY <1>2, <2>2 DEF Records, Pipes
<1>3. ASSUME NEW q \in Pubs, HandsToHub(q) PROVE Pipes'
  <2>1. pub[q].id \in 0..events /\ pub[q].row \in 0..rows
    BY DEF Tables
  <2>2. chan' \in Seq(0..events) /\ Len(chan') <= Buffer
    BY <1>3, <2>1, Sends DEF HandsToHub
  <2>3. owed' \in 0..rows
    <3>1. owed \in Nat /\ pub[q].row \in Nat /\ owed <= rows /\ pub[q].row <= rows
      BY <1>0, <2>1 DEF Pipes, Tables
    <3>2. Max({owed, pub[q].row}) \in {owed, pub[q].row}
      BY <3>1, Larger
    <3>3. owed' \in {owed, pub[q].row}
      BY <1>3, <3>2 DEF HandsToHub
    <3> QED BY <2>1, <3>3 DEF Pipes
  <2> QED BY <1>3, <2>2, <2>3 DEF HandsToHub, Pipes
<1>4. CASE Murmurs
  <2>0. Quiet \in 0..events
    BY <1>0 DEF Quiet
  <2>1. chan' \in Seq(0..events) /\ Len(chan') <= Buffer
    BY <1>4, <2>0, Sends DEF Murmurs
  <2> QED BY <1>4, <2>1, EventStreamAssumption DEF Murmurs, Pipes, server
<1>5. CASE Subscribes
  <2>1. <<>> \in Seq(0..events) /\ <<Opening>> \in Seq(0..events \cup {Opening})
    BY EmptySeq
  <2> QED BY <1>5, <2>1, EmptySeq, EventStreamAssumption DEF Subscribes, Pipes, server
<1>6. CASE Replays
  <2>1. Missed \in Seq(0..events \cup {Opening})
    <3>1. CASE last = None
      BY <3>1 DEF Missed
    <3>2. CASE last # None
      <4>1. last \in 1..events
        BY <3>2 DEF Page
      <4>2. Min({ReplayLimit, events - last}) \in 0..(events - last)
        BY <1>0, <4>1, Smaller, EventStreamAssumption
      <4> DEFINE n == Min({ReplayLimit, events - last})
      <4>3. [i \in 1..n |-> last + i] \in [1..n -> 0..events \cup {Opening}]
        BY <1>0, <4>1, <4>2
      <4>4. n \in Nat
        BY <1>0, <4>1, <4>2
      <4>5. [i \in 1..n |-> last + i] \in Seq(0..events \cup {Opening})
        BY <4>3, <4>4, SeqDef
      <4> QED BY <3>2, <4>5 DEF Missed
    <3> QED BY <3>1, <3>2
  <2>2. wire' \in Seq(0..events \cup {Opening})
    <3>1. wire \in Seq(0..events \cup {Opening}) /\ wire' \in {wire, wire \o Missed}
      BY <1>6 DEF Replays, Pipes
    <3>2. wire \o Missed \in Seq(0..events \cup {Opening})
      BY <2>1, <3>1, ConcatProperties
    <3> QED BY <3>1, <3>2
  <2> QED BY <1>6, <2>2 DEF Replays, Pipes, server
<1>7. CASE Forwards
  <2>0. chan \in Seq(0..events) /\ chan # <<>> /\ Len(chan) \in Nat /\ Len(chan) <= Buffer
    BY <1>7, LenProperties DEF Forwards, Pipes
  <2>1. Head(chan) \in 0..events /\ Tail(chan) \in Seq(0..events) /\ Len(Tail(chan)) = Len(chan) - 1
    BY <2>0, HeadTailProperties
  <2>3. Len(Tail(chan)) <= Buffer
    BY <2>0, <2>1, EventStreamAssumption
  <2>2. <<Head(chan)>> \in Seq(0..events \cup {Opening})
    BY <2>1
  <2> QED BY <1>7, <2>1, <2>2, <2>3 DEF Forwards, Pipes, server
<1>8. CASE Disconnects \/ Restarts
  <2>1. conn' = "closed" /\ chan' = <<>> /\ wire' = <<>> /\ faults' \in 0..MaxFaults
    BY <1>8, EventStreamAssumption DEF Disconnects, Restarts, Closed, Fault, Pipes
  <2>2. events' = events /\ rows' = rows /\ quiet' = quiet /\ owed' = owed
    BY <1>8 DEF Disconnects, Restarts, server
  <2> QED BY <2>1, <2>2, EmptySeq, EventStreamAssumption DEF Pipes
<1>9. CASE Reconciles \/ TakesFrame
  <2>1. Tail(wire) \in Seq(0..events \cup {Opening})
    BY <1>9, HeadTailProperties DEF Reconciles, TakesFrame, Pipes
  <2> QED BY <1>9, <2>1 DEF Reconciles, TakesFrame, Pipes, server
<1>10. CASE FetchReads \/ FetchLands \/ UNCHANGED eventVars
  BY <1>10 DEF FetchReads, FetchLands, Pipes, server, browser, eventVars
<1>11. CASE FetchTears
  BY <1>11, EventStreamAssumption DEF FetchTears, Fault, Pipes, server
<1>12. CASE FetchFails
  <2>1. owed' \in 0..rows
    BY <1>0, <1>12, Smaller DEF FetchFails, Pipes, Page
  <2> QED BY <1>12, <2>1, EventStreamAssumption DEF FetchFails, Fault, Pipes, server
<1> QED BY <1>1, <1>2, <1>3, <1>4, <1>5, <1>6, <1>7, <1>8, <1>9, <1>10, <1>11, <1>12
     DEF EventNext, Publish, Handle, Browse

\* The request in flight is the only one, and nothing is left when it is over.
LEMMA Alone ==
    ASSUME EventsIInv, NEW i \in DOMAIN fetches
    PROVE  /\ i = 1 /\ Len(fetches) = 1 /\ RemoveAt(fetches, i) = <<>>
           /\ fetches[i] \in Fetch /\ fetches[i].after = cursor
           /\ fetches[i].upto # Unread => fetches[i].upto \in cursor..rows
<1>1. fetches \in Seq(Fetch) /\ Len(fetches) <= 1 /\ DOMAIN fetches = 1..Len(fetches) /\ Len(fetches) \in Nat
  BY LenProperties DEF EventsIInv, Page
<1>2. i = 1 /\ Len(fetches) = 1
  BY <1>1
<1>3. RemoveAt(fetches, i) = SubSeq(fetches, 1, 0) \o SubSeq(fetches, 2, 1)
  BY <1>2 DEF RemoveAt
<1>4. SubSeq(fetches, 1, 0) = <<>> /\ SubSeq(fetches, 2, 1) = <<>>
  BY SubSeqEmpty
<1>5. RemoveAt(fetches, i) = <<>>
  BY <1>3, <1>4, EmptySeq, ConcatEmptySeq
<1>6. fetches[i] \in Fetch
  BY <1>1, <1>2, ElementOfSeq
<1> QED BY <1>2, <1>5, <1>6 DEF EventsIInv, Page

\* A request that ends is followed by at most one, which asks from its cursor on.
LEMMA OneFollows ==
    ASSUME EventsIInv, NEW i \in DOMAIN fetches, NEW to \in 0..rows, FetchEnds(i, to)
    PROVE  /\ fetches' \in Seq(Fetch) /\ Len(fetches') <= 1
           /\ \A k \in DOMAIN fetches' : fetches'[k].after = to /\ fetches'[k].upto = Unread
           /\ refetch' = FALSE /\ cursor' = to
<1> DEFINE again == [after |-> to, upto |-> Unread]
<1>1. RemoveAt(fetches, i) = <<>>
  BY Alone
<1>2. fetches' = <<again>> \/ fetches' = <<>>
  <2>1. fetches' = IF refetch THEN Append(<<>>, again) ELSE <<>>
    BY <1>1 DEF FetchEnds
  <2>2. Append(<<>>, again) = <<again>>
    OBVIOUS
  <2> QED BY <2>1, <2>2
<1>3. again \in Fetch
  BY EventStreamAssumption DEF Fetch, Unread, EventsIInv, Tables
<1>4. refetch' = FALSE /\ cursor' = to /\ again.after = to /\ again.upto = Unread
  BY DEF FetchEnds
<1> HIDE DEF again
<1>5. CASE fetches' = <<again>>
  <2>1. <<again>> \in Seq(Fetch) /\ Len(<<again>>) = 1 /\ <<again>>[1] = again /\ DOMAIN <<again>> = 1..1
    BY <1>3
  <2> QED BY <1>4, <1>5, <2>1
<1>6. CASE fetches' = <<>>
  <2>1. <<>> \in Seq(Fetch) /\ Len(<<>>) = 0 /\ DOMAIN <<>> = 1..0
    BY EmptySeq, LenProperties
  <2> QED BY <1>4, <1>6, <2>1
<1> QED BY <1>2, <1>5, <1>6

\* What a response covers: the ids after the cursor, up to its own.
LEMMA CoversTheRest ==
    ASSUME NEW fetch \in Fetch, fetch.after <= fetch.upto
    PROVE  /\ Covered(fetch) \in Seq(Nat) /\ Len(Covered(fetch)) = fetch.upto - fetch.after
           /\ \A k \in 1..(fetch.upto - fetch.after) : Covered(fetch)[k] = fetch.after + k
           /\ Range(Covered(fetch)) = fetch.after + 1..fetch.upto
<1> DEFINE n == fetch.upto - fetch.after
           c == Covered(fetch)
<1>1. fetch.after \in Nat /\ fetch.upto \in Nat /\ n \in Nat
  BY DEF Fetch
<1>2. c = [k \in 1..n |-> fetch.after + k]
  BY DEF Covered
<1>3. c \in [1..n -> Nat]
  BY <1>1, <1>2
<1>4. c \in Seq(Nat)
  BY <1>1, <1>3, SeqDef
<1>5. Len(c) = n
  BY <1>1, <1>3, <1>4, LenProperties
<1>6. Range(c) = fetch.after + 1..fetch.upto
  <2>1. Range(c) = {c[k] : k \in 1..n}
    BY <1>3 DEF Range
  <2>2. ASSUME NEW x \in fetch.after + 1..fetch.upto PROVE x \in Range(c)
    <3>1. x - fetch.after \in 1..n /\ c[x - fetch.after] = x
      BY <1>1, <1>2
    <3> QED BY <2>1, <3>1
  <2>3. ASSUME NEW k \in 1..n PROVE c[k] \in fetch.after + 1..fetch.upto
    BY <1>1, <1>2
  <2> QED BY <2>1, <2>2, <2>3
<1> QED BY <1>2, <1>4, <1>5, <1>6

\* The cursor never moves while a request that started from it is in flight.
LEMMA PageStep == EventsIInv /\ [EventNext]_eventVars => Page'
<1> SUFFICES ASSUME EventsIInv, [EventNext]_eventVars PROVE Page'
  OBVIOUS
<1> USE DEF EventsIInv
<1>0. /\ events \in Nat /\ events <= rows /\ rows \in Nat /\ rows <= MaxRows /\ MaxRows \in Nat
      /\ cursor \in 0..rows
  BY FS_CardinalityType, EventStreamAssumption DEF Tables, Page
<1>1. ASSUME TailCalled, rows' = rows, events' = events, last' = None \/ last' \in 1..events,
             UNCHANGED <<cursor, torn>>
      PROVE  Page'
  <2>1. CASE Waits
    BY <1>1, <2>1 DEF TailCalled, Page, Fetch
  <2>2. CASE ~Waits
    <3> DEFINE first == [after |-> cursor, upto |-> Unread]
    <3>1. first \in Fetch
      BY <1>0 DEF Fetch, Unread
    <3>2. fetches' = Append(<<>>, first) /\ refetch' = refetch
      BY <1>1, <2>2 DEF TailCalled, Waits
    <3>3. fetches' = <<first>>
      BY <3>2
    <3>4. /\ fetches' \in Seq(Fetch) /\ Len(fetches') <= 1
          /\ \A i \in DOMAIN fetches' : fetches'[i].after = cursor /\ fetches'[i].upto = Unread
      BY <3>1, <3>3
    <3> QED BY <1>1, <3>2, <3>4 DEF Page, Unread, Fetch
  <2> QED BY <2>1, <2>2
<1>2. ASSUME UNCHANGED browser, rows <= rows', events <= events', rows' \in Nat, events' \in Nat
      PROVE  Page'
  BY <1>0, <1>2 DEF browser, Page, Fetch, None, Unread
<1>3. ASSUME NEW q \in Pubs, Commits(q) \/ Publish(q) \/ RecordFails(q) PROVE Page'
  BY <1>0, <1>2, <1>3 DEF Commits, Publish, Records, HandsToHub, RecordFails
<1>4. CASE Handle \/ Murmurs \/ Disconnects \/ Restarts \/ UNCHANGED eventVars
  BY <1>0, <1>2, <1>4 DEF Handle, Subscribes, Replays, Forwards, Murmurs, Disconnects, Restarts,
     eventVars, server
<1>5. CASE Reconciles
  BY <1>1, <1>5 DEF Reconciles, server, Page
<1>6. CASE TakesFrame
  <2>1. rows' = rows /\ events' = events /\ cursor' = cursor /\ torn' = torn
    BY <1>6 DEF TakesFrame, server
  <2>2. CASE Head(wire) = Quiet
    BY <1>6, <2>1, <2>2 DEF TakesFrame, Page, Fetch
  <2>3. CASE Head(wire) # Quiet
    <3>1. Head(wire) \in 0..events \cup {Opening}
      BY <1>6, HeadTailProperties DEF TakesFrame, Pipes
    <3>2. Head(wire) \in 1..events
      BY <1>0, <1>6, <2>3, <3>1 DEF TakesFrame, Quiet
    <3> QED BY <1>1, <1>6, <2>1, <2>3, <3>2 DEF TakesFrame
  <2> QED BY <2>2, <2>3
<1>7. CASE FetchReads
  <2>1. PICK i \in DOMAIN fetches : fetches' = [fetches EXCEPT ![i].upto = rows]
    BY <1>7 DEF FetchReads
  <2>2. fetches \in Seq(Fetch) /\ i \in 1..Len(fetches) /\ fetches[i] \in Fetch /\ fetches[i].after = cursor
    BY Alone, LenProperties DEF Page
  <2> DEFINE read == [fetches[i] EXCEPT !.upto = rows]
  <2>3. read \in Fetch /\ read.after = cursor /\ read.upto = rows
    BY <1>0, <2>2 DEF Fetch
  <2>4. fetches' = [fetches EXCEPT ![i] = read]
    BY <2>1
  <2> HIDE DEF read
  <2>5. /\ fetches' \in Seq(Fetch) /\ Len(fetches') = Len(fetches)
        /\ \A j \in 1..Len(fetches) : fetches'[j] = IF j = i THEN read ELSE fetches[j]
    BY <2>2, <2>3, <2>4, ExceptSeq
  <2>6. DOMAIN fetches' = 1..Len(fetches) /\ DOMAIN fetches = 1..Len(fetches)
    BY <2>2, <2>5, LenProperties
  <2>7. \A j \in DOMAIN fetches' : fetches'[j].after = cursor /\ fetches'[j].upto \in cursor..rows \cup {Unread}
    BY <1>0, <2>3, <2>5, <2>6 DEF Page
  <2> QED BY <1>7, <2>5, <2>7 DEF FetchReads, Page, server, Fetch, Unread, None
<1>8. ASSUME NEW i \in DOMAIN fetches, fetches[i].upto # Unread, FetchEnds(i, Max({cursor, fetches[i].upto})),
             UNCHANGED server, UNCHANGED last,
             torn' = torn \/ torn' = torn \cup Range(Covered(fetches[i]))
      PROVE  Page'
  <2>1. fetches[i] \in Fetch /\ fetches[i].after = cursor /\ fetches[i].upto \in cursor..rows
    BY <1>8, Alone
  <2>2. Max({cursor, fetches[i].upto}) = fetches[i].upto
    BY <1>0, <2>1, Larger
  <2>3. /\ fetches' \in Seq(Fetch) /\ Len(fetches') <= 1 /\ cursor' = fetches[i].upto
        /\ \A k \in DOMAIN fetches' : fetches'[k].after = cursor' /\ fetches'[k].upto = Unread
        /\ refetch' = FALSE
    <3>1. fetches[i].upto \in 0..rows /\ FetchEnds(i, fetches[i].upto)
      BY <1>0, <1>8, <2>1, <2>2
    <3> QED BY <3>1, OneFollows
  <2>4. torn' \subseteq 1..cursor'
    <3>1. torn \subseteq 1..cursor /\ cursor \in Nat /\ fetches[i].upto \in Nat
      BY <1>0, <2>1 DEF Page
    <3>2. Range(Covered(fetches[i])) = cursor + 1..fetches[i].upto
      BY <2>1, <3>1, CoversTheRest
    <3>3. cursor <= fetches[i].upto
      BY <2>1, <3>1
    <3>4. torn' \subseteq 1..cursor \cup cursor + 1..fetches[i].upto
      BY <1>8, <3>1, <3>2
    <3> QED BY <2>3, <3>1, <3>3, <3>4
  <2>5. cursor' \in 0..rows'
    BY <1>0, <1>8, <2>1, <2>3 DEF server
  <2>6. \A k \in DOMAIN fetches' : fetches'[k].after = cursor' /\ fetches'[k].upto \in cursor'..rows' \cup {Unread}
    BY <2>3
  <2>7. last' = None \/ last' \in 1..events'
    BY <1>8 DEF Page, server
  <2> QED BY <2>3, <2>4, <2>5, <2>6, <2>7 DEF Page, server, Fetch, None, Unread
<1>9. CASE FetchLands \/ FetchTears
  BY <1>8, <1>9 DEF FetchLands, FetchTears
<1>10. CASE FetchFails
  <2>1. 1 \in DOMAIN fetches
    BY <1>10, EmptySeq, LenProperties DEF FetchFails, Page
  <2>2. /\ fetches' \in Seq(Fetch) /\ Len(fetches') <= 1 /\ cursor' = cursor
        /\ \A k \in DOMAIN fetches' : fetches'[k].after = cursor' /\ fetches'[k].upto = Unread
        /\ refetch' = FALSE
    BY <1>0, <1>10, <2>1, OneFollows DEF FetchFails
  <2> QED BY <1>10, <2>2 DEF FetchFails, Page, server, Fetch, None, Unread
<1> QED BY <1>3, <1>4, <1>5, <1>6, <1>7, <1>9, <1>10 DEF EventNext, Browse

\* What two pieces of the page show together.
LEMMA Together ==
    ASSUME NEW s \in Seq(Nat), NEW t \in Seq(Nat)
    PROVE  Range(s \o t) = Range(s) \cup Range(t)
BY RangeConcatenation

\* The page grows by what lies between two cursors, or not at all.
LEMMA ShownStep == EventsIInv /\ [EventNext]_eventVars => Shown'
<1> SUFFICES ASSUME EventsIInv, [EventNext]_eventVars PROVE Shown'
  OBVIOUS
<1> USE DEF EventsIInv
<1>1. CASE UNCHANGED <<screen, cursor, torn>>
  BY <1>1 DEF Shown, ScreenInOrder
<1>2. CASE FetchLands
  <2>1. PICK i \in DOMAIN fetches : /\ fetches[i].upto # Unread
                                    /\ screen' = screen \o Covered(fetches[i])
                                    /\ FetchEnds(i, Max({cursor, fetches[i].upto}))
                                    /\ torn' = torn
    BY <1>2 DEF FetchLands
  <2> DEFINE c == Covered(fetches[i])
             n == fetches[i].upto - cursor
  <2>2. fetches[i] \in Fetch /\ fetches[i].after = cursor /\ fetches[i].upto \in cursor..rows
    BY <2>1, Alone
  <2>3. cursor \in Nat /\ fetches[i].upto \in Nat /\ cursor <= fetches[i].upto /\ n \in Nat
    BY <2>2 DEF Fetch
  <2>4. cursor' = fetches[i].upto
    BY <2>1, <2>3, Larger DEF FetchEnds
  <2>5. /\ c \in Seq(Nat) /\ Len(c) = n /\ \A k \in 1..n : c[k] = cursor + k
        /\ Range(c) = cursor + 1..fetches[i].upto
    BY <2>2, <2>3, CoversTheRest
  <2>6. /\ screen' \in Seq(Nat) /\ Len(screen') = Len(screen) + n /\ Len(screen) \in Nat
        /\ \A k \in 1..Len(screen) + n : screen'[k] = IF k <= Len(screen) THEN screen[k] ELSE c[k - Len(screen)]
    BY <2>1, <2>5, ConcatProperties, LenProperties DEF Shown
  <2>7. Range(screen') = Range(screen) \cup Range(c)
    <3>1. screen \in Seq(Nat)
      BY DEF Shown
    <3>2. Range(screen \o c) = Range(screen) \cup Range(c)
      BY <2>5, <3>1, Together
    <3> QED BY <2>1, <3>2
  <2>8. Range(screen') = (1..cursor') \ torn'
    <3>1. Range(screen) = (1..cursor) \ torn /\ torn \subseteq 1..cursor
      BY DEF Shown, ScreenInOrder, Page
    <3> QED BY <2>1, <2>3, <2>4, <2>5, <2>7, <3>1
  <2> HIDE DEF c, n
  <2>9. DOMAIN screen' = 1..Len(screen) + n /\ DOMAIN screen = 1..Len(screen)
    BY <2>6, LenProperties DEF Shown
  <2>10. \A k \in DOMAIN screen : screen[k] \in Nat /\ screen[k] <= cursor
    <3>1. \A k \in DOMAIN screen : screen[k] \in Range(screen)
      BY DEF Range
    <3> QED BY <2>3, <3>1 DEF Shown, ScreenInOrder
  <2>11. ASSUME NEW j \in DOMAIN screen', NEW k \in DOMAIN screen', j < k PROVE screen'[j] < screen'[k]
    <3>1. CASE k <= Len(screen)
      <4>1. j \in DOMAIN screen /\ k \in DOMAIN screen /\ screen'[j] = screen[j] /\ screen'[k] = screen[k]
        BY <2>6, <2>9, <2>11, <3>1
      <4> QED BY <2>11, <4>1 DEF Shown, ScreenInOrder
    <3>2. CASE k > Len(screen) /\ j <= Len(screen)
      <4>1. k - Len(screen) \in 1..n /\ screen'[k] = c[k - Len(screen)]
        BY <2>3, <2>6, <2>9, <3>2
      <4>2. screen'[k] = cursor + (k - Len(screen))
        BY <2>5, <4>1
      <4>3. j \in DOMAIN screen /\ screen'[j] = screen[j]
        BY <2>6, <2>9, <3>2
      <4> QED BY <2>3, <2>6, <2>10, <4>1, <4>2, <4>3
    <3>3. CASE j > Len(screen)
      <4>0. /\ j \in 1..Len(screen) + n /\ k \in 1..Len(screen) + n /\ j < k
            /\ j > Len(screen) /\ k > Len(screen) /\ Len(screen) \in Nat /\ n \in Nat
        BY <2>3, <2>6, <2>9, <2>11, <3>3
      <4>1. /\ k - Len(screen) \in 1..n /\ screen'[k] = c[k - Len(screen)]
            /\ j - Len(screen) \in 1..n /\ screen'[j] = c[j - Len(screen)]
        BY <2>6, <4>0
      <4>2. screen'[k] = cursor + (k - Len(screen)) /\ screen'[j] = cursor + (j - Len(screen))
        BY <2>5, <4>1
      <4> QED BY <2>3, <4>0, <4>2
    <3> QED BY <2>6, <2>9, <3>1, <3>2, <3>3
  <2> QED BY <2>6, <2>8, <2>11 DEF Shown, ScreenInOrder
<1>3. CASE FetchTears
  <2>1. PICK i \in DOMAIN fetches : /\ fetches[i].upto # Unread
                                    /\ torn' = torn \cup Range(Covered(fetches[i]))
                                    /\ FetchEnds(i, Max({cursor, fetches[i].upto}))
                                    /\ screen' = screen
    BY <1>3 DEF FetchTears
  <2>2. fetches[i] \in Fetch /\ fetches[i].after = cursor /\ fetches[i].upto \in cursor..rows
    BY <2>1, Alone
  <2>3. cursor \in Nat /\ fetches[i].upto \in Nat /\ cursor <= fetches[i].upto
    BY <2>2 DEF Fetch
  <2>4. cursor' = fetches[i].upto
    BY <2>1, <2>3, Larger DEF FetchEnds
  <2>5. Range(Covered(fetches[i])) = cursor + 1..fetches[i].upto
    BY <2>2, <2>3, CoversTheRest
  <2>6. Range(screen) = (1..cursor') \ torn'
    <3>1. Range(screen) = (1..cursor) \ torn /\ torn \subseteq 1..cursor
      BY DEF Shown, ScreenInOrder, Page
    <3> QED BY <2>1, <2>3, <2>4, <2>5, <3>1
  <2> QED BY <2>1, <2>6 DEF Shown, ScreenInOrder
<1>4. CASE FetchFails
  <2>1. cursor' = cursor /\ screen' = screen /\ torn' = torn
    BY <1>4 DEF FetchFails, FetchEnds
  <2> QED BY <1>1, <2>1
<1> QED BY <1>1, <1>2, <1>3, <1>4 DEF EventNext, Publish, Commits, Records, RecordFails,
     HandsToHub, Handle,
     Subscribes, Replays, Forwards, Browse, Reconciles, TakesFrame, FetchReads, Murmurs,
          Disconnects, Restarts,
     browser, eventVars

\* The types the runs check follow from the inductive invariant.
LEMMA EventsTypes == EventsIInv => EventTypeOK
<1> SUFFICES ASSUME EventsIInv PROVE EventTypeOK
  OBVIOUS
<1>1. events \in 0..rows /\ rows \in 0..MaxRows
  BY FS_CardinalityType, EventStreamAssumption DEF EventsIInv, Tables
<1>2. torn \subseteq 1..rows
  BY <1>1, EventStreamAssumption DEF EventsIInv, Page
<1>3. \A i \in DOMAIN fetches : /\ fetches[i].after \in 0..rows
                                /\ fetches[i].upto \in fetches[i].after..rows \cup {Unread}
  BY DEF EventsIInv, Page
<1>4. Tables /\ Pipes /\ Page
  BY DEF EventsIInv
<1> QED BY <1>1, <1>2, <1>3, <1>4 DEF EventTypeOK, Tables, Pipes, Page

\* The inductive invariant, of every behaviour.
LEMMA EventsInvariance == EventSpec => []EventsIInv
<1>1. EventsIInv /\ [EventNext]_eventVars => EventsIInv'
  BY TablesStep, PipesStep, PageStep, ShownStep DEF EventsIInv
<1> QED BY EventsInitially, <1>1, PTL DEF EventSpec

\* Every frame names a recorded event, the channel holds no more than its
\* buffer, and a response covers no less than its request asked to skip.
THEOREM EventsTypeCorrect == EventSpec => []EventTypeOK
<1>1. EventsIInv => EventTypeOK
  BY EventsTypes
<1> QED BY EventsInvariance, <1>1, PTL

\* tail, the hub and handleEvents: however frames, responses, reconnects and
\* restarts interleave, the page shows every message up to its cursor once and
\* in order, but for those of a response that broke off.
THEOREM InOrder == EventSpec => []ScreenInOrder
<1>1. EventsIInv => ScreenInOrder
  BY DEF EventsIInv, Shown
<1> QED BY EventsInvariance, <1>1, PTL

-----------------------------------------------------------------------------
(* The page as a log *)

\* The empty page of an empty conversation.
LEMMA LogInitially == EventInit => Log!Init
BY DEF EventInit, Log!Init

\* What an answer says of the messages between two cursors: it covers them all,
\* in order, or it is of no news.
LEMMA Answers ==
    ASSUME EventsIInv, NEW i \in DOMAIN fetches, fetches[i].upto # Unread,
           FetchEnds(i, Max({cursor, fetches[i].upto}))
    PROVE  /\ Covered(fetches[i]) = [k \in 1..(cursor' - cursor) |-> cursor + k]
           /\ Range(Covered(fetches[i])) = cursor + 1..cursor'
           /\ cursor' \in cursor + 1..rows \/ cursor' = cursor
           /\ cursor' = cursor => Covered(fetches[i]) = <<>>
<1>1. /\ fetches[i] \in Fetch /\ fetches[i].after = cursor
      /\ fetches[i].upto \in cursor..rows
  BY Alone
<1>2. cursor \in Nat /\ rows \in Nat /\ fetches[i].upto \in Nat /\ cursor <= fetches[i].upto
  BY <1>1, EventStreamAssumption DEF Fetch, EventsIInv, Tables
<1>3. cursor' = fetches[i].upto
  BY <1>2, Larger DEF FetchEnds
<1>4. Covered(fetches[i]) = [k \in 1..(cursor' - cursor) |-> cursor + k]
  BY <1>1, <1>3 DEF Covered
<1>5. Range(Covered(fetches[i])) = cursor + 1..cursor'
  BY <1>1, <1>2, <1>3, CoversTheRest
<1>6. ASSUME cursor' = cursor PROVE Covered(fetches[i]) = <<>>
  <2>1. /\ Covered(fetches[i]) \in Seq(Nat)
        /\ Len(Covered(fetches[i])) = fetches[i].upto - fetches[i].after
    BY <1>1, <1>2, CoversTheRest
  <2>2. fetches[i].upto = cursor /\ fetches[i].after = cursor
    BY <1>1, <1>3, <1>6
  <2>3. Len(Covered(fetches[i])) = 0
    BY <1>2, <2>1, <2>2
  <2> QED BY <2>1, <2>3, EmptySeq
<1> QED BY <1>1, <1>2, <1>3, <1>4, <1>5, <1>6

\* Every step of the stream appends to the log, passes a block over, writes a
\* message, or shows nothing of itself.
LEMMA LogStep == EventsIInv /\ [EventNext]_eventVars => [Log!Next]_(Log!vars)
<1> SUFFICES ASSUME EventsIInv, [EventNext]_eventVars PROVE [Log!Next]_(Log!vars)
  OBVIOUS
<1>1. CASE UNCHANGED <<rows, cursor, screen, torn>>
  BY <1>1 DEF Log!vars
<1>2. ASSUME NEW q \in Pubs, Commits(q) PROVE Log!Writes
  BY <1>2 DEF Commits, browser, Log!Writes
<1>3. CASE FetchLands
  <2>1. PICK i \in DOMAIN fetches : /\ fetches[i].upto # Unread
                                    /\ screen' = screen \o Covered(fetches[i])
                                    /\ FetchEnds(i, Max({cursor, fetches[i].upto}))
                                    /\ torn' = torn /\ rows' = rows
    BY <1>3 DEF FetchLands, server
  <2>2. CASE cursor' \in cursor + 1..rows
    <3>1. screen' = screen \o [k \in 1..(cursor' - cursor) |-> cursor + k]
      BY <2>1, Answers
    <3>2. Log!Shows
      BY <2>1, <2>2, <3>1 DEF Log!Shows
    <3> QED BY <3>2 DEF Log!Next
  <2>3. CASE cursor' = cursor
    <3>1. screen \in Seq(Nat) /\ screen' = screen \o <<>>
      BY <2>1, <2>3, Answers DEF EventsIInv, Shown
    <3>2. screen' = screen
      BY <3>1, ConcatEmptySeq
    <3> QED BY <1>1, <2>1, <2>3, <3>2
  <2> QED BY <2>1, <2>2, <2>3, Answers
<1>4. CASE FetchTears
  <2>1. PICK i \in DOMAIN fetches : /\ fetches[i].upto # Unread
                                    /\ torn' = torn \cup Range(Covered(fetches[i]))
                                    /\ FetchEnds(i, Max({cursor, fetches[i].upto}))
                                    /\ screen' = screen /\ rows' = rows
    BY <1>4 DEF FetchTears, server
  <2>2. torn' = torn \cup (cursor + 1..cursor')
    BY <2>1, Answers
  <2>3. CASE cursor' \in cursor + 1..rows
    <3>1. Log!Loses
      BY <2>1, <2>2, <2>3 DEF Log!Loses
    <3> QED BY <3>1 DEF Log!Next
  <2>4. CASE cursor' = cursor
    <3>1. cursor + 1..cursor = {}
      BY EventStreamAssumption DEF EventsIInv, Page, Tables
    <3> QED BY <1>1, <2>1, <2>2, <2>4, <3>1
  <2> QED BY <2>1, <2>3, <2>4, Answers
<1>5. CASE FetchFails
  BY <1>1, <1>5 DEF FetchFails, FetchEnds, server
<1> QED BY <1>1, <1>2, <1>3, <1>4, <1>5
     DEF EventNext, Publish, Records, RecordFails, HandsToHub, Handle, Subscribes, Replays,
         Forwards, Browse, Reconciles, TakesFrame, FetchReads, Murmurs, Disconnects, Restarts,
         server, browser, eventVars, Log!Next

\* tail and handleChatTail: to the operator the page is a log.  It grows only at
\* its end, by the messages that follow the last one it dealt with; no late
\* response, refetch, reconnect or restart repeats, moves or removes one.
THEOREM Conversed == EventSpec => FollowsConversation
<1>1. EventInit => Log!Init
  BY LogInitially
<1>2. EventsIInv /\ [EventNext]_eventVars => [Log!Next]_(Log!vars)
  BY LogStep
<1> QED BY <1>1, <1>2, EventsInvariance, PTL DEF EventSpec, FollowsConversation, Log!Spec
===============================================================================
