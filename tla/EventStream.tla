------------------------------ MODULE EventStream ------------------------------
(***************************************************************************)
(* From a message in the database to the operator's screen.  A publisher   *)
(* (the run's goroutine, a handler) commits a message, records an event,   *)
(* and hands a frame to the hub, which never blocks; the connection handler*)
(* subscribes, replays what the browser has not seen and forwards frames;  *)
(* the browser treats a frame as a hint and fetches the canonical rows.    *)
(*                                                                         *)
(* Every frame that makes the browser fetch messages stands for one news   *)
(* frame; text deltas and the frames that fetch no message are quiet.      *)
(***************************************************************************)
EXTENDS Naturals, Sequences, SequencesExt, FiniteSetsExt

CONSTANTS
    Pubs,         \* publishers
    Buffer,       \* subscriberBuffer (512 in the code)
    ReplayLimit,  \* replayLimit (500 in the code)
    MaxRows,      \* bound: messages
    MaxQuiet,     \* bound: quiet frames
    MaxFaults     \* bound: lost connections, restarts, failed writes and fetches

ASSUME EventStreamAssumption ==
    /\ Buffer \in Nat \ {0} /\ ReplayLimit \in Nat \ {0}
    /\ MaxRows \in Nat /\ MaxQuiet \in Nat /\ MaxFaults \in Nat

VARIABLES
    rows,       \* messages in the database: ids 1..rows
    events,     \* event table: ids 1..events
    pub,        \* where each publisher is: [at, row, id]
    quiet,      \* quiet frames sent so far
    conn,       \* the connection: "closed", "subscribed" or "live"
    chan,       \* the hub's channel of this subscriber
    wire,       \* frames written and not yet taken by the browser
    last,       \* the browser's Last-Event-ID; None before the first
    fetches,    \* /chat/tail requests in flight: [after, upto], oldest first
    refetch,    \* a frame arrived while one was in flight
    cursor,     \* lastId of the page
    screen,     \* message ids on the page, in the order they were appended
    torn,       \* ids in responses whose header arrived and whose body did not
    owed,       \* the newest message told to the hub that the page has a way to hear of
    faults

server  == <<rows, events, pub>>
browser == <<last, fetches, refetch, cursor, screen, torn>>
eventVars == <<server, quiet, conn, chan, wire, browser, owed, faults>>

None   == MaxRows + 1
Quiet  == 0
Opening == MaxRows + 1   \* the first bytes, which fire the open event
Unread == MaxRows + 1
Free  == [at |-> "idle", row |-> 0, id |-> 0]

Fault == faults < MaxFaults /\ faults' = faults + 1
News(frames) == \E i \in DOMAIN frames : frames[i] # Quiet

\* Something on its way makes the page fetch: an open event, a frame, a refetch.
Hears == conn = "closed" \/ refetch \/ News(chan) \/ News(wire)

-----------------------------------------------------------------------------
(* Publishers *)

\* AppendMessage; the project's messages are appended one at a time.
Commits(q) ==
    /\ pub[q].at = "idle" /\ rows < MaxRows
    /\ rows' = rows + 1
    /\ pub' = [pub EXCEPT ![q] = [at |-> "committed", row |-> rows + 1, id |-> 0]]
    /\ UNCHANGED <<events, quiet, conn, chan, wire, browser, owed, faults>>

\* publish: AppendEvent assigns the id, before the hub hears of it.
Records(q) ==
    /\ pub[q].at = "committed"
    /\ events' = events + 1
    /\ pub' = [pub EXCEPT ![q].at = "recorded", ![q].id = events + 1]
    /\ UNCHANGED <<rows, quiet, conn, chan, wire, browser, owed, faults>>

\* AppendEvent fails: the frame is not published at all.
RecordFails(q) ==
    /\ pub[q].at = "committed" /\ Fault
    /\ pub' = [pub EXCEPT ![q] = Free]
    /\ UNCHANGED <<rows, events, quiet, conn, chan, wire, browser, owed>>

\* Mutant of Offered: the bound is checked one frame late.
OfferedPastBuffer(frame) == IF Len(chan) <= Buffer THEN Append(chan, frame) ELSE chan

\* Hub.Publish: a full channel drops the new frame.
Offered(frame) == IF Len(chan) < Buffer THEN Append(chan, frame) ELSE chan

Send(frame) == chan' = IF conn = "closed" THEN <<>> ELSE Offered(frame)

\* A frame dropped behind quiet ones alone leaves the page with nothing that
\* makes it fetch: it hears of the message with the next news.
HandsToHub(q) ==
    /\ pub[q].at = "recorded"
    /\ Send(pub[q].id)
    /\ owed' = IF Len(chan) = Buffer /\ ~Hears
               THEN owed ELSE Max({owed, pub[q].row})
    /\ pub' = [pub EXCEPT ![q] = Free]
    /\ UNCHANGED <<rows, events, quiet, conn, wire, browser, faults>>

\* A batch of streamed text, or an event that fetches no message.
Murmurs ==
    /\ quiet < MaxQuiet /\ conn # "closed"
    /\ Send(Quiet)
    /\ quiet' = quiet + 1
    /\ UNCHANGED <<server, conn, wire, browser, owed, faults>>

-----------------------------------------------------------------------------
(* handleEvents *)

\* Subscribe comes before the first byte and before the replay.
Subscribes ==
    /\ conn = "closed"
    /\ conn' = "subscribed" /\ chan' = <<>> /\ wire' = <<Opening>>
    /\ UNCHANGED <<server, quiet, browser, owed, faults>>

\* replay: the rows above Last-Event-ID, the oldest ReplayLimit of them; none on
\* a first connection, and none when the query fails.
Missed == IF last = None THEN <<>>
          ELSE [i \in 1..Min({ReplayLimit, events - last}) |-> last + i]

Replays ==
    /\ conn = "subscribed" /\ conn' = "live"
    /\ wire' \in {wire, wire \o Missed}
    /\ UNCHANGED <<server, quiet, chan, browser, owed, faults>>

\* One frame at a time is on its way to the browser, but for the replay.
Forwards ==
    /\ conn = "live" /\ chan # <<>> /\ wire = <<>>
    /\ wire' = <<Head(chan)>> /\ chan' = Tail(chan)
    /\ UNCHANGED <<server, quiet, conn, browser, owed, faults>>

Closed == conn' = "closed" /\ chan' = <<>> /\ wire' = <<>>

\* The connection breaks; what was on its way is lost.
Disconnects ==
    /\ conn # "closed" /\ Fault
    /\ Closed
    /\ UNCHANGED <<server, quiet, browser, owed>>

\* The process dies between a commit and its announcement.
Restarts ==
    /\ Fault
    /\ Closed
    /\ pub' = [q \in Pubs |-> Free]
    /\ UNCHANGED <<rows, events, quiet, browser, owed>>

-----------------------------------------------------------------------------
(* chat.js *)

\* Mutant of Waits: every frame sends a request of its own.
NeverWaits == FALSE

\* tail: one request at a time; a frame meanwhile asks for another one after it.
Waits == fetches # <<>>

TailCalled ==
    IF Waits THEN refetch' = TRUE /\ UNCHANGED fetches
    ELSE /\ fetches' = Append(fetches, [after |-> cursor, upto |-> Unread])
         /\ UNCHANGED refetch

\* Mutant of Reconciles: the page relies on the replay alone.
OpensQuietly ==
    /\ wire # <<>> /\ Head(wire) = Opening
    /\ wire' = Tail(wire)
    /\ UNCHANGED <<server, quiet, conn, chan, browser, owed, faults>>

\* The open event: one reconciling fetch.
Reconciles ==
    /\ wire # <<>> /\ Head(wire) = Opening
    /\ wire' = Tail(wire)
    /\ TailCalled
    /\ UNCHANGED <<server, quiet, conn, chan, last, cursor, screen, torn, owed, faults>>

TakesFrame ==
    /\ wire # <<>> /\ Head(wire) # Opening
    /\ wire' = Tail(wire)
    /\ IF Head(wire) = Quiet THEN UNCHANGED <<last, fetches, refetch>>
       ELSE last' = Head(wire) /\ TailCalled
    /\ UNCHANGED <<server, quiet, conn, chan, cursor, screen, torn, owed, faults>>

\* MessagesAfter, on the server.
FetchReads ==
    \E i \in DOMAIN fetches :
        /\ fetches[i].upto = Unread
        /\ fetches' = [fetches EXCEPT ![i].upto = rows]
        /\ UNCHANGED <<server, quiet, conn, chan, wire, last, refetch, cursor, screen, torn,
                       owed, faults>>

\* finally: the request is over, and another one starts if a frame asked for it.
FetchEnds(i, to) ==
    LET rest == RemoveAt(fetches, i) IN
    /\ fetches' = IF refetch THEN Append(rest, [after |-> to, upto |-> Unread]) ELSE rest
    /\ refetch' = FALSE
    /\ cursor' = to

\* Mutant of Covered: the message at the cursor comes again (id >= after).
CoveredFromLast(fetch) ==
    [k \in 1..(fetch.upto - fetch.after + 1) |-> fetch.after + k - 1]

\* MessagesAfter: the messages above the cursor of the request.
Covered(fetch) == [k \in 1..(fetch.upto - fetch.after) |-> fetch.after + k]

FetchLands ==
    \E i \in DOMAIN fetches :
        /\ fetches[i].upto # Unread
        /\ screen' = screen \o Covered(fetches[i])
        /\ FetchEnds(i, Max({cursor, fetches[i].upto}))
        /\ UNCHANGED <<server, quiet, conn, chan, wire, last, torn, owed, faults>>

\* The cursor moves with the header, the page with the body: a response that
\* breaks off in between is never asked for again.
FetchTears ==
    \E i \in DOMAIN fetches :
        /\ fetches[i].upto # Unread /\ Fault
        /\ torn' = torn \cup Range(Covered(fetches[i]))
        /\ FetchEnds(i, Max({cursor, fetches[i].upto}))
        /\ UNCHANGED <<server, quiet, conn, chan, wire, last, screen, owed>>

\* A fetch that fails altogether waits for the next news.  An error page is a
\* failure too: the code does not look at the status and appends the page's text,
\* but it carries no message and no header, and the screen here is of messages.
FetchFails ==
    /\ fetches # <<>> /\ Fault
    /\ FetchEnds(1, cursor)
    /\ owed' = IF Hears THEN owed ELSE Min({owed, cursor})
    /\ UNCHANGED <<server, quiet, conn, chan, wire, last, screen, torn>>

-----------------------------------------------------------------------------
\* The page has just been rendered from the database and nothing is connected.
EventInit ==
    /\ rows = 0 /\ events = 0 /\ quiet = 0 /\ faults = 0
    /\ pub = [q \in Pubs |-> Free]
    /\ conn = "closed" /\ chan = <<>> /\ wire = <<>>
    /\ last = None /\ fetches = <<>> /\ refetch = FALSE /\ cursor = 0 /\ screen = <<>>
    /\ torn = {}
    /\ owed = 0

Publish(q) == Records(q) \/ HandsToHub(q)
Handle     == Subscribes \/ Replays \/ Forwards
Browse     == Reconciles \/ TakesFrame \/ FetchReads \/ FetchLands

EventNext ==
    \/ \E q \in Pubs : Commits(q) \/ Publish(q) \/ RecordFails(q)
    \/ Handle \/ Browse
    \/ Murmurs \/ Disconnects \/ Restarts \/ FetchFails \/ FetchTears

EventSpec == EventInit /\ [][EventNext]_eventVars

\* A publisher that has committed goes on, EventSource reconnects, the handler
\* forwards, and the browser takes its frames and its responses.
EventFairness ==
    /\ \A q \in Pubs : WF_eventVars(Publish(q))
    /\ WF_eventVars(Handle)
    /\ WF_eventVars(Reconciles \/ TakesFrame)
    /\ WF_eventVars(FetchReads \/ FetchLands)

EventFairSpec == EventSpec /\ EventFairness

-----------------------------------------------------------------------------
(* Properties *)

\* The types; a response covers no less than its request asked to skip, and no
\* frame is ahead of the table.
EventTypeOK ==
    /\ rows \in 0..MaxRows /\ events \in 0..rows
    /\ pub \in [Pubs -> [at : {"idle", "committed", "recorded"}, row : 0..rows, id : 0..events]]
    /\ quiet \in 0..MaxQuiet /\ faults \in 0..MaxFaults
    /\ conn \in {"closed", "subscribed", "live"}
    /\ chan \in Seq(0..events) /\ Len(chan) <= Buffer
    /\ wire \in Seq(0..events \cup {Opening})
    /\ last = None \/ last \in 1..events
    /\ \A i \in DOMAIN fetches : /\ fetches[i].after \in 0..rows
                                 /\ fetches[i].upto \in fetches[i].after..rows \cup {Unread}
    /\ refetch \in BOOLEAN
    /\ cursor \in 0..rows /\ torn \subseteq 1..rows
    /\ owed \in 0..rows

\* However frames, responses and reconnects interleave, the page shows every
\* message up to its cursor once and in order, but for those of a response that
\* broke off: tail never asks for a message twice and never skips one.
ScreenInOrder ==
    /\ Range(screen) = (1..cursor) \ torn
    /\ \A i, j \in DOMAIN screen : i < j => screen[i] < screen[j]

\* To the operator all of this is a log: the page only grows, at its end, by the
\* messages that follow the last one it dealt with; no late response, refetch or
\* reconnect repeats, moves or removes one.
Log == INSTANCE Conversation WITH written <- rows, reached <- cursor, lost <- torn

FollowsConversation == Log!Spec

\* A message the hub was told of is shown without another event and without a
\* reload, unless its response broke off or a fetch failed and nothing on its way
\* asks for another: a frame dropped by a full channel is covered by the news still
\* queued in front of it, a lost connection by the fetch that opens the next one, a
\* frame that arrives during a fetch by the refetch.
AnnouncedIsShown ==
    \A n \in 1..MaxRows :
        owed >= n ~> (n \in Range(screen) \/ n \in torn \/ owed < n)
==============================================================================
