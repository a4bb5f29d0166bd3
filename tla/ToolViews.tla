----------------------------- MODULE ToolViews -----------------------------
(***************************************************************************)
(* What the tools show the agent of something bigger than a tool result    *)
(* may be: the output of a command (bash), the end of a log (read_logs),   *)
(* the pages of a file (read_file), the matches of a search and the        *)
(* entries of a directory (list_dir). Each has its own budget and its own  *)
(* way to cut.                                                             *)
(*                                                                         *)
(* A text is a sequence of bytes, and a byte is a newline or not; what a   *)
(* tool shows is the sequence of the positions it shows. A command's       *)
(* output arrives in chunks of any size and passes through boundedBuffer;  *)
(* a file does not change while it is read, and the reader follows the     *)
(* offsets the notices name.                                               *)
(***************************************************************************)
EXTENDS Integers, Sequences, FiniteSets

CONSTANTS
    Limit,        \* maxBashBytes
    MaxBytes,     \* maxFileBytes
    MaxLines,     \* maxFileLines
    MaxHits,      \* maxSearchHits
    MaxEntries,   \* maxDirEntries
    MaxDepth,     \* the deepest listing, three levels in the code
    Paths,        \* what git may list: records of path components and a slash
    Chunks,       \* the chunks of bytes a command writes at once
    Outputs,      \* what ripgrep may print: sequences of hits and of notes
    MaxText       \* bound on the length of a text

ASSUME LimitsAssumption ==
    /\ {Limit, MaxBytes, MaxLines, MaxHits, MaxEntries, MaxDepth} \subseteq Nat \ {0}
    /\ MaxText \in Nat
    /\ Chunks \subseteq Seq({"byte", "newline"})
    /\ IsFiniteSet(Paths) /\ Paths \subseteq [parts : Seq(STRING), slash : BOOLEAN]
    /\ Outputs \subseteq Seq({"hit", "note"})

VARIABLES
    tool,   \* the call under way, or "none"
    text,   \* the command's output, the log, or the file
    buf,    \* boundedBuffer.buf, as positions of text
    next,   \* the offset the last page told the reader to go on with
    seen,   \* the positions of the file shown so far
    view    \* the last result

viewVars == <<tool, text, buf, next, seen, view>>

Readers == {"bash", "read_logs", "read_file"}
Tools == Readers \cup {"search", "list_dir"}
NoView == [of |-> "none"]
LeastOf(S) == CHOOSE x \in S : \A y \in S : x <= y
LastOf(S) == CHOOSE x \in S : \A y \in S : y <= x
Span(a, b) == [i \in 1 .. (IF b < a THEN 0 ELSE b - a + 1) |-> a + i - 1]
Positions(s) == {s[i] : i \in DOMAIN s}

---------------------------------------------------------------------------
(* Cutting. ps is a sequence of positions of text.                         *)

Half == Limit \div 2
Newlines(ps) == {i \in DOMAIN ps : text[ps[i]] = "newline"}

\* Back to the last newline, unless that would leave nothing.
CutBack(ps) ==
    LET ends == {i \in Newlines(ps) : i > 1}
    IN  IF ends = {} THEN ps ELSE SubSeq(ps, 1, LastOf(ends) - 1)

\* Forward past the first newline, unless that would leave nothing.
CutForward(ps) ==
    IF \E i \in Newlines(ps) : i < Len(ps) /\ \A j \in Newlines(ps) : i <= j
      THEN SubSeq(ps, LeastOf(Newlines(ps)) + 1, Len(ps)) ELSE ps

TrimRight(ps) ==
    SubSeq(ps, 1, LET kept == (DOMAIN ps) \ Newlines(ps) IN IF kept = {} THEN 0 ELSE LastOf(kept))

\* The start and the end of a text over the limit, with a notice between.
ClipMiddle(ps) ==
    IF Len(ps) <= Limit THEN [shown |-> ps, said |-> FALSE]
    ELSE [shown |-> CutBack(SubSeq(ps, 1, Half)) \o CutForward(SubSeq(ps, Len(ps) - Half + 1, Len(ps))),
          said |-> TRUE]

---------------------------------------------------------------------------
(* bash and read_logs.                                                     *)

ViewInit ==
    /\ tool = "none" /\ text = <<>> /\ buf = <<>>
    /\ next = 0 /\ seen = {} /\ view = NoView

Asks ==
    /\ tool = "none"
    /\ tool' \in Tools
    /\ text' = <<>> /\ buf' = <<>> /\ next' = 0 /\ seen' = {} /\ view' = NoView

\* Mutant: a buffer that keeps only the newest bytes.
KeepsTail(ps) ==
    IF Len(ps) <= 2 * Limit THEN ps ELSE SubSeq(ps, Len(ps) - 2 * Half + 1, Len(ps))

\* Mutant: a buffer that grows with the output.
KeepsAll(ps) == ps

\* boundedBuffer.Write, after the append.
Compacted(ps) ==
    IF Len(ps) <= 2 * Limit THEN ps
    ELSE SubSeq(ps, 1, Half) \o SubSeq(ps, Len(ps) - Half + 1, Len(ps))

\* The command, or whoever writes the log or wrote the file, goes on.
Writes ==
    /\ tool \in Readers
    /\ tool = "read_file" => view = NoView
    /\ \E p \in Chunks :
         /\ Len(text) + Len(p) <= MaxText
         /\ text' = text \o p
         /\ buf' = IF tool = "bash" THEN Compacted(buf \o Span(Len(text) + 1, Len(text) + Len(p)))
                                     ELSE buf
    /\ UNCHANGED <<tool, next, seen, view>>

\* The command exits, with any code: its output without trailing newlines.
\* A command that timed out is reported with what it printed, as it is.
BashEnds ==
    /\ tool = "bash"
    /\ LET out == ClipMiddle(buf)
       IN  \/ view' = [of |-> "bash", shown |-> TrimRight(out.shown), said |-> out.said]
           \/ view' = [of |-> "bash", shown |-> out.shown, said |-> out.said]
    /\ tool' = "none"
    /\ UNCHANGED <<text, buf, next, seen>>

\* Nothing to show: the arguments are refused, the path is missing, is a
\* directory where a file is read or the other way round, is binary or over
\* readCeilingBytes, or the sandbox is gone.
ShowsNothing ==
    /\ tool # "none"
    /\ tool' = "none" /\ view' = NoView
    /\ UNCHANGED <<text, buf, next, seen>>

LastLines(n) ==
    LET all == Span(1, Len(text))
        body == TrimRight(all)
        ends == {p \in Newlines(all) : p < Len(text)}
        older == {p \in ends : Cardinality({q \in ends : q >= p}) >= n}
    IN  SubSeq(body, IF older = {} THEN 1 ELSE LastOf(older) + 1, Len(body))

ReadsLog ==
    /\ tool = "read_logs"
    /\ \E n \in 1 .. MaxLines :
         LET out == ClipMiddle(LastLines(n))
         IN  view' = [of |-> "read_logs", tail |-> n, shown |-> out.shown, said |-> out.said]
    /\ tool' = "none"
    /\ UNCHANGED <<text, buf, next, seen>>

---------------------------------------------------------------------------
(* read_file.                                                              *)

\* The text without its last newline, and the line a position is on; a
\* newline is on the line it ends.
Trimmed == IF text # <<>> /\ text[Len(text)] = "newline" THEN Len(text) - 1 ELSE Len(text)
LineOf(p) == 1 + Cardinality({q \in 1 .. p - 1 : text[q] = "newline"})
Total == 1 + Cardinality({q \in 1 .. Trimmed : text[q] = "newline"})
StartOf(l) == LeastOf({p \in 1 .. Trimmed + 1 : LineOf(p) = l})
EndOf(l) == IF l = Total THEN Trimmed ELSE StartOf(l + 1) - 2

\* How many lines a page shows, its first line being next + 1.
Window(limit) == IF limit \in 1 .. MaxLines THEN limit ELSE MaxLines

\* Mutant: the end of the range the reader asked for, whatever was cut.
EndsAsAsked(end, shown, cut) == end

\* The end of the range, recounted when the page was cut at MaxBytes.
Ends(end, shown, cut) ==
    IF cut THEN next + 1 + Cardinality(Newlines(shown)) ELSE end

ReadsPage ==
    /\ tool = "read_file" /\ text # <<>> /\ next < Total
    /\ \E limit \in 0 .. MaxLines :
         LET end == IF next + Window(limit) <= Total THEN next + Window(limit) ELSE Total
             body == Span(StartOf(next + 1), EndOf(end))
             cut == Len(body) > MaxBytes
             shown == IF cut THEN CutBack(SubSeq(body, 1, MaxBytes)) ELSE body
             last == Ends(end, shown, cut)
         IN  /\ view' = [of |-> "read_file", shown |-> shown, said |-> cut \/ last < Total]
             /\ next' = last
             /\ seen' = seen \cup Positions(shown)
    /\ UNCHANGED <<tool, text, buf>>

\* An empty file, or an offset at the end: there is nothing more to read.
ReadsNoMore ==
    /\ tool = "read_file"
    /\ text = <<>> \/ next >= Total
    /\ tool' = "none"
    /\ UNCHANGED <<text, buf, next, seen, view>>

---------------------------------------------------------------------------
(* search and list_dir.                                                    *)

\* What passes head; a line that is no match is reported apart.
Passed(out) == SubSeq(out, 1, IF Len(out) < 2 * MaxHits THEN Len(out) ELSE 2 * MaxHits)

Searches ==
    /\ tool = "search"
    /\ \E out \in Outputs :
         LET hits == {i \in DOMAIN Passed(out) : out[i] = "hit"}
             kept == {i \in hits : Cardinality({j \in hits : j <= i}) <= MaxHits}
         IN  view' = [of |-> "search", out |-> out, hits |-> kept, said |-> kept # hits,
                      failed |-> hits = {} /\ out # <<>>]
    /\ tool' = "none"
    /\ UNCHANGED <<text, buf, next, seen>>

Prefix(p, n) == SubSeq(p.parts, 1, n)
Clamped(depth) == IF depth <= 0 THEN 1 ELSE IF depth > MaxDepth THEN MaxDepth ELSE depth

\* Every path no deeper than depth and every ancestor of a path, down to
\* the boundary; a directory at the boundary counts what lies below it.
Collapse(ps, depth) ==
    LET names == UNION {{Prefix(p, n) : n \in 1 .. Len(p.parts)} : p \in ps}
        below(name) == {p \in ps : Len(p.parts) > depth /\ Prefix(p, depth) = name}
    IN  {[name  |-> name,
          dir   |-> \E p \in ps : \/ Len(p.parts) > Len(name) /\ Prefix(p, Len(name)) = name
                                  \/ p.slash /\ p.parts = name,
          count |-> Cardinality(below(name))] : name \in {n \in names : Len(n) <= depth}}

\* What git lists of the repository below dir, relative to dir.
Under(ps, dir) ==
    {[parts |-> SubSeq(p.parts, Len(dir) + 1, Len(p.parts)), slash |-> p.slash] :
        p \in {q \in ps : Len(q.parts) > Len(dir) /\ Prefix(q, Len(dir)) = dir}}

\* The entries are sorted and the first ones kept: which ones is left open.
Lists ==
    /\ tool = "list_dir"
    /\ \E repo \in SUBSET Paths, asked \in 0 .. MaxDepth + 1 :
       \E dir \in {<<>>} \cup {Prefix(p, Len(p.parts) - 1) : p \in repo} :
         LET ps == Under(repo, dir)
             all == Collapse(ps, Clamped(asked))
         IN  \E kept \in SUBSET all :
               /\ IF Cardinality(all) > MaxEntries THEN Cardinality(kept) = MaxEntries ELSE kept = all
               /\ view' = [of |-> "list_dir", paths |-> ps, entries |-> kept,
                           said |-> Cardinality(all) > MaxEntries]
    /\ tool' = "none"
    /\ UNCHANGED <<text, buf, next, seen>>

ViewNext ==
    \/ Asks \/ Writes \/ BashEnds \/ ShowsNothing \/ ReadsLog
    \/ ReadsPage \/ ReadsNoMore \/ Searches \/ Lists

ViewSpec == ViewInit /\ [][ViewNext]_viewVars

---------------------------------------------------------------------------
(* Properties.                                                             *)

\* Types, and that the buffer never outgrows twice its limit nor names a
\* byte the command has not written.
ViewTypeOK ==
    /\ tool \in Tools \cup {"none"}
    /\ text \in Seq({"byte", "newline"})
    /\ buf \in Seq(1 .. Len(text)) /\ Len(buf) <= 2 * Limit
    /\ next \in Nat
    /\ seen \subseteq 1 .. Len(text)
    /\ view.of \in Tools \cup {"none"}

Shows(p) == p \in Positions(view.shown)

\* "The head says what ran and the tail says how it failed": however the
\* output of a command was cut into chunks and compacted on the way, its
\* result is in order, within the limit, complete if the output was, and
\* has every whole line of its first and of its last half-limit bytes.
EndsKept ==
    view.of = "bash" =>
      /\ \A i, j \in DOMAIN view.shown : i < j => view.shown[i] < view.shown[j]
      /\ Len(view.shown) <= Limit
      /\ \A p \in 1 .. Len(text) :
           /\ text[p] = "byte"
           /\ \/ Len(text) <= Limit
              \/ \E q \in p .. Half : text[q] = "newline"
              \/ \E q \in Len(text) - Half + 1 .. p : text[q] = "newline"
           => Shows(p)

Width(l) == EndOf(l) - StartOf(l) + 1

\* A reader that follows the offsets it is given has seen every byte of the
\* lines behind it, except of a line longer than a page, and except for the last
\* byte of a line as long as a page behind an empty line: a page that starts with
\* that one is cut before it (clip does not cut back to a newline at 0).
PagesCover ==
    tool = "read_file" =>
      \A p \in 1 .. Trimmed :
        text[p] = "byte" /\ LineOf(p) <= next =>
          \/ p \in seen
          \/ Width(LineOf(p)) > MaxBytes
          \/ /\ Width(LineOf(p)) = MaxBytes /\ p = EndOf(LineOf(p))
             /\ LineOf(p) > 1 /\ Width(LineOf(p) - 1) = 0

\* A log, a page, a search or a listing that leaves something out says so;
\* of a listing, what is too deep to be named is counted. A search is
\* exempt when ripgrep also printed diagnostics.
CutsAreTold ==
    /\ view.of = "read_logs" =>
         \/ view.said
         \/ \A p \in 1 .. Len(text) :
              text[p] = "byte" /\ Cardinality({q \in p .. Len(text) - 1 : text[q] = "newline"}) < view.tail
                => Shows(p)
    /\ view.of = "read_file" =>
         view.said \/ Trimmed = 0 \/ text[Trimmed] = "newline" \/ Shows(Trimmed)
    /\ view.of = "search" /\ Positions(view.out) \subseteq {"hit"} =>
         view.said \/ view.hits = DOMAIN view.out
    /\ view.of = "list_dir" /\ ~view.said =>
         /\ \A p \in view.paths : \E e \in view.entries :
              IF e.name = p.parts THEN TRUE ELSE e.count > 0 /\ e.name = Prefix(p, Len(e.name))
         /\ \A e \in view.entries : e.count > 0 => e.dir

\* Nothing is left out without a word.
NothingSilent == PagesCover /\ CutsAreTold

---------------------------------------------------------------------------
\* truncate.go clip: "cutting back to the last newline so the result does not end
\* mid-line": a page that has a newline ends where a line does. ToolViews_page.cfg
\* violates it: clip looks for a newline behind the first byte only.
EndsAtLine ==
    view.of = "read_file" /\ Newlines(view.shown) # {} =>
        LET last == view.shown[Len(view.shown)]
        IN  last = Trimmed \/ text[last + 1] = "newline"
=============================================================================
