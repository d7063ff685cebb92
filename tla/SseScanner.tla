------------------------------ MODULE SseScanner ------------------------------
(***************************************************************************)
(* The incremental SSE scanner of src/semantik/sse.rs: a caller feeds it   *)
(* the chunks of an HTTP body, each call returns the frames the chunk      *)
(* completed, and close() flushes what the end of the body leaves.         *)
(*                                                                         *)
(* A body is a sequence of symbols of unit size: the two line-break bytes, *)
(* the field prefixes the scanner looks for ("event:", "data:", and ":" of *)
(* a comment), the space it strips, and any other text.  The scanner only  *)
(* compares bytes with CR and LF until a whole line is in its buffer, so   *)
(* cutting a chunk inside a prefix behaves as cutting it before one.       *)
(* Some text is not UTF-8: such a symbol stands for one ill-formed byte,   *)
(* whose replacement by U+FFFD, three bytes long, grows the most.          *)
(*                                                                         *)
(* EndsLineLfOnly, EndsLineEagerly, AdvanceToBreak, FrameWithSize,         *)
(* LastData, GrownByValue and TakeLineKeepingCr are plausible slips of the *)
(* definition that follows each of them; the specification uses none.      *)
(***************************************************************************)
EXTENDS Integers, Sequences, FiniteSets

CONSTANTS
  Text,       \* the symbols other than CR and LF
  Invalid,    \* those that are not UTF-8
  MaxFrame,   \* MAX_SSE_FRAME_BYTES
  MaxInput    \* bound: the length of the whole body

CR == "CR"
LF == "LF"
Replacement == "U+FFFD"

ASSUME TextAssumption == {CR, LF, Replacement} \intersect Text = {}
ASSUME InvalidAssumption ==
  Invalid \subseteq Text \ {"event:", "data:", ":", " "}
ASSUME MaxFrameAssumption == MaxFrame \in Nat
ASSUME MaxInputAssumption == MaxInput \in Nat

Symbols == Text \union {CR, LF}
Chars == Symbols \union {Replacement}   \* what a String may hold
ChunksUpTo(n) == UNION {[1..k -> Symbols] : k \in 0..n}

VARIABLES
  buf,         \* bytes received and not yet consumed as lines
  cur,         \* the frame in progress: cur_event, cur_data, cur_size
  pending_cr,  \* the last feed ended on a CR
  closed,      \* close() was called
  phase,       \* "idle" between calls, "feeding" in feed()'s loop, "failed"
  out,         \* feed()'s local vector of completed frames
  fed,         \* history: the concatenation of the chunks fed
  yielded      \* history: the frames handed to the caller

vars == <<buf, cur, pending_cr, closed, phase, out, fed, yielded>>

Frame == [event : Seq(Chars), data : Seq(Chars)]
Partial == [event : Seq(Chars), data : Seq(Chars), size : Nat]

EmptyFrame == [event |-> << >>, data |-> << >>, size |-> 0]
IsBlank(c) == c.event = << >> /\ c.data = << >>
FrameWithSize(c) == c
FrameOf(c) == [event |-> c.event, data |-> c.data]

(***************************************************************************)
(* next_line.  `EndsLine(data, i)' holds of the one position whose break   *)
(* ends the first line: an LF, or a CR with a byte after it that tells     *)
(* CRLF from a lone CR.                                                    *)
(***************************************************************************)
IsBreak(b) == b \in {CR, LF}

IsFirstBreak(data, i) ==
  /\ i \in 1..Len(data)
  /\ IsBreak(data[i])
  /\ \A j \in 1..(i - 1) : ~IsBreak(data[j])

EndsLineLfOnly(data, i) == IsFirstBreak(data, i) /\ data[i] = LF
EndsLineEagerly(data, i) == IsFirstBreak(data, i)

EndsLine(data, i) ==
  IsFirstBreak(data, i) /\ (data[i] = LF \/ i < Len(data))

AdvanceToBreak(data, i) == i - 1

Advance(data, i) ==
  IF data[i] = CR /\ i < Len(data) /\ data[i + 1] = LF THEN i + 1 ELSE i

LeadingLf(data, prior_cr) == prior_cr /\ data # << >> /\ data[1] = LF

NextLines(data, prior_cr) ==
  IF LeadingLf(data, prior_cr)
  THEN {[line |-> << >>, advance |-> 1]}
  ELSE {[line |-> SubSeq(data, 1, i - 1), advance |-> Advance(data, i)] :
          i \in {k \in 1..Len(data) : EndsLine(data, k)}}

(***************************************************************************)
(* split_field, from_utf8_lossy and the field match of consume_line.       *)
(***************************************************************************)
AfterColon(line) ==
  IF Len(line) > 1 /\ line[2] = " " THEN SubSeq(line, 3, Len(line))
                                    ELSE SubSeq(line, 2, Len(line))

Lossy(bytes) ==
  [i \in 1..Len(bytes) |-> IF bytes[i] \in Invalid THEN Replacement ELSE bytes[i]]

Value(line) == Lossy(AfterColon(line))

LastData(data, value) == value
JoinData(data, value) ==
  IF data = << >> THEN value ELSE data \o <<LF>> \o value

StoreField(c, line) ==
  CASE line[1] = "event:" -> [c EXCEPT !.event = Value(line)]
    [] line[1] = "data:"  -> [c EXCEPT !.data = JoinData(@, Value(line))]
    [] OTHER              -> c

GrownByValue(c, line) == [c EXCEPT !.size = @ + Len(AfterColon(line))]
Grown(c, line) == [c EXCEPT !.size = @ + Len(line)]

(* What consume_line leaves in the scanner, returns, and whether it is Ok. *)
ConsumeLine(c, line) ==
  IF line = << >>
  THEN [cur    |-> IF IsBlank(c) THEN c ELSE EmptyFrame,
        frames |-> IF IsBlank(c) THEN << >> ELSE <<FrameOf(c)>>,
        ok     |-> TRUE]
  ELSE IF line[1] = ":"
  THEN [cur |-> c, frames |-> << >>, ok |-> TRUE]
  ELSE IF Grown(c, line).size > MaxFrame
  THEN [cur |-> Grown(c, line), frames |-> << >>, ok |-> FALSE]
  ELSE [cur |-> StoreField(Grown(c, line), line), frames |-> << >>, ok |-> TRUE]

StripTrailingCr(line) ==
  IF line # << >> /\ line[Len(line)] = CR THEN SubSeq(line, 1, Len(line) - 1)
                                          ELSE line

EndsInCr(data) == data # << >> /\ data[Len(data)] = CR
-----------------------------------------------------------------------------
Init ==
  /\ buf = << >> /\ cur = EmptyFrame
  /\ pending_cr = FALSE /\ closed = FALSE
  /\ phase = "idle" /\ out = << >>
  /\ fed = << >> /\ yielded = << >>

(* feed(chunk) up to its loop.  Its caller stops feeding at the first error *)
(* and at the end of the body (Subscription::poll_next, subscribe_once).    *)
Feed(chunk) ==
  /\ phase = "idle" /\ ~closed
  /\ buf' = buf \o chunk
  /\ fed' = fed \o chunk
  /\ phase' = "feeding"
  /\ out' = << >>
  /\ UNCHANGED <<cur, pending_cr, closed, yielded>>

(* One iteration of feed()'s loop.  The `?' on an oversized frame returns   *)
(* the error at once: the local vector of frames goes with it.              *)
DrainAndConsume ==
  /\ phase = "feeding"
  /\ \E next \in NextLines(buf, pending_cr) :
       LET result == ConsumeLine(cur, next.line)
       IN  /\ buf' = SubSeq(buf, next.advance + 1, Len(buf))
           /\ cur' = result.cur
           /\ out' = IF result.ok THEN out \o result.frames ELSE << >>
           /\ phase' = IF result.ok THEN "feeding" ELSE "failed"
  /\ UNCHANGED <<closed, fed, yielded>>

TakeLineKeepingCr == DrainAndConsume /\ UNCHANGED pending_cr
TakeLine == DrainAndConsume /\ pending_cr' = FALSE

(* The loop found no further line: feed() returns Ok(out).                  *)
FeedReturn ==
  /\ phase = "feeding"
  /\ NextLines(buf, pending_cr) = {}
  /\ pending_cr' = EndsInCr(buf)
  /\ yielded' = yielded \o out
  /\ out' = << >>
  /\ phase' = "idle"
  /\ UNCHANGED <<buf, cur, closed, fed>>

(* close(): the rest of the buffer is one last line, then a frame still in  *)
(* progress is handed out.                                                  *)
Flushed ==
  IF buf = << >> THEN [cur |-> cur, frames |-> << >>, ok |-> TRUE]
                 ELSE ConsumeLine(cur, StripTrailingCr(buf))

Close ==
  /\ phase = "idle" /\ ~closed
  /\ closed' = TRUE
  /\ buf' = << >>
  /\ IF Flushed.ok /\ Flushed.frames = << >> /\ ~IsBlank(Flushed.cur)
     THEN /\ yielded' = Append(yielded, FrameOf(Flushed.cur))
          /\ cur' = EmptyFrame
     ELSE /\ yielded' = yielded \o Flushed.frames
          /\ cur' = Flushed.cur
  /\ phase' = IF Flushed.ok THEN "idle" ELSE "failed"
  /\ UNCHANGED <<pending_cr, out, fed>>

(* A later close() returns Ok(None) at once: subscribe_once may have closed  *)
(* the scanner that Subscription::poll_next closes again.                   *)
CloseAgain ==
  /\ phase = "idle" /\ closed
  /\ UNCHANGED vars

Next ==
  \/ \E chunk \in ChunksUpTo(MaxInput - Len(fed)) : Feed(chunk)
  \/ TakeLine
  \/ FeedReturn
  \/ Close
  \/ CloseAgain

Spec == Init /\ [][Next]_vars

(* feed() is synchronous: once called, its loop runs to its return.         *)
FairSpec == Spec /\ WF_vars(TakeLine \/ FeedReturn)
-----------------------------------------------------------------------------
TypeOK ==
  /\ buf \in Seq(Symbols)
  /\ cur \in Partial
  /\ pending_cr \in BOOLEAN
  /\ closed \in BOOLEAN
  /\ phase \in {"idle", "feeding", "failed"}
  /\ out \in Seq(Frame)
  /\ fed \in Seq(Symbols)
  /\ yielded \in Seq(Frame)

(* The loop leaves no complete line behind: between calls the only break in *)
(* the buffer is a CR at its very end, whose extent is still open.          *)
NoCompleteLineLeft ==
  phase = "idle" =>
    \A i \in 1..Len(buf) : IsBreak(buf[i]) => i = Len(buf) /\ buf[i] = CR

(* The branch of next_line for an LF that continues a CR of the previous    *)
(* chunk is never taken: a CR at the end of a chunk is deferred and stays   *)
(* in the buffer, in front of that LF.  Taking it would emit a second line  *)
(* break, since it returns an empty line for consume_line to act on.        *)
PriorCrBranchDead == ~LeadingLf(buf, pending_cr)

(* How long a String is, in bytes, and what a frame takes up.               *)
Replaced(chars) == {i \in 1..Len(chars) : chars[i] = Replacement}
Bytes(chars) == Len(chars) + 2 * Cardinality(Replaced(chars))

Stored(f) == Bytes(f.event) + Bytes(f.data)
IsLossless(f) == Replaced(f.event) = {} /\ Replaced(f.data) = {}

(* The cap counts the bytes of lines, the frame holds their converted       *)
(* values.  In a frame whose text was UTF-8 the bytes stored, joining        *)
(* newlines included, stay within what was counted; where ill-formed bytes   *)
(* were replaced, within three times as much.  So for the frame in progress  *)
(* and, with the cap for the count, for every frame that reaches the caller. *)
Within(f, limit) == Stored(f) <= (IF IsLossless(f) THEN limit ELSE 3 * limit)

FramesBounded ==
  /\ phase # "failed" => cur.size <= MaxFrame
  /\ Within(cur, cur.size)
  /\ \A i \in 1..Len(out) : Within(out[i], MaxFrame)
  /\ \A i \in 1..Len(yielded) : Within(yielded[i], MaxFrame)

(* Every call of feed() returns: each iteration of its loop consumes input. *)
FeedTerminates == phase = "feeding" ~> phase # "feeding"
=============================================================================
