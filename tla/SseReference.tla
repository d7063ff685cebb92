----------------------------- MODULE SseReference -----------------------------
(***************************************************************************)
(* What a body means, defined on the whole text at once and without the    *)
(* scanner's state: the text is split into lines, the lines into blocks    *)
(* ended by blank lines, and each block is one frame.  The scanner must    *)
(* produce this whatever the chunks were.                                  *)
(***************************************************************************)
EXTENDS SseScanner, SequencesExt, Positions

(* The last position of every line break whose extent is known.            *)
BreakEnds(text) ==
  {i \in 1..Len(text) :
     \/ text[i] = LF
     \/ text[i] = CR /\ i < Len(text) /\ text[i + 1] # LF}

(* The line that the break at `end' ends: what is before the break, which  *)
(* is two bytes long when it is a CRLF.                                    *)
BeforeBreak(text, end) ==
  IF text[end] = LF /\ end > 1 /\ text[end - 1] = CR THEN end - 2 ELSE end - 1

(* The lines of a text, each named by the position where its break ends.   *)
RefLines(text) ==
  LET ends == BreakEnds(text)
  IN  [k \in ends |-> SubSeq(text, PartStart(ends, k), BeforeBreak(text, k))]

(* The lines named a to b of a block, which has no blank line: its event   *)
(* is the last one named, and its data the values joined by newlines, save *)
(* that leading empty ones vanish.                                         *)
HasField(lines, k, prefix) == k \in DOMAIN lines /\ lines[k][1] = prefix

RefEvent(lines, a, b) ==
  LET named == {k \in a..b : HasField(lines, k, "event:")}
  IN  IF named = {} THEN << >> ELSE Value(lines[Max(named)])

Joined(data, value) == IF data = << >> THEN value ELSE data \o <<LF>> \o value

RefData(lines, a, b) ==
  LET joined[k \in Nat] ==
        IF k < a THEN << >>
        ELSE IF HasField(lines, k, "data:") THEN Joined(joined[k - 1], Value(lines[k]))
        ELSE joined[k - 1]
  IN  joined[b]

(* The block before a position starts after the last blank line before it. *)
BlankLines(lines) == {k \in DOMAIN lines : lines[k] = << >>}

RefFrame(lines, k) ==
  LET start == PartStart(BlankLines(lines), k)
  IN  [event |-> RefEvent(lines, start, k - 1), data |-> RefData(lines, start, k - 1)]

FrameEnds(lines) ==
  {k \in BlankLines(lines) : ~IsBlank(RefFrame(lines, k))}

(* The frames that end up to a position, and all the frames of a text.     *)
FramesUpTo(lines, last) ==
  ElementsUpTo([k \in FrameEnds(lines) |-> RefFrame(lines, k)], FrameEnds(lines), last)

RefFrames(text) == FramesUpTo(RefLines(text), Len(text))

(* The size counted for the lines named a to b: comments are free.         *)
Counted(lines, a, b) ==
  LET counted[k \in Nat] ==
        IF k < a THEN 0
        ELSE IF k \notin DOMAIN lines THEN counted[k - 1]
        ELSE IF lines[k] = << >> \/ lines[k][1] = ":" THEN counted[k - 1]
        ELSE counted[k - 1] + Len(lines[k])
  IN  counted[b]

(* The counter restarts after each frame, not after each block.            *)
CountStart(lines, k) == PartStart(FrameEnds(lines), k)

Oversized(lines) ==
  {k \in DOMAIN lines : Counted(lines, CountStart(lines, k), k) > MaxFrame}

(* The text with what close() makes of its end: the last line is ended and *)
(* its block closed.                                                       *)
Received == IF closed THEN fed \o <<LF, LF>> ELSE fed
-----------------------------------------------------------------------------
(* The result of feed() and close() is a function of the bytes alone: the  *)
(* caller has been handed the frames of the text received so far, and no   *)
(* others, wherever the chunks were cut; and the scanner fails exactly     *)
(* when the text holds an oversized run of lines.                          *)
ChunkIndependent ==
  LET over == Oversized(RefLines(Received))
  IN  /\ phase = "idle" => yielded = RefFrames(Received) /\ over = {}
      /\ phase = "failed" => IsPrefix(yielded, RefFrames(Received)) /\ over # {}

(* sse.rs:11-13: the accumulated size is per frame, and only larger frames *)
(* are refused.  Stated of blocks: some block of a refused body is larger  *)
(* than the cap.                                                           *)
CapIsPerFrame ==
  LET lines == RefLines(Received)
  IN  phase = "failed" =>
        \E k \in DOMAIN lines :
          Counted(lines, PartStart(BlankLines(lines), k), k) > MaxFrame

(* sse.rs:50-51: feed() yields all frames that became complete.  Stated of *)
(* the frames completed before the line that is refused.                   *)
CompletedFramesDelivered ==
  LET lines == RefLines(Received)
  IN  phase = "failed" => yielded = FramesUpTo(lines, Min(Oversized(lines)) - 1)

(* sse.rs:11-14: the cap bounds the scanner's memory.  Stated of the bytes *)
(* an idle scanner retains, a deferred CR aside.                           *)
RetentionBounded == phase = "idle" => Len(buf) <= MaxFrame + 1
=============================================================================
