--------------------------- MODULE SubscriptionBytes ---------------------------
(***************************************************************************)
(* A subscription and its scanner together, over the bytes of a body: the  *)
(* loops of subscribe_once and poll_next (src/semantik/subscribe.rs) drive *)
(* the actions of SseScanner.  A body arrives symbol by symbol, is read in *)
(* chunks of any size, may end inside a frame, or break; the scanner moves *)
(* from the handshake to the stream with whatever it has buffered.         *)
(*                                                                         *)
(* What the reader must see is computed by SseReference on the text that   *)
(* arrived, so that Promise is about the scanner and the subscription as   *)
(* one.  HTTP refusals, abandoned polls and drops are in Subscription.     *)
(*                                                                         *)
(* HandOverFresh, FlushForgotten and EndUnnoticed are plausible slips of   *)
(* the definition that follows each of them.                               *)
(***************************************************************************)
EXTENDS SseReference

CONSTANTS
  Bodies,    \* the bodies that a server may answer a handshake with
  MaxDials   \* bound: the handshakes that a retry policy makes

ASSUME BodiesAssumption == Bodies \subseteq Seq(Symbols)
ASSUME MaxDialsAssumption == MaxDials \in Nat

VARIABLES
  step,      \* "ready" or "handshake" in subscribe(), "failed" when it
             \* returned Err, "open"
  body,      \* what the server will have sent on this connection
  arrived,   \* how much of it has arrived
  conn,      \* "up", "ended" or "broken"; "down" without a connection
  pending,   \* frames the scanner returned, not yet looked at
  finished,  \* Subscription.finished
  returned,  \* what poll_next last returned: "nothing", "match", "error", "end"
  given,     \* history: the match frames the reader was given
  popped,    \* history: how many frames of this connection left pending
  dials      \* history: handshakes made

scanner == <<buf, cur, pending_cr, closed, phase, out, fed, yielded>>
reader == <<finished, returned, given>>
net == <<body, arrived, conn>>
bytesVars == <<scanner, step, net, pending, reader, popped, dials>>

MatchEvent == <<"match">>
SubscribedEvent == <<"subscribed">>
Acknowledges(frame) == frame.event = SubscribedEvent /\ frame.data # << >>
-----------------------------------------------------------------------------
ScannerNew ==
  /\ buf' = << >> /\ cur' = EmptyFrame
  /\ pending_cr' = FALSE /\ closed' = FALSE
  /\ phase' = "idle" /\ out' = << >>
  /\ fed' = << >> /\ yielded' = << >>

BytesInit ==
  /\ Init
  /\ step = "ready" /\ body = << >> /\ arrived = 0 /\ conn = "down"
  /\ pending = << >> /\ finished = FALSE
  /\ returned = "nothing" /\ given = << >>
  /\ popped = 0 /\ dials = 0

(* The server accepts a handshake with an event stream.                    *)
Dial ==
  /\ step = "ready"
  /\ step' = "handshake" /\ dials' = dials + 1
  /\ body' \in Bodies /\ arrived' = 0 /\ conn' = "up"
  /\ ScannerNew
  /\ pending' = << >> /\ popped' = 0
  /\ UNCHANGED reader

(* subscribe_once fails; the policy, perhaps a caller's own, goes on.      *)
SetupFails ==
  /\ step' \in {"failed"} \union (IF dials < MaxDials THEN {"ready"} ELSE {})
  /\ UNCHANGED <<net, reader, dials>>

(* No frame is pending, so that a loop turns to the body.                  *)
TurnsToBody ==
  /\ step \in {"handshake", "open"} /\ phase = "idle"
  /\ pending = << >> /\ ~finished
AllRead == Len(fed) = arrived
Opened == step = "open"
InSetup == step = "handshake"
Over == returned \in {"end", "error"}

ReadChunk ==
  /\ TurnsToBody
  /\ \E n \in (Len(fed) + 1)..arrived : Feed(SubSeq(body, Len(fed) + 1, n))
  /\ UNCHANGED <<step, net, pending, reader, popped, dials>>

ScanLine == TakeLine /\ UNCHANGED <<step, net, pending, reader, popped, dials>>

ChunkScanned ==
  /\ FeedReturn
  /\ pending' = pending \o out
  /\ UNCHANGED <<step, net, reader, popped, dials>>

(* feed() or close() returned FrameTooLarge.                               *)
FrameTooLarge ==
  /\ phase = "failed"
  /\ UNCHANGED <<scanner, pending, popped>>
  /\ \/ InSetup /\ SetupFails
     \/ /\ Opened /\ ~Over
        /\ finished' = TRUE /\ returned' = "error"
        /\ UNCHANGED <<step, net, given, dials>>

(* What close() adds to the frames returned.                               *)
FlushForgotten(before, after) == << >>
Flush(before, after) == SubSeq(after, Len(before) + 1, Len(after))

AtEnd == TurnsToBody /\ conn = "ended" /\ AllRead
CloseScanner == Close \/ CloseAgain
-----------------------------------------------------------------------------
(* subscribe_once: the first frame, the end of the body before it.         *)
HandOverFresh ==
  /\ buf' = << >> /\ cur' = EmptyFrame /\ pending_cr' = FALSE
  /\ UNCHANGED <<closed, phase, out, fed, yielded>>
HandOver == UNCHANGED scanner

FirstFrame ==
  /\ InSetup /\ phase = "idle" /\ pending # << >>
  /\ IF Acknowledges(Head(pending))
     THEN /\ step' = "open" /\ HandOver
          /\ UNCHANGED <<net, reader, dials>>
     ELSE SetupFails /\ UNCHANGED scanner
  /\ pending' = Tail(pending)
  /\ popped' = popped + 1

FirstAtEnd ==
  /\ InSetup /\ AtEnd /\ ~closed
  /\ Close
  /\ pending' = Flush(yielded, yielded')
  /\ UNCHANGED <<step, net, reader, popped, dials>>

ClosedBeforeFirst ==
  /\ InSetup /\ AtEnd /\ closed
  /\ SetupFails /\ UNCHANGED <<scanner, pending, popped>>

FirstBroken ==
  /\ InSetup /\ TurnsToBody /\ conn = "broken"
  /\ SetupFails /\ UNCHANGED <<scanner, pending, popped>>

(* poll_next.                                                              *)
TakeMatch ==
  /\ Opened /\ phase = "idle" /\ pending # << >> /\ Head(pending).event = MatchEvent
  /\ given' = Append(given, Head(pending)) /\ returned' = "match"
  /\ pending' = Tail(pending) /\ popped' = popped + 1
  /\ UNCHANGED <<scanner, step, net, finished, dials>>

SkipFrame ==
  /\ Opened /\ phase = "idle" /\ pending # << >> /\ Head(pending).event # MatchEvent
  /\ pending' = Tail(pending) /\ popped' = popped + 1
  /\ UNCHANGED <<scanner, step, net, reader, dials>>

PollBroken ==
  /\ Opened /\ TurnsToBody /\ conn = "broken"
  /\ finished' = TRUE /\ returned' = "error"
  /\ UNCHANGED <<scanner, step, net, pending, given, popped, dials>>

EndUnnoticed ==
  /\ Opened /\ AtEnd
  /\ CloseScanner
  /\ pending' = Flush(yielded, yielded')
  /\ UNCHANGED <<step, net, reader, popped, dials>>
PollEnd ==
  /\ Opened /\ AtEnd
  /\ CloseScanner
  /\ finished' = TRUE /\ pending' = Flush(yielded, yielded')
  /\ UNCHANGED <<step, net, returned, given, popped, dials>>

PollAfterEnd ==
  /\ Opened /\ finished /\ pending = << >>
  /\ phase = "idle" \/ returned = "error"
  /\ returned' = "end"
  /\ UNCHANGED <<scanner, step, net, pending, finished, given, popped, dials>>
-----------------------------------------------------------------------------
(* External: bytes arrive, and the body ends or breaks between any two.    *)
Arrive ==
  /\ conn = "up" /\ arrived < Len(body)
  /\ arrived' = arrived + 1
  /\ UNCHANGED <<scanner, step, body, conn, pending, reader, popped, dials>>

BodyStops ==
  /\ conn = "up"
  /\ conn' \in {"ended", "broken"}
  /\ UNCHANGED <<scanner, step, body, arrived, pending, reader, popped, dials>>

Loops ==
  \/ ReadChunk \/ ScanLine \/ ChunkScanned \/ FrameTooLarge
  \/ FirstFrame \/ FirstAtEnd \/ ClosedBeforeFirst \/ FirstBroken
  \/ TakeMatch \/ SkipFrame \/ PollBroken \/ PollEnd \/ PollAfterEnd

BytesNext == Dial \/ Loops \/ Arrive \/ BodyStops

(* The executor runs the loops, and the reader keeps polling.              *)
BytesSpec == BytesInit /\ [][BytesNext]_bytesVars /\ WF_bytesVars(Loops)
-----------------------------------------------------------------------------
InUse == step \in {"handshake", "open"} /\ ~Over

(* Nothing is lost or doubled between the bytes and the reader, also over  *)
(* the hand-over of a scanner that holds half a frame: the matches given   *)
(* and pending are those of the text fed so far, the text taken as a whole *)
(* and its first frame set aside; and a clean end means all of the body.   *)
Matches(frames) ==
  ElementsAt(frames, {i \in DOMAIN frames : frames[i].event = MatchEvent})

NoByteLost ==
  Opened /\ phase = "idle" =>
    /\ given \o Matches(pending) = Matches(Tail(RefFrames(Received)))
    /\ returned = "end" /\ conn = "ended" => AllRead

(* A body that ended or broke is noticed, whatever its last bytes are, by  *)
(* a handshake and by a reader who keeps polling.                          *)
StopNoticed == (InUse /\ conn \in {"ended", "broken"}) ~> ~InUse

(* The promise to the reader, of the frames that the text which arrived is *)
(* made of; an oversized run of lines is one item, with nothing after it.  *)
Oversize == [event |-> "oversize", data |-> << >>]
AsItem(frame) ==
  [event |-> IF frame.event = MatchEvent THEN "match"
             ELSE IF frame.event = SubscribedEvent THEN "subscribed" ELSE "other",
   data |-> frame.data]
AsItems(frames) == [n \in 1..Len(frames) |-> AsItem(frames[n])]

ItemsOf(text) ==
  LET over == Oversized(RefLines(text))
  IN  IF over = {} THEN AsItems(RefFrames(text))
      ELSE Append(AsItems(FramesUpTo(RefLines(text), Min(over) - 1)), Oversize)

(* The items in the first n symbols of each body, which ends there or not. *)
ItemsIn ==
  [b \in Bodies |->
     [n \in 0..Len(b) |->
        [ends \in BOOLEAN |->
           ItemsOf(SubSeq(b, 1, n) \o IF ends THEN <<LF, LF>> ELSE << >>)]]]

AllItems ==
  UNION {UNION {Range(ItemsIn[b][n][TRUE]) : n \in 0..Len(b)} : b \in Bodies}

Remaining ==
  LET items == ItemsIn[body][arrived][conn = "ended"]
  IN  SubSeq(items, popped + 1, Len(items))

Promise ==
  INSTANCE MatchStream
    WITH Items <- AllItems,
         status <- IF step = "failed" THEN "closed"
                   ELSE IF ~Opened THEN "setup" ELSE IF Over THEN "over" ELSE "open",
         conn <- IF InUse THEN conn ELSE "down",
         queue <- IF InUse THEN Remaining ELSE << >>,
         given <- AsItems(given)
KeepsPromise == Promise!Spec
=============================================================================
