------------------------ MODULE SubscriptionBytesProofs ------------------------
(***************************************************************************)
(* Proofs about SubscriptionBytes for every set of bodies, size cap and    *)
(* bound of handshakes: a reader is given the matches of the text that     *)
(* arrived, all of them and in order, and every step is one the abstract   *)
(* stream of MatchStream allows.  The scanner's part is SseScanner's,      *)
(* whose invariants hold although the loops of the subscription drive it.  *)
(***************************************************************************)
EXTENDS SubscriptionBytes, SseScannerProofs

(* The types, and how far the body was read.                               *)
BytesTyped ==
  /\ body \in Seq(Symbols)
  /\ arrived \in 0..Len(body)
  /\ Len(fed) <= arrived
  /\ pending \in Seq(Frame)
  /\ given \in Seq(Frame)

(* Before the stream is open the reader has nothing, and what the scanner  *)
(* handed over is still pending.                                           *)
SetupInv ==
  /\ ~Opened => given = << >> /\ returned = "nothing" /\ ~finished
  /\ InSetup => pending = yielded

(* Once it is open, the matches given and pending are those the scanner    *)
(* handed over after the acknowledgement, and a stream is finished only    *)
(* for a reason.                                                           *)
Account(before, waiting, frames) ==
  before \o Matches(waiting) = Matches(Tail(frames))
Stopped == phase = "failed" \/ conn = "broken" \/ (conn = "ended" /\ AllRead)

OpenInv ==
  Opened =>
    /\ yielded # << >>
    /\ Account(given, pending, yielded)
    /\ finished => Stopped
    /\ returned = "end" => finished

LoopInv == BytesTyped /\ SetupInv /\ OpenInv
-----------------------------------------------------------------------------
(***************************************************************************)
(* The scanner under the loops.                                            *)
(***************************************************************************)

(* Every step starts a scanner, makes one of its calls, moves its loop on  *)
(* or leaves it alone.                                                     *)
ScannerFed == \E m \in Int : \E chunk \in ChunksUpTo(m) : Feed(chunk)
ScannerMoves ==
  ScannerNew \/ ScannerFed \/ TakeLine \/ FeedReturn \/ Close \/ UNCHANGED vars

(* A chunk is a piece of the body that has arrived and was not yet read.   *)
LEMMA ChunkRead ==
  ASSUME BytesTyped, fed \in Seq(Symbols), ReadChunk
  PROVE  /\ ScannerFed
         /\ fed' \in Seq(Symbols) /\ Len(fed') <= arrived
         /\ phase = "idle" /\ phase' = "feeding"
         /\ yielded' = yielded
<1>1. PICK n \in (Len(fed) + 1)..arrived : Feed(SubSeq(body, Len(fed) + 1, n))
  BY DEF ReadChunk
<1>2. /\ Len(fed) \in Nat /\ arrived \in Nat /\ Len(body) \in Nat /\ arrived <= Len(body)
      /\ \A i \in 1..Len(body) : body[i] \in Symbols
  BY LenProperties, ElementOfSeq DEF BytesTyped
<1> DEFINE chunk == SubSeq(body, Len(fed) + 1, n)
<1>3. chunk \in Seq(Symbols) /\ Len(chunk) = n - Len(fed)
  <2>1. Len(fed) + 1 \in Int /\ n \in Int /\ Len(fed) + 1 <= n
    BY <1>2
  <2>2. \A i \in (Len(fed) + 1)..n : body[i] \in Symbols
    BY <1>2
  <2>3. chunk \in Seq(Symbols) /\ Len(chunk) = n - (Len(fed) + 1) + 1
    BY <2>1, <2>2, SubSeqProperties
  <2> QED
    BY <1>2, <2>3
<1> HIDE DEF chunk
<1>4. Len(chunk) \in Nat /\ chunk \in [1..Len(chunk) -> Symbols]
  BY <1>3, LenProperties
<1>5. Len(chunk) \in Int /\ Len(chunk) \in 0..Len(chunk)
  BY <1>4
<1>6. chunk \in ChunksUpTo(Len(chunk))
  BY <1>4, <1>5, Zenon DEF ChunksUpTo
<1>7. Feed(chunk)
  BY <1>1 DEF chunk
<1>8. ScannerFed
  BY <1>5, <1>6, <1>7, Zenon DEF ScannerFed
<1>9. fed' = fed \o chunk /\ phase = "idle" /\ phase' = "feeding" /\ yielded' = yielded
  BY <1>7 DEF Feed
<1>10. fed \o chunk \in Seq(Symbols) /\ Len(fed \o chunk) = Len(fed) + Len(chunk)
  BY <1>3, ConcatProperties
<1>11. Len(fed') <= arrived
  BY <1>2, <1>3, <1>9, <1>10
<1> QED
  BY <1>8, <1>9, <1>10, <1>11

LEMMA LoopsMoveScanner ==
  ASSUME BytesTyped, fed \in Seq(Symbols), [BytesNext]_bytesVars
  PROVE  ScannerMoves
<1>1. CASE Dial
  BY <1>1 DEF Dial, ScannerMoves
<1>2. CASE ReadChunk
  BY <1>2, ChunkRead DEF ScannerMoves
<1>3. CASE ScanLine \/ ChunkScanned
  BY <1>3 DEF ScanLine, ChunkScanned, ScannerMoves
<1>4. CASE FirstAtEnd
  BY <1>4 DEF FirstAtEnd, ScannerMoves
<1>5. CASE PollEnd
  BY <1>5 DEF PollEnd, CloseScanner, CloseAgain, ScannerMoves
<1>6. CASE FrameTooLarge \/ ClosedBeforeFirst \/ FirstBroken \/ PollBroken
  BY <1>6 DEF FrameTooLarge, ClosedBeforeFirst, FirstBroken, PollBroken,
              ScannerMoves, scanner, vars
<1>7. CASE FirstFrame
  BY <1>7 DEF FirstFrame, HandOver, ScannerMoves, scanner, vars
<1>8. CASE TakeMatch \/ SkipFrame \/ PollAfterEnd \/ Arrive \/ BodyStops
  BY <1>8 DEF TakeMatch, SkipFrame, PollAfterEnd, Arrive, BodyStops,
              ScannerMoves, scanner, vars
<1>9. CASE UNCHANGED bytesVars
  BY <1>9 DEF bytesVars, ScannerMoves, scanner, vars
<1> QED
  BY <1>1, <1>2, <1>3, <1>4, <1>5, <1>6, <1>7, <1>8, <1>9 DEF BytesNext, Loops

(* A scanner that was just made satisfies its invariants.                  *)
LEMMA ScannerIsNew ==
  ASSUME ScannerNew
  PROVE  ScannerInv' /\ TextInv'
<1>1. Init'
  BY DEF ScannerNew, Init
<1> QED
  BY <1>1, InitInv, TextInit, PTL

LEMMA ScannerKept ==
  ASSUME ScannerInv, TextInv, ScannerMoves
  PROVE  ScannerInv' /\ TextInv'
<1>1. CASE ScannerNew
  BY <1>1, ScannerIsNew
<1>2. CASE ScannerFed
  <2>1. PICK m \in Int : \E chunk \in ChunksUpTo(m) : Feed(chunk)
    BY <1>2 DEF ScannerFed
  <2>2. PICK chunk \in ChunksUpTo(m) : Feed(chunk)
    BY <2>1
  <2> QED
    BY <2>2, FeedInv, TextFeed
<1>3. CASE TakeLine \/ FeedReturn \/ Close \/ UNCHANGED vars
  <2>1. [Next]_vars
    BY <1>3 DEF Next
  <2> QED
    BY <2>1, NextInv, TextNext
<1> QED
  BY <1>1, <1>2, <1>3 DEF ScannerMoves

-----------------------------------------------------------------------------
(***************************************************************************)
(* The account of the matches.                                             *)
(***************************************************************************)
MatchFrames == {frame \in Frame : frame.event = MatchEvent}

(* The matches among some frames are those selected by their event.        *)
LEMMA MatchesSelected ==
  ASSUME NEW s \in Seq(Frame)
  PROVE  Matches(s) = Selected(s, MatchFrames) /\ Matches(s) \in Seq(Frame)
<1>1. {i \in DOMAIN s : s[i].event = MatchEvent} = {i \in DOMAIN s : s[i] \in MatchFrames}
  BY ElementOfSeq DEF MatchFrames
<1>2. Matches(s) = Selected(s, MatchFrames)
  BY <1>1, Zenon DEF Matches, Selected
<1> QED
  BY <1>2, SelectionTyped, Zenon

(* The frames that a call of the scanner returns join both sides.          *)
LEMMA AccountJoins ==
  ASSUME NEW g \in Seq(Frame), NEW w \in Seq(Frame), NEW y \in Seq(Frame), y # << >>,
         NEW more \in Seq(Frame), Account(g, w, y)
  PROVE  Account(g, w \o more, y \o more)
<1> DEFINE rest == Tail(y)
           a == Matches(w)
           b == Matches(more)
           c == Matches(rest)
<1>1. /\ rest \in Seq(Frame) /\ w \o more \in Seq(Frame) /\ rest \o more \in Seq(Frame)
      /\ Tail(y \o more) = rest \o more
  BY HeadTailProperties, ConcatProperties, HeadOfConcat
<1> HIDE DEF rest
<1>2. a \in Seq(Frame) /\ b \in Seq(Frame)
  BY MatchesSelected
<1>3. Matches(w \o more) = a \o b /\ Matches(rest \o more) = c \o b
  <2>1. SelectsJoins(Frame, MatchFrames)
    BY SelectionJoins, Zenon
  <2>2. /\ Selected(w \o more, MatchFrames) =
             Selected(w, MatchFrames) \o Selected(more, MatchFrames)
        /\ Selected(rest \o more, MatchFrames) =
             Selected(rest, MatchFrames) \o Selected(more, MatchFrames)
    BY <1>1, <2>1, Zenon DEF SelectsJoins
  <2>3. /\ a = Selected(w, MatchFrames) /\ b = Selected(more, MatchFrames)
        /\ c = Selected(rest, MatchFrames)
        /\ Matches(w \o more) = Selected(w \o more, MatchFrames)
        /\ Matches(rest \o more) = Selected(rest \o more, MatchFrames)
    BY <1>1, MatchesSelected, Zenon
  <2> QED
    BY <2>2, <2>3, Zenon
<1>4. g \o a = c
  BY Zenon DEF Account, rest
<1> HIDE DEF a, b, c
<1>5. g \o (a \o b) = (g \o a) \o b
  <2>1. Associates(Frame)
    BY ConcatLaws, Zenon
  <2> QED
    BY <1>2, <2>1, Zenon DEF Associates
<1> QED
  BY <1>1, <1>3, <1>4, <1>5, Zenon DEF Account, rest

(* The first frame that waits is given, or is no match.                    *)
LEMMA AccountHead ==
  ASSUME NEW g \in Seq(Frame), NEW w \in Seq(Frame), w # << >>,
         NEW y, Account(g, w, y)
  PROVE  /\ Head(w).event = MatchEvent => Account(Append(g, Head(w)), Tail(w), y)
         /\ Head(w).event # MatchEvent => Account(g, Tail(w), y)
<1>1. Head(w) \in Frame /\ Tail(w) \in Seq(Frame)
  BY HeadTailProperties
<1>2. Head(w) \in MatchFrames <=> Head(w).event = MatchEvent
  BY <1>1 DEF MatchFrames
<1>3. Matches(w) = Selected(w, MatchFrames) /\ Matches(Tail(w)) = Selected(Tail(w), MatchFrames)
  BY <1>1, MatchesSelected, Zenon
<1>4. SelectsHeads(Frame, MatchFrames)
  BY SelectionHeads, Zenon
<1>5. /\ Head(w) \in MatchFrames =>
           Append(g, Head(w)) \o Selected(Tail(w), MatchFrames) = g \o Selected(w, MatchFrames)
      /\ Head(w) \notin MatchFrames =>
           Selected(Tail(w), MatchFrames) = Selected(w, MatchFrames)
  BY <1>4, Zenon DEF SelectsHeads
<1> QED
  BY <1>2, <1>3, <1>5, Zenon DEF Account

(* A stream that opens accounts for all frames but the first.              *)
LEMMA AccountOpens ==
  ASSUME NEW y \in Seq(Frame), y # << >>
  PROVE  Account(<< >>, Tail(y), y)
<1> DEFINE m == Matches(Tail(y))
<1>1. Tail(y) \in Seq(Frame)
  BY HeadTailProperties
<1>2. m \in Seq(Frame)
  BY <1>1, MatchesSelected
<1> HIDE DEF m
<1>3. << >> \o m = m
  BY <1>2, ConcatEmptySeq
<1> QED
  BY <1>3, Zenon DEF Account, m

(* The rest of a sequence after what it begins with.                       *)
LEMMA FlushedRest ==
  ASSUME NEW s \in Seq(Frame), NEW more \in Seq(Frame)
  PROVE  Flush(s, s \o more) = more
<1> DEFINE whole == s \o more
           u == SubSeq(whole, Len(s) + 1, Len(whole))
<1>1. /\ Len(s) \in Nat /\ Len(more) \in Nat /\ whole \in Seq(Frame)
      /\ Len(whole) = Len(s) + Len(more)
      /\ \A i \in 1..Len(more) : whole[Len(s) + i] = more[i]
  BY ConcatProperties, LenProperties
<1>2. \A i \in 1..Len(whole) : whole[i] \in Frame
  BY <1>1, ElementOfSeq
<1> HIDE DEF whole
<1>3. /\ Len(s) + 1 \in Int /\ Len(whole) \in Int
      /\ \A i \in (Len(s) + 1)..Len(whole) : whole[i] \in Frame
  BY <1>1, <1>2
<1>4. /\ u \in Seq(Frame)
      /\ Len(u) = IF Len(s) + 1 <= Len(whole) THEN Len(whole) - (Len(s) + 1) + 1 ELSE 0
      /\ \A i \in 1..(Len(whole) - (Len(s) + 1) + 1) : u[i] = whole[Len(s) + 1 + i - 1]
  BY <1>3, SubSeqProperties
<1> HIDE DEF u
<1>5. Len(u) = Len(more)
  BY <1>1, <1>4
<1>6. ASSUME NEW i \in 1..Len(more)
      PROVE  u[i] = more[i]
  <2>1. i \in 1..(Len(whole) - (Len(s) + 1) + 1) /\ Len(s) + 1 + i - 1 = Len(s) + i
    BY <1>1
  <2>2. u[i] = whole[Len(s) + 1 + i - 1]
    BY <1>4, <2>1, Zenon
  <2> QED
    BY <1>1, <2>1, <2>2, Zenon
<1>7. u = more
  BY <1>4, <1>5, <1>6, SeqEqual
<1> QED
  BY <1>7, Zenon DEF Flush, u, whole

(* What close() hands out is what is flushed.                              *)
LEMMA CloseHands ==
  ASSUME ScannerInv, CloseScanner
  PROVE  /\ yielded' = yielded \o Flush(yielded, yielded')
         /\ Flush(yielded, yielded') \in Seq(Frame)
         /\ phase = "idle" /\ fed' = fed
<1>0. yielded \in Seq(Frame)
  BY DEF ScannerInv, TypeOK
<1>1. \E more \in Seq(Frame) : yielded' = yielded \o more
  <2>1. CASE CloseAgain
    <3>1. yielded' = yielded
      BY <2>1 DEF CloseAgain, vars
    <3>2. yielded \o << >> = yielded /\ << >> \in Seq(Frame)
      BY <1>0, ConcatEmptySeq
    <3> QED
      BY <3>1, <3>2
  <2>2. CASE Close
    <3> DEFINE flushed == Flushed
               frame == FrameOf(flushed.cur)
    <3>1. phase = "idle"
      BY <2>2 DEF Close
    <3>2. /\ flushed.frames \in Seq(Frame) /\ flushed.cur \in Partial
          /\ flushed.ok => flushed.cur.size <= MaxFrame
          /\ Characters(flushed.cur) <= flushed.cur.size
      BY <3>1, FlushedBounded
    <3>3. \/ yielded' = Append(yielded, frame) /\ flushed.ok
          \/ yielded' = yielded \o flushed.frames
      BY <2>2 DEF Close
    <3>4. flushed.ok => frame \in Frame
      BY <3>2, FrameOfBounded
    <3> HIDE DEF flushed, frame
    <3>5. flushed.ok => Append(yielded, frame) = yielded \o <<frame>> /\ <<frame>> \in Seq(Frame)
      BY <1>0, <3>4, AppendIsConcat
    <3> QED
      BY <3>2, <3>3, <3>5, Zenon
  <2> QED
    BY <2>1, <2>2 DEF CloseScanner
<1>2. PICK more \in Seq(Frame) : yielded' = yielded \o more
  BY <1>1
<1>3. Flush(yielded, yielded') = more
  BY <1>0, <1>2, FlushedRest, Zenon
<1>4. phase = "idle" /\ fed' = fed
  BY DEF CloseScanner, Close, CloseAgain, vars
<1> QED
  BY <1>2, <1>3, <1>4

-----------------------------------------------------------------------------
(***************************************************************************)
(* The invariant, action by action.                                        *)
(***************************************************************************)
LEMMA LoopInit == BytesInit => LoopInv
<1> SUFFICES ASSUME BytesInit PROVE LoopInv
  OBVIOUS
<1>1. /\ step = "ready" /\ body = << >> /\ arrived = 0 /\ fed = << >>
      /\ pending = << >> /\ given = << >> /\ returned = "nothing" /\ finished = FALSE
  BY DEF BytesInit, Init
<1>2. \A S : << >> \in Seq(S)
  BY EmptySeq
<1>3. Len(<< >>) = 0 /\ 0 \in 0..0 /\ 0 <= 0
  OBVIOUS
<1>4. BytesTyped
  BY <1>1, <1>2, <1>3, Zenon DEF BytesTyped
<1> QED
  BY <1>1, <1>4 DEF LoopInv, SetupInv, OpenInv, Opened, InSetup

(* A handshake starts over: a body from its beginning, a new scanner.      *)
LEMMA DialKeeps ==
  ASSUME LoopInv, Dial
  PROVE  LoopInv'
<1>1. /\ step = "ready" /\ step' = "handshake" /\ body' \in Bodies /\ arrived' = 0
      /\ fed' = << >> /\ pending' = << >> /\ yielded' = << >>
      /\ given' = given /\ returned' = returned /\ finished' = finished
  BY DEF Dial, ScannerNew, reader
<1>2. \A S : << >> \in Seq(S)
  BY EmptySeq
<1>3. body' \in Seq(Symbols)
  BY <1>1, BodiesAssumption
<1>4. Len(body') \in Nat /\ Len(fed') = 0
  BY <1>1, <1>3, LenProperties
<1>5. 0 \in 0..Len(body')
  BY <1>4
<1>6. BytesTyped'
  BY <1>1, <1>2, <1>3, <1>4, <1>5 DEF LoopInv, BytesTyped
<1> QED
  BY <1>1, <1>6 DEF LoopInv, SetupInv, OpenInv, Opened, InSetup

(* Bytes arrive, and the body stops, behind what was read.                 *)
LEMMA BodyKeeps ==
  ASSUME LoopInv, fed \in Seq(Symbols), Arrive \/ BodyStops
  PROVE  LoopInv'
<1>1. /\ UNCHANGED <<scanner, step, pending, reader>> /\ body' = body
      /\ conn = "up" /\ arrived' \in 0..Len(body) /\ arrived <= arrived'
  <2>1. CASE Arrive
    <3>1. arrived' = arrived + 1 /\ arrived < Len(body) /\ arrived \in 0..Len(body)
      BY <2>1 DEF Arrive, LoopInv, BytesTyped
    <3>2. Len(body) \in Nat
      BY LenProperties DEF LoopInv, BytesTyped
    <3> QED
      BY <2>1, <3>1, <3>2 DEF Arrive
  <2>2. CASE BodyStops
    <3>1. arrived' = arrived /\ arrived \in 0..Len(body)
      BY <2>2 DEF BodyStops, LoopInv, BytesTyped
    <3> QED
      BY <2>2, <3>1 DEF BodyStops
  <2> QED
    BY <2>1, <2>2
<1>2. /\ fed' = fed /\ yielded' = yielded /\ phase' = phase /\ step' = step
      /\ pending' = pending /\ given' = given
      /\ returned' = returned /\ finished' = finished
  BY <1>1 DEF scanner, reader
<1>3. Len(fed) \in Nat /\ Len(fed) <= arrived /\ arrived \in Nat /\ arrived' \in Nat
  BY <1>1, LenProperties DEF LoopInv, BytesTyped
<1>4. BytesTyped'
  BY <1>1, <1>2, <1>3 DEF LoopInv, BytesTyped
<1>5. SetupInv'
  BY <1>2 DEF LoopInv, SetupInv, Opened, InSetup
<1>6. OpenInv'
  <2>1. Opened /\ finished => phase' = "failed"
    BY <1>1, <1>2 DEF LoopInv, OpenInv, Stopped
  <2> QED
    BY <1>2, <2>1 DEF LoopInv, OpenInv, Opened, Stopped
<1> QED
  BY <1>4, <1>5, <1>6 DEF LoopInv

(* A chunk is read only by a stream that is not finished.                  *)
LEMMA ReadKeeps ==
  ASSUME LoopInv, fed \in Seq(Symbols), ReadChunk
  PROVE  LoopInv'
<1>1. /\ fed' \in Seq(Symbols) /\ Len(fed') <= arrived /\ yielded' = yielded
  BY ChunkRead DEF LoopInv
<1>2. /\ step' = step /\ body' = body /\ arrived' = arrived /\ pending' = pending
      /\ given' = given /\ returned' = returned /\ finished' = finished /\ ~finished
  BY DEF ReadChunk, TurnsToBody, net, reader
<1>3. BytesTyped'
  BY <1>1, <1>2 DEF LoopInv, BytesTyped
<1> QED
  BY <1>1, <1>2, <1>3 DEF LoopInv, SetupInv, OpenInv, Opened, InSetup

LEMMA ScanKeeps ==
  ASSUME LoopInv, ScanLine
  PROVE  LoopInv'
<1>1. /\ step' = step /\ body' = body /\ arrived' = arrived /\ pending' = pending
      /\ given' = given /\ returned' = returned /\ finished' = finished /\ conn' = conn
      /\ fed' = fed /\ yielded' = yielded /\ phase = "feeding"
  BY DEF ScanLine, TakeLine, DrainAndConsume, net, reader
<1>2. BytesTyped' /\ SetupInv'
  BY <1>1 DEF LoopInv, BytesTyped, SetupInv, Opened, InSetup
<1>3. OpenInv'
  <2>1. Opened /\ finished => conn = "broken" \/ (conn = "ended" /\ AllRead)
    BY <1>1 DEF LoopInv, OpenInv, Stopped
  <2> QED
    BY <1>1, <2>1 DEF LoopInv, OpenInv, Opened, Stopped, AllRead
<1> QED
  BY <1>2, <1>3 DEF LoopInv

(* The frames that a feed() returns wait behind those that wait already.   *)
LEMMA ScannedKeeps ==
  ASSUME ScannerInv, LoopInv, ChunkScanned
  PROVE  LoopInv'
<1>1. /\ step' = step /\ body' = body /\ arrived' = arrived /\ conn' = conn
      /\ given' = given /\ returned' = returned /\ finished' = finished
      /\ fed' = fed /\ phase = "feeding"
      /\ pending' = pending \o out /\ yielded' = yielded \o out
  BY DEF ChunkScanned, FeedReturn, net, reader
<1>2. /\ yielded \in Seq(Frame) /\ out \in Seq(Frame) /\ pending \in Seq(Frame)
      /\ given \in Seq(Frame)
  BY DEF ScannerInv, TypeOK, LoopInv, BytesTyped
<1>3. pending' \in Seq(Frame)
  BY <1>1, <1>2, ConcatProperties
<1>4. BytesTyped'
  BY <1>1, <1>3 DEF LoopInv, BytesTyped
<1>5. SetupInv'
  BY <1>1 DEF LoopInv, SetupInv, Opened, InSetup
<1>6. OpenInv'
  <2>1. SUFFICES ASSUME Opened PROVE OpenInv'
    BY <1>1 DEF OpenInv, Opened
  <2>2. /\ yielded # << >> /\ Account(given, pending, yielded)
        /\ finished => conn = "broken" \/ (conn = "ended" /\ AllRead)
        /\ returned = "end" => finished
    BY <1>1, <2>1 DEF LoopInv, OpenInv, Stopped
  <2>3. Account(given, pending \o out, yielded \o out)
    BY <1>2, <2>2, AccountJoins
  <2>4. yielded \o out # << >>
    BY <1>2, <2>2, HeadOfConcat
  <2>5. Account(given', pending', yielded')
    BY <1>1, <2>3, Zenon
  <2>6. yielded' # << >>
    BY <1>1, <2>4, Zenon
  <2> QED
    BY <1>1, <2>2, <2>5, <2>6 DEF OpenInv, Stopped, AllRead
<1> QED
  BY <1>4, <1>5, <1>6 DEF LoopInv

(* The handshake ends, and the reader has seen nothing.                    *)
LEMMA SetupKeeps ==
  ASSUME LoopInv, InSetup, SetupFails, UNCHANGED scanner, pending' \in Seq(Frame)
  PROVE  LoopInv'
<1>1. /\ step = "handshake" /\ step' \in {"failed", "ready"}
      /\ body' = body /\ arrived' = arrived /\ fed' = fed
      /\ given' = given /\ returned' = returned /\ finished' = finished
  BY DEF InSetup, SetupFails, net, reader, scanner
<1>2. BytesTyped'
  BY <1>1 DEF LoopInv, BytesTyped
<1> QED
  BY <1>1, <1>2 DEF LoopInv, SetupInv, OpenInv, Opened, InSetup

LEMMA FirstKeeps ==
  ASSUME ScannerInv, LoopInv, FirstFrame
  PROVE  LoopInv'
<1>1. /\ step = "handshake" /\ pending # << >> /\ pending' = Tail(pending)
      /\ InSetup /\ pending \in Seq(Frame)
  BY DEF FirstFrame, InSetup, LoopInv, BytesTyped
<1>2. pending' \in Seq(Frame)
  BY <1>1, HeadTailProperties
<1>3. CASE Acknowledges(Head(pending))
  <2>1. /\ step' = "open" /\ UNCHANGED <<scanner, net, reader>>
    BY <1>3 DEF FirstFrame, HandOver
  <2>2. /\ body' = body /\ arrived' = arrived /\ fed' = fed /\ yielded' = yielded
        /\ given' = given /\ returned' = returned /\ finished' = finished
    BY <2>1 DEF scanner, net, reader
  <2>3. /\ given = << >> /\ returned = "nothing" /\ ~finished /\ pending = yielded
    BY <1>1 DEF LoopInv, SetupInv, Opened, InSetup
  <2>4. Account(<< >>, Tail(yielded), yielded)
    BY <1>1, <2>3, AccountOpens
  <2>5. Account(given', pending', yielded') /\ yielded' # << >>
    BY <1>1, <2>2, <2>3, <2>4, Zenon
  <2>6. BytesTyped'
    BY <1>2, <2>2 DEF LoopInv, BytesTyped
  <2> QED
    BY <2>1, <2>2, <2>3, <2>5, <2>6 DEF LoopInv, SetupInv, OpenInv, Opened, InSetup
<1>4. CASE ~Acknowledges(Head(pending))
  <2>1. SetupFails /\ UNCHANGED scanner
    BY <1>4 DEF FirstFrame
  <2> QED
    BY <1>1, <1>2, <2>1, SetupKeeps
<1> QED
  BY <1>3, <1>4

(* What close() flushes waits, for the handshake and for the reader.       *)
LEMMA FlushKeeps ==
  ASSUME ScannerInv, LoopInv, FirstAtEnd \/ PollEnd
  PROVE  LoopInv'
<1>1. CloseScanner /\ pending = << >> /\ ~finished /\ conn = "ended" /\ AllRead
  BY DEF FirstAtEnd, PollEnd, AtEnd, TurnsToBody, CloseScanner
<1> DEFINE more == Flush(yielded, yielded')
<1>2. yielded' = yielded \o more /\ more \in Seq(Frame) /\ fed' = fed
  BY <1>1, CloseHands
<1>3. /\ step' = step /\ body' = body /\ arrived' = arrived /\ conn' = conn
      /\ given' = given /\ returned' = returned /\ pending' = more
  BY DEF FirstAtEnd, PollEnd, net, reader
<1> HIDE DEF more
<1>4. /\ pending' \in Seq(Frame) /\ yielded \in Seq(Frame) /\ given \in Seq(Frame)
      /\ << >> \in Seq(Frame) /\ << >> \o more = more
  BY <1>2, <1>3, ConcatEmptySeq DEF ScannerInv, TypeOK, LoopInv, BytesTyped
<1>5. BytesTyped'
  BY <1>2, <1>3, <1>4 DEF LoopInv, BytesTyped
<1>6. CASE FirstAtEnd
  <2>1. step = "handshake" /\ finished' = finished
    BY <1>6 DEF FirstAtEnd, InSetup, reader
  <2>2. yielded = << >>
    BY <1>1, <2>1 DEF LoopInv, SetupInv, InSetup
  <2>3. pending' = yielded'
    BY <1>2, <1>3, <1>4, <2>2, Zenon
  <2> QED
    BY <1>3, <1>5, <2>1, <2>3 DEF LoopInv, SetupInv, OpenInv, Opened, InSetup
<1>7. CASE PollEnd
  <2>1. step = "open" /\ finished'
    BY <1>7 DEF PollEnd, Opened
  <2>2. yielded # << >> /\ Account(given, << >>, yielded)
    BY <1>1, <2>1, Zenon DEF LoopInv, OpenInv, Opened
  <2>3. Account(given, << >> \o more, yielded \o more)
    BY <1>2, <1>4, <2>2, AccountJoins
  <2>4. yielded \o more # << >>
    BY <1>2, <1>4, <2>2, HeadOfConcat
  <2>5. Account(given', pending', yielded') /\ yielded' # << >>
    BY <1>2, <1>3, <1>4, <2>3, <2>4, Zenon
  <2>6. Stopped'
    BY <1>1, <1>2, <1>3 DEF Stopped, AllRead
  <2> QED
    BY <1>3, <1>5, <2>1, <2>5, <2>6 DEF LoopInv, SetupInv, OpenInv, Opened, InSetup
<1> QED
  BY <1>6, <1>7

(* The reader is given a match, and does not see another frame.            *)
LEMMA TakeKeeps ==
  ASSUME LoopInv, TakeMatch \/ SkipFrame
  PROVE  LoopInv'
<1>1. /\ step = "open" /\ pending # << >> /\ pending' = Tail(pending)
      /\ step' = step /\ body' = body /\ arrived' = arrived /\ conn' = conn
      /\ fed' = fed /\ yielded' = yielded /\ phase' = phase /\ finished' = finished
      /\ phase = "idle" /\ returned' \in {"match", returned}
      /\ \/ Head(pending).event = MatchEvent /\ given' = Append(given, Head(pending))
         \/ Head(pending).event # MatchEvent /\ given' = given
  BY DEF TakeMatch, SkipFrame, Opened, scanner, net, reader
<1>2. /\ pending \in Seq(Frame) /\ given \in Seq(Frame)
      /\ yielded # << >> /\ Account(given, pending, yielded)
      /\ finished => Stopped
      /\ returned = "end" => finished
  BY <1>1 DEF LoopInv, BytesTyped, OpenInv, Opened
<1>3. Account(given', pending', yielded')
  <2>1. /\ Head(pending).event = MatchEvent =>
             Account(Append(given, Head(pending)), Tail(pending), yielded)
        /\ Head(pending).event # MatchEvent => Account(given, Tail(pending), yielded)
    BY <1>1, <1>2, AccountHead
  <2> QED
    BY <1>1, <2>1, Zenon
<1>4. pending' \in Seq(Frame) /\ given' \in Seq(Frame)
  <2>1. Head(pending) \in Frame /\ Tail(pending) \in Seq(Frame)
    BY <1>1, <1>2, HeadTailProperties
  <2>2. Append(given, Head(pending)) \in Seq(Frame)
    BY <1>2, <2>1, AppendProperties
  <2> QED
    BY <1>1, <1>2, <2>1, <2>2, Zenon
<1>5. BytesTyped'
  BY <1>1, <1>4 DEF LoopInv, BytesTyped
<1>6. finished' => Stopped'
  BY <1>1, <1>2 DEF Stopped, AllRead
<1>7. returned' = "end" => finished'
  BY <1>1, <1>2
<1> QED
  BY <1>1, <1>2, <1>3, <1>5, <1>6, <1>7 DEF LoopInv, SetupInv, OpenInv, Opened, InSetup

(* Nothing moves but what the poll returned and whether it was the last.   *)
LEMMA PollKeeps ==
  ASSUME LoopInv, Opened, UNCHANGED <<scanner, step, net, pending, given>>,
         finished' => Stopped, returned' = "end" => finished'
  PROVE  LoopInv'
<1>1. /\ step = "open" /\ step' = step /\ body' = body /\ arrived' = arrived
      /\ conn' = conn /\ fed' = fed /\ yielded' = yielded /\ phase' = phase
      /\ pending' = pending /\ given' = given
  BY DEF Opened, scanner, net
<1>2. BytesTyped'
  BY <1>1 DEF LoopInv, BytesTyped
<1>3. yielded' # << >> /\ Account(given', pending', yielded')
  BY <1>1, Zenon DEF LoopInv, OpenInv, Opened
<1>4. finished' => Stopped'
  BY <1>1 DEF Stopped, AllRead
<1> QED
  BY <1>1, <1>2, <1>3, <1>4 DEF LoopInv, SetupInv, OpenInv, Opened, InSetup

(* Every step keeps the invariant.                                         *)
LEMMA LoopNext ==
  ASSUME ScannerInv, LoopInv, [BytesNext]_bytesVars
  PROVE  LoopInv'
<1>0. fed \in Seq(Symbols) /\ pending \in Seq(Frame)
  BY DEF ScannerInv, TypeOK, LoopInv, BytesTyped
<1>1. CASE Dial
  BY <1>1, DialKeeps
<1>2. CASE Arrive \/ BodyStops
  BY <1>0, <1>2, BodyKeeps
<1>3. CASE ReadChunk
  BY <1>0, <1>3, ReadKeeps
<1>4. CASE ScanLine
  BY <1>4, ScanKeeps
<1>5. CASE ChunkScanned
  BY <1>5, ScannedKeeps
<1>6. CASE FirstFrame
  BY <1>6, FirstKeeps
<1>7. CASE FirstAtEnd \/ PollEnd
  BY <1>7, FlushKeeps
<1>8. CASE TakeMatch \/ SkipFrame
  BY <1>8, TakeKeeps
<1>9. CASE ClosedBeforeFirst \/ FirstBroken
  <2>1. InSetup /\ SetupFails /\ UNCHANGED scanner /\ pending' = pending
    BY <1>9 DEF ClosedBeforeFirst, FirstBroken
  <2> QED
    BY <1>0, <2>1, SetupKeeps
<1>10. CASE FrameTooLarge
  <2>1. CASE InSetup /\ SetupFails
    BY <1>0, <1>10, <2>1, SetupKeeps DEF FrameTooLarge
  <2>2. CASE Opened /\ finished' = TRUE /\ returned' = "error"
             /\ UNCHANGED <<step, net, given>>
    BY <1>10, <2>2, PollKeeps DEF FrameTooLarge, Stopped
  <2> QED
    BY <1>10, <2>1, <2>2 DEF FrameTooLarge
<1>11. CASE PollBroken
  BY <1>11, PollKeeps DEF PollBroken, Stopped
<1>12. CASE PollAfterEnd
  <2>1. Opened /\ finished /\ finished' = finished
    BY <1>12 DEF PollAfterEnd
  <2>2. Stopped
    BY <2>1 DEF LoopInv, OpenInv
  <2> QED
    BY <1>12, <2>1, <2>2, PollKeeps DEF PollAfterEnd
<1>13. CASE UNCHANGED bytesVars
  BY <1>13 DEF LoopInv, BytesTyped, SetupInv, OpenInv, Opened, InSetup, Stopped, AllRead,
               bytesVars, scanner, net, reader
<1> QED
  BY <1>1, <1>2, <1>3, <1>4, <1>5, <1>6, <1>7, <1>8, <1>9, <1>10, <1>11, <1>12, <1>13
     DEF BytesNext, Loops

(* With the invariants, the text that arrived is accounted for.            *)
LEMMA NoByteLostNow ==
  ASSUME ScannerInv, TextInv, LoopInv
  PROVE  NoByteLost
<1> SUFFICES ASSUME Opened, phase = "idle"
             PROVE  /\ given \o Matches(pending) = Matches(Tail(RefFrames(Received)))
                    /\ returned = "end" /\ conn = "ended" => AllRead
  BY Zenon DEF NoByteLost
<1>1. yielded = RefFrames(Received)
  BY IndependentNow DEF ChunkIndependent
<1>2. Account(given, pending, yielded)
  BY Zenon DEF LoopInv, OpenInv
<1>3. returned = "end" /\ conn = "ended" => AllRead
  BY DEF LoopInv, OpenInv, Stopped
<1> QED
  BY <1>1, <1>2, <1>3, Zenon DEF Account

(* Between the bytes of a body and its reader nothing is lost or doubled,  *)
(* also over the hand-over of a scanner that holds half a frame, and a     *)
(* clean end means all of the body (subscribe_once, poll_next, feed,       *)
(* close).                                                                 *)
THEOREM NoByteIsLost == BytesSpec => []NoByteLost
<1>1. BytesInit => ScannerInv /\ TextInv /\ LoopInv
  BY InitInv, TextInit, LoopInit DEF BytesInit
<1>2. (ScannerInv /\ TextInv /\ LoopInv) /\ [BytesNext]_bytesVars
        => (ScannerInv /\ TextInv /\ LoopInv)'
  <2> SUFFICES ASSUME ScannerInv, TextInv, LoopInv, [BytesNext]_bytesVars
               PROVE  (ScannerInv /\ TextInv /\ LoopInv)'
    OBVIOUS
  <2>1. fed \in Seq(Symbols) /\ BytesTyped
    BY DEF ScannerInv, TypeOK, LoopInv
  <2>2. ScannerMoves
    BY <2>1, LoopsMoveScanner
  <2> QED
    BY <2>2, ScannerKept, LoopNext
<1>3. ScannerInv /\ TextInv /\ LoopInv => NoByteLost
  BY NoByteLostNow
<1> QED
  BY <1>1, <1>2, <1>3, PTL DEF BytesSpec

-----------------------------------------------------------------------------
(***************************************************************************)
(* The items of a text, line by line.                                      *)
(***************************************************************************)
Item == [event : {"match", "subscribed", "other", "oversize"}, data : Seq(Chars)]

(* A frame is one item, and never the oversized one.                       *)
LEMMA AsItemTyped ==
  ASSUME NEW frame \in Frame
  PROVE  /\ AsItem(frame) \in Item /\ AsItem(frame).event # "oversize"
         /\ AsItem(frame).event = "match" <=> frame.event = MatchEvent
         /\ frame.event = SubscribedEvent => AsItem(frame).event = "subscribed"
<1>1. frame.data \in Seq(Chars)
  BY DEF Frame
<1>2. MatchEvent # SubscribedEvent
  BY DEF MatchEvent, SubscribedEvent
<1> QED
  BY <1>1, <1>2 DEF AsItem, Item

LEMMA AsItemsTyped ==
  ASSUME NEW s \in Seq(Frame)
  PROVE  /\ AsItems(s) \in Seq(Item) /\ Len(AsItems(s)) = Len(s)
         /\ \A i \in 1..Len(s) : AsItems(s)[i] = AsItem(s[i])
<1>1. Len(s) \in Nat /\ \A i \in 1..Len(s) : s[i] \in Frame
  BY LenProperties, ElementOfSeq
<1>2. \A i \in 1..Len(s) : AsItem(s[i]) \in Item
  BY <1>1, AsItemTyped
<1> QED
  BY <1>1, <1>2 DEF AsItems

(* A join, element by element.                                             *)
LEMMA JoinIs ==
  ASSUME NEW X, NEW s \in Seq(X), NEW t \in Seq(X), NEW joined, joined = s \o t
  PROVE  /\ joined \in Seq(X) /\ Len(joined) = Len(s) + Len(t)
         /\ \A i \in 1..Len(s) : joined[i] = s[i]
         /\ \A i \in 1..Len(t) : joined[Len(s) + i] = t[i]
  BY ConcatProperties

(* Items of joined frames are joined items.                                *)
LEMMA AsItemsJoin ==
  ASSUME NEW s \in Seq(Frame), NEW t \in Seq(Frame)
  PROVE  AsItems(s \o t) = AsItems(s) \o AsItems(t)
<1> DEFINE whole == s \o t
           l == AsItems(whole)
           a == AsItems(s)
           b == AsItems(t)
           r == a \o b
<1>1. /\ Len(s) \in Nat /\ Len(t) \in Nat /\ whole \in Seq(Frame)
      /\ Len(whole) = Len(s) + Len(t)
      /\ \A i \in 1..Len(s) : whole[i] = s[i]
      /\ \A i \in 1..Len(t) : whole[Len(s) + i] = t[i]
  BY ConcatProperties, LenProperties
<1> HIDE DEF whole
<1>2. /\ a \in Seq(Item) /\ Len(a) = Len(s) /\ \A i \in 1..Len(s) : a[i] = AsItem(s[i])
      /\ b \in Seq(Item) /\ Len(b) = Len(t) /\ \A i \in 1..Len(t) : b[i] = AsItem(t[i])
      /\ l \in Seq(Item) /\ Len(l) = Len(whole)
      /\ \A i \in 1..Len(whole) : l[i] = AsItem(whole[i])
  BY <1>1, AsItemsTyped
<1> HIDE DEF l, a, b
<1>3. /\ r \in Seq(Item) /\ Len(r) = Len(a) + Len(b)
      /\ \A i \in 1..Len(a) : r[i] = a[i]
      /\ \A i \in 1..Len(b) : r[Len(a) + i] = b[i]
  <2>1. r = a \o b
    OBVIOUS
  <2>2. a \in Seq(Item) /\ b \in Seq(Item)
    BY <1>2
  <2> HIDE DEF r
  <2> QED
    BY <2>1, <2>2, JoinIs
<1> HIDE DEF r
<1>4. ASSUME NEW i \in 1..Len(l)
      PROVE  l[i] = r[i]
  <2>1. l[i] = AsItem(whole[i])
    BY <1>2
  <2>2. CASE i <= Len(s)
    <3>1. i \in 1..Len(s)
      BY <1>1, <2>2
    <3> QED
      BY <1>1, <1>2, <1>3, <2>1, <3>1, Zenon
  <2>3. CASE ~(i <= Len(s))
    <3> DEFINE j == i - Len(s)
    <3>1. j \in 1..Len(t) /\ i = Len(s) + j
      BY <1>1, <1>2, <2>3
    <3> HIDE DEF j
    <3> QED
      BY <1>1, <1>2, <1>3, <2>1, <3>1, Zenon
  <2> QED
    BY <2>2, <2>3
<1>5. l = r
  BY <1>1, <1>2, <1>3, <1>4, SeqEqual
<1> QED
  BY <1>5, Zenon DEF l, r, a, b, whole

LEMMA AsItemsOne ==
  ASSUME NEW s \in Seq(Frame), NEW frame \in Frame
  PROVE  AsItems(Append(s, frame)) = Append(AsItems(s), AsItem(frame))
<1> DEFINE longer == Append(s, frame)
           l == AsItems(longer)
           a == AsItems(s)
           item == AsItem(frame)
           r == Append(a, item)
<1>1. /\ Len(s) \in Nat /\ longer \in Seq(Frame) /\ Len(longer) = Len(s) + 1
      /\ \A i \in 1..Len(s) : longer[i] = s[i]
      /\ longer[Len(s) + 1] = frame
  BY AppendProperties, LenProperties
<1> HIDE DEF longer
<1>2. /\ a \in Seq(Item) /\ Len(a) = Len(s) /\ \A i \in 1..Len(s) : a[i] = AsItem(s[i])
      /\ l \in Seq(Item) /\ Len(l) = Len(longer)
      /\ \A i \in 1..Len(longer) : l[i] = AsItem(longer[i])
      /\ item \in Item
  BY <1>1, AsItemsTyped, AsItemTyped
<1> HIDE DEF l, a
<1>3. /\ r \in Seq(Item) /\ Len(r) = Len(a) + 1
      /\ \A i \in 1..Len(a) : r[i] = a[i]
      /\ r[Len(a) + 1] = item
  BY <1>2, AppendProperties
<1> HIDE DEF r
<1>4. ASSUME NEW i \in 1..Len(l)
      PROVE  l[i] = r[i]
  <2>1. l[i] = AsItem(longer[i])
    BY <1>2
  <2>2. CASE i \in 1..Len(s)
    BY <1>1, <1>2, <1>3, <2>1, <2>2, Zenon
  <2>3. CASE i = Len(s) + 1
    BY <1>1, <1>2, <1>3, <2>1, <2>3, Zenon
  <2> QED
    BY <1>1, <1>2, <2>2, <2>3
<1>5. l = r
  BY <1>1, <1>2, <1>3, <1>4, SeqEqual
<1> QED
  BY <1>5, Zenon DEF l, r, a, longer

(* The least of some numbers.                                              *)
LEMMA LeastOf ==
  ASSUME NEW S \in SUBSET Nat, S # {}
  PROVE  Min(S) \in S /\ \A k \in S : Min(S) <= k
<1> DEFINE below == OpToRel(<, Nat)
<1>1. IsWellFoundedOn(below, Nat)
  BY NatLessThanWellFounded
<1> HIDE DEF below
<1>2. PICK m \in S : \A j \in S : <<j, m>> \notin below
  BY <1>1, WFMin
<1>3. \A j \in S : ~(j < m)
  BY <1>2, Zenon DEF below, OpToRel
<1>4. \A j \in S : m <= j
  BY <1>3
<1> QED
  BY <1>4, Zenon DEF Min

(* The items that end up to a position.                                    *)
OverUpTo(lines, last) == {k \in Oversized(lines) : k <= last}
ItemsUpTo(lines, last) ==
  LET over == OverUpTo(lines, last)
  IN  IF over = {} THEN AsItems(FramesUpTo(lines, last))
      ELSE Append(AsItems(FramesUpTo(lines, Min(over) - 1)), Oversize)

LEMMA OverIs ==
  ASSUME NEW lines, IsLines(lines), NEW n \in Nat
  PROVE  /\ OverUpTo(lines, n) \in SUBSET (Nat \ {0})
         /\ OverUpTo(lines, n) # {} =>
              /\ Min(OverUpTo(lines, n)) \in OverUpTo(lines, n)
              /\ Min(OverUpTo(lines, n)) \in Oversized(lines)
              /\ Min(OverUpTo(lines, n)) - 1 \in Nat
              /\ Min(OverUpTo(lines, n)) <= n
<1>1. OverUpTo(lines, n) \in SUBSET (Nat \ {0})
  BY DEF OverUpTo, Oversized, IsLines
<1>2. OverUpTo(lines, n) \in SUBSET Nat
  BY <1>1
<1>3. OverUpTo(lines, n) # {} => Min(OverUpTo(lines, n)) \in OverUpTo(lines, n)
  BY <1>2, LeastOf
<1>4. \A k \in OverUpTo(lines, n) : k <= n /\ k \in Oversized(lines) /\ k - 1 \in Nat
  BY <1>1 DEF OverUpTo
<1> QED
  BY <1>1, <1>3, <1>4

LEMMA ItemsTyped ==
  ASSUME NEW lines, IsLines(lines), NEW n \in Nat
  PROVE  ItemsUpTo(lines, n) \in Seq(Item)
<1>1. \A k \in Nat : AsItems(FramesUpTo(lines, k)) \in Seq(Item)
  BY RefFrameTyped, AsItemsTyped
<1>2. Oversize \in Item
  BY DEF Oversize, Item
<1>3. CASE OverUpTo(lines, n) = {}
  BY <1>1, <1>3, Zenon DEF ItemsUpTo
<1>4. CASE OverUpTo(lines, n) # {}
  <2> DEFINE first == Min(OverUpTo(lines, n)) - 1
             some == AsItems(FramesUpTo(lines, first))
  <2>1. first \in Nat
    BY <1>4, OverIs
  <2> HIDE DEF first
  <2>2. some \in Seq(Item)
    BY <1>1, <2>1
  <2> HIDE DEF some
  <2>3. Append(some, Oversize) \in Seq(Item)
    BY <1>2, <2>2, AppendProperties
  <2>4. ItemsUpTo(lines, n) = Append(some, Oversize)
    BY <1>4, Zenon DEF ItemsUpTo, some, first
  <2> QED
    BY <2>3, <2>4, Zenon
<1> QED
  BY <1>3, <1>4

(* One more position adds at most one item: none when it ends no line, and *)
(* none after an oversized line.                                           *)
GrowsByOne(shorter, longer) ==
  longer = shorter \/ \E item \in Item : longer = Append(shorter, item)

LEMMA ItemsStep ==
  ASSUME NEW lines, IsLines(lines), NEW n \in Nat
  PROVE  /\ GrowsByOne(ItemsUpTo(lines, n), ItemsUpTo(lines, n + 1))
         /\ n + 1 \notin FrameEnds(lines) /\ n + 1 \notin Oversized(lines) =>
              ItemsUpTo(lines, n + 1) = ItemsUpTo(lines, n)
         /\ OverUpTo(lines, n) # {} => ItemsUpTo(lines, n + 1) = ItemsUpTo(lines, n)
<1> DEFINE frames == FramesUpTo(lines, n)
           more == FramesUpTo(lines, n + 1)
           frame == RefFrame(lines, n + 1)
<1>1. frames \in Seq(Frame) /\ frame \in Frame
  BY RefFrameTyped
<1>2. /\ n + 1 \in FrameEnds(lines) => more = Append(frames, frame)
      /\ n + 1 \notin FrameEnds(lines) => more = frames
  <2> DEFINE ends == FrameEnds(lines)
             at == [k \in ends |-> RefFrame(lines, k)]
  <2>1. /\ n + 1 \in ends => ElementsUpTo(at, ends, n + 1) =
                               Append(ElementsUpTo(at, ends, n), at[n + 1])
        /\ n + 1 \notin ends => ElementsUpTo(at, ends, n + 1) = ElementsUpTo(at, ends, n)
    BY ElementsStep
  <2>2. n + 1 \in ends => at[n + 1] = frame
    BY Zenon
  <2> QED
    BY <2>1, <2>2, Zenon DEF FramesUpTo
<1>3. OverUpTo(lines, n) # {} => ItemsUpTo(lines, n + 1) = ItemsUpTo(lines, n)
  <2> SUFFICES ASSUME OverUpTo(lines, n) # {}
               PROVE  ItemsUpTo(lines, n + 1) = ItemsUpTo(lines, n)
    OBVIOUS
  <2> DEFINE a == Min(OverUpTo(lines, n))
             b == Min(OverUpTo(lines, n + 1))
  <2>1. /\ OverUpTo(lines, n) \in SUBSET Nat /\ OverUpTo(lines, n + 1) \in SUBSET Nat
        /\ OverUpTo(lines, n) \subseteq OverUpTo(lines, n + 1)
        /\ \A k \in OverUpTo(lines, n + 1) : k <= n => k \in OverUpTo(lines, n)
        /\ \A k \in OverUpTo(lines, n) : k <= n
    <3>1. \A k \in Oversized(lines) : k \in Nat
      BY DEF Oversized, IsLines
    <3> QED
      BY <3>1 DEF OverUpTo
  <2>2. OverUpTo(lines, n + 1) # {}
    BY <2>1
  <2>3. /\ a \in OverUpTo(lines, n) /\ \A k \in OverUpTo(lines, n) : a <= k
        /\ b \in OverUpTo(lines, n + 1) /\ \A k \in OverUpTo(lines, n + 1) : b <= k
    BY <2>1, <2>2, LeastOf
  <2> HIDE DEF a, b
  <2>4. a = b
    BY <2>1, <2>3
  <2> QED
    BY <2>2, <2>4, Zenon DEF ItemsUpTo, a, b
<1>4. CASE OverUpTo(lines, n) = {} /\ n + 1 \notin Oversized(lines)
  <2>1. OverUpTo(lines, n + 1) = {}
    <3>1. \A k \in Oversized(lines) : k \in Nat
      BY DEF Oversized, IsLines
    <3> QED
      BY <1>4, <3>1 DEF OverUpTo
  <2>2. ItemsUpTo(lines, n) = AsItems(frames) /\ ItemsUpTo(lines, n + 1) = AsItems(more)
    BY <1>4, <2>1, Zenon DEF ItemsUpTo
  <2> HIDE DEF frames, more, frame
  <2>3. AsItems(Append(frames, frame)) = Append(AsItems(frames), AsItem(frame))
    BY <1>1, AsItemsOne
  <2>4. AsItem(frame) \in Item
    BY <1>1, AsItemTyped
  <2>5. /\ n + 1 \in FrameEnds(lines) =>
             ItemsUpTo(lines, n + 1) = Append(ItemsUpTo(lines, n), AsItem(frame))
        /\ n + 1 \notin FrameEnds(lines) => ItemsUpTo(lines, n + 1) = ItemsUpTo(lines, n)
    BY <1>2, <2>2, <2>3, Zenon
  <2> QED
    BY <1>4, <2>4, <2>5, Zenon DEF GrowsByOne
<1>5. CASE OverUpTo(lines, n) = {} /\ n + 1 \in Oversized(lines)
  <2>1. OverUpTo(lines, n + 1) = {n + 1}
    <3>1. \A k \in Oversized(lines) : k \in Nat
      BY DEF Oversized, IsLines
    <3> QED
      BY <1>5, <3>1 DEF OverUpTo
  <2>2. Min({n + 1}) = n + 1
    <3>1. {n + 1} \in SUBSET Nat /\ {n + 1} # {}
      OBVIOUS
    <3> QED
      BY <3>1, LeastOf
  <2>3. (n + 1) - 1 = n
    OBVIOUS
  <2>4. OverUpTo(lines, n + 1) # {} /\ Min(OverUpTo(lines, n + 1)) - 1 = n
    BY <2>1, <2>2, <2>3
  <2>5. ItemsUpTo(lines, n) = AsItems(frames)
    BY <1>5, Zenon DEF ItemsUpTo
  <2>6. ItemsUpTo(lines, n + 1) = Append(AsItems(frames), Oversize)
    BY <2>4, Zenon DEF ItemsUpTo
  <2>7. Oversize \in Item
    BY DEF Oversize, Item
  <2> QED
    BY <1>5, <2>5, <2>6, <2>7, Zenon DEF GrowsByOne
<1> QED
  BY <1>3, <1>4, <1>5, Zenon DEF GrowsByOne

(* Extending is reflexive and transitive, and one more item extends.       *)
LEMMA ExtendsLaws ==
  ASSUME NEW X
  PROVE  /\ \A s \in Seq(X) : Extends(X, s, s)
         /\ \A s \in Seq(X) : \A x \in X : Extends(X, s, Append(s, x))
         /\ \A s \in Seq(X) : \A t, u : Extends(X, s, t) /\ Extends(X, t, u) => Extends(X, s, u)
<1>1. ASSUME NEW s \in Seq(X)
      PROVE  Extends(X, s, s)
  <2>1. s \o << >> = s /\ << >> \in Seq(X)
    BY ConcatEmptySeq
  <2> QED
    BY <2>1, Zenon DEF Extends
<1>2. ASSUME NEW s \in Seq(X), NEW x \in X
      PROVE  Extends(X, s, Append(s, x))
  <2>1. Append(s, x) = s \o <<x>> /\ <<x>> \in Seq(X)
    BY AppendIsConcat
  <2> QED
    BY <2>1, Zenon DEF Extends
<1>3. ASSUME NEW s \in Seq(X), NEW t, NEW u, Extends(X, s, t), Extends(X, t, u)
      PROVE  Extends(X, s, u)
  <2>1. PICK a \in Seq(X) : t = s \o a
    BY <1>3, Zenon DEF Extends
  <2>2. PICK b \in Seq(X) : u = t \o b
    BY <1>3, Zenon DEF Extends
  <2>3. Associates(X)
    BY ConcatLaws, Zenon
  <2>4. u = s \o (a \o b)
    BY <2>1, <2>2, <2>3, Zenon DEF Associates
  <2>5. a \o b \in Seq(X)
    BY ConcatProperties
  <2> QED
    BY <2>4, <2>5, Zenon DEF Extends
<1> QED
  BY <1>1, <1>2, <1>3, Zenon

LEMMA GrowsExtends ==
  ASSUME NEW s \in Seq(Item), NEW t, GrowsByOne(s, t)
  PROVE  Extends(Item, s, t)
  BY ExtendsLaws, Zenon DEF GrowsByOne

(* Positions that end no line add nothing, and later ones only add.        *)
LEMMA ItemsGap ==
  ASSUME NEW lines, IsLines(lines), NEW n \in Nat, NEW last \in Nat, n <= last,
         \A k \in (n + 1)..last : k \notin DOMAIN lines
  PROVE  ItemsUpTo(lines, last) = ItemsUpTo(lines, n)
<1> DEFINE P == {k \in Nat : n <= k /\ k <= last =>
                               ItemsUpTo(lines, k) = ItemsUpTo(lines, n)}
<1>1. 0 \in P
  <2>1. n <= 0 => n = 0
    OBVIOUS
  <2> QED
    BY <2>1
<1>2. ASSUME NEW k \in Nat, k \in P PROVE k + 1 \in P
  <2> SUFFICES ASSUME n <= k + 1, k + 1 <= last
               PROVE  ItemsUpTo(lines, k + 1) = ItemsUpTo(lines, n)
    OBVIOUS
  <2>1. CASE n = k + 1
    BY <2>1
  <2>2. CASE n <= k
    <3>1. k + 1 \in (n + 1)..last /\ k <= last
      BY <2>2
    <3>2. k + 1 \notin FrameEnds(lines) /\ k + 1 \notin Oversized(lines)
      BY <3>1 DEF FrameEnds, BlankLines, Oversized
    <3>3. ItemsUpTo(lines, k + 1) = ItemsUpTo(lines, k)
      BY <3>2, ItemsStep
    <3> QED
      BY <1>2, <2>2, <3>1, <3>3
  <2> QED
    BY <2>1, <2>2
<1>3. \A k \in Nat : k \in P
  <2> HIDE DEF P
  <2> QED
    BY <1>1, <1>2, Induction
<1> QED
  BY <1>3

LEMMA ItemsGrow ==
  ASSUME NEW lines, IsLines(lines), NEW n \in Nat, NEW last \in Nat, n <= last
  PROVE  Extends(Item, ItemsUpTo(lines, n), ItemsUpTo(lines, last))
<1> DEFINE P == {k \in Nat : n <= k => Extends(Item, ItemsUpTo(lines, n), ItemsUpTo(lines, k))}
<1>0. \A k \in Nat : ItemsUpTo(lines, k) \in Seq(Item)
  BY ItemsTyped
<1>1. Extends(Item, ItemsUpTo(lines, n), ItemsUpTo(lines, n))
  BY <1>0, ExtendsLaws, Zenon
<1>2. 0 \in P
  <2>1. n <= 0 => n = 0
    OBVIOUS
  <2> QED
    BY <1>1, <2>1
<1>3. ASSUME NEW k \in Nat, k \in P PROVE k + 1 \in P
  <2> SUFFICES ASSUME n <= k + 1
               PROVE  Extends(Item, ItemsUpTo(lines, n), ItemsUpTo(lines, k + 1))
    OBVIOUS
  <2>1. CASE n = k + 1
    BY <1>1, <2>1
  <2>2. CASE n <= k
    <3>1. Extends(Item, ItemsUpTo(lines, n), ItemsUpTo(lines, k))
      BY <1>3, <2>2
    <3>2. GrowsByOne(ItemsUpTo(lines, k), ItemsUpTo(lines, k + 1))
      BY ItemsStep
    <3>3. Extends(Item, ItemsUpTo(lines, k), ItemsUpTo(lines, k + 1))
      BY <1>0, <3>2, GrowsExtends
    <3> QED
      BY <1>0, <3>1, <3>3, ExtendsLaws, Zenon
  <2> QED
    BY <2>1, <2>2
<1>4. \A k \in Nat : k \in P
  <2> HIDE DEF P
  <2> QED
    BY <1>2, <1>3, Induction
<1> QED
  BY <1>4

(* The items up to a position are those of the lines up to it.             *)
LEMMA ItemsAgree ==
  ASSUME NEW L, NEW M, IsLines(L), IsLines(M), NEW p \in Nat, SameLines(L, M, p)
  PROVE  ItemsUpTo(L, p) = ItemsUpTo(M, p)
<1>1. \A k \in Nat : k <= p => /\ k \in Oversized(L) <=> k \in Oversized(M)
                               /\ FramesUpTo(L, k) = FramesUpTo(M, k)
  BY FramesAgree, Zenon
<1>2. OverUpTo(L, p) = OverUpTo(M, p)
  <2>1. /\ \A k \in Oversized(L) : k \in Nat
        /\ \A k \in Oversized(M) : k \in Nat
    BY DEF Oversized, IsLines
  <2> QED
    BY <1>1, <2>1 DEF OverUpTo
<1>3. CASE OverUpTo(L, p) = {}
  <2>1. FramesUpTo(L, p) = FramesUpTo(M, p)
    BY <1>1
  <2> QED
    BY <1>2, <1>3, <2>1, Zenon DEF ItemsUpTo
<1>4. CASE OverUpTo(L, p) # {}
  <2> DEFINE first == Min(OverUpTo(L, p)) - 1
  <2>1. first \in Nat /\ first <= p
    BY <1>4, OverIs
  <2> HIDE DEF first
  <2>2. FramesUpTo(L, first) = FramesUpTo(M, first)
    BY <1>1, <2>1
  <2> QED
    BY <1>2, <1>4, <2>2, Zenon DEF ItemsUpTo, first
<1> QED
  BY <1>3, <1>4
-----------------------------------------------------------------------------
(***************************************************************************)
(* The items of a text that grows.                                         *)
(***************************************************************************)
LEMMA ItemsOfText ==
  ASSUME NEW text \in Seq(Symbols)
  PROVE  /\ ItemsOf(text) = ItemsUpTo(RefLines(text), Len(text))
         /\ ItemsOf(text) \in Seq(Item)
<1> DEFINE lines == RefLines(text)
           n == Len(text)
<1>1. /\ IsLines(lines) /\ DOMAIN lines = BreakEnds(text)
      /\ \A k \in BreakEnds(text) : k \in 1..n
  BY LinesTyped
<1>2. n \in Nat
  BY LenProperties
<1>3. OverUpTo(lines, n) = Oversized(lines)
  <2>1. \A k \in Oversized(lines) : k \in BreakEnds(text)
    BY <1>1 DEF Oversized
  <2>2. \A k \in Oversized(lines) : k <= n
    BY <1>1, <1>2, <2>1
  <2> QED
    BY <2>2 DEF OverUpTo
<1>4. ItemsUpTo(lines, n) = ItemsOf(text)
  BY <1>3, Zenon DEF ItemsUpTo, ItemsOf, RefFrames
<1>5. ItemsUpTo(lines, n) \in Seq(Item)
  BY <1>1, <1>2, ItemsTyped
<1> QED
  BY <1>4, <1>5

(* After its last complete line, a text has no break but an open CR.       *)
LEMMA LastBreak ==
  ASSUME NEW text \in Seq(Symbols)
  PROVE  \E p \in 0..Len(text) :
           /\ p = 0 \/ p \in BreakEnds(text)
           /\ \A k \in (p + 1)..Len(text) : k \notin BreakEnds(text)
           /\ Unfinished(Rest(text, p))
<1> DEFINE ends == BreakEnds(text)
           Latest(p, n) == /\ p \in 0..n
                           /\ p = 0 \/ p \in ends
                           /\ \A k \in (p + 1)..n : k \notin ends
           P == {n \in Nat : \E p \in Nat : Latest(p, n)}
<1>1. 0 \in P
  <2>1. Latest(0, 0)
    OBVIOUS
  <2> QED
    BY <2>1
<1>2. ASSUME NEW n \in Nat, n \in P PROVE n + 1 \in P
  <2>1. CASE n + 1 \in ends
    <3>1. Latest(n + 1, n + 1)
      BY <2>1
    <3> QED
      BY <3>1
  <2>2. CASE n + 1 \notin ends
    <3>1. PICK p \in Nat : Latest(p, n)
      BY <1>2
    <3>2. \A k \in (p + 1)..(n + 1) : k \in (p + 1)..n \/ k = n + 1
      OBVIOUS
    <3>3. Latest(p, n + 1)
      BY <2>2, <3>1, <3>2
    <3> QED
      BY <3>3
  <2> QED
    BY <2>1, <2>2
<1>3. \A n \in Nat : n \in P
  <2> HIDE DEF P
  <2> QED
    BY <1>1, <1>2, Induction
<1>4. Len(text) \in Nat
  BY LenProperties
<1>5. PICK p \in Nat : Latest(p, Len(text))
  BY <1>3, <1>4
<1>6. /\ Rest(text, p) \in Seq(Symbols) /\ Len(Rest(text, p)) = Len(text) - p
      /\ \A j \in 1..(Len(text) - p) : Rest(text, p)[j] = text[p + j]
  BY <1>5, RestOf
<1>7. Unfinished(Rest(text, p))
  <2> SUFFICES ASSUME NEW i \in 1..Len(Rest(text, p)), IsBreak(Rest(text, p)[i])
               PROVE  i = Len(Rest(text, p)) /\ Rest(text, p)[i] = CR
    BY DEF Unfinished
  <2> DEFINE k == p + i
  <2>1. k \in (p + 1)..Len(text) /\ k \in 1..Len(text) /\ Rest(text, p)[i] = text[k]
        /\ k + 1 \in Nat
    BY <1>4, <1>5, <1>6
  <2>2. text[k] \in {CR, LF} /\ k \notin ends
    BY <1>5, <2>1 DEF IsBreak
  <2>3. k + 1 <= Len(text) => k + 1 \notin ends
    BY <1>4, <1>5, <2>1
  <2> HIDE DEF k
  <2>4. text[k] # LF
    BY <2>1, <2>2 DEF BreakEnds
  <2>5. ~(k < Len(text))
    <3>1. SUFFICES ASSUME k < Len(text) PROVE FALSE
      OBVIOUS
    <3>2. text[k + 1] # LF
      <4>1. k + 1 \in 1..Len(text)
        BY <1>4, <2>1, <3>1
      <4> QED
        BY <2>3, <4>1 DEF BreakEnds
    <3> QED
      BY <2>1, <2>2, <2>4, <3>1, <3>2 DEF BreakEnds
  <2> QED
    BY <1>4, <1>5, <1>6, <2>1, <2>2, <2>4, <2>5 DEF k
<1> QED
  BY <1>5, <1>7

(* A longer text has the same items first.                                 *)
LEMMA TextItemsExtend ==
  ASSUME NEW text \in Seq(Symbols), NEW more \in Seq(Symbols)
  PROVE  Extends(Item, ItemsOf(text), ItemsOf(text \o more))
<1> DEFINE longer == text \o more
           L == RefLines(text)
           M == RefLines(longer)
<1>1. /\ longer \in Seq(Symbols) /\ Len(longer) = Len(text) + Len(more)
      /\ Len(text) \in Nat /\ Len(more) \in Nat
  BY ConcatProperties, LenProperties
<1>2. PICK p \in 0..Len(text) :
        /\ p = 0 \/ p \in BreakEnds(text)
        /\ \A k \in (p + 1)..Len(text) : k \notin BreakEnds(text)
  BY LastBreak
<1>3. p \in Nat /\ p <= Len(text) /\ p <= Len(longer) /\ Len(longer) \in Nat
  BY <1>1
<1>4. SameLines(L, M, p)
  BY <1>2, <1>3, LinesKept
<1> HIDE DEF longer
<1>5. IsLines(L) /\ IsLines(M) /\ DOMAIN L = BreakEnds(text)
  BY <1>1, LinesTyped
<1>6. ItemsOf(text) = ItemsUpTo(L, Len(text)) /\ ItemsOf(longer) = ItemsUpTo(M, Len(longer))
  BY <1>1, ItemsOfText
<1> HIDE DEF L, M
<1>7. ItemsUpTo(L, Len(text)) = ItemsUpTo(L, p)
  BY <1>1, <1>2, <1>3, <1>5, ItemsGap
<1>8. ItemsUpTo(L, p) = ItemsUpTo(M, p)
  BY <1>3, <1>4, <1>5, ItemsAgree
<1>9. Extends(Item, ItemsUpTo(M, p), ItemsUpTo(M, Len(longer)))
  BY <1>3, <1>5, ItemsGrow
<1> QED
  BY <1>6, <1>7, <1>8, <1>9, Zenon DEF longer

(* One more symbol completes at most one line, and so at most one item.    *)
LEMMA OneSymbolMore ==
  ASSUME NEW text \in Seq(Symbols), NEW x \in Symbols
  PROVE  GrowsByOne(ItemsOf(text), ItemsOf(text \o <<x>>))
<1> DEFINE longer == text \o <<x>>
           n == Len(text)
           L == RefLines(text)
           M == RefLines(longer)
<1>1. /\ n \in Nat /\ longer \in Seq(Symbols) /\ Len(longer) = n + 1
      /\ \A k \in 1..n : longer[k] = text[k]
      /\ longer[n + 1] = x
  BY ConcatProperties, LenProperties
<1>2. PICK p \in 0..Len(text) :
        /\ p = 0 \/ p \in BreakEnds(text)
        /\ \A k \in (p + 1)..Len(text) : k \notin BreakEnds(text)
  BY LastBreak
<1>3. p \in Nat /\ p <= n
  BY <1>1
<1>4. SameLines(L, M, p)
  <2>1. <<x>> \in Seq(Symbols)
    OBVIOUS
  <2> QED
    BY <1>2, <1>3, <2>1, LinesKept
<1> HIDE DEF longer
<1>5. IsLines(L) /\ IsLines(M) /\ DOMAIN L = BreakEnds(text) /\ DOMAIN M = BreakEnds(longer)
  BY <1>1, LinesTyped
<1>6. ItemsOf(text) = ItemsUpTo(L, n) /\ ItemsOf(longer) = ItemsUpTo(M, n + 1)
  BY <1>1, ItemsOfText
<1>7. \A k \in (p + 1)..(n - 1) : k \notin BreakEnds(longer)
  <2>1. TAKE k \in (p + 1)..(n - 1)
  <2>2. k \in (p + 1)..n /\ k \in 1..n /\ k + 1 \in 1..n /\ k < n /\ k < n + 1
    BY <1>1, <1>3
  <2>3. k \notin BreakEnds(text) /\ longer[k] = text[k] /\ longer[k + 1] = text[k + 1]
    BY <1>1, <1>2, <2>2
  <2> QED
    BY <1>1, <2>2, <2>3 DEF BreakEnds
<1>8. p < n => n \notin BreakEnds(longer) \/ n + 1 \notin BreakEnds(longer)
  <2> SUFFICES ASSUME p < n, n \in BreakEnds(longer), n + 1 \in BreakEnds(longer)
               PROVE  FALSE
    OBVIOUS
  <2>1. n \in (p + 1)..n /\ n \in 1..n
    BY <1>1, <1>3
  <2>2. n \notin BreakEnds(text) /\ longer[n] = text[n]
    BY <1>1, <1>2, <2>1
  <2>3. text[n] # LF
    BY <2>1, <2>2 DEF BreakEnds
  <2>4. longer[n + 1] # LF
    BY <1>1, <2>2, <2>3 DEF BreakEnds
  <2> QED
    BY <1>1, <2>4 DEF BreakEnds
<1> HIDE DEF L, M, n
<1>9. ItemsUpTo(L, n) = ItemsUpTo(L, p)
  BY <1>1, <1>2, <1>3, <1>5, ItemsGap DEF n
<1>10. ItemsUpTo(L, p) = ItemsUpTo(M, p)
  BY <1>3, <1>4, <1>5, ItemsAgree
<1>11. CASE p = n
  <2>1. GrowsByOne(ItemsUpTo(M, n), ItemsUpTo(M, n + 1))
    BY <1>1, <1>5, ItemsStep
  <2> QED
    BY <1>6, <1>10, <1>11, <1>9, <2>1, Zenon DEF longer
<1>12. CASE p < n
  <2> DEFINE m == n - 1
  <2>1. m \in Nat /\ p <= m /\ m + 1 = n
    BY <1>1, <1>3, <1>12
  <2>2. ItemsUpTo(M, m) = ItemsUpTo(M, p)
    BY <1>3, <1>5, <1>7, <2>1, ItemsGap
  <2> HIDE DEF m
  <2>3. /\ GrowsByOne(ItemsUpTo(M, m), ItemsUpTo(M, n))
        /\ n \notin FrameEnds(M) /\ n \notin Oversized(M) =>
             ItemsUpTo(M, n) = ItemsUpTo(M, m)
    BY <1>5, <2>1, ItemsStep
  <2>4. /\ GrowsByOne(ItemsUpTo(M, n), ItemsUpTo(M, n + 1))
        /\ n + 1 \notin FrameEnds(M) /\ n + 1 \notin Oversized(M) =>
             ItemsUpTo(M, n + 1) = ItemsUpTo(M, n)
    BY <1>1, <1>5, ItemsStep
  <2>5. \A k : k \notin BreakEnds(longer) => k \notin FrameEnds(M) /\ k \notin Oversized(M)
    BY <1>5 DEF FrameEnds, BlankLines, Oversized
  <2>6. ItemsOf(text) = ItemsUpTo(M, m)
    BY <1>6, <1>9, <1>10, <2>2, Zenon
  <2>7. GrowsByOne(ItemsUpTo(M, m), ItemsUpTo(M, n + 1))
    BY <1>8, <1>12, <2>3, <2>4, <2>5, Zenon
  <2> QED
    BY <1>6, <2>6, <2>7, Zenon DEF longer
<1> QED
  BY <1>1, <1>3, <1>11, <1>12

(* A blank line that follows a blank line completes nothing.               *)
LEMMA SecondBlank ==
  ASSUME NEW lines, IsLines(lines), NEW n \in Nat, n >= 1,
         n \in DOMAIN lines, lines[n] = << >>, n \notin Oversized(lines),
         n + 1 \in DOMAIN lines, lines[n + 1] = << >>
  PROVE  n + 1 \notin FrameEnds(lines) /\ n + 1 \notin Oversized(lines)
<1> USE MaxFrameAssumption
<1> DEFINE blanks == BlankLines(lines)
           ends == FrameEnds(lines)
           start == CountStart(lines, n + 1)
<1>1. /\ blanks \in SUBSET Nat /\ ends \in SUBSET Nat /\ n \in blanks
  BY DEF BlankLines, FrameEnds, IsLines
<1>2. PartStart(blanks, n + 1) = n + 1
  BY <1>1, PartStartStep
<1>3. RefEvent(lines, n + 1, n) = << >> /\ RefData(lines, n + 1, n) = << >>
  <2>1. n + 1 \in Nat /\ n + 1 >= 1 /\ n < n + 1
    OBVIOUS
  <2> QED
    BY <2>1, EventDef, DataDef
<1>4. RefFrame(lines, n + 1) = [event |-> << >>, data |-> << >>]
  BY <1>2, <1>3, OpenFrame, Zenon
<1>5. n + 1 \notin ends
  BY <1>4 DEF FrameEnds, IsBlank
<1>6. start \in Nat /\ start >= 1 /\ start <= n + 1
  BY <1>1, PartStartBounds DEF CountStart
<1>7. Counted(lines, start, n + 1) = Counted(lines, start, n)
  BY <1>6, CountDef DEF Free
<1>8. Counted(lines, start, n) \in Nat /\ Counted(lines, start, n) <= MaxFrame
  <2>1. CASE n \in ends
    <3>1. start = n + 1
      BY <1>1, <2>1, PartStartStep DEF CountStart
    <3>2. Counted(lines, start, n) = 0
      BY <1>6, <3>1, CountDef
    <3> QED
      BY <3>2
  <2>2. CASE n \notin ends
    <3>1. start = CountStart(lines, n)
      BY <1>1, <2>2, PartStartStep DEF CountStart
    <3>2. ~(Counted(lines, CountStart(lines, n), n) > MaxFrame)
      BY DEF Oversized
    <3>3. Counted(lines, start, n) \in Nat
      BY <1>6, CountDef
    <3> QED
      BY <3>1, <3>2, <3>3
  <2> QED
    BY <2>1, <2>2
<1>9. n + 1 \notin Oversized(lines)
  <2>1. ~(Counted(lines, start, n + 1) > MaxFrame)
    BY <1>7, <1>8
  <2> QED
    BY <2>1 DEF Oversized
<1> QED
  BY <1>5, <1>9

(* close() completes at most one item, although it ends two lines.         *)
LEMMA TwoBreaksMore ==
  ASSUME NEW text \in Seq(Symbols)
  PROVE  GrowsByOne(ItemsOf(text), ItemsOf(text \o <<LF, LF>>))
<1> DEFINE longer == text \o <<LF, LF>>
           n == Len(text)
           L == RefLines(text)
           M == RefLines(longer)
<1>1. n \in Nat /\ <<LF, LF>> \in Seq(Symbols)
  BY LenProperties DEF Symbols
<1>2. PICK p \in 0..Len(text) :
        /\ p = 0 \/ p \in BreakEnds(text)
        /\ \A k \in (p + 1)..Len(text) : k \notin BreakEnds(text)
        /\ Unfinished(Rest(text, p))
  BY LastBreak
<1>3. p \in Nat /\ p <= n
  BY <1>1
<1>4. SameLines(L, M, p)
  BY <1>1, <1>2, <1>3, LinesKept
<1>5. /\ longer \in Seq(Symbols) /\ Len(longer) = n + 2
      /\ n + 1 \in BreakEnds(longer) /\ n + 2 \in BreakEnds(longer)
      /\ \A k \in (p + 1)..n : k \notin BreakEnds(longer)
      /\ M[n + 2] = << >>
  BY <1>2, LastLines
<1> HIDE DEF longer
<1>6. IsLines(L) /\ IsLines(M) /\ DOMAIN L = BreakEnds(text) /\ DOMAIN M = BreakEnds(longer)
  BY <1>5, LinesTyped
<1>7. ItemsOf(text) = ItemsUpTo(L, n) /\ ItemsOf(longer) = ItemsUpTo(M, n + 2)
  BY <1>5, ItemsOfText
<1> HIDE DEF L, M, n
<1>8. ItemsUpTo(L, n) = ItemsUpTo(L, p)
  BY <1>1, <1>2, <1>3, <1>6, ItemsGap DEF n
<1>9. ItemsUpTo(L, p) = ItemsUpTo(M, p)
  BY <1>3, <1>4, <1>6, ItemsAgree
<1>10. ItemsUpTo(M, n) = ItemsUpTo(M, p)
  BY <1>1, <1>3, <1>5, <1>6, ItemsGap
<1>11. ItemsOf(text) = ItemsUpTo(M, n)
  BY <1>7, <1>8, <1>9, <1>10, Zenon
<1> DEFINE m == n + 1
<1>12. m \in Nat /\ m >= 1 /\ m + 1 = n + 2
  BY <1>1
<1>13. /\ GrowsByOne(ItemsUpTo(M, n), ItemsUpTo(M, m))
       /\ m \notin FrameEnds(M) /\ m \notin Oversized(M) =>
            ItemsUpTo(M, m) = ItemsUpTo(M, n)
  BY <1>1, <1>6, ItemsStep
<1>14. m \in Oversized(M) => OverUpTo(M, m) # {}
  BY <1>12 DEF OverUpTo
<1>15. m \in DOMAIN M /\ m + 1 \in DOMAIN M /\ M[m + 1] = << >>
  BY <1>5, <1>6, <1>12
<1> HIDE DEF m
<1>16. /\ GrowsByOne(ItemsUpTo(M, m), ItemsUpTo(M, m + 1))
       /\ m + 1 \notin FrameEnds(M) /\ m + 1 \notin Oversized(M) =>
            ItemsUpTo(M, m + 1) = ItemsUpTo(M, m)
       /\ OverUpTo(M, m) # {} => ItemsUpTo(M, m + 1) = ItemsUpTo(M, m)
  BY <1>6, <1>12, ItemsStep
<1>17. GrowsByOne(ItemsUpTo(M, n), ItemsUpTo(M, m + 1))
  <2>1. CASE m \in Oversized(M)
    BY <1>13, <1>14, <1>16, <2>1, Zenon
  <2>2. CASE m \notin Oversized(M) /\ M[m] = << >>
    <3>1. m + 1 \notin FrameEnds(M) /\ m + 1 \notin Oversized(M)
      BY <1>6, <1>12, <1>15, <2>2, SecondBlank
    <3> QED
      BY <1>13, <1>16, <3>1, Zenon
  <2>3. CASE m \notin Oversized(M) /\ M[m] # << >>
    <3>1. m \notin FrameEnds(M)
      BY <2>3 DEF FrameEnds, BlankLines
    <3> QED
      BY <1>13, <1>16, <2>3, <3>1, Zenon
  <2> QED
    BY <2>1, <2>2, <2>3
<1> QED
  BY <1>7, <1>11, <1>12, <1>17, Zenon DEF longer
-----------------------------------------------------------------------------
(***************************************************************************)
(* The items that a connection still owes its reader.                      *)
(***************************************************************************)
RestAfter(items, n) == SubSeq(items, n + 1, Len(items))

(* The rest of a join behind its first part.                               *)
LEMMA RestOfJoin ==
  ASSUME NEW X, NEW s \in Seq(X), NEW t \in Seq(X), NEW joined, joined = s \o t
  PROVE  RestAfter(joined, Len(s)) = t
<1> DEFINE u == SubSeq(joined, Len(s) + 1, Len(joined))
<1>1. /\ Len(s) \in Nat /\ Len(t) \in Nat
      /\ joined \in Seq(X) /\ Len(joined) = Len(s) + Len(t)
      /\ \A i \in 1..Len(t) : joined[Len(s) + i] = t[i]
  BY JoinIs, LenProperties
<1>2. \A i \in 1..Len(joined) : joined[i] \in X
  BY <1>1, ElementOfSeq
<1>3. /\ Len(s) + 1 \in Int /\ Len(joined) \in Int
      /\ \A i \in (Len(s) + 1)..Len(joined) : joined[i] \in X
  BY <1>1, <1>2
<1>4. /\ u \in Seq(X)
      /\ Len(u) = IF Len(s) + 1 <= Len(joined) THEN Len(joined) - (Len(s) + 1) + 1 ELSE 0
      /\ \A i \in 1..(Len(joined) - (Len(s) + 1) + 1) : u[i] = joined[Len(s) + 1 + i - 1]
  BY <1>3, SubSeqProperties
<1> HIDE DEF u
<1>5. Len(u) = Len(t)
  BY <1>1, <1>4
<1>6. ASSUME NEW i \in 1..Len(t)
      PROVE  u[i] = t[i]
  <2>1. i \in 1..(Len(joined) - (Len(s) + 1) + 1) /\ Len(s) + 1 + i - 1 = Len(s) + i
    BY <1>1
  <2>2. u[i] = joined[Len(s) + 1 + i - 1]
    BY <1>4, <2>1, Zenon
  <2> QED
    BY <1>1, <2>1, <2>2, Zenon
<1>7. u = t
  BY <1>4, <1>5, <1>6, SeqEqual
<1> QED
  BY <1>7, Zenon DEF RestAfter, u

(* The beginnings of a sequence: the shorter begins the longer.            *)
LEMMA BeginningJoins ==
  ASSUME NEW X, NEW s \in Seq(X), NEW n \in 0..Len(s), NEW k \in 0..n
  PROVE  /\ SubSeq(s, 1, k) \in Seq(X) /\ SubSeq(s, k + 1, n) \in Seq(X)
         /\ Len(SubSeq(s, 1, k)) = k
         /\ SubSeq(s, 1, n) = SubSeq(s, 1, k) \o SubSeq(s, k + 1, n)
<1> DEFINE a == SubSeq(s, 1, k)
           b == SubSeq(s, k + 1, n)
           l == SubSeq(s, 1, n)
           r == a \o b
<1>1. /\ Len(s) \in Nat /\ n \in Nat /\ k \in Nat /\ k <= n /\ n <= Len(s)
      /\ \A i \in 1..Len(s) : s[i] \in X
  BY LenProperties, ElementOfSeq
<1>2. /\ \A i \in 1..k : s[i] \in X
      /\ \A i \in (k + 1)..n : s[i] \in X
      /\ \A i \in 1..n : s[i] \in X
  BY <1>1
<1>3. a \in Seq(X) /\ Len(a) = k /\ \A i \in 1..k : a[i] = s[i]
  <2>1. /\ a \in Seq(X) /\ Len(a) = IF 1 <= k THEN k - 1 + 1 ELSE 0
        /\ \A i \in 1..(k - 1 + 1) : a[i] = s[1 + i - 1]
    BY <1>1, <1>2, SubSeqProperties
  <2> HIDE DEF a
  <2> QED
    BY <1>1, <2>1
<1>4. b \in Seq(X) /\ Len(b) = n - k /\ \A i \in 1..(n - k) : b[i] = s[k + i]
  <2>1. /\ b \in Seq(X) /\ Len(b) = IF k + 1 <= n THEN n - (k + 1) + 1 ELSE 0
        /\ \A i \in 1..(n - (k + 1) + 1) : b[i] = s[(k + 1) + i - 1]
    BY <1>1, <1>2, SubSeqProperties
  <2> HIDE DEF b
  <2> QED
    BY <1>1, <2>1
<1>5. l \in Seq(X) /\ Len(l) = n /\ \A i \in 1..n : l[i] = s[i]
  <2>1. /\ l \in Seq(X) /\ Len(l) = IF 1 <= n THEN n - 1 + 1 ELSE 0
        /\ \A i \in 1..(n - 1 + 1) : l[i] = s[1 + i - 1]
    BY <1>1, <1>2, SubSeqProperties
  <2> HIDE DEF l
  <2> QED
    BY <1>1, <2>1
<1> HIDE DEF a, b, l
<1>6. /\ r \in Seq(X) /\ Len(r) = Len(a) + Len(b)
      /\ \A i \in 1..Len(a) : r[i] = a[i]
      /\ \A i \in 1..Len(b) : r[Len(a) + i] = b[i]
  <2>1. r = a \o b
    OBVIOUS
  <2>2. a \in Seq(X) /\ b \in Seq(X)
    BY <1>3, <1>4
  <2> HIDE DEF r
  <2> QED
    BY <2>1, <2>2, JoinIs
<1> HIDE DEF r
<1>7. ASSUME NEW i \in 1..n
      PROVE  l[i] = r[i]
  <2>1. CASE i <= k
    BY <1>1, <1>3, <1>5, <1>6, <2>1
  <2>2. CASE ~(i <= k)
    <3> DEFINE j == i - k
    <3>1. j \in 1..(n - k) /\ i = k + j
      BY <1>1, <2>2
    <3> HIDE DEF j
    <3>2. b[j] = s[i] /\ r[i] = b[j] /\ l[i] = s[i]
      BY <1>3, <1>4, <1>5, <1>6, <3>1
    <3> QED
      BY <3>2
  <2> QED
    BY <2>1, <2>2
<1>8. l = r
  BY <1>1, <1>3, <1>4, <1>5, <1>6, <1>7, SeqEqual
<1> QED
  BY <1>3, <1>4, <1>8, Zenon DEF a, b, l, r

(* Of the items of a connection the first n have left, those of the frames *)
(* that wait come next, and some more may follow all frames handed over.   *)
Split(items, gone, waiting, frames, extra) ==
  /\ gone \in Seq(Frame) /\ waiting \in Seq(Frame) /\ extra \in Seq(Item)
  /\ frames = gone \o waiting
  /\ items = AsItems(frames) \o extra
Behind(items, n, waiting, frames) ==
  \E gone \in Seq(Frame) : \E extra \in Seq(Item) :
    Len(gone) = n /\ Split(items, gone, waiting, frames, extra)

LEMMA SplitIs ==
  ASSUME NEW items, NEW gone, NEW w, NEW frames, NEW extra,
         Split(items, gone, w, frames, extra)
  PROVE  /\ RestAfter(items, Len(gone)) = AsItems(w) \o extra
         /\ RestAfter(items, Len(gone)) \in Seq(Item)
         /\ AsItems(gone) \in Seq(Item) /\ Len(AsItems(gone)) = Len(gone)
         /\ items = AsItems(gone) \o RestAfter(items, Len(gone))
<1> DEFINE a == AsItems(gone)
           b == AsItems(w)
           rest == b \o extra
<1>0. /\ gone \in Seq(Frame) /\ w \in Seq(Frame) /\ extra \in Seq(Item)
      /\ frames = gone \o w /\ items = AsItems(frames) \o extra
  BY Zenon DEF Split
<1>1. items = (a \o b) \o extra
  BY <1>0, AsItemsJoin, Zenon
<1>2. a \in Seq(Item) /\ b \in Seq(Item) /\ Len(a) = Len(gone)
  BY <1>0, AsItemsTyped
<1> HIDE DEF a, b
<1>3. items = a \o rest
  <2>1. Associates(Item)
    BY ConcatLaws, Zenon
  <2> QED
    BY <1>0, <1>1, <1>2, <2>1, Zenon DEF Associates
<1>4. rest \in Seq(Item)
  BY <1>0, <1>2, ConcatProperties
<1> HIDE DEF rest
<1>5. RestAfter(items, Len(a)) = rest
  BY <1>2, <1>3, <1>4, RestOfJoin
<1> QED
  BY <1>2, <1>3, <1>4, <1>5, Zenon DEF a, b, rest

(* A connection begins with nothing handed over and nothing owed.          *)
LEMMA BehindStart == Behind(<< >>, 0, << >>, << >>) /\ RestAfter(<< >>, 0) = << >>
<1>1. << >> \in Seq(Frame) /\ << >> \in Seq(Item) /\ Len(<< >>) = 0
  OBVIOUS
<1>2. << >> \o << >> = << >>
  BY <1>1, ConcatEmptySeq
<1>3. AsItems(<< >>) = << >>
  BY <1>1, AsItemsTyped, EmptySeq
<1>4. RestAfter(<< >>, 0) = << >>
  BY <1>1, <1>2, RestOfJoin
<1>5. Split(<< >>, << >>, << >>, << >>, << >>)
  BY <1>1, <1>2, <1>3, Zenon DEF Split
<1> QED
  BY <1>1, <1>4, <1>5, Zenon DEF Behind

(* The first frame that waits leaves: its item is the next.                *)
LEMMA BehindHead ==
  ASSUME NEW items, NEW n, NEW w \in Seq(Frame), w # << >>, NEW frames,
         Behind(items, n, w, frames)
  PROVE  /\ Behind(items, n + 1, Tail(w), frames)
         /\ RestAfter(items, n) # << >>
         /\ Head(RestAfter(items, n)) = AsItem(Head(w))
         /\ RestAfter(items, n + 1) = Tail(RestAfter(items, n))
<1>0. PICK gone \in Seq(Frame) : \E extra \in Seq(Item) :
               Len(gone) = n /\ Split(items, gone, w, frames, extra)
  BY Zenon DEF Behind
<1>1. PICK extra \in Seq(Item) : Len(gone) = n /\ Split(items, gone, w, frames, extra)
  BY <1>0
<1>2. Len(gone) = n /\ frames = gone \o w /\ items = AsItems(frames) \o extra
  BY <1>1, Zenon DEF Split
<1> DEFINE first == Head(w)
           left == Tail(w)
           longer == Append(gone, first)
           a == AsItems(w)
           b == AsItems(left)
<1>3. first \in Frame /\ left \in Seq(Frame) /\ w = <<first>> \o left
  <2>1. /\ first \in Frame /\ left \in Seq(Frame) /\ Len(left) = Len(w) - 1
        /\ \A i \in 1..Len(left) : left[i] = w[i + 1]
        /\ Len(w) \in Nat \ {0} /\ first = w[1]
    BY HeadTailProperties, EmptySeq
  <2>2. <<first>> \in Seq(Frame) /\ Len(<<first>>) = 1 /\ <<first>>[1] = first
    BY <2>1
  <2> DEFINE one == <<first>>
             joined == one \o left
  <2>3. one \in Seq(Frame) /\ Len(one) = 1 /\ one[1] = first
    BY <2>1, <2>2
  <2> HIDE DEF one, left
  <2>4. /\ joined \in Seq(Frame) /\ Len(joined) = 1 + Len(left) /\ joined[1] = first
        /\ \A i \in 1..Len(left) : joined[1 + i] = left[i]
    <3>1. joined = one \o left
      OBVIOUS
    <3> HIDE DEF joined
    <3>2. /\ joined \in Seq(Frame) /\ Len(joined) = Len(one) + Len(left)
          /\ \A i \in 1..Len(one) : joined[i] = one[i]
          /\ \A i \in 1..Len(left) : joined[Len(one) + i] = left[i]
      <4>1. one \in Seq(Frame) /\ left \in Seq(Frame)
        BY <2>1, <2>3
      <4> QED
        BY <3>1, <4>1, JoinIs
    <3> QED
      BY <2>3, <3>2
  <2> HIDE DEF joined, first
  <2>5. ASSUME NEW i \in 1..Len(w)
        PROVE  w[i] = joined[i]
    <3>1. CASE i = 1
      BY <2>1, <2>4, <3>1
    <3>2. CASE i # 1
      <4> DEFINE j == i - 1
      <4>1. j \in 1..Len(left) /\ i = 1 + j /\ j + 1 = i
        BY <2>1, <3>2
      <4> HIDE DEF j
      <4>2. joined[1 + j] = left[j] /\ left[j] = w[j + 1]
        BY <2>1, <2>4, <4>1, Zenon
      <4> QED
        BY <4>1, <4>2, Zenon
    <3> QED
      BY <3>1, <3>2
  <2>6. w = joined
    BY <2>1, <2>4, <2>5, SeqEqual
  <2> QED
    BY <2>1, <2>6, Zenon DEF joined, one, left, first
<1> HIDE DEF first, left
<1>4. /\ longer \in Seq(Frame) /\ Len(longer) = n + 1
      /\ longer = gone \o <<first>> /\ <<first>> \in Seq(Frame)
  BY <1>2, <1>3, AppendProperties, AppendIsConcat
<1>5. frames = longer \o left
  <2>1. Associates(Frame)
    BY ConcatLaws, Zenon
  <2>2. (gone \o <<first>>) \o left = gone \o (<<first>> \o left)
    BY <1>3, <1>4, <2>1, Zenon DEF Associates
  <2> QED
    BY <1>2, <1>3, <1>4, <2>2, Zenon
<1> HIDE DEF longer
<1>6. Split(items, longer, left, frames, extra)
  BY <1>2, <1>3, <1>4, <1>5, Zenon DEF Split
<1>7. Behind(items, n + 1, left, frames)
  BY <1>4, <1>6, Zenon DEF Behind
<1>8. RestAfter(items, n) = a \o extra /\ RestAfter(items, n + 1) = b \o extra
  <2>1. RestAfter(items, Len(gone)) = a \o extra
    BY <1>1, SplitIs
  <2>2. RestAfter(items, Len(longer)) = b \o extra
    BY <1>6, SplitIs
  <2> QED
    BY <1>2, <1>4, <2>1, <2>2, Zenon
<1>9. /\ a \in Seq(Item) /\ a # << >> /\ Head(a) = AsItem(first) /\ Tail(a) = b
  <2> DEFINE one == <<first>>
             c == AsItems(one)
  <2>1. a = c \o b
    <3>1. one \in Seq(Frame) /\ w = one \o left
      BY <1>3, <1>4
    <3> HIDE DEF one
    <3> QED
      BY <1>3, <3>1, AsItemsJoin, Zenon
  <2>2. c = <<AsItem(first)>> /\ AsItem(first) \in Item
    <3>1. one = Append(<< >>, first) /\ << >> \in Seq(Frame) /\ AsItems(<< >>) = << >>
      <4>1. << >> \in Seq(Frame) /\ Len(<< >>) = 0
        OBVIOUS
      <4>2. AsItems(<< >>) = << >>
        BY <4>1, AsItemsTyped, EmptySeq
      <4>3. one = Append(<< >>, first)
        BY <1>3
      <4> QED
        BY <4>1, <4>2, <4>3
    <3>2. AsItems(Append(<< >>, first)) = Append(AsItems(<< >>), AsItem(first))
      BY <1>3, <3>1, AsItemsOne
    <3>3. AsItem(first) \in Item
      BY <1>3, AsItemTyped
    <3> HIDE DEF one
    <3>4. c = Append(<< >>, AsItem(first))
      BY <3>1, <3>2, Zenon
    <3> QED
      BY <3>3, <3>4
  <2>3. b \in Seq(Item)
    BY <1>3, AsItemsTyped
  <2> DEFINE item == AsItem(first)
  <2> HIDE DEF c, b, item, a
  <2>4. c \in Seq(Item) /\ c # << >> /\ Head(c) = item /\ Tail(c) = << >>
    BY <2>2 DEF item
  <2>5. a # << >> /\ Head(a) = Head(c) /\ Tail(a) = Tail(c) \o b
    BY <2>1, <2>3, <2>4, HeadOfConcat
  <2>6. a \in Seq(Item) /\ << >> \o b = b
    BY <2>1, <2>3, <2>4, ConcatProperties, ConcatEmptySeq
  <2> QED
    BY <2>4, <2>5, <2>6, Zenon DEF item
<1> HIDE DEF a, b
<1>10. a \o extra # << >> /\ Head(a \o extra) = Head(a) /\ Tail(a \o extra) = Tail(a) \o extra
  BY <1>2, <1>9, HeadOfConcat
<1> QED
  BY <1>7, <1>8, <1>9, <1>10, Zenon DEF first, left

(* Frames that are handed over wait behind the others, when the items      *)
(* begin with theirs.                                                      *)
LEMMA BehindMore ==
  ASSUME NEW items, NEW n, NEW w \in Seq(Frame), NEW frames \in Seq(Frame),
         NEW more \in Seq(Frame), Behind(items, n, w, frames),
         Extends(Item, AsItems(frames \o more), items)
  PROVE  Behind(items, n, w \o more, frames \o more)
<1>1. PICK gone \in Seq(Frame) : \E extra \in Seq(Item) :
               Len(gone) = n /\ Split(items, gone, w, frames, extra)
  BY Zenon DEF Behind
<1>2. Len(gone) = n /\ frames = gone \o w
  BY <1>1, Zenon DEF Split
<1>3. PICK extra \in Seq(Item) : items = AsItems(frames \o more) \o extra
  BY Zenon DEF Extends
<1>4. frames \o more = gone \o (w \o more)
  <2>1. Associates(Frame)
    BY ConcatLaws, Zenon
  <2>2. (gone \o w) \o more = gone \o (w \o more)
    BY <2>1, Zenon DEF Associates
  <2> QED
    BY <1>2, <2>2, Zenon
<1>5. w \o more \in Seq(Frame)
  BY ConcatProperties
<1>6. Split(items, gone, w \o more, frames \o more, extra)
  BY <1>3, <1>4, <1>5, Zenon DEF Split
<1> QED
  BY <1>2, <1>6, Zenon DEF Behind

(* Items that arrive leave the frames where they are, and what is owed     *)
(* grows as the items do.                                                  *)
OwesAlso(items, longer, n) ==
  \A item \in Item : longer = Append(items, item) =>
    RestAfter(longer, n) = Append(RestAfter(items, n), item)

LEMMA BehindGrows ==
  ASSUME NEW items, NEW n, NEW w, NEW frames, NEW longer,
         Behind(items, n, w, frames), Extends(Item, items, longer)
  PROVE  /\ Behind(longer, n, w, frames)
         /\ OwesAlso(items, longer, n)
<1>1. PICK gone \in Seq(Frame) : \E extra \in Seq(Item) :
               Len(gone) = n /\ Split(items, gone, w, frames, extra)
  BY Zenon DEF Behind
<1>2. PICK extra \in Seq(Item) : Len(gone) = n /\ Split(items, gone, w, frames, extra)
  BY <1>1
<1>3. PICK more \in Seq(Item) : longer = items \o more
  BY Zenon DEF Extends
<1> DEFINE h == AsItems(frames)
           rest == RestAfter(items, n)
           left == AsItems(gone)
<1>4. /\ gone \in Seq(Frame) /\ w \in Seq(Frame) /\ frames = gone \o w
      /\ items = h \o extra
  BY <1>2, Zenon DEF Split
<1>5. h \in Seq(Item)
  <2>1. frames \in Seq(Frame)
    BY <1>4, ConcatProperties
  <2> QED
    BY <2>1, AsItemsTyped
<1>6. rest \in Seq(Item) /\ left \in Seq(Item) /\ Len(left) = n /\ items = left \o rest
  BY <1>2, SplitIs
<1> HIDE DEF h, rest, left
<1>7. longer = h \o (extra \o more) /\ extra \o more \in Seq(Item)
  <2>1. Associates(Item)
    BY ConcatLaws, Zenon
  <2>2. (h \o extra) \o more = h \o (extra \o more)
    BY <1>5, <2>1, Zenon DEF Associates
  <2>3. extra \o more \in Seq(Item)
    BY ConcatProperties
  <2> QED
    BY <1>3, <1>4, <2>2, <2>3, Zenon
<1>8. Behind(longer, n, w, frames)
  <2>1. Split(longer, gone, w, frames, extra \o more)
    BY <1>4, <1>7, Zenon DEF Split, h
  <2> QED
    BY <1>2, <1>7, <2>1, Zenon DEF Behind
<1>9. ASSUME NEW item \in Item, longer = Append(items, item)
      PROVE  RestAfter(longer, n) = Append(rest, item)
  <2>1. longer = left \o Append(rest, item)
    <3>1. AppendsLast(Item)
      BY ConcatLaws, Zenon
    <3>2. Append(left \o rest, item) = left \o Append(rest, item)
      BY <1>6, <3>1, Zenon DEF AppendsLast
    <3> QED
      BY <1>6, <1>9, <3>2, Zenon
  <2>2. Append(rest, item) \in Seq(Item)
    BY <1>6, AppendProperties
  <2>3. RestAfter(longer, Len(left)) = Append(rest, item)
    BY <1>6, <2>1, <2>2, RestOfJoin
  <2> QED
    BY <1>6, <2>3, Zenon
<1> QED
  BY <1>8, <1>9, Zenon DEF rest, OwesAlso

(* An oversized item has not left.                                         *)
LEMMA BehindOversize ==
  ASSUME NEW items, NEW n, NEW w, NEW frames, Behind(items, n, w, frames),
         NEW k \in 1..Len(items), items[k].event = "oversize"
  PROVE  \E i \in 1..Len(RestAfter(items, n)) :
           RestAfter(items, n)[i].event = "oversize"
<1>1. PICK gone \in Seq(Frame) : \E extra \in Seq(Item) :
               Len(gone) = n /\ Split(items, gone, w, frames, extra)
  BY Zenon DEF Behind
<1>2. PICK extra \in Seq(Item) : Len(gone) = n /\ Split(items, gone, w, frames, extra)
  BY <1>1
<1> DEFINE rest == RestAfter(items, n)
           left == AsItems(gone)
<1>3. rest \in Seq(Item) /\ left \in Seq(Item) /\ Len(left) = n /\ items = left \o rest
  BY <1>2, SplitIs
<1>4. \A i \in 1..Len(left) : left[i].event # "oversize"
  <2>1. Len(left) = Len(gone) /\ \A i \in 1..Len(gone) : left[i] = AsItem(gone[i])
    BY AsItemsTyped
  <2>2. \A i \in 1..Len(gone) : gone[i] \in Frame
    BY ElementOfSeq
  <2> QED
    BY <2>1, <2>2, AsItemTyped
<1> HIDE DEF rest, left
<1>5. /\ Len(items) = Len(left) + Len(rest)
      /\ \A i \in 1..Len(left) : items[i] = left[i]
      /\ \A i \in 1..Len(rest) : items[Len(left) + i] = rest[i]
  <2>1. rest \in Seq(Item) /\ left \in Seq(Item) /\ items = left \o rest
    BY <1>3
  <2> QED
    BY <2>1, JoinIs
<1>6. Len(left) \in Nat /\ Len(rest) \in Nat
  BY <1>3, LenProperties
<1> DEFINE i == k - Len(left)
<1>7. k \notin 1..Len(left)
  BY <1>4, <1>5
<1>8. i \in 1..Len(rest) /\ Len(left) + i = k
  BY <1>5, <1>6, <1>7
<1> HIDE DEF i
<1>9. rest[i].event = "oversize"
  BY <1>5, <1>8
<1> QED
  BY <1>8, <1>9, Zenon DEF rest

(* When the items are those of the frames and no frame waits, none is owed. *)
LEMMA BehindAll ==
  ASSUME NEW n, NEW frames \in Seq(Frame), Behind(AsItems(frames), n, << >>, frames)
  PROVE  RestAfter(AsItems(frames), n) = << >>
<1> DEFINE items == AsItems(frames)
<1>1. PICK gone \in Seq(Frame) : \E extra \in Seq(Item) :
               Len(gone) = n /\ Split(items, gone, << >>, frames, extra)
  BY Zenon DEF Behind
<1>2. PICK extra \in Seq(Item) : Len(gone) = n /\ Split(items, gone, << >>, frames, extra)
  BY <1>1
<1>3. gone = frames
  <2>1. frames = gone \o << >>
    BY <1>2, Zenon DEF Split
  <2> QED
    BY <2>1, ConcatEmptySeq
<1>4. items \in Seq(Item) /\ Len(items) = n
  BY <1>2, <1>3, AsItemsTyped
<1> HIDE DEF items
<1>5. items = items \o << >> /\ << >> \in Seq(Item)
  BY <1>4, ConcatEmptySeq
<1>6. RestAfter(items, Len(items)) = << >>
  BY <1>4, <1>5, RestOfJoin
<1> QED
  BY <1>4, <1>6, Zenon DEF items
-----------------------------------------------------------------------------
(***************************************************************************)
(* The items of the text that has arrived.                                 *)
(***************************************************************************)
TextOf(b, n, ends) == SubSeq(b, 1, n) \o IF ends THEN <<LF, LF>> ELSE << >>

LEMMA TextTyped ==
  ASSUME NEW b \in Seq(Symbols), NEW n \in 0..Len(b), NEW ends \in BOOLEAN
  PROVE  /\ TextOf(b, n, ends) \in Seq(Symbols)
         /\ ItemsOf(TextOf(b, n, ends)) \in Seq(Item)
         /\ TextOf(b, n, FALSE) = SubSeq(b, 1, n)
         /\ TextOf(b, n, TRUE) = SubSeq(b, 1, n) \o <<LF, LF>>
<1> DEFINE begin == SubSeq(b, 1, n)
<1>1. begin \in Seq(Symbols)
  <2>1. Len(b) \in Nat /\ 0 \in 0..n
    BY LenProperties
  <2>2. n \in 0..n
    BY <2>1
  <2> QED
    BY <2>2, BeginningJoins
<1>2. <<LF, LF>> \in Seq(Symbols) /\ << >> \in Seq(Symbols)
  BY DEF Symbols
<1> HIDE DEF begin
<1>3. begin \o << >> = begin /\ begin \o <<LF, LF>> \in Seq(Symbols)
  BY <1>1, <1>2, ConcatEmptySeq, ConcatProperties
<1>4. TextOf(b, n, FALSE) = begin /\ TextOf(b, n, TRUE) = begin \o <<LF, LF>>
  BY <1>3, Zenon DEF TextOf, begin
<1>5. TextOf(b, n, ends) \in Seq(Symbols)
  BY <1>1, <1>3, <1>4
<1> QED
  BY <1>4, <1>5, ItemsOfText, Zenon DEF begin

(* A symbol that arrives completes at most one item.                       *)
LEMMA TextArrives ==
  ASSUME NEW b \in Seq(Symbols), NEW n \in Nat, n < Len(b)
  PROVE  GrowsByOne(ItemsOf(TextOf(b, n, FALSE)), ItemsOf(TextOf(b, n + 1, FALSE)))
<1> DEFINE x == b[n + 1]
           begin == SubSeq(b, 1, n)
           longer == SubSeq(b, 1, n + 1)
<1>1. /\ Len(b) \in Nat /\ n + 1 \in 0..Len(b) /\ n \in 0..(n + 1) /\ n \in 0..Len(b)
      /\ n + 1 \in 1..Len(b) /\ x \in Symbols
  BY LenProperties, ElementOfSeq
<1>2. /\ begin \in Seq(Symbols) /\ longer = begin \o SubSeq(b, n + 1, n + 1)
  BY <1>1, BeginningJoins
<1>3. SubSeq(b, n + 1, n + 1) = <<x>>
  <2> DEFINE one == SubSeq(b, n + 1, n + 1)
  <2>1. /\ one \in Seq(Symbols)
        /\ Len(one) = IF n + 1 <= n + 1 THEN n + 1 - (n + 1) + 1 ELSE 0
        /\ \A i \in 1..(n + 1 - (n + 1) + 1) : one[i] = b[n + 1 + i - 1]
    <3>1. \A i \in (n + 1)..(n + 1) : b[i] \in Symbols
      BY <1>1
    <3> QED
      BY <1>1, <3>1, SubSeqProperties
  <2> HIDE DEF one
  <2>2. Len(one) = 1 /\ one[1] = x
    BY <1>1, <2>1
  <2>3. one = <<x>>
    BY <2>1, <2>2
  <2> QED
    BY <2>3 DEF one
<1> HIDE DEF x, begin, longer
<1>4. GrowsByOne(ItemsOf(begin), ItemsOf(begin \o <<x>>))
  BY <1>1, <1>2, OneSymbolMore
<1>5. TextOf(b, n, FALSE) = begin /\ TextOf(b, n + 1, FALSE) = longer
  BY <1>1, TextTyped DEF begin, longer
<1> QED
  BY <1>2, <1>3, <1>4, <1>5, Zenon

(* So does the end of the body.                                            *)
LEMMA TextEnds ==
  ASSUME NEW b \in Seq(Symbols), NEW n \in 0..Len(b)
  PROVE  GrowsByOne(ItemsOf(TextOf(b, n, FALSE)), ItemsOf(TextOf(b, n, TRUE)))
<1> DEFINE begin == SubSeq(b, 1, n)
<1>1. /\ TextOf(b, n, FALSE) = begin /\ TextOf(b, n, TRUE) = begin \o <<LF, LF>>
      /\ TextOf(b, n, FALSE) \in Seq(Symbols)
  BY TextTyped
<1> HIDE DEF begin
<1>2. begin \in Seq(Symbols)
  BY <1>1, Zenon
<1>3. GrowsByOne(ItemsOf(begin), ItemsOf(begin \o <<LF, LF>>))
  BY <1>2, TwoBreaksMore
<1> QED
  BY <1>1, <1>3, Zenon

(* What was fed, closed or not, begins the text that has arrived.          *)
ReceivedOf(text, ended) == IF ended THEN text \o <<LF, LF>> ELSE text

LEMMA ReceivedBegins ==
  ASSUME NEW b \in Seq(Symbols), NEW n \in 0..Len(b), NEW k \in 0..n,
         NEW ends \in BOOLEAN, NEW ended \in BOOLEAN, ended => ends /\ k = n
  PROVE  /\ Extends(Item, ItemsOf(ReceivedOf(SubSeq(b, 1, k), ended)),
                    ItemsOf(TextOf(b, n, ends)))
         /\ ended => ReceivedOf(SubSeq(b, 1, k), ended) = TextOf(b, n, ends)
<1> DEFINE text == SubSeq(b, 1, k)
           more == SubSeq(b, k + 1, n)
           whole == TextOf(b, n, ends)
<1>1. whole \in Seq(Symbols) /\ ItemsOf(whole) \in Seq(Item)
  BY TextTyped
<1>2. ended => ReceivedOf(text, ended) = whole
  <2> SUFFICES ASSUME ended PROVE ReceivedOf(text, ended) = whole
    OBVIOUS
  <2>1. ended = TRUE /\ ends = TRUE /\ k = n
    OBVIOUS
  <2> QED
    BY <2>1, TextTyped, Zenon DEF ReceivedOf
<1>3. text \in Seq(Symbols) /\ more \in Seq(Symbols) /\ SubSeq(b, 1, n) = text \o more
  BY BeginningJoins
<1>4. \E tail \in Seq(Symbols) : whole = text \o tail
  <2> HIDE DEF text, more
  <2>1. Associates(Symbols)
    BY ConcatLaws, Zenon
  <2>2. <<LF, LF>> \in Seq(Symbols)
    BY DEF Symbols
  <2>3. more \o <<LF, LF>> \in Seq(Symbols)
    BY <1>3, <2>2, ConcatProperties
  <2>4. CASE ends = TRUE
    <3>1. whole = (text \o more) \o <<LF, LF>>
      BY <1>3, <2>4, TextTyped, Zenon
    <3>2. (text \o more) \o <<LF, LF>> = text \o (more \o <<LF, LF>>)
      BY <1>3, <2>1, <2>2, Zenon DEF Associates
    <3> QED
      BY <2>3, <3>1, <3>2, Zenon
  <2>5. CASE ends = FALSE
    <3>1. whole = text \o more
      BY <1>3, <2>5, TextTyped, Zenon
    <3> QED
      BY <1>3, <3>1, Zenon
  <2> QED
    BY <2>4, <2>5
<1>5. CASE ended
  <2>1. Extends(Item, ItemsOf(whole), ItemsOf(whole))
    BY <1>1, ExtendsLaws, Zenon
  <2> QED
    BY <1>2, <1>5, <2>1, Zenon
<1>6. CASE ~ended
  <2>1. PICK tail \in Seq(Symbols) : whole = text \o tail
    BY <1>4
  <2> HIDE DEF text, whole
  <2>2. Extends(Item, ItemsOf(text), ItemsOf(text \o tail))
    BY <1>3, TextItemsExtend
  <2> QED
    BY <1>6, <2>1, <2>2, Zenon DEF ReceivedOf, text, whole
<1> QED
  BY <1>2, <1>5, <1>6, Zenon

(* A text without an oversized line has the items of its frames, and any   *)
(* other text has the oversized item.                                      *)
LEMMA ItemsAre ==
  ASSUME NEW text \in Seq(Symbols)
  PROVE  /\ Oversized(RefLines(text)) = {} => ItemsOf(text) = AsItems(RefFrames(text))
         /\ Oversized(RefLines(text)) # {} =>
              \E k \in 1..Len(ItemsOf(text)) : ItemsOf(text)[k].event = "oversize"
<1>1. Oversized(RefLines(text)) = {} => ItemsOf(text) = AsItems(RefFrames(text))
  BY Zenon DEF ItemsOf
<1>2. ASSUME Oversized(RefLines(text)) # {}
      PROVE  \E k \in 1..Len(ItemsOf(text)) : ItemsOf(text)[k].event = "oversize"
  <2> DEFINE lines == RefLines(text)
             first == Min(Oversized(lines)) - 1
             some == AsItems(FramesUpTo(lines, first))
  <2>1. ItemsOf(text) = Append(some, Oversize)
    BY <1>2, Zenon DEF ItemsOf
  <2>2. IsLines(lines) /\ Oversized(lines) \in SUBSET (Nat \ {0})
    BY LinesTyped DEF Oversized, IsLines
  <2>3. first \in Nat
    <3>1. Min(Oversized(lines)) \in Oversized(lines)
      BY <1>2, <2>2, LeastOf
    <3> QED
      BY <2>2, <3>1
  <2> HIDE DEF first, lines
  <2>4. some \in Seq(Item)
    BY <2>2, <2>3, RefFrameTyped, AsItemsTyped
  <2> HIDE DEF some
  <2>5. Oversize \in Item /\ Oversize.event = "oversize"
    BY DEF Oversize, Item
  <2>6. /\ Append(some, Oversize)[Len(some) + 1] = Oversize
        /\ Len(Append(some, Oversize)) = Len(some) + 1 /\ Len(some) \in Nat
    BY <2>4, <2>5, AppendProperties, LenProperties
  <2>7. Len(some) + 1 \in 1..(Len(some) + 1)
    BY <2>6
  <2>8. Append(some, Oversize)[Len(some) + 1].event = "oversize"
    BY <2>5, <2>6, Zenon
  <2> QED
    BY <2>1, <2>6, <2>7, <2>8, Zenon
<1> QED
  BY <1>1, <1>2

(* An item that the text completes is one that a body may hold.            *)
LEMMA ItemIsOne ==
  ASSUME NEW b \in Bodies, NEW n \in 0..Len(b), NEW ends \in BOOLEAN,
         NEW items \in Seq(Item), NEW item \in Item,
         ItemsOf(TextOf(b, n, ends)) = Append(items, item)
  PROVE  item \in AllItems
<1> DEFINE whole == ItemsOf(TextOf(b, n, TRUE))
<1>1. b \in Seq(Symbols)
  BY BodiesAssumption
<1>2. whole = ItemsIn[b][n][TRUE]
  BY Zenon DEF ItemsIn, TextOf
<1>3. whole \in Seq(Item) /\ Extends(Item, Append(items, item), whole)
  <2>1. whole \in Seq(Item)
    BY <1>1, TextTyped
  <2>2. CASE ends = TRUE
    <3>1. whole = Append(items, item)
      BY <2>2
    <3> QED
      BY <2>1, <3>1, ExtendsLaws, Zenon
  <2>3. CASE ends = FALSE
    <3>1. GrowsByOne(ItemsOf(TextOf(b, n, FALSE)), whole)
      BY <1>1, TextEnds
    <3>2. ItemsOf(TextOf(b, n, FALSE)) = Append(items, item)
      BY <2>3
    <3>3. Append(items, item) \in Seq(Item)
      BY AppendProperties
    <3>4. GrowsByOne(Append(items, item), whole)
      BY <3>1, <3>2, Zenon
    <3> HIDE DEF whole
    <3> QED
      BY <2>1, <3>3, <3>4, GrowsExtends
  <2> QED
    BY <2>2, <2>3
<1> HIDE DEF whole
<1>4. PICK more \in Seq(Item) : whole = Append(items, item) \o more
  BY <1>3, Zenon DEF Extends
<1> DEFINE shorter == Append(items, item)
           k == Len(items) + 1
<1>5. shorter \in Seq(Item) /\ Len(shorter) = k /\ k \in 1..k /\ shorter[k] = item
  BY AppendProperties, LenProperties
<1>6. Len(more) \in Nat /\ k \in Nat
  BY LenProperties
<1>7. whole = shorter \o more
  BY <1>4
<1> HIDE DEF shorter, k
<1>8. Len(whole) = Len(shorter) + Len(more) /\ \A i \in 1..Len(shorter) : whole[i] = shorter[i]
  BY <1>5, <1>7, JoinIs
<1>9. whole[k] = item /\ k \in 1..Len(whole)
  BY <1>5, <1>6, <1>8
<1>10. DOMAIN whole = 1..Len(whole)
  BY <1>3
<1> DEFINE chosen == ItemsIn[b][n][TRUE]
<1>11. k \in DOMAIN chosen /\ chosen[k] = item
  BY <1>2, <1>9, <1>10, Zenon
<1> HIDE DEF chosen
<1> HIDE DEF whole
<1>12. item \in {chosen[x] : x \in DOMAIN chosen}
  BY <1>11, Zenon
<1>13. item \in UNION {Range(ItemsIn[b][m][TRUE]) : m \in 0..Len(b)}
  BY <1>12, Zenon DEF Range, chosen
<1> QED
  BY <1>13, Zenon DEF AllItems
-----------------------------------------------------------------------------
(***************************************************************************)
(* The invariant of the promise.                                           *)
(***************************************************************************)
Live == step \in {"handshake", "open"}
TextNow == TextOf(body, arrived, conn = "ended")
ItemsNow == ItemsOf(TextNow)

(* What was fed is the beginning of the body, which is closed at its end.  *)
HeardInv ==
  Live =>
    /\ body \in Bodies /\ conn \in {"up", "ended", "broken"}
    /\ fed = SubSeq(body, 1, Len(fed))
    /\ closed => conn = "ended" /\ AllRead
    /\ phase = "feeding" => pending = << >> /\ ~finished

(* The frames handed over begin the items of the text that has arrived.    *)
WayInv == Live => Behind(ItemsNow, popped, pending, yielded)

(* A stream that is finished and not over has closed its scanner; one that *)
(* is over gives nothing more.                                             *)
OverInv ==
  Opened =>
    /\ finished /\ ~Over => closed
    /\ Over => finished /\ (pending = << >> \/ phase = "failed")

(* What a call that returned has handed over is what the text holds, and a *)
(* call that failed has met the oversized item.                            *)
Handed ==
  Live /\ phase = "idle" =>
    /\ Extends(Item, AsItems(yielded), ItemsNow)
    /\ closed => ItemsNow = AsItems(yielded)
Unfit ==
  Live /\ phase = "failed" =>
    \E k \in 1..Len(ItemsNow) : ItemsNow[k].event = "oversize"
Owed == Live => Remaining = RestAfter(ItemsNow, popped)

Known == ScannerInv /\ TextInv /\ LoopInv /\ HeardInv

LEMMA ItemsNowTyped == LoopInv => ItemsNow \in Seq(Item)
<1> SUFFICES ASSUME LoopInv PROVE ItemsNow \in Seq(Item)
  OBVIOUS
<1>1. body \in Seq(Symbols) /\ arrived \in 0..Len(body) /\ (conn = "ended") \in BOOLEAN
  BY DEF LoopInv, BytesTyped
<1> QED
  BY <1>1, TextTyped, Zenon DEF ItemsNow, TextNow

LEMMA HeardBegins ==
  ASSUME ScannerInv, LoopInv, HeardInv, Live
  PROVE  /\ Received \in Seq(Symbols)
         /\ Extends(Item, ItemsOf(Received), ItemsNow)
         /\ closed => Received = TextNow
<1>1. /\ body \in Seq(Symbols) /\ arrived \in 0..Len(body)
      /\ fed \in Seq(Symbols) /\ Len(fed) <= arrived
      /\ fed = SubSeq(body, 1, Len(fed))
      /\ closed \in BOOLEAN
      /\ closed => conn = "ended" /\ Len(fed) = arrived
  BY DEF ScannerInv, TypeOK, LoopInv, BytesTyped, HeardInv, AllRead
<1> DEFINE k == Len(fed)
           ends == conn = "ended"
<1>2. /\ k \in 0..arrived /\ ends \in BOOLEAN
      /\ closed => ends /\ k = arrived
  <2>1. k \in 0..arrived
    <3>1. Len(fed) \in Nat /\ Len(body) \in Nat
      BY <1>1, LenProperties
    <3>2. arrived \in 0..Len(body) /\ Len(fed) <= arrived
      BY <1>1
    <3> QED
      BY <3>1, <3>2
  <2>2. ends \in BOOLEAN
    OBVIOUS
  <2>3. closed => ends /\ k = arrived
    BY <1>1
  <2> QED
    BY <2>1, <2>2, <2>3
<1>3. fed = SubSeq(body, 1, k)
  BY <1>1
<1> HIDE DEF k, ends
<1>4. /\ Extends(Item, ItemsOf(ReceivedOf(SubSeq(body, 1, k), closed)),
                 ItemsOf(TextOf(body, arrived, ends)))
      /\ closed => ReceivedOf(SubSeq(body, 1, k), closed) = TextOf(body, arrived, ends)
  <2>1. body \in Seq(Symbols) /\ arrived \in 0..Len(body) /\ closed \in BOOLEAN
    BY <1>1
  <2> QED
    BY <1>2, <2>1, ReceivedBegins, Zenon
<1>5. ReceivedOf(fed, closed) = Received
  BY Zenon DEF ReceivedOf, Received
<1>6. <<LF, LF>> \in Seq(Symbols)
  BY DEF Symbols
<1>7. Received \in Seq(Symbols)
  BY <1>1, <1>6, ConcatProperties DEF Received
<1> QED
  BY <1>3, <1>4, <1>5, <1>7, Zenon DEF ItemsNow, TextNow, ends

LEMMA HandedNow == Known => Handed
<1> SUFFICES ASSUME Known, Live, phase = "idle"
             PROVE  /\ Extends(Item, AsItems(yielded), ItemsNow)
                    /\ closed => ItemsNow = AsItems(yielded)
  BY Zenon DEF Handed
<1>1. /\ Received \in Seq(Symbols)
      /\ Extends(Item, ItemsOf(Received), ItemsNow)
      /\ closed => Received = TextNow
  BY HeardBegins DEF Known
<1>2. yielded = RefFrames(Received) /\ Oversized(RefLines(Received)) = {}
  BY IndependentNow DEF Known, ChunkIndependent
<1>3. ItemsOf(Received) = AsItems(yielded)
  BY <1>1, <1>2, ItemsAre
<1> QED
  BY <1>1, <1>3, Zenon DEF ItemsNow

LEMMA RefusedNow == Known => Unfit
<1> SUFFICES ASSUME Known, Live, phase = "failed"
             PROVE  \E k \in 1..Len(ItemsNow) : ItemsNow[k].event = "oversize"
  BY Zenon DEF Unfit
<1> DEFINE some == ItemsOf(Received)
           items == ItemsNow
<1>1. Received \in Seq(Symbols) /\ Extends(Item, some, items)
  BY HeardBegins DEF Known
<1>2. Oversized(RefLines(Received)) # {}
  BY IndependentNow DEF Known, ChunkIndependent
<1>3. \E k \in 1..Len(some) : some[k].event = "oversize"
  BY <1>1, <1>2, ItemsAre
<1>4. some \in Seq(Item)
  BY <1>1, ItemsOfText
<1> HIDE DEF some, items
<1>5. PICK k \in 1..Len(some) : some[k].event = "oversize"
  BY <1>3
<1>6. PICK more \in Seq(Item) : items = some \o more
  BY <1>1, Zenon DEF Extends
<1>7. Len(items) = Len(some) + Len(more) /\ items[k] = some[k]
  BY <1>4, <1>6, JoinIs
<1>8. k \in 1..Len(items)
  <2>1. Len(some) \in Nat /\ Len(more) \in Nat
    BY <1>4, LenProperties
  <2> QED
    BY <1>7, <2>1
<1>9. items[k].event = "oversize"
  BY <1>5, <1>7, Zenon
<1> QED
  BY <1>8, <1>9, Zenon DEF items

LEMMA OwedNow == LoopInv /\ HeardInv => Owed
<1> SUFFICES ASSUME LoopInv, HeardInv, Live
             PROVE  Remaining = RestAfter(ItemsNow, popped)
  BY Zenon DEF Owed
<1>1. body \in Bodies /\ arrived \in 0..Len(body) /\ (conn = "ended") \in BOOLEAN
  BY DEF LoopInv, BytesTyped, HeardInv
<1>2. ItemsIn[body][arrived][conn = "ended"] = ItemsNow
  BY <1>1, Zenon DEF ItemsIn, ItemsNow, TextNow, TextOf
<1> QED
  BY <1>2, Zenon DEF Remaining, RestAfter

(* A handshake that fails leaves no connection in use.                     *)
LEMMA SetupDies ==
  ASSUME SetupFails
  PROVE  ~Live' /\ step' \in {"failed", "ready"} /\ UNCHANGED <<net, reader>>
  BY DEF SetupFails, Live

(* A call of close() says so, and fails or leaves the loop.                *)
LEMMA CloseShuts ==
  ASSUME ScannerInv, CloseScanner
  PROVE  /\ closed' /\ fed' = fed /\ phase = "idle" /\ phase' \in {"idle", "failed"}
         /\ phase' # "idle" => yielded' = yielded
<1>1. CASE CloseAgain
  BY <1>1 DEF CloseAgain, vars
<1>2. CASE Close
  <2> DEFINE flushed == Flushed
             frame == FrameOf(flushed.cur)
  <2>1. closed' /\ fed' = fed /\ phase = "idle" /\ phase' \in {"idle", "failed"}
    BY <1>2 DEF Close
  <2>2. phase' # "idle" => ~flushed.ok
    BY <1>2 DEF Close
  <2>3. ~flushed.ok => flushed.frames = << >>
    BY DEF Flushed, ConsumeLine
  <2>4. ~flushed.ok => yielded' = yielded \o flushed.frames
    BY <1>2 DEF Close
  <2> HIDE DEF flushed
  <2>5. yielded \in Seq(Frame)
    BY DEF ScannerInv, TypeOK
  <2>6. yielded \o << >> = yielded
    BY <2>5, ConcatEmptySeq
  <2>7. phase' # "idle" => yielded' = yielded
    BY <2>2, <2>3, <2>4, <2>6, Zenon
  <2> QED
    BY <2>1, <2>7
<1> QED
  BY <1>1, <1>2 DEF CloseScanner

(* A chunk that is read continues the beginning of the body.               *)
LEMMA ReadHears ==
  ASSUME ScannerInv, LoopInv, HeardInv, ReadChunk
  PROVE  HeardInv'
<1>1. PICK n \in (Len(fed) + 1)..arrived : Feed(SubSeq(body, Len(fed) + 1, n))
  BY DEF ReadChunk
<1>2. /\ Live /\ Live' /\ body' = body /\ arrived' = arrived /\ conn' = conn
      /\ pending' = pending /\ pending = << >> /\ finished' = finished /\ ~finished
  BY DEF ReadChunk, TurnsToBody, Live, net, reader
<1>3. /\ fed' = fed \o SubSeq(body, Len(fed) + 1, n) /\ ~closed /\ closed' = closed
  BY <1>1 DEF Feed
<1>4. fed = SubSeq(body, 1, Len(fed)) /\ body \in Bodies /\ conn \in {"up", "ended", "broken"}
  BY <1>2 DEF HeardInv
<1>5. /\ body \in Seq(Symbols) /\ n \in 0..Len(body) /\ Len(fed) \in 0..n /\ n \in Nat
  <2>1. /\ body \in Seq(Symbols) /\ fed \in Seq(Symbols) /\ arrived \in 0..Len(body)
    BY DEF ScannerInv, TypeOK, LoopInv, BytesTyped
  <2>2. Len(fed) \in Nat /\ Len(body) \in Nat
    BY <2>1, LenProperties
  <2> QED
    BY <2>1, <2>2
<1>6. SubSeq(body, 1, n) = SubSeq(body, 1, Len(fed)) \o SubSeq(body, Len(fed) + 1, n)
  BY <1>5, BeginningJoins
<1>7. fed' = SubSeq(body, 1, n)
  BY <1>3, <1>4, <1>6, Zenon
<1>8. Len(SubSeq(body, 1, n)) = n
  <2>1. n \in 0..n
    BY <1>5
  <2> QED
    BY <1>5, <2>1, BeginningJoins
<1>9. fed' = SubSeq(body', 1, Len(fed'))
  BY <1>2, <1>7, <1>8, Zenon
<1> QED
  BY <1>2, <1>3, <1>4, <1>9 DEF HeardInv

LEMMA HeardNext ==
  ASSUME ScannerInv, LoopInv, HeardInv, [BytesNext]_bytesVars
  PROVE  HeardInv'
<1> DEFINE Same == /\ step' = step /\ body' = body /\ conn' = conn
                   /\ fed' = fed /\ closed' = closed /\ arrived' = arrived
<1>1. CASE Dial
  <2>1. /\ body' \in Bodies /\ conn' = "up" /\ fed' = << >> /\ ~closed' /\ phase' = "idle"
    BY <1>1 DEF Dial, ScannerNew
  <2>2. SubSeq(body', 1, Len(<< >>)) = << >>
    <3>1. body' \in Seq(Symbols) /\ Len(<< >>) = 0
      BY <2>1, BodiesAssumption
    <3>2. Len(body') \in Nat
      BY <3>1, LenProperties
    <3>3. 0 \in 0..Len(body') /\ 0 \in 0..0
      BY <3>2
    <3> DEFINE b == body'
    <3> HIDE DEF b
    <3>4. SubSeq(b, 1, 0) \in Seq(Symbols) /\ Len(SubSeq(b, 1, 0)) = 0
      BY <3>1, <3>3, BeginningJoins DEF b
    <3>5. SubSeq(b, 1, 0) = << >>
      BY <3>4, EmptySeq
    <3> QED
      BY <3>1, <3>5, Zenon DEF b
  <2> QED
    BY <2>1, <2>2 DEF HeardInv
<1>2. CASE ReadChunk
  BY <1>2, ReadHears
<1>3. CASE ScanLine
  <2>1. Same /\ phase = "feeding" /\ pending' = pending /\ finished' = finished
    BY <1>3 DEF ScanLine, TakeLine, DrainAndConsume, net, reader
  <2> QED
    BY <2>1 DEF HeardInv, Live, AllRead
<1>4. CASE ChunkScanned
  <2>1. Same /\ phase' = "idle"
    BY <1>4 DEF ChunkScanned, FeedReturn, net
  <2> QED
    BY <2>1 DEF HeardInv, Live, AllRead
<1>5. CASE FrameTooLarge
  <2>1. CASE InSetup /\ SetupFails
    BY <2>1, SetupDies DEF HeardInv
  <2>2. CASE Opened /\ UNCHANGED <<step, net, given, dials>>
    <3>1. Same /\ phase' = "failed"
      BY <1>5, <2>2 DEF FrameTooLarge, scanner, net
    <3> QED
      BY <3>1 DEF HeardInv, Live, AllRead
  <2> QED
    BY <1>5, <2>1, <2>2 DEF FrameTooLarge
<1>6. CASE FirstFrame
  <2>1. CASE SetupFails
    BY <2>1, SetupDies DEF HeardInv
  <2>2. CASE step' = "open" /\ HandOver /\ UNCHANGED <<net, reader, dials>>
    <3>1. /\ Live /\ body' = body /\ conn' = conn /\ arrived' = arrived
          /\ fed' = fed /\ closed' = closed /\ phase' = "idle"
      BY <1>6, <2>2 DEF FirstFrame, HandOver, scanner, net, InSetup, Live
    <3> QED
      BY <3>1 DEF HeardInv, AllRead
  <2> QED
    BY <1>6, <2>1, <2>2 DEF FirstFrame
<1>7. CASE FirstAtEnd \/ PollEnd
  <2>1. /\ CloseScanner /\ conn = "ended" /\ AllRead /\ step' = step
        /\ body' = body /\ conn' = conn /\ arrived' = arrived
    BY <1>7 DEF FirstAtEnd, PollEnd, AtEnd, CloseScanner, net
  <2>2. closed' /\ fed' = fed /\ phase' \in {"idle", "failed"}
    BY <2>1, CloseShuts
  <2> QED
    BY <2>1, <2>2 DEF HeardInv, Live, AllRead
<1>8. CASE ClosedBeforeFirst \/ FirstBroken
  BY <1>8, SetupDies DEF HeardInv, ClosedBeforeFirst, FirstBroken
<1>9. CASE TakeMatch \/ SkipFrame \/ PollBroken
  <2>1. Same /\ phase' = "idle"
    BY <1>9 DEF TakeMatch, SkipFrame, PollBroken, TurnsToBody, scanner, net
  <2> QED
    BY <2>1 DEF HeardInv, Live, AllRead
<1>10. CASE PollAfterEnd
  <2>1. Same /\ phase' = phase /\ pending' = pending /\ finished' = finished
    BY <1>10 DEF PollAfterEnd, scanner, net
  <2> QED
    BY <2>1 DEF HeardInv, Live, AllRead
<1>11. CASE Arrive \/ BodyStops
  <2>1. /\ step' = step /\ body' = body /\ fed' = fed /\ closed' = closed /\ conn = "up"
        /\ conn' \in {"up", "ended", "broken"} /\ phase' = phase
        /\ pending' = pending /\ finished' = finished
    BY <1>11 DEF Arrive, BodyStops, scanner, reader
  <2> QED
    BY <2>1 DEF HeardInv, Live
<1>12. CASE UNCHANGED bytesVars
  <2>1. Same /\ phase' = phase /\ pending' = pending /\ finished' = finished
    BY <1>12 DEF bytesVars, scanner, net, reader
  <2> QED
    BY <2>1 DEF HeardInv, Live, AllRead
<1> QED
  BY <1>1, <1>2, <1>3, <1>4, <1>5, <1>6, <1>7, <1>8, <1>9, <1>10, <1>11, <1>12
     DEF BytesNext, Loops

LEMMA OverNext ==
  ASSUME ScannerInv, LoopInv, HeardInv, OverInv, [BytesNext]_bytesVars
  PROVE  OverInv'
<1>1. CASE step' # "open"
  BY <1>1 DEF OverInv, Opened
<1>2. CASE step' = "open" /\ step # "open"
  <2>1. FirstFrame
    BY <1>2 DEF BytesNext, Loops, Dial, ReadChunk, ScanLine, ChunkScanned, FrameTooLarge,
                SetupFails, FirstAtEnd, ClosedBeforeFirst, FirstBroken, TakeMatch,
                SkipFrame, PollBroken, PollEnd, PollAfterEnd, Arrive, BodyStops,
                bytesVars, Opened
  <2>2. returned' = returned /\ finished' = finished
    BY <2>1 DEF FirstFrame, SetupFails, reader
  <2>3. returned = "nothing" /\ ~finished
    BY <1>2 DEF LoopInv, SetupInv, Opened
  <2> QED
    BY <2>2, <2>3 DEF OverInv, Over
<1>3. CASE step = "open" /\ step' = "open"
  <2>0. Opened /\ Live
    BY <1>3 DEF Opened, Live
  <2>1. CASE ReadChunk \/ ScanLine \/ ChunkScanned
    <3>1. ~finished
      BY <2>0, <2>1 DEF ReadChunk, ScanLine, ChunkScanned, TurnsToBody, TakeLine,
                        DrainAndConsume, FeedReturn, HeardInv
    <3>2. returned' = returned /\ finished' = finished
      BY <2>1 DEF ReadChunk, ScanLine, ChunkScanned, reader
    <3> QED
      BY <2>0, <3>1, <3>2 DEF OverInv, Over
  <2>2. CASE FrameTooLarge
    <3>1. finished' /\ returned' = "error" /\ phase' = "failed"
      BY <1>3, <2>2 DEF FrameTooLarge, InSetup, scanner
    <3> QED
      BY <3>1 DEF OverInv, Over
  <2>3. CASE TakeMatch \/ SkipFrame
    <3>1. /\ phase = "idle" /\ pending # << >> /\ returned' \in {returned, "match"}
          /\ finished' = finished /\ closed' = closed
      BY <2>3 DEF TakeMatch, SkipFrame, reader, scanner
    <3>2. ~Over
      BY <2>0, <3>1 DEF OverInv
    <3> QED
      BY <2>0, <3>1, <3>2 DEF OverInv, Over
  <2>4. CASE PollBroken
    <3>1. finished' /\ returned' = "error" /\ pending' = << >>
      BY <2>4 DEF PollBroken, TurnsToBody
    <3> QED
      BY <3>1 DEF OverInv, Over
  <2>5. CASE PollEnd
    <3>1. ~finished /\ CloseScanner /\ returned' = returned
      BY <2>5 DEF PollEnd, AtEnd, TurnsToBody
    <3>2. closed'
      BY <3>1, CloseShuts
    <3>3. ~Over
      BY <2>0, <3>1 DEF OverInv
    <3> QED
      BY <3>1, <3>2, <3>3 DEF OverInv, Over
  <2>6. CASE PollAfterEnd
    <3>1. finished' /\ returned' = "end" /\ pending' = << >>
      BY <2>6 DEF PollAfterEnd
    <3> QED
      BY <3>1 DEF OverInv, Over
  <2>7. CASE Arrive \/ BodyStops \/ UNCHANGED bytesVars
    <3>1. UNCHANGED <<scanner, pending, reader>>
      BY <2>7 DEF Arrive, BodyStops, bytesVars
    <3> QED
      BY <2>0, <3>1 DEF OverInv, Over, scanner, reader
  <2>8. ~(Dial \/ FirstFrame \/ FirstAtEnd \/ ClosedBeforeFirst \/ FirstBroken)
    BY <1>3 DEF Dial, FirstFrame, FirstAtEnd, ClosedBeforeFirst, FirstBroken, InSetup
  <2> QED
    BY <2>1, <2>2, <2>3, <2>4, <2>5, <2>6, <2>7, <2>8 DEF BytesNext, Loops
<1> QED
  BY <1>1, <1>2, <1>3

(* What the network does completes at most one item.                       *)
LEMMA NetworkGrows ==
  ASSUME LoopInv, HeardInv, Live, Arrive \/ BodyStops
  PROVE  /\ GrowsByOne(ItemsNow, ItemsNow')
         /\ conn' = "broken" => ItemsNow' = ItemsNow
<1>1. /\ body \in Seq(Symbols) /\ arrived \in 0..Len(body) /\ Len(body) \in Nat
      /\ body' = body /\ conn = "up"
  BY LenProperties DEF LoopInv, BytesTyped, Arrive, BodyStops
<1>2. ItemsNow = ItemsOf(TextOf(body, arrived, FALSE))
  <2>1. (conn = "ended") = FALSE
    BY <1>1
  <2> QED
    BY <2>1, Zenon DEF ItemsNow, TextNow
<1>3. ItemsNow' = ItemsOf(TextOf(body, arrived', conn' = "ended"))
  BY <1>1, Zenon DEF ItemsNow, TextNow
<1>4. CASE Arrive
  <2>1. arrived \in Nat /\ arrived < Len(body) /\ arrived' = arrived + 1
    BY <1>1, <1>4 DEF Arrive
  <2>2. (conn' = "ended") = FALSE
    BY <1>4 DEF Arrive
  <2>3. ItemsNow' = ItemsOf(TextOf(body, arrived + 1, FALSE))
    BY <1>3, <2>1, <2>2, Zenon
  <2>4. GrowsByOne(ItemsOf(TextOf(body, arrived, FALSE)),
                   ItemsOf(TextOf(body, arrived + 1, FALSE)))
    BY <1>1, <2>1, TextArrives
  <2> QED
    BY <1>2, <1>4, <2>3, <2>4, Zenon DEF Arrive
<1>5. CASE BodyStops
  <2>1. arrived' = arrived /\ conn' \in {"ended", "broken"}
    BY <1>5 DEF BodyStops
  <2>2. CASE conn' = "ended"
    <3>1. (conn' = "ended") = TRUE
      BY <2>2
    <3>2. ItemsNow' = ItemsOf(TextOf(body, arrived, TRUE))
      BY <1>3, <2>1, <3>1, Zenon
    <3>3. GrowsByOne(ItemsOf(TextOf(body, arrived, FALSE)), ItemsOf(TextOf(body, arrived, TRUE)))
      BY <1>1, TextEnds
    <3> QED
      BY <1>2, <2>2, <3>2, <3>3, Zenon
  <2>3. CASE conn' = "broken"
    <3>1. (conn' = "ended") = FALSE
      BY <2>3
    <3>2. ItemsNow' = ItemsNow
      BY <1>2, <1>3, <2>1, <3>1, Zenon
    <3> QED
      BY <3>2, Zenon DEF GrowsByOne
  <2> QED
    BY <2>1, <2>2, <2>3
<1> QED
  BY <1>4, <1>5

(* The items are the same as long as the network rests.                    *)
LEMMA ItemsRest ==
  ASSUME UNCHANGED net
  PROVE  ItemsNow' = ItemsNow
<1>1. body' = body /\ arrived' = arrived /\ conn' = conn
  BY DEF net
<1> QED
  BY <1>1, Zenon DEF ItemsNow, TextNow

LEMMA TextAlike == Known => ChunkIndependent
  BY IndependentNow DEF Known

(* A connection that was just made has brought nothing.                    *)
LEMMA DialBrings ==
  ASSUME Dial, Known'
  PROVE  ItemsNow' = << >>
<1>1. /\ arrived' = 0 /\ conn' = "up" /\ yielded' = << >> /\ fed' = << >>
      /\ ~closed' /\ phase' = "idle"
  BY DEF Dial, ScannerNew
<1>2. ChunkIndependent'
  BY TextAlike, PTL
<1>3. RefFrames(<< >>) = << >> /\ Oversized(RefLines(<< >>)) = {}
  <2>1. Received' = << >>
    BY <1>1 DEF Received
  <2> QED
    BY <1>1, <1>2, <2>1, Zenon DEF ChunkIndependent
<1>4. << >> \in Seq(Symbols) /\ << >> \in Seq(Frame) /\ Len(<< >>) = 0
  OBVIOUS
<1>5. ItemsOf(<< >>) = << >>
  <2>1. ItemsOf(<< >>) = AsItems(<< >>)
    BY <1>3, <1>4, ItemsAre
  <2>2. AsItems(<< >>) = << >>
    BY <1>4, AsItemsTyped, EmptySeq
  <2> QED
    BY <2>1, <2>2
<1>6. TextNow' = << >>
  <2> DEFINE b == body'
  <2>1. b \in Seq(Symbols)
    BY BodiesAssumption DEF Dial
  <2>2. TextNow' = TextOf(b, 0, FALSE)
    <3>1. (conn' = "ended") = FALSE
      BY <1>1
    <3> QED
      BY <1>1, <3>1, Zenon DEF TextNow
  <2> HIDE DEF b
  <2>3. Len(b) \in Nat
    BY <2>1, LenProperties
  <2>4. 0 \in 0..Len(b) /\ 0 \in 0..0
    BY <2>3
  <2>5. TextOf(b, 0, FALSE) = SubSeq(b, 1, 0)
    BY <2>1, <2>4, TextTyped
  <2>6. SubSeq(b, 1, 0) \in Seq(Symbols) /\ Len(SubSeq(b, 1, 0)) = 0
    BY <2>1, <2>4, BeginningJoins
  <2>7. SubSeq(b, 1, 0) = << >>
    BY <2>6, EmptySeq
  <2> QED
    BY <2>2, <2>5, <2>7, Zenon
<1> QED
  BY <1>5, <1>6, Zenon DEF ItemsNow

(* The frames of a call that returns wait behind the others.               *)
LEMMA ScannedWay ==
  ASSUME ScannerInv, LoopInv, HeardInv, WayInv, Live, Handed', ChunkScanned
  PROVE  WayInv'
<1>1. /\ Live' /\ phase' = "idle" /\ UNCHANGED net /\ popped' = popped
      /\ pending' = pending \o out /\ yielded' = yielded \o out
  BY DEF ChunkScanned, FeedReturn, Live
<1>2. /\ yielded \in Seq(Frame) /\ out \in Seq(Frame) /\ pending \in Seq(Frame)
  BY DEF ScannerInv, TypeOK, LoopInv, BytesTyped
<1>3. ItemsNow' = ItemsNow
  BY <1>1, ItemsRest
<1>4. Extends(Item, AsItems(yielded'), ItemsNow')
  BY <1>1, Zenon DEF Handed
<1> DEFINE items == ItemsNow
<1>5. Extends(Item, AsItems(yielded \o out), items)
  BY <1>1, <1>3, <1>4, Zenon
<1>6. Behind(items, popped, pending, yielded)
  BY Zenon DEF WayInv
<1> HIDE DEF items
<1>7. Behind(items, popped, pending \o out, yielded \o out)
  BY <1>2, <1>5, <1>6, BehindMore
<1> QED
  BY <1>1, <1>3, <1>7, Zenon DEF WayInv, items

LEMMA FlushedWay ==
  ASSUME ScannerInv, LoopInv, HeardInv, WayInv, Live, Handed', FirstAtEnd \/ PollEnd
  PROVE  WayInv'
<1>1. /\ CloseScanner /\ pending = << >> /\ step' = step /\ UNCHANGED net
      /\ popped' = popped /\ pending' = Flush(yielded, yielded')
  BY DEF FirstAtEnd, PollEnd, AtEnd, TurnsToBody, CloseScanner
<1> DEFINE more == Flush(yielded, yielded')
           items == ItemsNow
<1>2. yielded' = yielded \o more /\ more \in Seq(Frame)
  BY <1>1, CloseHands
<1>3. /\ phase' \in {"idle", "failed"}
      /\ phase' # "idle" => yielded' = yielded
  BY <1>1, CloseShuts
<1>4. ItemsNow' = items /\ Live'
  BY <1>1, ItemsRest DEF Live
<1>5. yielded \in Seq(Frame) /\ << >> \in Seq(Frame) /\ << >> \o more = more
  BY <1>2, ConcatEmptySeq DEF ScannerInv, TypeOK
<1>6. Behind(items, popped, << >>, yielded)
  BY <1>1, Zenon DEF WayInv
<1>7. CASE phase' = "idle"
  <2>1. Extends(Item, AsItems(yielded'), ItemsNow')
    BY <1>4, <1>7, Zenon DEF Handed
  <2>2. Extends(Item, AsItems(yielded \o more), items)
    BY <1>2, <1>4, <2>1, Zenon
  <2> HIDE DEF more, items
  <2>3. Behind(items, popped, << >> \o more, yielded \o more)
    BY <1>2, <1>5, <1>6, <2>2, BehindMore
  <2>4. Behind(ItemsNow', popped', pending', yielded')
    BY <1>1, <1>2, <1>4, <1>5, <2>3, Zenon DEF more
  <2> QED
    BY <2>4, Zenon DEF WayInv
<1>8. CASE phase' # "idle"
  <2>1. yielded' = yielded
    BY <1>3, <1>8
  <2>2. yielded \o << >> = yielded
    BY <1>5, ConcatEmptySeq
  <2>3. Flush(yielded, yielded \o << >>) = << >>
    BY <1>5, FlushedRest
  <2>4. pending' = << >>
    BY <1>1, <2>1, <2>2, <2>3, Zenon
  <2>5. Behind(ItemsNow', popped', pending', yielded')
    BY <1>1, <1>4, <1>6, <2>1, <2>4, Zenon
  <2> QED
    BY <2>5, Zenon DEF WayInv
<1> QED
  BY <1>7, <1>8

LEMMA HeadWay ==
  ASSUME LoopInv, WayInv, Live, pending # << >>, pending' = Tail(pending),
         popped' = popped + 1, yielded' = yielded, UNCHANGED net
  PROVE  /\ WayInv'
         /\ RestAfter(ItemsNow, popped) # << >>
         /\ Head(RestAfter(ItemsNow, popped)) = AsItem(Head(pending))
         /\ RestAfter(ItemsNow', popped') = Tail(RestAfter(ItemsNow, popped))
<1>1. Behind(ItemsNow, popped, pending, yielded)
  BY Zenon DEF WayInv
<1>2. pending \in Seq(Frame)
  BY DEF LoopInv, BytesTyped
<1> DEFINE items == ItemsNow
<1>3. ItemsNow' = items
  BY ItemsRest
<1> HIDE DEF items
<1>4. /\ Behind(items, popped + 1, Tail(pending), yielded)
      /\ RestAfter(items, popped) # << >>
      /\ Head(RestAfter(items, popped)) = AsItem(Head(pending))
      /\ RestAfter(items, popped + 1) = Tail(RestAfter(items, popped))
  BY <1>1, <1>2, BehindHead, Zenon DEF items
<1> QED
  BY <1>3, <1>4, Zenon DEF WayInv, items

LEMMA NetworkWay ==
  ASSUME LoopInv, HeardInv, WayInv, Live, Arrive \/ BodyStops
  PROVE  /\ WayInv'
         /\ \A item \in Item : ItemsNow' = Append(ItemsNow, item) =>
              RestAfter(ItemsNow', popped') = Append(RestAfter(ItemsNow, popped), item)
<1> DEFINE items == ItemsNow
           more == ItemsNow'
<1>1. GrowsByOne(items, more)
  BY NetworkGrows
<1>2. items \in Seq(Item)
  BY ItemsNowTyped
<1>3. Behind(items, popped, pending, yielded)
  BY Zenon DEF WayInv
<1>4. popped' = popped /\ pending' = pending /\ yielded' = yielded
  BY DEF Arrive, BodyStops, scanner
<1> HIDE DEF items, more
<1>5. Extends(Item, items, more)
  BY <1>1, <1>2, GrowsExtends
<1>6. /\ Behind(more, popped, pending, yielded)
      /\ OwesAlso(items, more, popped)
  BY <1>3, <1>5, BehindGrows, Zenon
<1> QED
  BY <1>4, <1>6, Zenon DEF WayInv, OwesAlso, items, more

LEMMA WayNext ==
  ASSUME Known, Known', WayInv, [BytesNext]_bytesVars
  PROVE  WayInv'
<1>0. /\ ScannerInv /\ LoopInv /\ HeardInv
      /\ Handed'
  <2>1. Handed'
    BY HandedNow, PTL
  <2> QED
    BY <2>1 DEF Known
<1>1. CASE ~Live'
  BY <1>1 DEF WayInv
<1>2. CASE Live' /\ ~Live
  <2>1. Dial
    BY <1>2 DEF BytesNext, Loops, Dial, ReadChunk, ScanLine, ChunkScanned, FrameTooLarge,
                FirstFrame, FirstAtEnd, ClosedBeforeFirst, FirstBroken, TakeMatch,
                SkipFrame, PollBroken, PollEnd, PollAfterEnd, Arrive, BodyStops,
                bytesVars, Opened, InSetup, Live
  <2>2. ItemsNow' = << >>
    BY <2>1, DialBrings
  <2>3. popped' = 0 /\ pending' = << >> /\ yielded' = << >>
    BY <2>1 DEF Dial, ScannerNew
  <2> QED
    BY <2>2, <2>3, BehindStart, Zenon DEF WayInv
<1>3. CASE Live' /\ Live
  <2>1. CASE ChunkScanned
    BY <1>0, <1>3, <2>1, ScannedWay
  <2>2. CASE FirstAtEnd \/ PollEnd
    BY <1>0, <1>3, <2>2, FlushedWay
  <2>3. CASE FirstFrame \/ TakeMatch \/ SkipFrame
    <3>1. /\ pending # << >> /\ pending' = Tail(pending) /\ popped' = popped + 1
          /\ yielded' = yielded /\ UNCHANGED net
      BY <2>3 DEF FirstFrame, HandOver, SetupFails, TakeMatch, SkipFrame, scanner
    <3> QED
      BY <1>0, <1>3, <3>1, HeadWay
  <2>4. CASE Arrive \/ BodyStops
    BY <1>0, <1>3, <2>4, NetworkWay
  <2>5. CASE \/ ReadChunk \/ ScanLine \/ FrameTooLarge \/ PollBroken \/ PollAfterEnd
             \/ ClosedBeforeFirst \/ FirstBroken \/ UNCHANGED bytesVars
    <3>1. pending' = pending /\ popped' = popped /\ yielded' = yielded /\ UNCHANGED net
      BY <2>5 DEF ReadChunk, Feed, ScanLine, TakeLine, DrainAndConsume, FrameTooLarge,
                  PollBroken, PollAfterEnd, ClosedBeforeFirst, FirstBroken, SetupFails,
                  bytesVars, scanner
    <3>2. ItemsNow' = ItemsNow
      BY <3>1, ItemsRest
    <3> QED
      BY <1>3, <3>1, <3>2, Zenon DEF WayInv
  <2>6. ~Dial
    BY <1>3 DEF Dial, Live
  <2> QED
    BY <2>1, <2>2, <2>3, <2>4, <2>5, <2>6 DEF BytesNext, Loops
<1> QED
  BY <1>1, <1>2, <1>3
-----------------------------------------------------------------------------
(***************************************************************************)
(* Refinement.  What a connection owes its reader is the abstract queue; a *)
(* step of the loops that only moves bytes and frames along leaves it.     *)
(***************************************************************************)
PromiseInv == Known /\ WayInv /\ OverInv

Status == IF step = "failed" THEN "closed"
          ELSE IF ~Opened THEN "setup" ELSE IF Over THEN "over" ELSE "open"
Connection == IF InUse THEN conn ELSE "down"
Queue == IF InUse THEN Remaining ELSE << >>
Reader == AsItems(given)

PStep == [Promise!Next]_Promise!vars

(* A step that changes nothing of the mapping is a stutter.                *)
LEMMA PromiseStutter ==
  ASSUME UNCHANGED <<Status, Connection, Queue, Reader>>
  PROVE  PStep
  BY Zenon DEF PStep, Promise!vars, Status, Connection, Queue, Reader

LEMMA SameQueue ==
  ASSUME Owed, Owed', Live, Live', ItemsNow' = ItemsNow, popped' = popped
  PROVE  Remaining' = Remaining
<1>1. Remaining = RestAfter(ItemsNow, popped) /\ Remaining' = RestAfter(ItemsNow', popped')
  BY Zenon DEF Owed
<1> QED
  BY <1>1, Zenon

(* A step of the loops alone.                                              *)
LEMMA InnerMaps ==
  ASSUME Owed, Owed', UNCHANGED <<step, net, reader, popped>>
  PROVE  PStep
<1>1. /\ step' = step /\ conn' = conn /\ returned' = returned /\ given' = given
      /\ popped' = popped
  BY DEF net, reader
<1>2. Status' = Status /\ Connection' = Connection /\ Reader' = Reader
  BY <1>1 DEF Status, Connection, Reader, Opened, Over, InUse
<1>3. ItemsNow' = ItemsNow
  BY ItemsRest
<1>4. InUse' = InUse /\ Live' = Live
  BY <1>1 DEF InUse, Over, Live
<1>5. InUse => Live
  BY DEF InUse, Live
<1>6. Queue' = Queue
  <2>1. CASE InUse
    <3>1. Live /\ Live' /\ InUse'
      BY <1>4, <1>5, <2>1
    <3>2. Remaining' = Remaining
      BY <1>1, <1>3, <3>1, SameQueue
    <3> QED
      BY <2>1, <3>1, <3>2, Zenon DEF Queue
  <2>2. CASE ~InUse
    <3>1. ~InUse'
      BY <1>4, <2>2
    <3> QED
      BY <2>2, <3>1, Zenon DEF Queue
  <2> QED
    BY <2>1, <2>2
<1> QED
  BY <1>2, <1>6, PromiseStutter

(* A handshake that fails is refused, or the last one.                     *)
LEMMA SetupMaps ==
  ASSUME LoopInv, InSetup, SetupFails
  PROVE  PStep
<1>1. /\ step = "handshake" /\ step' \in {"failed", "ready"} /\ given' = given
      /\ returned' = returned
  BY SetupDies DEF InSetup, reader
<1>2. Status = "setup" /\ Status' \in {"setup", "closed"}
  BY <1>1 DEF Status, Opened
<1>3. Connection' = "down" /\ Queue' = << >> /\ Reader' = Reader
  BY <1>1 DEF Connection, Queue, InUse, Reader
<1>4. Promise!Refuse \/ Promise!GiveUpSetup
  BY <1>2, <1>3 DEF Promise!Refuse, Promise!GiveUpSetup, Promise!Discard,
                    Status, Connection, Queue, Reader
<1> QED
  BY <1>4 DEF PStep, Promise!Next

(* A handshake that is accepted is a connection that owes nothing yet.     *)
LEMMA DialMaps ==
  ASSUME LoopInv, Known', Owed', Dial
  PROVE  PStep
<1>1. /\ step = "ready" /\ step' = "handshake" /\ conn' = "up" /\ popped' = 0
      /\ returned' = returned /\ given' = given
  BY DEF Dial, reader
<1>2. returned = "nothing"
  BY <1>1 DEF LoopInv, SetupInv, Opened
<1>3. ~InUse /\ InUse' /\ Live'
  BY <1>1, <1>2 DEF InUse, Over, Live
<1>4. Status = "setup" /\ Status' = "setup" /\ Reader' = Reader
  BY <1>1 DEF Status, Opened, Reader
<1>5. Connection = "down" /\ Connection' = "up"
  BY <1>1, <1>3 DEF Connection
<1>6. Queue = << >> /\ Queue' = << >>
  <2>1. ItemsNow' = << >>
    BY DialBrings
  <2>2. Remaining' = RestAfter(ItemsNow', popped')
    BY <1>3, Zenon DEF Owed
  <2> QED
    BY <1>1, <1>3, <2>1, <2>2, BehindStart, Zenon DEF Queue
<1>7. Promise!Connect
  BY <1>4, <1>5, <1>6 DEF Promise!Connect, Status, Connection, Queue, Reader
<1> QED
  BY <1>7 DEF PStep, Promise!Next

(* The first pending frame is the first item owed.                         *)
LEMMA HeadMaps ==
  ASSUME Known, WayInv, OverInv, Owed, Owed', TakeMatch \/ SkipFrame \/
         (FirstFrame /\ Acknowledges(Head(pending)))
  PROVE  PStep
<1>0. LoopInv
  BY DEF Known
<1>1. /\ pending # << >> /\ pending' = Tail(pending) /\ popped' = popped + 1
      /\ yielded' = yielded /\ UNCHANGED net /\ phase = "idle" /\ step' = "open"
      /\ step \in {"open", "handshake"}
  BY DEF TakeMatch, SkipFrame, FirstFrame, HandOver, scanner, Opened, InSetup
<1>2. Live /\ Live' /\ conn' = conn
  BY <1>1 DEF Live, net
<1>3. ~Over /\ ~Over'
  <2>1. CASE TakeMatch \/ SkipFrame
    <3>1. ~Over /\ returned' \in {returned, "match"}
      BY <1>1, <2>1 DEF OverInv, TakeMatch, SkipFrame, reader
    <3> QED
      BY <3>1 DEF Over
  <2>2. CASE FirstFrame /\ Acknowledges(Head(pending))
    <3>1. returned = "nothing" /\ returned' = returned
      BY <1>0, <2>2 DEF FirstFrame, InSetup, reader, LoopInv, SetupInv, Opened
    <3> QED
      BY <3>1 DEF Over
  <2> QED
    BY <2>1, <2>2
<1>4. InUse /\ InUse'
  BY <1>2, <1>3 DEF InUse, Live
<1>5. /\ RestAfter(ItemsNow, popped) # << >>
      /\ Head(RestAfter(ItemsNow, popped)) = AsItem(Head(pending))
      /\ RestAfter(ItemsNow', popped') = Tail(RestAfter(ItemsNow, popped))
  BY <1>0, <1>1, <1>2, HeadWay
<1>6. Queue = RestAfter(ItemsNow, popped) /\ Queue' = RestAfter(ItemsNow', popped')
  BY <1>2, <1>4, Zenon DEF Queue, Owed
<1>7. Queue # << >> /\ Head(Queue) = AsItem(Head(pending)) /\ Queue' = Tail(Queue)
  BY <1>5, <1>6, Zenon
<1>8. Connection' = Connection /\ Status' = "open"
  BY <1>1, <1>2, <1>3, <1>4 DEF Connection, Status, Opened
<1>9. pending \in Seq(Frame) /\ Head(pending) \in Frame /\ given \in Seq(Frame)
  BY <1>0, <1>1, HeadTailProperties DEF LoopInv, BytesTyped
<1>10. CASE TakeMatch
  <2>1. /\ step = "open" /\ given' = Append(given, Head(pending))
        /\ Head(pending).event = MatchEvent
    BY <1>10 DEF TakeMatch, Opened
  <2>2. Status = "open"
    BY <1>3, <2>1 DEF Status, Opened
  <2>3. Reader' = Append(Reader, Head(Queue))
    <3>1. AsItems(Append(given, Head(pending))) = Append(AsItems(given), AsItem(Head(pending)))
      BY <1>9, AsItemsOne
    <3> QED
      BY <1>7, <2>1, <3>1, Zenon DEF Reader
  <2>4. Head(Queue).event = "match"
    <3>1. AsItem(Head(pending)).event = "match"
      BY <1>9, <2>1, AsItemTyped
    <3> QED
      BY <1>7, <3>1, Zenon
  <2>5. Promise!Give
    BY <1>7, <1>8, <2>2, <2>3, <2>4, Zenon
    DEF Promise!Give, Status, Connection, Queue, Reader
  <2> QED
    BY <2>5 DEF PStep, Promise!Next
<1>11. CASE SkipFrame
  <2>1. /\ step = "open" /\ given' = given /\ Head(pending).event # MatchEvent
    BY <1>11 DEF SkipFrame, Opened, reader
  <2>2. Status = "open" /\ Reader' = Reader
    BY <1>3, <2>1 DEF Status, Opened, Reader
  <2>3. Head(Queue).event \notin {"match", "oversize"}
    <3>1. AsItem(Head(pending)).event \notin {"match", "oversize"}
      BY <1>9, <2>1, AsItemTyped
    <3> QED
      BY <1>7, <3>1, Zenon
  <2>4. Promise!Skip
    BY <1>7, <1>8, <2>2, <2>3, Zenon
    DEF Promise!Skip, Status, Connection, Queue, Reader
  <2> QED
    BY <2>4 DEF PStep, Promise!Next
<1>12. CASE FirstFrame /\ Acknowledges(Head(pending))
  <2>1. step = "handshake" /\ given' = given /\ Head(pending).event = SubscribedEvent
    BY <1>12 DEF FirstFrame, InSetup, SetupFails, reader, Acknowledges
  <2>2. Status = "setup" /\ Reader' = Reader
    BY <2>1 DEF Status, Opened, Reader
  <2>3. Head(Queue).event = "subscribed"
    <3>1. AsItem(Head(pending)).event = "subscribed"
      BY <1>9, <2>1, AsItemTyped
    <3> QED
      BY <1>7, <3>1, Zenon
  <2>4. Promise!Open
    BY <1>7, <1>8, <2>2, <2>3, Zenon
    DEF Promise!Open, Status, Connection, Queue, Reader
  <2> QED
    BY <2>4 DEF PStep, Promise!Next
<1> QED
  BY <1>10, <1>11, <1>12

(* The stream fails because the connection broke or a frame is too large.  *)
LEMMA FailMaps ==
  ASSUME Known, WayInv, OverInv, Owed, PollBroken \/ (FrameTooLarge /\ Opened)
  PROVE  PStep
<1>1. /\ step = "open" /\ step' = "open" /\ given' = given /\ returned' = "error"
      /\ \/ conn = "broken" /\ ~finished
         \/ phase = "failed" /\ ~Over
  BY DEF PollBroken, FrameTooLarge, TurnsToBody, Opened, InSetup
<1>2. ~Over /\ Over'
  BY <1>1 DEF OverInv, Opened, Over
<1>3. InUse /\ ~InUse' /\ Live
  BY <1>1, <1>2 DEF InUse, Live
<1>4. Status = "open" /\ Status' = "over" /\ Reader' = Reader
  BY <1>1, <1>2 DEF Status, Opened, Reader
<1>5. Connection = conn /\ Connection' = "down" /\ Queue' = << >>
  BY <1>3 DEF Connection, Queue
<1>6. Connection = "broken" \/ Promise!HasOversized(Queue)
  <2>1. CASE conn = "broken"
    BY <1>5, <2>1
  <2>2. CASE phase = "failed"
    <3>1. PICK k \in 1..Len(ItemsNow) : ItemsNow[k].event = "oversize"
      BY <1>3, <2>2, RefusedNow, Zenon DEF Unfit
    <3>2. Behind(ItemsNow, popped, pending, yielded)
      BY <1>3, Zenon DEF WayInv
    <3>3. \E i \in 1..Len(RestAfter(ItemsNow, popped)) :
            RestAfter(ItemsNow, popped)[i].event = "oversize"
      BY <3>1, <3>2, BehindOversize
    <3>4. Queue = RestAfter(ItemsNow, popped)
      BY <1>3, Zenon DEF Queue, Owed
    <3> QED
      BY <3>3, <3>4, Zenon DEF Promise!HasOversized
  <2> QED
    BY <1>1, <2>1, <2>2
<1>7. Promise!Fail
  BY <1>4, <1>5, <1>6, Zenon
  DEF Promise!Fail, Promise!Discard, Status, Connection, Queue, Reader
<1> QED
  BY <1>7 DEF PStep, Promise!Next

(* The stream ends cleanly when the body did and nothing is owed.          *)
LEMMA FinishMaps ==
  ASSUME Known, WayInv, OverInv, Owed, PollAfterEnd
  PROVE  PStep
<1>1. /\ step = "open" /\ step' = "open" /\ given' = given /\ returned' = "end"
      /\ finished /\ pending = << >> /\ (phase = "idle" \/ returned = "error")
  BY DEF PollAfterEnd, Opened
<1>2. Over' /\ ~InUse' /\ Status' = "over" /\ Reader' = Reader
      /\ Connection' = "down" /\ Queue' = << >>
  BY <1>1 DEF Over, InUse, Status, Opened, Reader, Connection, Queue
<1>3. CASE Over
  <2>1. Status = "over" /\ Connection = "down" /\ Queue = << >>
    BY <1>1, <1>3 DEF InUse, Status, Opened, Connection, Queue
  <2> QED
    BY <1>2, <2>1, PromiseStutter
<1>4. CASE ~Over
  <2>1. InUse /\ Live /\ phase = "idle" /\ closed
    BY <1>1, <1>4 DEF InUse, Live, OverInv, Opened, Over
  <2>2. Status = "open" /\ Connection = "ended"
    BY <1>1, <1>4, <2>1 DEF Status, Opened, Connection, Known, HeardInv
  <2>3. ItemsNow = AsItems(yielded)
    BY <2>1, HandedNow, Zenon DEF Handed
  <2>4. Behind(AsItems(yielded), popped, << >>, yielded)
    BY <1>1, <2>1, <2>3, Zenon DEF WayInv
  <2>5. yielded \in Seq(Frame)
    BY DEF Known, ScannerInv, TypeOK
  <2>6. RestAfter(AsItems(yielded), popped) = << >>
    BY <2>4, <2>5, BehindAll
  <2>7. Queue = << >>
    BY <2>1, <2>3, <2>6, Zenon DEF Queue, Owed
  <2>8. Promise!Finish
    BY <1>2, <2>2, <2>7, Zenon
    DEF Promise!Finish, Promise!Discard, Status, Connection, Queue, Reader
  <2> QED
    BY <2>8 DEF PStep, Promise!Next
<1> QED
  BY <1>3, <1>4

(* Bytes that arrive, or the end of the body, complete at most one item.   *)
LEMMA NetworkMaps ==
  ASSUME Known, Known', WayInv, Owed, Owed', Arrive \/ BodyStops
  PROVE  PStep
<1>1. /\ step' = step /\ given' = given /\ returned' = returned /\ conn = "up"
      /\ conn' \in {"up", "ended", "broken"} /\ popped' = popped
      /\ Arrive => conn' = "up"
      /\ BodyStops => conn' \in {"ended", "broken"}
  BY DEF Arrive, BodyStops, reader
<1>2. LoopInv /\ HeardInv /\ LoopInv' /\ HeardInv'
  BY DEF Known
<1>3. Status' = Status /\ Reader' = Reader /\ InUse' = InUse
  BY <1>1 DEF Status, Opened, Over, Reader, InUse
<1>4. CASE ~InUse
  <2>1. ~InUse'
    BY <1>3, <1>4
  <2>2. Connection' = Connection /\ Queue' = Queue
    BY <1>4, <2>1, Zenon DEF Connection, Queue
  <2> QED
    BY <1>3, <2>2, PromiseStutter
<1>5. CASE InUse
  <2>1. InUse' /\ Live /\ Live'
    BY <1>1, <1>3, <1>5 DEF InUse, Live
  <2>2. Connection = "up" /\ Connection' = conn'
    BY <1>1, <1>5, <2>1 DEF Connection
  <2> DEFINE items == ItemsNow
             more == ItemsNow'
  <2>3. Queue = RestAfter(items, popped) /\ Queue' = RestAfter(more, popped')
    BY <1>5, <2>1, Zenon DEF Queue, Owed
  <2>4. /\ GrowsByOne(items, more)
        /\ conn' = "broken" => more = items
    BY <1>2, <2>1, NetworkGrows
  <2>5. items \in Seq(Item)
    BY <1>2, ItemsNowTyped
  <2>6. more = ItemsOf(TextOf(body', arrived', conn' = "ended"))
    BY Zenon DEF ItemsNow, TextNow
  <2>7. \A item \in Item : more = Append(items, item) =>
          RestAfter(more, popped') = Append(RestAfter(items, popped), item)
    BY <1>2, <2>1, NetworkWay
  <2> HIDE DEF items, more
  <2>8. CASE more = items
    <3>1. Queue' = Queue
      BY <1>1, <2>3, <2>8, Zenon
    <3>2. CASE conn' = "up"
      <4>1. Connection' = Connection
        BY <2>2, <3>2
      <4> QED
        BY <1>3, <3>1, <4>1, PromiseStutter
    <3>3. CASE conn' # "up"
      <4>1. Connection' \in {"ended", "broken"}
        BY <1>1, <2>2, <3>3
      <4>2. Promise!Gone
        BY <1>3, <2>2, <3>1, <4>1, Zenon
        DEF Promise!Gone, Status, Connection, Queue, Reader
      <4> QED
        BY <4>2 DEF PStep, Promise!Next
    <3> QED
      BY <3>2, <3>3
  <2>9. CASE more # items
    <3>1. PICK item \in Item : more = Append(items, item)
      BY <2>4, <2>9, Zenon DEF GrowsByOne
    <3>2. Queue' = Append(Queue, item)
      BY <2>3, <2>7, <3>1, Zenon
    <3>3. Connection' \in {"up", "ended"}
      BY <1>1, <2>2, <2>4, <2>9
    <3>4. item \in AllItems
      <4>1. /\ body' \in Bodies /\ arrived' \in 0..Len(body')
            /\ (conn' = "ended") \in BOOLEAN
        BY <1>2, <2>1 DEF LoopInv, BytesTyped, HeardInv
      <4>2. ItemsOf(TextOf(body', arrived', conn' = "ended")) = Append(items, item)
        BY <2>6, <3>1, Zenon
      <4> QED
        BY <2>5, <4>1, <4>2, ItemIsOne, Zenon
    <3>5. Promise!Sent(item)
      BY <1>3, <2>2, <3>2, <3>3, Zenon
      DEF Promise!Sent, Status, Connection, Queue, Reader
    <3> QED
      BY <3>4, <3>5, Zenon DEF PStep, Promise!Next
  <2> QED
    BY <2>8, <2>9
<1> QED
  BY <1>4, <1>5

(* Every step maps to a step of the promise or to none.                    *)
LEMMA StepMaps ==
  ASSUME PromiseInv, PromiseInv', [BytesNext]_bytesVars
  PROVE  PStep
<1>1. /\ Known /\ Known' /\ WayInv /\ OverInv /\ LoopInv /\ LoopInv'
      /\ HeardInv /\ HeardInv'
  BY DEF PromiseInv, Known
<1>2. Owed /\ Owed'
  BY <1>1, OwedNow, PTL
<1>3. CASE Dial
  BY <1>1, <1>2, <1>3, DialMaps
<1>4. CASE ReadChunk \/ ScanLine \/ ChunkScanned \/ FirstAtEnd
  <2>1. UNCHANGED <<step, net, reader, popped>>
    BY <1>4 DEF ReadChunk, ScanLine, ChunkScanned, FirstAtEnd
  <2> QED
    BY <1>2, <2>1, InnerMaps
<1>5. CASE PollEnd
  <2>1. /\ step' = step /\ step = "open" /\ conn' = conn /\ returned' = returned
        /\ given' = given /\ popped' = popped /\ UNCHANGED net
    BY <1>5 DEF PollEnd, Opened, net
  <2>2. Status' = Status /\ Connection' = Connection /\ Reader' = Reader /\ InUse' = InUse
    BY <2>1 DEF Status, Connection, Reader, Opened, Over, InUse
  <2>3. Remaining' = Remaining
    <3>1. Live /\ Live'
      BY <2>1 DEF Live
    <3> QED
      BY <1>2, <2>1, <3>1, ItemsRest, SameQueue
  <2>4. Queue' = Queue
    BY <2>2, <2>3 DEF Queue
  <2> QED
    BY <2>2, <2>4, PromiseStutter
<1>6. CASE FrameTooLarge
  <2>1. CASE InSetup /\ SetupFails
    BY <1>1, <2>1, SetupMaps
  <2>2. CASE Opened
    BY <1>1, <1>2, <1>6, <2>2, FailMaps
  <2> QED
    BY <1>6, <2>1, <2>2 DEF FrameTooLarge
<1>7. CASE FirstFrame
  <2>1. CASE Acknowledges(Head(pending))
    BY <1>1, <1>2, <1>7, <2>1, HeadMaps
  <2>2. CASE ~Acknowledges(Head(pending))
    BY <1>1, <1>7, <2>2, SetupMaps DEF FirstFrame
  <2> QED
    BY <2>1, <2>2
<1>8. CASE ClosedBeforeFirst \/ FirstBroken
  BY <1>1, <1>8, SetupMaps DEF ClosedBeforeFirst, FirstBroken
<1>9. CASE TakeMatch \/ SkipFrame
  BY <1>1, <1>2, <1>9, HeadMaps
<1>10. CASE PollBroken
  BY <1>1, <1>2, <1>10, FailMaps
<1>11. CASE PollAfterEnd
  BY <1>1, <1>2, <1>11, FinishMaps
<1>12. CASE Arrive \/ BodyStops
  BY <1>1, <1>2, <1>12, NetworkMaps
<1>13. CASE UNCHANGED bytesVars
  <2>1. UNCHANGED <<step, net, reader, popped>>
    BY <1>13 DEF bytesVars
  <2> QED
    BY <1>2, <2>1, InnerMaps
<1> QED
  BY <1>3, <1>4, <1>5, <1>6, <1>7, <1>8, <1>9, <1>10, <1>11, <1>12, <1>13
     DEF BytesNext, Loops

LEMMA PromiseInitially == BytesInit => PromiseInv /\ Promise!Init
<1> SUFFICES ASSUME BytesInit PROVE PromiseInv /\ Promise!Init
  OBVIOUS
<1>1. step = "ready" /\ given = << >>
  BY DEF BytesInit
<1>2. ScannerInv /\ TextInv /\ LoopInv
  BY InitInv, TextInit, LoopInit DEF BytesInit
<1>3. HeardInv /\ WayInv /\ OverInv
  BY <1>1 DEF HeardInv, WayInv, OverInv, Live, Opened
<1>4. Status = "setup" /\ Connection = "down" /\ Queue = << >>
  BY <1>1 DEF Status, Connection, Queue, InUse, Opened
<1>5. Reader = << >>
  <2>1. << >> \in Seq(Frame) /\ Len(<< >>) = 0
    OBVIOUS
  <2>2. AsItems(<< >>) = << >>
    BY <2>1, AsItemsTyped, EmptySeq
  <2> QED
    BY <1>1, <2>2, Zenon DEF Reader
<1>6. Promise!Init
  BY <1>4, <1>5, Zenon DEF Promise!Init, Status, Connection, Queue, Reader
<1> QED
  BY <1>2, <1>3, <1>6 DEF PromiseInv, Known

LEMMA PromiseNext ==
  ASSUME PromiseInv, [BytesNext]_bytesVars
  PROVE  PromiseInv'
<1>1. ScannerInv /\ TextInv /\ LoopInv /\ HeardInv /\ WayInv /\ OverInv /\ Known
  BY DEF PromiseInv, Known
<1>2. fed \in Seq(Symbols) /\ BytesTyped
  BY <1>1 DEF ScannerInv, TypeOK, LoopInv
<1>3. ScannerInv' /\ TextInv'
  BY <1>1, <1>2, LoopsMoveScanner, ScannerKept
<1>4. LoopInv'
  BY <1>1, LoopNext
<1>5. HeardInv'
  BY <1>1, HeardNext
<1>6. Known'
  BY <1>3, <1>4, <1>5 DEF Known
<1>7. WayInv'
  BY <1>1, <1>6, WayNext
<1>8. OverInv'
  BY <1>1, OverNext
<1> QED
  BY <1>6, <1>7, <1>8 DEF PromiseInv

(* Between the bytes of a body and its reader the promise is kept: the     *)
(* scanner and the subscription's loops implement the stream of items that *)
(* the text which arrived holds, taken as a whole, whatever the chunks     *)
(* (subscribe_once, poll_next, feed, close).                               *)
THEOREM PromiseKept == BytesSpec => KeepsPromise
<1>1. BytesInit => PromiseInv /\ Promise!Init
  BY PromiseInitially
<1>2. PromiseInv /\ [BytesNext]_bytesVars => PromiseInv'
  BY PromiseNext
<1>3. PromiseInv /\ PromiseInv' /\ [BytesNext]_bytesVars => PStep
  BY StepMaps
<1> QED
  BY <1>1, <1>2, <1>3, PTL DEF BytesSpec, KeepsPromise, Promise!Spec, PStep
=============================================================================
