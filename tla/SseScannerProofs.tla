--------------------------- MODULE SseScannerProofs ---------------------------
(***************************************************************************)
(* Proofs about SseScanner and SseReference for every text alphabet, size  *)
(* cap and body: the scanner's own invariants first; then what the         *)
(* reference does line by line, how the scanner tracks it, and that the    *)
(* frames handed out do not depend on the chunks.                          *)
(***************************************************************************)
EXTENDS SseReference, PositionsProofs, FiniteSetTheorems

(* The cap counted in characters, of which a line yields one per byte at    *)
(* most, however many bytes the lossy conversion makes of them.            *)
Characters(f) == Len(f.event) + Len(f.data)
FewChars(f) == Characters(f) <= MaxFrame

(* A text with a break has a first one.                                    *)
LEMMA FirstBreakExists ==
  ASSUME NEW data, Len(data) \in Nat,
         NEW i \in 1..Len(data), IsBreak(data[i])
  PROVE  \E k \in 1..Len(data) : IsFirstBreak(data, k)
<1> DEFINE breaks == {k \in 1..Len(data) : IsBreak(data[k])}
           below == OpToRel(<, Nat)
<1>1. IsWellFoundedOn(below, Nat)
  BY NatLessThanWellFounded
<1>2. breaks \subseteq Nat /\ breaks # {}
  OBVIOUS
<1> HIDE DEF below
<1>3. PICK k \in breaks : \A j \in breaks : <<j, k>> \notin below
  BY <1>1, <1>2, WFMin
<1>4. \A j \in breaks : ~(j < k)
  BY <1>2, <1>3, Zenon DEF below, OpToRel
<1>5. \A j \in 1..(k - 1) : ~IsBreak(data[j])
  BY <1>4
<1> QED
  BY <1>5 DEF IsFirstBreak

(* What follows the colon is shorter than its line.                        *)
LEMMA AfterColonShorter ==
  ASSUME NEW line \in Seq(Symbols), line # << >>
  PROVE  /\ AfterColon(line) \in Seq(Symbols)
         /\ Len(AfterColon(line)) <= Len(line) - 1
<1>1. Len(line) \in Nat \ {0} /\ \A i \in 1..Len(line) : line[i] \in Symbols
  BY EmptySeq, LenProperties, ElementOfSeq
<1>2. /\ SubSeq(line, 2, Len(line)) \in Seq(Symbols)
      /\ Len(SubSeq(line, 2, Len(line))) <= Len(line) - 1
  BY <1>1, SubSeqProperties
<1>3. Len(line) > 1 => /\ SubSeq(line, 3, Len(line)) \in Seq(Symbols)
                       /\ Len(SubSeq(line, 3, Len(line))) <= Len(line) - 1
  BY <1>1, SubSeqProperties
<1> QED
  BY <1>2, <1>3 DEF AfterColon

(* The lossy conversion gives one character for every symbol.              *)
LEMMA LossyTyped ==
  ASSUME NEW bytes \in Seq(Symbols)
  PROVE  Lossy(bytes) \in Seq(Chars) /\ Len(Lossy(bytes)) = Len(bytes)
<1>1. Len(bytes) \in Nat /\ \A i \in 1..Len(bytes) : bytes[i] \in Symbols
  BY LenProperties, ElementOfSeq
<1>2. \A i \in 1..Len(bytes) :
        (IF bytes[i] \in Invalid THEN Replacement ELSE bytes[i]) \in Chars
  BY <1>1 DEF Chars
<1>3. Lossy(bytes) \in [1..Len(bytes) -> Chars]
  BY <1>2, Zenon DEF Lossy
<1> QED
  BY <1>1, <1>3, SeqDef, LenProperties

(* A field value has fewer characters than its line: the prefix is not part *)
(* of it.                                                                  *)
LEMMA ValueShorter ==
  ASSUME NEW line \in Seq(Symbols), line # << >>
  PROVE  /\ Value(line) \in Seq(Chars)
         /\ Len(Value(line)) <= Len(line) - 1
  BY AfterColonShorter, LossyTyped DEF Value

(* The arithmetic of a stored field: e and d units are stored, a line of l  *)
(* units brings a value of v, and j is the joined data's length.           *)
LEMMA LineCoversField ==
  \A e, d, l, s, v, j \in Nat :
    /\ v <= l - 1
    /\ j <= d + 1 + v
    /\ e + d + l <= s
    => v + d <= s /\ e + j <= s /\ e + d <= s
OBVIOUS

(* Storing a field keeps what is stored within the size counted, the       *)
(* newline that joins two values included.                                 *)
LEMMA StoreFieldBounded ==
  ASSUME NEW c \in Partial, NEW line \in Seq(Symbols), line # << >>,
         Characters(c) + Len(line) <= c.size
  PROVE  /\ StoreField(c, line) \in Partial
         /\ StoreField(c, line).size = c.size
         /\ Characters(StoreField(c, line)) <= c.size
<1> DEFINE v == Value(line)
           joined == JoinData(c.data, v)
<1>1. v \in Seq(Chars) /\ Len(v) <= Len(line) - 1
  BY ValueShorter
<1> HIDE DEF v
<1>2. joined \in Seq(Chars) /\ Len(joined) <= Len(c.data) + 1 + Len(v)
  <2>1. <<LF>> \in Seq(Chars) /\ Len(<<LF>>) = 1
    BY DEF Chars, Symbols
  <2>2. c.data \in Seq(Chars)
    BY DEF Partial
  <2>3. /\ c.data \o <<LF>> \o v \in Seq(Chars)
        /\ Len(c.data \o <<LF>> \o v) = Len(c.data) + 1 + Len(v)
    BY <1>1, <2>1, <2>2, ConcatProperties
  <2> QED
    BY <1>1, <2>2, <2>3 DEF JoinData
<1>3. /\ StoreField(c, line) \in Partial
      /\ StoreField(c, line).size = c.size
      /\ \/ StoreField(c, line).event = v /\ StoreField(c, line).data = c.data
         \/ StoreField(c, line).event = c.event /\ StoreField(c, line).data = joined
         \/ StoreField(c, line) = c
  BY <1>1, <1>2 DEF StoreField, Partial, v
<1>4. /\ Len(c.event) \in Nat /\ Len(c.data) \in Nat /\ Len(v) \in Nat
      /\ Len(joined) \in Nat /\ Len(line) \in Nat /\ c.size \in Nat
      /\ Len(v) <= Len(line) - 1 /\ Len(joined) <= Len(c.data) + 1 + Len(v)
  BY <1>1, <1>2, LenProperties DEF Partial
<1> HIDE DEF joined
<1>5. Characters(StoreField(c, line)) <= c.size
  <2> DEFINE stored == StoreField(c, line)
  <2> HIDE DEF stored
  <2>1. Len(c.event) + Len(c.data) + Len(line) <= c.size
    BY DEF Characters
  <2>2. \/ Len(stored.event) = Len(v) /\ Len(stored.data) = Len(c.data)
        \/ Len(stored.event) = Len(c.event) /\ Len(stored.data) = Len(joined)
        \/ Len(stored.event) = Len(c.event) /\ Len(stored.data) = Len(c.data)
    BY <1>3 DEF stored
  <2>3. /\ Len(v) + Len(c.data) <= c.size
        /\ Len(c.event) + Len(joined) <= c.size
        /\ Len(c.event) + Len(c.data) <= c.size
    BY <1>4, <2>1, LineCoversField
  <2>4. Len(stored.event) + Len(stored.data) <= c.size
    BY <2>2, <2>3
  <2> QED
    BY <2>4 DEF Characters, stored
<1> QED
  BY <1>3, <1>5

(* What consume_line does to a frame in progress within the cap: the types *)
(* it returns, and the cap again, of the new frame in progress and of a    *)
(* frame it emits.                                                         *)
LEMMA ConsumeLineBounded ==
  ASSUME NEW c \in Partial, NEW line \in Seq(Symbols),
         Characters(c) <= c.size, c.size <= MaxFrame
  PROVE  LET result == ConsumeLine(c, line)
         IN  /\ result.cur \in Partial
             /\ result.frames \in Seq(Frame)
             /\ result.ok \in BOOLEAN
             /\ result.ok => result.cur.size <= MaxFrame
             /\ Characters(result.cur) <= result.cur.size
             /\ \A i \in 1..Len(result.frames) : FewChars(result.frames[i])
<1> DEFINE result == ConsumeLine(c, line)
           grown == Grown(c, line)
<1> USE MaxFrameAssumption
<1>1. CASE line = << >>
  <2>1. EmptyFrame \in Partial /\ Characters(EmptyFrame) = 0 /\ EmptyFrame.size = 0
    BY DEF EmptyFrame, Partial, Characters
  <2>2. FrameOf(c) \in Frame /\ FewChars(FrameOf(c))
    BY DEF FrameOf, Frame, Partial, Characters, FewChars
  <2>3. result.ok /\ result.cur \in {c, EmptyFrame}
    BY <1>1 DEF ConsumeLine
  <2>4. result.frames \in {<< >>, <<FrameOf(c)>>}
    BY <1>1 DEF ConsumeLine
  <2>5. result.frames \in Seq(Frame)
    <3>1. << >> \in Seq(Frame) /\ <<FrameOf(c)>> \in Seq(Frame)
      BY <2>2
    <3> QED
      BY <2>4, <3>1
  <2>6. \A i \in 1..Len(result.frames) : FewChars(result.frames[i])
    BY <2>2, <2>4
  <2>7. /\ result.cur \in Partial /\ result.cur.size <= MaxFrame
        /\ Characters(result.cur) <= result.cur.size
    BY <2>1, <2>3
  <2> QED
    BY <2>3, <2>5, <2>6, <2>7
<1>2. CASE line # << >> /\ line[1] = ":"
  BY <1>2 DEF ConsumeLine
<1>3. CASE line # << >> /\ line[1] # ":"
  <2>1. /\ grown \in Partial /\ grown.size = c.size + Len(line)
        /\ Characters(grown) = Characters(c) /\ Len(line) \in Nat /\ Characters(c) \in Nat
    BY LenProperties DEF Grown, Partial, Characters
  <2>2. CASE grown.size > MaxFrame
    <3>1. result = [cur |-> grown, frames |-> << >>, ok |-> FALSE]
      BY <1>3, <2>2 DEF ConsumeLine
    <3> QED
      BY <2>1, <3>1 DEF Partial
  <2>3. CASE ~(grown.size > MaxFrame)
    <3>1. result = [cur |-> StoreField(grown, line), frames |-> << >>, ok |-> TRUE]
      BY <1>3, <2>3 DEF ConsumeLine
    <3>2. /\ StoreField(grown, line) \in Partial
          /\ StoreField(grown, line).size = grown.size
          /\ Characters(StoreField(grown, line)) <= grown.size
      BY <1>3, <2>1, StoreFieldBounded DEF Partial
    <3> QED
      BY <2>1, <2>3, <3>1, <3>2 DEF Partial
  <2> QED
    BY <2>2, <2>3
<1> QED
  BY <1>1, <1>2, <1>3

(* Bounded frames: what is emitted from a frame in progress, and appended. *)
LEMMA FrameOfBounded ==
  ASSUME NEW c \in Partial, Characters(c) <= c.size, c.size <= MaxFrame
  PROVE  FrameOf(c) \in Frame /\ FewChars(FrameOf(c))
  BY MaxFrameAssumption DEF FrameOf, Frame, Partial, Characters, FewChars

(* Frames within the cap stay so when two vectors of them are joined.      *)
LEMMA FewCharsConcat ==
  ASSUME NEW s \in Seq(Frame), \A i \in 1..Len(s) : FewChars(s[i]),
         NEW t \in Seq(Frame), \A i \in 1..Len(t) : FewChars(t[i])
  PROVE  \A i \in 1..Len(s \o t) : FewChars((s \o t)[i])
<1>1. TAKE i \in 1..Len(s \o t)
<1>2. /\ Len(s) \in Nat /\ Len(t) \in Nat /\ Len(s \o t) = Len(s) + Len(t)
      /\ (s \o t)[i] = IF i <= Len(s) THEN s[i] ELSE t[i - Len(s)]
  BY ConcatProperties, LenProperties
<1>3. i > Len(s) => i - Len(s) \in 1..Len(t)
  BY <1>2
<1> QED
  BY <1>2, <1>3

(* What next_line returns and leaves are bytes of its data.                *)
LEMMA NextLineTyped ==
  ASSUME NEW data \in Seq(Symbols), NEW prior_cr \in BOOLEAN,
         NEW next \in NextLines(data, prior_cr)
  PROVE  /\ next.line \in Seq(Symbols)
         /\ SubSeq(data, next.advance + 1, Len(data)) \in Seq(Symbols)
<1>1. Len(data) \in Nat /\ \A i \in 1..Len(data) : data[i] \in Symbols
  BY LenProperties, ElementOfSeq
<1>2. CASE LeadingLf(data, prior_cr)
  <2>1. next = [line |-> << >>, advance |-> 1]
    BY <1>2 DEF NextLines
  <2>2. SubSeq(data, 2, Len(data)) \in Seq(Symbols)
    BY <1>1, SubSeqProperties
  <2> QED
    BY <2>1, <2>2
<1>3. CASE ~LeadingLf(data, prior_cr)
  <2>1. PICK i \in 1..Len(data) :
          next = [line |-> SubSeq(data, 1, i - 1), advance |-> Advance(data, i)]
    BY <1>3 DEF NextLines
  <2>2. SubSeq(data, 1, i - 1) \in Seq(Symbols)
    BY <1>1, SubSeqProperties
  <2>3. Advance(data, i) \in {i, i + 1}
    BY DEF Advance
  <2>4. \A m \in {i + 1, i + 2} : SubSeq(data, m, Len(data)) \in Seq(Symbols)
    BY <1>1, SubSeqProperties
  <2> QED
    BY <2>1, <2>2, <2>3, <2>4
<1> QED
  BY <1>2, <1>3

(* When next_line finds nothing, the only break left is a CR at the end.   *)
LEMMA NothingLeft ==
  ASSUME NEW data \in Seq(Symbols), NEW prior_cr \in BOOLEAN,
         NextLines(data, prior_cr) = {}
  PROVE  \A i \in 1..Len(data) : IsBreak(data[i]) => i = Len(data) /\ data[i] = CR
<1>1. \A k \in 1..Len(data) : ~EndsLine(data, k)
  BY DEF NextLines
<1>2. Len(data) \in Nat
  BY LenProperties
<1>3. SUFFICES ASSUME NEW i \in 1..Len(data), IsBreak(data[i])
               PROVE  i = Len(data) /\ data[i] = CR
  OBVIOUS
<1>4. PICK k \in 1..Len(data) : IsFirstBreak(data, k)
  BY <1>2, <1>3, FirstBreakExists
<1>5. data[k] # LF /\ ~(k < Len(data))
  BY <1>1, <1>4 DEF EndsLine
<1>6. k <= i
  BY <1>2, <1>3, <1>4 DEF IsFirstBreak
<1>7. i = k /\ k = Len(data)
  BY <1>2, <1>5, <1>6
<1> QED
  BY <1>4, <1>5, <1>7 DEF IsFirstBreak, IsBreak
-----------------------------------------------------------------------------
(***************************************************************************)
(* The inductive invariant.  A deferred CR keeps the buffer from starting  *)
(* with an LF until a line is taken, and a closed scanner has no buffer.   *)
(***************************************************************************)
DeferredCr ==
  /\ pending_cr /\ ~closed => buf # << >> /\ buf[1] # LF
  /\ closed => buf = << >> /\ phase # "feeding"

(* What is stored and handed out, in characters.                          *)
CharsBounded ==
  /\ phase # "failed" => cur.size <= MaxFrame
  /\ Characters(cur) <= cur.size
  /\ \A i \in 1..Len(out) : FewChars(out[i])
  /\ \A i \in 1..Len(yielded) : FewChars(yielded[i])

ScannerInv == TypeOK /\ NoCompleteLineLeft /\ DeferredCr /\ CharsBounded

(* A new scanner satisfies the invariant.                                  *)
LEMMA InitInv == Init => ScannerInv
<1> SUFFICES ASSUME Init PROVE ScannerInv
  OBVIOUS
<1>1. TypeOK
  <2>1. EmptyFrame \in Partial
    BY DEF EmptyFrame, Partial
  <2>2. \A S : << >> \in Seq(S)
    BY EmptySeq
  <2> QED
    BY <2>1, <2>2, Zenon DEF Init, TypeOK
<1>2. NoCompleteLineLeft /\ DeferredCr
  BY DEF Init, NoCompleteLineLeft, DeferredCr
<1>3. CharsBounded
  BY MaxFrameAssumption DEF Init, CharsBounded, EmptyFrame, Characters
<1> QED
  BY <1>1, <1>2, <1>3 DEF ScannerInv

(* Appending a chunk puts nothing in front of a deferred CR.               *)
LEMMA FeedInv ==
  ASSUME ScannerInv, NEW n \in Int, NEW chunk \in ChunksUpTo(n), Feed(chunk)
  PROVE  ScannerInv'
<1> USE DEF ScannerInv
<1>1. chunk \in Seq(Symbols)
  BY DEF ChunksUpTo
<1>2. /\ buf' = buf \o chunk /\ fed' = fed \o chunk
      /\ phase = "idle" /\ phase' = "feeding" /\ ~closed /\ out' = << >>
      /\ UNCHANGED <<cur, pending_cr, closed, yielded>>
  BY DEF Feed
<1>3. TypeOK'
  BY <1>1, <1>2, ConcatProperties DEF TypeOK
<1>4. buf # << >> => buf' # << >> /\ buf'[1] = buf[1]
  BY <1>1, <1>2, ConcatProperties, EmptySeq DEF TypeOK
<1>5. NoCompleteLineLeft' /\ DeferredCr'
  BY <1>2, <1>4 DEF NoCompleteLineLeft, DeferredCr
<1>6. CharsBounded'
  BY <1>2 DEF CharsBounded
<1> QED
  BY <1>3, <1>5, <1>6

(* Consuming a line clears the deferred CR and keeps the cap.              *)
LEMMA TakeLineInv ==
  ASSUME ScannerInv, TakeLine
  PROVE  ScannerInv'
<1> USE DEF ScannerInv
<1>1. /\ phase = "feeding" /\ pending_cr' = FALSE
      /\ UNCHANGED <<closed, fed, yielded>>
  BY DEF TakeLine, DrainAndConsume
<1>2. PICK next \in NextLines(buf, pending_cr) :
        LET result == ConsumeLine(cur, next.line)
        IN  /\ buf' = SubSeq(buf, next.advance + 1, Len(buf))
            /\ cur' = result.cur
            /\ out' = IF result.ok THEN out \o result.frames ELSE << >>
            /\ phase' = IF result.ok THEN "feeding" ELSE "failed"
  BY DEF TakeLine, DrainAndConsume
<1> DEFINE result == ConsumeLine(cur, next.line)
<1>3. /\ next.line \in Seq(Symbols)
      /\ SubSeq(buf, next.advance + 1, Len(buf)) \in Seq(Symbols)
  BY NextLineTyped DEF TypeOK
<1>4. cur \in Partial /\ Characters(cur) <= cur.size /\ cur.size <= MaxFrame
  BY <1>1 DEF TypeOK, CharsBounded
<1>5. /\ result.cur \in Partial
      /\ result.frames \in Seq(Frame)
      /\ result.ok \in BOOLEAN
      /\ result.ok => result.cur.size <= MaxFrame
      /\ Characters(result.cur) <= result.cur.size
      /\ \A i \in 1..Len(result.frames) : FewChars(result.frames[i])
  BY <1>3, <1>4, ConsumeLineBounded
<1> HIDE DEF result
<1>6. /\ out' \in Seq(Frame)
      /\ \A i \in 1..Len(out') : FewChars(out'[i])
  <2>1. out \in Seq(Frame) /\ \A i \in 1..Len(out) : FewChars(out[i])
    BY DEF TypeOK, CharsBounded
  <2>2. out \o result.frames \in Seq(Frame)
    BY <1>5, <2>1, ConcatProperties
  <2>3. \A i \in 1..Len(out \o result.frames) : FewChars((out \o result.frames)[i])
    BY <1>5, <2>1, FewCharsConcat
  <2> QED
    BY <1>2, <2>2, <2>3 DEF result
<1>7. TypeOK'
  BY <1>1, <1>2, <1>3, <1>5, <1>6 DEF TypeOK, result
<1>8. NoCompleteLineLeft' /\ DeferredCr'
  BY <1>1, <1>2 DEF NoCompleteLineLeft, DeferredCr
<1>9. CharsBounded'
  <2>1. phase' # "failed" => cur'.size <= MaxFrame
    BY <1>2, <1>5 DEF result
  <2>2. Characters(cur') <= cur'.size
    BY <1>2, <1>5 DEF result
  <2>3. \A i \in 1..Len(yielded') : FewChars(yielded'[i])
    BY <1>1 DEF CharsBounded
  <2> QED
    BY <1>6, <2>1, <2>2, <2>3 DEF CharsBounded
<1> QED
  BY <1>7, <1>8, <1>9

(* feed() returns with no complete line left, and a CR it defers is still  *)
(* in the buffer.                                                          *)
LEMMA FeedReturnInv ==
  ASSUME ScannerInv, FeedReturn
  PROVE  ScannerInv'
<1> USE DEF ScannerInv
<1>1. /\ phase = "feeding" /\ phase' = "idle" /\ out' = << >>
      /\ NextLines(buf, pending_cr) = {}
      /\ pending_cr' = EndsInCr(buf)
      /\ yielded' = yielded \o out
      /\ UNCHANGED <<buf, cur, closed, fed>>
  BY DEF FeedReturn
<1>2. \A i \in 1..Len(buf) : IsBreak(buf[i]) => i = Len(buf) /\ buf[i] = CR
  BY <1>1, NothingLeft DEF TypeOK
<1>3. yielded \o out \in Seq(Frame)
  BY ConcatProperties DEF TypeOK
<1>4. \A i \in 1..Len(yielded \o out) : FewChars((yielded \o out)[i])
  BY FewCharsConcat DEF TypeOK, CharsBounded
<1>5. TypeOK'
  BY <1>1, <1>3 DEF TypeOK, EndsInCr
<1>6. NoCompleteLineLeft'
  BY <1>1, <1>2 DEF NoCompleteLineLeft
<1>7. EndsInCr(buf) => buf # << >> /\ buf[1] # LF
  BY <1>2, EmptySeq DEF EndsInCr, TypeOK, IsBreak, CR, LF
<1>8. DeferredCr'
  BY <1>1, <1>7 DEF DeferredCr
<1>9. CharsBounded'
  BY <1>1, <1>4 DEF CharsBounded
<1> QED
  BY <1>5, <1>6, <1>8, <1>9

(* The last line, which close() consumes, is accounted like any other.     *)
LEMMA FlushedBounded ==
  ASSUME ScannerInv, phase = "idle"
  PROVE  /\ Flushed.cur \in Partial
         /\ Flushed.frames \in Seq(Frame)
         /\ Flushed.ok \in BOOLEAN
         /\ Flushed.ok => Flushed.cur.size <= MaxFrame
         /\ Characters(Flushed.cur) <= Flushed.cur.size
         /\ \A i \in 1..Len(Flushed.frames) : FewChars(Flushed.frames[i])
<1>1. cur \in Partial /\ Characters(cur) <= cur.size /\ cur.size <= MaxFrame
  BY DEF ScannerInv, TypeOK, CharsBounded
<1>2. buf \in Seq(Symbols)
  BY DEF ScannerInv, TypeOK
<1>3. StripTrailingCr(buf) \in Seq(Symbols)
  <2>1. Len(buf) \in Nat /\ \A i \in 1..Len(buf) : buf[i] \in Symbols
    BY <1>2, LenProperties, ElementOfSeq
  <2>2. SubSeq(buf, 1, Len(buf) - 1) \in Seq(Symbols)
    BY <2>1, SubSeqProperties
  <2> QED
    BY <1>2, <2>2 DEF StripTrailingCr
<1>4. CASE buf = << >>
  <2>1. Flushed = [cur |-> cur, frames |-> << >>, ok |-> TRUE]
    BY <1>4 DEF Flushed
  <2> QED
    BY <1>1, <2>1
<1>5. CASE buf # << >>
  <2>1. Flushed = ConsumeLine(cur, StripTrailingCr(buf))
    BY <1>5 DEF Flushed
  <2> QED
    BY <1>1, <1>3, <2>1, ConsumeLineBounded
<1> QED
  BY <1>4, <1>5

(* close() empties the buffer and hands out frames within the cap.         *)
LEMMA CloseInv ==
  ASSUME ScannerInv, Close
  PROVE  ScannerInv'
<1> USE DEF ScannerInv
<1>1. /\ phase = "idle" /\ closed' = TRUE /\ buf' = << >>
      /\ phase' = IF Flushed.ok THEN "idle" ELSE "failed"
      /\ UNCHANGED <<pending_cr, out, fed>>
  BY DEF Close
<1> DEFINE flushed == Flushed
<1>2. /\ flushed.cur \in Partial
      /\ flushed.frames \in Seq(Frame)
      /\ flushed.ok \in BOOLEAN
      /\ flushed.ok => flushed.cur.size <= MaxFrame
      /\ Characters(flushed.cur) <= flushed.cur.size
      /\ \A i \in 1..Len(flushed.frames) : FewChars(flushed.frames[i])
  BY <1>1, FlushedBounded
<1>3. \/ /\ yielded' = Append(yielded, FrameOf(flushed.cur))
         /\ cur' = EmptyFrame /\ flushed.ok
      \/ /\ yielded' = yielded \o flushed.frames
         /\ cur' = flushed.cur
  BY DEF Close
<1> HIDE DEF flushed
<1>4. yielded \in Seq(Frame) /\ \A i \in 1..Len(yielded) : FewChars(yielded[i])
  BY DEF TypeOK, CharsBounded
<1>5. NoCompleteLineLeft' /\ DeferredCr'
  BY <1>1 DEF NoCompleteLineLeft, DeferredCr
<1>6. CASE /\ yielded' = Append(yielded, FrameOf(flushed.cur))
           /\ cur' = EmptyFrame /\ flushed.ok
  <2>1. /\ EmptyFrame \in Partial /\ EmptyFrame.size = 0
        /\ Characters(EmptyFrame) = 0
    BY DEF EmptyFrame, Partial, Characters
  <2>2. FrameOf(flushed.cur) \in Frame /\ FewChars(FrameOf(flushed.cur))
    BY <1>2, <1>6, FrameOfBounded
  <2>3. TypeOK'
    BY <1>1, <1>4, <1>6, <2>1, <2>2, AppendProperties DEF TypeOK
  <2>4. \A i \in 1..Len(yielded') : FewChars(yielded'[i])
    BY <1>4, <1>6, <2>2, AppendProperties, LenProperties
  <2>5. CharsBounded'
    BY <1>1, <1>6, <2>1, <2>4, MaxFrameAssumption DEF CharsBounded
  <2> QED
    BY <1>5, <2>3, <2>5
<1>7. CASE yielded' = yielded \o flushed.frames /\ cur' = flushed.cur
  <2>1. TypeOK'
    BY <1>1, <1>2, <1>4, <1>7, ConcatProperties DEF TypeOK
  <2>2. \A i \in 1..Len(yielded') : FewChars(yielded'[i])
    BY <1>2, <1>4, <1>7, FewCharsConcat
  <2>3. phase' # "failed" => cur'.size <= MaxFrame
    BY <1>1, <1>2, <1>7 DEF flushed
  <2>4. Characters(cur') <= cur'.size
    BY <1>2, <1>7
  <2>5. CharsBounded'
    BY <1>1, <2>2, <2>3, <2>4 DEF CharsBounded
  <2> QED
    BY <1>5, <2>1, <2>5
<1> QED
  BY <1>3, <1>6, <1>7

(* Every step keeps the invariant.                                         *)
LEMMA NextInv == ScannerInv /\ [Next]_vars => ScannerInv'
<1> SUFFICES ASSUME ScannerInv, [Next]_vars
             PROVE  ScannerInv'
  OBVIOUS
<1>1. ASSUME NEW chunk \in ChunksUpTo(MaxInput - Len(fed)), Feed(chunk)
      PROVE  ScannerInv'
  <2>1. MaxInput - Len(fed) \in Int
    BY MaxInputAssumption, LenProperties DEF ScannerInv, TypeOK
  <2> QED
    BY <1>1, <2>1, FeedInv
<1>2. CASE TakeLine
  BY <1>2, TakeLineInv
<1>3. CASE FeedReturn
  BY <1>3, FeedReturnInv
<1>4. CASE Close
  BY <1>4, CloseInv
<1>5. CASE CloseAgain \/ UNCHANGED vars
  BY <1>5 DEF CloseAgain, vars, ScannerInv, TypeOK, NoCompleteLineLeft,
              DeferredCr, CharsBounded
<1> QED
  BY <1>1, <1>2, <1>3, <1>4, <1>5 DEF Next
-----------------------------------------------------------------------------
(* The inductive invariant holds of every scanner: for any alphabet, cap,  *)
(* body and chunks.                                                        *)
THEOREM Correct == Spec => []ScannerInv
  BY InitInv, NextInv, PTL DEF Spec

(* The scanner's fields keep their types, whatever the chunks.             *)
THEOREM TypeCorrect == Spec => []TypeOK
<1>1. ScannerInv => TypeOK
  BY DEF ScannerInv
<1> QED
  BY <1>1, Correct, PTL

(* feed() leaves at most an undecided CR in the buffer, and so next_line's *)
(* branch for an LF after a deferred CR never runs, for any body.          *)
THEOREM LinesAllTaken == Spec => []NoCompleteLineLeft
<1>1. ScannerInv => NoCompleteLineLeft
  BY DEF ScannerInv
<1> QED
  BY <1>1, Correct, PTL

(* The prior_cr branch of next_line never runs: a deferred CR is still in  *)
(* the buffer, in front of the LF that would start the next chunk.         *)
THEOREM BranchNeverTaken == Spec => []PriorCrBranchDead
<1>1. ScannerInv => PriorCrBranchDead
  BY DEF ScannerInv, DeferredCr, PriorCrBranchDead, LeadingLf
<1> QED
  BY <1>1, Correct, PTL

(* A String takes up one byte per character and two more for each one       *)
(* replaced.                                                               *)
LEMMA BytesOfChars ==
  ASSUME NEW chars \in Seq(Chars)
  PROVE  /\ Bytes(chars) \in Nat
         /\ Replaced(chars) = {} => Bytes(chars) = Len(chars)
         /\ Bytes(chars) <= 3 * Len(chars)
<1>1. Len(chars) \in Nat
  BY LenProperties
<1>2. IsFiniteSet(1..Len(chars)) /\ Cardinality(1..Len(chars)) = Len(chars)
  BY <1>1, FS_Interval
<1>3. Replaced(chars) \in SUBSET (1..Len(chars))
  BY Zenon DEF Replaced
<1>4. /\ IsFiniteSet(Replaced(chars))
      /\ Cardinality(Replaced(chars)) <= Cardinality(1..Len(chars))
  BY <1>2, <1>3, FS_Subset, Zenon
<1>5. Cardinality(Replaced(chars)) \in Nat
  BY <1>4, FS_CardinalityType
<1>6. Replaced(chars) = {} => Cardinality(Replaced(chars)) = 0
  BY FS_EmptySet, Zenon
<1> QED
  BY <1>1, <1>2, <1>4, <1>5, <1>6 DEF Bytes

(* Few characters make few bytes.                                          *)
LEMMA WithinLimit ==
  ASSUME NEW f, f.event \in Seq(Chars), f.data \in Seq(Chars),
         NEW limit \in Nat, Characters(f) <= limit
  PROVE  Within(f, limit)
<1> DEFINE e == f.event
           d == f.data
<1>1. /\ Bytes(e) \in Nat /\ Bytes(d) \in Nat /\ Len(e) \in Nat /\ Len(d) \in Nat
      /\ Bytes(e) <= 3 * Len(e) /\ Bytes(d) <= 3 * Len(d)
      /\ IsLossless(f) => Bytes(e) = Len(e) /\ Bytes(d) = Len(d)
  BY BytesOfChars, LenProperties DEF IsLossless
<1>2. Len(e) + Len(d) <= limit /\ Stored(f) = Bytes(e) + Bytes(d)
  BY DEF Characters, Stored
<1> HIDE DEF e, d
<1> QED
  BY <1>1, <1>2 DEF Within

(* What is stored stays within what was counted, and what is handed out     *)
(* within MAX_SSE_FRAME_BYTES, or three times as much where bytes that are  *)
(* not UTF-8 were replaced.                                                *)
THEOREM CapHolds == Spec => []FramesBounded
<1>1. ScannerInv => FramesBounded
  <2> SUFFICES ASSUME ScannerInv PROVE FramesBounded
    OBVIOUS
  <2>1. /\ cur \in Partial /\ out \in Seq(Frame) /\ yielded \in Seq(Frame)
        /\ CharsBounded
    BY DEF ScannerInv, TypeOK
  <2>2. Within(cur, cur.size)
    BY <2>1, WithinLimit DEF CharsBounded, Partial
  <2>3. ASSUME NEW s \in Seq(Frame), \A i \in 1..Len(s) : FewChars(s[i])
        PROVE  \A i \in 1..Len(s) : Within(s[i], MaxFrame)
    <3>1. TAKE i \in 1..Len(s)
    <3>2. s[i] \in Frame /\ Characters(s[i]) <= MaxFrame
      BY <2>3, ElementOfSeq DEF FewChars
    <3> QED
      BY <3>2, WithinLimit, MaxFrameAssumption DEF Frame
  <2> QED
    BY <2>1, <2>2, <2>3 DEF FramesBounded, CharsBounded
<1> QED
  BY <1>1, Correct, PTL
-----------------------------------------------------------------------------
(***************************************************************************)
(* What SseReference computes, one position after the other.               *)
(***************************************************************************)
IsLines(lines) ==
  /\ DOMAIN lines \in SUBSET (Nat \ {0})
  /\ \A k \in DOMAIN lines : lines[k] \in Seq(Symbols)

(* A value is text.                                                        *)
LEMMA ValueTyped ==
  ASSUME NEW line \in Seq(Symbols)
  PROVE  Value(line) \in Seq(Chars)
<1>1. Len(line) \in Nat /\ \A i \in 1..Len(line) : line[i] \in Symbols
  BY LenProperties, ElementOfSeq
<1>2. /\ SubSeq(line, 2, Len(line)) \in Seq(Symbols)
      /\ SubSeq(line, 3, Len(line)) \in Seq(Symbols)
  BY <1>1, SubSeqProperties
<1>3. AfterColon(line) \in Seq(Symbols)
  BY <1>2 DEF AfterColon
<1> QED
  BY <1>3, LossyTyped DEF Value

LEMMA JoinTyped ==
  ASSUME NEW d \in Seq(Chars), NEW v \in Seq(Chars)
  PROVE  Joined(d, v) \in Seq(Chars)
<1>1. LF \in Chars /\ <<LF>> \in Seq(Chars)
  BY DEF Chars, Symbols
<1>2. d \o <<LF>> \in Seq(Chars)
  BY <1>1, ConcatProperties
<1>3. d \o <<LF>> \o v \in Seq(Chars)
  BY <1>2, ConcatProperties
<1> QED
  BY <1>3 DEF Joined

(* The recursion that defines the data of a block.                         *)
LEMMA DataDef ==
  ASSUME NEW lines, IsLines(lines), NEW a \in Nat, a >= 1
  PROVE  \A n \in Nat :
           /\ RefData(lines, a, n) \in Seq(Chars)
           /\ n < a => RefData(lines, a, n) = << >>
           /\ n + 1 >= a =>
                /\ HasField(lines, n + 1, "data:") =>
                     RefData(lines, a, n + 1) =
                       Joined(RefData(lines, a, n), Value(lines[n + 1]))
                /\ ~HasField(lines, n + 1, "data:") =>
                     RefData(lines, a, n + 1) = RefData(lines, a, n)
<1> DEFINE Has(k) == HasField(lines, k, "data:")
           Join(d, v) == Joined(d, v)
           Defines(f) == f = [k \in Nat |->
                               IF k < a THEN << >>
                               ELSE IF Has(k) THEN Join(f[k - 1], Value(lines[k]))
                               ELSE f[k - 1]]
           V == Seq(Chars)
           none == << >>
           step == [p \in Nat \X V |->
                     IF p[1] + 1 >= a /\ Has(p[1] + 1)
                     THEN Join(p[2], Value(lines[p[1] + 1]))
                     ELSE p[2]]
           joined == CHOOSE f : Defines(f)
<1>0. none \in V
  OBVIOUS
<1>1. ASSUME NEW k \in Nat, NEW v \in V, Has(k)
      PROVE  Join(v, Value(lines[k])) \in V
  <2>1. lines[k] \in Seq(Symbols)
    BY <1>1 DEF IsLines, HasField
  <2>2. Value(lines[k]) \in Seq(Chars)
    BY <2>1, ValueTyped
  <2> QED
    BY <1>1, <2>2, JoinTyped
<1> HIDE DEF V, none, Has, Join
<1>2. step \in [Nat \X V -> V]
  <2>1. ASSUME NEW p \in Nat \X V
        PROVE  (IF p[1] + 1 >= a /\ Has(p[1] + 1)
                THEN Join(p[2], Value(lines[p[1] + 1])) ELSE p[2]) \in V
    <3>1. p[1] + 1 \in Nat /\ p[2] \in V
      OBVIOUS
    <3> QED
      BY <1>1, <3>1
  <2> QED
    BY <2>1
<1>3. \A n \in Nat, v \in V :
        step[<<n, v>>] = IF n + 1 >= a /\ Has(n + 1)
                         THEN Join(v, Value(lines[n + 1])) ELSE v
  OBVIOUS
<1> HIDE DEF step
<1>4. PICK f : IsRun(f, V, none, step)
  BY <1>0, <1>2, Recursion
<1>5. f \in [Nat -> V] /\ f[0] = none /\ \A n \in Nat : f[n + 1] = step[<<n, f[n]>>]
  BY <1>4 DEF IsRun
<1>6. \A n \in Nat : f[n + 1] = IF n + 1 >= a /\ Has(n + 1)
                                THEN Join(f[n], Value(lines[n + 1])) ELSE f[n]
  BY <1>3, <1>5
<1>7. \A n \in Nat : n < a => f[n] = << >>
  <2> DEFINE P == {n \in Nat : n < a => f[n] = << >>}
  <2>1. 0 \in P
    BY <1>5 DEF none
  <2>2. ASSUME NEW n \in Nat, n \in P PROVE n + 1 \in P
    <3> SUFFICES ASSUME n + 1 < a PROVE f[n + 1] = << >>
      OBVIOUS
    <3>1. n < a /\ ~(n + 1 >= a)
      OBVIOUS
    <3> QED
      BY <1>6, <2>2, <3>1
  <2>3. \A n \in Nat : n \in P
    <3> HIDE DEF P
    <3> QED
      BY <2>1, <2>2, Induction
  <2> QED
    BY <2>3
<1>8. Defines(f)
  <2>1. ASSUME NEW k \in Nat
        PROVE  f[k] = IF k < a THEN << >>
                      ELSE IF Has(k) THEN Join(f[k - 1], Value(lines[k]))
                      ELSE f[k - 1]
    <3>1. CASE k < a
      BY <1>7, <3>1
    <3>2. CASE ~(k < a)
      <4>1. k - 1 \in Nat /\ (k - 1) + 1 = k /\ k >= a
        BY <3>2
      <4>2. f[(k - 1) + 1] = IF (k - 1) + 1 >= a /\ Has((k - 1) + 1)
                             THEN Join(f[k - 1], Value(lines[(k - 1) + 1]))
                             ELSE f[k - 1]
        BY <1>6, <4>1
      <4> QED
        BY <3>2, <4>1, <4>2
    <3> QED
      BY <3>1, <3>2
  <2>2. f = [k \in Nat |-> f[k]]
    BY <1>5
  <2> QED
    BY <2>1, <2>2
<1>9. Defines(joined)
  <2> HIDE DEF Defines
  <2> QED
    BY <1>8, Zenon
<1>10. \A n : RefData(lines, a, n) = joined[n]
  BY Zenon DEF RefData, Has, Join
<1> HIDE DEF joined
<1>11. \A k \in Nat : joined[k] = IF k < a THEN << >>
                                 ELSE IF Has(k) THEN Join(joined[k - 1], Value(lines[k]))
                                 ELSE joined[k - 1]
  BY <1>9, Zenon
<1> HIDE DEF Defines
<1>12. ASSUME NEW n \in Nat
       PROVE  /\ n < a => joined[n] = << >>
              /\ n + 1 >= a =>
                   joined[n + 1] = IF Has(n + 1) THEN Join(joined[n], Value(lines[n + 1]))
                                   ELSE joined[n]
  <2>1. n + 1 \in Nat /\ (n + 1) - 1 = n /\ (n + 1 >= a => ~(n + 1 < a))
    OBVIOUS
  <2> QED
    BY <1>11, <2>1
<1>13. \A n \in Nat : joined[n] \in V
  <2> DEFINE P == {n \in Nat : joined[n] \in V}
  <2>1. 0 \in P
    BY <1>0, <1>12 DEF none
  <2>2. ASSUME NEW n \in Nat, n \in P PROVE n + 1 \in P
    <3>1. n + 1 \in Nat /\ joined[n] \in V
      BY <2>2
    <3>2. n + 1 < a => joined[n + 1] = << >>
      BY <1>12, <3>1
    <3>3. n + 1 >= a \/ n + 1 < a
      OBVIOUS
    <3>4. Has(n + 1) => Join(joined[n], Value(lines[n + 1])) \in V
      BY <1>1, <3>1
    <3> QED
      BY <1>0, <1>12, <3>1, <3>2, <3>3, <3>4 DEF none
  <2>3. \A n \in Nat : n \in P
    <3> HIDE DEF P
    <3> QED
      BY <2>1, <2>2, Induction
  <2> QED
    BY <2>3
<1> QED
  BY <1>10, <1>12, <1>13, Zenon DEF Has, Join, V

(* The recursion that defines the size counted.                            *)
Free(line) == line = << >> \/ line[1] = ":"

LEMMA CountDef ==
  ASSUME NEW lines, IsLines(lines), NEW a \in Nat, a >= 1
  PROVE  \A n \in Nat :
           /\ Counted(lines, a, n) \in Nat
           /\ n < a => Counted(lines, a, n) = 0
           /\ n + 1 >= a =>
                Counted(lines, a, n + 1) =
                  IF n + 1 \in DOMAIN lines /\ ~Free(lines[n + 1])
                  THEN Counted(lines, a, n) + Len(lines[n + 1])
                  ELSE Counted(lines, a, n)
<1> DEFINE Costs(k) == k \in DOMAIN lines /\ ~Free(lines[k])
           Size(k) == Len(lines[k])
           Defines(f) == f = [k \in Nat |->
                               IF k < a THEN 0
                               ELSE IF k \notin DOMAIN lines THEN f[k - 1]
                               ELSE IF lines[k] = << >> \/ lines[k][1] = ":" THEN f[k - 1]
                               ELSE f[k - 1] + Len(lines[k])]
           none == 0
           step == [p \in Nat \X Nat |->
                     IF p[1] + 1 >= a /\ Costs(p[1] + 1) THEN p[2] + Size(p[1] + 1)
                     ELSE p[2]]
           counted == CHOOSE f : Defines(f)
<1>0. none \in Nat
  OBVIOUS
<1>1. ASSUME NEW k \in Nat, Costs(k) PROVE Size(k) \in Nat
  <2>1. lines[k] \in Seq(Symbols)
    BY <1>1 DEF IsLines
  <2> QED
    BY <2>1, LenProperties
<1>a. \A f : Defines(f) <=> f = [k \in Nat |->
                               IF k < a THEN 0
                               ELSE IF Costs(k) THEN f[k - 1] + Size(k)
                               ELSE f[k - 1]]
  <2> DEFINE Here(f, k) == IF k < a THEN 0
                           ELSE IF k \notin DOMAIN lines THEN f[k - 1]
                           ELSE IF lines[k] = << >> \/ lines[k][1] = ":" THEN f[k - 1]
                           ELSE f[k - 1] + Len(lines[k])
             There(f, k) == IF k < a THEN 0
                            ELSE IF Costs(k) THEN f[k - 1] + Size(k) ELSE f[k - 1]
  <2>1. ASSUME NEW f, NEW k \in Nat PROVE Here(f, k) = There(f, k)
    BY Zenon DEF Free
  <2>2. ASSUME NEW f
        PROVE  f = [k \in Nat |-> Here(f, k)] <=> f = [k \in Nat |-> There(f, k)]
    <3> HIDE DEF Here, There
    <3> QED
      BY <2>1, Zenon
  <2> QED
    BY <2>2, Zenon
<1> HIDE DEF none, Costs, Size
<1>2. step \in [Nat \X Nat -> Nat]
  <2>1. ASSUME NEW p \in Nat \X Nat
        PROVE  (IF p[1] + 1 >= a /\ Costs(p[1] + 1) THEN p[2] + Size(p[1] + 1)
                ELSE p[2]) \in Nat
    <3>1. p[1] + 1 \in Nat /\ p[2] \in Nat
      OBVIOUS
    <3> QED
      BY <1>1, <3>1
  <2> QED
    BY <2>1
<1>3. \A n \in Nat, v \in Nat :
        step[<<n, v>>] = IF n + 1 >= a /\ Costs(n + 1) THEN v + Size(n + 1) ELSE v
  OBVIOUS
<1> HIDE DEF step
<1>4. PICK f : IsRun(f, Nat, none, step)
  BY <1>0, <1>2, Recursion
<1>5. f \in [Nat -> Nat] /\ f[0] = none /\ \A n \in Nat : f[n + 1] = step[<<n, f[n]>>]
  BY <1>4 DEF IsRun
<1>6. \A n \in Nat : f[n + 1] = IF n + 1 >= a /\ Costs(n + 1) THEN f[n] + Size(n + 1)
                                ELSE f[n]
  BY <1>3, <1>5
<1>7. \A n \in Nat : n < a => f[n] = 0
  <2> DEFINE P == {n \in Nat : n < a => f[n] = 0}
  <2>1. 0 \in P
    BY <1>5 DEF none
  <2>2. ASSUME NEW n \in Nat, n \in P PROVE n + 1 \in P
    <3> SUFFICES ASSUME n + 1 < a PROVE f[n + 1] = 0
      OBVIOUS
    <3>1. n < a /\ ~(n + 1 >= a)
      OBVIOUS
    <3> QED
      BY <1>6, <2>2, <3>1
  <2>3. \A n \in Nat : n \in P
    <3> HIDE DEF P
    <3> QED
      BY <2>1, <2>2, Induction
  <2> QED
    BY <2>3
<1>8. Defines(f)
  <2>1. ASSUME NEW k \in Nat
        PROVE  f[k] = IF k < a THEN 0
                      ELSE IF Costs(k) THEN f[k - 1] + Size(k)
                      ELSE f[k - 1]
    <3>1. CASE k < a
      BY <1>7, <3>1
    <3>2. CASE ~(k < a)
      <4>1. k - 1 \in Nat /\ (k - 1) + 1 = k /\ k >= a
        BY <3>2
      <4>2. f[(k - 1) + 1] = IF (k - 1) + 1 >= a /\ Costs((k - 1) + 1)
                             THEN f[k - 1] + Size((k - 1) + 1)
                             ELSE f[k - 1]
        BY <1>6, <4>1
      <4> QED
        BY <3>2, <4>1, <4>2
    <3> QED
      BY <3>1, <3>2
  <2>2. f = [k \in Nat |-> f[k]]
    BY <1>5
  <2> HIDE DEF Defines
  <2> QED
    BY <1>a, <2>1, <2>2
<1>9. Defines(counted)
  <2> HIDE DEF Defines
  <2> QED
    BY <1>8, Zenon
<1>10. \A n : Counted(lines, a, n) = counted[n]
  BY Zenon DEF Counted
<1> HIDE DEF counted, Defines
<1>11. \A k \in Nat : counted[k] = IF k < a THEN 0
                                  ELSE IF Costs(k) THEN counted[k - 1] + Size(k)
                                  ELSE counted[k - 1]
  <2>1. counted = [k \in Nat |-> IF k < a THEN 0
                                 ELSE IF Costs(k) THEN counted[k - 1] + Size(k)
                                 ELSE counted[k - 1]]
    BY <1>9, <1>a, Zenon
  <2> QED
    BY <2>1, Zenon
<1>12. ASSUME NEW n \in Nat
       PROVE  /\ n < a => counted[n] = 0
              /\ n + 1 >= a =>
                   counted[n + 1] = IF Costs(n + 1) THEN counted[n] + Size(n + 1)
                                    ELSE counted[n]
  <2>1. n + 1 \in Nat /\ (n + 1) - 1 = n /\ (n + 1 >= a => ~(n + 1 < a))
    OBVIOUS
  <2> QED
    BY <1>11, <2>1
<1>13. \A n \in Nat : counted[n] \in Nat
  <2> DEFINE P == {n \in Nat : counted[n] \in Nat}
  <2>1. 0 \in P
    BY <1>12
  <2>2. ASSUME NEW n \in Nat, n \in P PROVE n + 1 \in P
    <3>1. n + 1 \in Nat /\ counted[n] \in Nat
      BY <2>2
    <3>2. n + 1 < a => counted[n + 1] = 0
      BY <1>12, <3>1
    <3>3. n + 1 >= a \/ n + 1 < a
      OBVIOUS
    <3>4. Costs(n + 1) => counted[n] + Size(n + 1) \in Nat
      BY <1>1, <3>1
    <3> QED
      BY <1>12, <3>1, <3>2, <3>3, <3>4
  <2>3. \A n \in Nat : n \in P
    <3> HIDE DEF P
    <3> QED
      BY <2>1, <2>2, Induction
  <2> QED
    BY <2>3
<1> QED
  BY <1>10, <1>12, <1>13, Zenon DEF Costs, Size

(* The event of a block is that of its last line that names one.           *)
LEMMA EventDef ==
  ASSUME NEW lines, IsLines(lines), NEW a \in Nat, a >= 1
  PROVE  \A n \in Nat :
           /\ n < a => RefEvent(lines, a, n) = << >>
           /\ n + 1 >= a =>
                /\ HasField(lines, n + 1, "event:") =>
                     RefEvent(lines, a, n + 1) = Value(lines[n + 1])
                /\ ~HasField(lines, n + 1, "event:") =>
                     RefEvent(lines, a, n + 1) = RefEvent(lines, a, n)
<1> TAKE n \in Nat
<1> DEFINE Has(k) == HasField(lines, k, "event:")
           named(b) == {k \in a..b : Has(k)}
<1> HIDE DEF Has
<1>0. \A b : RefEvent(lines, a, b) =
              IF named(b) = {} THEN << >> ELSE Value(lines[Max(named(b))])
  BY Zenon DEF RefEvent, Has
<1>1. ASSUME n < a PROVE RefEvent(lines, a, n) = << >>
  <2>1. named(n) = {}
    BY <1>1
  <2> QED
    BY <1>0, <2>1, Zenon
<1>2. ASSUME n + 1 >= a, Has(n + 1)
      PROVE  RefEvent(lines, a, n + 1) = Value(lines[n + 1])
  <2> DEFINE last == CHOOSE x \in named(n + 1) : \A y \in named(n + 1) : x >= y
  <2>1. /\ n + 1 \in named(n + 1)
        /\ \A y \in named(n + 1) : y \in Nat /\ n + 1 >= y
    BY <1>2
  <2>2. last \in named(n + 1) /\ \A y \in named(n + 1) : last >= y
    <3> HIDE DEF named
    <3> QED
      BY <2>1, Zenon
  <2>3. last = n + 1
    <3> HIDE DEF last, named
    <3> QED
      BY <2>1, <2>2
  <2>4. named(n + 1) # {} /\ Max(named(n + 1)) = last
    <3>1. named(n + 1) # {}
      BY <2>1
    <3> HIDE DEF named
    <3> QED
      BY <3>1, Zenon DEF Max
  <2> HIDE DEF last, named
  <2> QED
    BY <1>0, <2>3, <2>4
<1>3. ASSUME n + 1 >= a, ~Has(n + 1)
      PROVE  RefEvent(lines, a, n + 1) = RefEvent(lines, a, n)
  <2>1. named(n + 1) = named(n)
    BY <1>3
  <2> HIDE DEF named
  <2> QED
    BY <1>0, <2>1
<1> QED
  BY <1>1, <1>2, <1>3 DEF Has

(***************************************************************************)
(* All of it depends on the lines so far only.                             *)
(***************************************************************************)
SameLines(L, M, p) ==
  \A k \in Nat : k <= p =>
    /\ k \in DOMAIN L <=> k \in DOMAIN M
    /\ k \in DOMAIN L => L[k] = M[k]

LEMMA RangesAgree ==
  ASSUME NEW L, NEW M, IsLines(L), IsLines(M), NEW p \in Nat, SameLines(L, M, p),
         NEW a \in Nat, a >= 1
  PROVE  \A n \in Nat : n <= p =>
           /\ RefData(L, a, n) = RefData(M, a, n)
           /\ RefEvent(L, a, n) = RefEvent(M, a, n)
           /\ Counted(L, a, n) = Counted(M, a, n)
<1> DEFINE Same(n) == /\ RefData(L, a, n) = RefData(M, a, n)
                      /\ RefEvent(L, a, n) = RefEvent(M, a, n)
                      /\ Counted(L, a, n) = Counted(M, a, n)
           P == {n \in Nat : n <= p => Same(n)}
<1>1. ASSUME NEW n \in Nat, n < a PROVE Same(n)
  <2>1. RefData(L, a, n) = << >> /\ RefData(M, a, n) = << >>
    BY <1>1, DataDef
  <2>2. RefEvent(L, a, n) = << >> /\ RefEvent(M, a, n) = << >>
    BY <1>1, EventDef
  <2>3. Counted(L, a, n) = 0 /\ Counted(M, a, n) = 0
    BY <1>1, CountDef
  <2> QED
    BY <2>1, <2>2, <2>3
<1>2. ASSUME NEW n \in Nat, n + 1 <= p, n + 1 >= a, Same(n) PROVE Same(n + 1)
  <2>1. /\ n + 1 \in DOMAIN L <=> n + 1 \in DOMAIN M
        /\ n + 1 \in DOMAIN L => L[n + 1] = M[n + 1]
    BY <1>2 DEF SameLines
  <2>2. \A prefix : HasField(L, n + 1, prefix) <=> HasField(M, n + 1, prefix)
    BY <2>1, Zenon DEF HasField
  <2>3. \A prefix : HasField(L, n + 1, prefix) => L[n + 1] = M[n + 1]
    BY <2>1, Zenon DEF HasField
  <2>4. RefData(L, a, n + 1) = RefData(M, a, n + 1)
    <3>1. /\ HasField(L, n + 1, "data:") => RefData(L, a, n + 1) =
                                             Joined(RefData(L, a, n), Value(L[n + 1]))
          /\ ~HasField(L, n + 1, "data:") => RefData(L, a, n + 1) = RefData(L, a, n)
      BY <1>2, DataDef
    <3>2. /\ HasField(M, n + 1, "data:") => RefData(M, a, n + 1) =
                                             Joined(RefData(M, a, n), Value(M[n + 1]))
          /\ ~HasField(M, n + 1, "data:") => RefData(M, a, n + 1) = RefData(M, a, n)
      BY <1>2, DataDef
    <3> QED
      BY <1>2, <2>2, <2>3, <3>1, <3>2, Zenon
  <2>5. RefEvent(L, a, n + 1) = RefEvent(M, a, n + 1)
    <3>1. /\ HasField(L, n + 1, "event:") => RefEvent(L, a, n + 1) = Value(L[n + 1])
          /\ ~HasField(L, n + 1, "event:") => RefEvent(L, a, n + 1) = RefEvent(L, a, n)
      BY <1>2, EventDef
    <3>2. /\ HasField(M, n + 1, "event:") => RefEvent(M, a, n + 1) = Value(M[n + 1])
          /\ ~HasField(M, n + 1, "event:") => RefEvent(M, a, n + 1) = RefEvent(M, a, n)
      BY <1>2, EventDef
    <3> QED
      BY <1>2, <2>2, <2>3, <3>1, <3>2, Zenon
  <2>6. Counted(L, a, n + 1) = Counted(M, a, n + 1)
    <3>1. Counted(L, a, n + 1) = IF n + 1 \in DOMAIN L /\ ~Free(L[n + 1])
                                 THEN Counted(L, a, n) + Len(L[n + 1])
                                 ELSE Counted(L, a, n)
      BY <1>2, CountDef
    <3>2. Counted(M, a, n + 1) = IF n + 1 \in DOMAIN M /\ ~Free(M[n + 1])
                                 THEN Counted(M, a, n) + Len(M[n + 1])
                                 ELSE Counted(M, a, n)
      BY <1>2, CountDef
    <3> QED
      BY <1>2, <2>1, <3>1, <3>2
  <2> QED
    BY <2>4, <2>5, <2>6
<1> HIDE DEF Same
<1>3. 0 \in P
  BY <1>1
<1>4. ASSUME NEW n \in Nat, n \in P PROVE n + 1 \in P
  <2>1. n + 1 <= p => n <= p
    OBVIOUS
  <2>2. n + 1 < a \/ n + 1 >= a
    OBVIOUS
  <2> QED
    BY <1>1, <1>2, <1>4, <2>1, <2>2
<1>5. \A n \in Nat : n \in P
  <2> HIDE DEF P
  <2> QED
    BY <1>3, <1>4, Induction
<1> QED
  BY <1>5 DEF Same

(* A frame of the reference is a frame.                                    *)
LEMMA RefFrameTyped ==
  ASSUME NEW lines, IsLines(lines)
  PROVE  /\ \A k \in Nat : k >= 1 => RefFrame(lines, k) \in Frame
         /\ \A n \in Nat : FramesUpTo(lines, n) \in Seq(Frame)
<1>1. ASSUME NEW a \in Nat, a >= 1
      PROVE  \A n \in Nat : RefEvent(lines, a, n) \in Seq(Chars)
  <2> DEFINE P == {n \in Nat : RefEvent(lines, a, n) \in Seq(Chars)}
  <2>1. 0 \in P
    <3>1. RefEvent(lines, a, 0) = << >> /\ << >> \in Seq(Chars)
      BY <1>1, EventDef
    <3> QED
      BY <3>1
  <2>2. ASSUME NEW n \in Nat, n \in P PROVE n + 1 \in P
    <3>1. HasField(lines, n + 1, "event:") => Value(lines[n + 1]) \in Seq(Chars)
      BY ValueTyped DEF HasField, IsLines
    <3>2. /\ n + 1 < a => RefEvent(lines, a, n + 1) = << >>
          /\ n + 1 >= a =>
               /\ HasField(lines, n + 1, "event:") =>
                    RefEvent(lines, a, n + 1) = Value(lines[n + 1])
               /\ ~HasField(lines, n + 1, "event:") =>
                    RefEvent(lines, a, n + 1) = RefEvent(lines, a, n)
      BY <1>1, EventDef
    <3>3. n + 1 < a \/ n + 1 >= a
      BY <1>1
    <3>4. << >> \in Seq(Chars)
      OBVIOUS
    <3>5. RefEvent(lines, a, n) \in Seq(Chars)
      BY <2>2
    <3>6. RefEvent(lines, a, n + 1) \in Seq(Chars)
      BY <3>1, <3>2, <3>3, <3>4, <3>5, Zenon
    <3> QED
      BY <3>6
  <2>3. \A n \in Nat : n \in P
    <3> HIDE DEF P
    <3> QED
      BY <2>1, <2>2, Induction
  <2> QED
    BY <2>3
<1>2. ASSUME NEW k \in Nat, k >= 1 PROVE RefFrame(lines, k) \in Frame
  <2> DEFINE start == PartStart(BlankLines(lines), k)
  <2>1. BlankLines(lines) \in SUBSET Nat
    BY DEF BlankLines, IsLines
  <2>2. start \in Nat /\ start >= 1
    BY <2>1, PartStartBounds
  <2>3. k - 1 \in Nat
    BY <1>2
  <2> HIDE DEF start
  <2>4. RefEvent(lines, start, k - 1) \in Seq(Chars)
    BY <1>1, <2>2, <2>3
  <2>5. RefData(lines, start, k - 1) \in Seq(Chars)
    BY <2>2, <2>3, DataDef
  <2>6. RefFrame(lines, k) = [event |-> RefEvent(lines, start, k - 1),
                              data |-> RefData(lines, start, k - 1)]
    BY Zenon DEF RefFrame, start
  <2> QED
    BY <2>4, <2>5, <2>6 DEF Frame
<1>3. ASSUME NEW n \in Nat PROVE FramesUpTo(lines, n) \in Seq(Frame)
  <2> DEFINE table == [k \in FrameEnds(lines) |-> RefFrame(lines, k)]
  <2>1. \A k \in FrameEnds(lines) : table[k] \in Frame
    <3>1. \A k \in FrameEnds(lines) : k \in Nat /\ k >= 1
      BY DEF FrameEnds, BlankLines, IsLines
    <3> QED
      BY <1>2, <3>1
  <2> HIDE DEF table
  <2>2. ElementsUpTo(table, FrameEnds(lines), n) \in Seq(Frame)
    BY <2>1, ElementsIn
  <2> QED
    BY <2>2, Zenon DEF FramesUpTo, table
<1> QED
  BY <1>2, <1>3

LEMMA FramesAgree ==
  ASSUME NEW L, NEW M, IsLines(L), IsLines(M), NEW p \in Nat, SameLines(L, M, p)
  PROVE  /\ \A k \in Nat : k >= 1 /\ k <= p + 1 =>
              RefFrame(L, k) = RefFrame(M, k) /\ CountStart(L, k) = CountStart(M, k)
         /\ \A k \in Nat : k <= p =>
              /\ k \in Oversized(L) <=> k \in Oversized(M)
              /\ FramesUpTo(L, k) = FramesUpTo(M, k)
<1>0. /\ BlankLines(L) \in SUBSET Nat /\ BlankLines(M) \in SUBSET Nat
      /\ FrameEnds(L) \in SUBSET Nat /\ FrameEnds(M) \in SUBSET Nat
      /\ \A k \in Nat : k \in DOMAIN L \/ k \in DOMAIN M => k >= 1
  BY DEF FrameEnds, BlankLines, IsLines
<1>1. \A k \in Nat : k <= p => (k \in BlankLines(L) <=> k \in BlankLines(M))
  BY DEF SameLines, BlankLines
<1>2. ASSUME NEW k \in Nat, k >= 1, k <= p + 1 PROVE RefFrame(L, k) = RefFrame(M, k)
  <2>1. \A j \in Nat : j < k => (j \in BlankLines(L) <=> j \in BlankLines(M))
    BY <1>1, <1>2
  <2>2. PartStart(BlankLines(L), k) = PartStart(BlankLines(M), k)
    BY <1>0, <2>1, PartStartAgree
  <2> DEFINE start == PartStart(BlankLines(L), k)
  <2>3. start \in Nat /\ start >= 1 /\ k - 1 \in Nat /\ k - 1 <= p
    BY <1>0, <1>2, PartStartBounds
  <2> HIDE DEF start
  <2>4. /\ RefData(L, start, k - 1) = RefData(M, start, k - 1)
        /\ RefEvent(L, start, k - 1) = RefEvent(M, start, k - 1)
    BY <2>3, RangesAgree
  <2> QED
    BY <2>2, <2>4, Zenon DEF RefFrame, start
<1>3. ASSUME NEW k \in Nat, k <= p PROVE k \in FrameEnds(L) <=> k \in FrameEnds(M)
  <2>1. k \in BlankLines(L) <=> k \in BlankLines(M)
    BY <1>1, <1>3
  <2>2. k \in BlankLines(L) => RefFrame(L, k) = RefFrame(M, k)
    <3>1. k \in BlankLines(L) => k >= 1 /\ k <= p + 1
      BY <1>0, <1>3 DEF BlankLines
    <3> QED
      BY <1>2, <3>1
  <2> QED
    BY <2>1, <2>2, Zenon DEF FrameEnds
<1>4. ASSUME NEW k \in Nat, k >= 1, k <= p + 1 PROVE CountStart(L, k) = CountStart(M, k)
  <2>1. \A j \in Nat : j < k => (j \in FrameEnds(L) <=> j \in FrameEnds(M))
    BY <1>3, <1>4
  <2> QED
    BY <1>0, <2>1, PartStartAgree DEF CountStart
<1>5. ASSUME NEW k \in Nat, k <= p PROVE k \in Oversized(L) <=> k \in Oversized(M)
  <2>1. k \in DOMAIN L <=> k \in DOMAIN M
    BY <1>5 DEF SameLines
  <2>2. k \in DOMAIN L => Counted(L, CountStart(L, k), k) = Counted(M, CountStart(M, k), k)
    <3> SUFFICES ASSUME k \in DOMAIN L
                 PROVE  Counted(L, CountStart(L, k), k) = Counted(M, CountStart(M, k), k)
      OBVIOUS
    <3>1. k >= 1 /\ k <= p + 1
      BY <1>0, <1>5
    <3>2. CountStart(L, k) = CountStart(M, k)
      BY <1>4, <3>1
    <3> DEFINE start == CountStart(L, k)
    <3>3. start \in Nat /\ start >= 1
      BY <1>0, PartStartBounds DEF CountStart
    <3> HIDE DEF start
    <3>4. Counted(L, start, k) = Counted(M, start, k)
      BY <1>5, <3>3, RangesAgree
    <3> QED
      BY <3>2, <3>4, Zenon DEF start
  <2> QED
    BY <2>1, <2>2, Zenon DEF Oversized
<1>6. ASSUME NEW n \in Nat, n <= p PROVE FramesUpTo(L, n) = FramesUpTo(M, n)
  <2> DEFINE s == [k \in FrameEnds(L) |-> RefFrame(L, k)]
             t == [k \in FrameEnds(M) |-> RefFrame(M, k)]
  <2>1. SameUpTo(s, FrameEnds(L), t, FrameEnds(M), n)
    <3> SUFFICES ASSUME NEW i \in 1..n
                 PROVE  /\ i \in FrameEnds(L) <=> i \in FrameEnds(M)
                        /\ i \in FrameEnds(L) => s[i] = t[i]
      BY DEF SameUpTo
    <3>1. i \in Nat /\ i >= 1 /\ i <= p /\ i <= p + 1
      BY <1>6
    <3>2. (i \in FrameEnds(L) <=> i \in FrameEnds(M)) /\ RefFrame(L, i) = RefFrame(M, i)
      BY <1>2, <1>3, <3>1
    <3> QED
      BY <3>2
  <2> HIDE DEF s, t
  <2>2. ElementsUpTo(s, FrameEnds(L), n) = ElementsUpTo(t, FrameEnds(M), n)
    BY <2>1, ElementsAgree
  <2> QED
    BY <2>2, Zenon DEF FramesUpTo, s, t
<1> QED
  BY <1>2, <1>4, <1>5, <1>6

(* The frame of the lines up to a position.                                *)
LEMMA OpenFrame ==
  ASSUME NEW lines, NEW n \in Nat
  PROVE  RefFrame(lines, n + 1) =
           [event |-> RefEvent(lines, PartStart(BlankLines(lines), n + 1), n),
            data  |-> RefData(lines, PartStart(BlankLines(lines), n + 1), n)]
<1>1. (n + 1) - 1 = n
  OBVIOUS
<1> QED
  BY <1>1, Zenon DEF RefFrame

(***************************************************************************)
(* A scanner that has consumed the lines up to p tracks the reference: it  *)
(* holds the open block, the size counted since the last frame, has handed *)
(* out the frames that ended, and has met nothing oversized.               *)
(***************************************************************************)
Tracks(c, fs, lines, p) ==
  /\ FrameOf(c) = RefFrame(lines, p + 1)
  /\ c.size = Counted(lines, CountStart(lines, p + 1), p)
  /\ fs = FramesUpTo(lines, p)
  /\ \A k \in Oversized(lines) : k > p

(* It depends on the lines consumed only.                                  *)
LEMMA TracksAgree ==
  ASSUME NEW L, NEW M, IsLines(L), IsLines(M), NEW p \in Nat, SameLines(L, M, p),
         NEW c, NEW fs, Tracks(c, fs, L, p)
  PROVE  Tracks(c, fs, M, p)
<1> DEFINE start == CountStart(L, p + 1)
<1>1. /\ RefFrame(L, p + 1) = RefFrame(M, p + 1)
      /\ start = CountStart(M, p + 1)
      /\ FramesUpTo(L, p) = FramesUpTo(M, p)
  BY FramesAgree
<1>2. Counted(L, start, p) = Counted(M, start, p)
  <2>1. FrameEnds(L) \in SUBSET Nat
    BY DEF FrameEnds, BlankLines, IsLines
  <2>2. start \in Nat /\ start >= 1
    BY <2>1, PartStartBounds DEF CountStart
  <2> HIDE DEF start
  <2> QED
    BY <2>2, RangesAgree
<1>3. ASSUME NEW k \in Oversized(M) PROVE k > p
  <2>1. k \in Nat
    BY DEF Oversized, IsLines
  <2>2. k <= p => k \in Oversized(L)
    BY <2>1, FramesAgree
  <2> QED
    BY <2>1, <2>2 DEF Tracks
<1> QED
  BY <1>1, <1>2, <1>3, Zenon DEF Tracks

(* A position where no line ends changes nothing.                          *)
LEMMA TracksGap ==
  ASSUME NEW lines, IsLines(lines), NEW c, NEW fs, NEW p \in Nat,
         Tracks(c, fs, lines, p), NEW q \in Nat, p <= q,
         \A k \in (p + 1)..q : k \notin DOMAIN lines
  PROVE  Tracks(c, fs, lines, q)
<1> DEFINE P == {n \in Nat : p <= n /\ n <= q => Tracks(c, fs, lines, n)}
<1>0. /\ BlankLines(lines) \in SUBSET Nat /\ FrameEnds(lines) \in SUBSET Nat
      /\ \A k \in Nat : k \notin DOMAIN lines =>
            k \notin BlankLines(lines) /\ k \notin FrameEnds(lines)
  BY DEF FrameEnds, BlankLines, IsLines
<1>1. 0 \in P
  <2>1. p <= 0 => p = 0
    OBVIOUS
  <2> QED
    BY <2>1
<1>2. ASSUME NEW n \in Nat, n + 1 \notin DOMAIN lines, Tracks(c, fs, lines, n)
      PROVE  Tracks(c, fs, lines, n + 1)
  <2> DEFINE start == PartStart(BlankLines(lines), n + 1)
             from == CountStart(lines, n + 1)
             table == [k \in FrameEnds(lines) |-> RefFrame(lines, k)]
  <2>1. n + 1 \in Nat /\ (n + 1) - 1 = n /\ (n + 1) + 1 - 1 = n + 1 /\ n + 1 >= 1
    OBVIOUS
  <2>2. /\ PartStart(BlankLines(lines), (n + 1) + 1) = start
        /\ CountStart(lines, (n + 1) + 1) = from
    BY <1>0, <1>2, <2>1, PartStartStep DEF CountStart
  <2>3. /\ start \in Nat /\ start >= 1 /\ n + 1 >= start
        /\ from \in Nat /\ from >= 1 /\ n + 1 >= from
    BY <1>0, <2>1, PartStartBounds DEF CountStart
  <2> HIDE DEF start, from, table
  <2>4. \A prefix : ~HasField(lines, n + 1, prefix)
    BY <1>2, Zenon DEF HasField
  <2>5. /\ RefEvent(lines, start, n + 1) = RefEvent(lines, start, n)
        /\ RefData(lines, start, n + 1) = RefData(lines, start, n)
    <3>1. RefEvent(lines, start, n + 1) = RefEvent(lines, start, n)
      BY <2>3, <2>4, EventDef
    <3>2. RefData(lines, start, n + 1) = RefData(lines, start, n)
      BY <2>3, <2>4, DataDef
    <3> QED
      BY <3>1, <3>2
  <2>6. RefFrame(lines, (n + 1) + 1) = RefFrame(lines, n + 1)
    <3>1. RefFrame(lines, n + 1) = [event |-> RefEvent(lines, start, n),
                                    data |-> RefData(lines, start, n)]
      BY OpenFrame, Zenon DEF start
    <3>2. RefFrame(lines, (n + 1) + 1) = [event |-> RefEvent(lines, start, n + 1),
                                          data |-> RefData(lines, start, n + 1)]
      BY <2>1, <2>2, OpenFrame, Zenon
    <3> QED
      BY <2>5, <3>1, <3>2, Zenon
  <2>7. Counted(lines, from, n + 1) = Counted(lines, from, n)
    BY <1>2, <2>3, CountDef
  <2>8. FramesUpTo(lines, n + 1) = FramesUpTo(lines, n)
    <3>1. ElementsUpTo(table, FrameEnds(lines), n + 1) =
            ElementsUpTo(table, FrameEnds(lines), n)
      BY <1>0, <1>2, ElementsStep
    <3> QED
      BY <3>1, Zenon DEF FramesUpTo, table
  <2>9. \A k \in Oversized(lines) : k > n + 1
    <3>1. \A k \in Oversized(lines) : k \in Nat /\ k \in DOMAIN lines /\ k > n
      BY <1>2 DEF Tracks, Oversized, IsLines
    <3> QED
      BY <1>2, <3>1
  <2> QED
    BY <1>2, <2>2, <2>6, <2>7, <2>8, <2>9, Zenon DEF Tracks, from
<1>3. ASSUME NEW n \in Nat, n \in P PROVE n + 1 \in P
  <2> SUFFICES ASSUME p <= n + 1, n + 1 <= q PROVE Tracks(c, fs, lines, n + 1)
    OBVIOUS
  <2>1. CASE p = n + 1
    BY <2>1
  <2>2. CASE p <= n
    <3>1. n + 1 \in (p + 1)..q /\ Tracks(c, fs, lines, n)
      BY <1>3, <2>2
    <3> QED
      BY <1>2, <3>1
  <2> QED
    BY <2>1, <2>2
<1>4. \A n \in Nat : n \in P
  <2> HIDE DEF P
  <2> QED
    BY <1>1, <1>3, Induction
<1> QED
  BY <1>4

(* Consuming the next line keeps the track, or meets an oversized run.     *)
LEMMA TracksBlank ==
  ASSUME NEW lines, IsLines(lines), NEW c \in Partial, c.size <= MaxFrame,
         NEW fs \in Seq(Frame), NEW p \in Nat, Tracks(c, fs, lines, p),
         p + 1 \in DOMAIN lines, lines[p + 1] = << >>
  PROVE  LET result == ConsumeLine(c, << >>)
         IN  result.ok /\ Tracks(result.cur, fs \o result.frames, lines, p + 1)
<1> DEFINE q == p + 1
           result == ConsumeLine(c, << >>)
           frame == RefFrame(lines, q)
           from == CountStart(lines, q)
           table == [k \in FrameEnds(lines) |-> RefFrame(lines, k)]
<1>0. /\ BlankLines(lines) \in SUBSET Nat /\ FrameEnds(lines) \in SUBSET Nat
      /\ q \in Nat /\ q >= 1 /\ q + 1 \in Nat
  BY DEF FrameEnds, BlankLines, IsLines
<1>1. q \in BlankLines(lines) /\ (q \in FrameEnds(lines) <=> ~IsBlank(frame))
  <2>1. q \in BlankLines(lines)
    BY DEF BlankLines
  <2> QED
    BY <2>1, Zenon DEF FrameEnds
<1>2. /\ FrameOf(c) = frame /\ c.size = Counted(lines, from, p)
      /\ fs = FramesUpTo(lines, p) /\ \A k \in Oversized(lines) : k > p
  BY Zenon DEF Tracks
<1>3. IsBlank(frame) <=> IsBlank(c)
  <2>1. frame = FrameOf(c)
    BY <1>2
  <2> HIDE DEF frame
  <2>2. frame.event = c.event /\ frame.data = c.data
    BY <2>1 DEF FrameOf
  <2> QED
    BY <2>2, Zenon DEF IsBlank
<1>4. RefFrame(lines, q + 1) = [event |-> << >>, data |-> << >>]
  <2>1. PartStart(BlankLines(lines), q + 1) = q + 1
    BY <1>0, <1>1, PartStartStep
  <2>2. q < q + 1 /\ q + 1 >= 1
    BY <1>0
  <2> HIDE DEF q
  <2>3. RefEvent(lines, q + 1, q) = << >> /\ RefData(lines, q + 1, q) = << >>
    BY <1>0, <2>2, EventDef, DataDef
  <2> QED
    BY <1>0, <2>1, <2>3, OpenFrame, Zenon
<1>5. from \in Nat /\ from >= 1 /\ q >= from
  BY <1>0, PartStartBounds DEF CountStart
<1>6. Counted(lines, from, q) = Counted(lines, from, p)
  <2> HIDE DEF from
  <2>1. Free(lines[q])
    BY DEF Free
  <2> QED
    BY <1>5, <2>1, CountDef
<1>7. \A k \in Oversized(lines) : k > q
  <2>1. q \notin Oversized(lines)
    BY <1>2, <1>6, MaxFrameAssumption DEF Oversized, Partial
  <2>2. \A k \in Oversized(lines) : k \in Nat /\ k > p
    BY <1>2 DEF Oversized, IsLines
  <2> QED
    BY <2>1, <2>2
<1>8. result = [cur    |-> IF IsBlank(c) THEN c ELSE EmptyFrame,
                frames |-> IF IsBlank(c) THEN << >> ELSE <<FrameOf(c)>>,
                ok     |-> TRUE]
  BY DEF ConsumeLine
<1> HIDE DEF result, frame, table, from, q
<1>9. /\ q \in FrameEnds(lines) =>
            /\ FramesUpTo(lines, q) = Append(FramesUpTo(lines, p), frame)
            /\ CountStart(lines, q + 1) = q + 1
      /\ q \notin FrameEnds(lines) =>
            /\ FramesUpTo(lines, q) = FramesUpTo(lines, p)
            /\ CountStart(lines, q + 1) = from
  <2>1. /\ q \in FrameEnds(lines) =>
             ElementsUpTo(table, FrameEnds(lines), q) =
               Append(ElementsUpTo(table, FrameEnds(lines), p), table[q])
        /\ q \notin FrameEnds(lines) =>
             ElementsUpTo(table, FrameEnds(lines), q) =
               ElementsUpTo(table, FrameEnds(lines), p)
    BY ElementsStep DEF q
  <2>2. q \in FrameEnds(lines) => table[q] = frame
    BY DEF table, frame
  <2>3. /\ q \in FrameEnds(lines) => PartStart(FrameEnds(lines), q + 1) = q + 1
        /\ q \notin FrameEnds(lines) =>
             PartStart(FrameEnds(lines), q + 1) = PartStart(FrameEnds(lines), q)
    BY <1>0, PartStartStep
  <2> QED
    BY <2>1, <2>2, <2>3, Zenon DEF FramesUpTo, CountStart, table, from
<1>10. CASE IsBlank(c)
  <2>1. result.ok /\ result.cur = c /\ result.frames = << >>
    BY <1>8, <1>10
  <2>2. fs \o << >> = fs
    BY ConcatEmptySeq
  <2>3. FrameOf(c) = RefFrame(lines, q + 1)
    BY <1>4, <1>10 DEF FrameOf, IsBlank
  <2>4. q \notin FrameEnds(lines)
    BY <1>1, <1>3, <1>10 DEF frame
  <2>5. Tracks(c, fs, lines, q)
    BY <1>2, <1>6, <1>7, <1>9, <2>3, <2>4, Zenon DEF Tracks
  <2> QED
    BY <2>1, <2>2, <2>5, Zenon DEF result, q
<1>11. CASE ~IsBlank(c)
  <2>1. result.ok /\ result.cur = EmptyFrame /\ result.frames = <<frame>>
    BY <1>2, <1>8, <1>11
  <2>2. FrameOf(EmptyFrame) = RefFrame(lines, q + 1) /\ EmptyFrame.size = 0
    BY <1>4 DEF FrameOf, EmptyFrame
  <2>3. q \in FrameEnds(lines)
    BY <1>1, <1>3, <1>11 DEF frame
  <2>4. Counted(lines, q + 1, q) = 0
    <3>1. q < q + 1 /\ q + 1 >= 1
      BY <1>0
    <3> QED
      BY <1>0, <3>1, CountDef
  <2>5. fs \o <<frame>> = FramesUpTo(lines, q)
    <3>1. frame \in Frame
      BY <1>0, RefFrameTyped DEF frame
    <3>2. Append(fs, frame) = fs \o <<frame>>
      BY <3>1, AppendIsConcat
    <3> QED
      BY <1>2, <1>9, <2>3, <3>2, Zenon
  <2>6. Tracks(EmptyFrame, fs \o <<frame>>, lines, q)
    BY <1>7, <1>9, <2>2, <2>3, <2>4, <2>5, Zenon DEF Tracks
  <2> QED
    BY <2>1, <2>6, Zenon DEF result, q
<1> QED
  BY <1>10, <1>11

LEMMA TracksText ==
  ASSUME NEW lines, IsLines(lines), NEW c \in Partial, c.size <= MaxFrame,
         NEW fs, NEW p \in Nat, Tracks(c, fs, lines, p),
         NEW line \in Seq(Symbols), line # << >>,
         p + 1 \in DOMAIN lines, lines[p + 1] = line
  PROVE  LET result == ConsumeLine(c, line)
         IN  /\ result.frames = << >>
             /\ result.ok => Tracks(result.cur, fs, lines, p + 1)
             /\ ~result.ok => p + 1 \in Oversized(lines)
<1> DEFINE q == p + 1
           result == ConsumeLine(c, line)
           start == PartStart(BlankLines(lines), q)
           from == CountStart(lines, q)
           table == [k \in FrameEnds(lines) |-> RefFrame(lines, k)]
<1>0. /\ BlankLines(lines) \in SUBSET Nat /\ FrameEnds(lines) \in SUBSET Nat
      /\ q \in Nat /\ q >= 1 /\ q + 1 \in Nat /\ Len(line) \in Nat
  BY LenProperties DEF FrameEnds, BlankLines, IsLines
<1>1. q \notin BlankLines(lines) /\ q \notin FrameEnds(lines)
  BY DEF BlankLines, FrameEnds
<1>2. /\ FrameOf(c) = RefFrame(lines, q) /\ c.size = Counted(lines, from, p)
      /\ fs = FramesUpTo(lines, p) /\ \A k \in Oversized(lines) : k > p
  BY Zenon DEF Tracks
<1>3. /\ start \in Nat /\ start >= 1 /\ q >= start
      /\ from \in Nat /\ from >= 1 /\ q >= from
  BY <1>0, PartStartBounds DEF CountStart
<1>4. PartStart(BlankLines(lines), q + 1) = start /\ CountStart(lines, q + 1) = from
  BY <1>0, <1>1, PartStartStep DEF CountStart
<1>5. FramesUpTo(lines, q) = FramesUpTo(lines, p)
  <2> HIDE DEF table
  <2>1. ElementsUpTo(table, FrameEnds(lines), q) = ElementsUpTo(table, FrameEnds(lines), p)
    BY <1>1, ElementsStep
  <2> QED
    BY <2>1, Zenon DEF FramesUpTo, table
<1>6. \A prefix : HasField(lines, q, prefix) <=> line[1] = prefix
  BY DEF HasField
<1>7. /\ line[1] = "event:" => RefEvent(lines, start, q) = Value(line)
      /\ line[1] # "event:" => RefEvent(lines, start, q) = RefEvent(lines, start, p)
  <2>1. /\ HasField(lines, q, "event:") => RefEvent(lines, start, q) = Value(lines[q])
        /\ ~HasField(lines, q, "event:") => RefEvent(lines, start, q) = RefEvent(lines, start, p)
    <3> HIDE DEF start
    <3> QED
      BY <1>3, EventDef
  <2> QED
    BY <1>6, <2>1, Zenon
<1>8. /\ line[1] = "data:" =>
            RefData(lines, start, q) = Joined(RefData(lines, start, p), Value(line))
      /\ line[1] # "data:" => RefData(lines, start, q) = RefData(lines, start, p)
  <2>1. /\ HasField(lines, q, "data:") =>
             RefData(lines, start, q) = Joined(RefData(lines, start, p), Value(lines[q]))
        /\ ~HasField(lines, q, "data:") => RefData(lines, start, q) = RefData(lines, start, p)
    <3> HIDE DEF start
    <3> QED
      BY <1>3, DataDef
  <2> QED
    BY <1>6, <2>1, Zenon
<1>9. Counted(lines, from, q) = IF line[1] = ":" THEN c.size ELSE c.size + Len(line)
  <2> HIDE DEF from
  <2>1. Counted(lines, from, q) = IF q \in DOMAIN lines /\ ~Free(lines[q])
                                  THEN Counted(lines, from, p) + Len(lines[q])
                                  ELSE Counted(lines, from, p)
    BY <1>3, CountDef
  <2>2. Free(lines[q]) <=> line[1] = ":"
    BY DEF Free
  <2> QED
    BY <1>2, <2>1, <2>2, Zenon
<1>10. /\ c.event = RefEvent(lines, start, p) /\ c.data = RefData(lines, start, p)
  <2>1. FrameOf(c) = [event |-> RefEvent(lines, start, p), data |-> RefData(lines, start, p)]
    BY <1>2, OpenFrame, Zenon
  <2> QED
    BY <2>1 DEF FrameOf
<1>11. RefFrame(lines, q + 1) = [event |-> RefEvent(lines, start, q),
                                 data |-> RefData(lines, start, q)]
  BY <1>0, <1>4, OpenFrame, Zenon
<1>12. q \in Oversized(lines) <=> Counted(lines, from, q) > MaxFrame
  BY Zenon DEF Oversized
<1>13. ASSUME NEW d \in Partial, d.event = RefEvent(lines, start, q),
              d.data = RefData(lines, start, q), d.size = Counted(lines, from, q),
              d.size <= MaxFrame
       PROVE  Tracks(d, fs, lines, q)
  <2>1. FrameOf(d) = RefFrame(lines, q + 1)
    BY <1>11, <1>13, Zenon DEF FrameOf
  <2>2. \A k \in Oversized(lines) : k \in Nat /\ k > p
    BY <1>2 DEF Oversized, IsLines
  <2>3. q \notin Oversized(lines)
    BY <1>12, <1>13, MaxFrameAssumption DEF Partial
  <2>4. \A k \in Oversized(lines) : k > q
    BY <2>2, <2>3
  <2> HIDE DEF q, from
  <2> QED
    BY <1>2, <1>4, <1>5, <1>13, <2>1, <2>4, Zenon DEF Tracks
<1>14. CASE line[1] = ":"
  <2>1. result = [cur |-> c, frames |-> << >>, ok |-> TRUE]
    BY <1>14 DEF ConsumeLine
  <2>2. Tracks(c, fs, lines, q)
    BY <1>7, <1>8, <1>9, <1>10, <1>13, <1>14
  <2> QED
    BY <2>1, <2>2
<1>15. CASE line[1] # ":" /\ c.size + Len(line) > MaxFrame
  <2>1. Grown(c, line).size = c.size + Len(line)
    BY DEF Grown, Partial
  <2>2. result = [cur |-> Grown(c, line), frames |-> << >>, ok |-> FALSE]
    BY <1>15, <2>1, Zenon DEF ConsumeLine
  <2>3. q \in Oversized(lines)
    BY <1>9, <1>12, <1>15
  <2> QED
    BY <2>2, <2>3
<1>16. CASE line[1] # ":" /\ ~(c.size + Len(line) > MaxFrame)
  <2> DEFINE g == Grown(c, line)
             d == StoreField(g, line)
  <2>1. /\ g \in Partial /\ g.size = c.size + Len(line)
        /\ g.event = c.event /\ g.data = c.data
    BY <1>0 DEF Grown, Partial
  <2>2. result = [cur |-> d, frames |-> << >>, ok |-> TRUE]
    BY <1>16, <2>1, Zenon DEF ConsumeLine
  <2> HIDE DEF g
  <2>3. Value(line) \in Seq(Chars) /\ g.data \in Seq(Chars)
    BY <2>1, ValueTyped DEF Partial
  <2>4. Joined(g.data, Value(line)) \in Seq(Chars)
    BY <2>3, JoinTyped
  <2>5. JoinData(g.data, Value(line)) = Joined(g.data, Value(line))
    BY Zenon DEF Joined, JoinData
  <2>6. /\ d \in Partial /\ d.size = g.size
        /\ d.event = IF line[1] = "event:" THEN Value(line) ELSE g.event
        /\ d.data = IF line[1] = "data:" THEN Joined(g.data, Value(line)) ELSE g.data
    <3>1. CASE line[1] = "event:"
      <4>1. d = [g EXCEPT !.event = Value(line)]
        BY <3>1 DEF StoreField
      <4> QED
        BY <2>1, <2>3, <3>1, <4>1 DEF Partial
    <3>2. CASE line[1] = "data:"
      <4>1. d = [g EXCEPT !.data = Joined(g.data, Value(line))]
        <5>1. d = [g EXCEPT !.data = JoinData(g.data, Value(line))]
          BY <3>2 DEF StoreField
        <5> QED
          BY <2>5, <5>1
      <4> QED
        BY <2>1, <2>4, <3>2, <4>1 DEF Partial
    <3>3. CASE line[1] # "event:" /\ line[1] # "data:"
      <4>1. d = g
        BY <3>3 DEF StoreField
      <4> QED
        BY <2>1, <3>3, <4>1
    <3> QED
      BY <3>1, <3>2, <3>3
  <2> HIDE DEF d
  <2>7. d.event = RefEvent(lines, start, q)
    BY <1>7, <1>10, <2>1, <2>6, Zenon
  <2>8. d.data = RefData(lines, start, q)
    BY <1>8, <1>10, <2>1, <2>6, Zenon
  <2>9. d.size = Counted(lines, from, q) /\ d.size <= MaxFrame
    BY <1>0, <1>9, <1>16, <2>1, <2>6, MaxFrameAssumption DEF Partial
  <2>10. Tracks(d, fs, lines, q)
    BY <1>13, <2>6, <2>7, <2>8, <2>9
  <2> QED
    BY <2>2, <2>10
<1> QED
  BY <1>14, <1>15, <1>16

(***************************************************************************)
(* The lines of a text, and the rest of it that the scanner holds.         *)
(***************************************************************************)

(* Equal stretches of two texts.                                           *)
SameStretch(s, a, b, t, c, d) ==
  /\ s \in Seq(Symbols) /\ a \in Int /\ b \in Int /\ a >= 1 /\ b <= Len(s)
  /\ t \in Seq(Symbols) /\ c \in Int /\ d \in Int /\ c >= 1 /\ d <= Len(t)
  /\ b - a = d - c /\ \A i \in 0..(b - a) : s[a + i] = t[c + i]

EqualStretch(s, a, b, t, c, d) == SubSeq(s, a, b) = SubSeq(t, c, d)

LEMMA SubSeqSame ==
  ASSUME NEW s, NEW a, NEW b, NEW t, NEW c, NEW d, SameStretch(s, a, b, t, c, d)
  PROVE  EqualStretch(s, a, b, t, c, d)
<1> DEFINE X == Symbols
<1> USE DEF SameStretch
<1>0. /\ Len(s) \in Nat /\ \A i \in 1..Len(s) : s[i] \in X
      /\ Len(t) \in Nat /\ \A i \in 1..Len(t) : t[i] \in X
  BY LenProperties, ElementOfSeq
<1>1. /\ \A i \in a..b : s[i] \in X
      /\ \A i \in c..d : t[i] \in X
  BY <1>0
<1> DEFINE u == SubSeq(s, a, b)
           v == SubSeq(t, c, d)
<1>2. /\ u \in Seq(X) /\ Len(u) = IF a <= b THEN b - a + 1 ELSE 0
      /\ \A i \in 1..(b - a + 1) : u[i] = s[a + i - 1]
  BY <1>1, SubSeqProperties
<1>3. /\ v \in Seq(X) /\ Len(v) = IF c <= d THEN d - c + 1 ELSE 0
      /\ \A i \in 1..(d - c + 1) : v[i] = t[c + i - 1]
  BY <1>1, SubSeqProperties
<1> HIDE DEF u, v
<1>4. Len(u) = Len(v)
  BY <1>2, <1>3
<1>5. ASSUME NEW i \in 1..Len(u) PROVE u[i] = v[i]
  <2>1. /\ i - 1 \in 0..(b - a) /\ i \in 1..(b - a + 1) /\ i \in 1..(d - c + 1)
        /\ a + i - 1 = a + (i - 1) /\ c + i - 1 = c + (i - 1)
    BY <1>2
  <2>2. s[a + (i - 1)] = t[c + (i - 1)]
    BY <2>1
  <2> QED
    BY <1>2, <1>3, <2>1, <2>2
<1>6. u = v
  BY <1>2, <1>3, <1>4, <1>5, SeqEqual
<1> QED
  BY <1>6, Zenon DEF u, v, EqualStretch

Rest(text, p) == SubSeq(text, p + 1, Len(text))

LEMMA RestOf ==
  ASSUME NEW text \in Seq(Symbols), NEW p \in 0..Len(text)
  PROVE  /\ Len(text) \in Nat /\ p \in Nat
         /\ Rest(text, p) \in Seq(Symbols)
         /\ Len(Rest(text, p)) = Len(text) - p
         /\ \A j \in 1..(Len(text) - p) : Rest(text, p)[j] = text[p + j]
<1>0. Len(text) \in Nat /\ \A i \in 1..Len(text) : text[i] \in Symbols
  BY LenProperties, ElementOfSeq
<1>1. \A i \in (p + 1)..Len(text) : text[i] \in Symbols
  BY <1>0
<1>2. /\ Rest(text, p) \in Seq(Symbols)
      /\ Len(Rest(text, p)) = IF p + 1 <= Len(text) THEN Len(text) - (p + 1) + 1 ELSE 0
      /\ \A i \in 1..(Len(text) - (p + 1) + 1) : Rest(text, p)[i] = text[(p + 1) + i - 1]
  BY <1>0, <1>1, SubSeqProperties DEF Rest
<1>3. \A j \in 1..(Len(text) - p) : Rest(text, p)[j] = text[p + j]
  <2> TAKE j \in 1..(Len(text) - p)
  <2>1. j \in 1..(Len(text) - (p + 1) + 1) /\ (p + 1) + j - 1 = p + j
    BY <1>0
  <2> QED
    BY <1>2, <2>1
<1> QED
  BY <1>0, <1>2, <1>3

LEMMA LinesTyped ==
  ASSUME NEW text \in Seq(Symbols)
  PROVE  /\ BreakEnds(text) \in SUBSET (Nat \ {0})
         /\ DOMAIN RefLines(text) = BreakEnds(text)
         /\ \A k \in BreakEnds(text) :
              /\ k \in 1..Len(text)
              /\ RefLines(text)[k] =
                   SubSeq(text, PartStart(BreakEnds(text), k), BeforeBreak(text, k))
         /\ IsLines(RefLines(text))
<1>0. Len(text) \in Nat /\ \A i \in 1..Len(text) : text[i] \in Symbols
  BY LenProperties, ElementOfSeq
<1> DEFINE ends == BreakEnds(text)
<1>1. ends \in SUBSET (Nat \ {0}) /\ \A k \in ends : k \in 1..Len(text)
  BY <1>0 DEF BreakEnds
<1> HIDE DEF ends
<1>2. RefLines(text) = [k \in ends |-> SubSeq(text, PartStart(ends, k), BeforeBreak(text, k))]
  BY Zenon DEF RefLines, ends
<1>3. ASSUME NEW k \in ends
      PROVE  SubSeq(text, PartStart(ends, k), BeforeBreak(text, k)) \in Seq(Symbols)
  <2> DEFINE a == PartStart(ends, k)
             b == BeforeBreak(text, k)
  <2>1. a \in Nat /\ a >= 1
    BY <1>1, PartStartBounds
  <2>2. b \in Int /\ b <= Len(text)
    BY <1>0, <1>1 DEF BeforeBreak
  <2> HIDE DEF a, b
  <2>3. \A i \in a..b : text[i] \in Symbols
    BY <1>0, <2>1, <2>2
  <2>4. SubSeq(text, a, b) \in Seq(Symbols)
    BY <2>1, <2>2, <2>3, SubSeqProperties
  <2> QED
    BY <2>4 DEF a, b
<1>4. IsLines(RefLines(text))
  BY <1>1, <1>2, <1>3 DEF IsLines
<1> QED
  BY <1>1, <1>2, <1>4 DEF ends

(* Text that arrives later does not change the lines already ended.        *)
LEMMA LinesKept ==
  ASSUME NEW text \in Seq(Symbols), NEW more \in Seq(Symbols),
         NEW p \in Nat, p = 0 \/ p \in BreakEnds(text)
  PROVE  SameLines(RefLines(text), RefLines(text \o more), p)
<1> DEFINE longer == text \o more
           ends == BreakEnds(text)
           ends2 == BreakEnds(longer)
<1>0. /\ Len(text) \in Nat /\ Len(more) \in Nat
      /\ longer \in Seq(Symbols) /\ Len(longer) = Len(text) + Len(more)
      /\ \A i \in 1..Len(text) : longer[i] = text[i]
  BY ConcatProperties, LenProperties
<1> HIDE DEF longer
<1>1. /\ ends \in SUBSET (Nat \ {0}) /\ ends2 \in SUBSET (Nat \ {0})
      /\ DOMAIN RefLines(text) = ends /\ DOMAIN RefLines(longer) = ends2
  BY <1>0, LinesTyped
<1>2. ASSUME NEW k \in Nat, k <= p PROVE k \in ends <=> k \in ends2
  <2>1. p = 0 \/ (p \in 1..Len(text) /\ (text[p] = LF \/ p < Len(text)))
    BY DEF BreakEnds
  <2>2. CASE k = 0
    BY <1>1, <2>2
  <2>3. CASE k >= 1 /\ k < Len(text)
    <3>1. /\ k \in 1..Len(text) /\ k + 1 \in 1..Len(text) /\ k \in 1..Len(longer)
          /\ k < Len(longer)
      BY <1>0, <2>3
    <3>2. longer[k] = text[k] /\ longer[k + 1] = text[k + 1]
      BY <1>0, <3>1
    <3> QED
      BY <2>3, <3>1, <3>2 DEF BreakEnds
  <2>4. CASE k >= 1 /\ k = Len(text)
    <3>1. text[k] = LF /\ k \in 1..Len(text) /\ k \in 1..Len(longer)
      BY <1>0, <1>2, <2>1, <2>4
    <3>2. longer[k] = LF
      BY <1>0, <3>1
    <3> QED
      BY <3>1, <3>2 DEF BreakEnds
  <2>5. k <= Len(text)
    BY <1>0, <1>2, <2>1
  <2> QED
    BY <1>0, <2>2, <2>3, <2>4, <2>5
<1>3. ASSUME NEW k \in Nat, k <= p, k \in ends
      PROVE  RefLines(text)[k] = RefLines(longer)[k]
  <2> DEFINE a == PartStart(ends, k)
             b == BeforeBreak(text, k)
  <2>1. k \in 1..Len(text) /\ RefLines(text)[k] = SubSeq(text, a, b)
    BY <1>3, LinesTyped
  <2>2. RefLines(longer)[k] = SubSeq(longer, PartStart(ends2, k), BeforeBreak(longer, k))
    BY <1>0, <1>2, <1>3, LinesTyped
  <2>3. PartStart(ends2, k) = a
    <3>1. \A j \in Nat : j < k => (j \in ends <=> j \in ends2)
      BY <1>2, <1>3
    <3>2. ends \in SUBSET Nat /\ ends2 \in SUBSET Nat
      BY <1>1
    <3> HIDE DEF ends, ends2
    <3> QED
      BY <3>1, <3>2, PartStartAgree
  <2>4. BeforeBreak(longer, k) = b
    <3>1. longer[k] = text[k] /\ (k > 1 => longer[k - 1] = text[k - 1])
      BY <1>0, <2>1
    <3> QED
      BY <3>1, Zenon DEF BeforeBreak
  <2>5. a \in Nat /\ a >= 1 /\ b \in Int /\ b <= Len(text) /\ b <= Len(longer)
    <3>1. a \in Nat /\ a >= 1
      <4>1. ends \in SUBSET Nat
        BY <1>1
      <4> QED
        BY <4>1, PartStartBounds
    <3>2. b \in Int /\ b <= Len(text)
      BY <1>0, <2>1 DEF BeforeBreak
    <3> QED
      BY <1>0, <3>1, <3>2
  <2> HIDE DEF a, b
  <2>6. SubSeq(longer, a, b) = SubSeq(text, a, b)
    <3>1. \A i \in 0..(b - a) : longer[a + i] = text[a + i]
      BY <1>0, <2>5
    <3>2. SameStretch(longer, a, b, text, a, b)
      BY <1>0, <2>5, <3>1 DEF SameStretch
    <3>3. EqualStretch(longer, a, b, text, a, b)
      BY <3>2, SubSeqSame
    <3> QED
      BY <3>3, Zenon DEF EqualStretch
  <2> QED
    BY <2>1, <2>2, <2>3, <2>4, <2>6
<1> QED
  BY <1>1, <1>2, <1>3 DEF SameLines, longer

(* Nothing of the text after p ends a line but the break found first.      *)
LEMMA NextBreak ==
  ASSUME NEW text \in Seq(Symbols), NEW p \in 0..Len(text),
         p = 0 \/ p \in BreakEnds(text),
         NEW i, IsFirstBreak(Rest(text, p), i), EndsLine(Rest(text, p), i)
  PROVE  LET q == p + Advance(Rest(text, p), i)
         IN  /\ Advance(Rest(text, p), i) \in {i, i + 1}
             /\ q \in Nat /\ p < q /\ q <= Len(text)
             /\ q \in BreakEnds(text)
             /\ \A k \in (p + 1)..(q - 1) : k \notin BreakEnds(text)
             /\ RefLines(text)[q] = SubSeq(Rest(text, p), 1, i - 1)
<1> DEFINE rest == Rest(text, p)
           q == p + Advance(rest, i)
<1>0. /\ Len(text) \in Nat /\ p \in Nat /\ rest \in Seq(Symbols)
      /\ Len(rest) = Len(text) - p
      /\ \A j \in 1..(Len(text) - p) : rest[j] = text[p + j]
  BY RestOf
<1> HIDE DEF rest
<1>1. /\ i \in 1..Len(rest) /\ i \in Nat /\ p + i \in 1..Len(text)
      /\ text[p + i] = rest[i] /\ (rest[i] = CR \/ rest[i] = LF)
      /\ rest[i] = LF \/ p + i < Len(text)
      /\ \A k \in (p + 1)..(p + i - 1) : text[k] # CR /\ text[k] # LF
  <2>1. /\ i \in 1..Len(rest) /\ (rest[i] = CR \/ rest[i] = LF)
        /\ rest[i] = LF \/ i < Len(rest)
        /\ \A j \in 1..(i - 1) : rest[j] # CR /\ rest[j] # LF
    BY DEF IsFirstBreak, EndsLine, IsBreak, rest
  <2>2. \A k \in (p + 1)..(p + i - 1) : text[k] # CR /\ text[k] # LF
    <3> TAKE k \in (p + 1)..(p + i - 1)
    <3>1. k - p \in 1..(i - 1) /\ k - p \in 1..(Len(text) - p) /\ p + (k - p) = k
      BY <1>0, <2>1
    <3> QED
      BY <1>0, <2>1, <3>1
  <2> QED
    BY <1>0, <2>1, <2>2
<1>2. CR # LF
  BY DEF CR, LF
<1>3. /\ rest[i] = CR /\ text[p + i + 1] = LF => q = p + i + 1
      /\ ~(rest[i] = CR /\ text[p + i + 1] = LF) => q = p + i
  <2>1. i < Len(rest) => rest[i + 1] = text[p + i + 1]
    BY <1>0, <1>1
  <2> QED
    BY <1>0, <1>1, <1>2, <2>1 DEF Advance
<1>4. q \in Nat /\ p < q /\ q <= Len(text)
  BY <1>0, <1>1, <1>2, <1>3
<1>5. q \in BreakEnds(text)
  BY <1>0, <1>1, <1>2, <1>3, <1>4 DEF BreakEnds
<1>6. \A k \in (p + 1)..(q - 1) : k \notin BreakEnds(text)
  <2> TAKE k \in (p + 1)..(q - 1)
  <2>1. CASE k <= p + i - 1
    <3>1. k \in (p + 1)..(p + i - 1)
      BY <1>0, <1>1, <2>1
    <3>2. text[k] # CR /\ text[k] # LF
      BY <1>1, <3>1
    <3> QED
      BY <3>2 DEF BreakEnds
  <2>2. CASE ~(k <= p + i - 1)
    <3>1. k = p + i /\ rest[i] = CR /\ text[p + i + 1] = LF
      BY <1>0, <1>1, <1>3, <2>2
    <3>2. text[k] = CR /\ text[k + 1] = LF
      BY <1>1, <3>1
    <3> QED
      BY <1>2, <3>2 DEF BreakEnds
  <2> QED
    BY <2>1, <2>2
<1>7. RefLines(text)[q] = SubSeq(rest, 1, i - 1)
  <2>1. RefLines(text)[q] = SubSeq(text, PartStart(BreakEnds(text), q), BeforeBreak(text, q))
    BY <1>5, LinesTyped
  <2>2. PartStart(BreakEnds(text), q) = p + 1
    <3>1. BreakEnds(text) \in SUBSET (Nat \ {0})
      BY LinesTyped
    <3> HIDE DEF q
    <3> QED
      BY <1>0, <1>4, <1>6, <3>1, PartStartGap
  <2>3. BeforeBreak(text, q) = p + i - 1
    <3>1. CASE rest[i] = CR /\ text[p + i + 1] = LF
      BY <1>0, <1>1, <1>3, <3>1 DEF BeforeBreak
    <3>2. CASE rest[i] = CR /\ text[p + i + 1] # LF
      BY <1>0, <1>1, <1>2, <1>3, <3>2 DEF BeforeBreak
    <3>3. CASE rest[i] = LF
      <4>1. q = p + i /\ text[q] = LF
        BY <1>1, <1>2, <1>3, <3>3
      <4>2. q > 1 => text[q - 1] # CR
        <5>1. CASE i > 1
          BY <1>0, <1>1, <4>1, <5>1
        <5>2. CASE i = 1
          BY <1>0, <1>1, <1>2, <4>1, <5>2 DEF BreakEnds
        <5> QED
          BY <1>1, <5>1, <5>2
      <4> QED
        BY <1>0, <1>1, <4>1, <4>2 DEF BeforeBreak
    <3> QED
      BY <1>1, <3>1, <3>2, <3>3
  <2>4. SubSeq(text, p + 1, p + i - 1) = SubSeq(rest, 1, i - 1)
    <3> DEFINE a == p + 1
               b == p + i - 1
               d == i - 1
    <3>1. /\ a \in Int /\ b \in Int /\ d \in Int
          /\ a >= 1 /\ b <= Len(text) /\ d <= Len(rest) /\ b - a = d - 1
      BY <1>0, <1>1
    <3>2. \A j \in 0..(b - a) : text[a + j] = rest[1 + j]
      BY <1>0, <1>1
    <3> HIDE DEF a, b, d
    <3>3. SameStretch(text, a, b, rest, 1, d)
      BY <1>0, <3>1, <3>2 DEF SameStretch
    <3>4. EqualStretch(text, a, b, rest, 1, d)
      BY <3>3, SubSeqSame
    <3> QED
      BY <3>4, Zenon DEF EqualStretch, a, b, d
  <2> QED
    BY <2>1, <2>2, <2>3, <2>4
<1>8. Advance(rest, i) \in {i, i + 1}
  BY DEF Advance
<1> QED
  BY <1>4, <1>5, <1>6, <1>7, <1>8 DEF rest

(* A rest without a complete line ends none of the text's lines.           *)
Unfinished(rest) ==
  \A i \in 1..Len(rest) : IsBreak(rest[i]) => i = Len(rest) /\ rest[i] = CR

LEMMA NoMoreBreaks ==
  ASSUME NEW text \in Seq(Symbols), NEW p \in 0..Len(text), Unfinished(Rest(text, p))
  PROVE  \A k \in (p + 1)..Len(text) : k \notin BreakEnds(text)
<1> DEFINE rest == Rest(text, p)
<1>0. /\ Len(text) \in Nat /\ p \in Nat /\ Len(rest) = Len(text) - p
      /\ \A j \in 1..(Len(text) - p) : rest[j] = text[p + j]
  BY RestOf
<1>1. \A i \in 1..Len(rest) : IsBreak(rest[i]) => i = Len(rest) /\ rest[i] = CR
  BY DEF Unfinished
<1> HIDE DEF rest
<1> SUFFICES ASSUME NEW k \in (p + 1)..Len(text), k \in BreakEnds(text) PROVE FALSE
  OBVIOUS
<1>2. k - p \in 1..Len(rest) /\ rest[k - p] = text[k]
  <2>1. k - p \in 1..(Len(text) - p) /\ p + (k - p) = k
    BY <1>0
  <2> QED
    BY <1>0, <2>1
<1>3. IsBreak(text[k]) /\ (text[k] = CR => k < Len(text))
  BY DEF BreakEnds, IsBreak, CR, LF
<1>4. k - p = Len(rest) /\ text[k] = CR
  BY <1>1, <1>2, <1>3
<1> QED
  BY <1>0, <1>3, <1>4

(* What close() makes of the rest of the text: its last line, and the end  *)
(* of its block.                                                           *)
LEMMA LastLines ==
  ASSUME NEW text \in Seq(Symbols), NEW p \in 0..Len(text),
         p = 0 \/ p \in BreakEnds(text), Unfinished(Rest(text, p))
  PROVE  LET longer == text \o <<LF, LF>>
             n == Len(text)
         IN  /\ longer \in Seq(Symbols) /\ Len(longer) = n + 2
             /\ n + 1 \in BreakEnds(longer) /\ n + 2 \in BreakEnds(longer)
             /\ \A k \in (p + 1)..n : k \notin BreakEnds(longer)
             /\ RefLines(longer)[n + 1] = StripTrailingCr(Rest(text, p))
             /\ RefLines(longer)[n + 2] = << >>
<1> DEFINE rest == Rest(text, p)
           two == <<LF, LF>>
           longer == text \o two
           n == Len(text)
           ends == BreakEnds(longer)
<1>0. /\ n \in Nat /\ p \in Nat /\ p <= n /\ rest \in Seq(Symbols) /\ Len(rest) = n - p
      /\ \A j \in 1..(n - p) : rest[j] = text[p + j]
  BY RestOf
<1>1. two \in Seq(Symbols) /\ Len(two) = 2 /\ two[1] = LF /\ two[2] = LF
  BY DEF Symbols
<1> HIDE DEF two
<1>2. /\ longer \in Seq(Symbols) /\ Len(longer) = n + 2
      /\ \A i \in 1..n : longer[i] = text[i]
      /\ longer[n + 1] = LF /\ longer[n + 2] = LF
  <2>1. /\ longer \in Seq(Symbols) /\ Len(longer) = Len(text) + Len(two)
        /\ \A i \in 1..Len(text) : longer[i] = text[i]
        /\ \A i \in 1..Len(two) : longer[Len(text) + i] = two[i]
    BY <1>1, ConcatProperties
  <2>2. 1 \in 1..Len(two) /\ 2 \in 1..Len(two)
    BY <1>1
  <2> HIDE DEF longer
  <2> QED
    BY <1>0, <1>1, <2>1, <2>2
<1>3. SameLines(RefLines(text), RefLines(longer), p)
  BY <1>0, <1>1, LinesKept
<1> HIDE DEF longer, rest
<1>4. CR # LF
  BY DEF CR, LF
<1>5. n + 1 \in ends /\ n + 2 \in ends
  BY <1>0, <1>2 DEF BreakEnds
<1>6. \A k \in (p + 1)..n : k \notin ends
  <2> SUFFICES ASSUME NEW k \in (p + 1)..n, k \in ends PROVE FALSE
    OBVIOUS
  <2>1. k \notin BreakEnds(text) /\ k \in 1..n
    BY <1>0, NoMoreBreaks
  <2>2. longer[k] = text[k] /\ (k < n => longer[k + 1] = text[k + 1])
    BY <1>0, <1>2, <2>1
  <2>3. CASE k < n
    BY <1>0, <1>2, <2>1, <2>2, <2>3 DEF BreakEnds
  <2>4. CASE k = n
    BY <1>0, <1>2, <1>4, <2>1, <2>2, <2>4 DEF BreakEnds
  <2> QED
    BY <1>0, <2>3, <2>4
<1>7. ends \in SUBSET (Nat \ {0}) /\ (p = 0 \/ p \in ends)
  <2>1. ends \in SUBSET (Nat \ {0})
    BY <1>2, LinesTyped
  <2>2. DOMAIN RefLines(text) = BreakEnds(text) /\ DOMAIN RefLines(longer) = ends
    BY <1>2, LinesTyped
  <2>3. p \in DOMAIN RefLines(text) <=> p \in DOMAIN RefLines(longer)
    BY <1>0, <1>3 DEF SameLines
  <2> QED
    BY <2>1, <2>2, <2>3
<1>8. \A k \in ends : RefLines(longer)[k] =
                        SubSeq(longer, PartStart(ends, k), BeforeBreak(longer, k))
  BY <1>2, LinesTyped
<1> HIDE DEF ends
<1>9. RefLines(longer)[n + 1] = StripTrailingCr(rest)
  <2> DEFINE b == BeforeBreak(longer, n + 1)
             a == p + 1
  <2>1. PartStart(ends, n + 1) = a
    <3>1. /\ n + 1 \in Nat /\ p < n + 1
          /\ \A j \in (p + 1)..((n + 1) - 1) : j \notin ends
      BY <1>0, <1>6
    <3> QED
      BY <1>0, <1>7, <3>1, PartStartGap
  <2>2. b = IF n + 1 > 1 /\ longer[n] = CR THEN n - 1 ELSE n
    BY <1>0, <1>2 DEF BeforeBreak
  <2> HIDE DEF b
  <2>3. RefLines(longer)[n + 1] = SubSeq(longer, a, b)
    BY <1>5, <1>8, <2>1 DEF b
  <2>4. CASE rest = << >>
    <3>1. p = n
      BY <1>0, <2>4, EmptySeq
    <3>2. n >= 1 => longer[n] = LF
      BY <1>0, <1>2, <1>4, <3>1 DEF BreakEnds
    <3>3. b = n /\ b < a /\ a \in Int /\ b \in Int
      BY <1>0, <1>4, <2>2, <3>1, <3>2
    <3>4. SubSeq(longer, a, b) = << >>
      BY <3>3, SubSeqEmpty
    <3>5. StripTrailingCr(rest) = << >>
      BY <2>4 DEF StripTrailingCr
    <3> QED
      BY <2>3, <3>4, <3>5
  <2>5. CASE rest # << >>
    <3>0. p < n /\ n >= 1
      BY <1>0, <2>5, EmptySeq
    <3>1. rest[Len(rest)] = longer[n]
      BY <1>0, <1>2, <3>0
    <3> DEFINE d == b - p
    <3>2. StripTrailingCr(rest) = SubSeq(rest, 1, d)
      <4>1. CASE longer[n] = CR
        <5>1. d = Len(rest) - 1
          BY <1>0, <2>2, <3>0, <4>1
        <5> QED
          BY <2>5, <3>1, <4>1, <5>1, Zenon DEF StripTrailingCr
      <4>2. CASE longer[n] # CR
        <5>1. d = Len(rest)
          BY <1>0, <2>2, <3>0, <4>2
        <5>2. SubSeq(rest, 1, Len(rest)) = rest
          BY <1>0, SubSeqFull
        <5>3. StripTrailingCr(rest) = rest
          BY <3>1, <4>2, Zenon DEF StripTrailingCr
        <5> QED
          BY <5>1, <5>2, <5>3, Zenon
      <4> QED
        BY <4>1, <4>2
    <3>3. /\ a \in Int /\ b \in Int /\ d \in Int /\ a >= 1 /\ b <= n
          /\ d <= Len(rest) /\ b - a = d - 1
      BY <1>0, <2>2, <3>0
    <3>4. \A i \in 0..(b - a) : longer[a + i] = rest[1 + i]
      BY <1>0, <1>2, <3>3
    <3> HIDE DEF a, d
    <3>5. SameStretch(longer, a, b, rest, 1, d)
      BY <1>0, <1>2, <3>3, <3>4 DEF SameStretch
    <3>6. EqualStretch(longer, a, b, rest, 1, d)
      BY <3>5, SubSeqSame
    <3> QED
      BY <2>3, <3>2, <3>6, Zenon DEF EqualStretch
  <2> QED
    BY <2>4, <2>5
<1>10. RefLines(longer)[n + 2] = << >>
  <2>1. PartStart(ends, n + 2) = n + 2
    <3>1. /\ n + 1 \in Nat /\ n + 2 \in Nat /\ n + 1 < n + 2 /\ (n + 1) + 1 = n + 2
          /\ \A j \in ((n + 1) + 1)..((n + 2) - 1) : j \notin ends
      BY <1>0
    <3>2. PartStart(ends, n + 2) = (n + 1) + 1
      BY <1>5, <1>7, <3>1, PartStartGap
    <3> QED
      BY <3>1, <3>2
  <2>2. BeforeBreak(longer, n + 2) = n + 1
    BY <1>0, <1>2, <1>4 DEF BeforeBreak
  <2>3. RefLines(longer)[n + 2] = SubSeq(longer, n + 2, n + 1)
    BY <1>5, <1>8, <2>1, <2>2
  <2>4. SubSeq(longer, n + 2, n + 1) = << >>
    BY <1>0, SubSeqEmpty
  <2> QED
    BY <2>3, <2>4
<1> QED
  BY <1>2, <1>5, <1>6, <1>9, <1>10 DEF longer, rest, two, ends

(***************************************************************************)
(* The inductive invariant: what is in the buffer is the rest of the text  *)
(* after some line break, and the scanner tracks the reference up to it.   *)
(***************************************************************************)
TrackedTo(text, rest, c, fs, p) ==
  /\ p = 0 \/ p \in BreakEnds(text)
  /\ rest = Rest(text, p)
  /\ Tracks(c, fs, RefLines(text), p)

TextInv ==
  /\ ~closed /\ phase # "failed" => \E p \in 0..Len(fed) :
                                TrackedTo(fed, buf, cur, yielded \o out, p)
  /\ phase = "idle" => out = << >>
  /\ closed \/ phase = "failed" => ChunkIndependent

(* With no complete line left, everything received is tracked.             *)
LEMMA AllTracked ==
  ASSUME NEW text \in Seq(Symbols), NEW p \in 0..Len(text), Unfinished(Rest(text, p)),
         NEW c, NEW fs, Tracks(c, fs, RefLines(text), p)
  PROVE  fs = RefFrames(text) /\ Oversized(RefLines(text)) = {}
<1>0. /\ Len(text) \in Nat /\ p \in Nat /\ p <= Len(text)
      /\ IsLines(RefLines(text)) /\ DOMAIN RefLines(text) = BreakEnds(text)
      /\ \A k \in BreakEnds(text) : k \in 1..Len(text)
  BY RestOf, LinesTyped
<1>1. \A k \in (p + 1)..Len(text) : k \notin DOMAIN RefLines(text)
  BY <1>0, NoMoreBreaks
<1>2. Tracks(c, fs, RefLines(text), Len(text))
  BY <1>0, <1>1, TracksGap
<1>3. fs = RefFrames(text)
  BY <1>2, Zenon DEF Tracks, RefFrames
<1>4. \A k \in Oversized(RefLines(text)) : k > Len(text) /\ k \in 1..Len(text)
  BY <1>0, <1>2 DEF Tracks, Oversized
<1>5. Oversized(RefLines(text)) = {}
  BY <1>0, <1>4
<1> QED
  BY <1>3, <1>5

LEMMA TextInit == Init => TextInv
<1> SUFFICES ASSUME Init PROVE TextInv
  OBVIOUS
<1>1. /\ fed = << >> /\ buf = << >> /\ yielded = << >> /\ out = << >>
      /\ cur = EmptyFrame /\ closed = FALSE /\ phase = "idle"
  BY DEF Init
<1> DEFINE lines == RefLines(<< >>)
           frames == FrameEnds(lines)
           blanks == BlankLines(lines)
<1>2. << >> \in Seq(Symbols) /\ Len(<< >>) = 0
  OBVIOUS
<1>3. IsLines(lines) /\ DOMAIN lines = {}
  <2>1. BreakEnds(<< >>) = {}
    BY DEF BreakEnds
  <2> QED
    BY <1>2, <2>1, LinesTyped
<1> HIDE DEF lines
<1>4. blanks = {} /\ frames = {} /\ Oversized(lines) = {}
  BY <1>3 DEF BlankLines, FrameEnds, Oversized
<1>5. PartStart(blanks, 1) = 1 /\ CountStart(lines, 1) = 1
  <2>1. \A S : S = {} => PartStart(S, 1) = 1
    BY DEF PartStart
  <2> QED
    BY <1>4, <2>1, Zenon DEF CountStart
<1>6. /\ RefEvent(lines, 1, 0) = << >> /\ RefData(lines, 1, 0) = << >>
      /\ Counted(lines, 1, 0) = 0
  BY <1>3, EventDef, DataDef, CountDef
<1>7. RefFrame(lines, 1) = [event |-> << >>, data |-> << >>]
  <2>1. RefFrame(lines, 0 + 1) = [event |-> RefEvent(lines, PartStart(blanks, 0 + 1), 0),
                                  data |-> RefData(lines, PartStart(blanks, 0 + 1), 0)]
    BY OpenFrame, Zenon
  <2>2. 0 + 1 = 1
    OBVIOUS
  <2> QED
    BY <1>5, <1>6, <2>1, <2>2, Zenon
<1>8. FramesUpTo(lines, 0) = << >>
  BY ElementsNone, Zenon DEF FramesUpTo
<1>9. Tracks(EmptyFrame, << >>, lines, 0)
  <2>1. FrameOf(EmptyFrame) = [event |-> << >>, data |-> << >>] /\ EmptyFrame.size = 0
    BY DEF FrameOf, EmptyFrame
  <2>2. 0 + 1 = 1
    OBVIOUS
  <2> QED
    BY <1>4, <1>5, <1>6, <1>7, <1>8, <2>1, <2>2, Zenon DEF Tracks
<1>10. << >> \o << >> = << >> /\ Rest(<< >>, 0) = << >>
  <2>1. << >> \o << >> = << >>
    BY <1>2, ConcatEmptySeq
  <2>2. Rest(<< >>, 0) = << >>
    BY <1>2, SubSeqEmpty DEF Rest
  <2> QED
    BY <2>1, <2>2
<1>11. TrackedTo(fed, buf, cur, yielded \o out, 0)
  BY <1>1, <1>9, <1>10, Zenon DEF TrackedTo, lines
<1>12. 0 \in 0..Len(fed)
  BY <1>1
<1> QED
  BY <1>1, <1>11, <1>12 DEF TextInv

(* A sequence begins what it is extended to.                               *)
LEMMA PrefixOfConcat ==
  ASSUME NEW X, NEW s \in Seq(X), NEW t \in Seq(X)
  PROVE  IsPrefix(s, s \o t)
<1> DEFINE whole == s \o t
<1>1. /\ Len(s) \in Nat /\ Len(t) \in Nat /\ whole \in Seq(X)
      /\ Len(whole) = Len(s) + Len(t) /\ \A i \in 1..Len(s) : whole[i] = s[i]
  BY ConcatProperties, LenProperties
<1>2. \A i \in 1..Len(s) : s[i] \in X
  BY ElementOfSeq
<1> DEFINE u == SubSeq(s, 1, Len(s))
           v == SubSeq(whole, 1, Len(s))
<1>3. u = s
  BY SubSeqFull
<1> HIDE DEF whole
<1>4. \A i \in 1..Len(s) : whole[i] \in X
  BY <1>1, <1>2
<1>5. /\ v \in Seq(X) /\ Len(v) = IF 1 <= Len(s) THEN Len(s) - 1 + 1 ELSE 0
      /\ \A i \in 1..(Len(s) - 1 + 1) : v[i] = whole[1 + i - 1]
  BY <1>1, <1>4, SubSeqProperties
<1> HIDE DEF u, v
<1>6. Len(s) = Len(v) /\ \A i \in 1..Len(s) : s[i] = v[i]
  <2>1. Len(s) \in Nat /\ \A i \in 1..Len(s) : whole[i] = s[i]
    BY <1>1
  <2>2. Len(s) = Len(v)
    BY <1>5, <2>1
  <2>3. ASSUME NEW i \in 1..Len(s) PROVE s[i] = v[i]
    <3>1. i \in 1..(Len(s) - 1 + 1) /\ 1 + i - 1 = i
      BY <2>1
    <3>2. v[i] = whole[1 + i - 1]
      BY <1>5, <3>1
    <3> QED
      BY <2>1, <3>1, <3>2
  <2> QED
    BY <2>2, <2>3
<1>7. s = v
  BY <1>5, <1>6, SeqEqual
<1>8. Len(s) <= Len(whole)
  BY <1>1
<1> QED
  BY <1>3, <1>7, <1>8, Zenon DEF IsPrefix, u, v, whole

(* A chunk only adds to the text behind the tracked lines.                 *)
LEMMA ChunkTracked ==
  ASSUME NEW text \in Seq(Symbols), NEW chunk \in Seq(Symbols), NEW rest, NEW c, NEW fs,
         NEW p \in 0..Len(text), TrackedTo(text, rest, c, fs, p)
  PROVE  /\ p \in 0..Len(text \o chunk)
         /\ TrackedTo(text \o chunk, rest \o chunk, c, fs, p)
<1> DEFINE longer == text \o chunk
<1>5. /\ Len(text) \in Nat /\ p \in Nat /\ p <= Len(text)
      /\ longer \in Seq(Symbols) /\ Len(longer) = Len(text) + Len(chunk)
      /\ Len(chunk) \in Nat
      /\ \A i \in 1..Len(text) : longer[i] = text[i]
      /\ \A i \in 1..Len(chunk) : longer[Len(text) + i] = chunk[i]
  BY ConcatProperties, LenProperties
<1>6. SameLines(RefLines(text), RefLines(longer), p)
  BY <1>5, LinesKept DEF TrackedTo
<1>0. rest = Rest(text, p)
  BY DEF TrackedTo
<1>1. /\ rest \in Seq(Symbols) /\ Len(rest) = Len(text) - p
      /\ \A j \in 1..(Len(text) - p) : rest[j] = text[p + j]
  BY <1>0, RestOf
<1> HIDE DEF longer
<1>7. IsLines(RefLines(text)) /\ IsLines(RefLines(longer))
  BY <1>5, LinesTyped
<1>8. p = 0 \/ p \in BreakEnds(longer)
  <2>1. /\ DOMAIN RefLines(text) = BreakEnds(text)
        /\ DOMAIN RefLines(longer) = BreakEnds(longer)
    BY <1>5, LinesTyped
  <2>2. p \in BreakEnds(text) => p \in BreakEnds(longer)
    BY <1>5, <1>6, <2>1 DEF SameLines
  <2> QED
    BY <2>2 DEF TrackedTo
<1>9. Tracks(c, fs, RefLines(longer), p)
  <2>1. Tracks(c, fs, RefLines(text), p)
    BY DEF TrackedTo
  <2> QED
    BY <1>5, <1>6, <1>7, <2>1, TracksAgree
<1>11. p \in 0..Len(longer)
  BY <1>5
<1>10. rest \o chunk = Rest(longer, p)
  <2> DEFINE a == rest \o chunk
             b == Rest(longer, p)
  <2>2. /\ a \in Seq(Symbols) /\ Len(a) = Len(rest) + Len(chunk)
        /\ \A i \in 1..Len(rest) : a[i] = rest[i]
        /\ \A i \in 1..Len(chunk) : a[Len(rest) + i] = chunk[i]
    <3>1. rest \in Seq(Symbols)
      BY <1>1
    <3> QED
      BY <3>1, ConcatProperties
  <2>4. /\ b \in Seq(Symbols) /\ Len(b) = Len(longer) - p
        /\ \A j \in 1..(Len(longer) - p) : b[j] = longer[p + j]
    BY <1>5, <1>11, RestOf
  <2> HIDE DEF a, b
  <2>5. Len(a) = Len(b)
    BY <1>1, <1>5, <2>2, <2>4
  <2>6. ASSUME NEW j \in 1..Len(a) PROVE a[j] = b[j]
    <3>1. j \in Nat /\ j \in 1..(Len(longer) - p) /\ b[j] = longer[p + j]
      BY <2>2, <2>4, <2>5, LenProperties
    <3>2. CASE j <= Len(rest)
      <4>1. j \in 1..Len(rest) /\ j \in 1..(Len(text) - p) /\ p + j \in 1..Len(text)
        BY <1>1, <1>5, <3>1, <3>2
      <4> QED
        BY <1>1, <1>5, <2>2, <3>1, <4>1
    <3>3. CASE ~(j <= Len(rest))
      <4> DEFINE i == j - Len(rest)
      <4>1. i \in 1..Len(chunk) /\ Len(rest) + i = j /\ Len(text) + i = p + j
        BY <1>1, <1>5, <2>2, <3>1, <3>3
      <4> HIDE DEF i
      <4> QED
        BY <1>5, <2>2, <3>1, <4>1
    <3> QED
      BY <3>2, <3>3
  <2>7. a = b
    BY <2>2, <2>4, <2>5, <2>6, SeqEqual
  <2> QED
    BY <2>7 DEF a, b
<1> QED
  BY <1>8, <1>9, <1>10, <1>11, Zenon DEF TrackedTo, longer

(* The frames of a whole text begin with those up to any position.         *)
LEMMA FramesExtend ==
  ASSUME NEW text \in Seq(Symbols), NEW p \in 0..Len(text)
  PROVE  Extends(Frame, FramesUpTo(RefLines(text), p), RefFrames(text))
<1> DEFINE lines == RefLines(text)
           table == [k \in FrameEnds(lines) |-> RefFrame(lines, k)]
<1>1. IsLines(lines) /\ DOMAIN lines = BreakEnds(text)
  BY LinesTyped
<1>2. p \in Nat /\ Len(text) \in Nat /\ p <= Len(text)
  BY LenProperties
<1> HIDE DEF lines
<1>3. \A k \in FrameEnds(lines) : table[k] \in Frame
  <2>1. \A k \in FrameEnds(lines) : k \in Nat /\ k >= 1
    BY <1>1 DEF FrameEnds, BlankLines, IsLines
  <2> QED
    BY <1>1, <2>1, RefFrameTyped
<1> HIDE DEF table
<1> DEFINE ends == FrameEnds(lines)
<1> HIDE DEF ends
<1>4. \A k \in ends : table[k] \in Frame
  BY <1>3 DEF ends
<1>5. Extends(Frame, ElementsUpTo(table, ends, p), ElementsUpTo(table, ends, Len(text)))
  BY <1>2, <1>4, ElementsGrow
<1> QED
  BY <1>5, Zenon DEF RefFrames, FramesUpTo, table, ends, lines

(* A line consumed is the next line of the text.                           *)
LEMMA LineTracked ==
  ASSUME NEW text \in Seq(Symbols), NEW p \in 0..Len(text), NEW rest,
         NEW c \in Partial, c.size <= MaxFrame, NEW fs \in Seq(Frame),
         TrackedTo(text, rest, c, fs, p), NEW i \in 1..Len(rest), EndsLine(rest, i)
  PROVE  LET result == ConsumeLine(c, SubSeq(rest, 1, i - 1))
             after == SubSeq(rest, Advance(rest, i) + 1, Len(rest))
         IN  /\ result.ok => \E q \in 0..Len(text) :
                               TrackedTo(text, after, result.cur, fs \o result.frames, q)
             /\ ~result.ok => /\ Oversized(RefLines(text)) # {}
                              /\ Extends(Frame, fs, RefFrames(text))
<1> DEFINE advance == Advance(rest, i)
           q == p + advance
           line == SubSeq(rest, 1, i - 1)
           lines == RefLines(text)
           result == ConsumeLine(c, line)
           after == SubSeq(rest, advance + 1, Len(rest))
<1>1. rest = Rest(text, p) /\ (p = 0 \/ p \in BreakEnds(text)) /\ Tracks(c, fs, lines, p)
  BY DEF TrackedTo
<1>2. /\ Len(text) \in Nat /\ p \in Nat /\ p <= Len(text)
      /\ rest \in Seq(Symbols) /\ Len(rest) = Len(text) - p
      /\ \A j \in 1..(Len(text) - p) : rest[j] = text[p + j]
  <2>1. /\ Len(text) \in Nat /\ p \in Nat /\ Rest(text, p) \in Seq(Symbols)
        /\ Len(Rest(text, p)) = Len(text) - p
        /\ \A j \in 1..(Len(text) - p) : Rest(text, p)[j] = text[p + j]
    BY RestOf
  <2>2. p <= Len(text)
    BY <2>1
  <2> QED
    BY <1>1, <2>1, <2>2, Zenon
<1>3. /\ advance \in {i, i + 1}
      /\ q \in Nat /\ p < q /\ q <= Len(text) /\ q \in BreakEnds(text)
      /\ \A k \in (p + 1)..(q - 1) : k \notin BreakEnds(text)
      /\ lines[q] = line
  <2>1. IsFirstBreak(rest, i)
    BY DEF EndsLine
  <2> HIDE DEF lines
  <2> QED
    BY <1>1, <2>1, NextBreak DEF lines
<1>4. IsLines(lines) /\ DOMAIN lines = BreakEnds(text)
  BY LinesTyped
<1>5. i \in Nat /\ i >= 1 /\ advance \in Nat /\ q = p + advance
  BY <1>2, <1>3
<1> HIDE DEF lines, line, result, after, advance, q
<1>6. after = Rest(text, q)
  <2> DEFINE a == advance + 1
             b == Len(rest)
             u == q + 1
             d == Len(text)
  <2>1. /\ a \in Int /\ b \in Int /\ u \in Int /\ d \in Int
        /\ a >= 1 /\ u >= 1 /\ b - a = d - u
    BY <1>2, <1>3, <1>5
  <2>2. \A j \in 0..(b - a) : rest[a + j] = text[u + j]
    <3> TAKE j \in 0..(b - a)
    <3>1. a + j \in 1..(Len(text) - p) /\ p + (a + j) = u + j
      BY <1>2, <1>3, <1>5
    <3> QED
      BY <1>2, <3>1
  <2>3. b <= Len(rest) /\ d <= Len(text)
    BY <1>2
  <2> HIDE DEF a, b, u, d
  <2>4. SameStretch(rest, a, b, text, u, d)
    BY <1>2, <2>1, <2>2, <2>3 DEF SameStretch
  <2>5. EqualStretch(rest, a, b, text, u, d)
    BY <2>4, SubSeqSame
  <2> QED
    BY <2>5, Zenon DEF EqualStretch, Rest, after, a, b, u, d
<1>7. Tracks(c, fs, lines, q - 1) /\ q - 1 \in Nat /\ (q - 1) + 1 = q
  <2>1. q - 1 \in Nat /\ p <= q - 1 /\ (q - 1) + 1 = q
    BY <1>2, <1>3
  <2>2. \A k \in (p + 1)..(q - 1) : k \notin DOMAIN lines
    BY <1>3, <1>4
  <2> QED
    BY <1>1, <1>2, <1>4, <2>1, <2>2, TracksGap
<1>8. q \in 0..Len(text)
  BY <1>2, <1>3
<1>9. line \in Seq(Symbols)
  BY <1>3, <1>4, Zenon DEF IsLines
<1>10. /\ result.ok => Tracks(result.cur, fs \o result.frames, lines, q)
       /\ ~result.ok => q \in Oversized(lines)
  <2>1. CASE line = << >>
    <3>1. lines[(q - 1) + 1] = << >> /\ (q - 1) + 1 \in DOMAIN lines
      BY <1>3, <1>4, <1>7, <2>1
    <3>2. LET r == ConsumeLine(c, << >>)
          IN  r.ok /\ Tracks(r.cur, fs \o r.frames, lines, (q - 1) + 1)
      BY <1>4, <1>7, <3>1, TracksBlank
    <3> QED
      BY <1>7, <2>1, <3>2, Zenon DEF result
  <2>2. CASE line # << >>
    <3>1. lines[(q - 1) + 1] = line /\ (q - 1) + 1 \in DOMAIN lines
      BY <1>3, <1>4, <1>7
    <3>2. /\ result.frames = << >>
          /\ result.ok => Tracks(result.cur, fs, lines, (q - 1) + 1)
          /\ ~result.ok => (q - 1) + 1 \in Oversized(lines)
      BY <1>4, <1>7, <1>9, <2>2, <3>1, TracksText DEF result
    <3>3. fs \o << >> = fs
      BY ConcatEmptySeq
    <3> QED
      BY <1>7, <3>2, <3>3, Zenon
  <2> QED
    BY <2>1, <2>2
<1>11. result.ok => TrackedTo(text, after, result.cur, fs \o result.frames, q)
  BY <1>3, <1>6, <1>10, Zenon DEF TrackedTo, lines
<1>12. Extends(Frame, fs, RefFrames(text))
  <2>1. Extends(Frame, FramesUpTo(lines, p), RefFrames(text))
    BY FramesExtend DEF lines
  <2> QED
    BY <1>1, <2>1, Zenon DEF Tracks
<1>13. ~result.ok => Oversized(lines) # {}
  BY <1>10
<1> QED
  BY <1>8, <1>11, <1>12, <1>13, Zenon DEF result, after, line, advance, lines

(* What a failing call leaves: the frames handed out before it began what  *)
(* the text holds, and the text holds an oversized line.                   *)
Refused(text, handed) ==
  IsPrefix(handed, RefFrames(text)) /\ Oversized(RefLines(text)) # {}

LEMMA RefusedHere ==
  ASSUME NEW text, NEW handed \in Seq(Frame), NEW held \in Seq(Frame),
         Oversized(RefLines(text)) # {},
         Extends(Frame, handed \o held, RefFrames(text))
  PROVE  Refused(text, handed)
<1>1. PICK more \in Seq(Frame) : RefFrames(text) = (handed \o held) \o more
  BY DEF Extends
<1>2. Associates(Frame)
  BY ConcatLaws, Zenon
<1>3. RefFrames(text) = handed \o (held \o more)
  BY <1>1, <1>2, Zenon DEF Associates
<1> DEFINE t == held \o more
<1>4. t \in Seq(Frame)
  BY ConcatProperties
<1> HIDE DEF t
<1>5. IsPrefix(handed, handed \o t)
  BY <1>4, PrefixOfConcat
<1> QED
  BY <1>3, <1>5, Zenon DEF Refused, t

(* A chunk only adds to the text behind the tracked lines.                 *)
LEMMA TextFeed ==
  ASSUME ScannerInv, TextInv, NEW m \in Int, NEW chunk \in ChunksUpTo(m), Feed(chunk)
  PROVE  TextInv'
<1>1. /\ buf' = buf \o chunk /\ fed' = fed \o chunk
      /\ phase = "idle" /\ phase' = "feeding" /\ ~closed /\ ~closed'
      /\ out' = << >> /\ cur' = cur /\ yielded' = yielded
  BY DEF Feed
<1>2. chunk \in Seq(Symbols) /\ fed \in Seq(Symbols)
  BY DEF ChunksUpTo, ScannerInv, TypeOK
<1>3. out = << >>
  BY <1>1 DEF TextInv
<1>4. PICK p \in 0..Len(fed) : TrackedTo(fed, buf, cur, yielded \o out, p)
  BY <1>1 DEF TextInv
<1>5. /\ p \in 0..Len(fed \o chunk)
      /\ TrackedTo(fed \o chunk, buf \o chunk, cur, yielded \o out, p)
  BY <1>2, <1>4, ChunkTracked
<1>6. TrackedTo(fed', buf', cur', yielded' \o out', p) /\ p \in 0..Len(fed')
  BY <1>1, <1>3, <1>5, Zenon
<1> QED
  BY <1>1, <1>6 DEF TextInv

(* What close() makes of the rest, and of the frame in progress.           *)
FlushedOf(c, rest) ==
  IF rest = << >> THEN [cur |-> c, frames |-> << >>, ok |-> TRUE]
                  ELSE ConsumeLine(c, StripTrailingCr(rest))

HandedOf(fs, flushed) ==
  IF flushed.ok /\ flushed.frames = << >> /\ ~IsBlank(flushed.cur)
  THEN Append(fs, FrameOf(flushed.cur)) ELSE fs \o flushed.frames

(* A blank line ends the frame in progress, and nothing else.              *)
LEMMA BlankLine ==
  ASSUME NEW c
  PROVE  LET r == ConsumeLine(c, << >>)
         IN  /\ r.ok /\ IsBlank(r.cur)
             /\ IsBlank(c) => r.cur = c /\ r.frames = << >>
             /\ ~IsBlank(c) => r.cur = EmptyFrame /\ r.frames = <<FrameOf(c)>>
<1> DEFINE r == ConsumeLine(c, << >>)
<1>1. r = [cur    |-> IF IsBlank(c) THEN c ELSE EmptyFrame,
           frames |-> IF IsBlank(c) THEN << >> ELSE <<FrameOf(c)>>,
           ok     |-> TRUE]
  BY Zenon DEF ConsumeLine
<1> HIDE DEF r
<1>2. /\ r.ok /\ r.cur = IF IsBlank(c) THEN c ELSE EmptyFrame
      /\ r.frames = IF IsBlank(c) THEN << >> ELSE <<FrameOf(c)>>
  BY <1>1
<1>3. IsBlank(EmptyFrame)
  BY DEF IsBlank, EmptyFrame
<1>4. IsBlank(r.cur)
  BY <1>2, <1>3
<1> QED
  BY <1>2, <1>4 DEF r

LEMMA HandedSame ==
  ASSUME NEW fs \in Seq(Frame), NEW c \in Partial, IsBlank(c) \/ FrameOf(c) \in Frame
  PROVE  /\ HandedOf(fs, FlushedOf(c, << >>)) = fs \o ConsumeLine(c, << >>).frames
         /\ HandedOf(fs, ConsumeLine(c, << >>)) = fs \o ConsumeLine(c, << >>).frames
         /\ \A f : f.ok /\ f.frames = << >> /\ f.cur = c =>
              HandedOf(fs, f) = fs \o ConsumeLine(c, << >>).frames
<1> DEFINE r == ConsumeLine(c, << >>)
           frame == FrameOf(c)
<1>1. /\ r.ok /\ IsBlank(r.cur)
      /\ IsBlank(c) => r.cur = c /\ r.frames = << >>
      /\ ~IsBlank(c) => r.cur = EmptyFrame /\ r.frames = <<frame>>
  BY BlankLine
<1> HIDE DEF r, frame
<1>2. <<frame>> # << >>
  OBVIOUS
<1>3. HandedOf(fs, r) = fs \o r.frames
  BY <1>1, <1>2, Zenon DEF HandedOf
<1>4. ASSUME NEW f, f.ok, f.frames = << >>, f.cur = c
      PROVE  HandedOf(fs, f) = fs \o r.frames
  <2>1. CASE IsBlank(c)
    BY <1>1, <1>4, <2>1, Zenon DEF HandedOf
  <2>2. CASE ~IsBlank(c)
    <3>1. Append(fs, frame) = fs \o <<frame>>
      BY <2>2, AppendIsConcat DEF frame
    <3>2. HandedOf(fs, f) = Append(fs, frame)
      BY <1>4, <2>2, Zenon DEF HandedOf, frame
    <3> QED
      BY <1>1, <2>2, <3>1, <3>2, Zenon
  <2> QED
    BY <2>1, <2>2
<1>5. LET f == FlushedOf(c, << >>) IN f.ok /\ f.frames = << >> /\ f.cur = c
  BY DEF FlushedOf
<1>6. HandedOf(fs, FlushedOf(c, << >>)) = fs \o r.frames
  BY <1>4, <1>5, Zenon
<1> QED
  BY <1>3, <1>4, <1>6 DEF r

(* close() hands out the frames that the text with two more line breaks    *)
(* has left, or fails as that text is oversized.                           *)
LEMMA CloseTracked ==
  ASSUME NEW text \in Seq(Symbols), NEW p \in 0..Len(text), NEW rest,
         NEW c \in Partial, Characters(c) <= c.size, c.size <= MaxFrame,
         NEW fs \in Seq(Frame), TrackedTo(text, rest, c, fs, p), Unfinished(rest)
  PROVE  LET longer == text \o <<LF, LF>>
             flushed == FlushedOf(c, rest)
         IN  /\ flushed.ok => /\ HandedOf(fs, flushed) = RefFrames(longer)
                              /\ Oversized(RefLines(longer)) = {}
             /\ ~flushed.ok => Refused(longer, fs \o flushed.frames)
<1> DEFINE longer == text \o <<LF, LF>>
           n == Len(text)
           lines == RefLines(longer)
           line == StripTrailingCr(rest)
           flushed == FlushedOf(c, rest)
<1>1. rest = Rest(text, p) /\ (p = 0 \/ p \in BreakEnds(text)) /\ Tracks(c, fs, RefLines(text), p)
  BY DEF TrackedTo
<1>2. n \in Nat /\ p \in Nat /\ p <= n /\ rest \in Seq(Symbols)
  BY <1>1, RestOf
<1>3. /\ longer \in Seq(Symbols) /\ Len(longer) = n + 2
      /\ n + 1 \in BreakEnds(longer) /\ n + 2 \in BreakEnds(longer)
      /\ \A k \in (p + 1)..n : k \notin BreakEnds(longer)
      /\ lines[n + 1] = line /\ lines[n + 2] = << >>
  BY <1>1, LastLines
<1>4. SameLines(RefLines(text), lines, p)
  <2>1. <<LF, LF>> \in Seq(Symbols)
    BY DEF Symbols
  <2> QED
    BY <1>1, <1>2, <2>1, LinesKept
<1> HIDE DEF longer
<1>5. IsLines(RefLines(text)) /\ IsLines(lines) /\ DOMAIN lines = BreakEnds(longer)
  BY <1>3, LinesTyped
<1> HIDE DEF lines, flushed
<1>6. Tracks(c, fs, lines, n)
  <2>1. Tracks(c, fs, lines, p)
    BY <1>1, <1>2, <1>4, <1>5, TracksAgree
  <2> QED
    BY <1>2, <1>3, <1>5, <2>1, TracksGap
<1>7. line \in Seq(Symbols) /\ n + 1 \in DOMAIN lines /\ n + 2 \in DOMAIN lines
  BY <1>3, <1>5, Zenon DEF IsLines
<1>8. ASSUME NEW d \in Partial, NEW gs \in Seq(Frame), d.size <= MaxFrame,
             Tracks(d, gs, lines, n + 1)
      PROVE  /\ gs \o ConsumeLine(d, << >>).frames = RefFrames(longer)
             /\ Oversized(lines) = {}
  <2>1. n + 1 \in Nat /\ (n + 1) + 1 = n + 2
    BY <1>2
  <2>2. (n + 1) + 1 \in DOMAIN lines /\ lines[(n + 1) + 1] = << >>
    BY <1>3, <1>7, <2>1
  <2> DEFINE r == ConsumeLine(d, << >>)
  <2>3. Tracks(r.cur, gs \o r.frames, lines, (n + 1) + 1)
    BY <1>5, <1>8, <2>1, <2>2, TracksBlank
  <2> HIDE DEF r
  <2>4. Len(longer) \in 0..Len(longer) /\ Len(longer) = n + 2
    BY <1>2, <1>3
  <2>5. Unfinished(Rest(longer, Len(longer)))
    <3>1. Len(Rest(longer, Len(longer))) = Len(longer) - Len(longer)
      BY <1>3, <2>4, RestOf
    <3> QED
      BY <1>2, <2>4, <3>1 DEF Unfinished
  <2>6. Tracks(r.cur, gs \o r.frames, RefLines(longer), Len(longer))
    BY <2>1, <2>3, <2>4, Zenon DEF lines
  <2> QED
    BY <1>3, <2>4, <2>5, <2>6, AllTracked DEF r, lines
<1> HIDE DEF line
<1>9. FrameOf(c) \in Frame
  BY FrameOfBounded
<1>10. CASE line = << >>
  <2> DEFINE r == ConsumeLine(c, << >>)
  <2>1. lines[n + 1] = << >>
    BY <1>3, <1>10
  <2>2. r.ok /\ Tracks(r.cur, fs \o r.frames, lines, n + 1)
    BY <1>2, <1>5, <1>6, <1>7, <2>1, TracksBlank
  <2>3. /\ r.cur \in Partial /\ r.frames \in Seq(Frame)
        /\ r.cur.size <= MaxFrame
    <3>1. << >> \in Seq(Symbols)
      OBVIOUS
    <3> QED
      BY <2>2, <3>1, ConsumeLineBounded
  <2>4. flushed = FlushedOf(c, << >>) \/ flushed = r
    BY <1>10, Zenon DEF FlushedOf, flushed, line
  <2>5. HandedOf(fs, flushed) = fs \o r.frames
    BY <1>9, <2>4, HandedSame
  <2>6. flushed.ok
    BY <2>2, <2>4 DEF FlushedOf
  <2>7. IsBlank(r.cur)
    BY BlankLine
  <2> HIDE DEF r
  <2>8. ConsumeLine(r.cur, << >>).frames = << >>
    BY <2>7, BlankLine
  <2> DEFINE gs == fs \o r.frames
  <2>9. gs \in Seq(Frame)
    BY <2>3, ConcatProperties
  <2>10. gs \o << >> = gs
    BY <2>9, ConcatEmptySeq
  <2> HIDE DEF gs
  <2>11. gs \o ConsumeLine(r.cur, << >>).frames = RefFrames(longer) /\ Oversized(lines) = {}
    BY <1>8, <2>2, <2>3, <2>9 DEF gs
  <2>12. HandedOf(fs, flushed) = RefFrames(longer)
    BY <2>5, <2>8, <2>10, <2>11, Zenon DEF gs
  <2> QED
    BY <2>6, <2>11, <2>12 DEF lines, longer, flushed
<1>11. CASE line # << >>
  <2>1. rest # << >> /\ flushed = ConsumeLine(c, line)
    <3>1. StripTrailingCr(<< >>) = << >>
      BY DEF StripTrailingCr
    <3>2. rest # << >>
      BY <1>11, <3>1 DEF line
    <3> QED
      BY <3>2, Zenon DEF flushed, FlushedOf, line
  <2>2. /\ flushed.frames = << >>
        /\ flushed.ok => Tracks(flushed.cur, fs, lines, n + 1)
        /\ ~flushed.ok => n + 1 \in Oversized(lines)
    BY <1>2, <1>3, <1>5, <1>6, <1>7, <1>11, <2>1, TracksText
  <2>3. CASE flushed.ok
    <3> DEFINE d == flushed.cur
    <3>1. d \in Partial /\ d.size <= MaxFrame /\ Characters(d) <= d.size
      BY <1>7, <2>1, <2>3, ConsumeLineBounded
    <3> HIDE DEF d
    <3>2. FrameOf(d) \in Frame
      BY <3>1, FrameOfBounded
    <3>3. flushed.ok /\ flushed.frames = << >> /\ flushed.cur = d
      BY <2>2, <2>3 DEF d
    <3>4. HandedOf(fs, flushed) = fs \o ConsumeLine(d, << >>).frames
      BY <3>1, <3>2, <3>3, HandedSame
    <3>5. fs \o ConsumeLine(d, << >>).frames = RefFrames(longer) /\ Oversized(lines) = {}
      BY <1>8, <2>2, <3>1, <3>3
    <3> QED
      BY <2>3, <3>4, <3>5, Zenon DEF lines, longer, flushed
  <2>4. CASE ~flushed.ok
    <3>1. n \in 0..Len(longer)
      BY <1>2, <1>3
    <3>2. Extends(Frame, FramesUpTo(lines, n), RefFrames(longer))
      BY <1>3, <3>1, FramesExtend DEF lines
    <3>3. fs \o << >> = fs /\ << >> \in Seq(Frame)
      BY ConcatEmptySeq
    <3>4. Extends(Frame, fs \o << >>, RefFrames(longer))
      BY <1>6, <3>2, <3>3, Zenon DEF Tracks
    <3>5. Oversized(RefLines(longer)) # {}
      BY <2>2, <2>4 DEF lines
    <3>6. Refused(longer, fs)
      BY <3>3, <3>4, <3>5, RefusedHere
    <3> QED
      BY <2>2, <2>4, <3>3, <3>6, Zenon DEF longer, flushed
  <2> QED
    BY <2>3, <2>4
<1> QED
  BY <1>10, <1>11

(* A line taken is the next line of the text received.                     *)
LEMMA TextTakeLine ==
  ASSUME ScannerInv, TextInv, TakeLine
  PROVE  TextInv'
<1>1. /\ phase = "feeding" /\ ~closed /\ ~closed' /\ fed' = fed /\ yielded' = yielded
  BY DEF TakeLine, DrainAndConsume, ScannerInv, DeferredCr
<1>2. PICK next \in NextLines(buf, pending_cr) :
        LET result == ConsumeLine(cur, next.line)
        IN  /\ buf' = SubSeq(buf, next.advance + 1, Len(buf))
            /\ cur' = result.cur
            /\ out' = IF result.ok THEN out \o result.frames ELSE << >>
            /\ phase' = IF result.ok THEN "feeding" ELSE "failed"
  BY DEF TakeLine, DrainAndConsume
<1>3. ~LeadingLf(buf, pending_cr)
  BY <1>1 DEF ScannerInv, DeferredCr, LeadingLf
<1>4. PICK i \in 1..Len(buf) : /\ EndsLine(buf, i)
                               /\ next = [line |-> SubSeq(buf, 1, i - 1),
                                          advance |-> Advance(buf, i)]
  BY <1>3 DEF NextLines
<1>5. PICK p \in 0..Len(fed) : TrackedTo(fed, buf, cur, yielded \o out, p)
  BY <1>1 DEF TextInv
<1>6. /\ fed \in Seq(Symbols) /\ cur \in Partial /\ cur.size <= MaxFrame
      /\ Characters(cur) <= cur.size
      /\ yielded \in Seq(Frame) /\ out \in Seq(Frame) /\ buf \in Seq(Symbols)
  BY <1>1 DEF ScannerInv, TypeOK, CharsBounded
<1>7. yielded \o out \in Seq(Frame)
  BY <1>6, ConcatProperties
<1> DEFINE result == ConsumeLine(cur, SubSeq(buf, 1, i - 1))
           after == SubSeq(buf, Advance(buf, i) + 1, Len(buf))
<1>8. /\ result.ok => \E q \in 0..Len(fed) :
           TrackedTo(fed, after, result.cur, (yielded \o out) \o result.frames, q)
      /\ ~result.ok => /\ Oversized(RefLines(fed)) # {}
                       /\ Extends(Frame, yielded \o out, RefFrames(fed))
  BY <1>4, <1>5, <1>6, <1>7, LineTracked
<1>9. /\ buf' = after /\ cur' = result.cur
      /\ out' = IF result.ok THEN out \o result.frames ELSE << >>
      /\ phase' = IF result.ok THEN "feeding" ELSE "failed"
  BY <1>2, <1>4
<1>10. result.frames \in Seq(Frame)
  <2>1. SubSeq(buf, 1, i - 1) \in Seq(Symbols)
    BY <1>3, <1>4, <1>6, NextLineTyped DEF ScannerInv, TypeOK
  <2> QED
    BY <1>6, <2>1, ConsumeLineBounded
<1> HIDE DEF result, after
<1>11. CASE result.ok
  <2>1. phase' = "feeding" /\ out' = out \o result.frames
    BY <1>9, <1>11
  <2> DEFINE r == result.frames
  <2>2. yielded \o (out \o r) = (yielded \o out) \o r
    <3>1. Associates(Frame)
      BY ConcatLaws, Zenon
    <3>2. r \in Seq(Frame)
      BY <1>10
    <3> HIDE DEF r
    <3> QED
      BY <1>6, <3>1, <3>2, Zenon DEF Associates
  <2>3. PICK q \in 0..Len(fed) :
          TrackedTo(fed, after, result.cur, (yielded \o out) \o r, q)
    BY <1>8, <1>11
  <2>4. TrackedTo(fed', buf', cur', yielded' \o out', q) /\ q \in 0..Len(fed')
    BY <1>1, <1>9, <2>1, <2>2, <2>3, Zenon
  <2> QED
    BY <1>1, <2>1, <2>4 DEF TextInv
<1>12. CASE ~result.ok
  <2>1. phase' = "failed"
    BY <1>9, <1>12
  <2>2. Refused(fed, yielded)
    BY <1>6, <1>8, <1>12, RefusedHere
  <2>3. Received' = fed
    BY <1>1 DEF Received
  <2>4. ChunkIndependent'
    BY <2>1, <2>2, <2>3, <1>1 DEF ChunkIndependent, Refused
  <2> QED
    BY <1>1, <2>1, <2>4 DEF TextInv
<1> QED
  BY <1>11, <1>12

(* Returning hands out what the call gathered.                             *)
LEMMA TextFeedReturn ==
  ASSUME ScannerInv, TextInv, FeedReturn
  PROVE  TextInv'
<1>1. /\ phase = "feeding" /\ phase' = "idle" /\ ~closed /\ ~closed'
      /\ yielded' = yielded \o out /\ out' = << >>
      /\ buf' = buf /\ cur' = cur /\ fed' = fed
  BY DEF FeedReturn, ScannerInv, DeferredCr
<1>2. PICK p \in 0..Len(fed) : TrackedTo(fed, buf, cur, yielded \o out, p)
  BY <1>1 DEF TextInv
<1>3. (yielded \o out) \o << >> = yielded \o out
  <2>1. yielded \in Seq(Frame) /\ out \in Seq(Frame)
    BY DEF ScannerInv, TypeOK
  <2>2. yielded \o out \in Seq(Frame)
    BY <2>1, ConcatProperties
  <2> QED
    BY <2>2, ConcatEmptySeq
<1>4. TrackedTo(fed', buf', cur', yielded' \o out', p) /\ p \in 0..Len(fed')
  BY <1>1, <1>2, <1>3, Zenon
<1> QED
  BY <1>1, <1>4 DEF TextInv

(* Closing reads the text as if two more line breaks ended it.             *)
LEMMA TextClose ==
  ASSUME ScannerInv, TextInv, Close
  PROVE  TextInv'
<1>1. /\ phase = "idle" /\ ~closed /\ closed' /\ fed' = fed /\ out' = out
      /\ phase' = IF Flushed.ok THEN "idle" ELSE "failed"
      /\ yielded' = IF Flushed.ok /\ Flushed.frames = << >> /\ ~IsBlank(Flushed.cur)
                    THEN Append(yielded, FrameOf(Flushed.cur))
                    ELSE yielded \o Flushed.frames
  BY DEF Close
<1>2. Flushed = FlushedOf(cur, buf)
  BY Zenon DEF Flushed, FlushedOf
<1>3. out = << >>
  BY <1>1 DEF TextInv
<1>4. /\ fed \in Seq(Symbols) /\ cur \in Partial /\ cur.size <= MaxFrame
      /\ Characters(cur) <= cur.size /\ yielded \in Seq(Frame)
  BY <1>1 DEF ScannerInv, TypeOK, CharsBounded
<1>5. Unfinished(buf)
  BY <1>1 DEF ScannerInv, NoCompleteLineLeft, Unfinished
<1>6. PICK p \in 0..Len(fed) : TrackedTo(fed, buf, cur, yielded, p)
  <2>1. yielded \o << >> = yielded
    BY <1>4, ConcatEmptySeq
  <2> QED
    BY <1>1, <1>3, <2>1 DEF TextInv
<1> DEFINE longer == fed \o <<LF, LF>>
           flushed == FlushedOf(cur, buf)
<1>7. /\ flushed.ok => /\ HandedOf(yielded, flushed) = RefFrames(longer)
                       /\ Oversized(RefLines(longer)) = {}
      /\ ~flushed.ok => Refused(longer, yielded \o flushed.frames)
  BY <1>4, <1>5, <1>6, CloseTracked
<1>8. yielded' = HandedOf(yielded, flushed)
  BY <1>1, <1>2, Zenon DEF HandedOf
<1>9. phase' = IF flushed.ok THEN "idle" ELSE "failed"
  BY <1>1, <1>2, Zenon
<1>10. Received' = longer
  BY <1>1, Zenon DEF Received
<1> HIDE DEF longer, flushed
<1>11. ChunkIndependent'
  <2>1. CASE flushed.ok
    <3>1. phase' = "idle"
      BY <1>9, <2>1
    <3>2. yielded' = RefFrames(longer) /\ Oversized(RefLines(longer)) = {}
      BY <1>7, <1>8, <2>1, Zenon
    <3> QED
      BY <1>10, <3>1, <3>2 DEF ChunkIndependent
  <2>2. CASE ~flushed.ok
    <3>1. phase' = "failed"
      BY <1>9, <2>2
    <3>2. Refused(longer, yielded')
      BY <1>7, <1>8, <2>2, Zenon DEF HandedOf
    <3> QED
      BY <1>10, <3>1, <3>2 DEF ChunkIndependent, Refused
  <2> QED
    BY <2>1, <2>2
<1>12. out' = << >>
  BY <1>1, <1>3
<1> QED
  BY <1>1, <1>11, <1>12 DEF TextInv

(* Every step keeps the tracking.                                          *)
LEMMA TextNext ==
  ASSUME ScannerInv, TextInv, [Next]_vars
  PROVE  TextInv'
<1>1. ASSUME NEW chunk \in ChunksUpTo(MaxInput - Len(fed)), Feed(chunk)
      PROVE  TextInv'
  <2>1. Len(fed) \in Nat
    BY LenProperties DEF ScannerInv, TypeOK
  <2>2. MaxInput - Len(fed) \in Int
    BY <2>1, MaxInputAssumption
  <2> QED
    BY <1>1, <2>2, TextFeed
<1>2. CASE TakeLine
  BY <1>2, TextTakeLine
<1>3. CASE FeedReturn
  BY <1>3, TextFeedReturn
<1>4. CASE Close
  BY <1>4, TextClose
<1>5. CASE CloseAgain \/ UNCHANGED vars
  <2>1. UNCHANGED vars
    BY <1>5 DEF CloseAgain
  <2>2. ChunkIndependent' = ChunkIndependent
    BY <2>1 DEF vars, ChunkIndependent, Received
  <2>3. /\ fed' = fed /\ buf' = buf /\ cur' = cur /\ yielded' = yielded /\ out' = out
        /\ phase' = phase /\ closed' = closed
    BY <2>1 DEF vars
  <2> QED
    BY <2>2, <2>3 DEF TextInv
<1> QED
  BY <1>1, <1>2, <1>3, <1>4, <1>5 DEF Next

(* With the invariants, what the calls returned is what the text holds.    *)
LEMMA IndependentNow ==
  ASSUME ScannerInv, TextInv
  PROVE  ChunkIndependent
<1>1. CASE closed \/ phase = "failed"
  BY <1>1 DEF TextInv
<1>2. CASE ~closed /\ phase = "feeding"
  BY <1>2 DEF ChunkIndependent
<1>3. CASE ~closed /\ phase = "idle"
  <2>1. PICK p \in 0..Len(fed) : TrackedTo(fed, buf, cur, yielded \o out, p)
    BY <1>3 DEF TextInv
  <2>2. out = << >> /\ fed \in Seq(Symbols) /\ yielded \in Seq(Frame)
    BY <1>3 DEF TextInv, ScannerInv, TypeOK
  <2>3. yielded \o << >> = yielded
    BY <2>2, ConcatEmptySeq
  <2>4. /\ Tracks(cur, yielded, RefLines(fed), p) /\ buf = Rest(fed, p)
    BY <2>1, <2>2, <2>3, Zenon DEF TrackedTo
  <2>5. Unfinished(Rest(fed, p))
    BY <1>3, <2>4 DEF ScannerInv, NoCompleteLineLeft, Unfinished
  <2>6. yielded = RefFrames(fed) /\ Oversized(RefLines(fed)) = {}
    BY <2>2, <2>4, <2>5, AllTracked
  <2> QED
    BY <1>3, <2>6 DEF ChunkIndependent, Received
<1> QED
  BY <1>1, <1>2, <1>3 DEF ScannerInv, TypeOK

(* Whatever the chunks were, the caller has been handed exactly the frames *)
(* that the whole text received so far holds, and the scanner fails exactly *)
(* when that text holds an oversized run of lines (feed, close).           *)
THEOREM Independent == Spec => []ChunkIndependent
<1>1. Init => ScannerInv /\ TextInv
  BY InitInv, TextInit
<1>2. (ScannerInv /\ TextInv) /\ [Next]_vars => (ScannerInv /\ TextInv)'
  BY NextInv, TextNext
<1>3. ScannerInv /\ TextInv => ChunkIndependent
  BY IndependentNow
<1> QED
  BY <1>1, <1>2, <1>3, PTL DEF Spec
=============================================================================
