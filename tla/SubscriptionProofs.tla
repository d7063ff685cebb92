-------------------------- MODULE SubscriptionProofs --------------------------
(***************************************************************************)
(* Proofs about Subscription for any messages, items, refusals, policy and *)
(* bound: its types, that no accepted stream is ever replaced under the    *)
(* built-in policies, and that it implements MatchStream.                  *)
(***************************************************************************)
EXTENDS Subscription, RetryPolicyProofs, PositionsProofs

Phases == {"ready", "requested", "handshake", "sleeping", "failed", "open", "dropped"}

Connected == phase \in {"handshake", "open"}

(* What the phases and the flags say of each other: there is a connection  *)
(* in two phases only, an item is cut only by the end, and a stream that   *)
(* noticed the end of its body has nothing left to read.                   *)
Shape ==
  /\ conn = "down" <=> ~Connected
  /\ ~Connected => wire = << >> /\ pending = << >>
  /\ conn # "ended" => cut = << >>
  /\ phase \notin {"open", "dropped"} => returned = "nothing" /\ ~finished
  /\ phase # "open" => polling = "idle"
  /\ Over => finished /\ pending = << >>
  /\ finished /\ ~Over /\ phase = "open" =>
       conn = "ended" /\ wire = << >> /\ cut = << >>

(* The outcomes of a handshake that are no HTTP error are results, and the *)
(* built-in policies retry none of them.                                   *)
LEMMA SetupErrors ==
  /\ Ok \in Result /\ MalformedSse \in Result
  /\ ~IsTransient(MalformedSse)
<1>1. Ok \in Result
  BY DEF Ok, Result, NoHint, NoCode
<1>2. MalformedSse = [kind |-> "malformed_sse", code |-> NoCode,
                      http_status |-> 0, retry_after |-> NoHint]
  BY DEF MalformedSse, Transport
<1> QED
  BY <1>1, <1>2 DEF Result, NoHint, NoCode, IsTransient

(* A refused, broken or malformed attempt drops its connection and either  *)
(* fails subscribe() or sleeps; the built-in policies sleep only after a   *)
(* transient answer.                                                       *)
LEMMA SettleFacts ==
  ASSUME TypeOK, NEW err \in Result, Settle(err)
  PROVE  /\ phase' \in {"failed", "sleeping"}
         /\ error' = err
         /\ conn' = "down" /\ wire' = << >> /\ cut' = << >> /\ pending' = << >>
         /\ UNCHANGED <<attempt, finished, polling, returned, given, sent, streams>>
         /\ Policy # "custom" /\ ~IsTransient(err) => phase' = "failed"
<1>1. PICK d \in Decisions(attempt, err) :
        phase' = IF d = GiveUp THEN "failed" ELSE "sleeping"
  BY DEF Settle
<1>2. attempt \in Nat
  BY DEF TypeOK
<1>3. Policy # "custom" /\ d # GiveUp => IsTransient(err)
  BY <1>2, BuiltInDecision
<1> QED
  BY <1>1, <1>3 DEF Settle, Disconnect, reader, history
-----------------------------------------------------------------------------
(***************************************************************************)
(* Sequences.                                                              *)
(***************************************************************************)

(* A chunk and what is left of the wire are the wire.                      *)
LEMMA ChunkAndRest ==
  ASSUME NEW S, wire \in Seq(S), NEW n \in 1..Len(wire)
  PROVE  /\ Chunk(n) \in Seq(S) /\ Rest(n) \in Seq(S)
         /\ Chunk(n) \o Rest(n) = wire
         /\ \A i \in 1..Len(Chunk(n)) : i \in 1..Len(wire) /\ Chunk(n)[i] = wire[i]
<1>1. Len(wire) \in Nat /\ \A i \in 1..Len(wire) : wire[i] \in S
  OBVIOUS
<1>2. /\ SubSeq(wire, 1, n) \in Seq(S)
      /\ Len(SubSeq(wire, 1, n)) = n
      /\ \A i \in 1..n : SubSeq(wire, 1, n)[i] = wire[i]
  BY <1>1, SubSeqProperties, Z3
<1>3. SubSeq(wire, n + 1, Len(wire)) \in Seq(S)
  BY <1>1, SubSeqProperties, Z3
<1>4. SubSeq(wire, 1, n) \o SubSeq(wire, n + 1, Len(wire)) = SubSeq(wire, 1, Len(wire))
  BY <1>1, ConcatAdjacentSubSeq, Z3
<1> QED
  BY <1>1, <1>2, <1>3, <1>4, SubSeqFull, Z3 DEF Chunk, Rest

(* An optional item is absent or is an item.                               *)
LEMMA Upto1Facts ==
  ASSUME NEW S
  PROVE  /\ << >> \in Upto1(S)
         /\ \A x \in S : <<x>> \in Upto1(S)
         /\ \A c \in Upto1(S) : c = << >> \/ \E x \in S : c = <<x>>
  BY Zenon DEF Upto1

(* Nothing is a sequence of items, of frames, and no item.                 *)
LEMMA Empties ==
  << >> \in Seq(Item) /\ << >> \in Seq(FrameItem) /\ << >> \in Upto1(Item)
  BY Upto1Facts
-----------------------------------------------------------------------------
(***************************************************************************)
(* Types and shape.                                                        *)
(***************************************************************************)
IInv == TypeOK /\ Shape

(* The program starts in the invariant.                                    *)
LEMMA IInvInit == Init => IInv
<1> SUFFICES ASSUME Init PROVE IInv
  OBVIOUS
<1>1. TypeOK
  BY SetupErrors, Empties DEF Init, TypeOK
<1>2. Shape
  BY DEF Init, Shape, Connected, Over
<1> QED
  BY <1>1, <1>2 DEF IInv

(* A settled attempt leaves no connection behind.                          *)
LEMMA IInvSettle ==
  ASSUME IInv, phase \in {"ready", "requested", "handshake"},
         NEW err \in Result, Settle(err)
  PROVE  IInv'
<1>1. TypeOK'
  BY SettleFacts, Empties DEF IInv, TypeOK
<1>2. Shape'
  BY SettleFacts DEF IInv, TypeOK, Shape, Connected, Over
<1> QED
  BY <1>1, <1>2 DEF IInv

(* The steps of subscribe() before a response arrives, and its failures.   *)
LEMMA IInvSetup ==
  ASSUME IInv, Send \/ ConnectionFails \/ Refused \/ WrongContentType \/ Accepted \/ Wake
  PROVE  IInv'
<1>1. CASE Send
  BY <1>1 DEF Send, IInv, TypeOK, Shape, Connected, Over, body, reader, history
<1>2. CASE ConnectionFails
  BY <1>2, IInvSettle, TransportFacts DEF ConnectionFails
<1>3. CASE Refused
  BY <1>3, IInvSettle, DecodedTyped, RefusalsAssumption DEF Refused
<1>4. CASE WrongContentType
  BY <1>4, IInvSettle, SetupErrors DEF WrongContentType
<1>5. CASE Accepted
  BY <1>5 DEF Accepted, IInv, TypeOK, Shape, Connected, Over, reader
<1>6. CASE Wake
  BY <1>6 DEF Wake, IInv, TypeOK, Shape, Connected, Over, body, reader, history
<1> QED
  BY <1>1, <1>2, <1>3, <1>4, <1>5, <1>6

(* The handshake: what it hands over are frames.                           *)
LEMMA ChunkTyped ==
  ASSUME TypeOK, NEW n \in 1..Len(wire), Feedable(Chunk(n))
  PROVE  Chunk(n) \in Seq(FrameItem)
<1>1. Chunk(n) \in Seq(Item)
  BY ChunkAndRest DEF TypeOK
<1> HIDE DEF Chunk
<1> DEFINE chunk == Chunk(n)
<1>2. \A i \in 1..Len(chunk) : chunk[i] \in FrameItem
  BY <1>1 DEF Feedable, FrameItem
<1> QED
  BY <1>1, <1>2

(* The frame loop of subscribe_once, and the stream it opens.              *)
LEMMA IInvHandshake ==
  ASSUME IInv, FirstFrame \/ FirstChunk \/ FirstAtEnd \/ FirstBroken
  PROVE  IInv'
<1>1. CASE FirstFrame
  <2>1. Tail(pending) \in Seq(FrameItem)
    BY <1>1, HeadTailProperties DEF FirstFrame, IInv, TypeOK
  <2>2. CASE Acknowledges(Head(pending))
    BY <1>1, <2>1, <2>2, SetupErrors
    DEF FirstFrame, Open, HandOver, IInv, TypeOK, Shape, Connected, Over, reader, history
  <2>3. CASE ~Acknowledges(Head(pending))
    BY <1>1, <2>3, SetupErrors, IInvSettle DEF FirstFrame
  <2> QED
    BY <2>2, <2>3
<1>2. CASE FirstChunk
  <2>1. PICK n \in 1..Len(wire) :
          IF Feedable(Chunk(n))
          THEN /\ pending' = Chunk(n) /\ wire' = Rest(n)
               /\ UNCHANGED <<setup, conn, cut, reader, history>>
          ELSE Settle(MalformedSse)
    BY <1>2 DEF FirstChunk
  <2>2. CASE Feedable(Chunk(n))
    <3>1. Chunk(n) \in Seq(FrameItem) /\ Rest(n) \in Seq(Item)
      BY <2>2, ChunkTyped, ChunkAndRest DEF IInv, TypeOK
    <3> QED
      BY <1>2, <2>1, <2>2, <3>1
      DEF FirstChunk, setup, reader, history, IInv, TypeOK, Shape, Connected, Over
  <2>3. CASE ~Feedable(Chunk(n))
    BY <1>2, <2>1, <2>3, SetupErrors, IInvSettle DEF FirstChunk
  <2> QED
    BY <2>2, <2>3
<1>3. CASE FirstAtEnd
  <2>1. CASE cut # << >> /\ Acknowledges(cut[1])
    BY <1>3, <2>1, SetupErrors, Empties
    DEF FirstAtEnd, Open, HandOver, IInv, TypeOK, Shape, Connected, Over, reader, history
  <2>2. CASE ~(cut # << >> /\ Acknowledges(cut[1]))
    BY <1>3, <2>2, SetupErrors, IInvSettle DEF FirstAtEnd
  <2> QED
    BY <2>1, <2>2
<1>4. CASE FirstBroken
  BY <1>4, TransportFacts, IInvSettle DEF FirstBroken
<1> QED
  BY <1>1, <1>2, <1>3, <1>4

(* The iterations of poll_next.                                            *)
LEMMA IInvPoll ==
  ASSUME IInv, Poll \/ PollStep \/ Abandon
  PROVE  IInv'
<1> USE DEF IInv, TypeOK, Shape, Connected, Over, Running, Starved, Return, Goes
<1>1. CASE Poll \/ Abandon \/ PollPending \/ PollAfterEnd
  BY <1>1 DEF Poll, Abandon, PollPending, PollAfterEnd, setup, body, history
<1>2. CASE TakeMatch \/ SkipFrame
  <2>1. Tail(pending) \in Seq(FrameItem) /\ Head(pending) \in FrameItem
    BY <1>2, HeadTailProperties DEF TakeMatch, SkipFrame
  <2>2. Append(given, Head(pending)) \in Seq(FrameItem)
    BY <2>1, AppendProperties
  <2>3. CASE TakeMatch
    BY <2>1, <2>2, <2>3 DEF TakeMatch, setup, body, history
  <2>4. CASE SkipFrame
    BY <2>1, <2>4 DEF SkipFrame, setup, body, history
  <2> QED
    BY <1>2, <2>3, <2>4
<1>3. CASE PollChunk
  <2>1. PICK n \in 1..Len(wire) :
          /\ wire' = Rest(n)
          /\ IF Feedable(Chunk(n))
             THEN /\ pending' = Chunk(n)
                  /\ Goes /\ UNCHANGED <<setup, finished, given, history>>
             ELSE FailStream(MalformedSse)
    BY <1>3 DEF PollChunk
  <2>2. Rest(n) \in Seq(Item)
    BY ChunkAndRest
  <2>3. CASE Feedable(Chunk(n))
    <3>1. Chunk(n) \in Seq(FrameItem)
      BY <2>3, ChunkTyped
    <3> QED
      BY <1>3, <2>1, <2>2, <2>3, <3>1 DEF PollChunk, setup, history
  <2>4. CASE ~Feedable(Chunk(n))
    BY <1>3, <2>1, <2>2, <2>4, SetupErrors DEF PollChunk, FailStream, history
  <2> QED
    BY <2>3, <2>4
<1>4. CASE PollBroken
  BY <1>4, TransportFacts DEF PollBroken, FailStream, body, history
<1>5. CASE PollEnd
  <2>1. cut \in Seq(FrameItem) \/ ~Feedable(cut)
    <3>1. ASSUME NEW x \in Item, cut = <<x>>, Feedable(cut)
          PROVE  cut \in Seq(FrameItem)
      BY <3>1 DEF Feedable, FrameItem
    <3> QED
      BY <3>1, Upto1Facts, Empties
  <2>2. CASE Feedable(cut)
    BY <1>5, <2>1, <2>2, Empties DEF PollEnd, AtEnd, Flushed, setup, history
  <2>3. CASE ~Feedable(cut)
    BY <1>5, <2>3, SetupErrors, Empties DEF PollEnd, AtEnd, FailStream, history
  <2> QED
    BY <2>2, <2>3
<1> QED
  BY <1>1, <1>2, <1>3, <1>4, <1>5 DEF PollStep

(* The server, the network and a caller who leaves.                        *)
LEMMA IInvOthers ==
  ASSUME IInv, ServerSends \/ ServerEnds \/ ConnectionBreaks \/ Drop
  PROVE  IInv'
<1>1. CASE ServerSends
  <2>1. PICK item \in Items : sent' = Append(sent, item) /\ wire' = Append(wire, item)
    BY <1>1 DEF ServerSends
  <2>2. sent' \in Seq(Item) /\ wire' \in Seq(Item)
    BY <2>1, ItemsAssumption, AppendProperties DEF IInv, TypeOK
  <2> QED
    BY <1>1, <2>2
    DEF ServerSends, setup, reader, IInv, TypeOK, Shape, Connected, Over
<1>2. CASE ServerEnds
  <2>1. sent' \in Seq(Item) /\ cut' \in Upto1(Item)
    <3>1. CASE UNCHANGED <<cut, sent>>
      BY <3>1 DEF IInv, TypeOK
    <3>2. ASSUME NEW item \in Items, cut' = <<item>>, sent' = Append(sent, item)
          PROVE  sent' \in Seq(Item) /\ cut' \in Upto1(Item)
      BY <3>2, ItemsAssumption, AppendProperties, Upto1Facts DEF IInv, TypeOK
    <3> QED
      BY <1>2, <3>1, <3>2 DEF ServerEnds
  <2> QED
    BY <1>2, <2>1
    DEF ServerEnds, setup, reader, IInv, TypeOK, Shape, Connected, Over
<1>3. CASE ConnectionBreaks
  BY <1>3 DEF ConnectionBreaks, setup, reader, history, IInv, TypeOK, Shape, Connected, Over
<1>4. CASE Drop
  BY <1>4, Empties DEF Drop, Disconnect, history, IInv, TypeOK, Shape, Connected, Over
<1> QED
  BY <1>1, <1>2, <1>3, <1>4

(* Every step keeps the invariant.                                         *)
LEMMA IInvNext == IInv /\ [Next]_vars => IInv'
<1>1. ASSUME IInv, UNCHANGED vars PROVE IInv'
  BY <1>1 DEF vars, setup, body, reader, history, IInv, TypeOK, Shape, Connected, Over
<1> QED
  BY <1>1, IInvSetup, IInvHandshake, IInvPoll, IInvOthers DEF Next, PollStep

(* The invariant holds under any policy.                                   *)
LEMMA IInvariant == Spec => []IInv
  BY IInvInit, IInvNext, PTL DEF Spec

(* Types, among them that only whole frames within the cap are ever queued *)
(* for the reader or given to it.                                          *)
THEOREM TypeCorrect == Spec => []TypeOK
<1>1. IInv => TypeOK
  BY DEF IInv
<1> QED
  BY <1>1, IInvariant, PTL
-----------------------------------------------------------------------------
(***************************************************************************)
(* One stream per call of subscribe().                                     *)
(***************************************************************************)

(* An attempt that will be repeated has had no stream accepted.            *)
StreamInv ==
  Policy # "custom" =>
    /\ streams <= 1
    /\ phase \in {"ready", "requested", "sleeping"} => streams = 0

(* An attempt that had a stream is not repeated when it fails.             *)
LEMMA StreamSettle ==
  ASSUME IInv, StreamInv, NEW err \in Result, Settle(err),
         phase \in {"ready", "requested"} \/ ~IsTransient(err)
  PROVE  StreamInv'
  BY SettleFacts DEF IInv, StreamInv

(* Every step keeps that.                                                  *)
LEMMA StreamNext == IInv /\ StreamInv /\ [Next]_vars => StreamInv'
<1> SUFFICES ASSUME IInv, StreamInv, [Next]_vars PROVE StreamInv'
  OBVIOUS
<1>1. CASE Send \/ Wake
  BY <1>1 DEF Send, Wake, history, StreamInv
<1>2. CASE ConnectionFails \/ WrongContentType
  BY <1>2, StreamSettle, TransportFacts, SetupErrors DEF ConnectionFails, WrongContentType
<1>3. CASE Refused
  BY <1>3, StreamSettle, DecodedTyped, RefusalsAssumption DEF Refused
<1>4. CASE Accepted
  BY <1>4 DEF Accepted, StreamInv
<1>5. ASSUME Open(<< >>) \/ Open(Tail(pending)) PROVE StreamInv'
  BY <1>5 DEF Open, history, StreamInv
<1>6. CASE FirstFrame \/ FirstAtEnd \/ FirstBroken
  BY <1>5, <1>6, StreamSettle, SetupErrors, TransportFacts
  DEF FirstFrame, FirstAtEnd, FirstBroken
<1>7. CASE FirstChunk
  <2>1. CASE Settle(MalformedSse)
    BY <2>1, StreamSettle, SetupErrors
  <2>2. CASE UNCHANGED <<setup, history>>
    BY <2>2 DEF setup, history, StreamInv
  <2> QED
    BY <1>7, <2>1, <2>2 DEF FirstChunk
<1>8. ASSUME UNCHANGED <<phase, streams>> PROVE StreamInv'
  BY <1>8 DEF StreamInv
<1>9. CASE Poll \/ PollStep \/ Abandon
  BY <1>8, <1>9
  DEF Poll, PollStep, Abandon, TakeMatch, SkipFrame, PollAfterEnd, PollPending, PollChunk,
      PollBroken, PollEnd, FailStream, setup, history
<1>10. CASE ServerSends \/ ServerEnds \/ ConnectionBreaks \/ UNCHANGED vars
  BY <1>8, <1>10
  DEF ServerSends, ServerEnds, ConnectionBreaks, vars, setup, history
<1>11. CASE Drop
  BY <1>11 DEF Drop, history, StreamInv
<1> QED
  BY <1>1, <1>2, <1>3, <1>4, <1>6, <1>7, <1>9, <1>10, <1>11 DEF Next, PollStep

(* Under the built-in policies subscribe() never abandons a stream the     *)
(* server accepted to open another, whatever broke the first.              *)
THEOREM OneStreamOnly == Spec => []OneStream
<1>1. Init => StreamInv
  BY DEF Init, StreamInv
<1>2. StreamInv => OneStream
  BY DEF StreamInv, OneStream
<1> QED
  BY <1>1, <1>2, IInvariant, StreamNext, PTL DEF Spec
-----------------------------------------------------------------------------
(***************************************************************************)
(* The end of a stream is final.                                           *)
(***************************************************************************)

(* A stream that is over is finished and has nothing pending, so that a    *)
(* later poll goes straight to the end: it finds no match, reads no body   *)
(* and reports no error again.                                             *)
THEOREM OverStaysOver == Spec => OverIsFinal
<1> DEFINE Final == Over => /\ returned' = (IF Returns THEN "end" ELSE returned)
                            /\ polling' = "suspended" => polling = "suspended"
                            /\ given' = given
<1>1. IInv /\ [Next]_vars => Final
  <2> SUFFICES ASSUME IInv, [Next]_vars, Over PROVE Final
    OBVIOUS
  <2>1. finished /\ pending = << >> /\ phase \in {"open", "dropped"}
    BY DEF IInv, TypeOK, Shape, Over
  <2>2. CASE Poll
    BY <2>2 DEF Poll, Returns
  <2>3. CASE PollAfterEnd
    BY <2>3 DEF PollAfterEnd, Starved, Running, Return, Returns
  <2>4. CASE Abandon \/ Drop
    BY <2>4 DEF Abandon, Drop, Returns
  <2>5. CASE UNCHANGED reader
    BY <2>5 DEF reader, Returns
  <2>6. CASE Next /\ ~Poll /\ ~PollAfterEnd /\ ~Abandon /\ ~Drop
    <3>1. UNCHANGED reader
      BY <2>1, <2>6
      DEF Next, Send, ConnectionFails, Refused, WrongContentType, Accepted, Wake,
          FirstFrame, FirstChunk, FirstAtEnd, FirstBroken, TakeMatch, SkipFrame,
          PollPending, PollChunk, PollBroken, PollEnd, AtEnd, Starved,
          ServerSends, ServerEnds, ConnectionBreaks, reader
    <3> QED
      BY <2>5, <3>1
  <2> QED
    BY <2>2, <2>3, <2>4, <2>5, <2>6 DEF vars
<1> QED
  BY <1>1, IInvariant, PTL DEF Spec, OverIsFinal
-----------------------------------------------------------------------------
(***************************************************************************)
(* Refinement.  A step of subscribe() or poll_next that only moves frames  *)
(* along leaves the abstract queue, pending \o wire \o cut, as it is.      *)
(***************************************************************************)
AStep == [Abstract!Next]_Abstract!vars

(* A step that changes nothing of the mapping is a stutter.                *)
LEMMA Stutter ==
  ASSUME UNCHANGED <<Status, Connection, Queue, given>>
  PROVE  AStep
  BY DEF AStep, Abstract!vars

(* A settled attempt is a refused handshake, or the last one.              *)
LEMMA SettleMaps ==
  ASSUME IInv, phase \in {"ready", "requested", "handshake"},
         NEW err \in Result, Settle(err)
  PROVE  AStep
<1>1. Status = "setup" /\ Status' \in {"setup", "closed"}
  BY SettleFacts DEF Status, IInv
<1>2. Connection' = "down" /\ Queue' = << >> /\ given' = given
  BY SettleFacts DEF Connection, Queue, InUse, IInv
<1>3. Abstract!Refuse \/ Abstract!GiveUpSetup
  BY <1>1, <1>2 DEF Abstract!Refuse, Abstract!GiveUpSetup, Abstract!Discard
<1> QED
  BY <1>3 DEF AStep, Abstract!Next

(* While the stream is in use its queue is made of items, and the pieces   *)
(* can be grouped either way.                                              *)
LEMMA QueueParts ==
  ASSUME IInv
  PROVE  /\ FrameItem \subseteq Item
         /\ pending \in Seq(Item) /\ wire \in Seq(Item) /\ cut \in Seq(Item)
         /\ wire \o cut \in Seq(Item)
         /\ pending \o wire \o cut = pending \o (wire \o cut)
         /\ pending = << >> => pending \o wire \o cut = wire \o cut
<1>1. FrameItem \subseteq Item
  BY DEF FrameItem
<1>2. pending \in Seq(Item) /\ wire \in Seq(Item)
  BY <1>1 DEF IInv, TypeOK
<1>3. cut \in Seq(Item)
  <2>1. cut = << >> \/ \E x \in Item : cut = <<x>>
    BY Upto1Facts DEF IInv, TypeOK
  <2>2. \A x \in Item : <<x>> \in Seq(Item)
    OBVIOUS
  <2> QED
    BY <2>1, <2>2, Empties
<1>4. wire \o cut \in Seq(Item)
  BY <1>2, <1>3, ConcatProperties
<1>5. pending \o wire \o cut = pending \o (wire \o cut)
  BY <1>2, <1>3, ConcatAssociative
<1> QED
  BY <1>1, <1>2, <1>3, <1>4, <1>5, ConcatEmptySeq

(* A chunk that is fed moves frames from the wire to the pending ones.     *)
LEMMA ChunkMoves ==
  ASSUME IInv, pending = << >>, NEW n \in 1..Len(wire)
  PROVE  Chunk(n) \o Rest(n) \o cut = pending \o wire \o cut
<1>1. Chunk(n) \o Rest(n) = wire
  BY ChunkAndRest, QueueParts
<1> QED
  BY <1>1, QueueParts, Zenon

(* An item that arrives on the wire, or is cut by the end, is the last.    *)
LEMMA ItemArrives ==
  ASSUME IInv, NEW item \in Items
  PROVE  /\ pending \o Append(wire, item) \o << >> = Append(pending \o wire, item)
         /\ pending \o wire \o <<item>> = Append(pending \o wire, item)
<1>1. /\ item \in Item /\ <<item>> \in Seq(Item)
      /\ pending \o wire \in Seq(Item) /\ Append(wire, item) \in Seq(Item)
  BY ItemsAssumption, QueueParts, ConcatProperties, AppendProperties
<1>2. Append(wire, item) = wire \o <<item>>
  BY <1>1, QueueParts, AppendIsConcat
<1>3. Append(pending \o wire, item) = pending \o wire \o <<item>>
  BY <1>1, AppendIsConcat
<1>4. pending \o Append(wire, item) = pending \o wire \o <<item>>
  BY <1>1, <1>2, QueueParts, ConcatAssociative
<1>5. pending \o Append(wire, item) \in Seq(Item)
  BY <1>1, QueueParts, ConcatProperties
<1> QED
  BY <1>3, <1>4, <1>5, ConcatEmptySeq

(* An item that cannot be fed is in the abstract queue.                    *)
LEMMA ChunkOversized ==
  ASSUME IInv, pending = << >>, NEW n \in 1..Len(wire), ~Feedable(Chunk(n))
  PROVE  \E i \in 1..Len(pending \o wire \o cut) :
           (pending \o wire \o cut)[i].event = "oversize"
<1>1. PICK i \in 1..Len(Chunk(n)) : Chunk(n)[i].event = "oversize"
  BY DEF Feedable, IsOversize
<1>2. i \in 1..Len(wire) /\ wire[i].event = "oversize"
  BY <1>1, ChunkAndRest, QueueParts
<1>3. /\ Len(wire) \in Nat /\ Len(cut) \in Nat
      /\ Len(wire \o cut) = Len(wire) + Len(cut)
      /\ (wire \o cut)[i] = wire[i]
  BY <1>2, QueueParts, ConcatProperties, Z3
<1>4. i \in 1..Len(wire \o cut)
  BY <1>2, <1>3, Z3
<1> QED
  BY <1>2, <1>3, <1>4, QueueParts, Zenon

(* Before a response arrives nothing of the mapping changes but a new      *)
(* connection.                                                             *)
LEMMA SetupMaps ==
  ASSUME IInv, IInv',
         Send \/ ConnectionFails \/ Refused \/ WrongContentType \/ Accepted \/ Wake
  PROVE  AStep
<1>1. CASE Send
  BY <1>1, Stutter
  DEF Send, body, reader, history, Status, Connection, Queue, InUse, Over
<1>2. CASE ConnectionFails
  BY <1>2, SettleMaps, TransportFacts DEF ConnectionFails
<1>3. CASE Refused
  BY <1>3, SettleMaps, DecodedTyped, RefusalsAssumption DEF Refused
<1>4. CASE WrongContentType
  BY <1>4, SettleMaps, SetupErrors DEF WrongContentType
<1>5. CASE Accepted
  <2>1. Status = "setup" /\ Connection = "down" /\ Queue = << >>
    BY <1>5 DEF Accepted, IInv, Shape, Connected, Status, Connection, Queue, InUse
  <2>2. ~Over' /\ phase' = "handshake" /\ conn' = "up"
    BY <1>5 DEF Accepted, IInv, Shape, Connected, Over, reader
  <2>3. pending' = << >> /\ wire' = << >> /\ cut' = << >>
    BY <1>5 DEF Accepted, IInv, Shape, Connected
  <2>4. Status' = "setup" /\ Connection' = "up"
    BY <2>2 DEF Status, Connection, InUse
  <2>5. Queue' = << >>
    <3>1. << >> \o << >> \o << >> = << >>
      BY Empties, ConcatEmptySeq
    <3> QED
      BY <2>3, <3>1 DEF Queue
  <2>6. Abstract!Connect
    BY <1>5, <2>1, <2>4, <2>5 DEF Abstract!Connect, Accepted, reader
  <2> QED
    BY <2>6 DEF AStep, Abstract!Next
<1>6. CASE Wake
  BY <1>6, Stutter
  DEF Wake, body, reader, history, Status, Connection, Queue, InUse, Over
<1> QED
  BY <1>1, <1>2, <1>3, <1>4, <1>5, <1>6

(* The acknowledgement leaves the queue as the stream opens.               *)
LEMMA OpenMaps ==
  ASSUME IInv, phase = "handshake", phase' = "open",
         UNCHANGED <<conn, returned, given>>,
         NEW first \in Item, Acknowledges(first),
         Queue # << >>, Head(Queue) = first,
         pending' \o wire' \o cut' = Tail(Queue)
  PROVE  AStep
<1>1. ~Over /\ ~Over' /\ conn # "down" /\ conn' # "down"
  BY DEF IInv, Shape, Connected, Over
<1>2. Status = "setup" /\ Status' = "open" /\ Connection' = Connection
  BY <1>1 DEF Status, Connection, InUse
<1>3. Queue' = Tail(Queue)
  BY <1>1 DEF Queue, InUse
<1>4. Abstract!Open
  BY <1>2, <1>3 DEF Abstract!Open, Acknowledges
<1> QED
  BY <1>4 DEF AStep, Abstract!Next

(* The handshake's loop.                                                   *)
LEMMA HandshakeMaps ==
  ASSUME IInv, IInv', FirstFrame \/ FirstChunk \/ FirstAtEnd \/ FirstBroken
  PROVE  AStep
<1>0. phase = "handshake" /\ ~Over /\ InUse /\ Queue = pending \o wire \o cut
  BY DEF FirstFrame, FirstChunk, FirstAtEnd, FirstBroken, IInv, Shape, Connected, Over,
         InUse, Queue
<1>1. CASE FirstFrame
  <2>1. CASE Acknowledges(Head(pending))
    <3>1. /\ Open(Tail(pending)) /\ cut' = cut /\ pending # << >>
          /\ pending' = Tail(pending) /\ wire' = wire /\ phase' = "open"
          /\ UNCHANGED <<conn, returned, given>>
      BY <1>1, <2>1 DEF FirstFrame, Open, HandOver, reader
    <3>2. Head(pending) \in Item /\ Tail(pending) \in Seq(Item)
      BY <3>1, QueueParts, HeadTailProperties
    <3>3. /\ pending \o (wire \o cut) # << >>
          /\ Head(pending \o (wire \o cut)) = Head(pending)
          /\ Tail(pending \o (wire \o cut)) = Tail(pending) \o (wire \o cut)
      BY <3>1, QueueParts, HeadOfConcat
    <3>4. Tail(pending) \o wire \o cut = Tail(pending) \o (wire \o cut)
      BY <3>2, QueueParts, ConcatAssociative
    <3>5. /\ Queue # << >> /\ Head(Queue) = Head(pending)
          /\ pending' \o wire' \o cut' = Tail(Queue)
      BY <1>0, <3>1, <3>3, <3>4, QueueParts, Zenon
    <3> QED
      BY <1>0, <2>1, <3>1, <3>2, <3>5, OpenMaps
  <2>2. CASE ~Acknowledges(Head(pending))
    BY <1>0, <1>1, <2>2, SetupErrors, SettleMaps DEF FirstFrame
  <2> QED
    BY <2>1, <2>2
<1>2. CASE FirstChunk
  <2>1. PICK n \in 1..Len(wire) :
          IF Feedable(Chunk(n))
          THEN /\ pending' = Chunk(n) /\ wire' = Rest(n)
               /\ UNCHANGED <<setup, conn, cut, reader, history>>
          ELSE Settle(MalformedSse)
    BY <1>2 DEF FirstChunk
  <2>2. CASE Feedable(Chunk(n))
    <3>1. pending' \o wire' \o cut' = pending \o wire \o cut
      <4>1. pending' = Chunk(n) /\ wire' = Rest(n) /\ cut' = cut /\ pending = << >>
        BY <1>2, <2>1, <2>2 DEF FirstChunk
      <4> QED
        BY <4>1, ChunkMoves, Zenon
    <3> QED
      BY <2>1, <2>2, <3>1, Stutter
      DEF setup, reader, Status, Connection, Queue, InUse, Over
  <2>3. CASE ~Feedable(Chunk(n))
    BY <1>0, <2>1, <2>3, SetupErrors, SettleMaps
  <2> QED
    BY <2>2, <2>3
<1>3. CASE FirstAtEnd
  <2>1. CASE cut # << >> /\ Acknowledges(cut[1])
    <3>1. /\ pending = << >> /\ wire = << >>
          /\ pending' = << >> /\ wire' = << >> /\ cut' = << >> /\ phase' = "open"
          /\ UNCHANGED <<conn, returned, given>>
      BY <1>3, <2>1 DEF FirstAtEnd, Open, HandOver, reader
    <3>2. PICK x \in Item : cut = <<x>>
      BY <2>1, Upto1Facts DEF IInv, TypeOK
    <3>3. Queue = <<x>>
      BY <1>0, <3>1, <3>2, QueueParts, ConcatEmptySeq
    <3>4. Head(<<x>>) = x /\ Tail(<<x>>) = << >> /\ <<x>>[1] = x /\ <<x>> # << >>
      OBVIOUS
    <3>5. << >> \o << >> \o << >> = << >>
      BY Empties, ConcatEmptySeq
    <3>6. pending' \o wire' \o cut' = Tail(Queue)
      BY <3>1, <3>3, <3>4, <3>5, Zenon
    <3>7. Acknowledges(x)
      BY <2>1, <3>2, <3>4
    <3> QED
      BY <1>0, <3>1, <3>3, <3>4, <3>6, <3>7, OpenMaps
  <2>2. CASE ~(cut # << >> /\ Acknowledges(cut[1]))
    BY <1>0, <1>3, <2>2, SetupErrors, SettleMaps DEF FirstAtEnd
  <2> QED
    BY <2>1, <2>2
<1>4. CASE FirstBroken
  BY <1>0, <1>4, TransportFacts, SettleMaps DEF FirstBroken
<1> QED
  BY <1>1, <1>2, <1>3, <1>4

(* An error that ends the stream is an abstract failure with a cause.      *)
LEMMA FailMaps ==
  ASSUME IInv, Starved, ~finished, NEW err, FailStream(err),
         conn = "broken" \/ \E i \in 1..Len(pending \o wire \o cut) :
                              (pending \o wire \o cut)[i].event = "oversize"
  PROVE  AStep
<1>1. phase = "open" /\ ~Over /\ InUse /\ Queue = pending \o wire \o cut
  BY DEF Starved, Running, IInv, Shape, Connected, Over, InUse, Queue
<1>2. phase' = "open" /\ Over' /\ ~InUse' /\ given' = given
  BY <1>1 DEF FailStream, Return, Over, InUse
<1>3. Status = "open" /\ Status' = "over"
  BY <1>1, <1>2 DEF Status
<1>4. Connection = conn /\ Connection' = "down" /\ Queue' = << >>
  BY <1>1, <1>2 DEF Connection, Queue
<1>5. Connection = "broken" \/ Abstract!HasOversized(Queue)
  BY <1>1, <1>4, Zenon DEF Abstract!HasOversized
<1>6. Abstract!Fail
  BY <1>2, <1>3, <1>4, <1>5, Zenon DEF Abstract!Fail, Abstract!Discard
<1> QED
  BY <1>6 DEF AStep, Abstract!Next

(* A frame at the head of the pending ones is at the head of the queue.    *)
LEMMA TakeMaps ==
  ASSUME IInv, TakeMatch \/ SkipFrame
  PROVE  AStep
<1>1. phase = "open" /\ phase' = "open" /\ pending # << >> /\ pending' = Tail(pending)
  BY DEF TakeMatch, SkipFrame, Running, setup
<1>2. UNCHANGED <<conn, wire, cut>>
  BY DEF TakeMatch, SkipFrame, body
<1>3. ~Over /\ ~Over'
  BY <1>1 DEF TakeMatch, SkipFrame, IInv, Shape, Over, Return, Goes
<1>4. conn # "down" /\ conn' # "down"
  BY <1>1, <1>2 DEF IInv, Shape, Connected
<1>5. Status = "open" /\ Status' = "open" /\ Connection' = Connection
  BY <1>1, <1>2, <1>3, <1>4 DEF Status, Connection, InUse
<1>6. Queue = pending \o (wire \o cut)
  BY <1>3, <1>4, QueueParts, Zenon DEF Queue, InUse
<1>7. Tail(pending) \in Seq(Item) /\ Head(pending) \in FrameItem
  BY <1>1, QueueParts, HeadTailProperties DEF IInv, TypeOK
<1>8. Queue' = Tail(pending) \o (wire \o cut)
  <2>1. Queue' = Tail(pending) \o wire \o cut
    BY <1>1, <1>2, <1>3, <1>4 DEF Queue, InUse
  <2> QED
    BY <2>1, <1>7, QueueParts, ConcatAssociative
<1>9. Queue # << >> /\ Head(Queue) = Head(pending) /\ Queue' = Tail(Queue)
  BY <1>1, <1>6, <1>8, QueueParts, HeadOfConcat
<1>10. CASE TakeMatch
  <2>1. given' = Append(given, Head(Queue)) /\ Head(Queue).event = "match"
    BY <1>9, <1>10 DEF TakeMatch
  <2>2. Abstract!Give
    BY <1>5, <1>9, <2>1 DEF Abstract!Give
  <2> QED
    BY <2>2 DEF AStep, Abstract!Next
<1>11. CASE SkipFrame
  <2>1. given' = given /\ Head(Queue).event \notin {"match", "oversize"}
    BY <1>7, <1>9, <1>11 DEF SkipFrame, FrameItem, IsOversize
  <2>2. Abstract!Skip
    BY <1>5, <1>9, <2>1 DEF Abstract!Skip
  <2> QED
    BY <2>2 DEF AStep, Abstract!Next
<1> QED
  BY <1>10, <1>11

(* The other iterations of poll_next.                                      *)
LEMMA PollMaps ==
  ASSUME IInv, IInv', Poll \/ PollStep \/ Abandon
  PROVE  AStep
<1>1. CASE Poll \/ Abandon \/ PollPending
  BY <1>1, Stutter
  DEF Poll, Abandon, PollPending, setup, body, history, Status, Connection, Queue, InUse,
      Over
<1>2. CASE TakeMatch \/ SkipFrame
  BY <1>2, TakeMaps
<1>3. CASE PollAfterEnd
  <2>1. phase = "open" /\ phase' = "open" /\ Over' /\ given' = given
    BY <1>3 DEF PollAfterEnd, Starved, Running, Return, Over, setup
  <2>2. Status' = "over" /\ Connection' = "down" /\ Queue' = << >>
    BY <2>1 DEF Status, Connection, Queue, InUse
  <2>3. CASE Over
    <3>1. Status = "over" /\ Connection = "down" /\ Queue = << >>
      BY <2>1, <2>3 DEF Status, Connection, Queue, InUse
    <3> QED
      BY <2>1, <2>2, <3>1, Stutter
  <2>4. CASE ~Over
    <3>1. conn = "ended" /\ pending = << >> /\ wire = << >> /\ cut = << >>
      BY <1>3, <2>1, <2>4 DEF PollAfterEnd, Starved, IInv, Shape
    <3>2. << >> \o << >> \o << >> = << >>
      BY Empties, ConcatEmptySeq
    <3>3. Status = "open" /\ Connection = "ended" /\ Queue = << >>
      BY <2>1, <2>4, <3>1, <3>2 DEF Status, Connection, Queue, InUse
    <3>4. Abstract!Finish
      BY <2>1, <2>2, <3>3 DEF Abstract!Finish, Abstract!Discard
    <3> QED
      BY <3>4 DEF AStep, Abstract!Next
  <2> QED
    BY <2>3, <2>4
<1>4. CASE PollChunk
  <2>1. PICK n \in 1..Len(wire) :
          /\ wire' = Rest(n)
          /\ IF Feedable(Chunk(n))
             THEN /\ pending' = Chunk(n)
                  /\ Goes /\ UNCHANGED <<setup, finished, given, history>>
             ELSE FailStream(MalformedSse)
    BY <1>4 DEF PollChunk
  <2>2. Starved /\ ~finished /\ pending = << >> /\ UNCHANGED <<conn, cut>>
    BY <1>4 DEF PollChunk, Starved
  <2>3. CASE Feedable(Chunk(n))
    <3>1. pending' \o wire' \o cut' = pending \o wire \o cut
      BY <2>1, <2>2, <2>3, ChunkMoves, Zenon
    <3> QED
      BY <2>1, <2>2, <2>3, <3>1, Stutter
      DEF setup, Goes, Status, Connection, Queue, InUse, Over
  <2>4. CASE ~Feedable(Chunk(n))
    BY <2>1, <2>2, <2>4, ChunkOversized, FailMaps, Zenon
  <2> QED
    BY <2>3, <2>4
<1>5. CASE PollBroken
  BY <1>5, FailMaps DEF PollBroken
<1>6. CASE PollEnd
  <2>1. Starved /\ ~finished /\ pending = << >> /\ wire = << >>
    BY <1>6 DEF PollEnd, AtEnd, Starved
  <2>2. pending \o wire \o cut = cut /\ cut \o << >> \o << >> = cut
    BY <2>1, QueueParts, ConcatEmptySeq
  <2>3. CASE Feedable(cut)
    <3>1. /\ pending' = cut /\ wire' = << >> /\ cut' = << >>
          /\ Goes /\ UNCHANGED <<setup, conn, given, history>>
      BY <1>6, <2>1, <2>3 DEF PollEnd, AtEnd, Flushed
    <3>2. pending' \o wire' \o cut' = pending \o wire \o cut
      BY <2>2, <3>1, Zenon
    <3> QED
      BY <3>1, <3>2, Stutter DEF setup, Goes, Status, Connection, Queue, InUse, Over
  <2>4. CASE ~Feedable(cut)
    <3>1. FailStream(MalformedSse)
      BY <1>6, <2>4 DEF PollEnd
    <3>2. \E i \in 1..Len(cut) : cut[i].event = "oversize"
      BY <2>4 DEF Feedable, IsOversize
    <3> QED
      BY <2>1, <2>2, <3>1, <3>2, FailMaps, Zenon
  <2> QED
    BY <2>3, <2>4
<1> QED
  BY <1>1, <1>2, <1>3, <1>4, <1>5, <1>6 DEF PollStep

(* What the server sends joins the queue; a stream that is over ignores it. *)
LEMMA SentMaps ==
  ASSUME IInv, NEW item \in Items, conn = "up", conn' \in {"up", "ended"},
         UNCHANGED <<phase, pending, returned, given>>,
         pending \o wire' \o cut' = Append(pending \o wire, item)
  PROVE  AStep
<1>1. CASE Over
  BY <1>1, Stutter DEF Over, Status, Connection, Queue, InUse
<1>2. CASE ~Over
  <2>1. Connection = "up" /\ Connection' = conn'
    BY <1>2 DEF Connection, InUse, Over
  <2>2. Status' = Status
    BY DEF Status, Over
  <2>3. Queue = pending \o wire
    <3>1. cut = << >>
      BY DEF IInv, Shape
    <3>2. pending \o wire \in Seq(Item)
      BY QueueParts, ConcatProperties
    <3> QED
      BY <1>2, <3>1, <3>2, ConcatEmptySeq DEF Queue, InUse
  <2>4. Queue' = Append(Queue, item)
    BY <1>2, <2>3 DEF Queue, InUse, Over
  <2>5. Abstract!Sent(item)
    BY <2>1, <2>2, <2>4 DEF Abstract!Sent
  <2> QED
    BY <2>5 DEF AStep, Abstract!Next
<1> QED
  BY <1>1, <1>2

(* The connection ends or breaks with nothing more on it.                  *)
LEMMA GoneMaps ==
  ASSUME IInv, conn = "up", conn' \in {"ended", "broken"},
         UNCHANGED <<phase, wire, cut, pending, returned, given>>
  PROVE  AStep
<1>1. CASE Over
  BY <1>1, Stutter DEF Over, Status, Connection, Queue, InUse
<1>2. CASE ~Over
  <2>1. Connection = "up" /\ Connection' = conn' /\ Queue' = Queue /\ Status' = Status
    BY <1>2 DEF Connection, Queue, Status, InUse, Over
  <2>2. Abstract!Gone
    BY <2>1 DEF Abstract!Gone
  <2> QED
    BY <2>2 DEF AStep, Abstract!Next
<1> QED
  BY <1>1, <1>2

(* The server, the network and a caller who leaves.                        *)
LEMMA OthersMap ==
  ASSUME IInv, ServerSends \/ ServerEnds \/ ConnectionBreaks \/ Drop
  PROVE  AStep
<1>1. CASE ServerSends
  <2>1. PICK item \in Items : wire' = Append(wire, item)
    BY <1>1 DEF ServerSends
  <2>2. /\ conn = "up" /\ conn' = "up" /\ cut = << >> /\ cut' = << >>
        /\ UNCHANGED <<phase, pending, returned, given>>
    BY <1>1 DEF ServerSends, setup, reader, IInv, Shape
  <2>3. pending \o wire' \o cut' = Append(pending \o wire, item)
    BY <2>1, <2>2, ItemArrives
  <2> QED
    BY <2>2, <2>3, SentMaps
<1>2. CASE ServerEnds
  <2>1. /\ conn = "up" /\ conn' = "ended" /\ wire' = wire
        /\ UNCHANGED <<phase, pending, returned, given>>
    BY <1>2 DEF ServerEnds, setup, reader
  <2>2. CASE cut' = cut
    BY <2>1, <2>2, GoneMaps
  <2>3. ASSUME NEW item \in Items, cut' = <<item>>
        PROVE  AStep
    <3>1. pending \o wire' \o cut' = Append(pending \o wire, item)
      BY <2>1, <2>3, ItemArrives
    <3> QED
      BY <2>1, <3>1, SentMaps
  <2> QED
    BY <1>2, <2>2, <2>3 DEF ServerEnds
<1>3. CASE ConnectionBreaks
  BY <1>3, GoneMaps DEF ConnectionBreaks, setup, reader, history
<1>4. CASE Drop
  <2>1. phase \notin {"failed", "dropped"} /\ phase' = "dropped" /\ given' = given
    BY <1>4 DEF Drop
  <2>2. Status \in {"setup", "open", "over"} /\ Status' = "closed"
    BY <2>1 DEF Status
  <2>3. Connection' = "down" /\ Queue' = << >>
    BY <1>4 DEF Drop, Disconnect, Connection, Queue, InUse
  <2>4. Abstract!GiveUpSetup \/ Abstract!Close
    BY <2>1, <2>2, <2>3 DEF Abstract!GiveUpSetup, Abstract!Close, Abstract!Discard
  <2> QED
    BY <2>4 DEF AStep, Abstract!Next
<1> QED
  BY <1>1, <1>2, <1>3, <1>4

(* What subscribe() and the stream it returns do, over any chunks, retries *)
(* and polls, is what MatchStream promises the reader.                     *)
THEOREM Refines == Spec => Implements
<1>1. Init => Abstract!Init
  <2> SUFFICES ASSUME Init PROVE Abstract!Init
    OBVIOUS
  <2>1. phase = "ready" /\ conn = "down" /\ given = << >>
    BY DEF Init
  <2> QED
    BY <2>1 DEF Abstract!Init, Status, Connection, Queue, InUse
<1>2. IInv /\ IInv' /\ [Next]_vars => AStep
  <2> SUFFICES ASSUME IInv, IInv', [Next]_vars PROVE AStep
    OBVIOUS
  <2>1. CASE UNCHANGED vars
    BY <2>1, Stutter
    DEF vars, setup, body, reader, history, Status, Connection, Queue, InUse, Over
  <2> QED
    BY <2>1, SetupMaps, HandshakeMaps, PollMaps, OthersMap DEF Next, PollStep
<1> QED
  BY <1>1, <1>2, IInvariant, PTL DEF Spec, Implements, Abstract!Spec, AStep
-----------------------------------------------------------------------------
(***************************************************************************)
(* No match is lost.                                                       *)
(***************************************************************************)
MatchItems == {item \in Item : item.event = "match"}

(* The matches among some items are those selected by their event.         *)
LEMMA MatchesSelected ==
  ASSUME NEW s \in Seq(Item)
  PROVE  Matches(s) = Selected(s, MatchItems)
<1>1. {i \in DOMAIN s : s[i].event = "match"} = {i \in DOMAIN s : s[i] \in MatchItems}
  BY ElementOfSeq DEF MatchItems
<1> QED
  BY <1>1, Zenon DEF Matches, Selected

(* What was given and what is on the way are what was sent.                *)
Balance(all, before, way) == Matches(all) = before \o Matches(way)

(* An item that is sent is on the way.                                     *)
LEMMA BalanceSent ==
  ASSUME NEW all \in Seq(Item), NEW before \in Seq(Item), NEW way \in Seq(Item),
         NEW item \in Item, Balance(all, before, way)
  PROVE  Balance(Append(all, item), before, Append(way, item))
<1> DEFINE one == <<item>>
           m == Selected(all, MatchItems)
           w == Selected(way, MatchItems)
           o == Selected(one, MatchItems)
<1>1. /\ one \in Seq(Item) /\ all \o one \in Seq(Item) /\ way \o one \in Seq(Item)
      /\ Append(all, item) = all \o one /\ Append(way, item) = way \o one
  BY AppendIsConcat, ConcatProperties
<1> HIDE DEF one
<1>2. m \in Seq(Item) /\ w \in Seq(Item) /\ o \in Seq(Item)
  BY <1>1, SelectionTyped
<1>3. m = before \o w
  BY MatchesSelected, Zenon DEF Balance
<1>4. /\ Selected(all \o one, MatchItems) = m \o o
      /\ Selected(way \o one, MatchItems) = w \o o
  <2>1. SelectsJoins(Item, MatchItems)
    BY SelectionJoins, Zenon
  <2> QED
    BY <1>1, <2>1, Zenon DEF SelectsJoins
<1> HIDE DEF m, w, o
<1>5. (before \o w) \o o = before \o (w \o o)
  <2>1. Associates(Item)
    BY ConcatLaws, Zenon
  <2> QED
    BY <1>2, <2>1, Zenon DEF Associates
<1>6. Selected(all \o one, MatchItems) = before \o Selected(way \o one, MatchItems)
  BY <1>3, <1>4, <1>5, Zenon
<1> QED
  BY <1>1, <1>6, MatchesSelected, Zenon DEF Balance

(* The first item leaves the way: a match is given, any other is skipped.  *)
LEMMA BalanceLeft ==
  ASSUME NEW all \in Seq(Item), NEW before \in Seq(Item), NEW way \in Seq(Item),
         way # << >>, Balance(all, before, way)
  PROVE  /\ Head(way).event = "match" => Balance(all, Append(before, Head(way)), Tail(way))
         /\ Head(way).event # "match" => Balance(all, before, Tail(way))
<1>1. Head(way) \in Item /\ Tail(way) \in Seq(Item)
  BY HeadTailProperties
<1>2. Head(way) \in MatchItems <=> Head(way).event = "match"
  BY <1>1 DEF MatchItems
<1>3. Selected(all, MatchItems) = before \o Selected(way, MatchItems)
  BY MatchesSelected, Zenon DEF Balance
<1>4. SelectsHeads(Item, MatchItems)
  BY SelectionHeads, Zenon
<1>5. /\ Head(way) \in MatchItems =>
           Selected(all, MatchItems) =
             Append(before, Head(way)) \o Selected(Tail(way), MatchItems)
      /\ Head(way) \notin MatchItems =>
           Selected(all, MatchItems) = before \o Selected(Tail(way), MatchItems)
  BY <1>3, <1>4, Zenon DEF SelectsHeads
<1> QED
  BY <1>1, <1>2, <1>5, MatchesSelected, Zenon DEF Balance

(* Nothing is owed of what is all on the way, or all given.                *)
LEMMA BalanceEnds ==
  ASSUME NEW all \in Seq(Item)
  PROVE  /\ Balance(all, << >>, all)
         /\ \A before \in Seq(Item) : Balance(all, before, << >>) => Matches(all) = before
<1>1. Matches(all) \in Seq(Item)
  BY MatchesSelected, SelectionTyped
<1>2. << >> \o Matches(all) = Matches(all)
  BY <1>1, ConcatEmptySeq
<1>3. Matches(<< >>) = << >>
  <2>1. << >> \in Seq(Item)
    OBVIOUS
  <2>2. SelectsOne(Item, MatchItems)
    BY SelectionOne, Zenon
  <2> QED
    BY <2>1, <2>2, MatchesSelected, Zenon DEF SelectsOne
<1>4. ASSUME NEW before \in Seq(Item), Balance(all, before, << >>)
      PROVE  Matches(all) = before
  <2>1. before \o << >> = before
    BY ConcatEmptySeq
  <2> QED
    BY <1>3, <1>4, <2>1, Zenon DEF Balance
<1> QED
  BY <1>2, <1>4, Zenon DEF Balance
-----------------------------------------------------------------------------
(* The inductive invariant: before the stream is open nothing was given,   *)
(* and all that was sent is on its way; then the matches balance, and a    *)
(* body whose end was noticed has nothing left on the way but the frames   *)
(* pending.                                                                *)
Way == pending \o wire \o cut

LostInv ==
  /\ phase \notin {"open", "dropped"} => given = << >>
  /\ phase = "handshake" => sent = Way
  /\ phase = "open" /\ error = Ok =>
       /\ Balance(sent, given, Way)
       /\ finished => conn = "ended" /\ wire = << >> /\ cut = << >>

(* The histories and the way are items.                                    *)
LEMMA LostTyped ==
  ASSUME IInv
  PROVE  Way \in Seq(Item) /\ sent \in Seq(Item) /\ given \in Seq(Item)
<1>1. Way \in Seq(Item)
  BY QueueParts, ConcatProperties, Zenon DEF Way
<1> QED
  BY <1>1, QueueParts DEF IInv, TypeOK

(* The first pending frame is the first on the way.                        *)
LEMMA WayLeft ==
  ASSUME IInv, pending # << >>
  PROVE  /\ Way # << >> /\ Head(Way) = Head(pending)
         /\ Tail(pending) \o wire \o cut = Tail(Way)
<1>1. Tail(pending) \in Seq(Item)
  BY QueueParts, HeadTailProperties
<1>2. /\ pending \o (wire \o cut) # << >>
      /\ Head(pending \o (wire \o cut)) = Head(pending)
      /\ Tail(pending \o (wire \o cut)) = Tail(pending) \o (wire \o cut)
  BY QueueParts, HeadOfConcat
<1>3. Tail(pending) \o wire \o cut = Tail(pending) \o (wire \o cut)
  BY <1>1, QueueParts, ConcatAssociative
<1> QED
  BY <1>2, <1>3, QueueParts, Zenon DEF Way

(* The errors that end an attempt or a stream are errors.                  *)
LEMMA NotOk == MalformedSse # Ok /\ Transport # Ok
  BY DEF MalformedSse, Transport, Ok

(* Steps that move frames along the way, and nothing else.                 *)
LEMMA LostMoves ==
  ASSUME LostInv, phase' = phase, error' = error, given' = given, sent' = sent, Way' = Way,
         phase = "open" /\ error = Ok /\ finished' =>
           conn' = "ended" /\ wire' = << >> /\ cut' = << >>
  PROVE  LostInv'
<1>1. Balance(sent, given, Way)' = Balance(sent, given, Way)
  BY DEF Balance, Matches
<1> QED
  BY <1>1 DEF LostInv

(* Steps that leave all of this alone.                                     *)
LEMMA LostStill ==
  ASSUME LostInv, phase' = phase, error' = error, conn' = conn, wire' = wire, cut' = cut,
         pending' = pending, finished' = finished, given' = given, sent' = sent
  PROVE  LostInv'
<1>1. Way' = Way
  BY DEF Way
<1> QED
  BY <1>1, LostMoves DEF LostInv

(* An attempt that is settled gave nothing.                                *)
LEMMA LostSettle ==
  ASSUME IInv, LostInv, NEW err \in Result, Settle(err), phase \notin {"open", "dropped"}
  PROVE  LostInv'
  BY SettleFacts DEF IInv, LostInv

(* A stream that failed owes nothing.                                      *)
LEMMA LostFail ==
  ASSUME IInv, LostInv, Running, NEW err, err # Ok, FailStream(err)
  PROVE  LostInv'
  BY DEF Running, FailStream, LostInv

(* The steps of subscribe() before a response arrives.                     *)
LEMMA LostSetup ==
  ASSUME IInv, LostInv,
         Send \/ ConnectionFails \/ Refused \/ WrongContentType \/ Accepted \/ Wake
  PROVE  LostInv'
<1>1. CASE Send \/ Wake
  BY <1>1 DEF Send, Wake, reader, LostInv
<1>2. CASE ConnectionFails
  BY <1>2, LostSettle, TransportFacts DEF ConnectionFails
<1>3. CASE Refused
  BY <1>3, LostSettle, DecodedTyped, RefusalsAssumption DEF Refused
<1>4. CASE WrongContentType
  BY <1>4, LostSettle, SetupErrors DEF WrongContentType
<1>5. CASE Accepted
  <2>1. /\ phase = "requested" /\ phase' = "handshake" /\ sent' = << >> /\ given' = given
        /\ pending' = << >> /\ wire' = << >> /\ cut' = << >>
    BY <1>5 DEF Accepted, reader, IInv, Shape, Connected
  <2>2. << >> \o << >> \o << >> = << >>
    BY Empties, ConcatEmptySeq
  <2>3. Way' = << >>
    BY <2>1, <2>2, Zenon DEF Way
  <2> QED
    BY <2>1, <2>3 DEF LostInv
<1> QED
  BY <1>1, <1>2, <1>3, <1>4, <1>5

(* The handshake gives nothing, and its first frame is no match.           *)
LEMMA LostOpen ==
  ASSUME IInv, LostInv, phase = "handshake", phase' = "open", Way # << >>,
         Acknowledges(Head(Way)), Way' = Tail(Way), UNCHANGED <<sent, given, finished>>
  PROVE  LostInv'
<1>1. given = << >> /\ sent = Way /\ ~finished
  BY DEF LostInv, IInv, Shape
<1>2. Balance(sent, << >>, Way)
  BY <1>1, LostTyped, BalanceEnds, Zenon
<1>3. Head(Way).event # "match"
  BY DEF Acknowledges
<1>4. Balance(sent, << >>, Tail(Way))
  <2>1. << >> \in Seq(Item)
    OBVIOUS
  <2> QED
    BY <1>2, <1>3, <2>1, LostTyped, BalanceLeft
<1>5. sent' = sent /\ given' = << >> /\ ~finished' /\ Way' = Tail(Way)
  BY <1>1
<1>6. Balance(sent', given', Way')
  BY <1>4, <1>5, Zenon
<1> QED
  BY <1>5, <1>6 DEF LostInv, Balance, Matches

LEMMA LostHandshake ==
  ASSUME IInv, LostInv, FirstFrame \/ FirstChunk \/ FirstAtEnd \/ FirstBroken
  PROVE  LostInv'
<1>0. phase = "handshake"
  BY DEF FirstFrame, FirstChunk, FirstAtEnd, FirstBroken
<1>1. CASE FirstFrame
  <2>1. CASE Acknowledges(Head(pending))
    <3>1. /\ pending # << >> /\ pending' = Tail(pending) /\ cut' = cut /\ wire' = wire
          /\ phase' = "open" /\ UNCHANGED <<sent, given, finished>>
      BY <1>1, <2>1 DEF FirstFrame, Open, HandOver, reader, history
    <3>2. Way' = Tail(pending) \o wire \o cut
      BY <3>1, Zenon DEF Way
    <3>3. Way # << >> /\ Acknowledges(Head(Way)) /\ Way' = Tail(Way)
      BY <2>1, <3>1, <3>2, WayLeft, Zenon
    <3> QED
      BY <1>0, <3>1, <3>3, LostOpen
  <2>2. CASE ~Acknowledges(Head(pending))
    BY <1>0, <1>1, <2>2, LostSettle, SetupErrors DEF FirstFrame
  <2> QED
    BY <2>1, <2>2
<1>2. CASE FirstChunk
  <2>1. PICK n \in 1..Len(wire) :
          IF Feedable(Chunk(n))
          THEN /\ pending' = Chunk(n) /\ wire' = Rest(n)
               /\ UNCHANGED <<setup, conn, cut, reader, history>>
          ELSE Settle(MalformedSse)
    BY <1>2 DEF FirstChunk
  <2>2. CASE Feedable(Chunk(n))
    <3>1. pending = << >> /\ pending' = Chunk(n) /\ wire' = Rest(n) /\ cut' = cut
      BY <1>2, <2>1, <2>2 DEF FirstChunk
    <3>2. Way' = Way
      BY <3>1, ChunkMoves, Zenon DEF Way
    <3>3. phase' = phase /\ error' = error /\ given' = given /\ sent' = sent
      BY <2>1, <2>2 DEF setup, reader, history
    <3> QED
      BY <1>0, <3>2, <3>3, LostMoves
  <2>3. CASE ~Feedable(Chunk(n))
    BY <1>0, <2>1, <2>3, LostSettle, SetupErrors
  <2> QED
    BY <2>2, <2>3
<1>3. CASE FirstAtEnd
  <2>1. CASE cut # << >> /\ Acknowledges(cut[1])
    <3>1. /\ pending = << >> /\ wire = << >> /\ phase' = "open"
          /\ pending' = << >> /\ wire' = << >> /\ cut' = << >>
          /\ UNCHANGED <<sent, given, finished>>
      BY <1>3, <2>1 DEF FirstAtEnd, Open, HandOver, reader, history
    <3>2. PICK x \in Item : cut = <<x>>
      BY <2>1, Upto1Facts DEF IInv, TypeOK
    <3>3. Head(<<x>>) = x /\ Tail(<<x>>) = << >> /\ <<x>>[1] = x /\ <<x>> # << >>
      OBVIOUS
    <3>4. << >> \o << >> \o << >> = << >> /\ << >> \o << >> \o <<x>> = <<x>>
      BY Empties, ConcatEmptySeq
    <3>5. Way = <<x>> /\ Way' = << >>
      BY <3>1, <3>2, <3>4, Zenon DEF Way
    <3>6. Way # << >> /\ Acknowledges(Head(Way)) /\ Way' = Tail(Way)
      <4>1. Acknowledges(x)
        BY <2>1, <3>2, <3>3
      <4> QED
        BY <3>3, <3>5, <4>1, Zenon
    <3> QED
      BY <1>0, <3>1, <3>6, LostOpen
  <2>2. CASE ~(cut # << >> /\ Acknowledges(cut[1]))
    BY <1>0, <1>3, <2>2, LostSettle, SetupErrors DEF FirstAtEnd
  <2> QED
    BY <2>1, <2>2
<1>4. CASE FirstBroken
  BY <1>0, <1>4, LostSettle, TransportFacts DEF FirstBroken
<1> QED
  BY <1>1, <1>2, <1>3, <1>4

(* poll_next gives what is first on the way, and moves the rest.           *)
LEMMA LostTake ==
  ASSUME IInv, LostInv, TakeMatch \/ SkipFrame
  PROVE  LostInv'
<1>1. /\ phase = "open" /\ pending # << >> /\ pending' = Tail(pending)
      /\ UNCHANGED <<phase, error, conn, wire, cut, finished, sent>>
  BY DEF TakeMatch, SkipFrame, Running, setup, body, history
<1>2. Way # << >> /\ Head(Way) = Head(pending) /\ Way' = Tail(Way)
  <2>1. Way' = Tail(pending) \o wire \o cut
    BY <1>1, Zenon DEF Way
  <2> QED
    BY <1>1, <2>1, WayLeft, Zenon
<1>3. ASSUME error = Ok
      PROVE  Balance(sent, given', Tail(Way))
  <2>1. Balance(sent, given, Way)
    BY <1>1, <1>3 DEF LostInv
  <2>2. CASE TakeMatch
    <3>1. given' = Append(given, Head(Way)) /\ Head(Way).event = "match"
      BY <1>2, <2>2 DEF TakeMatch
    <3> QED
      BY <1>2, <2>1, <3>1, LostTyped, BalanceLeft
  <2>3. CASE SkipFrame
    <3>1. given' = given /\ Head(Way).event # "match"
      BY <1>2, <2>3 DEF SkipFrame
    <3> QED
      BY <1>2, <2>1, <3>1, LostTyped, BalanceLeft
  <2> QED
    BY <2>2, <2>3
<1>4. error = Ok => Balance(sent', given', Way')
  BY <1>1, <1>2, <1>3, Zenon
<1> QED
  BY <1>1, <1>4 DEF LostInv, Balance, Matches

LEMMA LostPoll ==
  ASSUME IInv, LostInv, Poll \/ PollStep \/ Abandon
  PROVE  LostInv'
<1>1. CASE Poll \/ Abandon \/ PollPending \/ PollAfterEnd
  <2>1. /\ phase' = phase /\ error' = error /\ conn' = conn /\ wire' = wire /\ cut' = cut
        /\ pending' = pending /\ finished' = finished /\ given' = given /\ sent' = sent
    BY <1>1 DEF Poll, Abandon, PollPending, PollAfterEnd, setup, body, history
  <2> QED
    BY <2>1, LostStill
<1>2. CASE TakeMatch \/ SkipFrame
  BY <1>2, LostTake
<1>3. CASE PollChunk
  <2>1. PICK n \in 1..Len(wire) :
          /\ wire' = Rest(n)
          /\ IF Feedable(Chunk(n))
             THEN /\ pending' = Chunk(n)
                  /\ Goes /\ UNCHANGED <<setup, finished, given, history>>
             ELSE FailStream(MalformedSse)
    BY <1>3 DEF PollChunk
  <2>2. Running /\ ~finished /\ pending = << >> /\ UNCHANGED <<conn, cut>>
    BY <1>3 DEF PollChunk, Starved
  <2>3. CASE Feedable(Chunk(n))
    <3>1. Way' = Way
      BY <2>1, <2>2, <2>3, ChunkMoves, Zenon DEF Way
    <3>2. /\ phase' = phase /\ error' = error /\ given' = given /\ sent' = sent
          /\ finished' = finished
      BY <2>1, <2>2, <2>3 DEF setup, history
    <3> QED
      BY <2>2, <3>1, <3>2, LostMoves
  <2>4. CASE ~Feedable(Chunk(n))
    BY <2>1, <2>2, <2>4, NotOk, LostFail
  <2> QED
    BY <2>3, <2>4
<1>4. CASE PollBroken
  BY <1>4, NotOk, LostFail DEF PollBroken, Starved
<1>5. CASE PollEnd
  <2>1. Running /\ pending = << >> /\ wire = << >> /\ conn = "ended"
    BY <1>5 DEF PollEnd, AtEnd, Starved
  <2>2. pending \o wire \o cut = cut /\ cut \o << >> \o << >> = cut
    BY <2>1, QueueParts, ConcatEmptySeq
  <2>3. CASE Feedable(cut)
    <3>1. /\ pending' = cut /\ wire' = << >> /\ cut' = << >>
          /\ phase' = phase /\ error' = error /\ given' = given /\ sent' = sent
          /\ conn' = conn
      BY <1>5, <2>1, <2>3 DEF PollEnd, AtEnd, Flushed, setup, history
    <3>2. Way' = Way
      BY <2>2, <3>1, Zenon DEF Way
    <3> QED
      BY <2>1, <3>1, <3>2, LostMoves
  <2>4. CASE ~Feedable(cut)
    BY <1>5, <2>1, <2>4, NotOk, LostFail DEF PollEnd
  <2> QED
    BY <2>3, <2>4
<1> QED
  BY <1>1, <1>2, <1>3, <1>4, <1>5 DEF PollStep

(* An item that is sent is on the way.                                     *)
LEMMA LostSent ==
  ASSUME IInv, LostInv, NEW item \in Items, conn = "up",
         UNCHANGED <<phase, error, pending, finished, given>>,
         sent' = Append(sent, item), pending \o wire' \o cut' = Append(pending \o wire, item)
  PROVE  LostInv'
<1>1. cut = << >> /\ item \in Item
  BY ItemsAssumption DEF IInv, Shape
<1>2. Way = pending \o wire
  <2>1. pending \o wire \in Seq(Item)
    BY QueueParts, ConcatProperties
  <2>2. pending \o wire \o << >> = pending \o wire
    BY <2>1, ConcatEmptySeq
  <2> QED
    BY <1>1, <2>2, Zenon DEF Way
<1>3. Way' = Append(Way, item)
  <2>1. Way' = pending \o wire' \o cut'
    BY DEF Way
  <2> QED
    BY <1>2, <2>1, Zenon
<1>4. CASE phase = "open" /\ error = Ok
  <2>1. Balance(sent, given, Way) /\ ~finished
    BY <1>4 DEF LostInv
  <2>2. Balance(Append(sent, item), given, Append(Way, item))
    BY <1>1, <2>1, LostTyped, BalanceSent
  <2>3. Balance(sent', given', Way')
    BY <1>3, <2>2, Zenon
  <2> QED
    BY <1>4, <2>1, <2>3 DEF LostInv, Balance, Matches
<1>5. CASE phase = "handshake"
  BY <1>3, <1>5 DEF LostInv
<1>6. CASE phase # "handshake" /\ ~(phase = "open" /\ error = Ok)
  BY <1>6 DEF LostInv
<1> QED
  BY <1>4, <1>5, <1>6

LEMMA LostOthers ==
  ASSUME IInv, LostInv, ServerSends \/ ServerEnds \/ ConnectionBreaks \/ Drop
  PROVE  LostInv'
<1>1. CASE ServerSends
  <2>1. PICK item \in Items : sent' = Append(sent, item) /\ wire' = Append(wire, item)
    BY <1>1 DEF ServerSends
  <2>2. /\ conn = "up" /\ cut = << >> /\ cut' = << >>
        /\ UNCHANGED <<phase, error, pending, finished, given>>
    BY <1>1 DEF ServerSends, setup, reader, IInv, Shape
  <2>3. pending \o wire' \o cut' = Append(pending \o wire, item)
    BY <2>1, <2>2, ItemArrives
  <2> QED
    BY <2>1, <2>2, <2>3, LostSent
<1>2. CASE ServerEnds
  <2>1. /\ conn = "up" /\ conn' = "ended" /\ wire' = wire
        /\ UNCHANGED <<phase, error, pending, finished, given>>
    BY <1>2 DEF ServerEnds, setup, reader
  <2>2. CASE UNCHANGED <<cut, sent>>
    <3>1. Way' = Way
      BY <2>1, <2>2, Zenon DEF Way
    <3> QED
      BY <2>1, <2>2, <3>1 DEF LostInv, Balance, Matches
  <2>3. ASSUME NEW item \in Items, cut' = <<item>>, sent' = Append(sent, item)
        PROVE  LostInv'
    <3>1. pending \o wire' \o cut' = Append(pending \o wire, item)
      BY <2>1, <2>3, ItemArrives
    <3> QED
      BY <2>1, <2>3, <3>1, LostSent
  <2> QED
    BY <1>2, <2>2, <2>3 DEF ServerEnds
<1>3. CASE ConnectionBreaks
  <2>1. /\ conn = "up" /\ UNCHANGED <<phase, error, wire, cut, pending, finished, given, sent>>
    BY <1>3 DEF ConnectionBreaks, setup, reader, history
  <2>2. Way' = Way
    BY <2>1, Zenon DEF Way
  <2> QED
    BY <2>1, <2>2 DEF LostInv, Balance, Matches
<1>4. CASE Drop
  BY <1>4 DEF Drop, LostInv
<1> QED
  BY <1>1, <1>2, <1>3, <1>4

(* Every step keeps the balance.                                           *)
LEMMA LostNext == IInv /\ LostInv /\ [Next]_vars => LostInv'
<1>1. ASSUME IInv, LostInv, UNCHANGED vars PROVE LostInv'
  <2>1. /\ phase' = phase /\ error' = error /\ conn' = conn /\ wire' = wire /\ cut' = cut
        /\ pending' = pending /\ finished' = finished /\ given' = given /\ sent' = sent
    BY <1>1 DEF vars, setup, body, reader, history
  <2> QED
    BY <1>1, <2>1, LostStill
<1> QED
  BY <1>1, LostSetup, LostHandshake, LostPoll, LostOthers DEF Next, PollStep

(* Every match the server sent was given once and in order, or is on its   *)
(* way to the reader, over the hand-over from subscribe_once to the stream, *)
(* abandoned polls and the end of the body; after a clean end all were     *)
(* given.                                                                  *)
THEOREM NoMatchLost == Spec => []NothingLost
<1>1. Init => LostInv
  BY DEF Init, LostInv
<1>2. IInv /\ LostInv => NothingLost
  <2> SUFFICES ASSUME IInv, LostInv, phase = "open", error = Ok
               PROVE  /\ Balance(sent, given, Way)
                      /\ returned = "end" => Matches(sent) = given
    BY Zenon DEF NothingLost, Balance, Way
  <2>1. Balance(sent, given, Way)
    BY DEF LostInv
  <2>2. ASSUME returned = "end" PROVE Matches(sent) = given
    <3>1. pending = << >> /\ wire = << >> /\ cut = << >>
      BY <2>2 DEF LostInv, IInv, Shape, Over
    <3>2. << >> \o << >> \o << >> = << >>
      BY Empties, ConcatEmptySeq
    <3>3. Balance(sent, given, << >>)
      BY <2>1, <3>1, <3>2, Zenon DEF Way
    <3> QED
      BY <3>3, LostTyped, BalanceEnds
  <2> QED
    BY <2>1, <2>2
<1> QED
  BY <1>1, <1>2, IInvariant, LostNext, PTL DEF Spec
=============================================================================
