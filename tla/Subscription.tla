----------------------------- MODULE Subscription -----------------------------
(***************************************************************************)
(* Client::subscribe and the stream it returns (src/semantik/subscribe.rs) *)
(* over a connection whose server sends frames, ends or breaks it: the     *)
(* retried handshake, the hand-over of the scanner and of the frames that  *)
(* arrived with the acknowledgement, and poll_next, one action per         *)
(* iteration of its loop and of try_take_match's, since the body may       *)
(* become ready, end or break between any two of them.                     *)
(*                                                                         *)
(* The scanner is used at the grain of whole frames, which SseScanner      *)
(* justifies: a chunk completes some number of the items under way, one    *)
(* too large makes feed() fail and takes the chunk's other frames with it, *)
(* and an item cut by the end of the body is flushed by close().           *)
(*                                                                         *)
(* FeedableFirst, HandOverEmpty, FlushedNothing, BreakUnnoticed and        *)
(* EndUnnoticed are plausible slips of the definition that follows each.   *)
(***************************************************************************)
EXTENDS RetryPolicy, Positions

CONSTANTS
  Messages,    \* payloads that decode
  NoData,      \* a payload that does not decode, or lacks its id
  Items,       \* what a server may send
  Responses,   \* the HTTP answers that refuse a handshake
  MaxItems     \* bound: items sent on one connection

Events == {"subscribed", "match", "other", "oversize"}
Item == [event : Events, data : Messages \union {NoData}]

ASSUME NoDataAssumption == NoData \notin Messages
ASSUME ItemsAssumption == Items \subseteq Item
ASSUME RefusalsAssumption ==
  Responses \subseteq Response /\ \A r \in Responses : ~IsSuccess(r)
ASSUME MaxItemsAssumption == MaxItems \in Nat

VARIABLES
  phase,      \* "ready", "requested", "handshake" or "sleeping" in subscribe(),
              \* "failed" when it returned Err, "open", "dropped"
  attempt,    \* run_with_retry's counter
  error,      \* the last error: the source of SubscribeSetup before the stream
              \* is open and of SubscribeStream after; Ok if there is none
  conn,       \* the response body: "down", "up", "ended" or "broken"
  wire,       \* items that arrived and were not yet fed to the scanner
  cut,        \* the item the end of the body left unterminated, if any
  pending,    \* frames the scanner returned, not yet looked at
  finished,   \* Subscription.finished
  polling,    \* poll_next is "running", or it returned Pending to a reader who
              \* awaits it ("suspended"), or neither ("idle")
  returned,   \* what it last returned: "nothing", "match", "error" or "end"
  given,      \* history: the match frames the reader was given
  sent,       \* history: what the server sent on this connection
  streams     \* history: handshakes the server accepted

setup == <<phase, attempt, error>>
body == <<conn, wire, cut>>
reader == <<finished, polling, returned, given>>
history == <<sent, streams>>
vars == <<setup, body, pending, reader, history>>

MalformedSse == [Transport EXCEPT !.kind = "malformed_sse"]

IsOversize(item) == item.event = "oversize"
FeedableFirst(items) == items = << >> \/ ~IsOversize(items[1])
Feedable(items) == \A i \in 1..Len(items) : ~IsOversize(items[i])

Chunk(n) == SubSeq(wire, 1, n)
Rest(n) == SubSeq(wire, n + 1, Len(wire))

(* What close() hands out at the end of the body.                          *)
FlushedNothing(left) == << >>
Flushed(left) == left

(* The first frame carries the id of the subscription.                     *)
Acknowledges(frame) == frame.event = "subscribed" /\ frame.data # NoData
-----------------------------------------------------------------------------
Init ==
  /\ phase = "ready" /\ attempt = 0 /\ error = Ok
  /\ conn = "down" /\ wire = << >> /\ cut = << >> /\ pending = << >>
  /\ finished = FALSE /\ polling = "idle"
  /\ returned = "nothing" /\ given = << >>
  /\ sent = << >> /\ streams = 0

Disconnect == conn' = "down" /\ wire' = << >> /\ cut' = << >> /\ pending' = << >>

(* run_with_retry on the error of an attempt, whose connection is dropped. *)
Settle(err) ==
  /\ error' = err
  /\ \E d \in Decisions(attempt, err) :
       phase' = IF d = GiveUp THEN "failed" ELSE "sleeping"
  /\ Disconnect
  /\ UNCHANGED <<attempt, reader, history>>

Wake ==
  /\ phase = "sleeping"
  /\ phase' = "ready"
  /\ attempt' = attempt + 1
  /\ UNCHANGED <<error, body, pending, reader, history>>

Send ==
  /\ phase = "ready"
  /\ phase' = "requested"
  /\ UNCHANGED <<attempt, error, body, pending, reader, history>>

(* No connection, no answer, or an error body that cannot be read.         *)
ConnectionFails == phase \in {"ready", "requested"} /\ Settle(Transport)

Refused ==
  /\ phase = "requested"
  /\ \E response \in Responses : Settle(DecodeErrorResponse(response))

WrongContentType == phase = "requested" /\ Settle(MalformedSse)

Accepted ==
  /\ phase = "requested"
  /\ phase' = "handshake"
  /\ conn' = "up" /\ sent' = << >>
  /\ streams' = streams + 1
  /\ UNCHANGED <<attempt, error, wire, cut, pending, reader>>

(* subscribe_once's loop: a frame is looked for before the body is read.   *)
(* The body, the scanner and the frames behind the first one move into the *)
(* Subscription.                                                           *)
HandOverEmpty(rest) == pending' = << >>
HandOver(rest) == pending' = rest

Open(rest) ==
  /\ phase' = "open" /\ error' = Ok
  /\ HandOver(rest)
  /\ UNCHANGED <<attempt, conn, wire, reader, history>>

FirstFrame ==
  /\ phase = "handshake" /\ pending # << >>
  /\ IF Acknowledges(Head(pending))
     THEN Open(Tail(pending)) /\ UNCHANGED cut
     ELSE Settle(MalformedSse)

FirstChunk ==
  /\ phase = "handshake" /\ pending = << >>
  /\ \E n \in 1..Len(wire) :
       IF Feedable(Chunk(n))
       THEN /\ pending' = Chunk(n) /\ wire' = Rest(n)
            /\ UNCHANGED <<setup, conn, cut, reader, history>>
       ELSE Settle(MalformedSse)

FirstAtEnd ==
  /\ phase = "handshake" /\ pending = << >> /\ wire = << >> /\ conn = "ended"
  /\ IF cut # << >> /\ Acknowledges(cut[1])
     THEN Open(<< >>) /\ cut' = << >>
     ELSE Settle(MalformedSse)

FirstBroken ==
  /\ phase = "handshake" /\ pending = << >> /\ conn = "broken"
  /\ Settle(Transport)
-----------------------------------------------------------------------------
Poll ==
  /\ phase = "open" /\ polling \in {"idle", "suspended"}
  /\ polling' = "running"
  /\ UNCHANGED <<setup, body, pending, finished, returned, given, history>>

(* poll_next returns.                                                      *)
Return(outcome) == polling' = "idle" /\ returned' = outcome
Goes == UNCHANGED <<polling, returned>>

Running == phase = "open" /\ polling = "running"
Starved == Running /\ pending = << >>

(* try_take_match.  A match that does not decode is returned as an error   *)
(* that ends nothing: the next poll goes on with the next frame.           *)
TakeMatch ==
  /\ Running /\ pending # << >> /\ Head(pending).event = "match"
  /\ given' = Append(given, Head(pending))
  /\ pending' = Tail(pending)
  /\ Return("match")
  /\ UNCHANGED <<setup, body, finished, history>>

SkipFrame ==
  /\ Running /\ pending # << >> /\ Head(pending).event # "match"
  /\ pending' = Tail(pending)
  /\ Goes
  /\ UNCHANGED <<setup, body, finished, given, history>>

PollAfterEnd ==
  /\ Starved /\ finished
  /\ Return("end")
  /\ UNCHANGED <<setup, body, pending, finished, given, history>>

PollPending ==
  /\ Starved /\ ~finished /\ wire = << >> /\ conn = "up"
  /\ polling' = "suspended"
  /\ UNCHANGED <<setup, body, pending, finished, returned, given, history>>

FailStream(err) ==
  /\ error' = err
  /\ finished' = TRUE
  /\ Return("error")
  /\ UNCHANGED <<phase, attempt, pending, given, history>>

PollChunk ==
  /\ Starved /\ ~finished
  /\ \E n \in 1..Len(wire) :
       /\ wire' = Rest(n)
       /\ IF Feedable(Chunk(n))
          THEN /\ pending' = Chunk(n)
               /\ Goes /\ UNCHANGED <<setup, finished, given, history>>
          ELSE FailStream(MalformedSse)
  /\ UNCHANGED <<conn, cut>>

(* reqwest reports the break when it likes: what arrived may be lost.      *)
BreakUnnoticed ==
  /\ Starved /\ ~finished /\ conn = "broken"
  /\ error' = Transport /\ Return("error")
  /\ UNCHANGED <<phase, attempt, body, pending, finished, given, history>>
PollBroken ==
  /\ Starved /\ ~finished /\ conn = "broken"
  /\ FailStream(Transport)
  /\ UNCHANGED body

AtEnd == Starved /\ ~finished /\ wire = << >> /\ conn = "ended"

EndUnnoticed ==
  /\ AtEnd
  /\ cut' = << >> /\ pending' = Flushed(cut)
  /\ Goes /\ UNCHANGED <<setup, conn, wire, finished, given, history>>
PollEnd ==
  /\ AtEnd
  /\ cut' = << >>
  /\ IF Feedable(cut)
     THEN /\ finished' = TRUE /\ pending' = Flushed(cut)
          /\ Goes /\ UNCHANGED <<setup, given, history>>
     ELSE FailStream(MalformedSse)
  /\ UNCHANGED <<conn, wire>>

(* A reader drops the future of next(), not the stream.                    *)
Abandon ==
  /\ phase = "open" /\ polling = "suspended"
  /\ polling' = "idle"
  /\ UNCHANGED <<setup, body, pending, finished, returned, given, history>>

(* The future of subscribe(), or the Subscription, is dropped; a running   *)
(* poll_next holds it.                                                     *)
Drop ==
  /\ phase \notin {"failed", "dropped"} /\ polling # "running"
  /\ phase' = "dropped" /\ polling' = "idle"
  /\ Disconnect
  /\ UNCHANGED <<attempt, error, finished, returned, given, history>>
-----------------------------------------------------------------------------
(* External: the server and the network.                                   *)
ServerSends ==
  /\ conn = "up" /\ Len(sent) < MaxItems
  /\ \E item \in Items :
       /\ sent' = Append(sent, item)
       /\ wire' = Append(wire, item)
  /\ UNCHANGED <<setup, conn, cut, pending, reader, streams>>

ServerEnds ==
  /\ conn = "up"
  /\ conn' = "ended"
  /\ \/ UNCHANGED <<cut, sent>>
     \/ /\ Len(sent) < MaxItems
        /\ \E item \in Items : cut' = <<item>> /\ sent' = Append(sent, item)
  /\ UNCHANGED <<setup, wire, pending, reader, streams>>

ConnectionBreaks ==
  /\ conn = "up"
  /\ conn' = "broken"
  /\ UNCHANGED <<setup, wire, cut, pending, reader, history>>

Handshake == FirstFrame \/ FirstChunk \/ FirstAtEnd \/ FirstBroken
PollStep == TakeMatch \/ SkipFrame \/ PollAfterEnd \/ PollPending
            \/ PollChunk \/ PollBroken \/ PollEnd

Next ==
  \/ Send \/ ConnectionFails \/ Refused \/ WrongContentType \/ Accepted \/ Wake
  \/ FirstFrame \/ FirstChunk \/ FirstAtEnd \/ FirstBroken
  \/ Poll \/ TakeMatch \/ SkipFrame \/ PollAfterEnd \/ PollPending
  \/ PollChunk \/ PollBroken \/ PollEnd
  \/ Abandon \/ Drop
  \/ ServerSends \/ ServerEnds \/ ConnectionBreaks

Spec == Init /\ [][Next]_vars

(* The executor polls a ready future, and poll_next, once called, runs to  *)
(* its return; that the reader calls it again is assumed of the reader.    *)
FairSpec == Spec /\ WF_vars(Handshake) /\ WF_vars(PollStep) /\ WF_vars(Poll)
-----------------------------------------------------------------------------
FrameItem == {item \in Item : ~IsOversize(item)}
Upto1(S) == {<< >>} \union {<<x>> : x \in S}

TypeOK ==
  /\ phase \in {"ready", "requested", "handshake", "sleeping", "failed", "open",
                "dropped"}
  /\ attempt \in Nat
  /\ error \in Result
  /\ conn \in {"down", "up", "ended", "broken"}
  /\ wire \in Seq(Item)
  /\ cut \in Upto1(Item)
  /\ pending \in Seq(FrameItem)
  /\ finished \in BOOLEAN
  /\ polling \in {"idle", "running", "suspended"}
  /\ returned \in {"nothing", "match", "error", "end"}
  /\ given \in Seq(FrameItem)
  /\ sent \in Seq(Item)
  /\ streams \in Nat

(* Every match the server sent on the connection has been given, once and  *)
(* in order, or is still on its way to the reader: none falls between the  *)
(* handshake and the stream, an abandoned poll and the next, or the end of *)
(* the body and the reader.  A clean end means that all were given.        *)
Matches(items) ==
  ElementsAt(items, {i \in DOMAIN items : items[i].event = "match"})

NothingLost ==
  phase = "open" /\ error = Ok =>
    /\ Matches(sent) = given \o Matches(pending \o wire \o cut)
    /\ returned = "end" => Matches(sent) = given

(* The stream is fused: after an error that ends it, or after its end, a   *)
(* reader who polls again is never left waiting, and each poll that returns *)
(* gives the end: no match, and not the error once more.                   *)
Over == returned \in {"error", "end"}
Returns == polling = "running" /\ polling' = "idle"
OverIsFinal ==
  [][Over => /\ returned' = (IF Returns THEN "end" ELSE returned)
             /\ polling' = "suspended" => polling = "suspended"
             /\ given' = given]_vars

(* subscribe.rs: a handshake fails before the server commits a             *)
(* subscription, so that replay is safe.  Under the built-in policies      *)
(* subscribe() never abandons an accepted stream to open another.          *)
OneStream == Policy # "custom" => streams <= 1

(* Once the server has ended or broken the body, a handshake in progress   *)
(* is settled, and a reader who keeps polling reaches the stream's end.    *)
StreamEnds == conn \in {"ended", "broken"} ~> (Over \/ conn = "down")

(* subscribe.rs:212-215: a handshake fails only before the server commits   *)
(* the subscription, so that replaying it can miss no matches.              *)
SetupCommitsNothing ==
  phase \in {"failed", "sleeping"} => sent = << >> \/ ~Acknowledges(sent[1])

(* The promise to the reader.                                              *)
InUse == conn # "down" /\ ~Over
Status == IF phase \in {"failed", "dropped"} THEN "closed"
          ELSE IF phase # "open" THEN "setup"
          ELSE IF Over THEN "over" ELSE "open"
Connection == IF InUse THEN conn ELSE "down"
Queue == IF InUse THEN pending \o wire \o cut ELSE << >>

Abstract == INSTANCE MatchStream
              WITH status <- Status, conn <- Connection, queue <- Queue
Implements == Abstract!Spec
=============================================================================
