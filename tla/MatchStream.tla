----------------------------- MODULE MatchStream -----------------------------
(***************************************************************************)
(* What a subscription promises its reader, whatever the chunks, retries   *)
(* and abandoned polls: the frames of one connection form a queue; the     *)
(* first is the server's acknowledgement; after it every match is given    *)
(* once and in order and other frames are skipped; the stream ends cleanly *)
(* only when the server ended it and nothing is left, and fails only when  *)
(* the connection broke or a frame is too large.                           *)
(***************************************************************************)
EXTENDS Integers, Sequences

CONSTANT Items     \* what a server may send: records [event, data]

VARIABLES
  status,  \* "setup", "open", "over" or "closed"
  conn,    \* the connection in use: "down", "up", "ended" or "broken"
  queue,   \* items sent on it and neither given nor skipped
  given    \* the match frames the reader was given

vars == <<status, conn, queue, given>>

HasOversized(q) == \E i \in 1..Len(q) : q[i].event = "oversize"

Discard(to) == status' = to /\ conn' = "down" /\ queue' = << >>

Init == status = "setup" /\ conn = "down" /\ queue = << >> /\ given = << >>

Connect ==
  /\ status = "setup" /\ conn = "down"
  /\ conn' = "up"
  /\ UNCHANGED <<status, queue, given>>

(* The last item may be cut short by the end of the body.                  *)
Sent(item) ==
  /\ conn = "up"
  /\ queue' = Append(queue, item)
  /\ conn' \in {"up", "ended"}
  /\ UNCHANGED <<status, given>>

Gone ==
  /\ conn = "up"
  /\ conn' \in {"ended", "broken"}
  /\ UNCHANGED <<status, queue, given>>

Open ==
  /\ status = "setup" /\ queue # << >>
  /\ Head(queue).event = "subscribed"
  /\ queue' = Tail(queue)
  /\ status' = "open"
  /\ UNCHANGED <<conn, given>>

(* A handshake fails, to be tried again or for good.                       *)
Refuse == status = "setup" /\ Discard("setup") /\ UNCHANGED given
GiveUpSetup == status = "setup" /\ Discard("closed") /\ UNCHANGED given

Give ==
  /\ status = "open" /\ queue # << >>
  /\ Head(queue).event = "match"
  /\ given' = Append(given, Head(queue))
  /\ queue' = Tail(queue)
  /\ UNCHANGED <<status, conn>>

Skip ==
  /\ status = "open" /\ queue # << >>
  /\ Head(queue).event \notin {"match", "oversize"}
  /\ queue' = Tail(queue)
  /\ UNCHANGED <<status, conn, given>>

Finish ==
  /\ status = "open" /\ conn = "ended" /\ queue = << >>
  /\ Discard("over")
  /\ UNCHANGED given

Fail ==
  /\ status = "open"
  /\ conn = "broken" \/ HasOversized(queue)
  /\ Discard("over")
  /\ UNCHANGED given

Close ==
  /\ status \in {"open", "over"}
  /\ Discard("closed")
  /\ UNCHANGED given

Next ==
  \/ Connect \/ (\E item \in Items : Sent(item)) \/ Gone
  \/ Open \/ Refuse \/ GiveUpSetup
  \/ Give \/ Skip \/ Finish \/ Fail \/ Close

Spec == Init /\ [][Next]_vars
=============================================================================
