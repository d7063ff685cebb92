------------------------------- MODULE RpcCalls -------------------------------
(***************************************************************************)
(* One-shot calls of the SDK (publish, search, lint, health) running at    *)
(* the same time against a server: send_json and run_with_retry of         *)
(* src/semantik/transport.rs, health of health.rs, and the caller who may  *)
(* drop a call's future at any await.  The server and the network are      *)
(* external: a request may be stored and its answer lost, answered by a    *)
(* proxy before or after the server handles it, or handled after its       *)
(* caller left.                                                            *)
(*                                                                         *)
(* FreshIdentity and TimeoutHealthOnly are plausible slips of the          *)
(* definition that follows each of them.                                   *)
(***************************************************************************)
EXTENDS RetryPolicy, FiniteSets

CONSTANTS
  Calls,         \* the calls the program makes
  HealthCalls,   \* those that are health probes: never retried
  Key,           \* [Calls -> idempotency key or NoKey]
  NoKey,
  Responses,     \* the responses the server and its proxies may give
  HasTimeout     \* the client has a read timeout (no custom http client)

ASSUME CallsAssumption == HealthCalls \subseteq Calls
ASSUME ResponsesAssumption == Responses \subseteq Response
ASSUME HasTimeoutAssumption == HasTimeout \in BOOLEAN

VARIABLES
  pc,        \* "ready" to send, "waiting", "sleeping", "done" or "dropped"
  attempt,   \* run_with_retry's attempt counter
  delay,     \* the backoff sleep in progress
  result,    \* the result of the last attempt, which "done" returns
  sent,      \* history: requests sent for the call
  net,       \* unanswered requests and answers under way
  behind,    \* requests under way that a proxy gave up and answered for
  stored     \* what the server stored: [id, call] of each effective request

vars == <<pc, attempt, delay, result, sent, net, behind, stored>>

Pending == << >>
Answered(response) == <<response>>

(* The body is encoded once, so that every attempt carries the same key.   *)
FreshIdentity(c, n) == <<c, n, Key[c]>>
Identity(c, n) == IF Key[c] = NoKey THEN <<c, n, NoKey>> ELSE <<"key", Key[c]>>

Message(c, n, id, answer) ==
  [call |-> c, attempt |-> n, id |-> id, answer |-> answer]
Request(c) == Message(c, attempt[c], Identity(c, attempt[c]), Pending)
Reply(m, response) == Message(m.call, m.attempt, m.id, Answered(response))

Outcome(c, response) ==
  IF c \in HealthCalls THEN Health(response) ELSE SendOnceJson(response)

Verdicts(c, res) ==
  IF c \in HealthCalls \/ ~IsFailure(res) THEN {GiveUp}
                                          ELSE Decisions(attempt[c], res)
-----------------------------------------------------------------------------
Init ==
  /\ pc = [c \in Calls |-> "ready"]
  /\ attempt = [c \in Calls |-> 0]
  /\ delay = [c \in Calls |-> 0]
  /\ result = [c \in Calls |-> Transport]
  /\ sent = [c \in Calls |-> 0]
  /\ net = {} /\ behind = {}
  /\ stored = {}

(* f(attempt): the request leaves.                                         *)
Send(c) ==
  /\ pc[c] = "ready"
  /\ net' = net \union {Request(c)}
  /\ sent' = [sent EXCEPT ![c] = @ + 1]
  /\ pc' = [pc EXCEPT ![c] = "waiting"]
  /\ UNCHANGED <<attempt, delay, result, behind, stored>>

(* What run_with_retry does with the result of an attempt.                 *)
Settle(c, res) ==
  /\ result' = [result EXCEPT ![c] = res]
  /\ \E d \in Verdicts(c, res) :
       /\ pc' = [pc EXCEPT ![c] = IF d = GiveUp THEN "done" ELSE "sleeping"]
       /\ delay' = [delay EXCEPT ![c] = IF d = GiveUp THEN 0 ELSE Capped(d)]
  /\ UNCHANGED <<attempt, sent, behind, stored>>

(* send().await and the body's bytes().await complete with a response.     *)
Receive(c, m) ==
  /\ pc[c] = "waiting"
  /\ m \in net /\ m.call = c /\ m.attempt = attempt[c] /\ m.answer # Pending
  /\ net' = net \ {m}
  /\ Settle(c, Outcome(c, m.answer[1]))

(* The connection fails before, while or after the request is handled: it  *)
(* or its answer stays under way as far as the server is concerned.        *)
ConnectionFails(c) ==
  /\ pc[c] \in {"ready", "waiting"}
  /\ UNCHANGED net
  /\ Settle(c, Transport)

(* reqwest's request timeout, set from the client's read_timeout.          *)
TimeoutHealthOnly(c) ==
  /\ HasTimeout /\ pc[c] = "waiting" /\ c \in HealthCalls
  /\ UNCHANGED net
  /\ Settle(c, Transport)
Timeout(c) ==
  /\ HasTimeout /\ pc[c] = "waiting"
  /\ UNCHANGED net
  /\ Settle(c, Transport)

Wake(c) ==
  /\ pc[c] = "sleeping"
  /\ attempt' = [attempt EXCEPT ![c] = @ + 1]
  /\ delay' = [delay EXCEPT ![c] = 0]
  /\ pc' = [pc EXCEPT ![c] = "ready"]
  /\ UNCHANGED <<result, sent, net, behind, stored>>

(* The caller drops the future, a pending backoff sleep included.          *)
Drop(c) ==
  /\ pc[c] \in {"ready", "waiting", "sleeping"}
  /\ pc' = [pc EXCEPT ![c] = "dropped"]
  /\ delay' = [delay EXCEPT ![c] = 0]
  /\ UNCHANGED <<attempt, result, sent, net, behind, stored>>
-----------------------------------------------------------------------------
(* External.  The server stores the first request of each identity and     *)
(* answers.  A proxy may replace its answer, so any non-2xx may follow a   *)
(* stored request (a 2xx always does), or give up waiting for it and       *)
(* answer while the request is still behind it.                            *)
Store(m) ==
  IF m.call \in HealthCalls \/ \E s \in stored : s.id = m.id
  THEN stored ELSE stored \union {[id |-> m.id, call |-> m.call]}

ServerAnswers(m, response) ==
  /\ m \in net /\ m.answer = Pending
  /\ net' = (net \ {m}) \union {Reply(m, response)}
  /\ \/ stored' = Store(m) /\ UNCHANGED behind
     \/ /\ ~IsSuccess(response) /\ UNCHANGED stored
        /\ \/ UNCHANGED behind
           \/ m.call \notin HealthCalls /\ behind' = behind \union {m}
  /\ UNCHANGED <<pc, attempt, delay, result, sent>>

HandledLate(m) ==
  /\ m \in behind
  /\ behind' = behind \ {m}
  /\ stored' \in {stored, Store(m)}
  /\ UNCHANGED <<pc, attempt, delay, result, sent, net>>

Lose(m) ==
  /\ m \in net
  /\ net' = net \ {m}
  /\ UNCHANGED <<pc, attempt, delay, result, sent, behind, stored>>

Next ==
  \/ \E c \in Calls :
       \/ Send(c)
       \/ \E m \in net : Receive(c, m)
       \/ ConnectionFails(c)
       \/ Timeout(c)
       \/ Wake(c)
       \/ Drop(c)
  \/ \E m \in net : (\E response \in Responses : ServerAnswers(m, response)) \/ Lose(m)
  \/ \E m \in behind : HandledLate(m)

Spec == Init /\ [][Next]_vars

(* The runtime polls a call that can progress, and its timers fire.        *)
Progress(c) == Send(c) \/ (\E m \in net : Receive(c, m)) \/ Timeout(c) \/ Wake(c)
FairSpec == Spec /\ \A c \in Calls : WF_vars(Progress(c))
-----------------------------------------------------------------------------
TypeOK ==
  /\ pc \in [Calls -> {"ready", "waiting", "sleeping", "done", "dropped"}]
  /\ attempt \in [Calls -> Nat]
  /\ delay \in [Calls -> Nat]
  /\ result \in [Calls -> Result]
  /\ sent \in [Calls -> Nat]
  /\ \A m \in net \union behind : m.call \in Calls /\ m.attempt \in Nat
  /\ \A m \in net : m.answer \in {Pending} \union {Answered(r) : r \in Responses}

(* A call costs the server at most max_attempts + 1 requests, however the  *)
(* answers, failures and timeouts fall; a health probe costs one.          *)
AttemptBudget ==
  \A c \in Calls : sent[c] <= IF c \in HealthCalls THEN 1 ELSE MaxAttempts + 1

(* A retry never overlaps an unanswered attempt: a failure that leaves the *)
(* request's fate open (a timeout, a broken connection) is final, so no    *)
(* second request of the call is ever under way beside the first, nor      *)
(* beside its answer; only a proxy that answered for a request it still    *)
(* holds can make two meet.                                                *)
OneInFlight == \A m1, m2 \in net : m1.call = m2.call => m1 = m2

(* Calls that carry one idempotency key are stored once, over all their    *)
(* attempts, also those handled after their caller stopped waiting or a    *)
(* proxy's answer made it retry.                                           *)
KeyedStoredOnce ==
  \A s1, s2 \in stored :
    Key[s1.call] # NoKey /\ Key[s1.call] = Key[s2.call] => s1 = s2

(* Ok is returned only for a request the server did store.                 *)
OkMeansStored ==
  \A c \in Calls \ HealthCalls :
    pc[c] = "done" /\ ~IsFailure(result[c]) =>
      \E s \in stored : s.id = Identity(c, attempt[c])

(* TransientRetry absorbs transient answers: one reaches the caller only   *)
(* when all the budget was spent on them, each costing one request.        *)
TransientSurfacesLast ==
  \A c \in Calls \ HealthCalls :
    pc[c] = "done" /\ IsTransient(result[c]) => sent[c] = MaxAttempts + 1

(* A backoff sleep of TransientRetry is never zero nor longer than an hour, *)
(* whichever of a hint and the schedule gave it; and whatever a caller's    *)
(* own policy asks for, it is an hour at most.                             *)
DelayBounded ==
  \A c \in Calls :
    pc[c] = "sleeping" => /\ delay[c] <= MaxRetryAfter
                          /\ Policy = "transient" => delay[c] >= 1

(* With a read timeout every call under a built-in policy ends, whatever   *)
(* the server does.                                                        *)
Ended(c) == pc[c] \in {"done", "dropped"}
CallsEnd == Policy # "custom" => \A c \in Calls : <>Ended(c)

(* error.rs:33-34: malformed_response is never produced for a non-2xx.     *)
MalformedIsSuccessOnly ==
  \A c \in Calls :
    result[c].code = "malformed_response" => result[c].http_status \in 200..299
=============================================================================
