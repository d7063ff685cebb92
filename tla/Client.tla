-------------------------------- MODULE Client --------------------------------
(***************************************************************************)
(* The life of a client, as a program sees it: ClientBuilder and from_env  *)
(* (src/semantik/client.rs) make a client, and its methods publish,        *)
(* search, lint and health pass a request through Preflight and, when it   *)
(* is accepted, through RpcCalls under the policy and the timeout the      *)
(* builder chose.  An accepted subscribe goes on in Subscription.          *)
(*                                                                         *)
(* The base URL, the connect timeout and the header values have no effect  *)
(* on what is modelled here.  RetryAlways and TimeoutIfSet are plausible    *)
(* slips of the definition that follows each of them.                      *)
(***************************************************************************)
EXTENDS Preflight, ErrorDecode

CONSTANTS
  NoKey,
  Responses,        \* the responses of the server and its proxies
  CustomAttempts,   \* bound: the retries of a caller's own policy
  CustomDelays      \* the waits it may ask for

ASSUME ClientAssumption == Responses \subseteq Response
ASSUME CustomAssumption == CustomAttempts \in Nat /\ CustomDelays \subseteq Nat

VARIABLES
  builder,   \* the builder's fields, also after build() consumed it
  client,    \* what build() or from_env() returned, NoClient before
  pc, attempt, delay, result, sent, net, behind, stored   \* of RpcCalls

setup == <<builder, client>>
call == <<pc, attempt, delay, result, sent, net, behind, stored>>
clientVars == <<setup, vars, call>>

Refused(error) == [error |-> error]
NoClient == Refused("none")
IsClient == "policy" \in DOMAIN client

(* An API key: not given, blank, with a byte that no header may hold, or   *)
(* usable.  An environment variable may be empty or not Unicode as well.   *)
ApiKeys == {"blank", "unsendable", "usable"}
EnvKeys == ApiKeys \union {"unset", "empty", "not_unicode"}

Policies == {"transient", "none", "custom"}
DefaultAttempts == 5

Rpc == "rpc"
Probe == "probe"
Caller == IF request.op = "health" THEN Probe ELSE Rpc

CallsUnder(policy, has_timeout) ==
  INSTANCE RpcCalls
    WITH Calls <- {Rpc, Probe}, HealthCalls <- {Probe},
         Key <- [c \in {Rpc, Probe} |-> NoKey],
         Policy <- policy, MaxAttempts <- DefaultAttempts, HasTimeout <- has_timeout

(* The part of RpcCalls that does not depend on the client.                *)
Server ==
  INSTANCE RpcCalls
    WITH Calls <- {Rpc, Probe}, HealthCalls <- {Probe},
         Key <- [c \in {Rpc, Probe} |-> NoKey],
         Policy <- "none", MaxAttempts <- DefaultAttempts, HasTimeout <- FALSE
-----------------------------------------------------------------------------
NewBuilder ==
  [api_key |-> "unset", http |-> "own", retry |-> "unset", read_timeout |-> "unset"]

RetryAlways(b) == IF b.retry = "custom" THEN "custom" ELSE "transient"
RetryOf(b) == IF b.retry = "unset" THEN "transient" ELSE b.retry

(* An injected HTTP client keeps its own timeouts; the SDK adds none.      *)
TimeoutIfSet(b) == b.http = "own" /\ b.read_timeout = "set"
TimeoutOf(b) == b.http = "own"

Config(policy, has_timeout) == [policy |-> policy, has_timeout |-> has_timeout]

(* build(): reqwest may refuse to set up a client of the SDK's own.        *)
Built(b) ==
  IF b.api_key # "usable"
  THEN {Refused("invalid_api_key")}
  ELSE {Config(RetryOf(b), TimeoutOf(b))} \union
       {Refused(e) : e \in IF b.http = "own" THEN {"transport"} ELSE {}}
-----------------------------------------------------------------------------
ClientInit ==
  /\ Init /\ Server!Init
  /\ builder = NewBuilder /\ client = NoClient

Setter(b) ==
  /\ client = NoClient
  /\ builder' = b
  /\ UNCHANGED <<client, vars, call>>

ApiKey      == \E k \in ApiKeys : Setter([builder EXCEPT !.api_key = k])
HttpClient  == Setter([builder EXCEPT !.http = "injected"])
Retry       == \E p \in {"none", "custom"} : Setter([builder EXCEPT !.retry = p])
ReadTimeout == Setter([builder EXCEPT !.read_timeout = "set"])

Build ==
  /\ client = NoClient
  /\ client' \in Built(builder)
  /\ UNCHANGED <<builder, vars, call>>

FromEnv(key) ==
  /\ client = NoClient /\ builder = NewBuilder
  /\ IF key \in {"unset", "empty", "not_unicode"}
     THEN client' = Refused("missing_api_key") /\ UNCHANGED builder
     ELSE /\ builder' = [builder EXCEPT !.api_key = key]
          /\ client' \in Built(builder')
  /\ UNCHANGED <<vars, call>>

(* A method is called: req.validate()? comes first.                        *)
Call(r) == IsClient /\ Validate(r) /\ UNCHANGED <<setup, call>>
Check == Checking /\ UNCHANGED <<setup, call>>

Accepted == stage = "accepted" /\ request.op # "subscribe"

(* A step of the accepted request's call, under the client's settings.     *)
Progress ==
  /\ Accepted
  /\ \E p \in Policies, t \in BOOLEAN :
       client = Config(p, t) /\ CallsUnder(p, t)!Progress(Caller)
  /\ UNCHANGED <<setup, vars>>

ConnectionFails ==
  /\ Accepted
  /\ \E p \in Policies, t \in BOOLEAN :
       client = Config(p, t) /\ CallsUnder(p, t)!ConnectionFails(Caller)
  /\ UNCHANGED <<setup, vars>>

Drop == Accepted /\ Server!Drop(Caller) /\ UNCHANGED <<setup, vars>>

(* What the server stores, and requests that stay behind a proxy, do not   *)
(* come back to the client: they are the subject of RpcCalls.              *)
Network ==
  /\ \E m \in net : \/ \E response \in Responses : Server!ServerAnswers(m, response)
                    \/ Server!Lose(m)
  /\ UNCHANGED <<setup, vars, behind>>

ClientNext ==
  \/ ApiKey \/ HttpClient \/ Retry \/ ReadTimeout
  \/ Build
  \/ \E key \in EnvKeys : FromEnv(key)
  \/ \E r \in Requests : Call(r)
  \/ Check
  \/ Progress \/ ConnectionFails \/ Drop
  \/ Network

ClientSpec == ClientInit /\ [][ClientNext]_clientVars /\ WF_clientVars(Progress)
-----------------------------------------------------------------------------
(* What the caller gets back.                                              *)
PreflightError == Api("invalid_request", 0, NoHint)
Returned == stage = "rejected" \/ (Accepted /\ pc[Caller] = "done")
Answer == IF stage = "rejected" THEN PreflightError ELSE result[Caller]

(* error.rs: an http_status of zero means that the request never reached   *)
(* the wire.  An API error has that status exactly when nothing was sent,  *)
(* over all attempts of the call.                                          *)
PreflightMeansUnsent ==
  Returned /\ Answer.kind = "api" =>
    (Answer.http_status = 0 <=> sent[Caller] = 0)

(* What the builder was told about retries is what the server sees: six    *)
(* requests at most by default, one without retries and for a probe.       *)
BudgetAsBuilt ==
  /\ sent[Probe] <= 1
  /\ builder.retry = "none" => sent[Rpc] <= 1
  /\ builder.retry = "unset" => sent[Rpc] <= 6

(* Every call of a client that sets up its own HTTP client and retries by  *)
(* a built-in policy ends, whether or not the builder was given a read     *)
(* timeout and whatever the server does: the default bounds each attempt.  *)
(* A caller's own policy may retry for ever, and nothing is said of it.    *)
OwnClientCallsEnd ==
  (Accepted /\ builder.http = "own" /\ builder.retry # "custom")
    ~> pc[Caller] \in {"done", "dropped"}
=============================================================================
