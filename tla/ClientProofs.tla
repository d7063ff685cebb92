----------------------------- MODULE ClientProofs -----------------------------
(***************************************************************************)
(* Proofs about Preflight and Client, for every set of requests and all    *)
(* limits.  The verdict on a request does not depend on the walk: the      *)
(* running total is the size of the set of bytes of the entries walked,    *)
(* which the inductive invariant says.  A client validates as Preflight    *)
(* does, step for step, so that what is proved of Preflight holds of it;   *)
(* on top of that, the status of an answer says whether anything was sent, *)
(* and the retries are the builder's.                                      *)
(***************************************************************************)
EXTENDS Client, FiniteSetTheorems, TLAPS

(* Each entry adds its own bytes, none of them counted before.             *)
LEMMA BytesOfOneMore ==
  ASSUME NEW S, IsFiniteSet(Bytes(S)), NEW e \in Entry, e \notin S
  PROVE  /\ IsFiniteSet(Bytes(S \union {e}))
         /\ Cardinality(Bytes(S \union {e})) = Cardinality(Bytes(S)) + Size(e)
<1> DEFINE Own == {e} \X (1..Size(e))
<1>1. Size(e) \in Nat
  BY DEF Entry, Size
<1>2. IsFiniteSet({e}) /\ Cardinality({e}) = 1
  BY FS_Singleton
<1>3. IsFiniteSet(1..Size(e)) /\ Cardinality(1..Size(e)) = Size(e)
  BY <1>1, FS_Interval
<1>4. IsFiniteSet(Own) /\ Cardinality(Own) = Size(e)
  <2>1. /\ IsFiniteSet(Own)
        /\ Cardinality(Own) = Cardinality({e}) * Cardinality(1..Size(e))
    BY <1>2, <1>3, FS_Product
  <2>2. Cardinality(Own) = 1 * Size(e)
    BY <2>1, <1>2, <1>3
  <2> QED
    BY <2>1, <2>2, <1>1
<1>5. Bytes(S \union {e}) = Bytes(S) \union Own
  BY DEF Bytes, Size
<1>6. Bytes(S) \intersect Own = {}
  BY DEF Bytes, Size
<1>7. Cardinality(Bytes(S)) \in Nat
  BY FS_CardinalityType
<1> HIDE DEF Own
<1>8. Cardinality(Bytes(S) \intersect Own) = 0
  BY <1>6, FS_EmptySet
<1>9. /\ IsFiniteSet(Bytes(S) \union Own)
      /\ Cardinality(Bytes(S) \union Own)
           = Cardinality(Bytes(S)) + Cardinality(Own) - Cardinality(Bytes(S) \intersect Own)
  BY <1>4, FS_Union
<1>10. Cardinality(Bytes(S) \union Own) = Cardinality(Bytes(S)) + Size(e) - 0
  BY <1>4, <1>8, <1>9
<1>11. Cardinality(Bytes(S) \union Own) = Cardinality(Bytes(S)) + Size(e)
  BY <1>1, <1>7, <1>10
<1> QED
  BY <1>5, <1>9, <1>11

LEMMA NoBytes == IsFiniteSet(Bytes({})) /\ Cardinality(Bytes({})) = 0
<1>1. Bytes({}) = {}
  BY DEF Bytes
<1> QED
  BY <1>1, FS_EmptySet
-----------------------------------------------------------------------------
(* What has been established when the walk is at a point.                  *)
Walking ==
  /\ IsFiniteSet(Bytes(walked))
  /\ total = Cardinality(Bytes(walked))
  /\ \A e \in walked : EntryOk(e)

Established ==
  /\ stage \in {"metadata", "key", "accepted"} => FieldsOk(request)
  /\ stage = "metadata" => Cardinality(request.metadata) <= MaxMetadataKeys
  /\ stage \in {"fields", "metadata"} => Walking
  /\ stage \in {"key", "accepted"} => MetadataWithinLimits(request)

IInv == TypeOK /\ Established /\ LimitsMirrored

LEMMA RequestFields ==
  ASSUME NEW r \in Requests
  PROVE  r.metadata \subseteq Entry /\ Cardinality(r.metadata) \in Nat
  BY RequestsAssumption, FS_CardinalityType DEF Request

LEMMA InitEstablishes == Init => IInv
  BY DEF Init, IInv, TypeOK, Established, Walking, LimitsMirrored

LEMMA ValidateKeeps ==
  ASSUME NEW r \in Requests, Validate(r)
  PROVE  IInv'
  BY NoBytes DEF Validate, IInv, TypeOK, Established, Walking, LimitsMirrored

LEMMA CheckFieldsKeeps ==
  ASSUME IInv, CheckFields
  PROVE  IInv'
<1> USE DEF IInv, CheckFields
<1>0. request \in Requests /\ Cardinality(request.metadata) \in Nat
  BY RequestFields DEF TypeOK
<1>1. TypeOK'
  BY DEF TypeOK
<1>2. CASE ~FieldsOk(request)
  BY <1>1, <1>2 DEF Established, LimitsMirrored, WithinLimits
<1>3. CASE FieldsOk(request) /\ request.metadata = {}
  <2>1. MetadataWithinLimits(request)
    BY <1>3, NoBytes, FS_EmptySet, LimitsAssumption DEF MetadataWithinLimits
  <2> QED
    BY <1>1, <1>3, <2>1 DEF Established, LimitsMirrored, MetadataWithinLimits
<1>4. CASE /\ FieldsOk(request) /\ request.metadata # {}
           /\ Cardinality(request.metadata) > MaxMetadataKeys
  <2>1. ~(Cardinality(request.metadata) <= MaxMetadataKeys)
    BY <1>0, <1>4, LimitsAssumption
  <2> QED
    BY <1>1, <1>4, <2>1
    DEF Established, LimitsMirrored, WithinLimits, MetadataWithinLimits
<1>5. CASE /\ FieldsOk(request) /\ request.metadata # {}
           /\ ~(Cardinality(request.metadata) > MaxMetadataKeys)
  <2>1. Cardinality(request.metadata) <= MaxMetadataKeys
    BY <1>0, <1>5, LimitsAssumption
  <2> QED
    BY <1>1, <1>5, <2>1 DEF Established, Walking, LimitsMirrored
<1> QED
  BY <1>2, <1>3, <1>4, <1>5

LEMMA WalkEntryKeeps ==
  ASSUME IInv, NEW e, WalkEntry(e)
  PROVE  IInv'
<1> USE DEF IInv, WalkEntry
<1>0. /\ request \in Requests /\ stage = "metadata"
      /\ e \in request.metadata /\ e \notin walked
  BY DEF TypeOK
<1>1. e \in Entry
  BY <1>0, RequestFields
<1>2. CASE EntryOk(e)
  <2>1. Walking'
    BY <1>0, <1>1, <1>2, BytesOfOneMore DEF Established, Walking
  <2>2. TypeOK'
    BY <1>0, <1>1, <1>2 DEF TypeOK, Entry, Size
  <2> QED
    BY <1>0, <1>2, <2>1, <2>2 DEF Established, LimitsMirrored
<1>3. CASE ~EntryOk(e)
  <2>1. ~WithinLimits(request)
    BY <1>0, <1>3 DEF WithinLimits, MetadataWithinLimits
  <2> QED
    BY <1>0, <1>3, <2>1 DEF TypeOK, Established, LimitsMirrored, WithinLimits,
       MetadataWithinLimits
<1> QED
  BY <1>2, <1>3

LEMMA EndOfWalkKeeps ==
  ASSUME IInv, EndOfWalk
  PROVE  IInv'
<1> USE DEF IInv, EndOfWalk
<1>0. /\ stage = "metadata" /\ walked = request.metadata /\ FieldsOk(request)
      /\ Walking /\ Cardinality(request.metadata) <= MaxMetadataKeys
  BY DEF Established
<1>1. TypeOK'
  BY DEF TypeOK
<1>2. MetadataWithinLimits(request) <=> TotalOk(total)
  BY <1>0 DEF Walking, MetadataWithinLimits, TotalOk
<1> QED
  BY <1>0, <1>1, <1>2 DEF Established, LimitsMirrored, WithinLimits,
     MetadataWithinLimits

LEMMA CheckKeyKeeps ==
  ASSUME IInv, CheckKey
  PROVE  IInv'
  BY DEF IInv, CheckKey, TypeOK, Established, LimitsMirrored, WithinLimits,
     MetadataWithinLimits

LEMMA StepKeeps ==
  ASSUME IInv, [Next]_vars
  PROVE  IInv'
<1>1. CASE \E r \in Requests : Validate(r)
  BY <1>1, ValidateKeeps
<1>2. CASE CheckFields
  BY <1>2, CheckFieldsKeeps
<1>3. CASE \E e \in request.metadata : WalkEntry(e)
  BY <1>3, WalkEntryKeeps
<1>4. CASE EndOfWalk
  BY <1>4, EndOfWalkKeeps
<1>5. CASE CheckKey
  BY <1>5, CheckKeyKeeps
<1>6. CASE UNCHANGED vars
  BY <1>6 DEF vars, IInv, TypeOK, Established, Walking, LimitsMirrored,
     WithinLimits, MetadataWithinLimits
<1> QED
  BY <1>1, <1>2, <1>3, <1>4, <1>5, <1>6 DEF Next, Checking

(* The inductive invariant of the validation, for every set of requests.   *)
THEOREM Correct == Spec => []IInv
<1>1. Init => IInv
  BY InitEstablishes
<1>2. IInv /\ [Next]_vars => IInv'
  BY StepKeeps
<1> QED
  BY <1>1, <1>2, PTL DEF Spec

(* The type invariant of a validation, for every set of requests.          *)
THEOREM TypeCorrect == Spec => []TypeOK
<1>1. IInv => TypeOK
  BY DEF IInv
<1> QED
  BY <1>1, Correct, PTL

(* validate.rs: whatever order the hash map is walked in, a request is     *)
(* accepted exactly when it is within the limits as a whole.               *)
THEOREM VerdictOfTheRequest == Spec => []LimitsMirrored
<1>1. IInv => LimitsMirrored
  BY DEF IInv
<1> QED
  BY <1>1, Correct, PTL
-----------------------------------------------------------------------------
Callers == {Rpc, Probe}

LEMMA TwoCallers == Caller \in Callers
  BY DEF Caller, Callers

(* Every step of a client is a step of the validation or leaves it alone.  *)
LEMMA StepValidates == ASSUME ClientNext PROVE [Next]_vars
<1>1. CASE ApiKey \/ HttpClient \/ Retry \/ ReadTimeout
  BY <1>1 DEF ApiKey, HttpClient, Retry, ReadTimeout, Setter
<1>2. CASE Build \/ \E key \in EnvKeys : FromEnv(key)
  BY <1>2 DEF Build, FromEnv
<1>3. CASE \E r \in Requests : Call(r)
  BY <1>3 DEF Call, Next
<1>4. CASE Check
  BY <1>4 DEF Check, Next
<1>5. CASE Progress \/ ConnectionFails \/ Drop \/ Network
  BY <1>5 DEF Progress, ConnectionFails, Drop, Network
<1> QED
  BY <1>1, <1>2, <1>3, <1>4, <1>5 DEF ClientNext
-----------------------------------------------------------------------------
(* What is known of the calls, whatever the client's settings.             *)
Shape ==
  /\ DOMAIN pc = Callers /\ DOMAIN result = Callers
  /\ sent \in [Callers -> Nat]
  /\ \A m \in net : m.answer # << >> => m.answer[1] \in Responses

(* A call that waits has sent, and its result tells whether it ever has.   *)
Truthful(c) ==
  /\ pc[c] = "waiting" => sent[c] > 0
  /\ sent[c] = 0 => result[c].kind = "transport"
  /\ sent[c] > 0 /\ result[c].kind = "api" => result[c].http_status # 0

SentAccepted == \A c \in Callers : sent[c] > 0 => Accepted /\ c = Caller

CallInv == Shape /\ (\A c \in Callers : Truthful(c)) /\ SentAccepted

LEMMA StatusOfOutcome ==
  ASSUME NEW p, NEW t, NEW c, NEW r \in Response
  PROVE  LET o == CallsUnder(p, t)!Outcome(c, r)
         IN  o.kind = "api" => o.http_status # 0
<1>1. r.status # 0
  BY DEF Response, Statuses
<1> QED
  BY <1>1 DEF CallsUnder!Outcome, CallsUnder!Health, CallsUnder!SendOnceJson,
     CallsUnder!DecodeErrorResponse, CallsUnder!MalformedResponse, CallsUnder!Api,
     CallsUnder!Ok

(* The steps of a call, under any settings.                                *)
LEMMA SendKeeps ==
  ASSUME CallInv, Accepted, NEW p, NEW t, UNCHANGED vars,
         CallsUnder(p, t)!Send(Caller)
  PROVE  CallInv'
<1> USE TwoCallers DEF CallsUnder!Send
<1>1. Shape'
  BY DEF CallInv, Shape, CallsUnder!Request, CallsUnder!Message, CallsUnder!Pending
<1>2. ASSUME NEW c \in Callers PROVE Truthful(c)'
  BY DEF CallInv, Shape, SentAccepted, Truthful
<1>3. SentAccepted'
  BY DEF CallInv, Shape, SentAccepted, Accepted, Caller, vars
<1> QED
  BY <1>1, <1>2, <1>3 DEF CallInv

LEMMA SettleKeeps ==
  ASSUME CallInv, Accepted, NEW p, NEW t, UNCHANGED vars,
         NEW res, CallsUnder(p, t)!Settle(Caller, res),
         sent[Caller] = 0 => res.kind = "transport",
         sent[Caller] > 0 /\ res.kind = "api" => res.http_status # 0,
         net' \subseteq net
  PROVE  CallInv'
<1> USE TwoCallers DEF CallsUnder!Settle
<1>1. Shape'
  BY DEF CallInv, Shape
<1>2. ASSUME NEW c \in Callers PROVE Truthful(c)'
  BY DEF CallInv, Shape, Truthful
<1>3. SentAccepted'
  BY DEF CallInv, SentAccepted, Accepted, Caller, vars
<1> QED
  BY <1>1, <1>2, <1>3 DEF CallInv

LEMMA FailureKeeps ==
  ASSUME CallInv, Accepted, NEW p, NEW t, UNCHANGED vars, UNCHANGED net,
         CallsUnder(p, t)!Settle(Caller, CallsUnder(p, t)!Transport)
  PROVE  CallInv'
<1>1. CallsUnder(p, t)!Transport.kind = "transport"
  BY DEF CallsUnder!Transport
<1> QED
  BY <1>1, SettleKeeps

LEMMA ReceiveKeeps ==
  ASSUME CallInv, Accepted, NEW p, NEW t, UNCHANGED vars,
         NEW m, CallsUnder(p, t)!Receive(Caller, m)
  PROVE  CallInv'
<1> DEFINE res == CallsUnder(p, t)!Outcome(Caller, m.answer[1])
<1>1. /\ pc[Caller] = "waiting" /\ m \in net /\ m.answer # << >>
      /\ net' = net \ {m}
      /\ CallsUnder(p, t)!Settle(Caller, res)
  BY DEF CallsUnder!Receive, CallsUnder!Pending
<1>2. m.answer[1] \in Response
  BY <1>1, ClientAssumption DEF CallInv, Shape
<1>3. res.kind = "api" => res.http_status # 0
  BY <1>2, StatusOfOutcome
<1>4. sent[Caller] > 0 /\ sent[Caller] # 0
  BY <1>1, TwoCallers DEF CallInv, Truthful, Shape
<1>5. net' \subseteq net
  BY <1>1
<1> HIDE DEF res
<1> QED
  BY <1>1, <1>3, <1>4, <1>5, SettleKeeps

LEMMA WakeKeeps ==
  ASSUME CallInv, Accepted, NEW p, NEW t, UNCHANGED vars,
         CallsUnder(p, t)!Wake(Caller)
  PROVE  CallInv'
  BY TwoCallers DEF CallsUnder!Wake, CallInv, Shape, Truthful, SentAccepted,
     Accepted, Caller, vars

LEMMA DropKeeps ==
  ASSUME CallInv, Accepted, UNCHANGED vars, Server!Drop(Caller)
  PROVE  CallInv'
  BY TwoCallers DEF Server!Drop, CallInv, Shape, Truthful, SentAccepted,
     Accepted, Caller, vars

LEMMA NetworkKeeps == ASSUME CallInv, Network PROVE CallInv'
<1>1. UNCHANGED <<pc, result, sent, vars>>
  BY DEF Network, Server!ServerAnswers, Server!Lose
<1>2. Shape'
  <2>1. ASSUME NEW m \in net, NEW r \in Responses, Server!ServerAnswers(m, r)
        PROVE  Shape'
    BY <2>1 DEF CallInv, Shape, Server!ServerAnswers, Server!Reply, Server!Message,
       Server!Answered
  <2>2. ASSUME NEW m \in net, Server!Lose(m)
        PROVE  Shape'
    BY <2>2 DEF CallInv, Shape, Server!Lose
  <2> QED
    BY <2>1, <2>2 DEF Network
<1> QED
  BY <1>1, <1>2 DEF CallInv, Truthful, SentAccepted, Accepted, Caller, vars

(* While a request is validated nothing has been sent for it.              *)
LEMMA ChecksKeep ==
  ASSUME CallInv, [Next]_vars, UNCHANGED call
  PROVE  CallInv'
<1> USE DEF CallInv, Shape, Truthful, SentAccepted, call
<1>1. CASE Accepted
  <2>1. UNCHANGED vars
    BY <1>1 DEF Accepted, Next, Checking, Validate, CheckFields, WalkEntry,
       EndOfWalk, CheckKey
  <2> QED
    BY <2>1 DEF vars, Accepted, Caller
<1>2. CASE ~Accepted
  BY <1>2
<1> QED
  BY <1>1, <1>2

LEMMA CallInvKept == ASSUME CallInv, [ClientNext]_clientVars PROVE CallInv'
<1>1. CASE Progress
  <2>1. PICK p \in Policies, t \in BOOLEAN :
          CallsUnder(p, t)!Progress(Caller)
    BY <1>1 DEF Progress
  <2>2. Accepted /\ UNCHANGED vars
    BY <1>1 DEF Progress
  <2>3. CASE CallsUnder(p, t)!Send(Caller)
    BY <2>2, <2>3, SendKeeps
  <2>4. CASE \E m \in net : CallsUnder(p, t)!Receive(Caller, m)
    BY <2>2, <2>4, ReceiveKeeps
  <2>5. CASE CallsUnder(p, t)!Timeout(Caller)
    BY <2>2, <2>5, FailureKeeps DEF CallsUnder!Timeout
  <2>6. CASE CallsUnder(p, t)!Wake(Caller)
    BY <2>2, <2>6, WakeKeeps
  <2> QED
    BY <2>1, <2>3, <2>4, <2>5, <2>6 DEF CallsUnder!Progress
<1>2. CASE ConnectionFails
  <2>1. PICK p \in Policies, t \in BOOLEAN :
          CallsUnder(p, t)!ConnectionFails(Caller)
    BY <1>2 DEF ConnectionFails
  <2> QED
    BY <1>2, <2>1, FailureKeeps DEF ConnectionFails, CallsUnder!ConnectionFails
<1>3. CASE Drop
  BY <1>3, DropKeeps DEF Drop
<1>4. CASE Network
  BY <1>4, NetworkKeeps
<1>5. CASE /\ \/ ApiKey \/ HttpClient \/ Retry \/ ReadTimeout \/ Build
              \/ (\E key \in EnvKeys : FromEnv(key))
              \/ (\E r \in Requests : Call(r)) \/ Check
  <2>1. [Next]_vars
    BY <1>5, StepValidates DEF ClientNext
  <2>2. UNCHANGED call
    BY <1>5 DEF ApiKey, HttpClient, Retry, ReadTimeout, Setter, Build, FromEnv, Call,
       Check
  <2> QED
    BY <2>1, <2>2, ChecksKeep
<1>6. CASE UNCHANGED clientVars
  BY <1>6, ChecksKeep DEF clientVars
<1> QED
  BY <1>1, <1>2, <1>3, <1>4, <1>5, <1>6 DEF ClientNext

LEMMA CallInvStarts == ClientInit => CallInv
  BY DEF ClientInit, Server!Init, Server!Transport, CallInv, Shape, Truthful,
     SentAccepted, Callers

(* A client's requests go through Preflight and nothing else.              *)
THEOREM Validates == ClientSpec => Spec
<1>1. ClientInit => Init
  BY DEF ClientInit
<1>2. [ClientNext]_clientVars => [Next]_vars
  BY StepValidates DEF clientVars
<1> QED
  BY <1>1, <1>2, PTL DEF ClientSpec, Spec

(* The inductive invariant of a client's calls: what was sent is what the  *)
(* result says of it, and is the accepted request's.                       *)
THEOREM CallsHold == ClientSpec => []CallInv
<1> QED
  BY CallInvStarts, CallInvKept, PTL DEF ClientSpec

(* error.rs: an API error has the status zero exactly when nothing was     *)
(* sent, over all attempts of the call.                                    *)
THEOREM ZeroStatusIsUnsent == ClientSpec => []PreflightMeansUnsent
<1>1. CallInv => PreflightMeansUnsent
  <2> SUFFICES ASSUME CallInv, Returned, Answer.kind = "api"
               PROVE  Answer.http_status = 0 <=> sent[Caller] = 0
    BY DEF PreflightMeansUnsent
  <2>1. sent[Caller] \in Nat /\ Truthful(Caller)
    BY TwoCallers DEF CallInv, Shape
  <2>2. CASE stage = "rejected"
    BY <2>1, <2>2, TwoCallers
    DEF CallInv, SentAccepted, Accepted, Answer, PreflightError, Api
  <2>3. CASE stage # "rejected"
    BY <2>1, <2>3 DEF Truthful, Answer
  <2> QED
    BY <2>2, <2>3
<1> QED
  BY <1>1, CallsHold, PTL
-----------------------------------------------------------------------------
(* The budget.  A client has the settings of its builder; each attempt but *)
(* the one about to start has sent at most one request; and only an        *)
(* attempt below the budget goes to sleep.                                 *)
Budget(c) ==
  IF c = Probe \/ builder.retry = "none" THEN 0
  ELSE IF builder.retry = "custom" THEN CustomAttempts ELSE DefaultAttempts

AsBuilt ==
  /\ builder.retry \in {"unset", "none", "custom"} /\ DOMAIN builder = DOMAIN NewBuilder
  /\ IsClient => client = Config(RetryOf(builder), TimeoutOf(builder))
  /\ ~IsClient =>
       /\ stage = "idle"
       /\ \A c \in Callers : pc[c] = "ready" /\ attempt[c] = 0 /\ sent[c] = 0

Counts ==
  /\ sent \in [Callers -> Nat] /\ attempt \in [Callers -> Nat]
  /\ DOMAIN pc = Callers

Within(c) ==
  /\ sent[c] <= attempt[c] + (IF pc[c] = "ready" THEN 0 ELSE 1)
  /\ attempt[c] + (IF pc[c] = "sleeping" THEN 1 ELSE 0) <= Budget(c)

BudgetInv == AsBuilt /\ Counts /\ \A c \in Callers : Within(c)

LEMMA BudgetIsNat == ASSUME AsBuilt, NEW c \in Callers PROVE Budget(c) \in Nat
  BY CustomAssumption DEF Budget, DefaultAttempts

(* A decision to retry is made below the budget only.                      *)
LEMMA RetryBelowBudget ==
  ASSUME BudgetInv, IsClient, NEW p, NEW t, client = Config(p, t), NEW res,
         NEW d \in CallsUnder(p, t)!Verdicts(Caller, res),
         d # CallsUnder(p, t)!GiveUp
  PROVE  attempt[Caller] < Budget(Caller)
<1>1. p = RetryOf(builder)
  BY DEF BudgetInv, AsBuilt, Config
<1>2. Caller # Probe
  BY DEF CallsUnder!Verdicts
<1>3. d \in CallsUnder(p, t)!Decisions(attempt[Caller], res)
  BY <1>2, TwoCallers DEF CallsUnder!Verdicts
<1>4. /\ p # "none"
      /\ attempt[Caller] < IF p = "custom" THEN CustomAttempts ELSE DefaultAttempts
  BY <1>3 DEF CallsUnder!Decisions, CallsUnder!TransientDecision
<1> QED
  BY <1>1, <1>2, <1>4 DEF Budget, RetryOf, BudgetInv, AsBuilt

LEMMA CallWithin ==
  ASSUME BudgetInv, UNCHANGED <<builder, client>>, IsClient,
         sent' \in [Callers -> Nat], attempt' \in [Callers -> Nat], DOMAIN pc' = Callers,
         \A c \in Callers \ {Caller} :
           pc'[c] = pc[c] /\ attempt'[c] = attempt[c] /\ sent'[c] = sent[c],
         sent'[Caller] <= attempt'[Caller] + (IF pc'[Caller] = "ready" THEN 0 ELSE 1),
         attempt'[Caller] + (IF pc'[Caller] = "sleeping" THEN 1 ELSE 0) <= Budget(Caller)
  PROVE  BudgetInv'
<1>1. AsBuilt' /\ Counts'
  BY DEF BudgetInv, AsBuilt, Counts, IsClient
<1>2. ASSUME NEW c \in Callers PROVE Within(c)'
  BY <1>2 DEF BudgetInv, Within, Budget
<1> QED
  BY <1>1, <1>2 DEF BudgetInv

LEMMA SettleWithin ==
  ASSUME BudgetInv, UNCHANGED <<builder, client>>, IsClient,
         NEW p, NEW t, client = Config(p, t), NEW res,
         pc[Caller] \in {"ready", "waiting"}, CallsUnder(p, t)!Settle(Caller, res)
  PROVE  BudgetInv'
<1>1. PICK d \in CallsUnder(p, t)!Verdicts(Caller, res) :
        pc' = [pc EXCEPT ![Caller] =
                 IF d = CallsUnder(p, t)!GiveUp THEN "done" ELSE "sleeping"]
  BY DEF CallsUnder!Settle
<1>2. UNCHANGED <<attempt, sent>>
  BY DEF CallsUnder!Settle
<1>3. /\ attempt[Caller] \in Nat /\ sent[Caller] \in Nat /\ Budget(Caller) \in Nat
      /\ sent[Caller] <= attempt[Caller] + 1 /\ attempt[Caller] <= Budget(Caller)
  BY TwoCallers, BudgetIsNat DEF BudgetInv, Counts, Within
<1>4. d # CallsUnder(p, t)!GiveUp => attempt[Caller] < Budget(Caller)
  BY RetryBelowBudget
<1>5. /\ DOMAIN pc' = Callers /\ pc'[Caller] \in {"done", "sleeping"}
      /\ pc'[Caller] = "sleeping" => attempt[Caller] < Budget(Caller)
      /\ \A c \in Callers \ {Caller} : pc'[c] = pc[c]
  BY <1>1, <1>4, TwoCallers DEF BudgetInv, Counts
<1> QED
  BY <1>2, <1>3, <1>5, CallWithin DEF BudgetInv, Counts

LEMMA BudgetKept == ASSUME BudgetInv, [ClientNext]_clientVars PROVE BudgetInv'
<1>1. CASE Progress \/ ConnectionFails
  <2>1. PICK p \in Policies, t \in BOOLEAN :
          /\ client = Config(p, t)
          /\ \/ CallsUnder(p, t)!Progress(Caller)
             \/ CallsUnder(p, t)!ConnectionFails(Caller)
    BY <1>1 DEF Progress, ConnectionFails
  <2>2. IsClient /\ UNCHANGED <<builder, client>>
    BY <1>1, <2>1 DEF IsClient, Config, Progress, ConnectionFails, setup
  <2>3. /\ attempt[Caller] \in Nat /\ sent[Caller] \in Nat /\ Budget(Caller) \in Nat
        /\ Within(Caller)
    BY TwoCallers, BudgetIsNat DEF BudgetInv, Counts
  <2>4. CASE CallsUnder(p, t)!Send(Caller)
    <3>1. /\ sent' = [sent EXCEPT ![Caller] = @ + 1] /\ attempt' = attempt
          /\ pc' = [pc EXCEPT ![Caller] = "waiting"] /\ pc[Caller] = "ready"
      BY <2>4 DEF CallsUnder!Send
    <3>2. /\ sent' \in [Callers -> Nat] /\ attempt' \in [Callers -> Nat]
          /\ DOMAIN pc' = Callers /\ pc'[Caller] = "waiting"
          /\ sent'[Caller] = sent[Caller] + 1
          /\ \A c \in Callers \ {Caller} :
               pc'[c] = pc[c] /\ attempt'[c] = attempt[c] /\ sent'[c] = sent[c]
      BY <2>3, <3>1, TwoCallers DEF BudgetInv, Counts
    <3>3. sent[Caller] <= attempt[Caller] /\ attempt[Caller] <= Budget(Caller)
      BY <2>3, <3>1 DEF Within
    <3> QED
      BY <2>2, <2>3, <3>1, <3>2, <3>3, CallWithin
  <2>5. CASE \E m \in net : CallsUnder(p, t)!Receive(Caller, m)
    BY <2>1, <2>2, <2>5, SettleWithin DEF CallsUnder!Receive
  <2>6. CASE CallsUnder(p, t)!Timeout(Caller) \/ CallsUnder(p, t)!ConnectionFails(Caller)
    BY <2>1, <2>2, <2>6, SettleWithin DEF CallsUnder!Timeout, CallsUnder!ConnectionFails
  <2>7. CASE CallsUnder(p, t)!Wake(Caller)
    <3>1. /\ attempt' = [attempt EXCEPT ![Caller] = @ + 1] /\ sent' = sent
          /\ pc' = [pc EXCEPT ![Caller] = "ready"] /\ pc[Caller] = "sleeping"
      BY <2>7 DEF CallsUnder!Wake
    <3>2. /\ sent' \in [Callers -> Nat] /\ attempt' \in [Callers -> Nat]
          /\ DOMAIN pc' = Callers /\ pc'[Caller] = "ready"
          /\ attempt'[Caller] = attempt[Caller] + 1
          /\ \A c \in Callers \ {Caller} :
               pc'[c] = pc[c] /\ attempt'[c] = attempt[c] /\ sent'[c] = sent[c]
      BY <2>3, <3>1, TwoCallers DEF BudgetInv, Counts
    <3>3. sent[Caller] <= attempt[Caller] + 1 /\ attempt[Caller] + 1 <= Budget(Caller)
      BY <2>3, <3>1 DEF Within
    <3> QED
      BY <2>2, <2>3, <3>1, <3>2, <3>3, CallWithin
  <2> QED
    BY <2>1, <2>4, <2>5, <2>6, <2>7 DEF CallsUnder!Progress
<1>2. CASE Drop
  <2>1. IsClient /\ UNCHANGED <<builder, client>>
    BY <1>2 DEF Drop, Accepted, BudgetInv, AsBuilt, setup
  <2>2. /\ attempt[Caller] \in Nat /\ sent[Caller] \in Nat /\ Budget(Caller) \in Nat
        /\ Within(Caller)
    BY TwoCallers, BudgetIsNat DEF BudgetInv, Counts
  <2> QED
    BY <1>2, <2>1, <2>2, CallWithin, TwoCallers
    DEF Drop, Server!Drop, BudgetInv, Counts, Within
<1>3. CASE Network \/ UNCHANGED clientVars
  <2>1. UNCHANGED <<builder, client, stage, pc, attempt, sent>>
    BY <1>3 DEF Network, Server!ServerAnswers, Server!Lose,
       clientVars, setup, vars, call
  <2> QED
    BY <2>1 DEF BudgetInv, AsBuilt, Counts, Within, Budget, IsClient
<1>4. CASE (\E r \in Requests : Call(r)) \/ Check
  <2>1. UNCHANGED <<builder, client, pc, attempt, sent>>
    BY <1>4 DEF Call, Check, setup, call
  <2>2. stage # "idle" \/ IsClient
    BY <1>4 DEF Call, Check, Checking, CheckFields, WalkEntry, EndOfWalk, CheckKey
  <2> QED
    BY <2>1, <2>2 DEF BudgetInv, AsBuilt, Counts, Within, Budget, IsClient
<1>5. CASE ApiKey \/ HttpClient \/ Retry \/ ReadTimeout \/ Build
           \/ \E key \in EnvKeys : FromEnv(key)
  <2>1. client = NoClient /\ ~IsClient /\ UNCHANGED <<stage, pc, attempt, sent>>
    BY <1>5 DEF ApiKey, HttpClient, Retry, ReadTimeout, Setter, Build, FromEnv, vars, call,
       IsClient, NoClient, Refused
  <2>2. AsBuilt'
    <3> DEFINE Chosen(b) ==
          b.retry \in {"unset", "none", "custom"} /\ DOMAIN b = DOMAIN NewBuilder
    <3>0. Chosen(builder) /\ Chosen(NewBuilder)
      BY DEF BudgetInv, AsBuilt, NewBuilder
    <3>1. CASE ApiKey \/ HttpClient \/ Retry \/ ReadTimeout
      <4>1. Chosen(builder')
        BY <3>0, <3>1 DEF ApiKey, HttpClient, Retry, ReadTimeout, Setter, NewBuilder
      <4>2. UNCHANGED client
        BY <3>1 DEF ApiKey, HttpClient, Retry, ReadTimeout, Setter
      <4> QED
        BY <2>1, <4>1, <4>2 DEF BudgetInv, AsBuilt, IsClient
    <3>2. CASE Build
      BY <2>1, <3>2 DEF Build, Built, Config, Refused, BudgetInv, AsBuilt, IsClient
    <3>3. CASE \E key \in EnvKeys : FromEnv(key)
      <4>1. Chosen(builder')
        BY <3>0, <3>3 DEF FromEnv, NewBuilder
      <4>2. client' = Refused("missing_api_key") \/ client' \in Built(builder')
        BY <3>3 DEF FromEnv
      <4> HIDE DEF Chosen
      <4>3. IsClient' =>
              client' = Config(RetryOf(builder'), TimeoutOf(builder'))
        BY <4>2 DEF Built, Config, Refused, IsClient
      <4> USE DEF Chosen
      <4> QED
        BY <2>1, <4>1, <4>3 DEF BudgetInv, AsBuilt, RetryOf, TimeoutOf
    <3> QED
      BY <1>5, <3>1, <3>2, <3>3
  <2>3. ASSUME NEW c \in Callers PROVE Within(c)'
    <3>1. Budget(c)' \in Nat
      BY <2>2, CustomAssumption DEF Budget, DefaultAttempts
    <3> QED
      BY <2>1, <3>1 DEF BudgetInv, AsBuilt, Within
  <2> QED
    BY <2>1, <2>2, <2>3 DEF BudgetInv, Counts
<1> QED
  BY <1>1, <1>2, <1>3, <1>4, <1>5 DEF ClientNext

LEMMA BudgetStarts == ClientInit => BudgetInv
<1> SUFFICES ASSUME ClientInit PROVE BudgetInv
  OBVIOUS
<1>1. AsBuilt /\ Counts
  BY DEF ClientInit, Init, Server!Init, NewBuilder, AsBuilt, Counts, Callers, IsClient,
     NoClient, Refused
<1>2. ASSUME NEW c \in Callers PROVE Within(c)
  BY <1>1, BudgetIsNat DEF ClientInit, Server!Init, Within, Callers
<1> QED
  BY <1>1, <1>2 DEF BudgetInv

(* What the builder was told about retries is what the server sees, under  *)
(* every setting, for every set of requests and of answers.                *)
THEOREM BudgetIsTheBuilders == ClientSpec => []BudgetAsBuilt
<1>1. BudgetInv => BudgetAsBuilt
  <2> SUFFICES ASSUME BudgetInv PROVE BudgetAsBuilt
    OBVIOUS
  <2>1. \A c \in Callers : /\ sent[c] \in Nat /\ attempt[c] \in Nat /\ Budget(c) \in Nat
                           /\ sent[c] <= attempt[c] + 1 /\ attempt[c] <= Budget(c)
    BY BudgetIsNat DEF BudgetInv, Counts, Within
  <2>2. \A c \in Callers : sent[c] <= Budget(c) + 1
    BY <2>1
  <2>3. Rpc \in Callers /\ Probe \in Callers /\ Rpc # Probe
    BY DEF Callers, Rpc, Probe
  <2> QED
    BY <2>1, <2>2, <2>3 DEF Budget, DefaultAttempts, BudgetAsBuilt
<1> QED
  BY <1>1, BudgetStarts, BudgetKept, PTL DEF ClientSpec
=============================================================================
