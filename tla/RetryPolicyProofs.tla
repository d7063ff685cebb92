--------------------------- MODULE RetryPolicyProofs ---------------------------
(***************************************************************************)
(* Facts about the decoded errors and the retry decisions, for every       *)
(* response, attempt and policy; RpcCallsProofs and SubscriptionProofs     *)
(* rest on them.                                                           *)
(***************************************************************************)
EXTENDS RetryPolicy, TLAPS

(* MAX_RETRY_AFTER is a positive number: all the arithmetic needs of it.   *)
LEMMA AnHour == MaxRetryAfter \in Nat /\ MaxRetryAfter >= 1
  BY SMT DEF MaxRetryAfter

(* Every entry of the backoff schedule is a wait that is not zero.         *)
LEMMA Schedule ==
  ASSUME NEW n \in Nat
  PROVE  FallbackBackoff(n) \in Nat /\ FallbackBackoff(n) >= 1
  BY SMT DEF FallbackBackoff, BackoffSchedule

(* Whatever a non-2xx response holds, it decodes to an Error::Api with a   *)
(* known code and a hint that is a number.                                 *)
LEMMA DecodedTyped ==
  ASSUME NEW r \in Response
  PROVE  DecodeErrorResponse(r) \in Result
<1>1. r.status \in Nat /\ r.retry_after_ms \in Nat /\ r.retry_after \in Int
  BY DEF Response, Statuses
<1>2. EnvelopeCode(r) \in KnownCodes \union {"unknown"}
  <2>1. \A row \in FallbackCodes : row[2] \in KnownCodes
    BY DEF FallbackCodes, KnownCodes
  <2>2. StatusCodeFallback(r.status) \in KnownCodes
    <3> DEFINE found == CHOOSE row \in FallbackCodes : row[1] = r.status
    <3>1. CASE \E row \in FallbackCodes : row[1] = r.status
      <4>1. found \in FallbackCodes
        BY <3>1, SMT
      <4>2. StatusCodeFallback(r.status) = found[2]
        BY <3>1, SMT DEF StatusCodeFallback
      <4> QED
        BY <2>1, <4>1, <4>2
    <3>2. CASE ~\E row \in FallbackCodes : row[1] = r.status
      BY <3>2, SMT DEF StatusCodeFallback, KnownCodes
    <3> QED
      BY <3>1, <3>2
  <2> QED
    BY <2>2 DEF EnvelopeCode, FromWire
<1>3. RetryAfter(r) \in Nat
  <2>1. \A ms \in Int : AcceptedHint(ms) \in Nat
    BY AnHour, SMT DEF AcceptedHint, NoHint
  <2>2. 1000 * r.retry_after \in Int
    BY <1>1, SMT
  <2> QED
    BY <1>1, <2>1, <2>2 DEF RetryAfter
<1> QED
  BY <1>1, <1>2, <1>3 DEF DecodeErrorResponse, Api, Result

(* A decision is to give up or a wait, and a wait is capped to an hour.    *)
LEMMA DecisionTyped ==
  ASSUME NEW n \in Nat, NEW res \in Result, NEW d \in Decisions(n, res)
  PROVE  d \in Nat \union {GiveUp} /\ (d # GiveUp => Capped(d) \in 0..MaxRetryAfter)
<1>1. FallbackBackoff(n) \in Nat
  BY Schedule
<1>2. TransientDecision(n, res) \in Nat \union {GiveUp}
  BY <1>1 DEF TransientDecision, Result
<1>3. d \in Nat \union {GiveUp}
  BY <1>2, CustomDelaysAssumption DEF Decisions
<1> QED
  BY <1>3, AnHour DEF Capped, GiveUp

(* The built-in policies retry only a transient answer, within the budget, *)
(* after a wait that is not zero.                                          *)
LEMMA BuiltInDecision ==
  ASSUME Policy # "custom", NEW n \in Nat, NEW res \in Result,
         NEW d \in Decisions(n, res), d # GiveUp
  PROVE  IsTransient(res) /\ n < MaxAttempts /\ Capped(d) >= 1
<1>1. d = TransientDecision(n, res)
  BY PolicyAssumption DEF Decisions
<1>2. n < MaxAttempts /\ IsTransient(res)
  BY <1>1 DEF TransientDecision
<1>3. d >= 1 /\ d \in Nat
  <2>1. FallbackBackoff(n) \in Nat /\ FallbackBackoff(n) >= 1
    BY Schedule
  <2>2. res.retry_after \in Nat
    BY DEF Result
  <2> QED
    BY <1>1, <1>2, <2>1, <2>2 DEF TransientDecision, NoHint
<1> QED
  BY <1>2, <1>3, AnHour DEF Capped

(* A failure of the connection is a result, and not one that is retried.   *)
LEMMA TransportFacts == Transport \in Result /\ ~IsTransient(Transport)
  BY DEF Transport, Result, IsTransient, NoHint, NoCode
=============================================================================
