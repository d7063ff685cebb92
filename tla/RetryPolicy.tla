----------------------------- MODULE RetryPolicy -----------------------------
(***************************************************************************)
(* The retry policies of src/semantik/retry.rs.  A decision is the wait in *)
(* milliseconds, or GiveUp for None.                                       *)
(*                                                                         *)
(* IsTransientOrBroken and the TransientDecisions with a suffix are        *)
(* plausible slips of the definition that follows them.                    *)
(***************************************************************************)
EXTENDS ErrorDecode

CONSTANTS
  Policy,          \* "transient", "none" or "custom": the client's policy
  MaxAttempts,     \* TransientRetry's max_attempts
  CustomAttempts,  \* bound: the retries of a caller's own policy
  CustomDelays     \* the waits it may ask for

ASSUME PolicyAssumption == Policy \in {"transient", "none", "custom"}
ASSUME MaxAttemptsAssumption == MaxAttempts \in Nat
ASSUME CustomAttemptsAssumption == CustomAttempts \in Nat
ASSUME CustomDelaysAssumption == CustomDelays \subseteq Nat

GiveUp == -1

BackoffSchedule == <<100, 2000, 5000, 10000>>

FallbackBackoff(attempt) ==
  BackoffSchedule[IF attempt < 3 THEN attempt + 1 ELSE 4]

TransientCodes ==
  {"backpressure", "unavailable", "namespace_unavailable", "metering_unavailable"}

IsFailure(err) == err.kind # "ok"
IsTransientOrBroken(err) ==
  err.kind = "transport" \/ (err.kind = "api" /\ err.code \in TransientCodes)
IsTransient(err) == err.kind = "api" /\ err.code \in TransientCodes

TransientDecisionOneMore(attempt, err) ==
  IF attempt <= MaxAttempts /\ IsTransient(err) THEN FallbackBackoff(attempt)
                                                ELSE GiveUp
TransientDecisionHintOnly(attempt, err) ==
  IF attempt < MaxAttempts /\ IsTransient(err) /\ err.retry_after # NoHint
  THEN err.retry_after ELSE GiveUp
TransientDecisionNoFallback(attempt, err) ==
  IF attempt < MaxAttempts /\ IsTransient(err) THEN err.retry_after ELSE GiveUp

(* TransientRetry::should_retry.                                           *)
TransientDecision(attempt, err) ==
  IF attempt < MaxAttempts /\ IsTransient(err)
  THEN IF err.retry_after = NoHint THEN FallbackBackoff(attempt)
                                   ELSE err.retry_after
  ELSE GiveUp

(* What the configured policy may answer: a caller's own policy may retry  *)
(* any error after any wait, and for ever but for the bound CustomAttempts. *)
Decisions(attempt, err) ==
  IF Policy = "transient"
  THEN {TransientDecision(attempt, err)}
  ELSE {GiveUp} \union
       (IF Policy = "custom" /\ attempt < CustomAttempts THEN CustomDelays ELSE {})

(* run_with_retry caps every wait, whoever asked for it.                   *)
Capped(d) == IF d > MaxRetryAfter THEN MaxRetryAfter ELSE d
=============================================================================
