----------------------------- MODULE ErrorDecode -----------------------------
(***************************************************************************)
(* What one HTTP exchange means to the SDK: decode_error_response and its  *)
(* helpers (src/semantik/error.rs), and the two ways a response is turned  *)
(* into a result, send_once_json (transport.rs) and health (health.rs).    *)
(*                                                                         *)
(* A response is a record of what those functions look at: the status; how *)
(* large the body is against the two caps of limits.rs; what the body      *)
(* holds; the `error' and `retry_after_ms' of a JSON body, "" and 0 when   *)
(* absent; and the seconds of a Retry-After header, 0 when absent.         *)
(* Times are in milliseconds.                                              *)
(*                                                                         *)
(* MalformedWithoutStatus, UncheckedHint and SendOnceJsonBodyFirst are     *)
(* plausible slips of the definition that follows each of them.            *)
(***************************************************************************)
EXTENDS Integers

MaxRetryAfter == 3600000   \* MAX_RETRY_AFTER
NoHint == 0                \* Option::None, a hint of 0 being read as None

Statuses  == 200..599
BodySizes == {"fits", "overErrorCap", "overResponseCap"}
Bodies    == {"empty", "json", "garbled"}

Response == [status : Statuses, size : BodySizes, body : Bodies,
             error : STRING, retry_after_ms : Nat, retry_after : Int]

IsSuccess(r) == r.status \in 200..299

(* A result: Ok, or an Error: Api, Transport or MalformedSse.              *)
KnownCodes ==
  {"invalid_request", "unauthorized", "not_billable", "method_not_allowed",
   "unsupported_media_type", "request_too_large", "rate_limited",
   "too_many_requests", "backpressure", "unavailable", "namespace_unavailable",
   "namespace_disabled", "model_not_provisioned", "metering_unavailable",
   "internal_error", "malformed_response"}
FromWire(error) == IF error \in KnownCodes THEN error ELSE "unknown"
NoCode == "none"

Result == [kind : {"ok", "api", "transport", "malformed_sse"},
           code : KnownCodes \union {"unknown", NoCode},
           http_status : Nat, retry_after : Nat]

Ok == [kind |-> "ok", code |-> NoCode, http_status |-> 0, retry_after |-> NoHint]
Transport ==
  [kind |-> "transport", code |-> NoCode, http_status |-> 0, retry_after |-> NoHint]

Api(code, status, hint) ==
  [kind |-> "api", code |-> code, http_status |-> status, retry_after |-> hint]

MalformedWithoutStatus(status) == Api("malformed_response", 0, NoHint)
MalformedResponse(status) == Api("malformed_response", status, NoHint)

FallbackCodes ==
  {<<400, "invalid_request">>, <<401, "unauthorized">>, <<402, "not_billable">>,
   <<405, "method_not_allowed">>, <<413, "request_too_large">>,
   <<415, "unsupported_media_type">>, <<429, "rate_limited">>,
   <<503, "unavailable">>}

StatusCodeFallback(status) ==
  IF \E row \in FallbackCodes : row[1] = status
  THEN (CHOOSE row \in FallbackCodes : row[1] = status)[2]
  ELSE "internal_error"

(* retry_after_from_ms and the delta-seconds form of Retry-After: a hint   *)
(* that is not positive or exceeds an hour is no hint.                     *)
UncheckedHint(ms) == ms
AcceptedHint(ms) == IF ms \in 1..MaxRetryAfter THEN ms ELSE NoHint

(* The body is cut at MAX_ERROR_BODY_BYTES, which leaves no valid JSON.    *)
HasEnvelope(r) == r.body = "json" /\ r.size = "fits"

EnvelopeCode(r) ==
  IF HasEnvelope(r) /\ r.error # "" THEN FromWire(r.error)
                                    ELSE StatusCodeFallback(r.status)

RetryAfter(r) ==
  IF HasEnvelope(r) /\ AcceptedHint(r.retry_after_ms) # NoHint
  THEN AcceptedHint(r.retry_after_ms)
  ELSE AcceptedHint(1000 * r.retry_after)

DecodeErrorResponse(r) == Api(EnvelopeCode(r), r.status, RetryAfter(r))

SendOnceJsonBodyFirst(r) ==
  IF r.body = "json" /\ r.size = "fits" THEN Ok ELSE DecodeErrorResponse(r)

(* read_capped compares the size before anything looks at the status.      *)
SendOnceJson(r) ==
  IF r.size = "overResponseCap" THEN MalformedResponse(r.status)
  ELSE IF ~IsSuccess(r)         THEN DecodeErrorResponse(r)
  ELSE IF r.body = "json"       THEN Ok
                                ELSE MalformedResponse(r.status)

Health(r) == IF IsSuccess(r) THEN Ok ELSE DecodeErrorResponse(r)
=============================================================================
