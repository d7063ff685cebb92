------------------------------ MODULE MCRpcCalls ------------------------------
(***************************************************************************)
(* Constants for RpcCalls: the responses worth telling apart, and which    *)
(* call carries which idempotency key.                                     *)
(***************************************************************************)
EXTENDS RpcCalls, TLC

Http(status, size, body, error, ms, header) ==
  [status |-> status, size |-> size, body |-> body, error |-> error,
   retry_after_ms |-> ms, retry_after |-> header]

Stored     == Http(200, "fits", "json", "", 0, 0)
NotJson    == Http(200, "fits", "garbled", "", 0, 0)
HugeOk     == Http(200, "overResponseCap", "json", "", 0, 0)
Hinted     == Http(429, "fits", "json", "backpressure", 500, 2)
OverHour   == Http(503, "fits", "json", "unavailable", 3600001, 0)
OverHeader == Http(503, "fits", "json", "metering_unavailable", 0, 3601)
PastDate   == Http(503, "fits", "garbled", "", 0, -7)
Bodiless   == Http(503, "fits", "empty", "", 0, 2)
LimitedMs  == Http(429, "fits", "json", "rate_limited", 500, 0)
BareLimit  == Http(429, "fits", "empty", "", 0, 1)
LongError  == Http(503, "overErrorCap", "json", "rate_limited", 500, 1)
HugeError  == Http(503, "overResponseCap", "json", "unavailable", 500, 0)

FewResponses == {Stored, Hinted}
AllResponses ==
  {Stored, NotJson, HugeOk, Hinted, OverHour, OverHeader, PastDate, Bodiless,
   LimitedMs, BareLimit, LongError, HugeError}

OneKey == [c \in Calls |-> "k"]
Interchangeable == Permutations(Calls)
NoKeys == [c \in Calls |-> NoKey]
=============================================================================
