---------------------------- MODULE MCSubscription ----------------------------
(***************************************************************************)
(* Constants for Subscription.                                             *)
(***************************************************************************)
EXTENDS Subscription

CONSTANTS m1, m2

Unavailable ==
  [status |-> 503, size |-> "fits", body |-> "json", error |-> "unavailable",
   retry_after_ms |-> 0, retry_after |-> 0]
Unauthorized == [Unavailable EXCEPT !.status = 401, !.body = "empty"]
Refusals == {Unavailable, Unauthorized}

What(event, data) == [event |-> event, data |-> data]
Acknowledgement == What("subscribed", m1)
Matching == {What("match", m) : m \in {m1, m2}}
Unknown == What("other", NoData)
Odd == {What("subscribed", NoData), What("match", NoData), What("oversize", NoData)}

PlainItems == {Acknowledgement, Unknown} \union Matching
OddItems == {Acknowledgement, What("match", m1)} \union Odd
AllItems == PlainItems \union Odd
=============================================================================
