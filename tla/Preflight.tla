------------------------------ MODULE Preflight ------------------------------
(***************************************************************************)
(* What a request must pass before anything of it is sent: the validate    *)
(* methods of publish.rs, search.rs, subscribe.rs and lint.rs and the      *)
(* checks of validate.rs they are made of.  A text is its length in bytes, *)
(* a metadata entry the lengths of its key and value and whether one of    *)
(* them holds a control character, a vector its length and whether all its *)
(* numbers are finite.                                                     *)
(*                                                                         *)
(* Metadata is a HashMap, so that the entries are walked in an order that  *)
(* differs from one process to the next: each entry is a step.             *)
(*                                                                         *)
(* ValueSize and ValidateOnTop are plausible slips of the definition that  *)
(* follows each of them.                                                   *)
(***************************************************************************)
EXTENDS Integers, Sequences, FiniteSets

CONSTANTS
  Requests,             \* the requests a program makes
  MaxVectorDim,         \* the caps of limits.rs
  MaxTextBytes,
  MaxMetadataKeys,
  MaxMetadataKeyLen,
  MaxMetadataValueLen,
  MaxMetadataTotal,
  MaxIdempotencyKeyLen

(* The fields of all requests together; those a request does not have are  *)
(* 0 or empty, and so is an idempotency key of None.                       *)
Entry == [name : STRING, key : Nat, value : Nat, control : BOOLEAN]
Item == [text : Nat, vector : Nat, finite : BOOLEAN]
Request ==
  [op : {"publish", "search", "subscribe", "lint", "health"},
   query : Nat, cursor : Nat, namespace : Nat, model : Nat, dimensions : Nat,
   items : Seq(Item), metadata : SUBSET Entry, idempotency_key : Nat]

ASSUME RequestsAssumption ==
  /\ Requests \subseteq Request
  /\ \A r \in Requests : IsFiniteSet(r.metadata)
ASSUME LimitsAssumption ==
  /\ MaxMetadataKeys \in Nat /\ MaxMetadataTotal \in Nat

VARIABLES
  request,  \* the request being validated
  stage,    \* "idle", "fields", "metadata", "key", "accepted" or "rejected"
  walked,   \* the metadata entries looked at
  total     \* validate_metadata's running total

vars == <<request, stage, walked, total>>

NoRequest == [op |-> "none"]
-----------------------------------------------------------------------------
TargetOk(r) == r.namespace > 0 /\ r.model > 0 /\ r.dimensions \in 1..MaxVectorDim

ItemOk(item) ==
  /\ item.text > 0 \/ item.vector > 0
  /\ item.text <= MaxTextBytes
  /\ item.vector > 0 => item.vector <= MaxVectorDim /\ item.finite

VectorMatches(item, dimensions) == item.vector \in {0, dimensions}

PublishOk(r) ==
  /\ TargetOk(r)
  /\ Len(r.items) = 1 /\ ItemOk(r.items[1])
  /\ VectorMatches(r.items[1], r.dimensions)
SearchOk(r) == r.query > 0 /\ TargetOk(r)
LintOk(r) == r.query > 0 /\ r.cursor <= r.query

(* The checks before the walk; health() makes none.                        *)
FieldsOk(r) ==
  CASE r.op = "publish" -> PublishOk(r)
    [] r.op \in {"search", "subscribe"} -> SearchOk(r)
    [] r.op = "lint" -> LintOk(r)
    [] r.op = "health" -> TRUE

EntryOk(e) ==
  /\ e.key \in 1..MaxMetadataKeyLen
  /\ e.value <= MaxMetadataValueLen
  /\ ~e.control

ValueSize(e) == e.value
Size(e) == e.key + e.value

TotalOk(n) == n <= MaxMetadataTotal

KeyOk(r) == r.idempotency_key <= MaxIdempotencyKeyLen
-----------------------------------------------------------------------------
Init ==
  /\ request = NoRequest /\ stage = "idle"
  /\ walked = {} /\ total = 0

(* A call starts; the one before it was refused.                           *)
ValidateOnTop(r) ==
  /\ stage \in {"idle", "rejected"}
  /\ request' = r /\ stage' = "fields"
  /\ total' = 0
  /\ walked' = walked
Validate(r) ==
  /\ stage \in {"idle", "rejected"}
  /\ request' = r /\ stage' = "fields"
  /\ total' = 0
  /\ walked' = {}

CheckFields ==
  /\ stage = "fields"
  /\ stage' = IF ~FieldsOk(request)                              THEN "rejected"
              ELSE IF request.metadata = {}                      THEN "key"
              ELSE IF Cardinality(request.metadata) > MaxMetadataKeys
                                                                 THEN "rejected"
                                                                 ELSE "metadata"
  /\ UNCHANGED <<request, walked, total>>

WalkEntry(e) ==
  /\ stage = "metadata" /\ e \in request.metadata \ walked
  /\ IF EntryOk(e)
     THEN total' = total + Size(e) /\ walked' = walked \union {e}
          /\ UNCHANGED stage
     ELSE stage' = "rejected" /\ UNCHANGED <<walked, total>>
  /\ UNCHANGED request

EndOfWalk ==
  /\ stage = "metadata" /\ walked = request.metadata
  /\ stage' = IF TotalOk(total) THEN "key" ELSE "rejected"
  /\ UNCHANGED <<request, walked, total>>

CheckKey ==
  /\ stage = "key"
  /\ stage' = IF KeyOk(request) THEN "accepted" ELSE "rejected"
  /\ UNCHANGED <<request, walked, total>>

Checking == CheckFields \/ EndOfWalk \/ CheckKey
            \/ (stage = "metadata" /\ \E e \in request.metadata : WalkEntry(e))

Next == (\E r \in Requests : Validate(r)) \/ Checking

Spec == Init /\ [][Next]_vars
-----------------------------------------------------------------------------
TypeOK ==
  /\ request \in Requests \union {NoRequest}
  /\ stage \in {"idle", "fields", "metadata", "key", "accepted", "rejected"}
  /\ stage # "idle" => request \in Requests /\ walked \subseteq request.metadata
  /\ total \in Nat

(* The bytes of a set of entries: each entry's, numbered from 1.           *)
Bytes(entries) == UNION {{e} \X (1..(e.key + e.value)) : e \in entries}

(* What limits.rs and the doc of validate_metadata promise of the metadata *)
(* as a whole, without a walk.                                             *)
MetadataWithinLimits(r) ==
  /\ Cardinality(r.metadata) <= MaxMetadataKeys
  /\ \A e \in r.metadata : EntryOk(e)
  /\ Cardinality(Bytes(r.metadata)) <= MaxMetadataTotal

WithinLimits(r) == FieldsOk(r) /\ MetadataWithinLimits(r) /\ KeyOk(r)

(* validate.rs: the verdict is a function of the request: whatever order   *)
(* the hash map is walked in, and whatever was validated before, a request *)
(* is accepted exactly when it is within the limits as a whole.            *)
LimitsMirrored ==
  /\ stage = "accepted" => WithinLimits(request)
  /\ stage = "rejected" => ~WithinLimits(request)
=============================================================================
