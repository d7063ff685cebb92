------------------------------ MODULE MCPreflight ------------------------------
(***************************************************************************)
(* Constants for Preflight: requests on both sides of every limit, the     *)
(* limits scaled down in the proportions of limits.rs (the entries of a    *)
(* full set of metadata may exceed the total).                             *)
(***************************************************************************)
EXTENDS Preflight

Text(text) == [text |-> text, vector |-> 0, finite |-> TRUE]
Vector(n) == [text |-> 0, vector |-> n, finite |-> TRUE]
Nothing == Text(0)

Targeted(op) ==
  [op |-> op, query |-> 2, cursor |-> 0, namespace |-> 1, model |-> 1,
   dimensions |-> 2, items |-> << >>, metadata |-> {}, idempotency_key |-> 0]

Publish == [Targeted("publish") EXCEPT !.items = <<Text(1)>>]

(* Each request with a field at, below and above what is accepted.         *)
Targets(r) ==
  {r, [r EXCEPT !.namespace = 0], [r EXCEPT !.model = 0]}
    \union {[r EXCEPT !.dimensions = d] : d \in {0, 3, 4}}

Queries ==
  UNION {Targets(Targeted(op)) \union {[Targeted(op) EXCEPT !.query = 0]} :
           op \in {"search", "subscribe"}}

Lints == {[Targeted("lint") EXCEPT !.query = q, !.cursor = c] : q, c \in {0, 2, 3}}

Items ==
  {Text(3), Text(4), Vector(2), Vector(1), Vector(4), Nothing,
   [Vector(2) EXCEPT !.finite = FALSE], [Vector(2) EXCEPT !.text = 3]}

OfName(name, key, value, control) ==
  [name |-> name, key |-> key, value |-> value, control |-> control]
Entries ==
  {OfName("a", 1, 3, FALSE), OfName("a", 2, 2, FALSE), OfName("a", 0, 1, FALSE),
   OfName("a", 3, 0, FALSE), OfName("a", 1, 4, FALSE), OfName("a", 1, 1, TRUE),
   OfName("b", 2, 1, FALSE), OfName("b", 1, 3, FALSE), OfName("c", 1, 0, FALSE)}
Metadata ==
  {m \in SUBSET Entries : \A e1, e2 \in m : e1.name = e2.name => e1 = e2}

Publishes ==
  Targets(Publish)
    \union {[Publish EXCEPT !.items = <<i>>] : i \in Items}
    \union {[Publish EXCEPT !.items = s] : s \in {<< >>, <<Text(1), Text(1)>>}}
    \union {[Publish EXCEPT !.metadata = m] : m \in Metadata}
    \union {[Publish EXCEPT !.idempotency_key = n] : n \in {2, 3}}

SomeRequests == Publishes \union Queries \union Lints \union {Targeted("health")}
=============================================================================
