---------------------------- MODULE PositionsProofs ----------------------------
(***************************************************************************)
(* Induction over the natural numbers and definition by recursion, stated  *)
(* of sets and functions, and the laws of Positions that follow.           *)
(***************************************************************************)
EXTENDS Positions, SequenceTheorems, WellFoundedInduction, TLAPS

(* A set of natural numbers that holds 0, and with n also n + 1, holds all. *)
LEMMA Induction ==
  ASSUME NEW P, 0 \in P, \A n \in Nat : n \in P => n + 1 \in P
  PROVE  \A n \in Nat : n \in P
<1> DEFINE missing == {n \in Nat : n \notin P}
           below == OpToRel(<, Nat)
<1> SUFFICES ASSUME missing # {} PROVE FALSE
  OBVIOUS
<1>1. IsWellFoundedOn(below, Nat)
  BY NatLessThanWellFounded
<1>2. missing \subseteq Nat
  OBVIOUS
<1> HIDE DEF below
<1>3. PICK k \in missing : \A j \in missing : <<j, k>> \notin below
  BY <1>1, <1>2, WFMin
<1>4. \A j \in missing : ~(j < k)
  BY <1>2, <1>3, Zenon DEF below, OpToRel
<1>5. k # 0 /\ k - 1 \in Nat /\ k - 1 \in P
  BY <1>4
<1> QED
  BY <1>3, <1>5

(* A function on the natural numbers is defined by its first value and by  *)
(* a step from each value to the next.                                     *)
IsRun(f, V, first, step) ==
  /\ f \in [Nat -> V]
  /\ f[0] = first
  /\ \A n \in Nat : f[n + 1] = step[<<n, f[n]>>]

LEMMA Recursion ==
  ASSUME NEW V, NEW first \in V, NEW step \in [Nat \X V -> V]
  PROVE  \E f : IsRun(f, V, first, step)
<1> DEFINE Runs(g, n) == /\ g \in [Nat -> V] /\ g[0] = first
                         /\ \A m \in 0..(n - 1) : g[m + 1] = step[<<m, g[m]>>]
           P == {n \in Nat : \E g : Runs(g, n)}
<1>1. 0 \in P
  <2>1. Runs([n \in Nat |-> first], 0)
    OBVIOUS
  <2> QED
    BY <2>1
<1>2. ASSUME NEW n \in Nat, n \in P PROVE n + 1 \in P
  <2>1. PICK g : Runs(g, n)
    BY <1>2
  <2> DEFINE h == [g EXCEPT ![n + 1] = step[<<n, g[n]>>]]
  <2>2. step[<<n, g[n]>>] \in V
    BY <2>1
  <2>3. h \in [Nat -> V] /\ \A m \in Nat : h[m] = IF m = n + 1 THEN step[<<n, g[n]>>] ELSE g[m]
    BY <2>1, <2>2
  <2> HIDE DEF h
  <2>4. Runs(h, n + 1)
    BY <2>1, <2>3
  <2> QED
    BY <2>4
<1>3. \A n \in Nat : n \in P
  <2> HIDE DEF P
  <2> QED
    BY <1>1, <1>2, Induction
<1>4. ASSUME NEW g, NEW h, NEW n \in Nat, NEW k \in Nat, Runs(g, n), Runs(h, k), n <= k
      PROVE  \A m \in 0..n : g[m] = h[m]
  <2> DEFINE Q == {m \in Nat : m <= n => g[m] = h[m]}
  <2>1. 0 \in Q
    BY <1>4
  <2>2. ASSUME NEW m \in Nat, m \in Q PROVE m + 1 \in Q
    <3> SUFFICES ASSUME m + 1 <= n PROVE g[m + 1] = h[m + 1]
      OBVIOUS
    <3>1. g[m] = h[m] /\ m \in 0..(n - 1) /\ m \in 0..(k - 1)
      BY <1>4, <2>2
    <3> QED
      BY <1>4, <3>1
  <2>3. \A m \in Nat : m \in Q
    <3> HIDE DEF Q
    <3> QED
      BY <2>1, <2>2, Induction
  <2> QED
    BY <2>3
<1> DEFINE run == [n \in Nat |-> CHOOSE g : Runs(g, n)]
           f == [n \in Nat |-> run[n][n]]
<1>5. ASSUME NEW n \in Nat PROVE Runs(run[n], n)
  <2>1. \E g : Runs(g, n)
    BY <1>3
  <2>2. Runs(CHOOSE g : Runs(g, n), n)
    <3> HIDE DEF Runs
    <3> QED
      BY <2>1, Zenon
  <2> QED
    BY <2>2, Zenon
<1> HIDE DEF run
<1>6. f \in [Nat -> V] /\ f[0] = first
  BY <1>5
<1>7. ASSUME NEW n \in Nat PROVE f[n + 1] = step[<<n, f[n]>>]
  <2>1. Runs(run[n], n) /\ Runs(run[n + 1], n + 1)
    BY <1>5
  <2>2. \A m \in 0..n : run[n][m] = run[n + 1][m]
    <3> HIDE DEF Runs
    <3>1. n + 1 \in Nat /\ n <= n + 1
      OBVIOUS
    <3> QED
      BY <1>4, <2>1, <3>1
  <2>3. run[n][n] = run[n + 1][n]
    BY <2>2
  <2> QED
    BY <2>1, <2>3
<1> QED
  BY <1>6, <1>7, Zenon DEF IsRun
-----------------------------------------------------------------------------

(***************************************************************************)
(* ElementsAt.                                                             *)
(***************************************************************************)

(* The recursion that defines it.                                          *)
LEMMA ElementsDef ==
  ASSUME NEW s, NEW S
  PROVE  /\ ElementsUpTo(s, S, 0) = << >>
         /\ \A n \in Nat :
              /\ n + 1 \in S => ElementsUpTo(s, S, n + 1) =
                                   Append(ElementsUpTo(s, S, n), s[n + 1])
              /\ n + 1 \notin S => ElementsUpTo(s, S, n + 1) = ElementsUpTo(s, S, n)
<1> DEFINE X == {s[n] : n \in Nat}
           Defines(f) == f = [n \in Nat |->
                               IF n = 0 THEN << >>
                               ELSE IF n \in S THEN Append(f[n - 1], s[n])
                               ELSE f[n - 1]]
           V == Seq(X)
           none == << >>
           step == [p \in Nat \X V |->
                     IF p[1] + 1 \in S THEN Append(p[2], s[p[1] + 1]) ELSE p[2]]
           upTo == CHOOSE f : Defines(f)
<1>1. step \in [Nat \X V -> V]
  OBVIOUS
<1>2. \A n \in Nat, v \in V :
        step[<<n, v>>] = IF n + 1 \in S THEN Append(v, s[n + 1]) ELSE v
  OBVIOUS
<1>0. none \in V
  OBVIOUS
<1> HIDE DEF step, V, none
<1>3. PICK f : IsRun(f, V, none, step)
  BY <1>0, <1>1, Recursion
<1> USE DEF IsRun
<1>4. Defines(f)
  <2>1. ASSUME NEW n \in Nat, n # 0
        PROVE  f[n] = IF n \in S THEN Append(f[n - 1], s[n]) ELSE f[n - 1]
    <3>1. n - 1 \in Nat /\ (n - 1) + 1 = n
      BY <2>1
    <3>2. f[(n - 1) + 1] = step[<<n - 1, f[n - 1]>>]
      BY <1>3, <3>1
    <3>3. f[n - 1] \in V
      BY <1>3, <3>1
    <3> QED
      BY <1>2, <3>1, <3>2, <3>3
  <2>2. f = [n \in Nat |-> f[n]]
    BY <1>3
  <2> QED
    BY <1>3, <2>1, <2>2 DEF none
<1>5. Defines(upTo)
  <2> HIDE DEF Defines
  <2> QED
    BY <1>4, Zenon
<1>6. \A n : ElementsUpTo(s, S, n) = upTo[n]
  BY Zenon DEF ElementsUpTo
<1> HIDE DEF upTo
<1>7. \A n \in Nat : upTo[n] = IF n = 0 THEN << >>
                                ELSE IF n \in S THEN Append(upTo[n - 1], s[n])
                                ELSE upTo[n - 1]
  BY <1>5, Zenon
<1> HIDE DEF Defines
<1>8. ASSUME NEW n \in Nat
      PROVE  upTo[n + 1] = IF n + 1 \in S THEN Append(upTo[n], s[n + 1]) ELSE upTo[n]
  <2>1. n + 1 \in Nat /\ n + 1 # 0 /\ (n + 1) - 1 = n
    OBVIOUS
  <2> QED
    BY <1>7, <2>1
<1> QED
  BY <1>6, <1>7, <1>8

(* Its two equations.                                                      *)
LEMMA ElementsNone ==
  ASSUME NEW s, NEW S
  PROVE  ElementsUpTo(s, S, 0) = << >>
  BY ElementsDef, Zenon

LEMMA ElementsStep ==
  ASSUME NEW s, NEW S, NEW n \in Nat
  PROVE  /\ n + 1 \in S => ElementsUpTo(s, S, n + 1) =
                              Append(ElementsUpTo(s, S, n), s[n + 1])
         /\ n + 1 \notin S => ElementsUpTo(s, S, n + 1) = ElementsUpTo(s, S, n)
  BY ElementsDef, Zenon

(* What is selected up to a position depends on nothing after it.          *)
SameUpTo(s, S, t, T, n) ==
  \A i \in 1..n : (i \in S <=> i \in T) /\ (i \in S => s[i] = t[i])

LEMMA ElementsAgree ==
  ASSUME NEW s, NEW S, NEW t, NEW T, NEW n \in Nat, SameUpTo(s, S, t, T, n)
  PROVE  ElementsUpTo(s, S, n) = ElementsUpTo(t, T, n)
<1> DEFINE P == {k \in Nat : k <= n => ElementsUpTo(s, S, k) = ElementsUpTo(t, T, k)}
<1>1. 0 \in P
  <2>1. ElementsUpTo(s, S, 0) = ElementsUpTo(t, T, 0)
    BY ElementsNone, Zenon
  <2> QED
    BY <2>1
<1>2. ASSUME NEW k \in Nat, k \in P PROVE k + 1 \in P
  <2> SUFFICES ASSUME k + 1 <= n
               PROVE  ElementsUpTo(s, S, k + 1) = ElementsUpTo(t, T, k + 1)
    OBVIOUS
  <2>1. k + 1 \in 1..n /\ ElementsUpTo(s, S, k) = ElementsUpTo(t, T, k)
    BY <1>2
  <2>2. (k + 1 \in S <=> k + 1 \in T) /\ (k + 1 \in S => s[k + 1] = t[k + 1])
    BY <2>1 DEF SameUpTo
  <2>3. ElementsUpTo(s, S, k + 1) =
          IF k + 1 \in S THEN Append(ElementsUpTo(s, S, k), s[k + 1])
          ELSE ElementsUpTo(s, S, k)
    BY ElementsStep
  <2>4. ElementsUpTo(t, T, k + 1) =
          IF k + 1 \in T THEN Append(ElementsUpTo(t, T, k), t[k + 1])
          ELSE ElementsUpTo(t, T, k)
    BY ElementsStep
  <2> QED
    BY <2>1, <2>2, <2>3, <2>4
<1>3. \A k \in Nat : k \in P
  <2> HIDE DEF P
  <2> QED
    BY <1>1, <1>2, Induction
<1> QED
  BY <1>3

(* Positions that are not selected add nothing.                            *)
LEMMA ElementsGap ==
  ASSUME NEW s, NEW S, NEW n \in Nat, NEW last \in Nat, n <= last,
         \A i \in (n + 1)..last : i \notin S
  PROVE  ElementsUpTo(s, S, last) = ElementsUpTo(s, S, n)
<1> DEFINE P == {k \in Nat : n <= k /\ k <= last =>
                               ElementsUpTo(s, S, k) = ElementsUpTo(s, S, n)}
<1>1. 0 \in P
  OBVIOUS
<1>2. ASSUME NEW k \in Nat, k \in P PROVE k + 1 \in P
  <2> SUFFICES ASSUME n <= k + 1, k + 1 <= last
               PROVE  ElementsUpTo(s, S, k + 1) = ElementsUpTo(s, S, n)
    OBVIOUS
  <2>1. CASE n = k + 1
    BY <2>1
  <2>2. CASE n <= k
    <3>1. k + 1 \in (n + 1)..last /\ ElementsUpTo(s, S, k) = ElementsUpTo(s, S, n)
      BY <1>2, <2>2
    <3>2. ElementsUpTo(s, S, k + 1) = IF k + 1 \in S
                                      THEN Append(ElementsUpTo(s, S, k), s[k + 1])
                                      ELSE ElementsUpTo(s, S, k)
      BY ElementsStep
    <3> QED
      BY <3>1, <3>2
  <2> QED
    BY <2>1, <2>2
<1>3. \A k \in Nat : k \in P
  <2> HIDE DEF P
  <2> QED
    BY <1>1, <1>2, Induction
<1> QED
  BY <1>3

(* What is selected from a sequence has elements of the same kind.         *)
LEMMA ElementsTyped ==
  ASSUME NEW X, NEW s \in Seq(X), NEW S
  PROVE  /\ \A n \in 0..Len(s) : ElementsUpTo(s, S, n) \in Seq(X)
         /\ ElementsAt(s, S) \in Seq(X)
<1> DEFINE P == {k \in Nat : k <= Len(s) => ElementsUpTo(s, S, k) \in Seq(X)}
<1>1. 0 \in P
  <2>1. ElementsUpTo(s, S, 0) = << >> /\ << >> \in Seq(X)
    BY ElementsNone
  <2> QED
    BY <2>1
<1>2. ASSUME NEW k \in Nat, k \in P PROVE k + 1 \in P
  <2> SUFFICES ASSUME k + 1 <= Len(s)
               PROVE  ElementsUpTo(s, S, k + 1) \in Seq(X)
    OBVIOUS
  <2>1. s[k + 1] \in X /\ ElementsUpTo(s, S, k) \in Seq(X)
    BY <1>2
  <2>2. Append(ElementsUpTo(s, S, k), s[k + 1]) \in Seq(X)
    BY <2>1, AppendProperties
  <2>3. ElementsUpTo(s, S, k + 1) = IF k + 1 \in S
                                    THEN Append(ElementsUpTo(s, S, k), s[k + 1])
                                    ELSE ElementsUpTo(s, S, k)
    BY ElementsStep
  <2> QED
    BY <2>1, <2>2, <2>3
<1>3. \A k \in Nat : k \in P
  <2> HIDE DEF P
  <2> QED
    BY <1>1, <1>2, Induction
<1> QED
  BY <1>3 DEF ElementsAt

(* A sequence grows by one element.                                        *)
LEMMA ElementsAppend ==
  ASSUME NEW X, NEW s \in Seq(X), NEW x \in X, NEW S
  PROVE  ElementsAt(Append(s, x), S) =
           IF Len(s) + 1 \in S THEN Append(ElementsAt(s, S), x) ELSE ElementsAt(s, S)
<1>1. /\ Len(Append(s, x)) = Len(s) + 1 /\ Len(s) \in Nat
      /\ \A i \in 1..Len(s) : Append(s, x)[i] = s[i]
      /\ Append(s, x)[Len(s) + 1] = x
  BY AppendProperties
<1> DEFINE longer == Append(s, x)
<1> HIDE DEF longer
<1>2. ElementsUpTo(longer, S, Len(s)) = ElementsUpTo(s, S, Len(s))
  <2>1. SameUpTo(longer, S, s, S, Len(s))
    BY <1>1 DEF longer, SameUpTo
  <2>2. Len(s) \in Nat
    BY <1>1
  <2> QED
    BY <2>1, <2>2, ElementsAgree
<1>3. ElementsUpTo(longer, S, Len(s) + 1) =
        IF Len(s) + 1 \in S THEN Append(ElementsUpTo(longer, S, Len(s)), longer[Len(s) + 1])
        ELSE ElementsUpTo(longer, S, Len(s))
  BY <1>1, ElementsStep, Zenon
<1>4. Len(longer) = Len(s) + 1 /\ longer[Len(s) + 1] = x
  BY <1>1 DEF longer
<1> QED
  BY <1>2, <1>3, <1>4, Zenon DEF ElementsAt, longer

(* Laws of concatenation, named so that they can be cited of any terms.    *)
Associates(X) == \A a, b, c \in Seq(X) : (a \o b) \o c = a \o (b \o c)
AppendsLast(X) ==
  \A a, b \in Seq(X), x \in X : Append(a \o b, x) = a \o Append(b, x)

LEMMA ConcatLaws ==
  ASSUME NEW X
  PROVE  Associates(X) /\ AppendsLast(X)
<1>1. Associates(X)
  BY ConcatAssociative DEF Associates
<1>2. ASSUME NEW a \in Seq(X), NEW b \in Seq(X), NEW x \in X
      PROVE  Append(a \o b, x) = a \o Append(b, x)
  <2>1. /\ <<x>> \in Seq(X) /\ a \o b \in Seq(X)
        /\ Append(a \o b, x) = (a \o b) \o <<x>>
        /\ Append(b, x) = b \o <<x>>
    BY AppendIsConcat, ConcatProperties
  <2>2. (a \o b) \o <<x>> = a \o (b \o <<x>>)
    BY <2>1, ConcatAssociative
  <2> QED
    BY <2>1, <2>2, Zenon
<1> QED
  BY <1>1, <1>2, Zenon DEF AppendsLast

(* Two sequences are joined.                                               *)
LEMMA ElementsConcat ==
  ASSUME NEW X, NEW s \in Seq(X), NEW t \in Seq(X), NEW S, NEW T,
         \A i \in 1..Len(t) : i \in T <=> Len(s) + i \in S
  PROVE  ElementsAt(s \o t, S) = ElementsAt(s, S) \o ElementsAt(t, T)
<1> DEFINE P == {k \in Nat : k <= Len(t) =>
                   ElementsUpTo(s \o t, S, Len(s) + k) =
                     ElementsAt(s, S) \o ElementsUpTo(t, T, k)}
<1>0. /\ Len(s) \in Nat /\ Len(t) \in Nat /\ Len(s \o t) = Len(s) + Len(t)
      /\ \A i \in 1..Len(s) : (s \o t)[i] = s[i]
      /\ \A i \in 1..Len(t) : (s \o t)[Len(s) + i] = t[i]
      /\ \A i \in 1..Len(t) : t[i] \in X
  BY ConcatProperties
<1>1. 0 \in P
  <2>1. SameUpTo(s \o t, S, s, S, Len(s))
    BY <1>0 DEF SameUpTo
  <2>2. ElementsUpTo(s \o t, S, Len(s)) = ElementsAt(s, S)
    <3>1. Len(s) \in Nat
      BY <1>0
    <3> QED
      BY <2>1, <3>1, ElementsAgree DEF ElementsAt
  <2>3. ElementsAt(s, S) \in Seq(X)
    BY ElementsTyped, Zenon
  <2>4. ElementsAt(s, S) \o << >> = ElementsAt(s, S)
    BY <2>3, ConcatEmptySeq, Zenon
  <2>5. Len(s) + 0 = Len(s)
    BY <1>0
  <2>6. ElementsUpTo(s \o t, S, Len(s) + 0) = ElementsAt(s, S) \o ElementsUpTo(t, T, 0)
    BY <2>2, <2>4, <2>5, ElementsNone, Zenon
  <2> QED
    BY <2>6
<1>2. ASSUME NEW k \in Nat, k \in P PROVE k + 1 \in P
  <2> SUFFICES ASSUME k + 1 <= Len(t)
               PROVE  ElementsUpTo(s \o t, S, Len(s) + (k + 1)) =
                        ElementsAt(s, S) \o ElementsUpTo(t, T, k + 1)
    OBVIOUS
  <2> DEFINE before == ElementsUpTo(s \o t, S, Len(s) + k)
             l == ElementsAt(s, S)
             r == ElementsUpTo(t, T, k)
  <2>1. k + 1 \in 1..Len(t) /\ before = l \o r
    BY <1>0, <1>2
  <2>2. l \in Seq(X) /\ r \in Seq(X) /\ t[k + 1] \in X
    <3>1. k \in 0..Len(t)
      BY <1>0
    <3>2. t[k + 1] \in X
      BY <1>0, <2>1
    <3> QED
      BY <3>1, <3>2, ElementsTyped, Zenon
  <2>3. Len(s) + (k + 1) = (Len(s) + k) + 1 /\ Len(s) + k \in Nat
    BY <1>0
  <2>4. ElementsUpTo(s \o t, S, (Len(s) + k) + 1) =
          IF (Len(s) + k) + 1 \in S THEN Append(before, (s \o t)[(Len(s) + k) + 1])
          ELSE before
    BY <2>3, ElementsStep
  <2>5. ElementsUpTo(t, T, k + 1) = IF k + 1 \in T THEN Append(r, t[k + 1]) ELSE r
    BY ElementsStep
  <2>6. (s \o t)[Len(s) + (k + 1)] = t[k + 1]
    BY <1>0, <2>1
  <2>7. k + 1 \in T <=> (Len(s) + k) + 1 \in S
    BY <2>1, <2>3
  <2> HIDE DEF l, r, before
  <2>8. \A x \in X : Append(l \o r, x) = l \o Append(r, x)
    <3>1. l \in Seq(X) /\ r \in Seq(X)
      BY <2>2
    <3>2. AppendsLast(X)
      BY ConcatLaws, Zenon
    <3> QED
      BY <3>1, <3>2, Zenon DEF AppendsLast
  <2> QED
    BY <2>1, <2>2, <2>3, <2>4, <2>5, <2>6, <2>7, <2>8 DEF l, r, before
<1>3. \A k \in Nat : k \in P
  <2> HIDE DEF P
  <2> QED
    BY <1>1, <1>2, Induction
<1> QED
  BY <1>0, <1>3 DEF ElementsAt
-----------------------------------------------------------------------------
(***************************************************************************)
(* The elements of a sequence that are in a set.                           *)
(***************************************************************************)
Selected(s, M) == ElementsAt(s, {i \in DOMAIN s : s[i] \in M})

(* What is selected of a join is the join of what is selected, and of a    *)
(* head and a tail, the head, if it is in the set, before the tail's.      *)
SelectsJoins(X, M) ==
  \A s, t \in Seq(X) : Selected(s \o t, M) = Selected(s, M) \o Selected(t, M)
SelectsOne(X, M) ==
  /\ Selected(<< >>, M) = << >>
  /\ \A x \in X : /\ x \in M => Selected(<<x>>, M) = <<x>>
                  /\ x \notin M => Selected(<<x>>, M) = << >>
SelectsHeads(X, M) ==
  \A s \in Seq(X) : s # << >> =>
    /\ Head(s) \in M => \A g \in Seq(X) :
                           Append(g, Head(s)) \o Selected(Tail(s), M) = g \o Selected(s, M)
    /\ Head(s) \notin M => Selected(Tail(s), M) = Selected(s, M)

(* A selection is made of what the sequence is made of.                    *)
LEMMA SelectionTyped ==
  ASSUME NEW X, NEW s \in Seq(X), NEW M
  PROVE  Selected(s, M) \in Seq(X)
  BY ElementsTyped, Zenon DEF Selected

LEMMA SelectionJoins ==
  ASSUME NEW X, NEW M
  PROVE  SelectsJoins(X, M)
<1> SUFFICES ASSUME NEW s \in Seq(X), NEW t \in Seq(X)
             PROVE  Selected(s \o t, M) = Selected(s, M) \o Selected(t, M)
  BY Zenon DEF SelectsJoins
<1> DEFINE all == s \o t
           S == {i \in DOMAIN all : all[i] \in M}
           A == {i \in DOMAIN s : s[i] \in M}
           B == {i \in DOMAIN t : t[i] \in M}
<1>1. /\ Len(s) \in Nat /\ Len(t) \in Nat /\ Len(all) = Len(s) + Len(t)
      /\ all \in Seq(X) /\ DOMAIN all = 1..Len(all)
      /\ DOMAIN s = 1..Len(s) /\ DOMAIN t = 1..Len(t)
      /\ \A i \in 1..Len(s) : all[i] = s[i]
      /\ \A i \in 1..Len(t) : all[Len(s) + i] = t[i]
  BY ConcatProperties, LenProperties
<1> HIDE DEF all
<1>2. \A i \in 1..Len(t) : i \in B <=> Len(s) + i \in S
  BY <1>1
<1>3. SameUpTo(s, S, s, A, Len(s))
  BY <1>1 DEF SameUpTo
<1> HIDE DEF S, A, B
<1>4. ElementsAt(s \o t, S) = ElementsAt(s, S) \o ElementsAt(t, B)
  BY <1>2, ElementsConcat
<1>5. ElementsAt(s, S) = ElementsAt(s, A)
  BY <1>1, <1>3, ElementsAgree DEF ElementsAt
<1> QED
  BY <1>4, <1>5, Zenon DEF Selected, all, S, A, B

LEMMA SelectionOne ==
  ASSUME NEW X, NEW M
  PROVE  SelectsOne(X, M)
<1>1. Selected(<< >>, M) = << >>
  <2> DEFINE S == {i \in DOMAIN << >> : << >>[i] \in M}
  <2> HIDE DEF S
  <2>1. ElementsUpTo(<< >>, S, 0) = << >> /\ Len(<< >>) = 0
    BY ElementsNone
  <2> QED
    BY <2>1, Zenon DEF Selected, ElementsAt, S
<1>2. ASSUME NEW x \in X
      PROVE  /\ x \in M => Selected(<<x>>, M) = <<x>>
             /\ x \notin M => Selected(<<x>>, M) = << >>
  <2> DEFINE one == <<x>>
             S == {i \in DOMAIN one : one[i] \in M}
  <2>1. Len(one) = 1 /\ one[1] = x /\ (1 \in S <=> x \in M)
    OBVIOUS
  <2>2. Append(<< >>, x) = one
    OBVIOUS
  <2> HIDE DEF S, one
  <2>3. /\ ElementsUpTo(one, S, 0) = << >>
        /\ 0 + 1 \in S => ElementsUpTo(one, S, 0 + 1) =
                             Append(ElementsUpTo(one, S, 0), one[0 + 1])
        /\ 0 + 1 \notin S => ElementsUpTo(one, S, 0 + 1) = ElementsUpTo(one, S, 0)
    BY ElementsDef
  <2>4. 0 + 1 = 1
    OBVIOUS
  <2>5. /\ x \in M => ElementsUpTo(one, S, 1) = one
        /\ x \notin M => ElementsUpTo(one, S, 1) = << >>
    BY <2>1, <2>2, <2>3, <2>4, Zenon
  <2> QED
    BY <2>1, <2>5, Zenon DEF Selected, ElementsAt, S, one
<1> QED
  BY <1>1, <1>2, Zenon DEF SelectsOne

LEMMA SelectionHeads ==
  ASSUME NEW X, NEW M
  PROVE  SelectsHeads(X, M)
<1> SUFFICES ASSUME NEW s \in Seq(X), s # << >>
             PROVE  /\ Head(s) \in M => \A g \in Seq(X) :
                         Append(g, Head(s)) \o Selected(Tail(s), M) = g \o Selected(s, M)
                    /\ Head(s) \notin M => Selected(Tail(s), M) = Selected(s, M)
  BY Zenon DEF SelectsHeads
<1>1. Head(s) \in X /\ Tail(s) \in Seq(X)
  BY HeadTailProperties
<1>2. s = <<Head(s)>> \o Tail(s)
  OBVIOUS
<1> DEFINE x == Head(s)
           t == Tail(s)
<1>3. x \in X /\ t \in Seq(X) /\ s = <<x>> \o t
  BY <1>1, <1>2
<1> HIDE DEF x, t
<1>4. <<x>> \in Seq(X)
  BY <1>3
<1>5. Selected(s, M) = Selected(<<x>>, M) \o Selected(t, M)
  BY <1>3, <1>4, SelectionJoins, Zenon DEF SelectsJoins
<1> DEFINE more == Selected(t, M)
<1>6. more \in Seq(X)
  BY <1>3, SelectionTyped
<1> HIDE DEF more
<1>7. CASE x \in M
  <2>1. Selected(s, M) = <<x>> \o more
    <3>1. SelectsOne(X, M)
      BY SelectionOne, Zenon
    <3> QED
      BY <1>3, <1>5, <1>7, <3>1, Zenon DEF SelectsOne, more
  <2>2. ASSUME NEW g \in Seq(X)
        PROVE  Append(g, x) \o more = g \o Selected(s, M)
    <3>1. Append(g, x) = g \o <<x>>
      BY <1>3, AppendIsConcat
    <3>2. (g \o <<x>>) \o more = g \o (<<x>> \o more)
      <4>1. Associates(X)
        BY ConcatLaws, Zenon
      <4> QED
        BY <1>4, <1>6, <4>1, Zenon DEF Associates
    <3> QED
      BY <2>1, <3>1, <3>2, Zenon
  <2> QED
    BY <1>7, <2>2, Zenon DEF x, t, more
<1>8. CASE x \notin M
  <2>1. << >> \o more = more
    BY <1>6, ConcatEmptySeq
  <2>2. Selected(s, M) = more
    <3>1. SelectsOne(X, M)
      BY SelectionOne, Zenon
    <3> QED
      BY <1>3, <1>5, <1>8, <2>1, <3>1, Zenon DEF SelectsOne, more
  <2> QED
    BY <1>8, <2>2, Zenon DEF x, t, more
<1> QED
  BY <1>7, <1>8
-----------------------------------------------------------------------------
(***************************************************************************)
(* PartStart.                                                              *)
(***************************************************************************)

(* It depends on the earlier ends only.                                    *)
LEMMA PartStartAgree ==
  ASSUME NEW S \in SUBSET Nat, NEW T \in SUBSET Nat, NEW k,
         \A j \in Nat : j < k => (j \in S <=> j \in T)
  PROVE  PartStart(S, k) = PartStart(T, k)
<1>1. {j \in S : j < k} = {j \in T : j < k}
  OBVIOUS
<1> QED
  BY <1>1, Zenon DEF PartStart

(* After an end begins a part, and elsewhere the part goes on.             *)
LEMMA PartStartStep ==
  ASSUME NEW S \in SUBSET Nat, NEW k \in Nat
  PROVE  /\ k \in S => PartStart(S, k + 1) = k + 1
         /\ k \notin S => PartStart(S, k + 1) = PartStart(S, k)
<1>1. CASE k \in S
  <2> DEFINE before == {j \in S : j < k + 1}
             last == CHOOSE x \in before : \A y \in before : x >= y
  <2>1. k \in before /\ \A y \in before : y \in Nat /\ k >= y
    BY <1>1
  <2>2. last \in before /\ \A y \in before : last >= y
    <3> HIDE DEF before
    <3> QED
      BY <2>1, Zenon
  <2>3. last = k
    <3> HIDE DEF last, before
    <3> QED
      BY <2>1, <2>2
  <2>4. before # {}
    BY <2>1
  <2>5. PartStart(S, k + 1) = last + 1
    BY <2>4, Zenon DEF PartStart, Max
  <2> QED
    BY <1>1, <2>3, <2>5
<1>2. CASE k \notin S
  <2>1. \A j \in S : j < k + 1 <=> j < k
    BY <1>2
  <2>2. {j \in S : j < k + 1} = {j \in S : j < k}
    BY <2>1
  <2> QED
    BY <1>2, <2>2, Zenon DEF PartStart
<1> QED
  BY <1>1, <1>2

(* There is nothing before the first position.                             *)
LEMMA PartStartZero ==
  ASSUME NEW S \in SUBSET Nat
  PROVE  PartStart(S, 0) = 1
<1>1. \A j \in S : j \in Nat /\ ~(j < 0)
  OBVIOUS
<1>2. {j \in S : j < 0} = {}
  BY <1>1, Zenon
<1> QED
  BY <1>2, Zenon DEF PartStart

(* A part begins no later than where it is asked for.                      *)
LEMMA PartStartBounds ==
  ASSUME NEW S \in SUBSET Nat
  PROVE  \A k \in Nat : /\ PartStart(S, k) \in Nat /\ PartStart(S, k) >= 1
                        /\ k >= 1 => PartStart(S, k) <= k
<1> DEFINE P == {k \in Nat : /\ PartStart(S, k) \in Nat /\ PartStart(S, k) >= 1
                             /\ k >= 1 => PartStart(S, k) <= k}
<1>0. PartStart(S, 0) = 1
  BY PartStartZero
<1>1. 0 \in P
  BY <1>0
<1>2. ASSUME NEW k \in Nat, k \in P PROVE k + 1 \in P
  BY <1>0, <1>2, PartStartStep
<1>3. \A k \in Nat : k \in P
  <2> HIDE DEF P
  <2> QED
    BY <1>1, <1>2, Induction
<1> QED
  BY <1>3

(* A part goes on as long as no end is met.                                *)
LEMMA PartStartGap ==
  ASSUME NEW S \in SUBSET (Nat \ {0}), NEW p \in Nat, p = 0 \/ p \in S,
         NEW q \in Nat, p < q, \A j \in (p + 1)..(q - 1) : j \notin S
  PROVE  PartStart(S, q) = p + 1
<1> DEFINE P == {k \in Nat : p < k /\ k <= q => PartStart(S, k) = p + 1}
<1>0. S \in SUBSET Nat
  OBVIOUS
<1>1. 0 \in P
  OBVIOUS
<1>2. ASSUME NEW k \in Nat, k \in P PROVE k + 1 \in P
  <2> SUFFICES ASSUME p < k + 1, k + 1 <= q PROVE PartStart(S, k + 1) = p + 1
    OBVIOUS
  <2>1. /\ k \in S => PartStart(S, k + 1) = k + 1
        /\ k \notin S => PartStart(S, k + 1) = PartStart(S, k)
    BY <1>0, PartStartStep
  <2>2. CASE k = p /\ k \in S
    BY <2>1, <2>2
  <2>3. CASE k = p /\ k = 0 /\ k \notin S
    BY <1>0, <2>1, <2>3, PartStartZero
  <2>4. CASE p < k
    <3>1. k \in (p + 1)..(q - 1)
      BY <2>4
    <3> QED
      BY <1>2, <2>1, <2>4, <3>1
  <2>5. 0 \notin S
    OBVIOUS
  <2> QED
    BY <2>2, <2>3, <2>4, <2>5
<1>3. \A k \in Nat : k \in P
  <2> HIDE DEF P
  <2> QED
    BY <1>1, <1>2, Induction
<1> QED
  BY <1>3

(* What is selected has elements of one kind, and what is selected up to a *)
(* position begins what is selected up to a later one.                     *)
LEMMA ElementsIn ==
  ASSUME NEW X, NEW s, NEW S, \A k \in S : s[k] \in X
  PROVE  \A n \in Nat : ElementsUpTo(s, S, n) \in Seq(X)
<1> DEFINE P == {k \in Nat : ElementsUpTo(s, S, k) \in Seq(X)}
<1>1. 0 \in P
  <2>1. ElementsUpTo(s, S, 0) = << >> /\ << >> \in Seq(X)
    BY ElementsNone
  <2> QED
    BY <2>1
<1>2. ASSUME NEW k \in Nat, k \in P PROVE k + 1 \in P
  <2>1. ElementsUpTo(s, S, k) \in Seq(X) /\ (k + 1 \in S => s[k + 1] \in X)
    BY <1>2
  <2>2. k + 1 \in S => Append(ElementsUpTo(s, S, k), s[k + 1]) \in Seq(X)
    BY <2>1, AppendProperties
  <2>3. /\ k + 1 \in S => ElementsUpTo(s, S, k + 1) =
                              Append(ElementsUpTo(s, S, k), s[k + 1])
        /\ k + 1 \notin S => ElementsUpTo(s, S, k + 1) = ElementsUpTo(s, S, k)
    BY ElementsStep
  <2> QED
    BY <2>1, <2>2, <2>3
<1>3. \A k \in Nat : k \in P
  <2> HIDE DEF P
  <2> QED
    BY <1>1, <1>2, Induction
<1> QED
  BY <1>3

(* The elements up to a position begin those up to a later one.            *)
Extends(X, a, b) == \E more \in Seq(X) : b = a \o more

LEMMA ElementsGrow ==
  ASSUME NEW X, NEW s, NEW S, \A k \in S : s[k] \in X, NEW n \in Nat,
         NEW last \in Nat, n <= last
  PROVE  Extends(X, ElementsUpTo(s, S, n), ElementsUpTo(s, S, last))
<1> DEFINE before == ElementsUpTo(s, S, n)
           Grown(k) == \E more \in Seq(X) : ElementsUpTo(s, S, k) = before \o more
           P == {k \in Nat : n <= k => Grown(k)}
<1>0. before \in Seq(X) /\ << >> \in Seq(X)
  BY ElementsIn
<1>1. Grown(n)
  <2>1. before \o << >> = before
    BY <1>0, ConcatEmptySeq
  <2> QED
    BY <1>0, <2>1
<1>2. 0 \in P
  <2>1. n <= 0 => n = 0
    OBVIOUS
  <2> HIDE DEF Grown
  <2> QED
    BY <1>1, <2>1
<1>3. ASSUME NEW k \in Nat, k \in P PROVE k + 1 \in P
  <2> SUFFICES ASSUME n <= k + 1 PROVE Grown(k + 1)
    OBVIOUS
  <2>1. CASE n = k + 1
    <3> HIDE DEF Grown
    <3> QED
      BY <1>1, <2>1
  <2>2. CASE n <= k
    <3> HIDE DEF before
    <3>1. PICK more \in Seq(X) : ElementsUpTo(s, S, k) = before \o more
      BY <1>3, <2>2
    <3>2. /\ k + 1 \in S => ElementsUpTo(s, S, k + 1) =
                                Append(ElementsUpTo(s, S, k), s[k + 1])
          /\ k + 1 \notin S => ElementsUpTo(s, S, k + 1) = ElementsUpTo(s, S, k)
      BY ElementsStep
    <3>3. CASE k + 1 \notin S
      BY <3>1, <3>2, <3>3
    <3>4. CASE k + 1 \in S
      <4> DEFINE x == s[k + 1]
      <4>1. x \in X
        BY <3>4
      <4> HIDE DEF x
      <4>2. Append(more, x) \in Seq(X)
        BY <4>1, AppendProperties
      <4>3. AppendsLast(X)
        BY ConcatLaws, Zenon
      <4>4. Append(before \o more, x) = before \o Append(more, x)
        BY <1>0, <4>1, <4>3, Zenon DEF AppendsLast
      <4>5. ElementsUpTo(s, S, k + 1) = before \o Append(more, x)
        BY <3>1, <3>2, <3>4, <4>4, Zenon DEF x
      <4> QED
        BY <4>2, <4>5, Zenon
    <3> QED
      BY <3>3, <3>4
  <2> QED
    BY <2>1, <2>2
<1>4. \A k \in Nat : k \in P
  <2> HIDE DEF P
  <2> QED
    BY <1>2, <1>3, Induction
<1> HIDE DEF before
<1> QED
  BY <1>4, Zenon DEF Extends, before

(* The first element of a concatenation is that of its first part.         *)
LEMMA HeadOfConcat ==
  ASSUME NEW S, NEW p \in Seq(S), NEW q \in Seq(S), p # << >>
  PROVE  /\ p \o q # << >> /\ Head(p \o q) = Head(p)
         /\ Tail(p \o q) = Tail(p) \o q
<1>1. Len(p) \in Nat \ {0} /\ Len(q) \in Nat
  BY EmptySeq, Z3
<1>2. p \o q \in Seq(S) /\ Len(p \o q) = Len(p) + Len(q) /\ p \o q # << >>
  BY <1>1, ConcatProperties, ConcatEqualIffEmpty, Z3
<1>3. Head(p \o q) = Head(p)
  BY <1>1, <1>2, ConcatProperties, Z3
<1>4. Tail(p \o q) = Tail(p) \o q
  <2> DEFINE l == Tail(p \o q)  r == Tail(p) \o q
  <2>1. /\ l \in Seq(S) /\ Len(l) = Len(p) + Len(q) - 1
        /\ \A i \in 1..Len(l) : l[i] = (p \o q)[i + 1]
    BY <1>1, <1>2, HeadTailProperties, Z3
  <2>2. /\ Tail(p) \in Seq(S) /\ Len(Tail(p)) = Len(p) - 1
        /\ \A i \in 1..Len(Tail(p)) : Tail(p)[i] = p[i + 1]
    BY <1>1, HeadTailProperties, Z3
  <2>3. /\ r \in Seq(S) /\ Len(r) = Len(p) - 1 + Len(q)
        /\ \A i \in 1..Len(r) : r[i] = IF i <= Len(p) - 1 THEN Tail(p)[i]
                                       ELSE q[i - (Len(p) - 1)]
    BY <2>2, ConcatProperties, Z3
  <2>4. \A i \in 1..Len(l) : l[i] = r[i]
    BY <1>1, <2>1, <2>2, <2>3, ConcatProperties, Z3
  <2> QED
    BY <1>1, <2>1, <2>3, <2>4, SeqEqual, Z3
<1> QED
  BY <1>2, <1>3, <1>4
=============================================================================
