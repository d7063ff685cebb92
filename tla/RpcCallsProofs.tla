---------------------------- MODULE RpcCallsProofs ----------------------------
(***************************************************************************)
(* Proofs about RpcCalls for any set of calls, keys, responses and retry   *)
(* budget.                                                                 *)
(***************************************************************************)
EXTENDS RpcCalls, RetryPolicyProofs

PCs == {"ready", "waiting", "sleeping", "done", "dropped"}

(* Whatever a call receives becomes a result.                              *)
LEMMA OutcomeTyped ==
  ASSUME NEW c, NEW r \in Response
  PROVE  Outcome(c, r) \in Result
<1>1. r.status \in Nat
  BY DEF Response, Statuses
<1>2. Ok \in Result /\ MalformedResponse(r.status) \in Result
  BY <1>1 DEF Ok, MalformedResponse, Api, Result, NoHint, NoCode, KnownCodes
<1>3. DecodeErrorResponse(r) \in Result
  BY DecodedTyped
<1> QED
  BY <1>2, <1>3 DEF Outcome, SendOnceJson, Health

(* A verdict of the retry loop has its type: a decision of the policy, or  *)
(* giving up.                                                              *)
LEMMA VerdictTyped ==
  ASSUME NEW c, attempt[c] \in Nat, NEW res \in Result, NEW d \in Verdicts(c, res)
  PROVE  d \in Nat \union {GiveUp} /\ (d # GiveUp => Capped(d) \in 0..MaxRetryAfter)
  BY DecisionTyped DEF Verdicts

(* A health probe is never retried, and a call only after a transient      *)
(* answer, within the budget, under the built-in policies.                 *)
LEMMA BuiltInVerdict ==
  ASSUME Policy # "custom", NEW c, attempt[c] \in Nat, NEW res \in Result,
         NEW d \in Verdicts(c, res), d # GiveUp
  PROVE  /\ c \notin HealthCalls /\ IsTransient(res)
         /\ attempt[c] < MaxAttempts /\ Capped(d) >= 1
<1>1. c \notin HealthCalls /\ d \in Decisions(attempt[c], res)
  BY DEF Verdicts
<1> QED
  BY <1>1, BuiltInDecision
-----------------------------------------------------------------------------
(***************************************************************************)
(* Type correctness, under any policy.                                     *)
(***************************************************************************)
LEMMA SettleTyped ==
  ASSUME TypeOK, NEW c \in Calls, NEW res \in Result, Settle(c, res)
  PROVE  /\ pc' \in [Calls -> PCs]
         /\ delay' \in [Calls -> Nat]
         /\ result' \in [Calls -> Result]
         /\ UNCHANGED <<attempt, sent, behind, stored>>
<1>1. PICK d \in Verdicts(c, res) :
        /\ pc' = [pc EXCEPT ![c] = IF d = GiveUp THEN "done" ELSE "sleeping"]
        /\ delay' = [delay EXCEPT ![c] = IF d = GiveUp THEN 0 ELSE Capped(d)]
  BY DEF Settle
<1>2. d # GiveUp => Capped(d) \in Nat
  BY VerdictTyped, AnHour DEF TypeOK
<1> QED
  BY <1>1, <1>2 DEF Settle, TypeOK, PCs

(* Every step keeps the types.                                             *)
LEMMA TypeInductive == TypeOK /\ [Next]_vars => TypeOK'
<1> SUFFICES ASSUME TypeOK, [Next]_vars PROVE TypeOK'
  OBVIOUS
<1>1. ASSUME NEW c \in Calls, Send(c) PROVE TypeOK'
  <2>1. /\ Request(c).call \in Calls /\ Request(c).attempt \in Nat
        /\ Request(c).answer \in {Pending}
    BY DEF Request, Message, TypeOK
  <2> QED
    BY <1>1, <2>1 DEF Send, TypeOK
<1>2. ASSUME NEW c \in Calls, NEW m \in net, Receive(c, m) PROVE TypeOK'
  <2>1. m.answer[1] \in Response
    BY <1>2, ResponsesAssumption DEF Receive, TypeOK, Answered
  <2>2. Outcome(c, m.answer[1]) \in Result
    BY <2>1, OutcomeTyped
  <2>3. net' \subseteq net /\ Settle(c, Outcome(c, m.answer[1]))
    BY <1>2 DEF Receive
  <2> QED
    BY <2>2, <2>3, SettleTyped DEF TypeOK, PCs
<1>3. ASSUME NEW c \in Calls, ConnectionFails(c) \/ Timeout(c) PROVE TypeOK'
  <2>1. net' = net /\ Settle(c, Transport)
    BY <1>3 DEF ConnectionFails, Timeout
  <2> QED
    BY <2>1, SettleTyped, TransportFacts DEF TypeOK, PCs
<1>4. ASSUME NEW c \in Calls, Wake(c) \/ Drop(c) PROVE TypeOK'
  BY <1>4 DEF Wake, Drop, TypeOK
<1>5. ASSUME NEW m \in net, NEW r \in Responses, ServerAnswers(m, r) PROVE TypeOK'
  <2> DEFINE a == Reply(m, r)
  <2>1. a.call = m.call /\ a.attempt = m.attempt /\ a.answer = Answered(r)
    BY DEF Reply, Message
  <2>2. /\ net' = (net \ {m}) \union {a} /\ behind' \in {behind, behind \union {m}}
        /\ UNCHANGED <<pc, attempt, delay, result, sent>>
    BY <1>5 DEF ServerAnswers
  <2> QED
    BY <2>1, <2>2 DEF TypeOK
<1>6. ASSUME NEW m \in net, Lose(m) PROVE TypeOK'
  BY <1>6 DEF Lose, TypeOK
<1>7. CASE UNCHANGED vars
  BY <1>7 DEF vars, TypeOK
<1>8. ASSUME NEW m \in behind, HandledLate(m) PROVE TypeOK'
  BY <1>8 DEF HandledLate, TypeOK
<1> QED
  BY <1>1, <1>2, <1>3, <1>4, <1>5, <1>6, <1>7, <1>8 DEF Next

(* Every call's state and every message keep their types, any policy.      *)
THEOREM TypeCorrect == Spec => []TypeOK
<1>1. Init => TypeOK
  BY TransportFacts DEF Init, TypeOK
<1> QED
  BY <1>1, TypeInductive, PTL DEF Spec

(* Each sleep is within the bounds as it starts, and keeps them.           *)
LEMMA DelayInductive == TypeOK /\ DelayBounded /\ [Next]_vars => DelayBounded'
<1> SUFFICES ASSUME TypeOK, DelayBounded, [Next]_vars PROVE DelayBounded'
  OBVIOUS
<1>1. ASSUME NEW c \in Calls, NEW res \in Result, Settle(c, res)
      PROVE  DelayBounded'
  <2>1. attempt[c] \in Nat
    BY DEF TypeOK
  <2>2. PICK d \in Verdicts(c, res) :
          /\ pc' = [pc EXCEPT ![c] = IF d = GiveUp THEN "done" ELSE "sleeping"]
          /\ delay' = [delay EXCEPT ![c] = IF d = GiveUp THEN 0 ELSE Capped(d)]
    BY <1>1 DEF Settle
  <2>3. d # GiveUp => /\ Capped(d) <= MaxRetryAfter
                      /\ Policy = "transient" => Capped(d) >= 1
    BY <2>1, VerdictTyped, BuiltInVerdict, AnHour
  <2> QED
    BY <2>2, <2>3, SMT DEF DelayBounded, TypeOK
<1>2. ASSUME NEW c \in Calls, NEW m \in net, Receive(c, m) PROVE DelayBounded'
  <2>1. m.answer[1] \in Response
    BY <1>2, ResponsesAssumption DEF Receive, TypeOK, Answered
  <2> QED
    BY <1>1, <1>2, <2>1, OutcomeTyped DEF Receive
<1>3. ASSUME NEW c \in Calls, ConnectionFails(c) \/ Timeout(c) PROVE DelayBounded'
  BY <1>1, <1>3, TransportFacts DEF ConnectionFails, Timeout
<1>4. ASSUME NEW c \in Calls, Send(c) \/ Wake(c) \/ Drop(c) PROVE DelayBounded'
  BY <1>4, SMT DEF Send, Wake, Drop, DelayBounded, TypeOK
<1>5. ASSUME UNCHANGED <<pc, delay>> PROVE DelayBounded'
  BY <1>5 DEF DelayBounded
<1>6. ASSUME NEW m \in net, (\E r \in Responses : ServerAnswers(m, r)) \/ Lose(m)
      PROVE DelayBounded'
  BY <1>5, <1>6 DEF ServerAnswers, Lose
<1>7. CASE UNCHANGED vars
  BY <1>5, <1>7 DEF vars
<1>8. ASSUME NEW m \in behind, HandledLate(m) PROVE DelayBounded'
  BY <1>5, <1>8 DEF HandledLate
<1> QED
  BY <1>1, <1>2, <1>3, <1>4, <1>6, <1>7, <1>8 DEF Next

(* No backoff sleep is longer than an hour whatever a policy or a hint     *)
(* asks for, and none of TransientRetry's is zero.                         *)
THEOREM DelaysBounded == Spec => []DelayBounded
<1>1. Init => DelayBounded
  BY DEF Init, DelayBounded
<1> QED
  BY <1>1, TypeCorrect, DelayInductive, PTL DEF Spec
-----------------------------------------------------------------------------
(***************************************************************************)
(* The budget.  `sent' counts the attempts made so far, a call sleeps only *)
(* with budget left, and a transient answer that was returned had spent it *)
(* all.                                                                    *)
(***************************************************************************)
SentInv(c) ==
  /\ pc[c] = "ready" => sent[c] = attempt[c]
  /\ pc[c] \in {"waiting", "sleeping"} => sent[c] = attempt[c] + 1
  /\ pc[c] \in {"done", "dropped"} => sent[c] <= attempt[c] + 1

BudgetInv(c) ==
  /\ attempt[c] <= MaxAttempts
  /\ c \in HealthCalls => attempt[c] = 0
  /\ pc[c] = "sleeping" => c \notin HealthCalls /\ attempt[c] < MaxAttempts

SpentInv(c) ==
  /\ Policy = "transient" /\ c \notin HealthCalls
  /\ pc[c] = "done" /\ IsTransient(result[c])
  => sent[c] = MaxAttempts + 1

(* A request or an answer under way belongs to a call that still waits for *)
(* it or has ended: before each send there is none.                        *)
NetInv ==
  /\ OneInFlight
  /\ \A m \in net : pc[m.call] \notin {"ready", "sleeping"}

RetryInv ==
  /\ TypeOK
  /\ \A c \in Calls : SentInv(c) /\ BudgetInv(c) /\ SpentInv(c)
  /\ NetInv

(* TransientRetry gives up on a transient error only at the end of its     *)
(* budget.                                                                 *)
LEMMA TransientGivenUp ==
  ASSUME Policy = "transient", NEW c \in Calls \ HealthCalls, NEW res \in Result,
         attempt[c] \in Nat, IsTransient(res), GiveUp \in Verdicts(c, res)
  PROVE  attempt[c] >= MaxAttempts
<1>1. IsFailure(res)
  BY DEF IsTransient, IsFailure
<1>2. TransientDecision(attempt[c], res) = GiveUp
  BY <1>1 DEF Verdicts, Decisions
<1>3. FallbackBackoff(attempt[c]) \in Nat /\ res.retry_after \in Nat
  BY Schedule DEF Result
<1>4. ~(attempt[c] < MaxAttempts)
  BY <1>2, <1>3 DEF TransientDecision, GiveUp
<1> QED
  BY <1>4, MaxAttemptsAssumption

(* Settling an attempt whose result is a transport failure ends the call;  *)
(* settling an answer keeps the accounts.                                  *)
LEMMA SettleKeeps ==
  ASSUME Policy # "custom", TypeOK, NEW c \in Calls, NEW res \in Result,
         Settle(c, res), SentInv(c), BudgetInv(c),
         pc[c] \in {"ready", "waiting"}, pc[c] = "ready" => ~IsTransient(res)
  PROVE  /\ SentInv(c)' /\ BudgetInv(c)' /\ SpentInv(c)'
         /\ pc'[c] \in {"done", "sleeping"}
         /\ pc'[c] = "sleeping" => IsTransient(res)
         /\ UNCHANGED <<attempt, sent, stored>>
         /\ \A o \in Calls \ {c} : pc'[o] = pc[o] /\ result'[o] = result[o]
<1>1. PICK d \in Verdicts(c, res) :
        pc' = [pc EXCEPT ![c] = IF d = GiveUp THEN "done" ELSE "sleeping"]
  BY DEF Settle
<1>2. /\ result' = [result EXCEPT ![c] = res]
      /\ UNCHANGED <<attempt, sent, stored>>
  BY DEF Settle
<1>3. pc'[c] = (IF d = GiveUp THEN "done" ELSE "sleeping") /\ result'[c] = res
  BY <1>1, <1>2 DEF TypeOK
<1>4. \A o \in Calls \ {c} : pc'[o] = pc[o] /\ result'[o] = result[o]
  BY <1>1, <1>2 DEF TypeOK
<1>5. attempt[c] \in Nat /\ sent[c] \in Nat
  BY DEF TypeOK
<1>6. d # GiveUp => /\ c \notin HealthCalls /\ IsTransient(res)
                    /\ attempt[c] < MaxAttempts
  BY <1>5, BuiltInVerdict
<1>7. SentInv(c)' /\ BudgetInv(c)'
  BY <1>2, <1>3, <1>5, <1>6 DEF SentInv, BudgetInv
<1>8. SpentInv(c)'
  <2>1. SUFFICES ASSUME Policy = "transient", c \notin HealthCalls,
                        pc'[c] = "done", IsTransient(res)
                 PROVE  sent[c] = MaxAttempts + 1
    BY <1>2, <1>3 DEF SpentInv
  <2>2. d = GiveUp
    BY <1>3, <2>1
  <2>3. attempt[c] >= MaxAttempts
    BY <1>5, <2>1, <2>2, TransientGivenUp
  <2>4. pc[c] = "waiting"
    BY <2>1
  <2> QED
    BY <1>5, <2>3, <2>4, MaxAttemptsAssumption DEF SentInv, BudgetInv
<1> QED
  BY <1>2, <1>3, <1>4, <1>6, <1>7, <1>8

(* The calls a step does not touch keep their accounts.                    *)
LEMMA OthersKeep ==
  ASSUME NEW c, NEW S, \A o \in S : SentInv(o) /\ BudgetInv(o) /\ SpentInv(o),
         \A o \in S \ {c} :
           /\ pc'[o] = pc[o] /\ attempt'[o] = attempt[o]
           /\ sent'[o] = sent[o] /\ result'[o] = result[o]
  PROVE  \A o \in S \ {c} : SentInv(o)' /\ BudgetInv(o)' /\ SpentInv(o)'
  BY DEF SentInv, BudgetInv, SpentInv

(* Every step keeps the accounts of attempts and messages.                 *)
LEMMA RetryInductive ==
  Policy # "custom" /\ RetryInv /\ [Next]_vars => RetryInv'
<1> SUFFICES ASSUME Policy # "custom", RetryInv, [Next]_vars PROVE RetryInv'
  OBVIOUS
<1> DEFINE Accounts == \A o \in Calls : SentInv(o) /\ BudgetInv(o) /\ SpentInv(o)
<1>0. TypeOK /\ TypeOK' /\ Accounts /\ NetInv
  BY TypeInductive DEF RetryInv
<1>1. ASSUME NEW c \in Calls, Send(c) PROVE Accounts' /\ NetInv'
  <2>1. /\ pc[c] = "ready" /\ pc' = [pc EXCEPT ![c] = "waiting"]
        /\ sent' = [sent EXCEPT ![c] = @ + 1] /\ net' = net \union {Request(c)}
        /\ UNCHANGED <<attempt, result>>
    BY <1>1 DEF Send
  <2>2. pc'[c] = "waiting" /\ sent'[c] = attempt[c] + 1
    BY <1>0, <2>1 DEF TypeOK, SentInv
  <2>3. \A o \in Calls \ {c} : pc'[o] = pc[o] /\ sent'[o] = sent[o]
    BY <1>0, <2>1 DEF TypeOK
  <2>4. SentInv(c)' /\ BudgetInv(c)' /\ SpentInv(c)'
    BY <1>0, <2>1, <2>2 DEF SentInv, BudgetInv, SpentInv
  <2>5. Accounts'
    BY <1>0, <2>1, <2>3, <2>4, OthersKeep
  <2>6. \A m \in net : m.call # c
    BY <1>0, <2>1 DEF NetInv
  <2>7. Request(c).call = c
    BY DEF Request, Message
  <2>8. NetInv'
    BY <1>0, <2>1, <2>2, <2>3, <2>6, <2>7 DEF NetInv, OneInFlight, TypeOK
  <2> QED
    BY <2>5, <2>8
<1>2. ASSUME NEW c \in Calls, NEW m \in net, Receive(c, m)
      PROVE  Accounts' /\ NetInv'
  <2> DEFINE res == Outcome(c, m.answer[1])
  <2>1. /\ pc[c] = "waiting" /\ m.call = c /\ net' = net \ {m} /\ Settle(c, res)
    BY <1>2 DEF Receive
  <2>2. res \in Result
    BY <1>0, <1>2, OutcomeTyped, ResponsesAssumption DEF Receive, TypeOK, Answered
  <2> HIDE DEF res
  <2>3. /\ SentInv(c)' /\ BudgetInv(c)' /\ SpentInv(c)'
        /\ UNCHANGED <<attempt, sent, stored>>
        /\ \A o \in Calls \ {c} : pc'[o] = pc[o] /\ result'[o] = result[o]
    BY <1>0, <2>1, <2>2, SettleKeeps
  <2>4. Accounts'
    BY <1>0, <2>3, OthersKeep
  <2>5. \A o \in net' : o.call \in Calls \ {c}
    BY <1>0, <2>1 DEF NetInv, OneInFlight, TypeOK
  <2>6. NetInv'
    BY <1>0, <2>1, <2>3, <2>5 DEF NetInv, OneInFlight
  <2> QED
    BY <2>4, <2>6
<1>3. ASSUME NEW c \in Calls, ConnectionFails(c) \/ Timeout(c)
      PROVE  Accounts' /\ NetInv'
  <2>1. net' = net /\ Settle(c, Transport) /\ pc[c] \in {"ready", "waiting"}
    BY <1>3 DEF ConnectionFails, Timeout
  <2>2. /\ SentInv(c)' /\ BudgetInv(c)' /\ SpentInv(c)'
        /\ pc'[c] = "done"
        /\ UNCHANGED <<attempt, sent, stored>>
        /\ \A o \in Calls \ {c} : pc'[o] = pc[o] /\ result'[o] = result[o]
    BY <1>0, <2>1, SettleKeeps, TransportFacts
  <2>3. Accounts'
    BY <1>0, <2>2, OthersKeep
  <2>4. NetInv'
    BY <1>0, <2>1, <2>2 DEF NetInv, OneInFlight, TypeOK
  <2> QED
    BY <2>3, <2>4
<1>4. ASSUME NEW c \in Calls, Wake(c) \/ Drop(c) PROVE Accounts' /\ NetInv'
  <2>1. /\ \/ /\ pc[c] = "sleeping" /\ attempt' = [attempt EXCEPT ![c] = @ + 1]
              /\ pc' = [pc EXCEPT ![c] = "ready"]
           \/ /\ pc[c] \in {"ready", "waiting", "sleeping"}
              /\ attempt' = attempt /\ pc' = [pc EXCEPT ![c] = "dropped"]
        /\ UNCHANGED <<result, sent, net>>
    BY <1>4 DEF Wake, Drop
  <2>2. \A o \in Calls \ {c} : pc'[o] = pc[o] /\ attempt'[o] = attempt[o]
    BY <1>0, <2>1 DEF TypeOK
  <2>3. \/ pc[c] = "sleeping" /\ pc'[c] = "ready" /\ attempt'[c] = attempt[c] + 1
        \/ /\ pc[c] \in {"ready", "waiting", "sleeping"}
           /\ pc'[c] = "dropped" /\ attempt'[c] = attempt[c]
    BY <1>0, <2>1 DEF TypeOK
  <2>4. attempt[c] \in Nat /\ sent[c] \in Nat /\ sent'[c] = sent[c]
    BY <1>0, <2>1 DEF TypeOK
  <2>5. SentInv(c)' /\ BudgetInv(c)' /\ SpentInv(c)'
    BY <1>0, <2>3, <2>4, MaxAttemptsAssumption DEF SentInv, BudgetInv, SpentInv
  <2>6. Accounts'
    BY <1>0, <2>1, <2>2, <2>5, OthersKeep
  <2>7. pc[c] = "sleeping" => \A m \in net : m.call # c
    BY <1>0 DEF NetInv
  <2>8. NetInv'
    BY <1>0, <2>1, <2>2, <2>3, <2>7 DEF NetInv, OneInFlight, TypeOK
  <2> QED
    BY <2>6, <2>8
<1>5. ASSUME NEW m \in net, NEW r \in Responses, ServerAnswers(m, r)
      PROVE  Accounts' /\ NetInv'
  <2>1. /\ net' = (net \ {m}) \union {Reply(m, r)} /\ Reply(m, r).call = m.call
        /\ UNCHANGED <<pc, attempt, delay, result, sent>>
    BY <1>5 DEF ServerAnswers, Reply, Message
  <2>2. NetInv'
    BY <1>0, <2>1 DEF NetInv, OneInFlight
  <2> QED
    BY <1>0, <2>1, <2>2 DEF SentInv, BudgetInv, SpentInv
<1>6. ASSUME NEW m \in net, Lose(m) PROVE Accounts' /\ NetInv'
  <2>1. net' = net \ {m} /\ UNCHANGED <<pc, attempt, delay, result, sent>>
    BY <1>6 DEF Lose
  <2>2. NetInv'
    BY <1>0, <2>1 DEF NetInv, OneInFlight
  <2> QED
    BY <1>0, <2>1, <2>2 DEF SentInv, BudgetInv, SpentInv
<1>7. CASE UNCHANGED vars
  <2>1. UNCHANGED <<pc, attempt, delay, result, sent, net>>
    BY <1>7 DEF vars
  <2>2. NetInv'
    BY <1>0, <2>1 DEF NetInv, OneInFlight
  <2>3. Accounts'
    BY <1>0, <2>1 DEF SentInv, BudgetInv, SpentInv
  <2> QED
    BY <1>0, <2>2, <2>3 DEF RetryInv
<1>8. ASSUME NEW m \in behind, HandledLate(m) PROVE Accounts' /\ NetInv'
  <2>1. UNCHANGED <<pc, attempt, delay, result, sent, net>>
    BY <1>8 DEF HandledLate
  <2>2. NetInv'
    BY <1>0, <2>1 DEF NetInv, OneInFlight
  <2> QED
    BY <1>0, <2>1, <2>2 DEF SentInv, BudgetInv, SpentInv
<1> QED
  BY <1>0, <1>1, <1>2, <1>3, <1>4, <1>5, <1>6, <1>7, <1>8 DEF Next, RetryInv

(* No call has sent anything at first.                                     *)
LEMMA RetryInit == Init => RetryInv
<1> SUFFICES ASSUME Init PROVE RetryInv
  OBVIOUS
<1>1. TypeOK
  BY TransportFacts DEF Init, TypeOK
<1>2. NetInv
  BY DEF Init, NetInv, OneInFlight
<1>3. \A c \in Calls : SentInv(c) /\ BudgetInv(c) /\ SpentInv(c)
  BY MaxAttemptsAssumption DEF Init, SentInv, BudgetInv, SpentInv
<1> QED
  BY <1>1, <1>2, <1>3 DEF RetryInv

(* The accounts hold under either built-in policy.                         *)
LEMMA RetryInvariant == ASSUME Policy # "custom" PROVE Spec => []RetryInv
  BY RetryInit, RetryInductive, PTL DEF Spec

(* Under a built-in policy no call, however its attempts end, sends more   *)
(* than max_attempts + 1 requests, and a health probe sends one.           *)
THEOREM BudgetHolds == ASSUME Policy # "custom" PROVE Spec => []AttemptBudget
<1>1. RetryInv => AttemptBudget
  BY MaxAttemptsAssumption
  DEF RetryInv, TypeOK, SentInv, BudgetInv, AttemptBudget
<1> QED
  BY <1>1, RetryInvariant, PTL

(* Under a built-in policy no attempt of a call overlaps an unanswered one, *)
(* timed-out and abandoned ones included.                                  *)
THEOREM AttemptsNeverOverlap == ASSUME Policy # "custom" PROVE Spec => []OneInFlight
<1>1. RetryInv => OneInFlight
  BY DEF RetryInv, NetInv
<1> QED
  BY <1>1, RetryInvariant, PTL

(* TransientRetry returns a transient error only with its budget spent.    *)
THEOREM TransientIsLast ==
  ASSUME Policy = "transient" PROVE Spec => []TransientSurfacesLast
<1>1. RetryInv => TransientSurfacesLast
  BY DEF RetryInv, SpentInv, TransientSurfacesLast
<1>2. Spec => []RetryInv
  BY RetryInvariant
<1> QED
  BY <1>1, <1>2, PTL
-----------------------------------------------------------------------------
(***************************************************************************)
(* What the server stores, under any policy.  Every request carries the    *)
(* identity of its call, and the server stores an identity once.           *)
(***************************************************************************)
OkAnswer(m) ==
  m.call \notin HealthCalls /\ m.answer # Pending /\ IsSuccess(m.answer[1])

StoreInv ==
  /\ \A m \in net \union behind : m.id = Identity(m.call, m.attempt)
  /\ \A m \in net : OkAnswer(m) => \E s \in stored : s.id = m.id
  /\ \A s \in stored : \E n \in Nat : s.id = Identity(s.call, n)
  /\ \A s1, s2 \in stored : s1.id = s2.id => s1 = s2

StoredInv == TypeOK /\ StoreInv /\ OkMeansStored

(* Only a 2xx response makes a call that is not a probe succeed.           *)
LEMMA OkIsSuccess ==
  ASSUME NEW c \in Calls \ HealthCalls, NEW r, ~IsFailure(Outcome(c, r))
  PROVE  IsSuccess(r)
  BY DEF Outcome, SendOnceJson, IsFailure, MalformedResponse, DecodeErrorResponse, Api

(* Settling an attempt touches the outcome of its own call only.           *)
LEMMA SettledResult ==
  ASSUME TypeOK, NEW c \in Calls, NEW res, Settle(c, res)
  PROVE  /\ result'[c] = res /\ UNCHANGED <<attempt, behind, stored>>
         /\ \A o \in Calls \ {c} : pc'[o] = pc[o] /\ result'[o] = result[o]
<1>1. PICK d \in Verdicts(c, res) :
        pc' = [pc EXCEPT ![c] = IF d = GiveUp THEN "done" ELSE "sleeping"]
  BY DEF Settle
<1>2. result' = [result EXCEPT ![c] = res] /\ UNCHANGED <<attempt, behind, stored>>
  BY DEF Settle
<1> QED
  BY <1>1, <1>2 DEF TypeOK

(* The server handles a request: its identity is stored, once, and what was *)
(* stored stays.                                                           *)
LEMMA StoreKeeps ==
  ASSUME TypeOK, StoreInv, NEW m \in net \union behind, stored' = Store(m)
  PROVE  /\ stored \subseteq stored'
         /\ m.call \notin HealthCalls => \E s \in stored' : s.id = m.id
         /\ \A s \in stored' : \E n \in Nat : s.id = Identity(s.call, n)
         /\ \A s1, s2 \in stored' : s1.id = s2.id => s1 = s2
<1> DEFINE new == [id |-> m.id, call |-> m.call]
<1>1. new.id = m.id /\ new.call = m.call
  OBVIOUS
<1>2. m.id = Identity(m.call, m.attempt) /\ m.attempt \in Nat
  BY DEF StoreInv, TypeOK
<1>3. \/ /\ stored' = stored
         /\ m.call \in HealthCalls \/ \E s \in stored : s.id = m.id
      \/ stored' = stored \union {new} /\ \A s \in stored : s.id # m.id
  BY DEF Store
<1> HIDE DEF new
<1>4. stored \subseteq stored' /\ (m.call \notin HealthCalls => \E s \in stored' : s.id = m.id)
  BY <1>1, <1>3
<1>5. \A s \in stored' : \E n \in Nat : s.id = Identity(s.call, n)
  BY <1>1, <1>2, <1>3 DEF StoreInv
<1>6. \A s1, s2 \in stored' : s1.id = s2.id => s1 = s2
  BY <1>1, <1>3 DEF StoreInv
<1> QED
  BY <1>4, <1>5, <1>6

(* Every step keeps what the server stored in line with the calls.         *)
LEMMA StoreInductive == StoredInv /\ [Next]_vars => StoredInv'
<1> SUFFICES ASSUME StoredInv, [Next]_vars PROVE StoredInv'
  OBVIOUS
<1>0. TypeOK /\ TypeOK' /\ StoreInv /\ OkMeansStored
  BY TypeInductive DEF StoredInv
<1>1. ASSUME NEW c \in Calls, Send(c) PROVE StoreInv' /\ OkMeansStored'
  <2>1. /\ net' = net \union {Request(c)}
        /\ UNCHANGED <<attempt, result, behind, stored>>
        /\ pc' = [pc EXCEPT ![c] = "waiting"]
    BY <1>1 DEF Send
  <2>2. /\ Request(c).id = Identity(Request(c).call, Request(c).attempt)
        /\ ~OkAnswer(Request(c))
    BY DEF Request, Message, OkAnswer
  <2>3. StoreInv'
    BY <1>0, <2>1, <2>2 DEF StoreInv, OkAnswer
  <2>4. OkMeansStored'
    BY <1>0, <2>1 DEF OkMeansStored, TypeOK
  <2> QED
    BY <2>3, <2>4
<1>2. ASSUME NEW c \in Calls, NEW m \in net, Receive(c, m)
      PROVE  StoreInv' /\ OkMeansStored'
  <2> DEFINE res == Outcome(c, m.answer[1])
  <2>1. /\ m.call = c /\ m.attempt = attempt[c] /\ m.answer # Pending
        /\ net' = net \ {m} /\ Settle(c, res)
    BY <1>2 DEF Receive
  <2>2. /\ result'[c] = res /\ UNCHANGED <<attempt, behind, stored>>
        /\ \A o \in Calls \ {c} : pc'[o] = pc[o] /\ result'[o] = result[o]
    BY <1>0, <2>1, SettledResult
  <2>3. StoreInv'
    BY <1>0, <2>1, <2>2 DEF StoreInv, OkAnswer
  <2>4. c \notin HealthCalls /\ ~IsFailure(res) =>
          \E s \in stored : s.id = Identity(c, attempt[c])
    BY <1>0, <2>1, OkIsSuccess DEF StoreInv, OkAnswer
  <2> HIDE DEF res
  <2>5. OkMeansStored'
    BY <1>0, <2>2, <2>4 DEF OkMeansStored, Identity
  <2> QED
    BY <2>3, <2>5
<1>3. ASSUME NEW c \in Calls, ConnectionFails(c) \/ Timeout(c)
      PROVE  StoreInv' /\ OkMeansStored'
  <2>1. net' = net /\ Settle(c, Transport)
    BY <1>3 DEF ConnectionFails, Timeout
  <2>2. /\ result'[c] = Transport /\ UNCHANGED <<attempt, behind, stored>>
        /\ \A o \in Calls \ {c} : pc'[o] = pc[o] /\ result'[o] = result[o]
    BY <1>0, <2>1, SettledResult
  <2>3. IsFailure(Transport)
    BY DEF Transport, IsFailure
  <2>4. StoreInv'
    BY <1>0, <2>1, <2>2 DEF StoreInv, OkAnswer
  <2>5. OkMeansStored'
    BY <1>0, <2>2, <2>3 DEF OkMeansStored, Identity
  <2> QED
    BY <2>4, <2>5
<1>4. ASSUME NEW c \in Calls, Wake(c) \/ Drop(c) PROVE StoreInv' /\ OkMeansStored'
  <2>1. /\ UNCHANGED <<result, net, behind, stored>>
        /\ pc'[c] # "done"
        /\ \A o \in Calls \ {c} : pc'[o] = pc[o] /\ attempt'[o] = attempt[o]
    BY <1>0, <1>4 DEF Wake, Drop, TypeOK
  <2>2. StoreInv'
    BY <1>0, <2>1 DEF StoreInv, OkAnswer
  <2>3. OkMeansStored'
    BY <1>0, <2>1 DEF OkMeansStored, Identity
  <2> QED
    BY <2>2, <2>3
<1>5. ASSUME NEW m \in net, NEW r \in Responses, ServerAnswers(m, r)
      PROVE  StoreInv' /\ OkMeansStored'
  <2> DEFINE a == Reply(m, r)
  <2>1. /\ net' = (net \ {m}) \union {a} /\ behind' \in {behind, behind \union {m}}
        /\ stored' = Store(m) \/ (~IsSuccess(r) /\ stored' = stored)
        /\ UNCHANGED <<pc, attempt, delay, result, sent>>
    BY <1>5 DEF ServerAnswers
  <2>2. /\ a.call = m.call /\ a.attempt = m.attempt /\ a.id = m.id
        /\ a.answer = <<r>>
    BY DEF Reply, Message, Answered
  <2>3. /\ stored \subseteq stored'
        /\ OkAnswer(a) => \E s \in stored' : s.id = m.id
        /\ \A s \in stored' : \E n \in Nat : s.id = Identity(s.call, n)
        /\ \A s1, s2 \in stored' : s1.id = s2.id => s1 = s2
    <3>1. CASE stored' = Store(m)
      BY <1>0, <2>2, <3>1, StoreKeeps DEF OkAnswer
    <3>2. CASE ~IsSuccess(r) /\ stored' = stored
      BY <1>0, <2>2, <3>2 DEF OkAnswer, StoreInv
    <3> QED
      BY <2>1, <3>1, <3>2
  <2> HIDE DEF a
  <2>4. \A o \in net' \union behind' : o.id = Identity(o.call, o.attempt)
    BY <1>0, <2>1, <2>2 DEF StoreInv
  <2>5. \A o \in net' : OkAnswer(o) => \E s \in stored' : s.id = o.id
    BY <1>0, <2>1, <2>2, <2>3 DEF StoreInv
  <2>6. OkMeansStored'
    BY <1>0, <2>1, <2>3 DEF OkMeansStored, Identity
  <2> QED
    BY <2>3, <2>4, <2>5, <2>6 DEF StoreInv, OkAnswer
<1>6. ASSUME NEW m \in net, Lose(m) PROVE StoreInv' /\ OkMeansStored'
  <2>1. /\ net' = net \ {m}
        /\ UNCHANGED <<pc, attempt, delay, result, sent, behind, stored>>
    BY <1>6 DEF Lose
  <2>2. OkMeansStored'
    BY <1>0, <2>1 DEF OkMeansStored, Identity
  <2> QED
    BY <1>0, <2>1, <2>2 DEF StoreInv, OkAnswer
<1>7. CASE UNCHANGED vars
  <2>1. UNCHANGED <<pc, attempt, delay, result, sent, net, behind, stored>>
    BY <1>7 DEF vars
  <2>2. StoreInv' /\ OkMeansStored'
    BY <1>0, <2>1 DEF StoreInv, OkMeansStored, OkAnswer, Identity
  <2> QED
    BY <1>0, <2>2 DEF StoredInv
<1>8. ASSUME NEW m \in behind, HandledLate(m) PROVE StoreInv' /\ OkMeansStored'
  <2>1. /\ behind' = behind \ {m} /\ stored' \in {stored, Store(m)}
        /\ UNCHANGED <<pc, attempt, delay, result, sent, net>>
    BY <1>8 DEF HandledLate
  <2>2. /\ stored \subseteq stored'
        /\ \A s \in stored' : \E n \in Nat : s.id = Identity(s.call, n)
        /\ \A s1, s2 \in stored' : s1.id = s2.id => s1 = s2
    <3>1. CASE stored' = Store(m)
      BY <1>0, <3>1, StoreKeeps
    <3>2. CASE stored' = stored
      BY <1>0, <3>2 DEF StoreInv
    <3> QED
      BY <2>1, <3>1, <3>2
  <2>3. /\ \A o \in net' \union behind' : o.id = Identity(o.call, o.attempt)
        /\ \A o \in net' : OkAnswer(o) => \E s \in stored' : s.id = o.id
    BY <1>0, <2>1, <2>2 DEF StoreInv
  <2>4. OkMeansStored'
    BY <1>0, <2>1, <2>2 DEF OkMeansStored, Identity
  <2> QED
    BY <2>2, <2>3, <2>4 DEF StoreInv, OkAnswer
<1> QED
  BY <1>0, <1>1, <1>2, <1>3, <1>4, <1>5, <1>6, <1>7, <1>8 DEF Next, StoredInv

(* It holds under any policy.                                              *)
LEMMA StoredInvariant == Spec => []StoredInv
<1>1. Init => StoredInv
  BY TransportFacts
  DEF Init, StoredInv, TypeOK, StoreInv, OkMeansStored
<1> QED
  BY <1>1, StoreInductive, PTL DEF Spec

(* Whatever the policy retries, calls under one idempotency key are stored *)
(* once by a server that recognises keys.                                  *)
THEOREM KeyedOnce == Spec => []KeyedStoredOnce
<1>1. ASSUME StoredInv, NEW s1 \in stored, NEW s2 \in stored,
             Key[s1.call] # NoKey, Key[s1.call] = Key[s2.call]
      PROVE  s1 = s2
  <2>1. PICK n1 \in Nat, n2 \in Nat :
          s1.id = Identity(s1.call, n1) /\ s2.id = Identity(s2.call, n2)
    BY <1>1 DEF StoredInv, StoreInv
  <2>2. s1.id = s2.id
    BY <1>1, <2>1 DEF Identity
  <2> QED
    BY <1>1, <2>2 DEF StoredInv, StoreInv
<1>2. StoredInv => KeyedStoredOnce
  BY <1>1 DEF KeyedStoredOnce
<1> QED
  BY <1>2, StoredInvariant, PTL

(* Ok reaches a caller only after the server stored that call's request.   *)
THEOREM OkIsStored == Spec => []OkMeansStored
<1>1. StoredInv => OkMeansStored
  BY DEF StoredInv
<1> QED
  BY <1>1, StoredInvariant, PTL
=============================================================================
