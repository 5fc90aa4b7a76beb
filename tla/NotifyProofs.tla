---------------------------- MODULE NotifyProofs ----------------------------
(***************************************************************************)
(* Proofs about module Notify, for any messages, configuration and number  *)
(* of overlapping batches and retries.                                     *)
(***************************************************************************)
EXTENDS Notify, TLAPS

(* The local variables a request has at each of its steps. *)
RequestsOK ==
  \A h \in Handlers :
    /\ req[h].step = "update" <=> req[h].message \in Messages
    /\ req[h].step = "idle" => req[h].todo = {}

TypeInv == TypeOK /\ RequestsOK

(***************************************************************************)
(* Why verdicts are earned: no message waits for another attempt with its  *)
(* attempts used up, neither in the store nor in a batch's list, and a     *)
(* success that is about to be recorded did happen.                        *)
(***************************************************************************)
AttemptsLeft ==
  /\ \A n \in Messages : Pending(n) \/ items[n].state = "none" => items[n].attempt < MaxAttempts
  /\ \A h \in Handlers, n \in Messages : Uses(h, n) => req[h].attempts[n] < MaxAttempts

SuccessHappened ==
  \A h \in Handlers : req[h].step = "update" /\ req[h].ok => delivered[req[h].message] > 0

VerdictInv == AttemptsLeft /\ SuccessHappened /\ VerdictsEarned

-----------------------------------------------------------------------------
LEMMA NothingUnused == \A n \in Messages : n # Nothing
  BY NothingOK

(* The requests the actions write. *)
LEMMA LoopingType ==
  ASSUME NEW s \in Step, NEW rest \in SUBSET Messages, NEW attempts \in [Messages -> Nat]
  PROVE  /\ Looping(s, rest, attempts) \in Request
         /\ Looping(s, rest, attempts).step \in {s, "idle"}
         /\ Looping(s, rest, attempts).todo = rest
         /\ Looping(s, rest, attempts).message = Nothing
         /\ Looping(s, rest, attempts).ok = FALSE
         /\ rest # {} => /\ Looping(s, rest, attempts).step = s
                         /\ Looping(s, rest, attempts).attempts = attempts
         /\ Looping(s, rest, attempts).step = "idle" => rest = {} \/ s = "idle"
         /\ rest = {} => /\ Looping(s, rest, attempts).step = "idle"
                         /\ Looping(s, rest, attempts).attempts = Nowhere
  BY DEF Looping, Idle, Nowhere, Request, Step

LEMMA SendingType ==
  ASSUME NEW r \in Request, NEW n \in Messages, NEW ok \in BOOLEAN
  PROVE  Sending(r, n, ok) \in Request
  BY DEF Sending, Request, Step

(* A delay is a number of ticks the clock can count, and the one backoff   *)
(* computes if that is a Duration.                                         *)
LEMMA DelaysRange ==
  ASSUME NEW k, NEW d \in Delays(k)
  PROVE  /\ d \in 0 .. MaxRest
         /\ Fits(k) => d = BackoffAfter(k)
  BY BoundsOK DEF Delays, Fits

LEMMA RetryingType ==
  ASSUME NEW attempt \in Nat, NEW k, NEW x \in Retrying(attempt, k)
  PROVE  /\ x \in Notification
         /\ x.state = "retrying" /\ x.attempt = attempt /\ x.wait \in Delays(k)
<1>1. x \in [state : {"retrying"}, attempt : {attempt}, wait : Delays(k)]
  BY DEF Retrying
<1>2. Delays(k) \subseteq 0 .. MaxRest
  BY DelaysRange
<1>. QED
  BY <1>1, <1>2 DEF Notification, NotifyState

LEMMA SentType ==
  ASSUME TypeInv, NEW n \in Messages
  PROVE  Sent(n) \in Notification /\ Sent(n).state = "sent"
<1>1. items[n] \in Notification
  BY DEF TypeInv, TypeOK
<1>2. PICK k \in Nat : k = items[n].attempt + 1
  BY <1>1 DEF Notification
<1>3. Sent(n) = [items[n] EXCEPT !.state = "sent", !.attempt = k]
  BY <1>2 DEF Sent
<1>. QED
  BY <1>1, <1>3 DEF Notification, NotifyState

LEMMA FailedType ==
  ASSUME TypeInv, NEW n \in Messages, NEW attempt \in Nat, attempt =< MaxAttempts,
         NEW x \in Failed(n, attempt)
  PROVE  /\ x \in Notification /\ x.attempt = attempt
         /\ IF attempt = MaxAttempts
            THEN x.state = "failed"
            ELSE x.state = "retrying" /\ x.wait \in Delays(attempt)
<1>1. items[n] \in Notification
  BY DEF TypeInv, TypeOK
<1>2. CASE attempt = MaxAttempts
  <2>1. x = [items[n] EXCEPT !.state = "failed", !.attempt = attempt]
    BY <1>2, ConfigOK DEF Failed
  <2>. QED
    BY <1>1, <1>2, <2>1 DEF Notification, NotifyState
<1>3. CASE attempt # MaxAttempts
  <2>1. x \in Retrying(attempt, attempt)
    BY <1>3, ConfigOK DEF Failed
  <2>. QED
    BY <1>3, <2>1, RetryingType
<1>. QED
  BY <1>2, <1>3

(* What an update of a message may make of it. *)
LEMMA OutcomeType ==
  ASSUME TypeInv, NEW h \in Handlers, req[h].message \in Messages,
         req[h].attempts[req[h].message] + 1 \in Nat,
         req[h].attempts[req[h].message] + 1 =< MaxAttempts,
         NEW x \in Outcomes(req[h])
  PROVE  LET k == req[h].attempts[req[h].message] + 1 IN
         /\ x \in Notification
         /\ req[h].ok => x.state = "sent"
         /\ ~req[h].ok =>
              /\ x.attempt = k
              /\ IF k = MaxAttempts
                 THEN x.state = "failed"
                 ELSE x.state = "retrying" /\ x.wait \in Delays(k)
<1>1. CASE req[h].ok
  BY <1>1, SentType DEF Outcomes
<1>2. CASE ~req[h].ok
  <2>1. x \in Failed(req[h].message, req[h].attempts[req[h].message] + 1)
    BY <1>2 DEF Outcomes
  <2>. QED
    BY <1>2, <2>1, FailedType
<1>. QED
  BY <1>1, <1>2

LEMMA CountersType ==
  ASSUME TypeInv, NEW ns \in SUBSET Messages
  PROVE  Counters(ns) \in [Messages -> Nat]
  BY DEF Counters, TypeInv, TypeOK, Notification

(***************************************************************************)
(* Every step keeps the types.                                             *)
(***************************************************************************)
LEMMA NextTypeInv == TypeInv /\ AttemptsLeft /\ [Next]_vars => TypeInv'
<1> SUFFICES ASSUME TypeInv, AttemptsLeft, [Next]_vars PROVE TypeInv'
  OBVIOUS
<1> USE DEF TypeInv, TypeOK, RequestsOK
<1>1. ASSUME NEW n \in Messages, Enqueue(n)
      PROVE  TypeInv'
  BY <1>1 DEF Enqueue, Notification, NotifyState
<1>2. ASSUME NEW h \in Handlers, NEW s \in Step, NEW rest \in SUBSET Messages,
             NEW attempts \in [Messages -> Nat], Become(h, Looping(s, rest, attempts)),
             s \in {"push", "reset"},
             items' \in [Messages -> Notification], delivered' = delivered,
             rested' \in [Messages -> 0 .. MaxRest]
      PROVE  TypeInv'
  <2>1. PICK r : r = Looping(s, rest, attempts)
    OBVIOUS
  <2>2. /\ r \in Request /\ r.step # "update" /\ r.message \notin Messages
        /\ r.step = "idle" => r.todo = {}
    <3>1. /\ r \in Request /\ r.step \in {s, "idle"} /\ r.message = Nothing
          /\ r.step = "idle" => r.todo = {}
      <4>1. s \in {"push", "reset"}
        BY <1>2
      <4>. QED
        BY <2>1, <4>1 DEF Looping, Idle, Nowhere, Request, Step
    <3>. QED
      BY <1>2, <3>1, NothingOK
  <2>3. req' = [req EXCEPT ![h] = r]
    BY <1>2, <2>1 DEF Become
  <2>4. req' \in [Handlers -> Request]
    BY <2>2, <2>3
  <2>5. RequestsOK'
    BY <2>2, <2>3
  <2>. QED
    BY <1>2, <2>4, <2>5
<1>3. ASSUME NEW h \in Handlers, PushRead(h)
      PROVE  TypeInv'
  <2>1. Counters({n \in Messages : Due(n)}) \in [Messages -> Nat]
    BY CountersType
  <2>. QED
    BY <1>2, <1>3, <2>1 DEF PushRead, Step
<1>4. ASSUME NEW h \in Handlers, RetryRead(h)
      PROVE  TypeInv'
  <2>1. Nowhere \in [Messages -> Nat]
    BY DEF Nowhere
  <2>. QED
    BY <1>2, <1>4, <2>1 DEF RetryRead, Step
<1>5. ASSUME NEW h \in Handlers, NEW n \in Messages, NEW ok \in BOOLEAN, Send(h, n, ok)
      PROVE  TypeInv'
  <2>1. Sending(req[h], n, ok) \in Request
    BY SendingType
  <2>2. delivered' \in [Messages -> 0 .. MaxSends]
    BY <1>5, BoundsOK DEF Send
  <2>. QED
    BY <1>5, <2>1, <2>2 DEF Send, Become, Sending
<1>6. ASSUME NEW h \in Handlers, PushUpdate(h)
      PROVE  TypeInv'
  <2> DEFINE r == req[h]
             n == r.message
  <2>1. r \in Request /\ n \in Messages
    BY <1>6 DEF PushUpdate
  <2>2. r.attempts[n] + 1 \in Nat /\ r.attempts[n] + 1 =< MaxAttempts
    BY <2>1, ConfigOK DEF AttemptsLeft, Uses, Request
  <2>3. PICK x \in Outcomes(r) : items' = [items EXCEPT ![n] = x]
    BY <1>6 DEF PushUpdate
  <2>4. x \in Notification
    BY <2>1, <2>2, OutcomeType
  <2>5. items' \in [Messages -> Notification]
    BY <2>1, <2>3, <2>4
  <2>6. rested' \in [Messages -> 0 .. MaxRest]
    BY <1>6, <2>1, BoundsOK DEF PushUpdate
  <2>7. /\ r.todo \in SUBSET Messages /\ r.attempts \in [Messages -> Nat]
        /\ Become(h, Looping("push", r.todo, r.attempts)) /\ delivered' = delivered
    BY <1>6, <2>1 DEF PushUpdate, Request
  <2>. QED
    BY <1>2, <2>5, <2>6, <2>7 DEF Step
<1>7. ASSUME NEW h \in Handlers, NEW n \in Messages, RetryUpdate(h, n)
      PROVE  TypeInv'
  <2>1. /\ Nowhere \in [Messages -> Nat]
        /\ req[h].todo \ {n} \in SUBSET Messages
    BY DEF Nowhere, Request
  <2>2. items' \in [Messages -> Notification]
    BY <1>7, RetryingType DEF RetryUpdate
  <2>3. rested' \in [Messages -> 0 .. MaxRest]
    BY <1>7, BoundsOK DEF RetryUpdate
  <2>. QED
    BY <1>2, <1>7, <2>1, <2>2, <2>3 DEF RetryUpdate, Step
<1>8. CASE Tick
  <2>1. items' \in [Messages -> Notification]
    BY <1>8, BoundsOK DEF Tick, Notification
  <2>2. rested' \in [Messages -> 0 .. MaxRest]
    BY <1>8, BoundsOK DEF Tick
  <2>. QED
    BY <1>8, <2>1, <2>2 DEF Tick
<1>9. CASE UNCHANGED vars
  BY <1>9 DEF vars
<1>. QED
  BY <1>1, <1>3, <1>4, <1>5, <1>6, <1>7, <1>8, <1>9 DEF Next, Continue
(***************************************************************************)
(* What a request lists after its next store call.                         *)
(***************************************************************************)
LoopsOn(h, s, rest, attempts) ==
  /\ \A g \in Handlers : g # h => req'[g] = req[g]
  /\ \A n \in Messages : Uses(h, n)' <=> n \in rest
  /\ \A n \in rest : req'[h].attempts[n] = attempts[n] /\ req'[h].step = s
  /\ req'[h].step # "update" /\ req'[h].todo = rest /\ req'[h].message = Nothing

LEMMA LoopUses ==
  ASSUME TypeInv, NEW h \in Handlers, NEW s \in {"push", "reset"},
         NEW rest \in SUBSET Messages, NEW attempts \in [Messages -> Nat],
         Become(h, Looping(s, rest, attempts))
  PROVE  LoopsOn(h, s, rest, attempts)
<1>1. PICK r : r = Looping(s, rest, attempts)
  OBVIOUS
<1>2. /\ r.message = Nothing /\ r.todo = rest /\ r.step # "update"
      /\ rest # {} => r.attempts = attempts /\ r.step = s
  BY <1>1 DEF Looping, Idle
<1>3. req' = [req EXCEPT ![h] = r]
  BY <1>1 DEF Become
<1>4. /\ \A g \in Handlers : g # h => req'[g] = req[g]
      /\ req'[h] = r
  BY <1>3 DEF TypeInv, TypeOK
<1>. QED
  BY <1>2, <1>4, NothingOK DEF Uses, LoopsOn

LEMMA SendUses ==
  ASSUME TypeInv, NEW h \in Handlers, NEW n \in Messages, NEW ok \in BOOLEAN, Send(h, n, ok)
  PROVE  /\ \A g \in Handlers : g # h => req'[g] = req[g]
         /\ req'[h] = Sending(req[h], n, ok)
         /\ n \in req[h].todo /\ req[h].step = "push" /\ req[h].message \notin Messages
         /\ \A m \in Messages : Uses(h, m)' <=> m \in req[h].todo
         /\ req'[h].attempts = req[h].attempts
  BY DEF Send, Become, Sending, TypeInv, TypeOK, RequestsOK, Uses

LEMMA NextVerdictInv == TypeInv /\ VerdictInv /\ [Next]_vars => VerdictInv'
<1> SUFFICES ASSUME TypeInv, VerdictInv, [Next]_vars PROVE VerdictInv'
  OBVIOUS
<1>0. TypeInv'
  BY NextTypeInv DEF VerdictInv
<1> USE DEF VerdictInv, AttemptsLeft, SuccessHappened, VerdictsEarned, Pending
<1>1. ASSUME NEW n \in Messages, Enqueue(n)
      PROVE  VerdictInv'
  BY <1>1 DEF Enqueue, TypeInv, TypeOK, Notification, Uses
<1>2. ASSUME NEW h \in Handlers, NEW s \in {"push", "reset"},
             NEW rest \in SUBSET Messages, NEW attempts \in [Messages -> Nat],
             Become(h, Looping(s, rest, attempts)), delivered' = delivered,
             \A n \in rest : attempts[n] < MaxAttempts
      PROVE  SuccessHappened' /\ (\A g \in Handlers, n \in Messages :
                                    Uses(g, n)' => req'[g].attempts[n] < MaxAttempts)
  <2>1. LoopsOn(h, s, rest, attempts)
    BY <1>2, LoopUses
  <2>2. \A g \in Handlers, n \in Messages : g # h => (Uses(g, n)' <=> Uses(g, n))
    BY <2>1 DEF Uses, LoopsOn
  <2>. QED
    BY <1>2, <2>1, <2>2 DEF LoopsOn
<1>3. ASSUME NEW h \in Handlers, PushRead(h)
      PROVE  VerdictInv'
  <2> DEFINE due == {n \in Messages : Due(n)}
  <2>1. /\ Counters(due) \in [Messages -> Nat]
        /\ \A n \in due : Counters(due)[n] < MaxAttempts
    BY CountersType DEF Counters, Due
  <2>2. Become(h, Looping("push", due, Counters(due))) /\ UNCHANGED <<items, delivered>>
    BY <1>3 DEF PushRead
  <2> HIDE DEF due
  <2>3. due \in SUBSET Messages
    BY DEF due
  <2>4. SuccessHappened' /\ (\A g \in Handlers, n \in Messages :
                                    Uses(g, n)' => req'[g].attempts[n] < MaxAttempts)
    BY <1>2, <2>1, <2>2, <2>3
  <2>. QED
    BY <2>2, <2>4
<1>4. ASSUME NEW h \in Handlers, RetryRead(h)
      PROVE  VerdictInv'
  <2> DEFINE failed == {n \in Messages : items[n].state = "failed"}
  <2>1. /\ Nowhere \in [Messages -> Nat]
        /\ \A n \in failed : Nowhere[n] < MaxAttempts
    BY ConfigOK DEF Nowhere
  <2>2. Become(h, Looping("reset", failed, Nowhere)) /\ UNCHANGED <<items, delivered>>
    BY <1>4 DEF RetryRead
  <2>. QED
    BY <1>2, <2>1, <2>2
<1>5. ASSUME NEW h \in Handlers, NEW n \in Messages, NEW ok \in BOOLEAN, Send(h, n, ok)
      PROVE  VerdictInv'
  <2>1. /\ \A g \in Handlers : g # h => req'[g] = req[g]
        /\ req'[h] = Sending(req[h], n, ok)
        /\ \A m \in Messages : Uses(h, m)' <=> m \in req[h].todo
        /\ req'[h].attempts = req[h].attempts
    BY <1>5, SendUses
  <2>2. \A m \in Messages : delivered[m] > 0 => delivered'[m] > 0
    BY <1>5 DEF Send, TypeInv, TypeOK
  <2>3. ok => delivered'[n] > 0
    BY <1>5, BoundsOK DEF Send, TypeInv, TypeOK
  <2>4. SuccessHappened'
    BY <2>1, <2>2, <2>3 DEF Sending, TypeInv, TypeOK, RequestsOK
  <2>5. \A g \in Handlers, m \in Messages : Uses(g, m)' => req'[g].attempts[m] < MaxAttempts
    BY <2>1 DEF Uses
  <2>6. items' = items
    BY <1>5 DEF Send
  <2>. QED
    BY <2>2, <2>4, <2>5, <2>6
<1>6. ASSUME NEW h \in Handlers, PushUpdate(h)
      PROVE  VerdictInv'
  <2> DEFINE r == req[h]
             n == r.message
             k == r.attempts[n] + 1
  <2>1. /\ r \in Request /\ n \in Messages /\ r.step = "update"
        /\ r.todo \in SUBSET Messages /\ r.attempts \in [Messages -> Nat]
    BY <1>6 DEF PushUpdate, TypeInv, TypeOK, RequestsOK, Request
  <2>2. k \in Nat /\ k =< MaxAttempts
    BY <2>1, ConfigOK DEF Uses
  <2>3. PICK x \in Outcomes(r) :
          /\ items'[n] = x
          /\ \A m \in Messages : m # n => items'[m] = items[m]
          /\ delivered' = delivered
    BY <1>6, <2>1 DEF PushUpdate, TypeInv, TypeOK
  <2>4. r.ok => delivered[n] > 0
    BY <2>1
  <2>5. \A m \in r.todo : r.attempts[m] < MaxAttempts
    BY <2>1 DEF Uses
  <2>6. SuccessHappened' /\ (\A g \in Handlers, m \in Messages :
                                    Uses(g, m)' => req'[g].attempts[m] < MaxAttempts)
    <3>1. PICK rest \in SUBSET Messages, attempts \in [Messages -> Nat] :
            rest = r.todo /\ attempts = r.attempts
      BY <2>1
    <3>2. Become(h, Looping("push", rest, attempts)) /\ delivered' = delivered
      BY <1>6, <3>1 DEF PushUpdate
    <3>3. \A m \in rest : attempts[m] < MaxAttempts
      BY <2>5, <3>1
    <3>. QED
      BY ONLY <1>2, <3>2, <3>3
  <2>7. /\ r.ok => x.state = "sent"
        /\ ~r.ok => x.attempt = k /\ IF k = MaxAttempts THEN x.state = "failed"
                                                        ELSE x.state = "retrying"
    BY <2>1, <2>2, OutcomeType
  <2>8. x.state = "retrying" /\ ~r.ok => x.attempt < MaxAttempts
    BY <2>2, <2>7, ConfigOK
  <2> HIDE DEF n, k, r
  <2>9. /\ x.state = "retrying" => x.attempt < MaxAttempts
        /\ x.state = "failed" => x.attempt = MaxAttempts
        /\ x.state = "sent" => delivered[n] > 0
        /\ x.state \in {"retrying", "failed", "sent"}
    BY <2>4, <2>7, <2>8
  <2>. QED
    BY <2>3, <2>6, <2>9
<1>7. ASSUME NEW h \in Handlers, NEW n \in Messages, RetryUpdate(h, n)
      PROVE  VerdictInv'
  <2>1. PICK rest : rest = req[h].todo \ {n}
    OBVIOUS
  <2>2. /\ Nowhere \in [Messages -> Nat]
        /\ rest \in SUBSET Messages
        /\ \A m \in rest : Nowhere[m] < MaxAttempts
    BY <2>1, ConfigOK DEF Nowhere, TypeInv, TypeOK, Request
  <2>3. PICK x \in Retrying(0, 1) :
        /\ items'[n] = x
        /\ \A m \in Messages : m # n => items'[m] = items[m]
        /\ delivered' = delivered
    BY <1>7, <2>1 DEF RetryUpdate, TypeInv, TypeOK
  <2>4. SuccessHappened' /\ (\A g \in Handlers, m \in Messages :
                                    Uses(g, m)' => req'[g].attempts[m] < MaxAttempts)
    <3>1. Become(h, Looping("reset", rest, Nowhere)) /\ delivered' = delivered
      BY <1>7, <2>1 DEF RetryUpdate
    <3>. QED
      BY <1>2, <2>2, <3>1
  <2>5. x.state = "retrying" /\ x.attempt = 0 /\ 0 < MaxAttempts
    BY RetryingType, ConfigOK
  <2>. QED
    BY <2>3, <2>4, <2>5
<1>8. CASE Tick
  <2>1. \A n \in Messages : items'[n].state = items[n].state /\ items'[n].attempt = items[n].attempt
    BY <1>8 DEF Tick, TypeInv, TypeOK, Notification
  <2>2. UNCHANGED <<delivered, req>>
    BY <1>8 DEF Tick
  <2>. QED
    BY <2>1, <2>2 DEF Uses
<1>9. CASE UNCHANGED vars
  BY <1>9 DEF vars, Uses
<1>. QED
  BY <1>1, <1>3, <1>4, <1>5, <1>6, <1>7, <1>8, <1>9 DEF Next, Continue

LEMMA InitVerdictInv == Init => TypeInv /\ VerdictInv
  BY ConfigOK, BoundsOK, NothingOK
  DEF Init, NoNotification, Idle, Nowhere, TypeInv, TypeOK, RequestsOK, VerdictInv, AttemptsLeft,
      SuccessHappened, VerdictsEarned, Pending, Uses, Notification, NotifyState, Request, Step

(***************************************************************************)
(* Every record keeps its type; no delay leaves the range of the clock.    *)
(***************************************************************************)
THEOREM NotifyTyping == Spec => []TypeOK
<1>1. TypeInv /\ VerdictInv /\ [Next]_vars => (TypeInv /\ VerdictInv)'
  BY NextTypeInv, NextVerdictInv DEF VerdictInv
<1>2. TypeInv => TypeOK
  BY DEF TypeInv
<1>. QED
  BY <1>1, <1>2, InitVerdictInv, PTL DEF Spec

(***************************************************************************)
(* However batches and retries overlap, sent means delivered and failed    *)
(* means that the attempts are used up (notify/service.go, PushBatch).     *)
(***************************************************************************)
THEOREM VerdictsKept == Spec => []VerdictsEarned
<1>1. TypeInv /\ VerdictInv /\ [Next]_vars => (TypeInv /\ VerdictInv)'
  BY NextTypeInv, NextVerdictInv DEF VerdictInv
<1>2. VerdictInv => VerdictsEarned
  BY DEF VerdictInv
<1>. QED
  BY <1>1, <1>2, InitVerdictInv, PTL DEF Spec
-----------------------------------------------------------------------------
(***************************************************************************)
(* A message that is on one list at a time: what its request's list says   *)
(* of it is still so, it has not been delivered before its request sends   *)
(* it, and what is left of its backoff and what it has rested make up the  *)
(* backoff, if that is a Duration.                                         *)
(***************************************************************************)
OnOneList(n) == \A g, h \in Handlers : Uses(g, n) /\ Uses(h, n) => g = h

ListStillTrue(n) ==
  \A h \in Handlers :
    /\ n \in req[h].todo /\ req[h].step \in {"push", "update"} =>
         Pending(n) /\ items[n].wait = 0 /\ delivered[n] = 0 /\ n # req[h].message
    /\ n \in req[h].todo /\ req[h].step = "reset" =>
         items[n].state = "failed" /\ delivered[n] = 0
    /\ n = req[h].message => Pending(n) /\ delivered[n] = IF req[h].ok THEN 1 ELSE 0

Settled(n) ==
  /\ delivered[n] =< 1
  /\ ~OnList(n) => (delivered[n] = 1 <=> items[n].state = "sent")

Rested(n) ==
  items[n].state = "retrying" /\ Fits(items[n].attempt)
    => items[n].wait + rested[n] >= BackoffAfter(items[n].attempt)

MessageInv(n) == OnOneList(n) /\ ListStillTrue(n) /\ Settled(n) /\ Rested(n)

OrderlyInv == \A n \in Orderly : MessageInv(n)

(* An operator's retry waits as long as a first failure does. *)
LEMMA FirstBackoff == BackoffAfter(0) = BackoffAfter(1)
<1>1. (IF 0 < 1 THEN 0 ELSE 0 - 1) = 0 /\ (IF 1 < 1 THEN 0 ELSE 1 - 1) = 0
  OBVIOUS
<1>. QED
  BY <1>1, Zenon DEF BackoffAfter

LEMMA FittingBackoff ==
  ASSUME NEW k, Fits(k)
  PROVE  BackoffAfter(k) \in Nat /\ BackoffAfter(k) =< MaxRest
  BY BoundsOK DEF Fits

LEMMA NextMessageInv ==
  ASSUME TypeInv, VerdictInv, NEW n \in Orderly, MessageInv(n), [Next]_vars
  PROVE  MessageInv(n)'
<1>0. n \in Messages /\ TypeInv' /\ n # Nothing
  BY OrderlyOK, NextTypeInv, NothingOK DEF VerdictInv
<1> USE DEF MessageInv, OnOneList, ListStillTrue, Settled, Rested, Pending, OnList
(* A request that looks for messages, and a request that goes on with the  *)
(* rest of its list, while nothing happens to n.                           *)
<1>1. ASSUME NEW h \in Handlers, NEW s \in {"push", "reset"},
             NEW rest \in SUBSET Messages, NEW attempts \in [Messages -> Nat],
             LoopsOn(h, s, rest, attempts),
             items'[n] = items[n], delivered' = delivered, rested'[n] = rested[n],
             n \in rest => \A g \in Handlers : g # h => ~Uses(g, n),
             n \in rest =>
               IF s = "push" THEN Pending(n) /\ items[n].wait = 0 /\ delivered[n] = 0
                             ELSE items[n].state = "failed" /\ delivered[n] = 0,
             Uses(h, n) => n \in rest
      PROVE  MessageInv(n)'
  <2>1. \A g \in Handlers : g # h => (Uses(g, n)' <=> Uses(g, n)) /\ req'[g] = req[g]
    BY <1>1 DEF Uses, LoopsOn
  <2>2. /\ Uses(h, n)' <=> n \in rest
        /\ n \in rest => req'[h].step = s
        /\ req'[h].step # "update" /\ req'[h].todo = rest /\ req'[h].message # n
    BY <1>0, <1>1 DEF LoopsOn
  <2>3. OnOneList(n)'
    BY <1>1, <2>1, <2>2
  <2>4. ListStillTrue(n)'
    BY <1>1, <2>1, <2>2
  <2>5. OnList(n) => OnList(n)'
    BY <1>1, <2>1, <2>2
  <2>. QED
    BY <1>1, <2>3, <2>4, <2>5
<1>2. ASSUME NEW m \in Messages, Enqueue(m)
      PROVE  MessageInv(n)'
  <2>1. items'[n] = items[n] \/ (m = n /\ items[n].state = "none" /\ items'[n].state = "queued")
    BY <1>0, <1>2 DEF Enqueue, TypeInv, TypeOK
  <2>2. UNCHANGED <<delivered, rested, req>>
    BY <1>2 DEF Enqueue
  <2>3. CASE items'[n] = items[n]
    BY <2>2, <2>3 DEF Uses
  <2>4. CASE items[n].state = "none" /\ items'[n].state = "queued"
    <3>1. \A h \in Handlers : ~Uses(h, n)
      BY <1>0, <2>4 DEF Uses, TypeInv, TypeOK, RequestsOK, Request, Step
    <3>. QED
      BY <2>2, <2>4, <3>1 DEF Uses
  <2>. QED
    BY <2>1, <2>3, <2>4
<1>3. ASSUME NEW h \in Handlers, req[h].step = "idle"
      PROVE  ~Uses(h, n)
  BY <1>0, <1>3 DEF Uses, TypeInv, RequestsOK
<1>4. ASSUME NEW h \in Handlers, PushRead(h)
      PROVE  MessageInv(n)'
  <2>1. PICK due : due = {m \in Messages : Due(m)}
    OBVIOUS
  <2>2. /\ Counters(due) \in [Messages -> Nat] /\ due \in SUBSET Messages
        /\ Become(h, Looping("push", due, Counters(due)))
        /\ UNCHANGED <<items, delivered, rested>>
        /\ req[h].step = "idle" /\ MayList(due)
    BY <1>4, <2>1, CountersType DEF PushRead, IsIdle
  <2>3. LoopsOn(h, "push", due, Counters(due))
    BY <2>2, LoopUses
  <2>4. n \in due => \A g \in Handlers : ~Uses(g, n)
    BY <2>2 DEF MayList
  <2>5. n \in due => Pending(n) /\ items[n].wait = 0
    BY <2>1 DEF Due
  <2>6. n \in due => delivered[n] = 0
    BY <1>0, <2>4, <2>5 DEF TypeInv, TypeOK
  <2>7. ~Uses(h, n)
    BY <1>3, <2>2
  <2>. QED
    BY <1>1, <2>2, <2>3, <2>4, <2>5, <2>6, <2>7
<1>5. ASSUME NEW h \in Handlers, RetryRead(h)
      PROVE  MessageInv(n)'
  <2>1. PICK failed : failed = {m \in Messages : items[m].state = "failed"}
    OBVIOUS
  <2>2. /\ Nowhere \in [Messages -> Nat] /\ failed \in SUBSET Messages
        /\ Become(h, Looping("reset", failed, Nowhere))
        /\ UNCHANGED <<items, delivered, rested>>
        /\ req[h].step = "idle" /\ MayList(failed)
    BY <1>5, <2>1 DEF RetryRead, IsIdle, Nowhere
  <2>3. LoopsOn(h, "reset", failed, Nowhere)
    BY <2>2, LoopUses
  <2>4. n \in failed => \A g \in Handlers : ~Uses(g, n)
    BY <2>2 DEF MayList
  <2>5. n \in failed => items[n].state = "failed"
    BY <2>1
  <2>6. n \in failed => delivered[n] = 0
    BY <1>0, <2>4, <2>5 DEF TypeInv, TypeOK
  <2>7. ~Uses(h, n)
    BY <1>3, <2>2
  <2>. QED
    BY <1>1, <2>2, <2>3, <2>4, <2>5, <2>6, <2>7
<1>6. ASSUME NEW h \in Handlers, NEW m \in Messages, NEW ok \in BOOLEAN, Send(h, m, ok)
      PROVE  MessageInv(n)'
  <2>1. /\ \A g \in Handlers : g # h => req'[g] = req[g]
        /\ req'[h] = Sending(req[h], m, ok)
        /\ m \in req[h].todo /\ req[h].step = "push" /\ req[h].message \notin Messages
        /\ Uses(h, n)' <=> n \in req[h].todo
    BY <1>0, <1>6, SendUses
  <2>2. \A g \in Handlers : Uses(g, n)' <=> Uses(g, n)
    BY <1>0, <2>1 DEF Uses
  <2>3. /\ items' = items /\ rested' = rested
        /\ m # n => delivered'[n] = delivered[n]
        /\ m = n /\ delivered[n] = 0 => delivered'[n] = IF ok THEN 1 ELSE 0
    BY <1>0, <1>6, BoundsOK DEF Send, TypeInv, TypeOK
  <2>4. /\ req'[h].step = "update" /\ req'[h].todo = req[h].todo \ {m}
        /\ req'[h].message = m /\ req'[h].ok = ok
    BY <2>1 DEF Sending
  <2>5. CASE m = n
    <3>1. Pending(n) /\ items[n].wait = 0 /\ delivered[n] = 0 /\ Uses(h, n)
      BY <2>1, <2>5 DEF Uses
    <3>2. \A g \in Handlers : g # h => ~Uses(g, n)
      BY <3>1
    <3>3. ListStillTrue(n)'
      BY <2>1, <2>3, <2>4, <2>5, <3>1, <3>2 DEF Uses
    <3>. QED
      BY <2>2, <2>3, <2>5, <3>1, <3>3
  <2>6. CASE m # n
    <3>1. ListStillTrue(n)'
      BY <2>1, <2>3, <2>4, <2>6
    <3>. QED
      BY <2>2, <2>3, <2>6, <3>1
  <2>. QED
    BY <2>5, <2>6
<1>7. ASSUME NEW h \in Handlers, NEW s \in {"push", "reset"},
             NEW rest \in SUBSET Messages, NEW attempts \in [Messages -> Nat],
             LoopsOn(h, s, rest, attempts), delivered' = delivered,
             Uses(h, n), n \notin rest,
             delivered[n] = 1 <=> items'[n].state = "sent",
             Rested(n)'
      PROVE  MessageInv(n)'
  <2>1. \A g \in Handlers : g # h => ~Uses(g, n) /\ req'[g] = req[g]
    BY <1>7 DEF LoopsOn
  <2>2. ~Uses(h, n)' /\ req'[h].todo = rest /\ req'[h].message # n
    BY <1>0, <1>7 DEF LoopsOn
  <2>3. \A g \in Handlers : ~Uses(g, n)'
    BY <2>1, <2>2 DEF Uses
  <2>. QED
    BY <1>7, <2>3 DEF Uses
<1>8. ASSUME NEW h \in Handlers, PushUpdate(h)
      PROVE  MessageInv(n)'
  <2>1. PICK m, rest, attempts, k : /\ m = req[h].message /\ rest = req[h].todo
                                    /\ attempts = req[h].attempts /\ k = attempts[m] + 1
    OBVIOUS
  <2>2. /\ m \in Messages /\ req[h].step = "update"
        /\ rest \in SUBSET Messages /\ attempts \in [Messages -> Nat]
    BY <1>8, <2>1 DEF PushUpdate, TypeInv, TypeOK, RequestsOK, Request
  <2>3. k \in 0 .. MaxAttempts
    BY <2>1, <2>2, ConfigOK DEF Uses, VerdictInv, AttemptsLeft
  <2>4. PICK x \in Outcomes(req[h]) :
          /\ items' = [items EXCEPT ![m] = x]
          /\ rested' = [rested EXCEPT ![m] = IF req[h].ok THEN @ ELSE 0]
          /\ delivered' = delivered
          /\ Become(h, Looping("push", rest, attempts))
    BY <1>8, <2>1 DEF PushUpdate
  <2>5. LoopsOn(h, "push", rest, attempts)
    BY <2>2, <2>4, LoopUses
  <2>6. CASE m = n
    <3>1. Uses(h, n) /\ n \notin rest /\ delivered[n] = IF req[h].ok THEN 1 ELSE 0
      BY <2>1, <2>2, <2>6 DEF Uses
    <3>2. items'[n] = x /\ (~req[h].ok => rested'[n] = 0)
      BY <1>0, <2>4, <2>6 DEF TypeInv, TypeOK
    <3>3. x \in Notification
      BY <2>1, <2>2, <2>3, OutcomeType
    <3>4. /\ req[h].ok => x.state = "sent"
          /\ ~req[h].ok => x.attempt = k /\ IF k = MaxAttempts THEN x.state = "failed"
                                            ELSE x.state = "retrying" /\ x.wait \in Delays(k)
      BY <2>1, <2>2, <2>3, OutcomeType
    <3>5. delivered[n] = 1 <=> items'[n].state = "sent"
      BY <3>1, <3>2, <3>4
    <3>6. Rested(n)'
      <4> SUFFICES ASSUME x.state = "retrying", Fits(x.attempt)
                   PROVE  x.wait + rested'[n] >= BackoffAfter(x.attempt)
        BY <3>2
      <4>1. rested'[n] = 0 /\ x.attempt = k /\ x.wait \in Delays(k)
        BY <3>2, <3>4
      <4>2. x.wait = BackoffAfter(k) /\ x.wait \in Nat
        BY <3>3, <4>1, DelaysRange DEF Notification
      <4>. QED
        BY <4>1, <4>2
    <3>. QED
      BY <1>7, <2>2, <2>4, <2>5, <3>1, <3>5, <3>6
  <2>7. CASE m # n
    <3>1. items'[n] = items[n] /\ rested'[n] = rested[n]
      BY <1>0, <2>4, <2>7 DEF TypeInv, TypeOK
    <3>2. Uses(h, n) => n \in rest
      BY <2>1, <2>7 DEF Uses
    <3>3. n \in rest => \A g \in Handlers : g # h => ~Uses(g, n)
      BY <2>1 DEF Uses
    <3>4. n \in rest => Pending(n) /\ items[n].wait = 0 /\ delivered[n] = 0
      BY <2>1, <2>2
    <3>. QED
      BY <1>1, <2>2, <2>4, <2>5, <3>1, <3>2, <3>3, <3>4
  <2>. QED
    BY <2>6, <2>7
<1>9. ASSUME NEW h \in Handlers, NEW m \in Messages, RetryUpdate(h, m)
      PROVE  MessageInv(n)'
  <2>1. PICK rest : rest = req[h].todo \ {m}
    OBVIOUS
  <2>2. /\ m \in req[h].todo /\ req[h].step = "reset" /\ rest \in SUBSET Messages
        /\ Nowhere \in [Messages -> Nat]
    BY <1>9, <2>1 DEF RetryUpdate, TypeInv, TypeOK, Request, Nowhere
  <2>3. PICK x \in Retrying(0, 1) :
        /\ items' = [items EXCEPT ![m] = x]
        /\ rested' = [rested EXCEPT ![m] = 0]
        /\ delivered' = delivered
        /\ Become(h, Looping("reset", rest, Nowhere))
    BY <1>9, <2>1 DEF RetryUpdate
  <2>4. LoopsOn(h, "reset", rest, Nowhere)
    BY <2>2, <2>3, LoopUses
  <2>5. CASE m = n
    <3>1. Uses(h, n) /\ n \notin rest /\ delivered[n] = 0
      BY <2>1, <2>2, <2>5 DEF Uses
    <3>2. items'[n] = x /\ rested'[n] = 0
      BY <1>0, <2>3, <2>5 DEF TypeInv, TypeOK
    <3>3. /\ x \in Notification
          /\ x.state = "retrying" /\ x.attempt = 0 /\ x.wait \in Delays(1)
      BY RetryingType
    <3>4. Rested(n)'
      <4> SUFFICES ASSUME Fits(0)
                   PROVE  x.wait + rested'[n] >= BackoffAfter(0)
        BY <3>2, <3>3
      <4>1. x.wait = BackoffAfter(0) /\ x.wait \in Nat
        BY <3>3, FirstBackoff, DelaysRange DEF Notification, Fits
      <4>. QED
        BY <3>2, <4>1
    <3>. QED
      BY <1>7, <2>2, <2>3, <2>4, <3>1, <3>2, <3>3, <3>4
  <2>6. CASE m # n
    <3>1. items'[n] = items[n] /\ rested'[n] = rested[n]
      BY <1>0, <2>3, <2>6 DEF TypeInv, TypeOK
    <3>2. Uses(h, n) => n \in rest
      BY <1>0, <2>1, <2>2, <2>6 DEF Uses, TypeInv, RequestsOK
    <3>3. n \in rest => \A g \in Handlers : g # h => ~Uses(g, n)
      BY <2>1 DEF Uses
    <3>4. n \in rest => items[n].state = "failed" /\ delivered[n] = 0
      BY <2>1, <2>2
    <3>. QED
      BY <1>1, <2>2, <2>3, <2>4, <3>1, <3>2, <3>3, <3>4
  <2>. QED
    BY <2>5, <2>6
<1>10. CASE Tick
  <2>1. /\ items'[n].state = items[n].state /\ items'[n].attempt = items[n].attempt
        /\ items[n].wait = 0 => items'[n].wait = 0
        /\ items[n].wait > 0 => items'[n].wait = items[n].wait - 1
        /\ rested[n] < MaxRest => rested'[n] = rested[n] + 1
        /\ ~(rested[n] < MaxRest) => rested'[n] = rested[n]
        /\ UNCHANGED <<delivered, req>>
        /\ items[n].wait \in 0 .. MaxRest /\ rested[n] \in 0 .. MaxRest
    BY <1>0, <1>10 DEF Tick, TypeInv, TypeOK, Notification
  <2>2. Rested(n)'
    <3> SUFFICES ASSUME items[n].state = "retrying", Fits(items[n].attempt)
                 PROVE  items'[n].wait + rested'[n] >= BackoffAfter(items[n].attempt)
      BY <2>1
    <3>1. /\ BackoffAfter(items[n].attempt) \in Nat
          /\ BackoffAfter(items[n].attempt) =< MaxRest
          /\ items[n].wait + rested[n] >= BackoffAfter(items[n].attempt)
      BY FittingBackoff
    <3>. QED
      BY <2>1, <3>1, BoundsOK
  <2>. QED
    BY <2>1, <2>2 DEF Uses
<1>11. CASE UNCHANGED vars
  BY <1>11 DEF vars, Uses
<1>. QED
  BY <1>2, <1>4, <1>5, <1>6, <1>8, <1>9, <1>10, <1>11 DEF Next, Continue

-----------------------------------------------------------------------------
NotifyInv == TypeInv /\ VerdictInv /\ OrderlyInv

LEMMA NotifyInvariant == Spec => []NotifyInv
<1>1. Init => OrderlyInv
  <2> SUFFICES ASSUME Init, NEW n \in Orderly PROVE MessageInv(n)
    BY DEF OrderlyInv
  <2>. QED
    BY OrderlyOK, NothingOK
    DEF Init, NoNotification, Idle, MessageInv, OnOneList, ListStillTrue, Settled, Rested,
        OnList, Uses
<1>2. NotifyInv /\ [Next]_vars => NotifyInv'
  BY NextTypeInv, NextVerdictInv, NextMessageInv DEF NotifyInv, OrderlyInv, VerdictInv
<1>. QED
  BY <1>1, <1>2, InitVerdictInv, PTL DEF Spec, NotifyInv

(***************************************************************************)
(* A message on one list at a time is delivered at most once, and sent     *)
(* exactly when it has been, whatever happens to the other messages        *)
(* (notify/service.go, PushBatch and RetryFailed).                         *)
(***************************************************************************)
THEOREM DeliveredOnceKept == Spec => []DeliveredOnce
<1>1. NotifyInv => DeliveredOnce
  BY DEF NotifyInv, OrderlyInv, MessageInv, Settled, DeliveredOnce
<1>. QED
  BY <1>1, NotifyInvariant, PTL

(***************************************************************************)
(* Such a message is never sent before its backoff is over, whenever its   *)
(* batch was listed, if its backoff is a Duration (notify/service.go,      *)
(* backoff; store.go, Due).                                                *)
(***************************************************************************)
THEOREM BackoffKept == Spec => BackoffRespected
<1>1. NotifyInv /\ [Next]_vars =>
        \A h \in Handlers, n \in Orderly : Fits(items[n].attempt) => WaitedOut(h, n)
  <2> SUFFICES ASSUME NotifyInv, [Next]_vars, NEW h \in Handlers, NEW n \in Orderly,
                      Fits(items[n].attempt), BeginsSending(h, n), items[n].state = "retrying"
               PROVE  rested[n] >= BackoffAfter(items[n].attempt)
    BY DEF WaitedOut
  <2>1. TypeInv /\ MessageInv(n) /\ n \in Messages
    BY OrderlyOK DEF NotifyInv, OrderlyInv
  <2>2. n \in req[h].todo
    <3>1. ASSUME NEW g \in Handlers, NEW r, Become(g, r), r.step # "update"
          PROVE  FALSE
      BY <2>1, <3>1 DEF Become, BeginsSending, TypeInv, TypeOK
    <3>2. ASSUME NEW g \in Handlers, PushRead(g) \/ PushUpdate(g) \/ RetryRead(g)
          PROVE  FALSE
      BY <3>1, <3>2 DEF PushRead, PushUpdate, RetryRead, Looping, Idle
    <3>3. ASSUME NEW g \in Handlers, NEW m \in Messages, RetryUpdate(g, m)
          PROVE  FALSE
      BY <3>1, <3>3 DEF RetryUpdate, Looping, Idle
    <3>4. ASSUME NEW g \in Handlers, NEW m \in Messages, NEW ok \in BOOLEAN, Send(g, m, ok)
          PROVE  n \in req[h].todo
      <4>1. /\ \A f \in Handlers : f # g => req'[f] = req[f]
            /\ req'[g] = Sending(req[g], m, ok) /\ m \in req[g].todo
        BY <2>1, <3>4, SendUses
      <4>. QED
        BY <4>1 DEF BeginsSending, Sending
    <3>5. CASE req' = req
      BY <3>5 DEF BeginsSending
    <3>. QED
      BY <3>2, <3>3, <3>4, <3>5 DEF Next, Continue, Enqueue, Tick, vars
  <2>3. items[n].wait = 0 /\ items[n].wait + rested[n] >= BackoffAfter(items[n].attempt)
    BY <2>1, <2>2 DEF MessageInv, ListStillTrue, Rested, BeginsSending
  <2>. QED
    BY <2>1, <2>3 DEF TypeInv, TypeOK
<1>. QED
  BY <1>1, NotifyInvariant, PTL DEF Spec, BackoffRespected
=============================================================================
