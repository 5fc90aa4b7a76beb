------------------------------- MODULE Notify -------------------------------
(***************************************************************************)
(* internal/notify under concurrent requests: the queue, batch delivery    *)
(* with exponential backoff, and the operator's retry of failed messages.  *)
(* Both PushBatch and RetryFailed list messages under the store's lock and *)
(* then update them one by one from the list, without looking again.  One  *)
(* action is the stretch of a request up to its next store call.           *)
(*                                                                         *)
(* Time is relative: instead of NextRetryAt, a message keeps the ticks     *)
(* that are left until then (0 also for the zero time of a new message).   *)
(***************************************************************************)
EXTENDS Integers

CONSTANTS
  Messages,     \* the ids NewNotificationID will hand out
  MaxAttempts,  \* Config.MaxAttempts
  Backoff,      \* Config.Backoff, in ticks
  MaxDelay,     \* the largest time.Duration, in ticks
  MaxRest,      \* the history rested counts up to this many ticks
  MaxSends,     \* the history delivered counts up to this many deliveries
  Nothing,      \* "no message"
  Handlers,     \* goroutines of the HTTP server: the requests in flight
  Orderly       \* messages that are on one list at a time (the code does not
                \* see to it)

VARIABLES
  items,        \* items[n]: the stored message; state "none" before Enqueue
  delivered,    \* delivered[n]: history, how often n has been delivered
  rested,       \* rested[n]: history, ticks since n was last given a backoff
  req           \* req[h]: where request h is, and its local variables

vars == <<items, delivered, rested, req>>

-----------------------------------------------------------------------------
NotifyState == {"queued", "sent", "retrying", "failed"}

ASSUME ConfigOK == MaxAttempts \in Nat \ {0} /\ Backoff \in Nat \ {0}
ASSUME BoundsOK == MaxDelay \in Nat /\ MaxRest \in Nat /\ MaxDelay =< MaxRest /\ MaxSends \in Nat \ {0}
ASSUME NothingOK == Nothing \notin Messages
ASSUME OrderlyOK == Orderly \subseteq Messages

(* base * 2^(n-1), a float64. *)
BackoffAfter(attempt) == Backoff * 2 ^ (IF attempt < 1 THEN 0 ELSE attempt - 1)

(***************************************************************************)
(* What is left of it as a time.Duration, 64 bits of nanoseconds.  Go does *)
(* not define the conversion of a float64 that is too large: it gives the  *)
(* least Duration on one processor (amd64), so that NextRetryAt is in the  *)
(* past, and the largest on another (arm64).  With the default of 30 s it  *)
(* takes 30 attempts, and nothing but the configuration limits them.       *)
(***************************************************************************)
Fits(attempt) == BackoffAfter(attempt) \in 0 .. MaxDelay
Delays(attempt) == IF Fits(attempt) THEN {BackoffAfter(attempt)} ELSE {0, MaxDelay}

Notification == [state : NotifyState \cup {"none"}, attempt : Nat, wait : 0 .. MaxRest]
NoNotification == [state |-> "none", attempt |-> 0, wait |-> 0]

Pending(n) == items[n].state \in {"queued", "retrying"}

DueAnyTime(n) == Pending(n)  \* Mutation: NextRetryAt is not looked at

DueOnce(n) == items[n].state = "queued"  \* Mutation: only new messages are listed

Due(n) == Pending(n) /\ items[n].wait = 0

-----------------------------------------------------------------------------
(***************************************************************************)
(* A request's next step:                                                  *)
(*   "push"    PushBatch, before it sends the next of todo                 *)
(*   "update"  PushBatch, before it updates the message it just sent       *)
(*   "reset"   RetryFailed, before it updates the next of todo             *)
(* ok is what simulateSend returned, attempts the listed copies' counters. *)
(***************************************************************************)
Step == {"idle", "push", "update", "reset"}

Request ==
  [step : Step, todo : SUBSET Messages, attempts : [Messages -> Nat],
   message : Messages \cup {Nothing}, ok : BOOLEAN]

Nowhere == [n \in Messages |-> 0]
Counters(ns) == [n \in Messages |-> IF n \in ns THEN items[n].attempt ELSE 0]

Idle == [step |-> "idle", todo |-> {}, attempts |-> Nowhere, message |-> Nothing, ok |-> FALSE]

(* The loop of a request goes on with the messages in rest. *)
Looping(s, rest, attempts) ==
  IF rest = {} THEN Idle
  ELSE [step |-> s, todo |-> rest, attempts |-> attempts, message |-> Nothing, ok |-> FALSE]

Sending(r, n, ok) ==
  [step |-> "update", todo |-> r.todo \ {n}, attempts |-> r.attempts, message |-> n, ok |-> ok]

IsIdle(h) == req[h].step = "idle"
Become(h, r) == req' = [req EXCEPT ![h] = r]

Uses(h, n) == n = req[h].message \/ n \in req[h].todo
MayList(ns) == \A n \in ns \cap Orderly, g \in Handlers : ~Uses(g, n)

Init ==
  /\ items = [n \in Messages |-> NoNotification]
  /\ delivered = [n \in Messages |-> 0]
  /\ rested = [n \in Messages |-> 0]
  /\ req = [h \in Handlers |-> Idle]

-----------------------------------------------------------------------------
(* Called by the alarm sink, the leak sink and clients. *)
Enqueue(n) ==
  /\ items[n].state = "none"
  /\ items' = [items EXCEPT ![n].state = "queued"]
  /\ UNCHANGED <<delivered, rested, req>>

PushRead(h) ==
  LET due == {n \in Messages : Due(n)} IN
  /\ IsIdle(h)
  /\ due # {}
  /\ MayList(due)
  /\ Become(h, Looping("push", due, Counters(due)))
  /\ UNCHANGED <<items, delivered, rested>>

(* simulateSend; the batch goes by CreatedAt, here in any order. *)
Send(h, n, ok) ==
  /\ req[h].step = "push"
  /\ n \in req[h].todo
  /\ delivered' = IF ok /\ delivered[n] < MaxSends
                  THEN [delivered EXCEPT ![n] = @ + 1] ELSE delivered
  /\ Become(h, Sending(req[h], n, ok))
  /\ UNCHANGED <<items, rested>>

(* What the message becomes.  A success counts on from the stored counter, *)
(* a failure from the listed one.                                          *)
Sent(n) == [items[n] EXCEPT !.state = "sent", !.attempt = @ + 1]
Retrying(attempt, k) == [state : {"retrying"}, attempt : {attempt}, wait : Delays(k)]
Failed(n, attempt) ==
  IF attempt >= MaxAttempts
  THEN {[items[n] EXCEPT !.state = "failed", !.attempt = attempt]}
  ELSE Retrying(attempt, attempt)

Outcomes(r) ==
  IF r.ok THEN {Sent(r.message)} ELSE Failed(r.message, r.attempts[r.message] + 1)

PushUpdateSentAnyway(h) ==  \* Mutation: the outcome is not looked at
  LET r == req[h] IN
  /\ r.step = "update"
  /\ items' = [items EXCEPT ![r.message] = Sent(r.message)]
  /\ Become(h, Looping("push", r.todo, r.attempts))
  /\ UNCHANGED <<delivered, rested>>

PushUpdateResend(h) ==  \* Mutation: a success is only counted
  LET r == req[h] IN
  /\ r.step = "update"
  /\ \E x \in Outcomes(r) : items' = [items EXCEPT ![r.message] =
                                IF r.ok THEN [@ EXCEPT !.attempt = @ + 1] ELSE x]
  /\ rested' = [rested EXCEPT ![r.message] = IF r.ok THEN @ ELSE 0]
  /\ Become(h, Looping("push", r.todo, r.attempts))
  /\ UNCHANGED delivered

PushUpdate(h) ==
  LET r == req[h]
      n == r.message
  IN /\ r.step = "update"
     /\ \E x \in Outcomes(r) : items' = [items EXCEPT ![n] = x]
     /\ rested' = [rested EXCEPT ![n] = IF r.ok THEN @ ELSE 0]
     /\ Become(h, Looping("push", r.todo, r.attempts))
     /\ UNCHANGED delivered

-----------------------------------------------------------------------------
RetryRead(h) ==
  LET failed == {n \in Messages : items[n].state = "failed"} IN
  /\ IsIdle(h)
  /\ failed # {}
  /\ MayList(failed)
  /\ Become(h, Looping("reset", failed, Nowhere))
  /\ UNCHANGED <<items, delivered, rested>>

RetryUpdate(h, n) ==
  /\ req[h].step = "reset"
  /\ n \in req[h].todo
  /\ \E x \in Retrying(0, 1) : items' = [items EXCEPT ![n] = x]
  /\ rested' = [rested EXCEPT ![n] = 0]
  /\ Become(h, Looping("reset", req[h].todo \ {n}, Nowhere))
  /\ UNCHANGED delivered

(* One tick of the clock. *)
Tick ==
  /\ items' = [n \in Messages |->
       IF items[n].wait > 0 THEN [items[n] EXCEPT !.wait = @ - 1] ELSE items[n]]
  /\ rested' = [n \in Messages |-> IF rested[n] < MaxRest THEN rested[n] + 1 ELSE rested[n]]
  /\ UNCHANGED <<delivered, req>>

-----------------------------------------------------------------------------
Continue(h) ==
  \/ \E n \in Messages, ok \in BOOLEAN : Send(h, n, ok)
  \/ PushUpdate(h)
  \/ \E n \in Messages : RetryUpdate(h, n)

Next ==
  \/ \E n \in Messages : Enqueue(n)
  \/ \E h \in Handlers : PushRead(h) \/ RetryRead(h) \/ Continue(h)
  \/ Tick

Spec == Init /\ [][Next]_vars

(* Time passes, and a request that has begun is run to its end.            *)
FairSpec == Spec /\ WF_vars(Tick) /\ \A h \in Handlers : WF_vars(Continue(h))

-----------------------------------------------------------------------------
TypeOK ==
  /\ items \in [Messages -> Notification]
  /\ delivered \in [Messages -> 0 .. MaxSends]
  /\ rested \in [Messages -> 0 .. MaxRest]
  /\ req \in [Handlers -> Request]

(***************************************************************************)
(* However batches and retries overlap, a message is reported as sent only *)
(* if it was, and as failed only after MaxAttempts failures.               *)
(***************************************************************************)
VerdictsEarned ==
  \A n \in Messages :
    /\ items[n].state = "sent" => delivered[n] > 0
    /\ items[n].state = "failed" => items[n].attempt = MaxAttempts

(***************************************************************************)
(* A message that is on one list at a time is delivered at most once, and  *)
(* is reported as sent when it has been.  (Two batches that overlap both   *)
(* deliver what both have listed.)                                         *)
(***************************************************************************)
OnList(n) == \E h \in Handlers : Uses(h, n)

DeliveredOnce ==
  \A n \in Orderly :
    /\ delivered[n] =< 1
    /\ ~OnList(n) => (delivered[n] = 1 <=> items[n].state = "sent")

(* When a delivery of n begins, as many ticks have passed since its last   *)
(* failure as backoff says.                                                *)
BeginsSending(h, n) == req[h].step = "push" /\ req'[h].step = "update" /\ req'[h].message = n

WaitedOut(h, n) ==
  BeginsSending(h, n) /\ items[n].state = "retrying" => rested[n] >= BackoffAfter(items[n].attempt)

(***************************************************************************)
(* A failed delivery is followed by base * 2^(k-1) ticks without another   *)
(* attempt, k being the failures so far, and an operator's retry by base,  *)
(* although a batch is listed at one time and sent at others; for as many  *)
(* failures as the delay is a Duration.                                    *)
(***************************************************************************)
BackoffRespected ==
  [][\A h \in Handlers, n \in Orderly : Fits(items[n].attempt) => WaitedOut(h, n)]_vars

(***************************************************************************)
(* If somebody keeps posting pushes, every message is in the end sent or   *)
(* given up, whatever overlaps with its batches: counters never stay       *)
(* behind for ever, although a late batch may set one back.                *)
(***************************************************************************)
PushesKeepComing == WF_vars(\E h \in Handlers : PushRead(h))

EveryMessageSettled ==
  PushesKeepComing => \A n \in Messages : Pending(n) ~> items[n].state \in {"sent", "failed"}
=============================================================================
