# Gas pipeline operations control service: TLA+ models and proofs

The repository is a single Go process (`cmd/server`) that keeps everything in
memory and serves a JSON API over HTTP. This directory holds TLA+ modules of its
services, the TLC configurations that check them on small instances, and proofs,
checked by TLAPS, of what holds for every instance.

## 1. The system

`net/http` serves each request in a goroutine of its own. Nothing runs in the
background: scans (`ExpireScan`), pushes (`PushBatch`) and retries
(`RetryFailed`) happen when a client posts the request that asks for them, and
nothing survives a restart.

Every service is written the same way. A method reads a *copy* of a record from
its store (`Get`, under a read lock), validates the copy against the transition
table (`MustTransition`), possibly calls other services, and then writes the
record with `Update` (under the write lock), which does not look at the state
again. Only the store calls are atomic. Everything that makes this code hard
to test follows from that: whatever happens to the record between the read and
the write is overwritten.

| Component | State | Operations | Calls |
|---|---|---|---|
| `contract` | contracts: state, daily and used volume, validity | Create (inserts or replaces), Reserve, Release, SetState, ExpireDue | |
| `nomination` | nominations: state, volume, reserved mark | Create, Submit, Confirm, Execute, Cancel | contract: Get, Reserve, Release |
| `network` | segments, stations, compressors, valves, points; device state machines; the segment and station indexes | UpsertX, ChangeCompressorState, ChangeValveState, TogglePoint, ListSegmentDevices | audit: Record |
| `dispatch` | orders: type, target, segment, state | Create, Issue, Execute, Revoke | network: reads, ChangeValveState, ChangeCompressorState |
| `incident` | incidents: state, actions, alarm ids | Report, Confirm, AddAction, CompleteAction, Close | scada: ResolveAlarm |
| `permit` | work permits: state, segment, window | Apply, Approve, Start, Complete, Cancel, ExpireScan | dispatch: PendingOrdersForSegment; incident: OpenIncidentsForSegment |
| `scada` | points, rings of readings, alarms, the index of active alarms, rules | RegisterPoint, AddRule, Ingest, AckAlarm, ResolveAlarm | sink: notify |
| `leakdetect` | none (thresholds) | AnalyzeSegment | its handler copies two histories of scada; sink: notify |
| `metering` | readings, corrected daily totals, settlements | RecordReading, SettleDaily, Confirm, Reconcile | |
| `notify` | messages: state, attempts, next retry | Enqueue, OnAlarm, PushBatch, RetryFailed | a simulated sender |
| `audit` | bounded event log | Record, Query | called by every service after its change |
| `platform` | clock, id generator, validation, errors, a generic state machine | | |
| `httpapi`, `config`, `seed`, `web`, `cmd/server` | routing, configuration, demo data, static page, wiring | | all |

### Where it is hard

* **Check-then-act.** `Reserve` decides on a copy and debits later; `Approve`
  asks three stores and approves later; `Close` tests the actions and closes
  later; every transition table is consulted on a copy. A test that runs one
  request at a time never sees the window.
* **Two stores, one operation.** `Submit` debits a contract and then marks the
  nomination, `Cancel` credits and then marks, `Execute` drives a device and
  then marks the order, `Ingest` stores a reading and then an alarm,
  `RecordReading` adds to a total and then retains the reading, `Close` closes
  an incident and then resolves its alarms.
* **Snapshots.** `ExpireScan`, `SettleDaily`, `PushBatch` and `RetryFailed` list
  records under one lock and act on them one by one later. (So does `ExpireDue`,
  which only tests call.)
  `ListSegmentDevices` and the leak analysis put an answer together from copies
  taken under several locks.
* **Two logs of one event.** A change takes effect under one lock, is stamped
  under none and recorded under another: what `audit` tells need not be what
  happened.
* **Bounded stores.** Rings of readings wrap around, the audit log drops its
  oldest tenth, metering retains a number of readings per meter.
* **Derived state.** The index of current alarms, the segment and station
  indexes, the segment an order is filed under, the retained readings.

There are no crashes to recover from (nothing is persisted), no messages that
could be lost, and no timeouts: a handler's context is not looked at by any
service, so a request that has begun runs to its end.

What makes each component correct, in a sentence:

| Component | It is correct when |
|---|---|
| contract, nomination | the reserved volume of a contract is what its nominations hold, within its daily volume, however requests overlap |
| dispatch, network | a device is driven once by an executed order and never otherwise, along its table; every device is found on its segment |
| scada | at most one alarm of a point is active, a quiet point has none, a breached one has one, each is notified |
| incident | a closed incident has all its actions done and its alarms resolved |
| permit | no two works at once on a segment; standing conflicts are noticed; only lapsed permits expire |
| metering | totals only count what was measured, settlements do not overstate them, retained readings give the same total |
| notify | a message is delivered once, waits out its backoff, is given up after the last attempt only, and is sent or given up in the end |
| leakdetect | an alert stands on readings that fell that fast, and its evidence names the window they span |
| audit | exactly the newest entries are kept; the trail of an object is in order and ends with its state |

## 2. How the code is modelled

All service modules have the same shape. `Handlers` is the set of goroutines;
`req[h]` is the local state of the request that `h` serves: the step it is
about to take, the objects it is about and what it has read. **One action is the
stretch of a request up to its next store call**, so that every interleaving of
store calls is a behaviour, and nothing else is. A method of the form
"Get, check, Update" is a `...Read` action, with the guard the code has, and a
`...Write` action, with no guard but the step (the code does not look again). A
request that is refused changes nothing and is left out, except where a request
that has already begun returns early.

Stores are functions from ids to records; an id that has not been handed out has
state `"none"`. Fresh ids (`platform.NewXxxID`) are thus any unused id.

**Client disciplines.** Some properties hold for whatever clients send. Others
hold only if certain requests do not overlap, which the code leaves to its
clients. Each module has a constant that says for which objects the clients
keep the discipline: `OnePerNomination`, `OnePerPoint`, `OnePerObject`
(everything or nothing), or `Steady`, `Orderly`, `Settled`, `Attended`, `Alone`
(a set of objects;
other objects of the same run are treated without discipline). A property that
needs the discipline says so by quantifying over those objects or by being
checked in a run that sets the flag; the comment above it says why.

| Module | Models | State |
|---|---|---|
| `Contract` | contract records and their store operations | `contracts`, `now` |
| `NominationStore` | nomination records | `noms` |
| `Nomination` | contract and nomination services on top of both | + `req` |
| `NominationAccounts` | the books: which nominations a contract's volume is reserved for | |
| `AtomicNomination` | the promise: each operation at once | |
| `NominationRefinement` | the mapping from `Nomination` to `AtomicNomination` | |
| `History` | what the reading store promises: the last readings of a point, oldest first | `hist` |
| `Ring` | the ring buffers that keep the promise, refinement mapping included | `rings` |
| `Telemetry` | points, rules and the evaluation of a reading, on `History` | `points`, `rules`, `hist`, `serving` |
| `AlarmStore` | alarms and the index of current alarms | `alarms`, `active` |
| `Alarm` | the scada service: ingestion, acknowledgement, resolution, sink | + `notified`, `req` |
| `OrderStore`, `DeviceStates` | orders; valve and compressor state machines | `orders`; `devices` |
| `Dispatch` | dispatch service and device changes of the network service | + `driven` (history), `req` |
| `AtomicDispatch`, `DispatchRefinement` | the promise, and the mapping | |
| `IncidentStore`, `Incident` | incidents; the service with the alarms of `AlarmStore` it resolves | `incidents`, + `req` |
| `Permit` | the permit service next to `OrderStore` and `IncidentStore` | `permits`, `now`, `req`, `standing` (history: what has been open since Approve began) |
| `Metering` | totals, retained readings, settlements | `meters`, `daily`, `readings`, `settlements`, `req` |
| `Notify` | the queue, batches, backoff, retry | `items` (with the time left to wait), `delivered` and `rested` (history), `req` |
| `Leak` | an analysis: two copies of rings, slope, imbalance, window, alert | `rings`, `ingested`, `reported`, `req` |
| `Audit` | the bounded log | `log`, `appended` (history) |
| `AuditTrail` | changes of devices and points by the network service, and the entries `Record` makes of them | `devices`, `enabled`, + `log`, `now`, `calls` |
| `Topology` | segments, stations, devices with the indexes; the orders filed by segment; the listing of a segment | `placed`, `segmentDevices`, ..., `filing` (the orders being created), `answer` |
| `MC...` | instances for TLC | |
| `...Proofs` | theorems (section 5) | |

Composition is by store: `Incident` runs on the alarms of `AlarmStore`, `Permit`
on `OrderStore` and `IncidentStore`, `Topology` on `OrderStore`, `Nomination` on
`Contract` and `NominationStore`, `Leak` on `Ring`, `AuditTrail` on
`DeviceStates` and `Audit`. `Telemetry` works with `History`, which `Ring` is
shown to implement. What a neighbour does to a shared store is in
the composing module as the neighbour's store operations (`OrderMoved`,
`Ingested`, ...), taken one at a time. Its requests are left out, and with them
the order of their writes: next to `Permit`, an order or incident takes any state
that some overlap of the requests about it can write (`MayWriteOrder`,
`MayWriteIncident`). As the code tests its tables on copies and writes later, that
includes a late `Issue` that opens a revoked or executed order again and a late
`Confirm` that opens a closed incident; only the first write starts from pending.

Definitions marked `\* Mutation:` are plausible bugs (a dropped guard, an
off-by-one, a missing reset). No behaviour uses them; each shows that some
property would notice.

### Abstractions

* `float64` volumes, pressures and factors are integers; NaN and infinities are
  rejected by the code before anything changes.
* `Release` cannot fail in `Cancel` (contracts are never removed, volumes are
  positive), so its error path is left out.
* Points and rules do not change while the server runs (the seed registers them
  before `ListenAndServe`); the segment of a device is fixed in `Dispatch` and
  moves in `Topology`.
* A batch of readings (`IngestBatch`) is a sequence of `Ingest` requests. Loops
  over lists go in any order.
* A look-up that cannot become false before the `Put` that depends on it
  (nothing is ever removed) is part of the step of the `Put`.
* `ExpireDue` is not called by the server; it is modelled as a request.
* What `simulateSend` returns is any Boolean. A message keeps the time left to
  its next attempt instead of the moment of it, so the clock needs no bound.
  `MaxDelay` is the largest `Duration`. A backoff beyond it becomes what the
  conversion of a float64 gives, which Go leaves to the processor: the least
  `Duration` (no time is left to wait) or the largest.
* `Close` tests the actions in the step that reads the incident. In the code the
  copy that `Get` returns (`incident/store.go:42`) shares its actions with the
  record, and `CompleteAction` sets `Done` in place (`incident/service.go:144`):
  the test, which runs without the lock, races with it and may already see what
  is completed after the read. As actions are never undone, that is the model's
  read after the completion; `AddAction` is not seen, as a slice keeps its length.
* Rates and deviations of a leak analysis, which the code computes as quotients,
  are compared by multiplying out; times are minutes.
* An audit entry is its object, what it says was done, and its time; its id is
  its number. Actors, details, messages, priorities, names and wording are left
  out. Outside `AuditTrail` the calls of `Record`, on which nothing depends, are
  left out.

## 3. What is checked

`tlc -config X.cfg MCY.tla` for each run; symmetry is used only where no
liveness property is checked. Deadlock is not checked: clients may stop sending,
and bounded sets of ids run out.

| Run | Instance | Shows |
|---|---|---|
| `nomination_clients` | 2 contracts that hold one or two nominations and may lapse, 3 nominations of volume 1 or 2, 2 requests, one request per nomination at a time and, of one of the contracts, one change of state at a time | live nominations hold capacity and only they; the reserved volume is exactly the sum of what is held (`CapacityConserved`); a contract is overbooked by no more than the requests in flight but one explain; both life cycles; an ended contract takes nothing new on |
| `nomination_serial` | 1 request, 3 nominations, ids reused | the services implement `AtomicNomination` |
| `overbook` (violation) | 2 requests | see section 4 |
| `alarms` | 2 points, one with two rules, of which operators attend the other; 2 alarms, 2 requests; readings of a point one at a time; fairness | an active alarm is the indexed one of its point; a resolved alarm stays in the index only while the request that resolved it is about to clear it; quiet points have no active alarm, breached ones have one, each alarm reaches the sink |
| `dispatch_clients` | a valve, a compressor, 2 orders, 2 requests apart | driven exactly once; devices follow their tables; implements `AtomicDispatch` |
| `incidents` | 2 incidents sharing 2 alarms of a point, 2 actions, 2 requests | closed incidents have something done, everything done, and all alarms resolved although other closings, readings and acknowledgements interfere |
| `permits` | 3 permits (one undisciplined), two touching windows and an empty one, an order, an incident, either opened again by late writes, clock to 2 | no overlapping permits although approvals race; a conflict that is open from the beginning of Approve to its last check is noticed by one of them; only lapsed permits expire |
| `metering` | 2 meters, 1 day, 4 readings each, retention of 3, two bands | settlements never overstate the totals; the standard volume stays between the least and greatest factor; a full retention rebuilds the total |
| `notify` | 2 messages (one undisciplined), 4 attempts, of which the third backoff is no `Duration`, 2 requests; fairness | a verdict is earned; a message is delivered once; backoffs that are a `Duration` are waited for; every message is sent or given up if pushes keep coming |
| `topology` | 2 segments, 2 routes, 3 station ids of which clients create one, valve, compressor, point, 1 order, 1 creation and 1 listing in flight | the indexes are complete; a listing misses nothing that stayed and has nothing but what is there of what never moves; open orders are found by segment |
| `leak` | 3 points, the readings of two in order and of the third in any order, rings of 3, 4 readings, 1 analysis of any two | the rings implement `History`; an alert for a drop has two readings between which the pressure fell that fast, and if it fell that fast between every two of different times there is one; the window, merged from those of the two points, covers the samples of both |
| `audit` | a valve (one request at a time) and a point (any), 2 requests, retention 4 of which 2 are dropped, 5 entries | the newest entries and only they are kept; the trail of the valve is in order and ends with its state |

**Bounds.** Two requests are enough for every hazard listed in PROJECT.json:
each is a pair of requests of which one acts between the read and the write of
the other; how far a contract is overbooked depends on their number, and there a
theorem covers any number. Ids suffice for one object of each kind in a
terminal state while another is live (three nominations where sums are compared,
two alarms for one superseded, four readings against a retention of three so
that one is dropped, four against rings of three so that the write index wraps
and the start does not lie at 0, four attempts so that the backoff doubles
once and then overflows, five entries against a retention of four). `Share` is 2 instead of the
code's 10, so that a full log loses more than one entry. Clocks run past every
bound they are compared with. In `topology` an end of a segment need not be a
station (the code does not look), so one created station is enough; both routes
share a station, so a segment is also upserted where it is. `MaxDrives`,
`MaxSends`, `MaxReadings`, `MaxEntries`, `MaxTime`, `MaxRest` bound counters in
guards and are high enough for the count after the last legal one.

The type invariants are proved (section 5) and no longer run.

**Fairness.** `FairSpec` of `Alarm` is weak fairness of the continuation of each
request: a goroutine of `net/http` that has begun runs its handler to the end;
the services neither block (every lock is released before the next call) nor
look at the request's context. `FairSpec` of `Notify` adds that time passes.
Nothing makes a client send a request, so no specification assumes it; that a
message is settled only if somebody keeps posting pushes is the premise
`PushesKeepComing` of the property `EveryMessageSettled`.

## 4. Where the code differs from its docs

*Found by a run.* `contract/service.go:113` says "The reservation is atomic per
contract", `contract/store.go:80` that concurrent nominations cannot oversell,
and a test asserts it. `Reserve` reads a copy, compares and debits in a later,
unconditional update: run `overbook` shows two nominations of 1 reserved on a
contract of 1. `OverbookExact` (proved) says how bad it can get: at most one
nomination for each request in flight but one.

*Met while modelling,* and the reason why some properties carry a discipline:

* Every transition table is consulted on a copy; two requests about one object
  that overlap can take it out of a terminal state (contract, nomination, order,
  permit, incident, alarm, settlement). An expired contract can be made active
  again by a late `SetState` (`contract/service.go:171`), a revoked order issued
  by an `Issue` that read it before (`dispatch/service.go:130`), and a resolved
  alarm acknowledged (`scada/service.go:312`), although `scada/state.go:3` says
  "active -> acknowledged -> resolved".
* An action added between the test and the update of `Close`
  (`incident/service.go:174`) stays open in a closed incident, although
  `incident/service.go:4` says "Closing requires all action items complete".
* The delay of `backoff` (`notify/service.go:170`) overflows a `Duration` for
  large attempts: at the default of 30 s from the 30th, and only the configuration
  limits them. Such a delay is not the base * 2^(n-1) of `notify/service.go:163`
  and, where the conversion gives the least `Duration`, is not waited for.
* `scada/store.go:145` (and `:48`) says that `History` is time-ordered; it is in
  the order of arrival. The window of a leak's evidence is taken from its first
  and last reading and may then leave readings out, which is why
  `WindowCoversSamples` is about points whose readings arrive in order. The slope
  does not mind (`DropsAreReal`).
* `ResolveAlarm` of an old alarm also resolves the current alarm of its point
  (`scada/service.go:333`), which may still be out of limits.
* The size of the alarm index is reported as the number of active alarms and
  includes acknowledged ones (`scada/store.go:231`).
* One enabled rule for a point switches the point's own limits off
  (`scada/service.go:188`).
* Issuing an order checks less than executing it: an order to start a faulted
  compressor is issued and refused later (`dispatch/service.go:141`).
* A revocation that overlaps an execution records a driven order as revoked.
* An approval does not see an order or incident created, or opened again by a
  late `Issue` or `Confirm`, after its check, and
  dispatch never asks for permits, although `permit/store.go:88` says that
  `OpenForSegmentAnyWindow` is for that. `Start` does not look at the window.
  `PermitWindowMaxHours` (config) is not enforced by `Apply`.
* `SettleDaily` replaces a "final" settlement (`metering/service.go:258`) by a
  draft. Two overlapping readings of a meter may be retained in the order
  opposite to the one they were summed in.
* `AppendReading` says that a reading of an unknown point is dropped
  (`scada/store.go:129`); it makes a ring for it.
* `LeakDetectWindowMinutes` is "the rolling window used to aggregate readings"
  (`config/config.go:54`); nothing reads it after `NewService`: an analysis is of
  whatever the rings hold.
* Audit entries are "never edited or deleted" (`audit/model.go:4`) until the
  retention drops them. The entries of two overlapping requests about one object
  can be in the order opposite to their effects.
* Overlapping batches deliver a message twice, and one whose delivery fails sets
  back to retrying what the other has sent, although `notify/state.go:3` calls sent
  terminal. `notify.Transitions` is never consulted.
* An upsert that moves a device leaves it in the old segment's list, where
  `ListSegmentDevices` goes on showing it, and its orders on the old segment
  (`network/store.go:158`, `dispatch/service.go:82`).

## 5. What is proved

Checked by TLAPS for every value of the constants, so for any number of objects
and of concurrent requests. `TypeInv` in each proof module is the type invariant
with what it needs to be inductive: how the local state of a request relates to
the store (its objects exist, its ids match its step). The layout is the same
everywhere: lemmas about each store operation, one step per action, a PTL step
at the end.

| Module | Theorem | Needs |
|---|---|---|
| `NominationProofs` | `Typing`, `MarkCorrect` (every interleaving) | `TypeInv` |
| | `LiveHolds`, `LifecycleKept` (one request per nomination) | `ClientInv`: a request is alone with its nomination (`Exclusive`), so its copy is still true (`CopyStillTrue`) |
| | `OverbookExact` (every interleaving, ids not reused) | `used` plus the volumes that may still be debited: a request passes the check only while `used` and its own volume are within `daily`, so only the other requests can overshoot; a debit moves volume from one part of the sum to the other |
| | `BooksBalance` (one request per nomination, ids not reused) | `BooksInv`: a contract's `used` is the sum over `Charged`, and every debit, mark, credit and unmark moves one nomination in or out of that set or leaves it, exactly when it moves the volume |
| | `OverMeansOver` (every interleaving) | what is reserved plus what may still be debited: a debit takes its request out of `Debiting`, and no request joins it while the contract is not active |
| | `ContractLifecycleKept` (the contracts with one change of state at a time, ids not reused) | the state a request checked is still the contract's when it writes: only changes of state write it, and no two are about one contract |
| | `SerialImplementsAtomic`, `SerialKeepsCapacity` (one request at a time) | `SerialInv`; the mapping counts a pending debit as made |
| `AlarmProofs` | `Typing`, `OneActivePerPoint`, `IndexCurrent` (every interleaving) | `TypeInv`; every action is one of five effects on alarms and index (`Effects`), and each effect keeps the index |
| | `NormalIsQuiet`, `BreachedAlarms` (readings of a point one at a time, rings of two or more) | `ReadingInv`: where a request is between the store of its reading and the end of its evaluation, and what is left to do until the alarms of its point agree with the last reading |
| `DispatchProofs` | `Typing`, `ExecutedDrove` (every interleaving) | `TypeInv` |
| | `DrivenOnce`, `OrdersFollowTable`, `DevicesFollowTable`, `DispatchImplementsAtomic` (requests apart) | `SerialInv`: requests have different orders and devices (`Apart`), find them as they left them (`StepOK`), and the count of drives agrees with the order (`CountOK`) |
| `PermitProofs` | `Typing`, `ExpiresLapsed`, `ConflictsNoticed` (every interleaving) | `TypeInv`: what a scan has listed has lapsed; `StandingInv`: what has been open without a break since Approve began is open now and on the segment, so a check that finds nothing open leaves nothing of its kind standing, and nothing joins what stands; no transition table is needed |
| | `OverlapFree` (one request per permit) | `OverlapInv`: a permit is `Cleared` from the moment it passes the check of the windows, no two cleared ones clash, and the one being approved is still an application |
| | `IndexesComplete`, `AnswersAreExact`, `OpenOrdersTold` (of `Topology`, every interleaving) | `NetworkInv`: the Puts only add to the indexes and put a thing on the list of the segment they store; an answer half put together has what it read of the lists read so far; a settled device is where it was first put, and the orders being filed know it |
| `IncidentProofs` | `Typing`, `ClosedHasDone` (every interleaving) | `TypeInv` |
| | `ClosedComplete`, `ClosedResolves` (one request per incident and alarm) | `Alone`; `CompleteInv`: what Close tested is still true at its Update; `ResolveInv`: an alarm of a closed incident is resolved or still on the list of its Close, and nobody is acknowledging it |
| `MeteringProofs` | `Typing`, `SettledCovered`, `StdBounded` (every interleaving) | `TypeInv`: totals only grow, so a settlement drawn from them and not yet put stays covered |
| | `RebuildPossible` (readings of a meter one at a time) | `RebuildInv`: a day's retained readings, summed, lag behind its total by the one reading that is not yet retained; dropping the oldest makes the counts differ for good |
| `NotifyProofs` | `NotifyTyping`, `VerdictsKept` (every interleaving) | a success not yet written has been delivered, and listed counters stay below the limit |
| | `DeliveredOnceKept`, `BackoffKept` (messages on one list at a time) | what a batch has listed is still as listed when it is sent; the time rested and the time left to wait add up to at least the backoff, if it is a `Duration` |
| `BoundedStoresProofs` | `RingsAreHistories` | arithmetic of `head`, `n` modulo the capacity: a push appends to the snapshot, and drops its head when full |
| | `WindowHoldsSamples` | `WindowInv`: a ring of an orderly point and every copy of it are in the order of time stamps |
| | `DropsJudgedRight` | Chebyshev's sum inequality: if c * values + d * minutes never falls from a reading to a later one, c * numerator + d * denominator of the slope is not negative, and positive if it rises between two; taken with the weights (1, DropMax), (-1, -DropMax) and (0, 1) |
| | `AuditKeepsNewest` | ids are consecutive; a full log loses `Dropped` of them and gains one |
| | `AuditInOrder`, `AuditMatchesState` (one request per thing) | a request is alone with its thing, so its entry is newer than those in the log and tells the state it left |

The assumptions are the named `ASSUME`s of the modules: the sets of ids do not
contain the null value, bounds are natural numbers, `Handlers` is finite where
requests are counted. TLC evaluates them in the runs.

**Sums.** Some of these theorems are about sums of any number of terms. The
library's induction theorems take an operator as a parameter, which the
installed provers cannot instantiate; the proofs use its set form instead
(`NatSetInduction`, and `WFMin` for finite sets): a set of numbers that has 0
and n + 1 with every n has all of them. From that come the lemmas
on `SumFunctionOnSet` in `NominationProofs` (a term added, removed, changed) and
on the prefix sums of recursive functions in `MeteringProofs` and
`BoundedStoresProofs`. `Rebuilt` and `Total` are recursive functions for that
reason: `Total(f, n)` is the value at n of the function that adds up f.

**Hypotheses.** `OnePerNomination`, `OnePerPoint`, `~ReuseContractIds` and the
like stand in the theorems that need them; the runs show that states satisfy
them. `BufCap > 1` in `AlarmProofs`: a ring of one reading has no rate of change
(the code's default is 200, `config/config.go:71`).

**Only model-checked:** `EveryAlarmNotified` and `EveryMessageSettled`, as
liveness under fairness is out of the prover's reach. Every other property of
the passing runs is a theorem.

**Only proved:** the type invariants, `MarkCorrect`, `SerialKeepsCapacity`,
`OrdersFollowTable`, and `ExecutedDrove`, which is about requests that overlap at will while the run of `Dispatch` keeps them apart.

## 6. Not modelled

* `httpapi` but for the leak handler, `config`, `web`: each handler makes one
  service call (the summary, several that only read); what they add to the
  behaviour, that calls overlap, is in every module.
* `platform`: validation, errors and JSON have no state.
* From `scada`: queries, and the unlocked read in `Stats` (`scada/store.go:265`),
  on which no state depends. Points and rules are registered by the seed only.
* From `network`: `DeleteSegment`, which nothing calls; capacities and pressures.
* From `notify` and `leakdetect`: texts. An alert is the severity enqueued.
* `float64` rounding.

## 7. Plan

Done first: the capacity bookkeeping (the most intricate promise of the code),
then alarms, then orders that drive devices, then the services that only keep
records; then the bounded stores (rings, audit log) with leak analysis and the
audit trail on top, listings in the topology, liveness of the queue, and the
ends of contracts.

Next, in this order:

1. Composition: `Alarm` with `Notify` (an alarm raised is eventually delivered
   or given up); `Dispatch` with `Topology` (a device moved between issue and
   execution) and with `Permit` (an order issued during permitted work).
2. Abstract specifications: an alarm board (per point: quiet, alarming,
   acknowledged) that `Alarm` implements while readings of a point do not
   overlap; an atomic permit office that `Permit` implements.
3. Theorems: that `Alarm` and `Permit` implement the specifications of 2. The
   mapping of an alarm board is `ActiveIsIndexed` and `ReadingInv`, that of a
   permit office `Cleared`, all of them proved invariants.
