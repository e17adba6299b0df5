# A TLA+ model of netft-cpp

netft-cpp is a C++ client for ATI Net F/T force/torque sensors. A `netft::Client` asks the sensor
for its calibration over HTTP, opens a UDP socket, tells the sensor to stream, and hands every
good record to a callback from a worker thread, while any number of application threads start,
stop, bias, query and finally destroy it. This directory models that client, checks the model with
TLC and proves its safety with TLAPS. Paths below are relative to the repository; line numbers are those of
`src/detail/client_impl.cpp` unless a file is named. `PROJECT.json` maps every definition to the
lines it models.

## Inventory

| Part | State | Operations | Hard because |
|---|---|---|---|
| API and lifecycle (`client_impl.cpp`, `client.cpp`) | `worker_`, `joining_`, `active_worker_id_`, `stopping_`, `worker_exited_`, `generation_`, two condition variables, four mutexes | `start`, `stop`, `wait_for_first_sample`, `bias`, queries | any thread and the callback call anything at any time; notifications without the mutex; a failed `start` rolls back |
| Worker thread (`run`, `receive_session`, `handle_record`, `finish_session`) | `session_started_`, `callback_`, the session outcome | one loop of sessions | races every API call; the callback may call back |
| Fault latch (`fault_latch.cpp`) | `code_`, and what it writes into `health_` | `publish`, `reset` | written by the worker, reset by `start`, read without a lock |
| Record handling (`handle_record`) | counters of `health_`, `last_delivery_at_`, `latest_` | one record | duplicated, late, lost records; two critical sections with the callback between |
| Sequence trackers (`sequence.cpp`) | last numbers, restart candidate | `observe`, `reset`, `begin_session` | wrap-around; a sensor restart looks like a late record |
| Sessions (`receive_session`, `run`) | deadline, malformed count, delay, configuration revision | receive loop, reconnect | timeouts, storms, failures in a row |
| UDP transport (`udp_transport_*.cpp`) | socket, `shutdown_requested_` | `connect`, `send`, `receive`, `shutdown`, `close` | `shutdown` from another thread; signals; a blocking `recv` after `poll`; several meanings of "0 bytes" |
| Deferred destroyer (`client.cpp`) | queue of `Impl` | `enqueue`, destroy | object lifetime against a joining thread |
| Discovery (`discovery.cpp`) | the response buffer | one HTTP request | chunks against a limit; partial failure |
| XML configuration (`xml_config.cpp`) | stack of elements, fields seen, their text | one pass over the document | nested, repeated, empty fields |
| Types, validation, time (`types.cpp`, `time.hpp`) | none | range checks | two sets of checks that must agree |
| Codec, status | none | decoding, classification | input handling, not order of events |

How they interact: application threads call the API, which shares state with the worker under
`lifecycle_mutex_` (who owns the thread), `command_mutex_` (what the sensor is told),
`record_mutex_` (trackers, rate limit) and `data_mutex_` (health, generation). The worker calls
discovery, transport, trackers, latch and the callback; the callback may call the API again.
`PROJECT.json` lists what is hard to test, at the line where it bites ("hazards").

## Modules

| Module | What it models |
|---|---|
| `ClientCore` | the shared state, its type invariant, and the idioms of the operations: latch, notifications, StopStreaming |
| `ClientApi` | `start`, `stop`, `wait_for_first_sample`, `bias`, by any thread and from the callback |
| `ClientWorker` | the worker thread, from its creation to its end |
| `Lifecycle` | the two together; safety, fairness, liveness, and the refinement of the contract |
| `ClientContract` | what a client promises, without threads and locks |
| `Deferred` | `Lifecycle` and the end of the client: `~Client`, the deferred destroyer, `~Impl` |
| `SequenceTrackers` | the two trackers as functions |
| `Records` | `handle_record`, trackers and `bias` against a sensor and a network |
| `Transport` | `UdpTransport` on both platforms, `receive` call by call |
| `Sessions` | deadlines, storms, the reconnect delay and calibration revisions, on top of `Transport` |
| `XmlConfig` | the parser of the configuration, and what it should decide |
| `Discovery` | validation of the `Config`, `configuration_for_session`, the HTTP transfer, the parser |
| `MCLifecycle`, `MCDeferred`, `MCRecords`, `MCDiscovery` | instances for TLC: symmetry of application threads; a bound on calls for liveness; scenarios; a table of fields |
| `LifecycleProofs` | type correctness of `Lifecycle`, its inductive invariant and the safety theorems |
| `ContractProofs` | what follows from `ClientContract` alone |
| `ReportProofs` | what a client reports, that `Lifecycle` implements the contract, and so keeps its promises |
| `WakeUpProofs` | that receives and waiters are woken, and for what waiters answer |
| `DeferredProofs` | the end of the client |
| `SessionsProofs`, `RecordsProofs`, `DiscoveryProofs` | the theorems about these modules |

`ClientApi` and `ClientWorker` EXTEND `ClientCore`, `Lifecycle` both of them, and `Deferred`
EXTENDS `Lifecycle`; `Sessions` EXTENDS `Transport`; `Records` EXTENDS `SequenceTrackers`; `Discovery`
EXTENDS `XmlConfig`. `LifecycleProofs`, `ReportProofs` and `WakeUpProofs` each EXTEND the one
before, `DeferredProofs` EXTENDS `Deferred` and `ReportProofs`; `ReportProofs` instantiates
`ContractProofs` under the mapping of `Lifecycle`. `Lifecycle`, `Records`, `Sessions` and `Discovery`
stand beside each other: what one decides is a choice in the others.

**Granularity.** A step of `Lifecycle` is one critical section or one access to an atomic.
`command_mutex_` and `record_mutex_` are never held across a step. `lifecycle_mutex` and
`data_mutex` are variables: where a thread waits on a condition variable, evaluating the predicate
and blocking are two steps with the mutex held, since some notifiers do not take it. Where the
predicate only changes under the mutex (`joining_`) the two are one step. Where `stop()` or the
worker looks at `faulted()` and then writes `Stopped`, the look and the write are two steps: the
latch is not under the mutex of the snapshot. A condition variable is the set of threads asleep on
it; threads may also wake spuriously.

**Names.** `pc` gives each thread a position: `start...`, `stop...`, `wait...` in an API call,
others in the worker. A worker thread is named by the start that creates it. `captured`, `handle`
and `saved` are locals of the calls. `born`, `attempts`, `stop_owed`, `data.attempt`, and `past` in
the other modules, are history: no guard of the client reads them, except that `attempts` bounds
the number of starts. Definitions introduced by "Fault injection" are wrong variants of the
definition that follows; no specification uses them. They show that a property can fail.

**Abstractions.** In `Lifecycle` a record is a choice of what `handle_record` makes of it, and a
session fails in one of the ways in `Failures` (`Exception` is one that no `SessionOutcome`
carries). `Records` numbers records as the sensor makes them and gives the client only the two
wrapping numbers, with a small `Modulus` for 2^32 and `RestartLowMax` for 0xffff; the network may
lose, duplicate and delay any of them within `Window`, which keeps numbers that are compared less
than half the range apart, as the trackers require. A new session has a new socket, so nothing of
the old one arrives. `Transport` and `Sessions` count time in ticks and take none for anything but
waiting in `poll` and `recv`; the socket holds at most one datagram, since a second one changes
nothing that is looked at. `XmlConfig` reads tokens and text in pieces: what characters make up a
token (the quotes that `find_tag_end` skips among them) and what number digits stand for is left out. `Discovery` counts durations in a unit below
the millisecond and below the tick of the clock, in exact arithmetic; a `Config` is validated at
one of `Instants`, and `ClockMax` is the last instant a deadline may have. Of the response callback
it takes `size * count` as a count of bytes, libcurl's `size` being 1. Messages, rates
(`receive_rate_hz`, `delivery_rate_hz`) and the values of a sample are left out.

**The contract.** `ClientContract` says what an application relies on: starts follow one another,
each opened and then run or undone; samples come from the running start, and only until it reports
`Stopped` or a fault; the first fault stays until the next start; a start ends only after it said
so and tried to stop the sensor. That is all that is promised: a `send` of StopStreaming that throws
is ignored (246-251, 714-718), and the client goes on as if it had been sent. `Lifecycle` implements it under the mapping `Contract`:
`running` is the set of live workers (`Running`), `phase` is read off the thread that is inside
`start` (`Phase`), `report` and `fault` are the health snapshot and the latch. The contract has no waiters, no
`joining_`, and no handle: these are how the promise is kept.

## Runs

With two workers each run finishes within about three minutes.

| Run | Checks | Instance |
|---|---|---|
| `lifecycle_failstop` | `TypeOK`, `StartOwnsTheClient`, `HealthMatchesLatch`, `RestsStoppedOrFaulted`, `LatestBelongsToStart`, `CallbackKnowsItsThread`, `WakeUpToCome`, `ImplementsContract`, `EndIsFinal` | 2 threads, 2 starts, every failure of a session, thread creation may fail, callback starts, stops, biases, waits |
| `lifecycle_reconnect` | `HandleOwnedOnce`, `NoOrphanedStream`, `BlockedReceiveIsWoken`, `StopReturnsQuiet`, `WaiterAnswersForItsStart` | 3 threads, 2 starts, timeouts and exceptions, callback stops, waits |
| `lifecycle_live` | `StopReturns`, `StartReturns`, `SessionRetried`, `DestructionEnds`, `OutlastsTheWorker`, `ImplementsContract` | 2 threads and the destroyer, 2 starts, 4 calls, destructions or spurious wake-ups, callback stops, waits, destroys |
| `records` | `TypeOK`, `LossIsExact`, `RestartNoticed`, `NoSilentDrop`, `NewRecordsTaken`, `SamplesInOrder`, `RateLimitHolds` | modulus 8, window 3; either 6 records, numbers that wrap, several sessions and a sensor restart, or 4 records, both policies, errors, throwing callbacks, rate limit, `bias` |
| `sessions` | `TypeOK`, `TimeoutExplained`, `DeadlineFollowsValidRecords`, `LateOnlyAfterDrop`, `ShutdownNoticed`, `StormNotEndured`, `BackoffFollowsFailures`, `RevisionNamesCalibration`, `StopEndsWorker` | both platforms, all faults, both policies, 3 sessions, timeout 2, storm 2, delays 1 to 3, two calibrations |
| `configuration` | `ParserDecides`, `ConfigurationIsTheDocument`, `ValidatedConfigIsUsable`, `OnlyWholeResponsesParsed` | documents of 7 tokens over three fields and another element; durations and ports below, at and above each limit; bodies in chunks of 0 to 4 bytes against a limit of 4 |

The bounds are enough for the cases that matter. Two starts and two or three threads give a join
in progress, a second thread waiting for it and a third calling `start` or `stop` meanwhile, with
one worker ending as the next begins; more threads repeat these roles. Four events let one thread
start a client, another stop it, and the callback destroy it while it is being joined. A modulus
of 8 with numbers starting at 0, 3, 5 and 6 crosses both the half range and the wrap in six
records; the two scenarios of `records` are apart because together they are too many. Three
sessions see the delay doubled and capped, and reset. A receive timeout of two ticks with a
check interval of one makes two rounds of `WSAPoll`; one tick beyond the deadline (`MaxLate`) is
enough to tell a receive that is late from one that is not. Seven tokens hold a field with text, nested or
repeated, beside another one; a whole configuration of three fields, the name left out, takes six. The runs of
`Lifecycle` check for deadlock: since an idle thread may always call, a deadlock would be every
thread stuck in a call. In the others the bounds end a behaviour, so there deadlock is not checked.

`ParserDecides` compares the parser with a definition of good documents that has no stack: it
speaks of positions, and of tags between which everything is balanced. `EndIsFinal` is the promise of
the contract that a test finds hardest to see broken: after `Stopped` or `Faulted` no late sample and
no late change of state shows, whatever is still being joined.

### What the code does against its own tests and messages

Six runs expect a violation. Each states what a test, the changelog or a message of the program
says, and TLC shows an order of events in which the code does otherwise.

* `restart_lost_wakeup`: `start()` on a faulted client evaluates `worker_exited_ || !faulted()`
  under `lifecycle_mutex_` (126). `finish_session()` stores the flag (725) and notifies (735)
  without it. If both happen after the evaluation and before the sleep, `start()` sleeps for ever.
  `StartReturns` holds under Reconnect in `lifecycle_live`, where workers do not fault.
* `backoff_lost_wakeup`: the same between `stop()` (240-241) and the reconnect delay (411-414):
  `stop()` then takes as long as the delay.
* `generation_reuse`: a `start()` that cannot create its thread puts `generation_` back (196); a
  waiter that captured the number meanwhile is answered by the sample of the next start.
  `WaiterAnswersForItsStart` holds in `lifecycle_reconnect`, where thread creation succeeds.
* `records_stale`: after `bias()` only FT numbers guard the order of samples. Just above 0x10000,
  two late records in rising order pass for a sensor restart (`sequence.cpp` 52) and the second is,
  under Reconnect, delivered. `ReconnectPolicyDropsFtDiscontinuitiesAndConfirmsRestart`
  (`test_client_recovery.cpp` 228) expects FT discontinuities to be dropped under this policy, and
  `test_sequence.cpp` 55 two rising late numbers to be `Backward`; both try numbers far from the
  threshold. Under FailStop the first of them ends the session. `SamplesInOrder` holds in `records`, where late records do not cross that line.
* `destroyed_while_notifying`: a thread in `stop()` joins the worker whose callback destroys the
  client. It lowers `joining_`, releases `lifecycle_mutex_` and has yet to notify (285-286); the
  destroyer's `stop()` now has nothing to wait for, and the client is freed. `OutlastsTheWorker`
  holds in `lifecycle_live`: this is the only thing that can still be going on.
* `premature_timeout`: an interrupted `recv()` makes `receive()` return 0
  (`udp_transport_posix.cpp` 144-151), which the worker reports as "no valid RDT record before
  timeout" (492, 51). It takes a datagram that is dropped between `poll()` and `recv()`, so that
  `recv()` waits. `TimeoutExplained` in `sessions` lists the ways such a thing can happen.

### Fairness

`Fairness` in `Lifecycle` says that a thread that can go on does: every call and the worker are
weakly fair, since the operating system schedules them, `receive`, discovery and the reconnect
delay have deadlines, and callbacks are taken to return. For a worker this includes the deadline of
a wait its callback makes. Waiters have strong fairness: `data_mutex_` is free again and again and
is given in the end to a thread that keeps asking. Nothing is assumed of what applications call,
nor of the deadlines of their waits. In `MCDeferred` calls, destructions and spurious wake-ups are
finitely many, so that after the last one `lifecycle_mutex_` is not taken for ever by others and
weak fairness is enough for its users; a thread that starves because others call `stop()` without
end is outside these runs. The destroyer's thread is fair like any other.

`Fairness` in `Sessions` lets the worker run, `poll` and `recv` return when there is something to
return, time pass while they wait, and `stop()` go on from raising `stopping_` to `shutdown()`. No
datagram, failure or signal is counted on: `StopEndsWorker` holds although `recv()` may wait
without a deadline.

## Proofs

The theorems hold for every finite set of application threads, every number of starts, both
policies, all failures, all choices of what applications and callbacks call, every modulus, window,
limit and unit. They assume what the modules assume of their constants (`ConstantsAssumption`,
`DeferredAssumption`, `TrackersAssumption`, `RecordsAssumption`, `TransportAssumption`,
`SessionsAssumption`, `XmlAssumption`, `DiscoveryAssumption`), which TLC evaluates in the runs, and the hypotheses
named below.

**The client** (`LifecycleProofs`)

* `TypeCorrect`: `Spec => []TypeOK`. `TypeOK` is not inductive: nothing in it keeps `generation_`
  within the number of starts. `TypeInv` adds that generations do not exceed attempts, also in the
  state saved for a rollback (`GenerationInv`), and that attempts and pending calls of `start`
  together stay within the bound (`BudgetInv`), which needs cardinalities of finite sets.
* `StartOwnership`, `CallbackThread`, `HandleOwnership`, `StreamIsStopped`, `StopIsQuiet`:
  `StartOwnsTheClient`, `CallbackKnowsItsThread`, `HandleOwnedOnce`, `NoOrphanedStream` and
  `StopReturnsQuiet`. They follow from `SafetyInv`, the conjunction of `TypeInv` with
  `LockInv` (who is inside a critical section owns `lifecycle_mutex_`),
  `JoinInv` (`joining_` is up exactly while one thread, not a worker, holds a handle to join),
  `ActiveInv` (a running worker has a handle, is the one `active_worker_id_` names, and is declared
  exited only in its last steps; `start` resets only without a worker),
  `StreamInv` (a stream that is owed its end belongs to an open session that a worker will close),
  `QuietInv` (workers older than a finished `stop` stay gone) and `SettleInv` (no worker runs while
  `stop` is between its look at `faulted()` and its write of `Stopped`).
  `StreamIsStopped` says that StopStreaming was tried, since the code ignores a `send` that throws.
  `LockInv` is needed because a resetting `start` excludes others only by the mutex; `ActiveInv`
  because a worker that is declared exited and still runs is recognised only by its handle.
  Most steps neither move the handle nor reset the client; `WorkerFrame` and `ApiFrame` state once
  what these have in common, and each of the others has a lemma of its own.

**Its reports and the contract** (`ReportProofs`, `ContractProofs`)

* `HealthAndLatch`, `RestingReport`, `LatestOfThisStart`: `HealthMatchesLatch`,
  `RestsStoppedOrFaulted`, `LatestBelongsToStart`. `ReportInv` says for each position of the worker
  what it has reported and latched, that a client without a worker reports an end, that what
  `start` has saved is such a report, and that no fault is latched where `stop` is about to write
  `Stopped` (`CheckedInv`, by `SettleInv`). The saved report is needed because a failed `start` puts
  back the latch and the snapshot in separate steps.
* `ContractImplemented`: `Spec => ImplementsContract`. Each step of `Lifecycle` is, under the
  mapping, a step of `ClientContract` or leaves its variables alone; `SafetyInv` and `ReportInv`
  supply that a worker's step is one of the running start.
* `PromisesKept`, `EndsAreFinal`, `FirstFaultIsKept`: what every implementation of `ClientContract`
  gives an application. One start at a time, a stream only for a running start, an end reported
  whenever nothing runs, and a whole report (`Promises`); `EndIsFinal`; `FirstFaultStays`. The
  invariant `ContractInv` adds `RollbackInv`: the contract undoes a failed start in two steps, report
  first and fault second, and without knowing that what is kept for it is the whole report of a
  start that had ended, neither half can be put back.
* `ClientEndIsFinal`: `EndIsFinal` for the client. Nothing is proved again of threads and locks: it is
  `EndsAreFinal` under the mapping, by `ContractImplemented`.

**Wake-ups** (`WakeUpProofs`)

* `ReceiveIsWoken`: `BlockedReceiveIsWoken`, from `CauseInv`: a worker on its way out was stopped
  or has faulted, and between `stop` raising the flag and sending the shutdown the stopper is at
  exactly one place.
* `WaiterIsWoken`: `WakeUpToCome`, for application threads. Some notifications come without
  `data_mutex_` and are missed by a waiter between its check and its sleep; the proof shows that
  then a worker that will notify under the mutex is still alive (`IdleInv`, `BlockInv`). It says
  nothing of a wait made in the callback, whose worker is the waiter itself: when that one misses
  the notification of `stop()`, it sleeps to its own deadline, and `stop()` joins it as long.
* `WaiterAnswers`: `WaiterAnswersForItsStart` if `SpawnCanFail = FALSE`. With thread creation that
  fails it is false, by the run `generation_reuse`: `TicketInv`, that generations count the
  starts, is what the rollback breaks.

**The end of the client** (`DeferredProofs`)

* `FreedAfterTheWorker`: `OutlastsTheWorker`. `EndInv` says to which thread the destruction is up,
  that other application threads are at most ending a join, and that after the first `stop()` of
  the thread that frees the client there is neither a worker nor a handle. A callback hands its
  client over because `SafetyInv` makes `called_from_worker_thread` right also while another
  thread holds the handle.
* `EndIsStops`: `DeferredSpec => Spec`, if applications and callbacks may call `stop`, since the
  `stop()` of `~Client`, of the destroyer and of `~Impl` are then calls like others. So all theorems
  about `Lifecycle` hold to the end; `EndKeepsTheContract` states it for the contract.

**Sessions and the transport** (`SessionsProofs`)

* `SessionsTyped`, `DeadlineIsExact`, `PollNeverLate`, `ShutdownIsNoticed`, `StormsEndSessions`,
  `RevisionsAreChanges`: `TypeOK`, `DeadlineFollowsValidRecords`, `LateOnlyAfterDrop`,
  `ShutdownNoticed`, `StormNotEndured`, `RevisionNamesCalibration`, from `SessionInv`. It adds that a
  round of `poll` never reaches beyond the deadline and a round of `WSAPoll` never beyond the check
  interval (`TransportInv`), that only `stop` shuts a session's socket down, and that a session's
  row of malformed datagrams is part of the client's count, which outlives sessions (`StormInv`).
* `DelayIsDue`: `BackoffFollowsFailures`, for every pair of delays; needs powers of two.
* `TimeoutIsExplained`: `TimeoutExplained` if `ReceiveTimeout <= PollLimit`, that is, INT_MAX
  milliseconds. A longer timeout makes `poll` return before the deadline with nothing to say why.

**Records and trackers** (`RecordsProofs`)

* The lemmas `Distance` and `NumbersCompare` say what unsigned subtraction makes of numbers that
  have wrapped: less than half the range apart, they compare as the records they number.
* `RecordsTyped`, `LossesAreExact`, `NothingDroppedSilently`, `RestartsAreNoticed`: `TypeOK`,
  `LossIsExact`, `NoSilentDrop`, `RestartNoticed`, from `RecordsInv`: sensor, network and the latest
  record received stay within the window (`StreamInv`); the RDT tracker has the latest record's
  number while it has taken none of an older stream (`RdtInv`); the FT tracker's candidate is the
  latest record since a restart (`FtInv`); counters stay below the records received (`CountInv`).
* `NewRecordsAreTaken`, `RateLimitIsKept`: the action properties `NewRecordsTaken`, `RateLimitHolds`.
  The interval is measured between samples that go to the callback, from when they were received,
  across sessions and `bias()`. Two samples may come sooner: the one after a callback that threw,
  which leaves `last_delivery_at_` as it was (661-667), and the first of a `start()` (142). `RateInv`
  ties the client's measure to that interval, also while a callback runs.
* `SamplesComeInOrder`: `SamplesInOrder`, if each world either has no `bias()`, or has no sensor
  restart and FT numbers that do not rise across the threshold of a restart (they may wrap). The
  scenarios of the run `records` satisfy this. Without it the property is false, by the run
  `records_stale`. `OrderInv` says which of the two trackers has the latest record.

**Discovery** (`DiscoveryProofs`)

* `ParserIsRight`, `ConfigurationFromDocument`: `ParserDecides` and `ConfigurationIsTheDocument`, for
  documents of any length, any nesting and any fields. The definitions on the other side have no
  stack and no order of reading: they count tags between positions. A document only grows, by one
  token in each step, so the induction is over the steps and not over documents. `ParserInv` says
  that there is a position for every element of the stack, after which exactly the elements above
  it are open (`Stacked`, `OpenAfter`); that every other opening tag has its closing tag already; that
  only the innermost element is a field; and that the text collected for a field is the text inside
  its element, piece by piece in order (`Collected`). The first part is needed because a closing
  tag is checked against a name only: that the name is the right one's takes the position. The
  second makes "no continuation can mend it" decidable on the document read so far. `Text` is given by
  the rank of a piece among those of its field, so that one more piece changes only the last.
* `ValidationsAgree`: `ValidatedConfigIsUsable`, for the two HTTP timeouts, which discovery checks
  again without the clock. The other durations are checked again with a later clock (413, 469, 519),
  and one accepted at construction may then throw: the failure `Exception` of `ClientWorker`. The two checks round differently (`>=` against `>`)
  and the lemma `TimeoutsAgree` shows that the first is the stricter, for every unit and limit.
* `WholeResponsesParsed`: `OnlyWholeResponsesParsed`, from what the response buffer holds after
  chunks that did not fit or could not be stored (`ResponseInv`).

Only model-checked: the liveness properties (`StopReturns`, `StartReturns`, `SessionRetried`,
`DestructionEnds`, `StopEndsWorker`), which like ENABLED are outside the prover's reach. The theorems
with a hypothesis are model-checked on instances that satisfy it, and the runs that expect a
violation show that it is needed for `WaiterAnswers` and `SamplesComeInOrder`.

## Not modelled

* The codec and the classification of the status word: functions of one input without state. A
  datagram that does not decode is "malformed" in `Sessions`, the class of a status a choice in
  `Records`.
* libcurl, `getaddrinfo`, the choice among addresses, WSAStartup, and a `send` that reports success
  for a request that is lost. Discovery and `connect` are one step each for the worker; `stop()`
  cannot interrupt them (the repository's README says so).
* A receive timeout beyond INT_MAX milliseconds: `poll()` then returns before the deadline.
* Several clients in the queue of one deferred destroyer: they share nothing but the order in which
  they are stopped.
* `health()`, `latest_sample()`, `faulted()`: they only read, and prune the windows of the rates;
  `timeout_count` and `reconnect_count` only count outcomes. Test hooks.
* Rounding: rates, scaling, and durations as doubles. A sample that is not finite is a choice in
  `Records`.
* The order in which the four mutexes are taken, beyond what the steps show: `command_mutex_` and
  `record_mutex_` are never held across a step, so no run could show a deadlock between them.
* The exact counters once the tracker has taken a late record of the old stream after `bias()`, as
  its new baseline or later: `LossIsExact` and `NewRecordsTaken` except this case, and it does lose
  both.

## Plan

Modelled and checked: everything in the table of modules. Proved: every safety property of the
passing runs, and the contract's own promises. What is left is out of reach here or is a choice of
scope: liveness stays with TLC, and the parts under "Not modelled" have no state to speak of or
belong to the operating system and to libcurl. When the code changes, the line ranges in
`PROJECT.json` say which definitions to look at first; a fix of one of the six disagreements above
turns its run into one that passes.
