# Formal model of rshunterbtt

rshunterbtt bridges a Hunter BTT irrigation timer (Bluetooth LE) to MQTT and
InfluxDB. This directory holds TLA+ models of the parts of it that are hard to
test: what happens between two awaits, between two tasks, and between two lives
of the process. TLC checks the models on small instances; TLAPS proves the
theorems named below for all values of the constants. Paths are relative to the
repository, which the modules call `src/`.

## 1. The system

| Part | Source | State | Operations |
|---|---|---|---|
| Connection supervisor | `src/lib.rs` `run_connection_supervisor` | the ladder, the backoff, where it is in the setup | set up a session (connect, interval request, password, ff82 subscription), reset the cache, read zone names, open the gate, watch the link, handle a failure, wait |
| Resilience ladder | `src/resilience.rs` | streak of failures, failure times, `ResilienceState` | `on_connection_success`, `on_connection_failure` (four rungs, three rate limits) |
| State store | `src/resilience.rs` | the state file | `load`, `save` |
| Recovery actions | `src/dbus_control.rs`, `src/reboot.rs` | the adapter's power, the host | power-cycle, reboot |
| BLE client | `src/ble.rs` | the peripheral | connect, GATT reads and writes, notification stream |
| Notification consumers | `spawn_notification_consumer` | a queue per stream | copy each parsed notification to the status cache |
| Status cache | `watch` channel | the last status or None, a "changed" mark per receiver | `send`, `send_if_modified`, `borrow` |
| Valve event observer | `run_valve_event_observer` | its baseline | compare, write a valve event, push a status |
| Command handler | `handle_mqtt_message`, `run_command`, `get_status` | `command_lock` | start, stop, status |
| Battery poll | `run_battery_polling_loop` | none | read, write, sleep |
| Application instance | `run_app`, `run_app_instance` | the guards of the tasks above | start everything, run the MQTT loop, restart on its error |
| Interval guard | `src/hci_monitor.rs`, `src/hci.rs` | time of the last re-apply | watch HCI events, re-apply the interval |
| Codecs, clients, configuration | `src/protocol.rs`, `mqtt.rs`, `database.rs`, `config.rs` | none | conversion and I/O |

How they interact. The supervisor is the only task that sets the link up; it
tells the others through two watch channels (`connection_ready` and the status
cache). Notifications reach the cache through a stream of the BLE library, a
forwarding task, a bounded queue and a consumer, a new chain for each session.
The observer and the status command read the cache, and the status command may
also fill it. Both publish on the same MQTT topic. When the MQTT loop fails the
instance returns, which drops the guards: each task is told to stop and is
aborted at its next await. The state file is all that survives the supervisor.

What makes it hard, and what it takes to be correct:

* *Ladder and store.* Rung 3 reboots the host, which destroys the memory in
  which reboots are counted. Correct means: the ration of reboots, the order of
  the rungs and the spacing of power-cycles hold over the life of the host, and
  a half-done power-cycle can be recovered from.
* *Status path.* Five tasks touch the state of a zone with no lock between
  them. Correct means: nothing old stays in the cache, the observer reports
  what it takes for a difference, the gate opens only to a complete session,
  and once the device and the link leave off everything agrees.
* *Commands.* A read-modify-write of ff83 and a pair of writes, either of which
  may fail, against a device that changes by itself, other commands, and the
  commands an earlier instance left behind. Correct means: a zone is switched on
  only with the run time that was asked for, the other zone is left as it is,
  the last command wins, and each command ends.
* *Interval guard.* Several requests at once share one controller and cannot
  tell its answers apart, and a rate limit drops what it limits. Correct means:
  when the device leaves off, the link runs at the configured interval.

`PROJECT.json` lists the hazards line by line with the properties that cover
them, and the map from definitions to source lines.

## 2. The modules

| Module | Models |
|---|---|
| `Ladder` | `resilience.rs` without its store: a ladder is a value, `OnConnectionFailure(l, now)` gives the next ladder and the action |
| `Escalation` | the supervisor from its failures: EXTENDS `Ladder`, adds the clock, the state file, the adapter, restarts and crashes |
| `RebootLimiter` | the abstract promise: time passes, reboots are granted within the ration |
| `StatusPath` | sessions, notifications, cache, observer and status command |
| `Commands` | the commands of MQTT, their lock, and what they do to the device: EXTENDS `RunDuration` |
| `CommandServer` | the abstract promise of the lock: each instance serves commands one at a time, each with its effect at one moment or never |
| `IntervalGuard` | the connection interval between the device, the setup's request and the guard |
| `RunDuration`, `Payloads`, `IntervalUnits` | conversions: run time to bytes, bytes of ff83 and ff86, milliseconds to steps of an LE connection |
| `RebootLimiterProofs`, `EscalationProofs`, `StatusPathProofs`, `CommandsProofs`, `IntervalGuardProofs`, `NumberProofs` | theorems |
| `RecursionProofs` | lemmas on recursive functions over the naturals, for `EscalationProofs` |
| `MCEscalation`, `MCStatusPath`, `MCCommands`, `MCIntervalGuard` | the instances for TLC |

`StatusPath`, `Commands` and `IntervalGuard` share nothing with `Escalation`: a
link comes up and drops in them without a reason, and an instance restarts
without one. What a session is to the supervisor is the value of its gate to
`Commands`, which may change at any time.

### Ladder and Escalation

`Ladder` is a translation of `on_connection_failure`, in the order of the code:
count the failure, prune both windows, try rung 3, then rung 2, then the cap. A
rung that is due but rate limited falls through. All comparisons are the code's
"less than `span` ago" (`Recent`). The log is left out. `failure_timestamps` is
a Vec in which times may repeat, so its entries carry the number of the
failure; `reboot_timestamps` cannot hold a time twice and is a set.

`Escalation` follows the supervisor with a program counter:

| `pc` | Code | Steps |
|---|---|---|
| `load` | the supervisor is not running; `store.load()` when it starts | `Load` |
| `setup` | `run_connection_setup` | `SetupSucceeds`, `SetupFails` |
| `connected` | `wait_for_disconnect_or_shutdown` | `LinkLost` |
| `power_off`, `power_on` | the halves of `power_cycle_adapter` | `PowerOff`, `PowerOn` |
| `save`, `write` | `store.save`: before and after the truncating `File::create` | `SaveCreate`, `SaveWrite` |
| `reboot` | `reboot_host` | `RebootHost` |
| `wait` | the backoff | `WaitBackoff` |

`InstanceRestart` is possible where the supervisor awaits: `power_cycle_adapter`,
`save` and `reboot_host` block their thread and contain no await, so that an
abort cannot fall into them. (If D-Bus keeps the aborted supervisor blocked for
longer than the ten seconds to the next instance, both run for that long; the
model lets the next one start when the blocking calls are over.) `ProcessDies`
is possible anywhere. Either half of a power-cycle may fail with or without
effect, and after the first the second is not tried. `clock` is
`Utc::now()`; time passes during a setup, a connection, a wait and while the
supervisor is down, by an amount in `Durations`, and never backwards (a wall
clock that is set back is not modelled). A setup succeeds only with the adapter
on. A reboot that works switches the adapter on, as does a loss of power.

Faults are a constant, so that each property names what it tolerates:

| Fault | |
|---|---|
| `load` | the state file cannot be read |
| `create` | `save` cannot open the file |
| `write` | `save` fails after the truncation |
| `torn` | the process dies between the truncation and the sync |
| `unsaved` | the process dies between a power-cycle and its save |

`rebooted`, `cycled`, `interrupted` and `further` are history: no action of the
code reads them. `interrupted` holds the power-cycles that the process did not
live to save: they name the exception of `PowerCyclesSpaced` and
`AdapterOffIsArmed`. `further` counts failures since a power-cycle was attempted.

`Delay(n)` is what the n-th failure in a row should be followed by and `Delays`
the sum of the first n. They are written from the constants and not with
`NextBackoff`, so that `BackoffFollowsStreak` compares two counts the code keeps
apart: the delay in the supervisor, the streak in the ladder.

### RebootLimiter

Two actions, `Elapse` and `Grant`. `Escalation` instantiates it with
`now <- clock` and `granted <- rebooted`; `RebootsRationed` says that the
supervisor implements it. It is stated with every reboot ever made, where the
code only has the stamps it could save, load and did not prune: that the two
count the same is what the refinement shows.

### StatusPath

| Actor | State | Steps |
|---|---|---|
| device and link (external) | `device`, `link`, `subscribed`, `authed`, `streams` | `DeviceChanges`, `LinkDrops` |
| supervisor | `sup`, `ready` | `Connect` ... `BecomeReady`, `SetupFails`, `Retry`, `PollConnected`, `PollFails`, `SeeLinkLost` |
| consumers | `streams[i].queue` | `Consume` |
| cache (a watch channel) | `cache`, `unseen` | |
| observer | `obs` | `Observe`, `Report` |
| status command | `reader` | `Request`, `PassGate`, `GateTimesOut`, `ReadStatus`, `ReadFails`, `SeedCache`, `Reply` |
| application instance | all of the above but the device and the link | `InstanceRestart` |

A watch channel is its value and, for the one receiver that awaits `changed()`,
a mark that it was sent to since. The chain stream, forwarder and mpsc queue of
a session is one queue: it keeps order and nothing reads it in the middle; its
bound of 64 delays and never drops. Whether the stream of an earlier link goes
on delivering after a reconnection is up to the BLE library (`StreamsSurvive`).
The runtime is multi-threaded, so every await and every pair of synchronous
accesses to a shared channel is a place where another task may step in: the
status command that found the cache empty, the read in flight, the seed and the
response are four steps.

`Settled` is the one assumption on time: `connect` scans for ten seconds before
it connects, which is taken to be long enough for the consumers to empty their
queues and for a read on the old link to fail. It says nothing of the observer,
which may be waiting for the database or for MQTT, nor of a command at the gate
or with its response.

A poll of the link that ends in an error counts as a lost link
(`unwrap_or(false)`): `PollFails` has the supervisor set up again over a link
that is up, with the old stream alive if streams survive.

When the instance restarts, its supervisor, consumers and observer are aborted
and the next one has channels of its own. The link stays up, so the supervisor
connects to a link that is there, with notifications that the new client has not
subscribed to. The streams of the old client have no consumer any more. The next
setup writes the password and subscribes like any other.

`had` (the states the device was in since the supervisor last connected),
`turned`, `pushed` and `shown` are history.

### Commands

Each message is a task, and what it asks for is chosen in `Init`. `at` is where
its task is:

| `at` | Code | Steps |
|---|---|---|
| `coming` | not yet received | `Receive` |
| `spawned` | `tokio::spawn`, not yet polled | `FirstPoll` |
| `queued` | `command_lock.lock().await` | `Begin` |
| `gate`, `waiting` | `ensure_connection_ready` | `PassGate`, `Wait`, `GateTimesOut` |
| `look` | `get_status` past its gate | `Look` |
| `settings`, `status` | `read_protocol_83`, `read_status` | `ReadSettings`, `ReadStatus` |
| `duration`, `write` | `write_protocol_86` or `_8b`, `write_protocol_83` | `WriteDuration`, `WriteSettings` |
| `respond` | `publish` | `Respond` |
| `done` | the guard of the lock is dropped | |

`lock[i]` is the line at the lock of instance `i`: tokio's mutex is fair, so that
who is first in the line is who holds it. In the places `look` to `write` the
operation on the device may also fail without effect (`Fail`), and a write may
fail with effect: the device took it and the answer was lost. `GateTimesOut` may
come in the moment the session is up, and any time before: the model has no
clock here, and a deadline that could come early covers the one of 65 seconds.

`InstanceRestart` leaves all tasks as they are, with their own lock and their own
gate, which stays as it was: a task keeps its `Arc` of the `App` and is not
aborted. What it responds goes to an MQTT client whose event loop nobody polls
any more, so that it is not published. With `PublishFails` the client of the
running instance may refuse a response as well, which ends the task the same way.

The data are the manual switches of ff83 and the run time of ff86 and ff8b. The
other bytes of ff83 are copied, which `Payloads` has byte by byte: theorem
`SettingsKept` is why the module may forget them. `since` (what the device went
through since a task's read) and `last` (the last command for a zone to queue)
are history; they name the exceptions of the properties.

### CommandServer

What the comment at the lock promises ("makes queued commands run one at a time
(last one wins for toggles)", lib.rs:237), stated without tasks, gates,
operations and failures. A command joins the line of an instance, is served when it is first, and leaves:

| `phase` | `at` of `Commands` |
|---|---|
| `away` | `coming`, `spawned` |
| `waiting` | `queued`, `gate`, `waiting`, `look`, `settings` |
| `working` | `status`, `duration`, `write`: it holds a copy of the settings |
| `served` | `respond` |
| `gone` | `done` |

`Apply` is the one step that switches zones, and it ends the turn's work: a
command takes effect at one moment or never, with its run time programmed
(unless another instance programmed another since: `overtaken`) and the other
zones untouched (unless they were switched since it read: `stale`). Only `Apply`
makes a success, and only who was served is answered. Who ends without being
served, because the gate timed out or a read failed, leaves the line all the
same. `Commands` maps `since` to `stale` and `overtaken` and the three bytes of
the run time to seconds; `ServedOneByOne` says that it implements the server.

### RunDuration, Payloads, IntervalUnits

Operators without state: the three divisions and casts of `run_command`, the
layouts of ff83 and ff86/ff8b with what a start and a stop change in them, and
the parameters of an LE Connection Update with what a controller accepts (from
the Bluetooth specification, hence external).

### IntervalGuard

| Actor | State | Steps |
|---|---|---|
| device, controller, other links (external) | `link` (the handle), `interval`, `pending`, `quiet`, `left` | `Revert`, `Reject`, `LinkDrops`, `ForeignUpdate`, `Complete` |
| supervisor | `req[0]` | `Reconnect` or `SetupAgain`, then a request; `InstanceRestart` |
| guard | `inbox`, `age` | `Monitor` |
| re-apply threads, requests of aborted supervisors | `req[1]`, `req[2]`, ... | a request |

A request (`request_interval`) is the steps `FindHandle`, `SendCommand` and
`ReadEvent` or `Timeout`, with up to `MAX_INTERVAL_RETRIES` attempts on one
socket, whose queue keeps what arrived between two attempts. Intervals are
"target" and "other". The controller works on one update at a time and refuses
a second with a status that every socket sees; an update it completes or that
the device refuses is an event on every socket. A request ends with the first
update of its handle, whoever caused it and wherever it leads: this is what the
code does, and what `EventuallyPinned` must hold in spite of. The guard does not
look at the status byte of an update, so that a refusal that names an interval
off target is re-applied like any other.

Every setup makes a request: of a new link (`Reconnect`), or, after a setup that
failed behind its request or a restart of the instance, of one that is still up
(`SetupAgain`). A request blocks its thread, so that the one of an instance that
restarts goes on, in a slot of its own, beside the next (`InstanceRestart`).

The code spawns re-apply threads without bound, the model as many as `Threads`:
`Monitor` waits for a slot. That is a bound of the runs; the theorems hold for any
`Threads`.

`age` is `last_reapply.elapsed()`. Frames are read in the second in which they
arrive (`Tick`). The delay between attempts has no length: a retry can only come
earlier than in the code. A socket that cannot be opened or written is left out.

## 3. The runs

| Run | Shows |
|---|---|
| `escalation` | with the fault `unsaved`: power-cycles are `POWER_CYCLE_RATE_LIMIT` apart across restarts of instance, process and host, except after one the process did not live to save (`PowerCyclesSpaced`); an adapter that is off has rung 3 armed, in memory or in the file, unless no power-cycle was ever saved (`AdapterOffIsArmed`); reboots are rationed (`RebootsRationed`) |
| `all_faults` | with every fault: `RungOrder`; `BackoffFollowsStreak`: the delay before an attempt is the one that belongs to the streak, and starts over with it; and `NoRebootLoop`: what is left of the ration when its record is lost, two reboots are apart by all the delays of a streak of `POWER_CYCLE_THRESHOLD + REBOOT_EXTRA_FAILURES` failures (with the code's numbers, 543 s) |
| `status_path` | `CacheFresh`, `BaselineIsCache`, `PushesAreTrue`, `NoPushTwice`, `AnswersOfThisSession`, `ReadyMeansSession` |
| `status_live` | `EventuallyConsistent` |
| `commands` | `DurationInPlace`, `OtherZoneKept`, `LastQueuedWins`, `EveryCommandEnds`, that the commands implement `CommandServer` (`ServedOneByOne`), and in `TypeOK` that the lock excludes |
| `interval_guard` | `OffTargetIsAttended` and `EventuallyPinned`, for a device that leaves `REAPPLY_MIN_GAP` between its re-negotiations |

The other runs each check what a comment or a document says and end in a
counterexample; section 5 lists them.

*Bounds of the escalation runs.* The thresholds keep the order of the code's
(failure window < power-cycle limit < reboot limit < day) with 2 failures for
rung 2, 1 more for rung 3 and 1 or 2 reboots a day; a setup takes 0, 1 or 4
units, that is less or more than the window of 3. `Horizon` is longer than a
day of 10 plus the shortest way to a reboot in the runs about the ration (12 to
14), so that reboots are decided, refused for either reason, and allowed again
when the day has passed; in `all_faults` it is 9, which is time for a second
reboot after one whose record was lost. In `all_faults` two failures precede the
one that reboots, with delays of 1 and 2.
`Horizon` bounds the clock in the guard of `Passes`. Deadlock is checked: at
the horizon the process can still die, and a supervisor that waits can be
restarted, so the runs do not stop in a deadlock for want of time; with `pc =
"load"` at the horizon a start of duration 0 remains.

*Bounds of the status runs.* `MaxChanges`, `MaxDrops` and `MaxRequests` bound
what the environment does: two zones, three changes, one reconnection and two
status commands are enough for a seed to race a notification, a notification to
cross the reset, two notifications to coalesce, and both streams to deliver. The
liveness run has one zone, two changes, one drop and one command: liveness needs
all the races with a reconnection but not two zones.

`InstanceRestart` and `PollFails` share the budget of `MaxDrops`.

*Bounds of the command run.* Two messages of any two kinds out of nine requests
(starts of both zones, two run times for one zone, one that is refused, a stop,
a status, and the three kinds that never reach the device) are enough for
everything two tasks can do to each other; one change by the device and one
restart, at any point, reach each exception of the properties. A third task at
the same lock waits like the second, and the theorems hold for any number.
Deadlock is checked: `Session` is always possible.

*Fairness of the command run.* Weak fairness of the next step of each task: the
runtime polls a task that can go on, the lock is handed on, an operation of the
BLE library ends in an answer or an error, and the deadline of the gate comes.
Nothing is assumed of the session.

*Bounds of the interval runs.* `Incidents` bounds what the environment does of
its own, in any combination of `Kinds`: with two, every pair of a
re-negotiation, a refusal, a late answer, a lost link, a setup tried again, a
restart of the instance and an update of another link meets the request of the setup and up to two re-apply threads (`Threads`). Two handles let a new link have the old one's or
another; two attempts, a retry that finds the answer of the first. `MinQuiet`
is the assumption on the device: with `REAPPLY_MIN_GAP` the interval is pinned,
with 0 it is not (run `revert_deferred`).

*Fairness of the interval runs.* Weak fairness of the threads, of time, of the
controller ending what it began, and of the supervisor, which never gives up
connecting. Nothing is assumed of the device and of other links.

*Fairness of the status runs.* `FairSpec` assumes weak fairness of what the runtime or a timer
brings (consumers, observer, the steps of a command, the poll that sees the
link lost, the end of a backoff, an operation on a dead link returning its
error) and strong fairness of the four steps of a setup that need the device:
`SetupFails` can take each of them away any number of times, and that a setup
eventually succeeds when the device is there is an assumption on the device, not
on the code. Nothing is assumed of the device's changes, of the link, or of
requests.

## 4. The proofs

`tlapm` on each of the seven modules whose name ends in `Proofs` checks
everything; no step is left out. The assumptions are those of the modules: in
`Ladder` the thresholds are positive naturals and a day is at least as long as
the reboot rate limit; in the others the bounds are naturals and the sets of
inputs have their type. No proof uses the size of a bound.

| Module | Theorem | States |
|---|---|---|
| `EscalationProofs` | `TypeCorrect` | `Spec => []TypeOK`, under every fault |
| | `RungOrderKept` | `Spec => []RungOrder`, under every fault |
| | `NoRebootLoopEver`, `BackoffAlwaysFollowsStreak` | `Spec => []NoRebootLoop`, `Spec => []BackoffFollowsStreak`, under every fault |
| | `RationKept` | `SoundStorage => (Spec => RebootsRationed)`: the refinement |
| | `BudgetKept` | `SoundStorage => (Spec => []RebootBudget)`, from `RationKept` and `LimiterKeepsItsPromise` |
| | `PowerCyclesAlwaysSpaced`, `AdapterOffAlwaysArmed` | `SoundStorage => (Spec => []...)` |
| `RebootLimiterProofs` | `LimiterKeepsItsPromise` | the abstract limiter keeps `Budget` and `Spacing` |
| `StatusPathProofs` | `TypeCorrect`, `ReadyAlwaysMeansSession`, `CacheAlwaysFresh`, `BaselineIsAlwaysCache`, `PushesAreAlwaysTrue`, `NeverPushedTwice`, `AnswersAreOfThisSession` | the invariants of `status_path` |
| `CommandsProofs` | `TypeCorrect`, `DurationAlwaysInPlace`, `OtherZonesKept`, `LastQueuedAlwaysWins` | the safety properties of `commands` |
| | `CommandsServed` | `Spec => ServedOneByOne`: the refinement |
| `IntervalGuardProofs` | `TypeCorrect` | `Spec => []TypeOK` |
| | `OffTargetAlwaysAttended` | `PatientDevice => (Spec => []OffTargetIsAttended)` |
| `NumberProofs` | `DurationKept`, `RefusedOnlyIfTooLong`, `DurationSent`, `SettingsKept`, `UpdatesAccepted` | the conversions, for every value |

`SoundStorage` says that the only fault is `unsaved`; run `torn_save` shows that
`torn` must be excluded. No weaker assumption will do for the power-cycles
either: with any one of the four other faults as `Faults`, the instance of run
`escalation` violates `PowerCyclesSpaced` and `AdapterOffIsArmed`.

*RungOrder.* It is not inductive: a reboot is decided by
`last_power_cycle_at`, which comes from a file. `RungOrderInv` adds that memory
and file name only power-cycles that were attempted, that a streak of failures
which has begun is later than every power-cycle (so that "before" is strict,
since a save and a reboot take no time), and that a decided reboot has an
earlier power-cycle.

*No loop of reboots.* The ration may be lost with the file; the delays are what
remains. `BackoffInv` says that the delay is the one that belongs to the failures
waited for (`Waited`), that every reboot so far is at least the sum of these
delays ago, and that a reboot which is decided was decided with
`RebootThreshold - 1` of them waited for. A restart empties streak and delay
together, so that the first half stays true and the second gets weaker. `Doubled`
and `Delays` are defined by recursion. That such functions exist, and satisfy
their equations, is shown in `RecursionProofs` (`SequenceExists`, from initial
parts that agree), and that `Delays` grows with n by induction for a set in place
of a predicate (`SetInduction`, from the well-foundedness of the naturals): what
these two say of one given function does not need an operator as a parameter.

*The ration.* `RationInv` says that every reboot of the last day is in the file
and, while the supervisor runs, in the ladder (between truncation and write, in
the ladder only), and that a decided reboot was within the ration of *all*
reboots when it was decided. The lemma behind it: pruning at a later time drops
only stamps that no window can see again. Each step is then a `Grant`, an
`Elapse` or a stutter.

*Power-cycles.* `SpacedInv` says that the ladder remembers no time earlier than
that of a power-cycle that was not interrupted, nor, except until the end of its
save, does the file. With it a power-cycle is decided only when each of these is
`POWER_CYCLE_RATE_LIMIT` ago. It gives `AdapterOffIsArmed` as well: an adapter is
off only after a power-cycle was attempted.

*The status path.* The invariants build on each other. `Consumers` and `Session`
say which streams have a consumer and how far the link is authenticated and
subscribed at each place of the supervisor; `ReadyMeansSession` follows. `Fresh`
is about the cache: while the link is up every queue that is not empty ends in
the state of the device (`QueuesEndTrue`; this is where `Settled` is needed), a
command reads the device within a session, in what is left of one after a poll
that erred, or in vain (`ReadsInSession`), and a
value in the cache, or on its way to an empty one, is the state of the device or
will be overtaken by a notification in a queue (`TrueOrPending`). `Baseline` adds
what the observer took, and that a push is the baseline or, for a zone already
reported, the value about to become it; with `Fresh` it gives `PushesAreTrue`.
`ReportsChange` adds that what remains to report differs from the baseline, which
with `Baseline` is `NoPushTwice`. `OfThisSession` follows the other road into the
cache: the queues, a read that may still seed, and the cache once it was reset
hold only states of `had`. `Connect` empties `had`, and keeps the invariant only
because of `Settled`: nothing of before is on its way.

*Commands.* The line at the lock (`Line`) gives mutual exclusion, and with it the
copy of a task is the device's settings but for what befell the device since
(`CopyIsCurrent`): `OtherZoneKept` follows. `DurationInPlace` needs in addition
that a task past `duration` has written it. `LastQueuedWins` needs the order: of
the commands for a zone the last to queue is behind all others in the line, so
that once it is done no other can still write.

*The server.* `CommandsServed` has one lemma per step of `Commands`, which shows
the step of `CommandServer` it maps to, or the stutter. Most say only how
`phase` moves. Three need the invariants: a start programs and applies as first
of its line (`OneHolder`), a write keeps the other zones unless the task is
stale (`CopyIsCurrent`), and finds its run time programmed, and not its bytes
alone, unless it was overtaken (`DurationInPlace` with `DurationKept`).
`KindAtWork` says which commands can be in which place, so that a status command
never writes.

*The interval.* `OffTargetIsAttended` is the safety half of `EventuallyPinned`: at
no moment is a link off target with nobody about to correct it. `PatientDevice`
says that the device leaves `REAPPLY_MIN_GAP` between its re-negotiations; run
`revert_deferred` shows that it is needed. The proof needs `RateInv`: at most one
event that is off target waits for the guard, and while it does the rate limit is
over, so that the guard acts on it. What a request takes for its answer does not
matter to the invariant, since a request that has sent leaves `pending` behind.

Only TLC checks `EventuallyConsistent`, `EventuallyPinned` and
`EveryCommandEnds` (liveness under fairness, out of the prover's reach), and the
runs that end in a counterexample. Every invariant of the passing runs is a
theorem, as are the action property and the two refinements.

## 5. Where code and documents disagree

| Run | Claim | What the code does |
|---|---|---|
| `ten_further` | comment at `resilience.rs:82` | rung 3 looks at the whole streak and at whether any power-cycle was ever attempted: when slow failures hold rung 2 back, the power-cycle can come one failure short of the reboot threshold, and the next failure reboots (one further failure where the run asks for two) |
| `torn_save` | README, "max 3 reboots per 24 hours", "persisted durably" | the file is truncated in place: dying there forgets every reboot |
| `first_change` | README, "whenever the device reports a zone-state change" | the first notification after a (re)connection is only a baseline |
| `last_word` | README, "consumers do not have to poll" | a response from before a push can be published after it |
| `unanswered` | README, "The bridge publishes a response for every command" | a status command whose gate times out or whose read fails ends with a line in the log; only `on_off` responds to a failure |
| `revert_deferred` | test at `hci_monitor.rs:336`, "must be deferred"; `docs/connection-interval.md`, "on every revert" | a re-negotiation within 3 s of the last re-apply is dropped, and the link stays off target |

Met on the way, without a run of their own:

* At the reboot cap rung 2 still power-cycles (`resilience.rs:108`), where the
  comment at `resilience.rs:128` and rung 4 of the README say that escalation
  stops.
* A status read that fills an empty cache overtakes notifications that are
  queued (`lib.rs:213`): the observer takes the newer value as its baseline and
  pushes the older ones as changes back. `PushesAreTrue` holds all the same,
  since the last of them is true.
* The README says that `ack` "reports whether the command reached the device"
  (line 142); it is the constant `true` (`lib.rs:246`), also when the gate timed
  out.
* The comment at `lib.rs:74` says that the lock keeps two commands from
  interleaving on the device. It belongs to an instance: the commands of an
  instance that is gone go on beside the new ones, which is the exception in
  `OtherZoneKept` and `DurationInPlace`. The battery poll reads outside of it.
* "Last one wins" (`lib.rs:237`) is true of the order in which tasks queue, not
  of the order in which messages arrive: each has a task of its own, and which is
  polled first is up to the runtime.
* A change the device makes to the other zone between the read of ff83 and the
  write is undone (the exception "turn" of `OtherZoneKept`): the protocol offers
  no way to write one switch.
* `docs/gaps.md:20` says "every observed zone transition is written", while an on
  and off between two looks of the observer are no difference.
* `docs/connection-interval.md` lists as an open item that the guard does not
  filter by handle, which it does (`is_own_link`), and without which
  `EventuallyPinned` would fail.

## 6. Not modelled, and what is left

Left for later, in this order:

1. Liveness of the escalation: that a device that stays away is answered by a
   power-cycle and a reboot, under an assumption on how often MQTT fails (each
   failure empties the streak).
2. The composition of the supervisor's sessions with its failures, and of its
   gate with the commands: with a clock, how long a command may wait behind
   others and whether a backoff can outlast the gate.

Assumed or cut short:

* `Settled` (`StatusPath`): the scan of ten seconds outlasts the queues and reads
  of the link before it.
* Every notification of ff82 parses. One that does not is logged and dropped
  (`lib.rs:748`), and the cache then stays behind the device until the next.
* An aborted supervisor whose power-cycle, save or reboot blocks for longer than
  the ten seconds before the next instance (`lib.rs:834`) does not overlap with
  it (`Escalation`).
* The clock of the host is not set back (`Escalation`).
* `EveryCommandEnds` has no clock: that a command may give up in the moment the
  link is ready is a step of the model (`GateTimesOut`), how often it happens, and
  how long those behind it wait, is not a question it can answer.

Left out for good: the battery poll (no state, and its interference is a failed
operation), the zone names, the layout of HCI events and sockets, the MQTT and
InfluxDB clients and the configuration but for its range of intervals, which have
no state of their own. The retained-message and QoS behaviour of the broker is
outside the program.
