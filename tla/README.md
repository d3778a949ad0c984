# Device standby: a TLA+ verification project

The repository is the device-standby service of OpenHarmony. When a device is not used it
walks through the states WORKING, DARK, NAP and SLEEP, opens MAINTENANCE windows in between,
and restricts the resources of applications (network, running locks) phase by phase.
Applications and system services can be exempted for a limited time through an *allow list*.
This directory holds models of the service's core, TLC configurations that check them on
small instances, and TLAPS proofs that hold for every instance.

## 1. Inventory of the system

| Component | State it keeps | Operations | Modelled in |
| --- | --- | --- | --- |
| State manager (`plugins/standby_state`, `plugins/ext/src/base_state.cpp`) | current and previous state, phase, next state and maintenance index of each state object, `isEvalution_`, `isBlocked_`, `scrOffHalfHourCtrl_`, timers, running lock | common events, time-outs, phase tasks, end of an evaluation, forced sleep, user sleep state | `StandbyStateManager` |
| Constraints (`plugins/extend_constraints`) | `isEvaluation_`, the monitor in use, sensors on, delayed tasks | start, stop, sensor callbacks, detection steps, final time-out | `StandbyStateManager` |
| Allow list (`services/core/src/standby_service_impl.cpp`, `allow_record.cpp`, `app_state_observer.cpp`) | `allowInfoMap_`, the file, delayed expiry tasks | apply, unapply, expiry, purge, death and uninstallation of applications, reload | `AllowList` |
| Running-lock strategy (`plugins/strategy`) | `proxiedAppInfo_`, `isProxied_`, `isIdleMaintence_`, locks proxied by the power manager | phase, state, process, task, exemption and condition messages | `RunningLockStrategy` |
| Network strategy (`plugins/strategy`) | `netLimitedAppInfo_`, firewall and idle flags; policy and trust list of the network manager | the same messages | `NetworkStrategy` |
| Strategy manager, timer and work-scheduler strategies | the list of strategies | create, destroy, pass on | `StandbyStrategies` |
| Life cycle (`standby_service.cpp`, `InitReadyState`, `UninitReadyState`) | `isServiceReady_`, mask of abilities, observers, the day and night timer | abilities come and go, tasks of high priority | `StandbyService` |
| Message listeners (`plugins/message_listener`) | `messageListenerList_`, subscriptions in other processes | start, stop, reports of tasks | `StandbyService`, `StrategyInputs` |
| Subscribers (`services/notification`) and client library | subscribers, two call-back maps with one date; cached proxy, death recipient | register, die, report, reconnect | `StandbySubscriber` |
| Day/night condition, timed tasks (`services/common`) | the timer | next switch, random delay, change of the zone | `DayNight` |
| Configuration (`utils/policy`) | parsed policies, their backup | reading files and the cloud, versions, debug switches | `StandbyConfigManager` |
| IPC proxies, language bindings, helpers, backup callbacks, logging | - | marshalling, forwarding | not modelled |

**How the parts interact.** One event-handler thread runs everything that changes the state
machine and the strategies; it takes tasks from a queue and runs each to its end. Other threads
(common-event bus, time service, sensors, IPC) only post tasks, except requests to the allow
list, which change it under `allowRecordMutex_`. A state change posts a STATE_TRANSIT message,
a phase change a PHASE_TRANSIT message; the strategies react to them. Timers live in the time
service: stopping one does not recall a callback that it has already issued.

**What is hard.** Late callbacks after a state was left; two flags for one evaluation in two
managers; a block flag that outlives its reason; a chain of phase tasks that an event can cut
or start twice; a running lock released on some of many paths; expiry tasks of old requests
against extended exemptions; a list read back after a crash; tables of applications kept in
step, message by message, with services that do not always answer; abilities that die and
return between two tasks of the handler; handles of processes that restarted; a date shared by
two maps; the date of one zone with the clock of another. `PROJECT.json` lists these hazards
with their lines and with the properties that cover them.

## 2. The modules

| Module | Content |
| --- | --- |
| `StandbyStateManager` | state machine, constraints, timers and handler queue; properties |
| `StandbyPromise` | what the state machine promises: an abstract transition system of six values |
| `MCStandbyStateManager` | instances for TLC, the refinement mapping to `StandbyPromise` |
| `StandbyStateManagerProofs` | the types of the state machine; its evaluation, timers and phase tasks: what every method does to them; that it implements `StandbyPromise`; that the running lock is released |
| `AllowList` | allow list, persistence, restarts; properties |
| `ExemptionService` | what the allow list promises: who is exempt until when, what is saved, what is told |
| `MCAllowList` | instances for TLC, the refinement mapping to `ExemptionService` |
| `AllowListProofs` | theorems about the allow list; that it implements `ExemptionService` |
| `StrategyInputs` | what the strategies are told and what they ask: messages, processes, tasks, exemptions, configuration; the device moves as `StandbyPromise` allows |
| `RunningLockStrategy`, `NetworkStrategy` | the two strategies, with the power and the network manager; properties |
| `StandbyStrategies` | their composition by the strategy manager over `StrategyInputs` |
| `MCStandbyStrategies` | instances for TLC |
| `StandbyStrategiesProofs` | theorems about messages and the running-lock strategy |
| `NetworkStrategyProofs` | theorems about the network strategy, on top of those |
| `StandbyService` | life cycle, observers, timer, listeners; properties |
| `StandbyServiceProofs` | theorems about the life cycle |
| `StandbySubscriber`, `MCStandbySubscriber` | subscribers and clients; properties and instances |
| `StandbySubscriberProofs` | theorems about subscribers and clients |
| `DayNight`, `MCDayNight` | the clock and the switch of day and night |
| `DayNightProofs` | theorems about them |
| `StandbyConfigManager`, `MCStandbyConfigManager` | files, sections, cloud, versions |
| `StandbyConfigManagerProofs` | theorems about the configuration |

Operators named after a mutation (`EndStateKeepsTimer`, `UpdateRecordNoMax`...) stand before
the definition they change; each is a plausible bug that the property next to it must catch.

### StandbyStateManager

The variable `sm` is the record of what the handler thread owns. A C++ method is an operator
from the record before the call to the record after it, so that a nested call is a nested
operator and the order of assignments is that of the code. Fields correspond to members:
`cur`/`pre` (`curStatePtr_`, `preStatePtr_`), `phase` (`curPhase_`), `next` (`nextState_`),
`index` (`maintIntervalIndex_`), `isEvalution` (state manager) and `isEvaluation` (constraint
manager), `monitor` (`curMonitor_`), `isBlocked`, `isRepeatedDetection`,
`scrOffHalfHourCtrl`, `isScreenOn`, `lock` (the standby running lock), `sensorOn`, `offLong`
(the screen has been off for half an hour), `armed` (timers started), `inflight` (callbacks
issued but not yet posted), `queue` (tasks of the handler) and `delayed` (motion tasks whose
delay runs). `RemoveTask` turns a task into a hole; the others keep their order.

Actions of the handler run the task at the head of the queue: `HandleCommonEvent`,
`CheckScreenStatus`, `TransitNextState`, `TransitNextPhase`, `StartPeriodlyMotionDetection`,
`MotionDetection` and `DispatchMessage`. Actions of other threads: `ScreenChanges`,
`ChargingChanges`, `OtherEventArrives`, `SensorServiceChanges`, `HalfHourElapses`,
`TimerExpires`, `TimerCallback`, `SensorReports`, `SensorCallback`, `MotionTaskDue`.

Abstractions: time-outs are armed timers that may expire at any time; sensor samples are one
report above the threshold; the charging status is a variable read when the charge monitor
asks; failure of the time service to start a timer, and null pointers, are left out. With
`SlowTimers = TRUE` a time-out (minutes) does not expire in the middle of phases or of a
detection (seconds), and an issued callback is posted before the next task runs; with `FALSE`
every interleaving is possible. The half-hour callback has a higher priority than queued tasks
and is one step.

### AllowList

`allowInfoMap` maps each key (`uid_name`) to a record or to `NoRecord`; `endTime` maps each
type to its end or to 0. `file` is the persisted map: `ParseToJson` writes, and `ParseFromJson`
reads, every field of the record in its own width, so that a record comes back as it was
written, while the reload drops records whose process is not seen. `expiries`, `removals` and
`purges` are the tasks of the handler, `running` the processes and `mirror` what a subscriber
has been told since the service started. When an application ends, its record goes with its last process,
or at once if the observer is told that the application has terminated. Each call takes the mutex
and is one step. Times are of the boot
clock; the handler's delays and `RecoverTimeLimitedTask` use the monotonic clock, which stands
still in suspension: tasks run when due or at any time later, and a reload sees a lag of at
most `MaxLag`. The conversion to `int32_t` is `Int32`, with `IntMax` as parameter. The mask
that a purge task reads without the lock is any mask.

`ExemptionService` keeps of this the ends, in memory (`ends`) and in the file (`saved`), what
subscribers were told and the clock: a step grants more to one application, withdraws some of
what it has, loses everything but the file, or takes the file back.

### The strategies

The composition has three layers. `StrategyInputs` moves the device by the actions of
`StandbyPromise`, which the state machine is shown to implement (`promise`), so that the
strategies meet every order of transitions and phases that the machine can make and not its
millions of inner states; it also starts and ends processes and tasks, changes exemptions, lets
the clock pass the switch of day and night, lets task services crash and the service lose its
readiness. Each of these puts the message of the code into `queue`. `RunningLockStrategy` and
`NetworkStrategy` handle the head of the queue: a C++ handler is an operator from the
strategy's record (`rl`, `ns`) and the other process's state (`proxied`, `net`) to the pair
after it. Building a table asks other services; `answers` says whether all, some or none reply.
`StandbyStrategies` gives each message to both. History variables name what the code misses:
`stray` (the proxy was restarted while off), `missed` and `heard` (a message was dropped),
`stale` (readiness was lost). Flags are sets of bits; a name and a uid are one application.

### StandbyService

`life` counts the starts of each ability, so that a handle carries the life it belongs to and a
handle of a dead process can be told from a live one. `notices` are the calls of samgr, in order
for each ability; `high` and `queue` are the two priorities of the handler, and a task of high
priority overtakes. The task of `InitReadyState` is two steps: `InitStateManager` makes the timers
of the states and asks for the screen (`state_manager_adapter.cpp:69`), `InitReadyState` does the
rest and sets `isServiceReady_` (`standby_service_impl.cpp:140`). Between them (`initTask` is
"begun") the other threads go on and `DispatchEvent` drops their messages. `InitReturns` is the task
that returns early: the service is ready, the time service is gone, or it fails (`initTask` is
"failed"), which nothing tries again.

`manager` is what a loss of readiness leaves in the state and constraint managers (screen, flags,
WORKING or not); the rest of those is in `StandbyStateManager`. A change of the screen is two steps:
`ScreenTurns` with `DispatchEvent`'s look at `isServiceReady_`, and `PostScreen` with its post, with
a loss of readiness or an Init possible between them (`dispatching`). Two fields are history:
`stray`, a screen message from before UnInit was still on its way when Init asked for the screen;
`missed`, the screen turned between the two halves of Init. An observer whose subscription failed is
`deaf`: it is not null, so that nothing subscribes again. Only the application manager's can be, as
`CommonEventObserver::Subscribe` of this repository always succeeds. `Without` takes an entry out of
a sequence (a listener off the list, a task out of the queue). It is assumed that samgr tells a
listener that is added of an ability that already runs.

### StandbySubscriber

A report (`ReportPowerOverused`, the report of an action, and the same from the shell) may overlap
with any other, for the same module too. Its steps are those between which other threads can act:
it reads the date (`Report`), takes the lock of its map and looks at `curDate_`
(`UpdateCallBackMap`), sets `curDate_` and clears the map if the date differs (`RenewCallBackMap`;
the other kind of report shares `curDate_` but not the lock), and tells the subscribers under
`subscriberLock_` (`NotifyByCallback`). `AddSubscriber` holds `subscriberLock_` (`adding`), but takes
the locks of the two maps one after the other and reads the date before each; its last step adds the
death recipient. A client's getting the proxy and asking to hear of its end are two steps. History
variables name what the properties need: `burst` (for a module, the reports under way now or last,
and their first day), `renewed` (the maps that were cleared for the day of `curDate_`), `setBack` (a
late report of yesterday has set `curDate_` back today), `unwatched` (a subscriber that was dead
before its recipient was added).

### DayNight, StandbyConfigManager

`DayNight`: a clock in steps of five minutes, UTC and the offset of the zone; `DiffToFixedClock` is
the code's arithmetic with `gmtime_r` and `mktime`. `StandbyConfigManager`: Init reads any number of
device files, then any number of strategy files, then compares their versions with the cloud's and
reads the cloud or not (`stage`). A device file is a function from sections to what parsing makes of
them (absent, entries taken, entries taken up to one in disorder), in the order in which the code
parses them; a strategy file is what it says of one resource. A version is a sequence of segments
with text and value; a segment that does not begin with a digit has no value and makes the
comparison -1, and a number without a leading zero has one text (`VersionAssumption`).

## 3. What TLC checks

| Run | Shows |
| --- | --- |
| `interleavings` | any interleaving, late callbacks included: the two evaluation flags agree (`EvalFlagsAgree`), sensors and detection tasks exist only in an evaluation (`SensorOnlyWhileEvaluating`), timers and phase tasks belong to the current state (`TimersOwned`, `PhaseTasksOwned`) |
| `promise` | with slow timers and seven kinds of events the machine implements `StandbyPromise` (`KeepsPromise`) |
| `liveness` | `EvaluationEnds`, `StandbyMovesOn`, `ScreenOnWakes`, `SleepPhasesComplete`, and `LockHasReleaser`: a held running lock has something under way that releases it |
| `allow_list` | requests, releases, deaths, purges, expiry, a crash, a reboot and a loss of readiness in any order: `RecordsConsistent`, `ExpiryPending`, `ExemptionsKept`, `ExemptionsEnd`, `SubscribersAgreeInOneLife`; it implements `ExemptionService` (`KeepsExemptionPromise`) |
| `strategies` | works, crashes, exemptions, a loss of readiness and resets by the screen: an awake device has no lock proxied (`AwakeNotProxied`) and is not under the idle policy (`AwakeNotLimited`); the table knows the processes (`TableKnowsProcesses`), no exemption outlives its task (`ExemptionEndsWithTask`), who is allowed is trusted (`AllowedIsTrusted`) |
| `strategies_night` | day and night change: what is proxied is what the table says, in and out of windows (`ProxiedMatchesTable`), and trust has a reason that still holds (`TrustHasReason`) |
| `service` | ready exactly when all it depends on runs (`ReadyFollowsDepends`, `BecomesReady`), handles of processes that run (`HandlesAreCurrent`), the timer armed (`DayNightArmed`), tasks heard (`BgTasksHeard`), the screen as it is (`StateFollowsScreen`) |
| `subscribers` | `ReportsReachSubscribers`, `YesterdayForgotten`, `DeadAreForgotten`, `StaleProxyIsDropped` |
| `config` | `MergedAsOrdered`: each entry is that of the source that should win, computed from the files; `CloudNotOlder` |
| `day_night` | `ConditionHeardInTime`, `TimerWaitsForSwitch` |

Two runs show where the code departs from what a comment says; the traces are counterexamples
that TLC prints, and `PROJECT.json` quotes the lines.

| Run | Shows |
| --- | --- |
| `unplugged` | a screen that goes off while charging blocks the working state, and unplugging does not unblock it; the same flag also survives a maintenance window that is left by a wake-up |
| `exempt_proxied` | a task that begins before the record of its process is not found again when the record is made: the lock is proxied all the same |

Several properties name an exception, which is a behaviour of the code that TLC found when the
property was stated without it. What such a property does not promise, it does not catch: the hazards
in `PROJECT.json` say for each what is covered and what is not.

| Property | Excepted |
| --- | --- |
| `StateFollowsScreen` | an evaluation that begins after UnInit and never ends; a screen message from before UnInit that runs after the next Init (`stray`); a change of the screen between the two halves of Init (`missed`) |
| `ReadyFollowsDepends`, `BecomesReady` | an Init that failed although the time service runs (`initTask` is "failed") |
| `HandlesAreCurrent` | an observer whose subscription failed (`deaf`) |
| `DayNightArmed` | a registration of the timer that failed |
| `ReportsReachSubscribers` | of reports that overlap it promises one, not the one that is in the map; a late report of yesterday that sets the date back (`setBack`) |
| `YesterdayForgotten` | a map that was not cleared because a report of the other kind had begun the day (`renewed`) |
| `DeadAreForgotten`, `StaleProxyIsDropped` | a death before the recipient was added |
| `ProxiedMatchesTable`, `AwakeNotProxied` | a restart of the proxy while off (`stray`), a loss of readiness (`stale`) |
| `TableKnowsProcesses`, `ExemptionEndsWithTask` | messages that a maintenance window swallowed (`missed`) |
| `AllowedIsTrusted`, `TrustHasReason` | what was said while the policy was off, a table built from services that did not answer, a crash of a task service (`heard`); a loss of readiness (`stale`) |
| `SubscribersAgreeInOneLife` | reloads, which drop records without a report |
| `ExpiryPending` | remaining times that do not fit `int32_t` |
| `ConditionHeardInTime` | the evening west of UTC, a change of the zone over a switch |
| `CloudNotOlder` | versions that are missing, padded or malformed |

**Bounds.** `MaxQueue` limits when other threads add to the queue (the handler's own posts are
not limited): 2 lets an event and a callback wait together in front of a running chain of
phases. `MaxInflight = 1` lets one callback be late, which is what a race needs. One or two
maintenance intervals reach the end of the list. In `AllowList` durations 1 and 2 with three
units of time let a second, shorter or longer request overlap the first; one application
suffices as records do not interact (all state is per key). `MaxRestart = 1` gives one crash,
reboot or loss of readiness; the proofs below need none of these bounds. The strategies have an
application and a system application with a process each, one task service, and two messages
that may wait, so that a message is overtaken by what it tells of. Losses of readiness and the
change of day and night are in separate runs, since both together exceed what TLC does in
minutes: one has works, whose service may crash, the other a continuous task, which night ends.`StandbyService` has three of the
seven abilities (the time service, the input service, and the application manager with its observer,
the others being only bits of the mask), two faults, each the death of an ability or a call that fails
without cause (an ability that dies again while the first death is handled; a failure while it is
away), and one message of low priority that others may have waiting, besides what the service posts
itself and one change of the screen that is being dispatched. `StandbySubscriber` has one client, as
clients share only the list with its lock and the maps, which they read, a module that nobody subscribed to besides its own, two values,
two days, two lives of the service and two reports, which may overlap. `DayNight` runs three days with thirteen
zones; the configuration has at most two files of each kind and three in all before the cloud, two
entries, three sections of different merging and four versions, one padded and one with a segment that
is no number.

**Events left out of a run.** `interleavings` has the events of screen and charger and the forced
sleep; the user's sleep state, whose repetition multiplies the states, is in `promise`.
`LockHasReleaser` is checked in `liveness`, with screen events only, and proved for all events but
USER_AWAKE: three or more of these in a row begin the sleep state again while its phases run, and
the second chain takes the lock after the first has released it (a hazard in `PROJECT.json`).
`SleepPhasesComplete` leaves out forced sleep, which, entered out of a maintenance window,
resumes the sleep state without its phases. A repeated SCREEN_UNLOCKED with the screen off
begins dark again and again and is not in `liveness`.

**Fairness.** The handler thread runs as long as its queue is not empty (`WF` of `Handler`);
an armed timer expires, an issued callback is posted and a delay ends (`WF` of `TimerExpires`,
`TimerCallback`, `SensorCallback`, `MotionTaskDue`): the time service and the event runner
guarantee these. Nothing is assumed of the screen, charger, sensors, events or applications.
In `AllowList` time passes, due tasks run, and the service becomes ready again (the ability
manager reports the abilities it depends on). In `StandbyService` samgr delivers its notices and
the handler takes its tasks; nothing is assumed of the abilities.

## 4. What is proved

The proofs hold for any configuration, any set of events, applications, resources, processes,
abilities and clients, any limits and any bounds; TLC checks small instances. Every safety
property that a passing run checks is a theorem.

| Theorem | Property | Hypothesis |
| --- | --- | --- |
| `StandbyStateManagerProofs!TypeCorrect` | `TypeOK` | |
| `StandbyStateManagerProofs!EvalFlagsAgreeHolds`, `SensorOnlyWhileEvaluatingHolds`, `TimersOwnedHolds`, `PhaseTasksOwnedHolds` | the invariants of those names | |
| `StandbyStateManagerProofs!KeepsPromiseHolds` | `KeepsPromise` (refinement) | `SlowTimers` |
| `StandbyStateManagerProofs!LockHasReleaserHolds` | `LockHasReleaser` | `SlowTimers`, USER_AWAKE not among `Events` |
| `AllowListProofs!TypeCorrect`, `ConsistencyHolds`, `ExemptionsKeptHolds`, `SubscribersAgreeHolds` | `TypeOK`, `RecordsConsistent`, `ExemptionsKept` (action property), `SubscribersAgreeInOneLife` | |
| `AllowListProofs!KeepsExemptionPromiseHolds` | `KeepsExemptionPromise` (refinement) | |
| `AllowListProofs!ExpiryPendingHolds` | `ExpiryPending` | `MaxTime + MaxLag <= IntMax` |
| `StandbyStrategiesProofs!ProxiedMatchesTableHolds`, `AwakeNotProxiedHolds`, `TableKnowsProcessesHolds`, `ExemptionEndsWithTaskHolds` | the invariants of those names | |
| `NetworkStrategyProofs!AwakeNotLimitedHolds`, `AllowedIsTrustedHolds` | the invariants of those names | |
| `NetworkStrategyProofs!TrustHasReasonHolds` | `TrustHasReason` | `RestrictedUnmoved` |
| `StandbyServiceProofs!ServiceInvHolds`, `ServiceTypeCorrect`, `ReadyFollowsDependsHolds`, `HandlesAreCurrentHolds`, `DayNightArmedHolds`, `BgTasksHeardHolds`, `StateFollowsScreenHolds` | `ServiceInv`, `TypeOK` and the invariants of those names | |
| `StandbyConfigManagerProofs!ConfigInvHolds`, `MergedAsOrderedHolds`, `CloudNotOlderHolds` | `ConfigInv` and the invariants of those names | |
| `DayNightProofs!TimerWaitsForSwitchHolds`, `ConditionHeardInTimeHolds` | the invariants of those names | |
| `StandbySubscriberProofs!TypeCorrect`, `ReportsReachSubscribersHolds`, `YesterdayForgottenHolds`, `DeadAreForgottenHolds`, `StaleProxyIsDroppedHolds` | `TypeOK` and the invariants of those names | |

The other assumptions are those that the modules name on their constants (`SwitchAssumption`,
`IntervalAssumption`, `EventAssumption`, `PidAssumption`, `DurationAssumption`,
`BoundAssumption` and the like); TLC evaluates them in the runs.

**State machine.** *Types*: `Good(s)` (typed, the maintenance index inside the configured list) is
kept by each assignment of a field, hence by each method, hence by each task. *Transitions*: the
invariant `Inv` is `Good(sm) /\ Safe(sm) /\ CallbacksIn(sm)`. `Safe` adds to the four properties
what makes them inductive: a queued task of a timer or of the motion monitor is one that its state
or its evaluation may have posted, and the target of a time-out fits the state that armed it. Each
method has a lemma that says what it leaves alone (`SameEval`, `Same`, `OnlyMessages`), so that a
nested call is a chain of lemmas. Late callbacks are in: nothing is assumed of timers.
*Refinement*: with `SlowTimers` no callback is late, and `Calm` holds besides: an evaluation is open
only in nap and sleep, the half-hour restriction lasts only through sleep and its windows, and
dark, nap and the windows of nap have the screen off. From it each method `Keeps` the promise or
stutters. Without `SlowTimers` a late time-out moves a working device to dark, which the promise
forbids; the first hazard in `PROJECT.json` is about it.
*Running lock*: the lock is taken for a chain of phase tasks and for an evaluation in nap, and each
step of a chain either posts the next or releases it. `Linked` says what makes this work. In nap at
most one phase task waits, one waits exactly while phases are left, and nothing is evaluated
meanwhile (`NapChain`). Sleep is not so orderly: `TransitHoldSleepState` (forced sleep,
USER_SLEEP) may put it on an evaluating nap, whose evaluation then ends inside sleep and goes a phase on as well, or out of
a maintenance window, with phases left and no task. What holds is weaker (`SleepChain`): of the
phase tasks of sleep, however many, the one that takes the lock is the first, and it runs before
the last phase; motion is detected again only when the phases are through. While a state is `Busy`
(a phase task waits, or such an evaluation is open) no time-out is on its way, and a time-out or
evaluation of dark or nap leads to another state (`Leads`). `Releases` is then inductive: a held
lock has a phase task or an evaluation in nap or sleep, and in sleep phases are left, so that the
step which ends them finds it held and releases it; each phase of sleep only `Deepens` it. All of
this needs `SlowTimers` (else a time-out cuts the chain), and that USER_AWAKE is not among `Events`:
it begins the sleep state anew, and TLC finds two chains, of which the second takes the lock after
the first has released it (see *Events left out of a run*). So the hypothesis cannot be weakened.

**Allow list.** `ConsistencyHolds` uses the lemmas `ApplyEffect` and `UnapplyEffect`, which say
exactly which ends a call changes; `StepKinds` reduces the specification to five kinds of steps.
The invariant of `ExpiryPendingHolds` is `TypeOK /\ RecordsConsistent /\ EndsInTime /\
ExpiryPending`: consistency is needed because `UnapplyAllowResInner` returns early when masks do
not meet, and `EndsInTime` because the conversion to `int32_t` is the identity only on what fits.
With a smaller `IntMax` TLC finds a violation: the hypothesis cannot be dropped.
*Refinement*: each of the five kinds of steps is a step of `ExemptionService` or changes nothing in
it. That needs `RecordsConsistent`: what is told are masks, what is promised are ends, and a reload
takes from the file what has no record, the promise what has no exemption. `ApplyTells` and
`UnapplyTells` say that just the changed types are told; that other applications are left alone is
shown here only, as the run has one application.

**Strategies.** A strategy knows the device only by messages. Both invariants say so with a witness
`f`: `f[i]` is the state that the strategies are told of by the first `i` messages of the queue, a
state change leads from `f[i - 1]` to `f[i]`, and the last one is the state of the device
(`Chained`). What a strategy holds fits `f[0]` (`LockTold`, `NetTold`). `News` says which messages
the queue still owes about processes, tasks and exemptions; with it, the table differs from the
truth only by messages that wait (`KnowsProcesses`, `KnowsTasks`, `RunningAreKnown`,
`FlagsHaveReasons`), also while it is built from services that answer in part or not at all. The
properties are what is left of these with an empty queue. `RestrictedUnmoved` says that an
application in the restrict list is neither conditional nor ever on the allow list for the network:
`AddExemptionFlag` clears RESTRICTED and no one sets it again, so that with such an application
`TrustHasReason` fails (a hazard in `PROJECT.json`).

**Life cycle.** `ServiceInv` has one part for each promise, which says what holds before the service
has caught up: samgr's notices of an ability alternate and end with the truth (`NoticesInTurn`);
the tasks of high priority that wait lead to readiness exactly if the mask is full, unless an Init
failed (`TasksFollowDepends`), and one that has begun is the first of them (`InitUnderWay`); an
observer is there exactly while the mask has its ability, and of the
process that runs unless a notice is on its way (`ObserversFollowDepends`, and `StateTimersKept` for
the timers of the states); the timer is usable and armed, or a
task that starts it waits (`TimerUsable`, `TimerArmed`); the lid listener is on the list once
(`LidsListed`); the background tasks are heard or the task that subscribes waits
(`BgTasksComing`); from the first half of Init on, the managers will believe the screen
as it is once the message being dispatched is posted and the waiting ones are handled, but for a
`stray` or `missed` change (`ScreenBelieved`), and a state that does not fit it is checked by a task
(`ScreenChecked`).
`TypeOK` is proved together with these, since it relates the timer to the time service's process.
`Without` is recursive; what it leaves in a sequence is proved by induction from a least
counterexample (`LeastNumber`, `UpTo`), which needs no induction schema.

**Subscribers.** `Inv` contains the properties and what makes them inductive. Of the list: a client
is listed once (`ListedOnce`), one is added at a time (`OneAdding`), a service that is down has no list
and no reports (`DownIsEmpty`), a listed client that lives is watched or being added
(`AliveAreWatched`), one that is not listed has been told nothing (`UnlistedAreUntold`). Of the maps,
against reports that overlap (`MapInv`): the lock admits one report that renews a map (`OneLocked`), a
report is among those of its burst (`ReportsOfBurst`), a renewed map holds values of the day of
`curDate_` only (`RenewedIsCurrent`, from which `YesterdayForgotten` follows), and, until a late
report sets `curDate_` back, what is of today in a map was entered after `curDate_` became today
(`TodayIsCurrent`), no report that is about to clear its map finds anything of today in it
(`ClearsNothingOfToday`), and when the reports of a module have updated the map one of them is in it
(`BurstIsInMap`). A subscriber that is told with the day before, which it read at midnight, will hear
of the reports of today from themselves (`LateIsToldAgain`).

**Day and night.** The length of a day is a parameter, so the arithmetic is not linear; it becomes so
by naming the midnight before a time (`Midnight`, a multiple of the day; `TimeOfDay`: each time has
one). `SwitchTime` says which switch the timer is started for, over all positions of the date of UTC
against that of the zone; `ClockInv` adds to an armed timer the switch it expires at, and that the
device has been in no other period since. From UTC-12 to UTC+14 the two dates are at most one day
apart, which is where the bounds of `ClockAssumption` are used.

**Configuration.** `ConfigInv` says where each value comes from: an entry is merged (`MergedOf`) from
the set of files that offer it, until the shell is used; the backup holds what was merged, unless the
shell was misused; a resource has its raw form from the last source that mentions it and its parsed form from the last
that could be parsed (`LastSourceIs`, `ResourceParsed`); and the stage is what the
versions decided. A file that is read adds one number to that set, greater than all in it
(`MergedLater`), and changes an entry exactly if it offers it (`DeviceGives`, `CloudGives`).
Both `ParseSections` and `GetParamVersion` are folds of the library, that is functions over sets of
places. That such a function exists, and how it goes from one place to the next, is shown by
induction from a least counterexample (`LeastNumber`, `UpTo`, `SectionBySection`, `VersionByVersion`).
For versions, `NotOlder` is the lexicographic order of four numbers (`NotOlderIs`), total and
transitive, and `CompareVersion` agrees with it where no segment is padded (`ComparesNumbers`): texts
that differ are then numbers that differ. So `GetParamVersion` finds a newest version of any list
(`NewestFound`), the comparison of the two lists the newest of both, also when one is empty
(`NewestOfAll`), and the decision is as promised (`DecisionIs`).

**What the proofs changed in the models.** Attempts that failed for a reason led to: the history
`stray` of `StandbyService`, because an earlier model, in which a message was dispatched in one step and only one
could wait, hid a SCREEN_OFF that
is queued before UnInit, run after the next Init and believed although the SCREEN_ON had been
dropped (`standby_service_impl.cpp:371` and `:1653`); the hypothesis `RestrictedUnmoved`; guards of
CASE expressions that overlapped, whose value TLA+ leaves open; bounds of `StandbySubscriber` that
must be positive; `VersionAssumption`, without which the order of the texts says nothing of the
numbers. Each is now checked by TLC as well.

**Only model-checked**: the liveness properties (`EvaluationEnds`, `StandbyMovesOn`,
`ScreenOnWakes`, `SleepPhasesComplete`, `ExemptionsEnd`, `BecomesReady`), since fairness and
`ENABLED` are outside the prover.

## 5. Plan

Done: all the components of the inventory that keep state, and a theorem for each safety property
of a passing run. What is left is the liveness, which stays with TLC.

## 6. Not modelled

Proxies, stubs and language bindings marshal without state. Helpers wrap remote calls; their
failures appear where they change state. Callbacks of backup and restore are registered by
plug-ins outside the repository. The cached device states and the forwarding of Bluetooth,
thermal and audio events are read by other processes only. Of the shell's debugging commands the
switches of the configuration are modelled; the others bypass the rules on purpose. JSON text is
abstracted to which entries are taken. Logging, tracing and reporting are output.

Failures that are left out:
- calls of the strategies to the power and the network manager succeed. The error paths of
  `SetFirewallStatus` and `ResetFirewallAllowList` (`base_network_strategy.cpp:590-635`) leave the
  network manager as it was, and `AwakeNotLimited` would hold only as far as it answers. That
  `GetAppRunningStateByBundleName` fails (`:494`) is left out, too; a name and a uid are one
  application there;
- the timers of the states can be started (`StandbyStateManager`); that they cannot be created is in
  `StandbyService`;
- of Init, the strategies, the constraints and the listeners succeed
  (`standby_service_impl.cpp:125-136`): they fail only on a null pointer, or always, in a mode of the
  device without listeners (`listener_manager_adapter.cpp:39`);
- an element of the wrong type in a list of the configuration, on which `ParsePkgTypeList`,
  `ParseIntervalList` and `ParseBatteryList` throw (`standby_config_manager.cpp:653`, `:672`, `:877`);
  nothing in the repository catches it, so that Init does not end.
