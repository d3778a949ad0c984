---------------------------- MODULE StrategyInputs ----------------------------
(***************************************************************************)
(* What the strategies of StrategyManagerAdapter live in: the device as    *)
(* StandbyPromise describes it, the applications with their processes,     *)
(* background tasks and exemptions, the day and the night, and the queue   *)
(* of the event handler through which every message of DispatchEvent       *)
(* reaches the strategies, in order and late.  A strategy asks the other   *)
(* services for their present state when it builds its table, so that the  *)
(* table may be ahead of the messages that are still in the queue.         *)
(***************************************************************************)
EXTENDS Naturals, Sequences, FiniteSets

CONSTANTS
  App,             \* the applications, each with a uid and a bundle name
  Pid,             \* the processes
  AppOf,           \* the application of a process
  SystemApp,       \* system applications
  ForegroundApp,   \* applications in the foreground: their processes stay
  ConditionalApp,  \* in conditional_restrict_net_app
  ResourceConfig,  \* the entries of defaultResourceConfigMap_
  TaskService,     \* the tasks whose service may crash
  TasksOf,         \* the background tasks an application may start
  AllowsOf,        \* the requests for exemptions an application may make
  ClockRuns,       \* whether day and night change
  MaxQueue,        \* bound: tasks and messages in the queue of the handler
  MaxLosses        \* bound: how often the service loses its readiness

TaskFlag == {"CONTINUOUS_TASK", "TRANSIENT_TASK", "WORK_SCHEDULER"}
Flag == TaskFlag \cup {"FOREGROUND_APP", "UNRESTRICTED", "EXEMPTION", "RESTRICTED"}
Resource == {"NETWORK", "RUNNING_LOCK"}
Condition == {"DAY_STANDBY", "NIGHT_STANDBY"}

ASSUME AppAssumption ==
  /\ AppOf \in [Pid -> App]
  /\ SystemApp \subseteq App /\ ForegroundApp \subseteq App
  /\ ConditionalApp \subseteq App
  /\ ResourceConfig \subseteq [resource : Resource, isAllow : BOOLEAN,
                              conditions : SUBSET (SUBSET Condition), apps : SUBSET App]
  /\ TaskService \subseteq {"TRANSIENT_TASK", "WORK_SCHEDULER"}
  /\ TasksOf \in [App -> SUBSET TaskFlag]
  /\ AllowsOf \in [App -> SUBSET (SUBSET Resource)]
  /\ ClockRuns \in BOOLEAN /\ MaxQueue \in Nat /\ MaxLosses \in Nat

VARIABLES
  cur, opener,     \* the device
  phaseDue,        \* the next phase of sleep to be reported, 0 if none
  queue,           \* the handler: tasks and messages
  running,         \* the processes that live
  tasks,           \* the background tasks of each application
  allowed,         \* the exemptions of each application
  night,           \* TimeProvider::GetCondition
  switching,       \* the day and night timer expired, its task is queued
  losses           \* how often the service lost its readiness

inputs == <<cur, opener, phaseDue, queue, running, tasks, allowed, night,
            switching, losses>>

Device == INSTANCE StandbyPromise WITH
  on <- FALSE, charging <- FALSE, restricted <- FALSE

State == {"WORKING", "DARK", "NAP", "MAINTENANCE", "SLEEP"}
AppResDeep == 1    \* SleepStatePhase::APP_RES_DEEP
EndPhase == 3      \* SleepStatePhase::END, here with APP_RES_HARDWARE

-----------------------------------------------------------------------------
(* Messages.                                                               *)

StateTransit(pre, now) == [type |-> "STATE_TRANSIT", pre |-> pre, cur |-> now]
PhaseTransit(state, phase) == [type |-> "PHASE_TRANSIT", cur |-> state, phase |-> phase]
AllowListChanged(a, types, added) ==
  [type |-> "ALLOW_LIST_CHANGED", app |-> a, allowType |-> types, added |-> added]
BgTaskStatusChange(a, task, started) ==
  [type |-> "BG_TASK_STATUS_CHANGE", app |-> a, task |-> task, started |-> started]
ProcessStateChanged(p, created) ==
  [type |-> "PROCESS_STATE_CHANGED", pid |-> p, isCreated |-> created]
SysAbilityStatusChanged(sa) == [type |-> "SYS_ABILITY_STATUS_CHANGED", sa |-> sa]
ResCtrlConditionChanged == [type |-> "RES_CTRL_CONDITION_CHANGED"]

(* AppStateObserver posts a task that calls OnProcessStatusChanged, which  *)
(* posts the message.                                                      *)
ProcessTask(p, created) == [type |-> "PROCESS_TASK", pid |-> p, isCreated |-> created]

Message ==
  {StateTransit(s, t) : s \in State, t \in State}
    \cup {PhaseTransit(s, n) : s \in {"NAP", "SLEEP"}, n \in {AppResDeep, EndPhase}}
    \cup {AllowListChanged(a, rs, b) : a \in App, rs \in SUBSET Resource, b \in BOOLEAN}
    \cup {BgTaskStatusChange(a, t, b) : a \in App, t \in TaskFlag, b \in BOOLEAN}
    \cup {ProcessStateChanged(p, b) : p \in Pid, b \in BOOLEAN}
    \cup {SysAbilityStatusChanged(sa) : sa \in TaskFlag}
    \cup {ResCtrlConditionChanged}

HandlerTask == Message \cup {ProcessTask(p, b) : p \in Pid, b \in BOOLEAN}

RoomFor(n) == Len(queue) + n <= MaxQueue

(* What came before the last loss of readiness may still be at work.       *)
stale == losses > 0

StatePending == \E i \in DOMAIN queue : queue[i].type = "STATE_TRANSIT"

-----------------------------------------------------------------------------
(* The device.                                                             *)

(* A wake-up with the screen off passes through WORKING to DARK.           *)
Transits(s, t) ==
  IF t = "DARK" /\ s # "WORKING"
  THEN <<StateTransit(s, "WORKING"), StateTransit("WORKING", "DARK")>>
  ELSE <<StateTransit(s, t)>>

(* A transition of the state machine.  Sleep begins its phases unless it   *)
(* comes back from maintenance, and opens no window before they are over.  *)
DeviceTransits ==
  /\ RoomFor(2)
  /\ \/ Device!Wake
     \/ Device!GoDark
     \/ Device!Settle
     \/ Device!OpenMaintenance /\ phaseDue = 0
     \/ Device!CloseMaintenance
     \/ Device!ForceSleep
  /\ cur' # cur
  /\ queue' = queue \o Transits(cur, cur')
  /\ phaseDue' = IF cur' = "SLEEP" /\ cur # "MAINTENANCE" THEN AppResDeep ELSE 0
  /\ UNCHANGED <<running, tasks, allowed, night, switching, losses>>

(* A phase of sleep ends: it is reported unless its constraints failed.    *)
SleepPhase ==
  /\ RoomFor(1)
  /\ cur = "SLEEP" /\ phaseDue # 0
  /\ queue' \in {queue, Append(queue, PhaseTransit("SLEEP", phaseDue))}
  /\ phaseDue' = IF phaseDue = AppResDeep THEN EndPhase ELSE 0
  /\ UNCHANGED <<cur, opener, running, tasks, allowed, night, switching, losses>>

(* A phase of nap ends, with the number of the deep phase of sleep.        *)
NapPhase ==
  /\ RoomFor(1)
  /\ cur = "NAP"
  /\ queue' = Append(queue, PhaseTransit("NAP", AppResDeep))
  /\ UNCHANGED <<cur, opener, phaseDue, running, tasks, allowed, night, switching, losses>>

(* The user's sleep state begins sleep once more, with its phases.         *)
SleepBeginsAgain ==
  /\ cur = "SLEEP"
  /\ phaseDue' = AppResDeep
  /\ UNCHANGED <<cur, opener, queue, running, tasks, allowed, night, switching, losses>>

-----------------------------------------------------------------------------
(* Applications.                                                           *)

IsRunning(a) == \E p \in running : AppOf[p] = a

(* OnProcessCreated and OnProcessDied.                                     *)
ProcessChanges(p) ==
  /\ RoomFor(1)
  /\ AppOf[p] \notin ForegroundApp
  /\ running' = IF p \in running THEN running \ {p} ELSE running \cup {p}
  /\ queue' = Append(queue, ProcessTask(p, p \notin running))
  /\ UNCHANGED <<cur, opener, phaseDue, tasks, allowed, night, switching, losses>>

(* A work may begin before the process that does it.                       *)
TaskChanges(a, t) ==
  /\ RoomFor(1)
  /\ t \notin tasks[a] => t = "WORK_SCHEDULER" \/ IsRunning(a)
  /\ tasks' = [tasks EXCEPT ![a] = IF t \in @ THEN @ \ {t} ELSE @ \cup {t}]
  /\ queue' = Append(queue, BgTaskStatusChange(a, t, t \notin tasks[a]))
  /\ UNCHANGED <<cur, opener, phaseDue, running, allowed, night, switching, losses>>

(* One request may be about several resources, and is reported at once.    *)
AllowChanges(a, rs, added) ==
  /\ RoomFor(1)
  /\ allowed' = [allowed EXCEPT ![a] = IF added THEN @ \cup rs ELSE @ \ rs]
  /\ allowed' # allowed
  /\ queue' = Append(queue, AllowListChanged(a, rs, added))
  /\ UNCHANGED <<cur, opener, phaseDue, running, tasks, night, switching, losses>>

(* The service of transient tasks or of works crashes, and its tasks with  *)
(* it.  That it comes back is a message all strategies ignore.             *)
ServiceCrashes(t) ==
  /\ RoomFor(1)
  /\ tasks' = [a \in App |-> tasks[a] \ {t}]
  /\ queue' = Append(queue, SysAbilityStatusChanged(t))
  /\ UNCHANGED <<cur, opener, phaseDue, running, allowed, night, switching, losses>>

-----------------------------------------------------------------------------
(* Day and night.                                                          *)

ConditionSwitches ==
  /\ ClockRuns /\ ~ switching
  /\ night' = ~ night /\ switching' = TRUE
  /\ UNCHANGED <<cur, opener, phaseDue, queue, running, tasks, allowed, losses>>

(* The task of DayNightSwitchCallback, without the timer it starts again.  *)
DayNightSwitch ==
  /\ RoomFor(1)
  /\ switching /\ switching' = FALSE
  /\ queue' = IF cur = "SLEEP" THEN Append(queue, ResCtrlConditionChanged) ELSE queue
  /\ UNCHANGED <<cur, opener, phaseDue, running, tasks, allowed, night, losses>>

-----------------------------------------------------------------------------
(* UninitReadyState and InitReadyState overtake what is in the queue: the  *)
(* state machine reports that it works again, and begins anew.  What the   *)
(* handler runs in between reaches no strategy; the rest reaches those of  *)
(* the new life, as does what was sent before.                             *)
ReadinessLost ==
  LET late == IF cur = "WORKING" THEN queue
              ELSE Append(queue, StateTransit(cur, "WORKING"))
  IN  /\ RoomFor(1) /\ losses < MaxLosses
      /\ cur' = "WORKING" /\ opener' = "none" /\ phaseDue' = 0
      /\ \E n \in 0..Len(late) : queue' = SubSeq(late, n + 1, Len(late))
      /\ losses' = losses + 1
      /\ UNCHANGED <<running, tasks, allowed, night, switching>>

(* The handler runs the task of the application state observer.            *)
OnProcessStatusChanged ==
  /\ queue # <<>> /\ Head(queue).type = "PROCESS_TASK"
  /\ queue' = Append(Tail(queue),
                     ProcessStateChanged(Head(queue).pid, Head(queue).isCreated))
  /\ UNCHANGED <<cur, opener, phaseDue, running, tasks, allowed, night, switching, losses>>

(* The handler takes a message out of the queue for the strategies.        *)
Dispatched ==
  /\ queue # <<>> /\ Head(queue).type # "PROCESS_TASK"
  /\ queue' = Tail(queue)
  /\ UNCHANGED <<cur, opener, phaseDue, running, tasks, allowed, night, switching, losses>>

InputsInit ==
  /\ Device!Init
  /\ phaseDue = 0 /\ queue = <<>>
  /\ running = {p \in Pid : AppOf[p] \in ForegroundApp}
  /\ tasks = [a \in App |-> {}] /\ allowed = [a \in App |-> {}]
  /\ night = FALSE /\ switching = FALSE /\ losses = 0

Around ==
  \/ DeviceTransits \/ SleepPhase \/ NapPhase \/ SleepBeginsAgain
  \/ \E p \in Pid : ProcessChanges(p)
  \/ \E a \in App : \E t \in TasksOf[a] : TaskChanges(a, t)
  \/ \E a \in App : \E rs \in AllowsOf[a], added \in BOOLEAN : AllowChanges(a, rs, added)
  \/ \E t \in TaskService : ServiceCrashes(t)
  \/ DayNightSwitch \/ OnProcessStatusChanged

InputsTypeOK ==
  /\ cur \in State /\ opener \in {"NAP", "SLEEP", "none"}
  /\ phaseDue \in {0, AppResDeep, EndPhase}
  /\ queue \in Seq(HandlerTask)
  /\ running \subseteq Pid
  /\ tasks \in [App -> SUBSET TaskFlag] /\ allowed \in [App -> SUBSET Resource]
  /\ night \in BOOLEAN /\ switching \in BOOLEAN /\ losses \in 0..MaxLosses

-----------------------------------------------------------------------------
(* Exemption flags of an application, shared by the strategies.            *)

(* ExemptionTypeFlag::IsExempted.                                          *)
IsExempted(flags) ==
  "EXEMPTION" \in flags \/ ("RESTRICTED" \notin flags /\ flags # {})

Given(condition, f) == IF condition THEN {f} ELSE {}

(* What the configuration allows or restricts when one of the conditions   *)
(* of the entry is met, as a set of bits; the empty one always is.         *)
GetEligiblePersistAllowConfig(r, condition, isAllow) ==
  UNION {c.apps : c \in {d \in ResourceConfig :
                           /\ d.resource = r /\ d.isAllow = isAllow
                           /\ \E bits \in d.conditions : bits \subseteq condition}}

GetPersistAllowList(r, isAllow) ==
  GetEligiblePersistAllowConfig(
    r, {IF night THEN "NIGHT_STANDBY" ELSE "DAY_STANDBY"}, isAllow)

GetAllowListInner(r) ==
  {a \in App : r \in allowed[a]} \cup GetPersistAllowList(r, TRUE)

(* What is allowed is not restricted.                                      *)
GetEligiableRestrictSet(r) == GetPersistAllowList(r, FALSE) \ GetAllowListInner(r)

(* What the two lists say of an application.                               *)
ListedFlags(a, r) ==
  Given(a \in GetAllowListInner(r), "EXEMPTION")
    \cup Given(a \in GetEligiableRestrictSet(r), "RESTRICTED")

SystemFlags(a) == Given(a \in SystemApp, "UNRESTRICTED")
=============================================================================
