------------------------- MODULE StandbyStateManager -------------------------
(***************************************************************************)
(* The standby state machine of the device: StateManagerAdapter, its five  *)
(* state objects, the constraint manager with the charge and motion        *)
(* monitors, and the timers that drive them.                               *)
(*                                                                         *)
(* Everything below runs on the one thread of the service's event handler: *)
(* a task is taken from the queue and runs to its end.  Concurrency comes  *)
(* from the other threads, which only post tasks: the common-event bus,    *)
(* the callbacks of the time service and the callbacks of the sensors.     *)
(* The state the handler thread owns is one record, sm; a C++ method is an *)
(* operator from the record before the call to the record after it, so     *)
(* that a nested call is a nested operator.                                *)
(***************************************************************************)
EXTENDS Integers, Sequences, FiniteSets

CONSTANTS
  NapSwitch, SleepSwitch, DetectMotion, \* standby switches of the configuration
  HasSensor,        \* MotionSensorMonitor::Init found a usable sensor
  NapInterval, SleepInterval,  \* maintenance intervals (seconds), empty: none
  Events,           \* the common events that can arrive
  MaxQueue,         \* bound: other threads add to a queue shorter than this
  MaxInflight,      \* bound: callbacks of timers and sensors under way at once
  SlowTimers        \* TRUE: time-outs (minutes) outlast phases and detections
                    \* (seconds) and a callback reaches the queue before the
                    \* handler's next task; FALSE: any interleaving

State == {"WORKING", "DARK", "NAP", "MAINTENANCE", "SLEEP"}
PhasedState == {"NAP", "SLEEP"}
EndPhase == 3       \* NapStatePhase::END and SleepStatePhase::END

(* The names of the phases a state enters after its first one.             *)
PhaseName == [NAP   |-> <<"SYS_RES_LIGHT", "APP_RES_LIGHT", "END">>,
              SLEEP |-> <<"APP_RES_DEEP", "APP_RES_HARDWARE", "END">>]

(* The order of the StandbyState enumeration.                              *)
Level == [WORKING |-> 0, DARK |-> 1, NAP |-> 2, MAINTENANCE |-> 3, SLEEP |-> 4]

WakeEvent == {"SCREEN_ON", "SCREEN_UNLOCKED", "CHARGING",
              "USB_DEVICE_ATTACHED", "LID_OPEN"}
CommonEvent == WakeEvent \cup {"SCREEN_OFF", "DISCHARGING", "USER_SLEEP",
                               "USER_AWAKE", "ENTER_FORCE_SLEEP", "OTHER"}

ASSUME SwitchAssumption ==
  /\ NapSwitch \in BOOLEAN
  /\ SleepSwitch \in BOOLEAN
  /\ DetectMotion \in BOOLEAN
  /\ HasSensor \in BOOLEAN
  /\ SlowTimers \in BOOLEAN

ASSUME IntervalAssumption ==
  /\ NapInterval \in Seq(Nat \ {0})
  /\ SleepInterval \in Seq(Nat \ {0})

ASSUME EventAssumption == Events \subseteq CommonEvent /\ MaxQueue \in Nat /\ MaxInflight \in Nat

VARIABLES
  sm,         \* what the handler thread owns
  screenOn,   \* the screen itself
  charging,   \* the battery service's charging status
  sensorOk    \* whether subscribing and activating the sensors succeeds

vars == <<sm, screenOn, charging, sensorOk>>

-----------------------------------------------------------------------------
(* Tasks of the handler and timers of the time service.                    *)

StateTimer == {"DARK", "NAP", "MAINTENANCE", "SLEEP"}
Timer == StateTimer \cup {"REPEATED", "HALF_HOUR"}
MotionStep == {"moved", "stop", "restart", "total"}

TaskName == {"EVENT", "CONDITION", "NEXT_STATE", "NEXT_PHASE", "REPEATED",
             "MOTION", "STATE_TRANSIT", "PHASE_TRANSIT",
             "SCREEN_OFF_HALF_HOUR", "REMOVED"}
TaskArg == CommonEvent \cup MotionStep \cup State
             \cup {PhaseName[st][i] : st \in PhasedState, i \in 1..EndPhase}
             \cup {"acquire", "on", "off", "none"}

(* A task carries the name RemoveTask knows it by, the state object its    *)
(* closure captured and its argument.  The last four names are messages    *)
(* of DispatchEvent on their way to the strategies, and the hole that a    *)
(* removed task leaves: the other tasks keep their order.                  *)
Task == [name : {"MOTION"}, owner : State, arg : MotionStep]
          \cup [name : TaskName \ {"MOTION"}, owner : State, arg : TaskArg]

TaskOf(n, o, a) == [name |-> n, owner |-> o, arg |-> a]
Removed == TaskOf("REMOVED", "WORKING", "none")

PostTask(s, n, o, a) == [s EXCEPT !.queue = Append(@, TaskOf(n, o, a))]

RemoveTask(s, n) ==
  [s EXCEPT !.queue = [i \in DOMAIN @ |-> IF @[i].name = n THEN Removed ELSE @[i]]]

Pending(s, n) == \E i \in DOMAIN s.queue : s.queue[i].name = n

MotionQueued(s, steps) ==
  \E i \in DOMAIN s.queue : s.queue[i].name = "MOTION" /\ s.queue[i].arg \in steps

(* SetTimedTask and StartTimer; StopTimer does not reach a callback that   *)
(* the time service has already issued.                                    *)
StartTimer(s, t) == [s EXCEPT !.armed = @ \cup {t}]
StopTimer(s, t)  == [s EXCEPT !.armed = @ \ {t}]

AcquireStandbyRunningLock(s) == [s EXCEPT !.lock = TRUE]
ReleaseStandbyRunningLock(s) == [s EXCEPT !.lock = FALSE]

-----------------------------------------------------------------------------
(* The half-hour control: after half an hour of dark screen a sleeping     *)
(* device is restricted further.                                           *)

OnScreenOffHalfHourInner(s, ctrl) ==
  IF \/ ctrl /\ ~ (s.cur = "SLEEP" \/ (s.pre = "SLEEP" /\ s.cur = "MAINTENANCE"))
     \/ s.scrOffHalfHourCtrl = ctrl
  THEN s
  ELSE PostTask([s EXCEPT !.scrOffHalfHourCtrl = ctrl],
                "SCREEN_OFF_HALF_HOUR", s.cur, IF ctrl THEN "on" ELSE "off")

-----------------------------------------------------------------------------
(* BeginState, EndState and CheckTransitionValid of the five states.       *)

(* CalculateMaintTimeOut: the interval index to use and its interval.      *)
MaintInterval(st) == IF st = "NAP" THEN NapInterval ELSE SleepInterval

NextIndex(s, st) ==
  IF s.index[st] + 1 < Len(MaintInterval(st)) THEN s.index[st] + 1
  ELSE Len(MaintInterval(st)) - 1

HasInterval(st, i) == Len(MaintInterval(st)) > 0 /\ MaintInterval(st)[i + 1] > 0

(* Mutant of ResumeFromMaint: the index is not kept below the list's size. *)
ResumeWithoutMin(s, st) ==
  LET s1 == [s EXCEPT !.index[st] = @ + 1]
  IN  IF HasInterval(st, s.index[st]) THEN StartTimer(s1, st) ELSE s1

(* Both phased states come back from maintenance by waiting out their next *)
(* interval, with the phase they had.                                      *)
ResumeFromMaint(s, st) ==
  IF Len(MaintInterval(st)) = 0 THEN s
  ELSE LET s1 == [s EXCEPT !.index[st] = NextIndex(s, st)]
       IN  IF HasInterval(st, s1.index[st]) THEN StartTimer(s1, st) ELSE s1

BeginWorking(s) == PostTask(s, "CONDITION", "WORKING", "none")

BeginDark(s) == IF s.next["DARK"] # "DARK" THEN StartTimer(s, "DARK") ELSE s

BeginNap(s) ==
  IF s.pre = "MAINTENANCE"
  THEN ResumeFromMaint([s EXCEPT !.next["NAP"] = "MAINTENANCE"], "NAP")
  ELSE LET s1 == [s EXCEPT !.index["NAP"] = 0, !.phase["NAP"] = 0]
           s2 == IF SleepSwitch
                 THEN StartTimer([s1 EXCEPT !.next["NAP"] = "SLEEP"], "NAP")
                 ELSE s1
       IN  PostTask(s2, "NEXT_PHASE", "NAP", "acquire")

(* Mutant of BeginMaintenance: the timer that ends the window is not set.  *)
BeginMaintenanceUntimed(s) == [s EXCEPT !.next["MAINTENANCE"] = s.pre]

BeginMaintenance(s) ==
  StartTimer([s EXCEPT !.next["MAINTENANCE"] = s.pre], "MAINTENANCE")

BeginSleep(s) ==
  LET s0 == [s EXCEPT !.isRepeatedDetection = FALSE]
  IN  IF s.pre = "MAINTENANCE"
      THEN ResumeFromMaint(s0, "SLEEP")
      ELSE LET s1 == [s0 EXCEPT !.index["SLEEP"] = 0, !.phase["SLEEP"] = 0]
               s2 == StartTimer(PostTask(s1, "NEXT_PHASE", "SLEEP", "acquire"), "SLEEP")
           IN  IF s2.offLong THEN OnScreenOffHalfHourInner(s2, TRUE) ELSE s2

BeginState(s) ==
  CASE s.cur = "WORKING"     -> BeginWorking(s)
    [] s.cur = "DARK"        -> BeginDark(s)
    [] s.cur = "NAP"         -> BeginNap(s)
    [] s.cur = "MAINTENANCE" -> BeginMaintenance(s)
    [] s.cur = "SLEEP"       -> BeginSleep(s)

(* Mutants of EndState: a state leaves a timer, or a phase task, behind.   *)
EndStateKeepsTimer(s) ==
  CASE s.cur = "WORKING" -> RemoveTask(s, "CONDITION")
    [] s.cur \in PhasedState ->
         RemoveTask(RemoveTask(StopTimer(s, s.cur), "NEXT_STATE"), "NEXT_PHASE")
    [] OTHER -> RemoveTask(StopTimer(s, s.cur), "NEXT_STATE")
EndStateKeepsPhase(s) ==
  CASE s.cur = "WORKING" -> RemoveTask(s, "CONDITION")
    [] s.cur = "SLEEP" -> RemoveTask(StopTimer(StopTimer(s, "SLEEP"), "REPEATED"), "NEXT_STATE")
    [] OTHER -> RemoveTask(StopTimer(s, s.cur), "NEXT_STATE")

EndState(s) ==
  CASE s.cur = "WORKING" -> RemoveTask(s, "CONDITION")
    [] s.cur \in {"DARK", "MAINTENANCE"} ->
         RemoveTask(StopTimer(s, s.cur), "NEXT_STATE")
    [] s.cur = "NAP" ->
         RemoveTask(RemoveTask(StopTimer(s, "NAP"), "NEXT_STATE"), "NEXT_PHASE")
    [] s.cur = "SLEEP" ->
         RemoveTask(RemoveTask(RemoveTask(
             StopTimer(StopTimer(s, "SLEEP"), "REPEATED"),
             "NEXT_STATE"), "NEXT_PHASE"), "REPEATED")

CheckTransitionValid(cur, next) ==
  /\ cur \in {"WORKING", "DARK"} => next # "MAINTENANCE"
  /\ cur = "MAINTENANCE" => next # "DARK"
  /\ cur = "SLEEP" => next # "NAP"

-----------------------------------------------------------------------------
(* State changes that ask no constraint.                                   *)

TransitToStateInner(s, next) ==
  LET s1 == EndState(s)
      s2 == BeginState([s1 EXCEPT !.pre = s1.cur, !.cur = next])
  IN  ReleaseStandbyRunningLock(PostTask(s2, "STATE_TRANSIT", s2.cur, s2.pre))

(* Mutant of StopMonitoring: scheduled detection tasks are not removed.    *)
StopMonitoringKeepsTasks(s) == [s EXCEPT !.sensorOn = FALSE]

(* ConstraintManagerAdapter::StopEvalution with the monitor's              *)
(* StopMonitoring.                                                         *)
StopMonitoring(s) ==
  [RemoveTask(s, "MOTION") EXCEPT !.delayed = <<>>, !.sensorOn = FALSE]

StopConstraintEvalution(s) ==
  IF ~ s.isEvaluation THEN s
  ELSE LET s1 == IF s.monitor = "motion" THEN StopMonitoring(s) ELSE s
       IN  [s1 EXCEPT !.isEvaluation = FALSE, !.monitor = "none"]

(* Mutant of StopEvalution: only the state manager forgets the evaluation. *)
StopEvalutionHalfWay(s) == [s EXCEPT !.isEvalution = FALSE]

StopEvalution(s) ==
  IF s.isEvalution
  THEN [StopConstraintEvalution(s) EXCEPT !.isEvalution = FALSE]
  ELSE s

UnblockCurrentState(s) == [s EXCEPT !.isBlocked = FALSE]

ExitStandby(s, next) ==
  TransitToStateInner(
    OnScreenOffHalfHourInner(UnblockCurrentState(StopEvalution(s)), FALSE), next)

(* Mutant of TransitWithMaint: a window cannot be left for work.           *)
TransitWithMaintNoExit(s, next) ==
  IF next = "WORKING" THEN s ELSE TransitToStateInner(s, next)

TransitWithMaint(s, next) ==
  TransitToStateInner(
    IF next = "WORKING" THEN OnScreenOffHalfHourInner(s, FALSE) ELSE s, next)

(* BlockCurrentState with OnStateBlocked: a blocked nap opens maintenance. *)
BlockCurrentState(s) ==
  LET s1 == [s EXCEPT !.isBlocked = TRUE]
      s2 == IF HasInterval("NAP", s.index["NAP"])
            THEN StartTimer([s1 EXCEPT !.next["NAP"] = "MAINTENANCE"], "NAP")
            ELSE s1
  IN  IF s.cur = "NAP" THEN ReleaseStandbyRunningLock(s2) ELSE s1
-----------------------------------------------------------------------------
(* The end of an evaluation, in the state that is current when it ends.    *)

TransitToPhaseInner(s, st) ==
  PostTask(s, "PHASE_TRANSIT", st, PhaseName[st][s.phase[st] + 1])

NextPhase(s, st, res) ==
  [ (IF res THEN TransitToPhaseInner(s, st) ELSE s) EXCEPT !.phase[st] = @ + 1 ]

(* Mutant of SetPhaseTransitTask: the lock is kept after the last phase.   *)
SetPhaseTransitTaskKeepsLock(s, res) ==
  LET s1 == NextPhase(s, "NAP", res)
  IN  IF s1.phase["NAP"] < EndPhase
      THEN PostTask(s1, "NEXT_PHASE", "NAP", "none") ELSE s1

(* NapState::SetPhaseTransitTask.                                          *)
SetPhaseTransitTask(s, res) ==
  LET s1 == NextPhase(s, "NAP", res)
  IN  IF s1.phase["NAP"] < EndPhase
      THEN PostTask(s1, "NEXT_PHASE", "NAP", "none")
      ELSE ReleaseStandbyRunningLock(s1)

(* Mutant of SetPhaseTransitOrRepeatedTask: the chain is not continued.    *)
SetPhaseTransitOrRepeatedTaskOnce(s, res) ==
  ReleaseStandbyRunningLock(NextPhase(s, "SLEEP", res))

(* SleepState::SetPhaseTransitOrRepeatedTask.                              *)
SetPhaseTransitOrRepeatedTask(s, res) ==
  LET s1 == NextPhase(s, "SLEEP", res)
      s2 == ReleaseStandbyRunningLock(s1)
  IN  IF s1.phase["SLEEP"] < EndPhase
      THEN PostTask(s1, "NEXT_PHASE", "SLEEP", "none")
      ELSE IF DetectMotion THEN StartTimer(s2, "REPEATED") ELSE s2

EndEvalWorking(s, res) ==
  IF res THEN TransitToStateInner(s, "DARK") ELSE BlockCurrentState(s)

EndEvalDark(s, res) ==
  IF ~ res THEN BlockCurrentState(s)
  ELSE IF s.next["DARK"] # "DARK" THEN TransitToStateInner(s, s.next["DARK"]) ELSE s

EndEvalNap(s, res) ==
  IF s.phase["NAP"] < EndPhase THEN SetPhaseTransitTask(s, res)
  ELSE IF ~ res THEN ExitStandby(s, "WORKING")
  ELSE IF s.next["NAP"] # "NAP" THEN TransitToStateInner(s, "SLEEP") ELSE s

EndEvalSleep(s, res) ==
  IF s.phase["SLEEP"] < EndPhase THEN SetPhaseTransitOrRepeatedTask(s, res)
  ELSE [ (IF ~ res /\ s.isRepeatedDetection THEN ExitStandby(s, "WORKING") ELSE s)
         EXCEPT !.isRepeatedDetection = FALSE ]

EndEvalCurrentState(s, res) ==
  LET s1 == StopEvalution(s)
  IN  IF ~ s.isEvalution THEN s
      ELSE CASE s.cur = "WORKING"     -> EndEvalWorking(s1, res)
             [] s.cur = "DARK"        -> EndEvalDark(s1, res)
             [] s.cur = "NAP"         -> EndEvalNap(s1, res)
             [] s.cur = "SLEEP"       -> EndEvalSleep(s1, res)
             [] s.cur = "MAINTENANCE" -> s1

-----------------------------------------------------------------------------
(* The start of an evaluation.  The charge monitor and an evaluation with  *)
(* no monitor end before StartEvalution returns; the motion monitor ends   *)
(* later, by one of its tasks.                                             *)

(* PeriodlyStartMotionDetection with StartMonitoringInner: after are the   *)
(* tasks a successful start posts, by deadline.                            *)
PeriodlyStartMotionDetection(s, after, ok) ==
  IF ok THEN [s EXCEPT !.sensorOn = TRUE, !.delayed = after]
  ELSE BlockCurrentState([s EXCEPT !.sensorOn = FALSE])

(* Mutant of StartMonitoring: the final time-out is posted only when the   *)
(* sensors started.                                                        *)
StartMonitoringNoDeadline(s, repeated, ok) ==
  PeriodlyStartMotionDetection(s, <<"stop", "restart", "total">>, ok)

(* MotionSensorMonitor::StartMonitoring.  The detection and rest times add *)
(* up to 2500 of 3000 ms before sleep, and to 510 of 420 ms in sleep.      *)
StartMonitoring(s, repeated, ok) ==
  PeriodlyStartMotionDetection([s EXCEPT !.delayed = <<"total">>],
    IF repeated THEN <<"stop", "total", "restart">> ELSE <<"stop", "restart", "total">>,
    ok)

(* Mutant of ConstraintOf: the charger is not asked.                       *)
ConstraintOfNoCharge(cur, phase, next, repeated) ==
  IF /\ DetectMotion /\ HasSensor /\ phase = EndPhase
     /\ (cur = "NAP" /\ next = "SLEEP") \/ (cur = "SLEEP" /\ repeated)
  THEN "motion" ELSE "none"

(* The constraint a state change or a phase change must pass.              *)
ConstraintOf(cur, phase, next, repeated) ==
  CASE cur = "WORKING" /\ next = "DARK" -> "charge"
    [] cur = "NAP" /\ phase = EndPhase /\ next = "SLEEP"
         /\ DetectMotion /\ HasSensor -> "motion"
    [] cur = "SLEEP" /\ phase = EndPhase /\ repeated
         /\ DetectMotion /\ HasSensor -> "motion"
    [] OTHER -> "none"

StartEvalCurrentState(s, cur, phase, next, repeated) ==
  LET s1 == [s EXCEPT !.isEvalution = TRUE]
      s2 == [s1 EXCEPT !.isEvaluation = TRUE]
      c  == ConstraintOf(cur, phase, next, repeated)
  IN  IF s.isEvaluation THEN s1
      ELSE CASE c = "charge" -> EndEvalCurrentState(s2, ~ charging)
             [] c = "motion" -> StartMonitoring([s2 EXCEPT !.monitor = "motion"],
                                                repeated, sensorOk)
             [] c = "none"   -> EndEvalCurrentState(s2, TRUE)

PhaseOf(s) == IF s.cur \in PhasedState THEN s.phase[s.cur] ELSE 0

EnterStandby(s, next) ==
  IF s.isBlocked THEN s
  ELSE StartEvalCurrentState(s, s.cur, PhaseOf(s), next, FALSE)

TransitToState(s, next) ==
  IF ~ CheckTransitionValid(s.cur, next) THEN s
  ELSE IF s.cur = next THEN UnblockCurrentState(s)
  ELSE IF "MAINTENANCE" \in {s.cur, next} THEN TransitWithMaint(s, next)
  ELSE IF Level[s.cur] < Level[next] THEN EnterStandby(s, next)
  ELSE ExitStandby(s, next)

(* The calls of TransitToState that do not return ERR_OK.                  *)
TransitionRefused(s, next) ==
  \/ ~ CheckTransitionValid(s.cur, next)
  \/ /\ s.isBlocked
     /\ "MAINTENANCE" \notin {s.cur, next}
     /\ Level[s.cur] < Level[next]

TransitToPhase(s, st) ==
  StartEvalCurrentState(s, st, s.phase[st], st, FALSE)

(* TransitHoldSleepState: straight to sleep, and no timer to leave it.     *)
TransitHoldSleepState(s) ==
  LET s1 == IF s.cur = "SLEEP" THEN s
            ELSE TransitToStateInner(UnblockCurrentState(s), "SLEEP")
  IN  StopTimer(StopTimer(s1, "SLEEP"), "REPEATED")
-----------------------------------------------------------------------------
(* The tasks of the handler, as functions of the record.                   *)

(* HandleScrOffHalfHour and HandleScreenStatus.                            *)
ScreenStatus(s, e) ==
  CASE e = "SCREEN_OFF" -> StartTimer([s EXCEPT !.isScreenOn = FALSE, !.offLong = FALSE],
                                      "HALF_HOUR")
    [] e = "SCREEN_ON"  -> StopTimer([s EXCEPT !.isScreenOn = TRUE], "HALF_HOUR")
    [] OTHER            -> s

HandleUserSleepState(s, isSleep) ==
  IF s.isScreenOn THEN s
  ELSE IF isSleep THEN TransitHoldSleepState(s)
  ELSE IF s.cur = "SLEEP" THEN BeginState(s) ELSE s

CommonEventHandled(s, e) ==
  LET s1 == ScreenStatus(s, e)
      s2 == CASE e \in WakeEvent           -> TransitToState(s1, "WORKING")
              [] e = "USER_SLEEP"          -> HandleUserSleepState(s1, TRUE)
              [] e = "USER_AWAKE"          -> HandleUserSleepState(s1, FALSE)
              [] e = "ENTER_FORCE_SLEEP"   -> TransitHoldSleepState(s1)
              [] OTHER                     -> s1
  IN  IF s2.cur = "WORKING" /\ ~ s2.isScreenOn THEN TransitToState(s2, "DARK") ELSE s2

(* The task of BaseState::StartTransitNextState.                           *)
NextStateTimedOut(s, owner) ==
  LET s1 == StopEvalution(AcquireStandbyRunningLock(s))
      n  == s.next[owner]
  IN  IF TransitionRefused(s1, n)
      THEN ReleaseStandbyRunningLock(BlockCurrentState(s1))
      ELSE TransitToState(s1, n)

(* The task of SleepState::StartPeriodlyMotionDetection.                   *)
PeriodlyMotionDetected(s) ==
  StartEvalCurrentState([s EXCEPT !.isRepeatedDetection = TRUE],
                        "SLEEP", s.phase["SLEEP"], "SLEEP", TRUE)

(* The tasks named MOTION_DECTION_TASK.                                    *)
MotionStepDone(s, step) ==
  CASE step = "moved"   -> EndEvalCurrentState(s, FALSE)
    [] step = "total"   -> EndEvalCurrentState(s, TRUE)
    [] step = "stop"    -> [s EXCEPT !.sensorOn = FALSE]
    [] step = "restart" -> PeriodlyStartMotionDetection(s,
                             s.delayed \o <<"stop", "restart">>, sensorOk)

-----------------------------------------------------------------------------
(* StateManagerAdapter::Init.  The service is not ready yet, so that the   *)
(* message about the first state is dropped by DispatchEvent.              *)

InitialState(on) ==
  [cur |-> "WORKING", pre |-> "WORKING",
   phase |-> [st \in PhasedState |-> 0],
   next |-> [st \in State |->
               CASE st = "DARK"  -> IF NapSwitch THEN "NAP"
                                    ELSE IF SleepSwitch THEN "SLEEP" ELSE "DARK"
                 [] st = "NAP"   -> "NAP"
                 [] st = "SLEEP" -> "MAINTENANCE"
                 [] OTHER        -> "WORKING"],
   index |-> [st \in PhasedState |-> 0],
   isEvalution |-> FALSE, isEvaluation |-> FALSE, monitor |-> "none",
   sensorOn |-> FALSE, isBlocked |-> FALSE, isRepeatedDetection |-> FALSE,
   scrOffHalfHourCtrl |-> FALSE, isScreenOn |-> on, offLong |-> TRUE, lock |-> FALSE,
   armed |-> {}, inflight |-> {},
   queue |-> <<TaskOf("CONDITION", "WORKING", "none")>>,
   delayed |-> <<>>]

Init ==
  /\ screenOn \in BOOLEAN
  /\ charging \in BOOLEAN
  /\ sensorOk = TRUE
  /\ sm = InitialState(screenOn)

-----------------------------------------------------------------------------
(* Steps of the handler thread: it runs the task at the head of its queue. *)

Running(n) ==
  /\ sm.queue # <<>>
  /\ Head(sm.queue).name = n
  /\ SlowTimers => sm.inflight = {}

Popped == [sm EXCEPT !.queue = Tail(@)]
HeadTask == Head(sm.queue)

HandleCommonEvent ==
  /\ Running("EVENT")
  /\ sm' = CommonEventHandled(Popped, HeadTask.arg)
  /\ UNCHANGED <<screenOn, charging, sensorOk>>

CheckScreenStatus ==
  /\ Running("CONDITION")
  /\ sm' = IF sm.isScreenOn THEN Popped ELSE TransitToState(Popped, "DARK")
  /\ UNCHANGED <<screenOn, charging, sensorOk>>

TransitNextState ==
  /\ Running("NEXT_STATE")
  /\ sm' = NextStateTimedOut(Popped, HeadTask.owner)
  /\ UNCHANGED <<screenOn, charging, sensorOk>>

TransitNextPhase ==
  /\ Running("NEXT_PHASE")
  /\ sm' = TransitToPhase(IF HeadTask.arg = "acquire"
                          THEN AcquireStandbyRunningLock(Popped) ELSE Popped,
                          HeadTask.owner)
  /\ UNCHANGED <<screenOn, charging, sensorOk>>

StartPeriodlyMotionDetection ==
  /\ Running("REPEATED")
  /\ sm' = PeriodlyMotionDetected(Popped)
  /\ UNCHANGED <<screenOn, charging, sensorOk>>

MotionDetection ==
  /\ Running("MOTION")
  /\ sm' = MotionStepDone(Popped, HeadTask.arg)
  /\ UNCHANGED <<screenOn, charging, sensorOk>>

(* A message reaches HandleEvent, which has nothing to do for it in the    *)
(* state manager, or the runner skips the place of a removed task.         *)
DispatchMessage ==
  /\ \E n \in {"STATE_TRANSIT", "PHASE_TRANSIT", "SCREEN_OFF_HALF_HOUR", "REMOVED"} :
       Running(n)
  /\ sm' = Popped
  /\ UNCHANGED <<screenOn, charging, sensorOk>>

Handler ==
  \/ HandleCommonEvent \/ CheckScreenStatus
  \/ TransitNextState \/ TransitNextPhase
  \/ StartPeriodlyMotionDetection \/ MotionDetection
  \/ DispatchMessage

-----------------------------------------------------------------------------
(* Steps of the other threads.                                             *)

RoomInQueue == Len(sm.queue) < MaxQueue
RoomInFlight == Cardinality(sm.inflight) < MaxInflight

PostEvent(e) ==
  /\ e \in Events
  /\ RoomInQueue
  /\ sm' = PostTask(sm, "EVENT", "WORKING", e)

ScreenChanges ==
  /\ screenOn' = ~ screenOn
  /\ PostEvent(IF screenOn THEN "SCREEN_OFF" ELSE "SCREEN_ON")
  /\ UNCHANGED <<charging, sensorOk>>

ChargingChanges ==
  /\ charging' = ~ charging
  /\ PostEvent(IF charging THEN "DISCHARGING" ELSE "CHARGING")
  /\ UNCHANGED <<screenOn, sensorOk>>

OtherEventArrives ==
  /\ \E e \in CommonEvent \ {"SCREEN_ON", "SCREEN_OFF", "CHARGING", "DISCHARGING"} :
       PostEvent(e)
  /\ UNCHANGED <<screenOn, charging, sensorOk>>

SensorServiceChanges ==
  /\ sensorOk' = ~ sensorOk
  /\ UNCHANGED <<sm, screenOn, charging>>

(* GetWallTimeMs - GetScreenOffTimeStamp reaches HALF_HOUR.                *)
HalfHourElapses ==
  /\ ~ sm.offLong
  /\ sm' = [sm EXCEPT !.offLong = TRUE]
  /\ UNCHANGED <<screenOn, charging, sensorOk>>

(* Bound: the previous task of the same timer is no longer in the queue.   *)
TimerTaskQueued(t) ==
  \E i \in DOMAIN sm.queue :
     \/ t = "REPEATED" /\ sm.queue[i].name = "REPEATED"
     \/ sm.queue[i].name = "NEXT_STATE" /\ sm.queue[i].owner = t

(* The time service issues the callback of a timer that is due; only the   *)
(* repeated-detection timer starts again by itself.                        *)
TimerExpires(t) ==
  /\ t \in sm.armed
  /\ RoomInQueue /\ RoomInFlight
  /\ ~ TimerTaskQueued(t)
  /\ t = "HALF_HOUR" => sm.offLong
  /\ SlowTimers /\ t # "HALF_HOUR" => ~ sm.isEvalution /\ ~ Pending(sm, "NEXT_PHASE")
  /\ sm' = [sm EXCEPT !.armed = IF t = "REPEATED" THEN @ ELSE @ \ {t},
                       !.inflight = @ \cup {t}]
  /\ UNCHANGED <<screenOn, charging, sensorOk>>

(* The callback posts its task; that of the half-hour timer has a higher   *)
(* priority and runs before the tasks in the queue.                        *)
TimerCallback(t) ==
  /\ t \in sm.inflight
  /\ LET s == [sm EXCEPT !.inflight = @ \ {t}]
     IN  sm' = CASE t \in StateTimer -> PostTask(s, "NEXT_STATE", t, "none")
                 [] t = "REPEATED"   -> PostTask(s, "REPEATED", "SLEEP", "none")
                 [] t = "HALF_HOUR"  -> OnScreenOffHalfHourInner(s, TRUE)
  /\ UNCHANGED <<screenOn, charging, sensorOk>>

(* A sensor reports motion above the threshold, and its callback posts the *)
(* result.  Bound: one report in the queue at a time, as the task that     *)
(* ends the evaluation removes the others.                                 *)
SensorReports ==
  /\ sm.sensorOn
  /\ RoomInQueue /\ RoomInFlight
  /\ ~ MotionQueued(sm, {"moved"})
  /\ sm' = [sm EXCEPT !.inflight = @ \cup {"SENSOR"}]
  /\ UNCHANGED <<screenOn, charging, sensorOk>>

SensorCallback ==
  /\ "SENSOR" \in sm.inflight
  /\ sm' = PostTask([sm EXCEPT !.inflight = @ \ {"SENSOR"}], "MOTION", "WORKING", "moved")
  /\ UNCHANGED <<screenOn, charging, sensorOk>>

(* The delay of the next motion-detection task is over.                    *)
MotionTaskDue ==
  /\ sm.delayed # <<>>
  /\ RoomInQueue
  /\ sm' = PostTask([sm EXCEPT !.delayed = Tail(@)], "MOTION", "WORKING", Head(sm.delayed))
  /\ UNCHANGED <<screenOn, charging, sensorOk>>

Environment ==
  \/ ScreenChanges \/ ChargingChanges \/ OtherEventArrives
  \/ SensorServiceChanges \/ HalfHourElapses
  \/ SensorReports

Next ==
  \/ Handler
  \/ Environment
  \/ \E t \in Timer : TimerExpires(t) \/ TimerCallback(t)
  \/ SensorCallback
  \/ MotionTaskDue

Spec == Init /\ [][Next]_vars
-----------------------------------------------------------------------------
(* Properties.                                                             *)

SMType ==
  [cur : State, pre : State, phase : [PhasedState -> 0..EndPhase],
   next : [State -> State], index : [PhasedState -> Nat],
   isEvalution : BOOLEAN, isEvaluation : BOOLEAN, monitor : {"none", "motion"},
   sensorOn : BOOLEAN, isBlocked : BOOLEAN, isRepeatedDetection : BOOLEAN,
   scrOffHalfHourCtrl : BOOLEAN, isScreenOn : BOOLEAN, offLong : BOOLEAN, lock : BOOLEAN,
   armed : SUBSET Timer, inflight : SUBSET (Timer \cup {"SENSOR"}),
   queue : Seq(Task), delayed : Seq(MotionStep)]

(* The type invariant.  It includes that CalculateMaintTimeOut never       *)
(* indexes past the configured interval list.                              *)
TypeOK ==
  /\ sm \in SMType
  /\ screenOn \in BOOLEAN /\ charging \in BOOLEAN /\ sensorOk \in BOOLEAN
  /\ \A st \in PhasedState :
       sm.index[st] = 0 \/ sm.index[st] < Len(MaintInterval(st))

(* isEvalution_ of the state manager and isEvaluation_ of the constraint   *)
(* manager never disagree: if they did, StartEvalution would refuse or     *)
(* EndEvalCurrentState would be ignored, and the machine would stand still.*)
EvalFlagsAgree == sm.isEvalution = sm.isEvaluation

(* The motion sensors are powered, and detection tasks are scheduled, only *)
(* while a motion evaluation is in progress: StopMonitoring leaves no task *)
(* behind that would switch the sensors on again.                          *)
SensorOnlyWhileEvaluating ==
  ( \/ sm.sensorOn \/ sm.delayed # <<>>
    \/ MotionQueued(sm, {"stop", "restart", "total"}) )
  => sm.isEvaluation /\ sm.monitor = "motion"

(* A timer is armed only for the state that is current: every EndState     *)
(* stops what its BeginState, or a block in between, started.              *)
TimersOwned ==
  \A t \in sm.armed :
    \/ t = sm.cur
    \/ t = "REPEATED" /\ sm.cur = "SLEEP"
    \/ t = "HALF_HOUR"

(* A queued phase task belongs to the state that is current.               *)
PhaseTasksOwned ==
  \A i \in DOMAIN sm.queue :
    sm.queue[i].name = "NEXT_PHASE" => sm.queue[i].owner = sm.cur

(* While the standby running lock is held, something is under way that     *)
(* ends by releasing it: an evaluation or a chain of phase tasks.          *)
LockHasReleaser == sm.lock => sm.isEvalution \/ Pending(sm, "NEXT_PHASE")

-----------------------------------------------------------------------------
(* Liveness.  The handler thread keeps running its queue, an armed timer   *)
(* expires, a callback that was issued posts its task, and a delay ends.   *)
(* Nothing is assumed of the screen, the charger, the sensors or events.   *)

Fairness ==
  /\ WF_vars(Handler)
  /\ WF_vars(MotionTaskDue)
  /\ WF_vars(SensorCallback)
  /\ \A t \in Timer : WF_vars(TimerExpires(t)) /\ WF_vars(TimerCallback(t))

FairSpec == Spec /\ Fairness

(* Every evaluation of a constraint comes to an end, whatever the sensors  *)
(* do and whichever event arrives in between.                              *)
EvaluationEnds == sm.isEvalution ~> ~ sm.isEvalution

(* The device does not stay half way: from dark or nap it goes on to sleep *)
(* or wakes, and a maintenance window closes.                              *)
StandbyMovesOn ==
  /\ sm.cur \in {"DARK", "NAP"} ~> sm.cur \in {"SLEEP", "WORKING"}
  /\ sm.cur = "MAINTENANCE" ~> sm.cur # "MAINTENANCE"

(* Whatever standby state, evaluation or maintenance window it interrupts, *)
(* turning the screen on brings the device back to work.                   *)
ScreenOnWakes == screenOn ~> sm.cur = "WORKING" \/ ~ screenOn

(* SetPhaseTransitOrRepeatedTask: a sleep that was entered runs through    *)
(* all of its phases, unless the device goes back to work: the window of   *)
(* maintenance does not lose the chain of phase tasks.                     *)
SleepPhasesComplete ==
  sm.cur = "SLEEP" ~> sm.cur = "WORKING" \/ sm.phase["SLEEP"] = EndPhase

(* checkScreenStatus: with the screen off for good and no charger attached *)
(* the device leaves the working state.                                    *)
ScreenOffGoesDark ==
  <>[](~ screenOn /\ ~ charging) => []<>(sm.cur # "WORKING")
=============================================================================
