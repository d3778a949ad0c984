---------------------- MODULE StandbyStateManagerProofs ----------------------
(***************************************************************************)
(* Proofs about the standby state machine, for any configuration of        *)
(* switches and maintenance intervals and any bounds: its types; what      *)
(* every method of the handler thread does to the timers, the queued       *)
(* tasks, the evaluation and the state, and from that its safety           *)
(* invariants for any events and any interleaving with late callbacks;     *)
(* and, when no callback is late, that it implements StandbyPromise and    *)
(* that the running lock always has something that will release it.        *)
(***************************************************************************)
EXTENDS StandbyStateManager, MCStandbyStateManager, TLAPS

-----------------------------------------------------------------------------
(* The record of the handler thread is good: it is typed, and the index of *)
(* a maintenance interval is inside the configured list.                   *)

IndexOK(s) ==
  \A st \in PhasedState : s.index[st] = 0 \/ s.index[st] < Len(MaintInterval(st))

Good(s) == s \in SMType /\ IndexOK(s)

(* Assigning a flag keeps the record good.                                 *)
LEMMA SetFlag ==
  ASSUME NEW s, Good(s), NEW v \in BOOLEAN
  PROVE  /\ Good([s EXCEPT !.isEvalution = v])
         /\ Good([s EXCEPT !.isEvaluation = v])
         /\ Good([s EXCEPT !.sensorOn = v])
         /\ Good([s EXCEPT !.isBlocked = v])
         /\ Good([s EXCEPT !.isRepeatedDetection = v])
         /\ Good([s EXCEPT !.scrOffHalfHourCtrl = v])
         /\ Good([s EXCEPT !.isScreenOn = v])
         /\ Good([s EXCEPT !.offLong = v])
         /\ Good([s EXCEPT !.lock = v])
BY DEF Good, IndexOK, SMType

(* So does assigning the current or the previous state,                    *)
LEMMA SetCur ==
  ASSUME NEW s, Good(s), NEW v \in State
  PROVE  /\ Good([s EXCEPT !.cur = v])
         /\ Good([s EXCEPT !.pre = v])
BY DEF Good, IndexOK, SMType

(* the monitor,                                                            *)
LEMMA SetMonitor ==
  ASSUME NEW s, Good(s), NEW v \in {"none", "motion"}
  PROVE  Good([s EXCEPT !.monitor = v])
BY DEF Good, IndexOK, SMType

(* the armed timers,                                                       *)
LEMMA SetArmed ==
  ASSUME NEW s, Good(s), NEW v \in SUBSET Timer
  PROVE  Good([s EXCEPT !.armed = v])
BY DEF Good, IndexOK, SMType

(* the callbacks under way,                                                *)
LEMMA SetInflight ==
  ASSUME NEW s, Good(s), NEW v \in SUBSET (Timer \cup {"SENSOR"})
  PROVE  Good([s EXCEPT !.inflight = v])
BY DEF Good, IndexOK, SMType

(* the queue,                                                              *)
LEMMA SetQueue ==
  ASSUME NEW s, Good(s), NEW v \in Seq(Task)
  PROVE  Good([s EXCEPT !.queue = v])
BY DEF Good, IndexOK, SMType

(* the delayed detection steps,                                            *)
LEMMA SetDelayed ==
  ASSUME NEW s, Good(s), NEW v \in Seq(MotionStep)
  PROVE  Good([s EXCEPT !.delayed = v])
BY DEF Good, IndexOK, SMType

(* the successor of a state,                                               *)
LEMMA SetNext ==
  ASSUME NEW s, Good(s), NEW st \in State, NEW v \in State
  PROVE  Good([s EXCEPT !.next[st] = v])
BY DEF Good, IndexOK, SMType

(* the phase of a state,                                                   *)
LEMMA SetPhase ==
  ASSUME NEW s, Good(s), NEW st \in PhasedState, NEW v \in 0..EndPhase
  PROVE  Good([s EXCEPT !.phase[st] = v])
BY DEF Good, IndexOK, SMType

(* and the index of an interval that exists.                               *)
LEMMA SetIndex ==
  ASSUME NEW s, Good(s), NEW st \in PhasedState, NEW v \in Nat,
         v = 0 \/ v < Len(MaintInterval(st))
  PROVE  Good([s EXCEPT !.index[st] = v])
BY DEF Good, IndexOK, SMType

-----------------------------------------------------------------------------
(* Each method of the handler thread keeps the record good.                *)

(* The types of the fields, for the lemmas below.                          *)
LEMMA FieldTypes ==
  ASSUME NEW s, Good(s)
  PROVE  /\ s.cur \in State /\ s.pre \in State
         /\ s.phase \in [PhasedState -> 0..EndPhase]
         /\ s.next \in [State -> State]
         /\ s.index \in [PhasedState -> Nat]
         /\ s.armed \in SUBSET Timer
         /\ s.inflight \in SUBSET (Timer \cup {"SENSOR"})
         /\ s.queue \in Seq(Task)
         /\ s.delayed \in Seq(MotionStep)
BY DEF Good, SMType

(* A task with a proper name, owner and argument is a Task.                *)
LEMMA TaskOfType ==
  ASSUME NEW n \in TaskName, NEW o \in State, NEW a \in TaskArg,
         n = "MOTION" => a \in MotionStep
  PROVE  TaskOf(n, o, a) \in Task
BY DEF TaskOf, Task

(* Each method keeps the record good, from the innermost call outwards.    *)
LEMMA PostTaskGood ==
  ASSUME NEW s, Good(s),
         NEW n \in TaskName, NEW o \in State, NEW a \in TaskArg,
         n = "MOTION" => a \in MotionStep
  PROVE  Good(PostTask(s, n, o, a))
<1>1. TaskOf(n, o, a) \in Task
  BY TaskOfType
<1>2. s.queue \in Seq(Task)
  BY FieldTypes
<1>3. Append(s.queue, TaskOf(n, o, a)) \in Seq(Task)
  BY <1>1, <1>2
<1> DEFINE v == Append(s.queue, TaskOf(n, o, a))
<1>4. PostTask(s, n, o, a) = [s EXCEPT !.queue = v]
  BY DEF PostTask
<1> HIDE DEF v
<1>5. QED  BY <1>3, <1>4, SetQueue DEF v

(* A task is taken back.                                                   *)
LEMMA RemoveTaskGood ==
  ASSUME NEW s, Good(s), NEW n
  PROVE  Good(RemoveTask(s, n))
<1> DEFINE q == s.queue
           v == [i \in DOMAIN q |-> IF q[i].name = n THEN Removed ELSE q[i]]
<1>1. q \in Seq(Task)
  BY FieldTypes
<1>2. Removed \in Task
  BY TaskOfType DEF Removed, TaskName, State, TaskArg
<1>3. v \in Seq(Task)
  <2>1. Len(q) \in Nat /\ DOMAIN q = 1..Len(q) /\ \A i \in 1..Len(q) : q[i] \in Task
    BY <1>1
  <2>2. DOMAIN v = 1..Len(q) /\ \A i \in 1..Len(q) : v[i] \in Task
    BY <1>2, <2>1
  <2>3. v \in [1..Len(q) -> Task]
    BY <2>1, <2>2
  <2> HIDE DEF v
  <2>4. QED  BY <2>1, <2>3
<1>4. RemoveTask(s, n) = [s EXCEPT !.queue = v]
  BY DEF RemoveTask
<1> HIDE DEF v
<1>5. QED  BY <1>3, <1>4, SetQueue

(* Timers are started and stopped.                                         *)
LEMMA TimerGood ==
  ASSUME NEW s, Good(s), NEW t \in Timer
  PROVE  Good(StartTimer(s, t)) /\ Good(StopTimer(s, t))
<1>1. s.armed \cup {t} \in SUBSET Timer /\ s.armed \ {t} \in SUBSET Timer
  BY FieldTypes
<1>2. QED  BY <1>1, SetArmed DEF StartTimer, StopTimer

(* The running lock is taken and released.                                 *)
LEMMA LockGood ==
  ASSUME NEW s, Good(s)
  PROVE  Good(AcquireStandbyRunningLock(s)) /\ Good(ReleaseStandbyRunningLock(s))
BY SetFlag DEF AcquireStandbyRunningLock, ReleaseStandbyRunningLock

(* Names and arguments of the tasks that are posted.                       *)
LEMMA Names ==
  /\ {"EVENT", "CONDITION", "NEXT_STATE", "NEXT_PHASE", "REPEATED", "STATE_TRANSIT",
      "PHASE_TRANSIT", "SCREEN_OFF_HALF_HOUR"} \subseteq TaskName \ {"MOTION"}
  /\ {"acquire", "on", "off", "none"} \cup State \cup CommonEvent \subseteq TaskArg
  /\ State \subseteq Timer \cup {"WORKING"}
  /\ PhasedState \subseteq State /\ PhasedState \subseteq Timer
  /\ {"WORKING", "DARK", "NAP", "MAINTENANCE", "SLEEP"} = State
  /\ {"REPEATED", "HALF_HOUR"} \subseteq Timer
  /\ "NAP" \in PhasedState /\ "SLEEP" \in PhasedState
<1>1. {"acquire", "on", "off", "none"} \cup State \cup CommonEvent \subseteq TaskArg
  BY DEF TaskArg
<1>2. QED  BY <1>1 DEF TaskName, State, Timer, StateTimer, PhasedState

(* The restriction after half an hour.                                     *)
LEMMA OnScreenOffHalfHourInnerGood ==
  ASSUME NEW s, Good(s), NEW ctrl \in BOOLEAN
  PROVE  Good(OnScreenOffHalfHourInner(s, ctrl))
<1> DEFINE u == [s EXCEPT !.scrOffHalfHourCtrl = ctrl]
           a == IF ctrl THEN "on" ELSE "off"
<1>1. Good(u)
  BY SetFlag
<1>2. s.cur \in State /\ a \in TaskArg /\ "SCREEN_OFF_HALF_HOUR" \in TaskName \ {"MOTION"}
  BY FieldTypes, Names
<1> HIDE DEF u, a
<1>3. Good(PostTask(u, "SCREEN_OFF_HALF_HOUR", s.cur, a))
  BY <1>1, <1>2, PostTaskGood
<1>4. QED  BY <1>3 DEF OnScreenOffHalfHourInner, u, a

(* CalculateMaintTimeOut returns an index inside the list.                 *)
LEMMA NextIndexInList ==
  ASSUME NEW s, Good(s), NEW st \in PhasedState, Len(MaintInterval(st)) # 0
  PROVE  NextIndex(s, st) \in Nat /\ NextIndex(s, st) < Len(MaintInterval(st))
<1>1. s.index[st] \in Nat
  BY FieldTypes
<1>2. MaintInterval(st) \in Seq(Nat \ {0})
  BY IntervalAssumption DEF MaintInterval
<1>3. Len(MaintInterval(st)) \in Nat
  BY <1>2
<1>4. QED  BY <1>1, <1>3 DEF NextIndex

(* Sleep is resumed from a window.                                         *)
LEMMA ResumeFromMaintGood ==
  ASSUME NEW s, Good(s), NEW st \in PhasedState
  PROVE  Good(ResumeFromMaint(s, st))
<1> DEFINE v == NextIndex(s, st)
           u == [s EXCEPT !.index[st] = v]
<1>1. CASE Len(MaintInterval(st)) = 0
  BY <1>1 DEF ResumeFromMaint
<1>2. CASE Len(MaintInterval(st)) # 0
  <2>1. v \in Nat /\ v < Len(MaintInterval(st))
    BY <1>2, NextIndexInList
  <2> HIDE DEF v
  <2>2. Good(u)
    BY <2>1, SetIndex
  <2> HIDE DEF u
  <2>3. Good(StartTimer(u, st))
    BY <2>2, TimerGood, Names
  <2>4. ResumeFromMaint(s, st) = u \/ ResumeFromMaint(s, st) = StartTimer(u, st)
    BY <1>2 DEF ResumeFromMaint, u, v
  <2>5. QED  BY <2>2, <2>3, <2>4
<1>3. QED  BY <1>1, <1>2

(* Nap begins.                                                             *)
LEMMA BeginNapGood ==
  ASSUME NEW s, Good(s)
  PROVE  Good(BeginNap(s))
<1> DEFINE s1 == [s EXCEPT !.index["NAP"] = 0, !.phase["NAP"] = 0]
           s2 == IF SleepSwitch
                 THEN StartTimer([s1 EXCEPT !.next["NAP"] = "SLEEP"], "NAP")
                 ELSE s1
           r  == [s EXCEPT !.next["NAP"] = "MAINTENANCE"]
<1>1. "NAP" \in PhasedState /\ "NAP" \in State /\ "SLEEP" \in State
      /\ "MAINTENANCE" \in State /\ "NAP" \in Timer
  BY Names
<1>2. Good(ResumeFromMaint(r, "NAP"))
  <2>1. Good(r)
    BY <1>1, SetNext
  <2>2. QED  BY <1>1, <2>1, ResumeFromMaintGood
<1>3. Good(s1)
  <2> DEFINE s0 == [s EXCEPT !.index["NAP"] = 0]
  <2>1. Good(s0)
    BY <1>1, SetIndex
  <2> HIDE DEF s0
  <2>2. 0 \in 0..EndPhase
    BY DEF EndPhase
  <2>3. Good([s0 EXCEPT !.phase["NAP"] = 0])
    BY <1>1, <2>1, <2>2, SetPhase
  <2>4. QED  BY <2>3 DEF s0
<1> HIDE DEF s1, r
<1>4. Good([s1 EXCEPT !.next["NAP"] = "SLEEP"])
  BY <1>1, <1>3, SetNext
<1>5. Good(s2)
  BY <1>1, <1>3, <1>4, TimerGood
<1> HIDE DEF s2
<1>6. Good(PostTask(s2, "NEXT_PHASE", "NAP", "acquire"))
  BY <1>1, <1>5, PostTaskGood, Names
<1>7. QED  BY <1>2, <1>6 DEF BeginNap, s1, s2, r

(* Sleep begins.                                                           *)
LEMMA BeginSleepGood ==
  ASSUME NEW s, Good(s)
  PROVE  Good(BeginSleep(s))
<1> DEFINE s0 == [s EXCEPT !.isRepeatedDetection = FALSE]
           s1 == [s0 EXCEPT !.index["SLEEP"] = 0, !.phase["SLEEP"] = 0]
           s2 == StartTimer(PostTask(s1, "NEXT_PHASE", "SLEEP", "acquire"), "SLEEP")
<1>1. "SLEEP" \in PhasedState /\ "SLEEP" \in State /\ "SLEEP" \in Timer
  BY Names
<1>2. Good(s0)
  BY SetFlag
<1> HIDE DEF s0
<1>3. Good(ResumeFromMaint(s0, "SLEEP"))
  BY <1>1, <1>2, ResumeFromMaintGood
<1>4. Good(s1)
  <2> DEFINE u == [s0 EXCEPT !.index["SLEEP"] = 0]
  <2>1. Good(u)
    BY <1>1, <1>2, SetIndex
  <2> HIDE DEF u
  <2>2. 0 \in 0..EndPhase
    BY DEF EndPhase
  <2>3. Good([u EXCEPT !.phase["SLEEP"] = 0])
    BY <1>1, <2>1, <2>2, SetPhase
  <2>4. QED  BY <2>3 DEF u
<1> HIDE DEF s1
<1>5. Good(PostTask(s1, "NEXT_PHASE", "SLEEP", "acquire"))
  BY <1>1, <1>4, PostTaskGood, Names
<1>6. Good(s2)
  BY <1>1, <1>5, TimerGood
<1> HIDE DEF s2
<1>7. Good(OnScreenOffHalfHourInner(s2, TRUE))
  BY <1>6, OnScreenOffHalfHourInnerGood
<1>8. QED  BY <1>3, <1>6, <1>7 DEF BeginSleep, s0, s1, s2

(* A state begins.                                                         *)
LEMMA BeginStateGood ==
  ASSUME NEW s, Good(s)
  PROVE  Good(BeginState(s))
<1>1. s.cur \in {"WORKING", "DARK", "NAP", "MAINTENANCE", "SLEEP"} /\ s.pre \in State
  BY FieldTypes, Names
<1>2. Good(BeginWorking(s))
  BY PostTaskGood, Names DEF BeginWorking
<1>3. Good(BeginDark(s))
  <2>1. Good(StartTimer(s, "DARK"))
    BY TimerGood DEF Timer, StateTimer
  <2>2. QED  BY <2>1 DEF BeginDark
<1>4. Good(BeginMaintenance(s))
  <2> DEFINE u == [s EXCEPT !.next["MAINTENANCE"] = s.pre]
  <2>1. Good(u)
    BY <1>1, SetNext, Names
  <2> HIDE DEF u
  <2>2. Good(StartTimer(u, "MAINTENANCE"))
    BY <2>1, TimerGood DEF Timer, StateTimer
  <2>3. QED  BY <2>2 DEF BeginMaintenance, u
<1>5. QED  BY <1>1, <1>2, <1>3, <1>4, BeginNapGood, BeginSleepGood DEF BeginState

(* A state ends.                                                           *)
LEMMA EndStateGood ==
  ASSUME NEW s, Good(s)
  PROVE  Good(EndState(s))
<1>1. s.cur \in {"WORKING", "DARK", "NAP", "MAINTENANCE", "SLEEP"}
  BY FieldTypes, Names
<1>2. CASE s.cur = "WORKING"
  BY <1>2, RemoveTaskGood DEF EndState
<1>3. CASE s.cur \in {"DARK", "MAINTENANCE"}
  <2>1. Good(StopTimer(s, s.cur))
    BY <1>3, TimerGood DEF Timer, StateTimer
  <2>2. QED  BY <1>3, <2>1, RemoveTaskGood DEF EndState
<1>4. CASE s.cur = "NAP"
  <2>1. Good(StopTimer(s, "NAP"))
    BY TimerGood, Names
  <2>2. QED  BY <1>4, <2>1, RemoveTaskGood DEF EndState
<1>5. CASE s.cur = "SLEEP"
  <2>1. Good(StopTimer(StopTimer(s, "SLEEP"), "REPEATED"))
    BY TimerGood, Names
  <2>2. QED  BY <1>5, <2>1, RemoveTaskGood DEF EndState
<1>6. QED  BY <1>1, <1>2, <1>3, <1>4, <1>5

(* One state ends and another begins.                                      *)
LEMMA TransitToStateInnerGood ==
  ASSUME NEW s, Good(s), NEW next \in State
  PROVE  Good(TransitToStateInner(s, next))
<1> DEFINE s1 == EndState(s)
           u  == [s1 EXCEPT !.pre = s1.cur, !.cur = next]
           s2 == BeginState(u)
<1>1. Good(s1)
  BY EndStateGood
<1> HIDE DEF s1
<1>2. Good(u)
  <2> DEFINE w == [s1 EXCEPT !.pre = s1.cur]
  <2>1. Good(w)
    BY <1>1, FieldTypes, SetCur
  <2> HIDE DEF w
  <2>2. Good([w EXCEPT !.cur = next])
    BY <2>1, SetCur
  <2>3. QED  BY <2>2 DEF w
<1> HIDE DEF u
<1>3. Good(s2)
  BY <1>2, BeginStateGood
<1> HIDE DEF s2
<1>4. s2.cur \in State /\ s2.pre \in TaskArg
  BY <1>3, FieldTypes, Names
<1>5. Good(PostTask(s2, "STATE_TRANSIT", s2.cur, s2.pre))
  BY <1>3, <1>4, PostTaskGood, Names
<1>6. QED  BY <1>5, LockGood DEF TransitToStateInner, s1, u, s2

(* The monitor stops.                                                      *)
LEMMA StopMonitoringGood ==
  ASSUME NEW s, Good(s)
  PROVE  Good(StopMonitoring(s))
<1> DEFINE u == RemoveTask(s, "MOTION")
           w == [u EXCEPT !.delayed = <<>>]
<1>1. Good(u)
  BY RemoveTaskGood
<1> HIDE DEF u
<1>2. <<>> \in Seq(MotionStep)
  OBVIOUS
<1>3. Good(w)
  BY <1>1, <1>2, SetDelayed
<1> HIDE DEF w
<1>4. Good([w EXCEPT !.sensorOn = FALSE])
  BY <1>3, SetFlag
<1>5. QED  BY <1>4 DEF StopMonitoring, u, w

(* An evaluation ends in both managers.                                    *)
LEMMA StopEvalutionGood ==
  ASSUME NEW s, Good(s)
  PROVE  Good(StopEvalution(s))
<1> DEFINE s1 == IF s.monitor = "motion" THEN StopMonitoring(s) ELSE s
           w  == [s1 EXCEPT !.isEvaluation = FALSE]
           c  == StopConstraintEvalution(s)
<1>1. Good(s1)
  BY StopMonitoringGood
<1> HIDE DEF s1
<1>2. Good(w)
  BY <1>1, SetFlag
<1> HIDE DEF w
<1>3. Good([w EXCEPT !.monitor = "none"])
  BY <1>2, SetMonitor
<1>4. Good(c)
  BY <1>3 DEF StopConstraintEvalution, s1, w
<1> HIDE DEF c
<1>5. Good([c EXCEPT !.isEvalution = FALSE])
  BY <1>4, SetFlag
<1>6. QED  BY <1>5 DEF StopEvalution, c

(* The current state is unblocked.                                         *)
LEMMA UnblockCurrentStateGood ==
  ASSUME NEW s, Good(s)
  PROVE  Good(UnblockCurrentState(s))
BY SetFlag DEF UnblockCurrentState

(* The device wakes up.                                                    *)
LEMMA ExitStandbyGood ==
  ASSUME NEW s, Good(s), NEW next \in State
  PROVE  Good(ExitStandby(s, next)) /\ Good(TransitWithMaint(s, next))
<1>1. Good(UnblockCurrentState(StopEvalution(s)))
  BY StopEvalutionGood, UnblockCurrentStateGood
<1>2. Good(OnScreenOffHalfHourInner(UnblockCurrentState(StopEvalution(s)), FALSE))
  BY <1>1, OnScreenOffHalfHourInnerGood
<1>3. Good(OnScreenOffHalfHourInner(s, FALSE))
  BY OnScreenOffHalfHourInnerGood
<1>4. Good(ExitStandby(s, next))
  BY <1>2, TransitToStateInnerGood DEF ExitStandby
<1>5. Good(TransitWithMaint(s, next))
  BY <1>3, TransitToStateInnerGood DEF TransitWithMaint
<1>6. QED  BY <1>4, <1>5

(* The current state is blocked.                                           *)
LEMMA BlockCurrentStateGood ==
  ASSUME NEW s, Good(s)
  PROVE  Good(BlockCurrentState(s))
<1> DEFINE s1 == [s EXCEPT !.isBlocked = TRUE]
           s2 == IF HasInterval("NAP", s.index["NAP"])
                 THEN StartTimer([s1 EXCEPT !.next["NAP"] = "MAINTENANCE"], "NAP")
                 ELSE s1
<1>1. Good(s1)
  BY SetFlag
<1> HIDE DEF s1
<1>2. Good([s1 EXCEPT !.next["NAP"] = "MAINTENANCE"])
  BY <1>1, SetNext, Names
<1>3. Good(s2)
  BY <1>1, <1>2, TimerGood, Names
<1> HIDE DEF s2
<1>4. Good(ReleaseStandbyRunningLock(s2))
  BY <1>3, LockGood
<1>5. QED  BY <1>1, <1>4 DEF BlockCurrentState, s1, s2

(* The phase moves on, and the next task is posted.                        *)
LEMMA NextPhaseGood ==
  ASSUME NEW s, Good(s), NEW st \in PhasedState, s.phase[st] < EndPhase, NEW res
  PROVE  Good(NextPhase(s, st, res))
<1> DEFINE u == TransitToPhaseInner(s, st)
           w == IF res THEN u ELSE s
           i == s.phase[st] + 1
<1>1. i \in 1..EndPhase
  <2>1. s.phase[st] \in 0..EndPhase  BY FieldTypes
  <2>2. QED  BY <2>1 DEF EndPhase
<1>2. PhaseName[st][i] \in TaskArg
  <2>1. PhaseName[st][i] \in {PhaseName[x][j] : x \in PhasedState, j \in 1..EndPhase}
    BY <1>1
  <2>2. QED  BY <2>1 DEF TaskArg
<1>3. Good(u)
  BY <1>2, PostTaskGood, Names DEF TransitToPhaseInner
<1>4. u.phase[st] = s.phase[st]
  BY DEF TransitToPhaseInner, PostTask, Good, SMType
<1> HIDE DEF u
<1>5. Good(w) /\ w.phase[st] = s.phase[st]
  BY <1>3, <1>4
<1>6. w.phase[st] + 1 \in 0..EndPhase
  BY <1>1, <1>5 DEF EndPhase
<1> HIDE DEF w
<1>7. Good([w EXCEPT !.phase[st] = w.phase[st] + 1])
  BY <1>5, <1>6, SetPhase
<1>8. QED  BY <1>7 DEF NextPhase, w, u

(* So it does in nap, up to its last phase,                                *)
LEMMA SetPhaseTransitTaskGood ==
  ASSUME NEW s, Good(s), s.phase["NAP"] < EndPhase, NEW res
  PROVE  Good(SetPhaseTransitTask(s, res))
<1> DEFINE s1 == NextPhase(s, "NAP", res)
<1>1. Good(s1)
  BY NextPhaseGood, Names
<1> HIDE DEF s1
<1>2. Good(PostTask(s1, "NEXT_PHASE", "NAP", "none"))
  BY <1>1, PostTaskGood, Names
<1>3. Good(ReleaseStandbyRunningLock(s1))
  BY <1>1, LockGood
<1>4. QED  BY <1>2, <1>3 DEF SetPhaseTransitTask, s1

(* and in sleep, where the repeated detection follows.                     *)
LEMMA SetPhaseTransitOrRepeatedTaskGood ==
  ASSUME NEW s, Good(s), s.phase["SLEEP"] < EndPhase, NEW res
  PROVE  Good(SetPhaseTransitOrRepeatedTask(s, res))
<1> DEFINE s1 == NextPhase(s, "SLEEP", res)
           s2 == ReleaseStandbyRunningLock(s1)
<1>1. Good(s1)
  BY NextPhaseGood, Names
<1> HIDE DEF s1
<1>2. Good(PostTask(s1, "NEXT_PHASE", "SLEEP", "none"))
  BY <1>1, PostTaskGood, Names
<1>3. Good(s2)
  BY <1>1, LockGood
<1> HIDE DEF s2
<1>4. Good(StartTimer(s2, "REPEATED"))
  BY <1>3, TimerGood, Names
<1>5. QED  BY <1>2, <1>3, <1>4 DEF SetPhaseTransitOrRepeatedTask, s1, s2

(* The state takes the result of an evaluation.                            *)
LEMMA EndEvalCurrentStateGood ==
  ASSUME NEW s, Good(s), NEW res
  PROVE  Good(EndEvalCurrentState(s, res))
<1>1. ASSUME NEW u, Good(u) PROVE Good(EndEvalWorking(u, res))
  BY <1>1, TransitToStateInnerGood, BlockCurrentStateGood, Names DEF EndEvalWorking
<1>2. ASSUME NEW u, Good(u) PROVE Good(EndEvalDark(u, res))
  <2>1. u.next["DARK"] \in State
    BY <1>2, FieldTypes, Names
  <2>2. QED
    BY <1>2, <2>1, TransitToStateInnerGood, BlockCurrentStateGood DEF EndEvalDark
<1>3. ASSUME NEW u, Good(u) PROVE Good(EndEvalNap(u, res))
  BY <1>3, SetPhaseTransitTaskGood, ExitStandbyGood, TransitToStateInnerGood, Names
  DEF EndEvalNap
<1>4. ASSUME NEW u, Good(u) PROVE Good(EndEvalSleep(u, res))
  <2> DEFINE w == IF ~ res /\ u.isRepeatedDetection THEN ExitStandby(u, "WORKING") ELSE u
  <2>1. Good(w)
    BY <1>4, ExitStandbyGood, Names
  <2> HIDE DEF w
  <2>2. Good([w EXCEPT !.isRepeatedDetection = FALSE])
    BY <2>1, SetFlag
  <2>3. QED
    BY <1>4, <2>2, SetPhaseTransitOrRepeatedTaskGood DEF EndEvalSleep, w
<1>5. s.cur \in {"WORKING", "DARK", "NAP", "MAINTENANCE", "SLEEP"}
  BY FieldTypes, Names
<1>6. Good(StopEvalution(s))
  BY StopEvalutionGood
<1>7. QED  BY <1>1, <1>2, <1>3, <1>4, <1>5, <1>6 DEF EndEvalCurrentState

(* A motion detection begins.                                              *)
LEMMA PeriodlyStartMotionDetectionGood ==
  ASSUME NEW s, Good(s), NEW after \in Seq(MotionStep), NEW ok
  PROVE  Good(PeriodlyStartMotionDetection(s, after, ok))
<1> DEFINE u == [s EXCEPT !.sensorOn = TRUE]
           w == [s EXCEPT !.sensorOn = FALSE]
<1>1. Good(u) /\ Good(w)
  BY SetFlag
<1> HIDE DEF u, w
<1>2. Good([u EXCEPT !.delayed = after])
  BY <1>1, SetDelayed
<1>3. Good(BlockCurrentState(w))
  BY <1>1, BlockCurrentStateGood
<1>4. QED  BY <1>2, <1>3 DEF PeriodlyStartMotionDetection, u, w

(* The monitor starts.                                                     *)
LEMMA StartMonitoringGood ==
  ASSUME NEW s, Good(s), NEW repeated, NEW ok
  PROVE  Good(StartMonitoring(s, repeated, ok))
<1> DEFINE u == [s EXCEPT !.delayed = <<"total">>]
           after == IF repeated THEN <<"stop", "total", "restart">>
                    ELSE <<"stop", "restart", "total">>
<1>1. <<"total">> \in Seq(MotionStep) /\ after \in Seq(MotionStep)
  <2>1. <<"stop", "total", "restart">> \in Seq(MotionStep)  BY DEF MotionStep
  <2>2. <<"stop", "restart", "total">> \in Seq(MotionStep)  BY DEF MotionStep
  <2>3. <<"total">> \in Seq(MotionStep)  BY DEF MotionStep
  <2>4. QED  BY <2>1, <2>2, <2>3
<1>2. Good(u)
  BY <1>1, SetDelayed
<1> HIDE DEF u, after
<1>3. Good(PeriodlyStartMotionDetection(u, after, ok))
  BY <1>1, <1>2, PeriodlyStartMotionDetectionGood
<1>4. QED  BY <1>3 DEF StartMonitoring, u, after

(* An evaluation begins in both managers.                                  *)
LEMMA StartEvalCurrentStateGood ==
  ASSUME NEW s, Good(s), NEW cur, NEW phase, NEW next, NEW repeated
  PROVE  Good(StartEvalCurrentState(s, cur, phase, next, repeated))
<1> DEFINE s1 == [s EXCEPT !.isEvalution = TRUE]
           s2 == [s1 EXCEPT !.isEvaluation = TRUE]
           s3 == [s2 EXCEPT !.monitor = "motion"]
           c  == ConstraintOf(cur, phase, next, repeated)
<1>1. Good(s1)
  BY SetFlag
<1> HIDE DEF s1
<1>2. Good(s2)
  BY <1>1, SetFlag
<1> HIDE DEF s2
<1>3. Good(s3)
  BY <1>2, SetMonitor
<1> HIDE DEF s3
<1>4. /\ Good(EndEvalCurrentState(s2, ~ charging))
      /\ Good(EndEvalCurrentState(s2, TRUE))
      /\ Good(StartMonitoring(s3, repeated, sensorOk))
  BY <1>2, <1>3, EndEvalCurrentStateGood, StartMonitoringGood
<1>5. c \in {"charge", "motion", "none"}
  BY DEF ConstraintOf
<1> HIDE DEF c
<1>6. QED  BY <1>1, <1>4, <1>5 DEF StartEvalCurrentState, s1, s2, s3, c

(* A transition is asked for.                                              *)
LEMMA TransitToStateGood ==
  ASSUME NEW s, Good(s), NEW next \in State
  PROVE  Good(TransitToState(s, next))
<1>1. Good(EnterStandby(s, next))
  BY StartEvalCurrentStateGood DEF EnterStandby
<1>2. QED
  BY <1>1, UnblockCurrentStateGood, ExitStandbyGood DEF TransitToState

(* Sleep is kept or begun.                                                 *)
LEMMA TransitHoldSleepStateGood ==
  ASSUME NEW s, Good(s)
  PROVE  Good(TransitHoldSleepState(s))
<1> DEFINE s1 == IF s.cur = "SLEEP" THEN s
                 ELSE TransitToStateInner(UnblockCurrentState(s), "SLEEP")
<1>1. Good(s1)
  BY UnblockCurrentStateGood, TransitToStateInnerGood, Names
<1> HIDE DEF s1
<1>2. Good(StopTimer(StopTimer(s1, "SLEEP"), "REPEATED"))
  BY <1>1, TimerGood, Names
<1>3. QED  BY <1>2 DEF TransitHoldSleepState, s1

(* A common event is handled.                                              *)
LEMMA CommonEventHandledGood ==
  ASSUME NEW s, Good(s), NEW e
  PROVE  Good(CommonEventHandled(s, e))
<1> DEFINE s1 == ScreenStatus(s, e)
           s2 == CASE e \in WakeEvent           -> TransitToState(s1, "WORKING")
                   [] e = "USER_SLEEP"          -> HandleUserSleepState(s1, TRUE)
                   [] e = "USER_AWAKE"          -> HandleUserSleepState(s1, FALSE)
                   [] e = "ENTER_FORCE_SLEEP"   -> TransitHoldSleepState(s1)
                   [] OTHER                     -> s1
<1>1. Good(s1)
  <2> DEFINE u == [s EXCEPT !.isScreenOn = FALSE]
             v == [s EXCEPT !.isScreenOn = TRUE]
  <2>1. Good(u) /\ Good(v)
    BY SetFlag
  <2> HIDE DEF u, v
  <2>2. Good([u EXCEPT !.offLong = FALSE])
    BY <2>1, SetFlag
  <2>3. Good(StartTimer([u EXCEPT !.offLong = FALSE], "HALF_HOUR"))
    BY <2>2, TimerGood, Names
  <2>4. Good(StopTimer(v, "HALF_HOUR"))
    BY <2>1, TimerGood, Names
  <2>5. QED  BY <2>3, <2>4 DEF ScreenStatus, u, v
<1> HIDE DEF s1
<1>2. Good(TransitToState(s1, "WORKING")) /\ Good(TransitHoldSleepState(s1))
  BY <1>1, TransitToStateGood, TransitHoldSleepStateGood, Names
<1>3. Good(HandleUserSleepState(s1, TRUE)) /\ Good(HandleUserSleepState(s1, FALSE))
  BY <1>1, <1>2, BeginStateGood DEF HandleUserSleepState
<1>4. Good(s2)
  BY <1>1, <1>2, <1>3
<1> HIDE DEF s2
<1>5. Good(TransitToState(s2, "DARK"))
  BY <1>4, TransitToStateGood, Names
<1>6. QED  BY <1>4, <1>5 DEF CommonEventHandled, s1, s2

(* The time-out of a state is handled.                                     *)
LEMMA NextStateTimedOutGood ==
  ASSUME NEW s, Good(s), NEW owner \in State
  PROVE  Good(NextStateTimedOut(s, owner))
<1> DEFINE s1 == StopEvalution(AcquireStandbyRunningLock(s))
<1>1. Good(s1)
  BY LockGood, StopEvalutionGood
<1>2. s.next[owner] \in State
  BY FieldTypes
<1> HIDE DEF s1
<1>3. Good(ReleaseStandbyRunningLock(BlockCurrentState(s1)))
  BY <1>1, BlockCurrentStateGood, LockGood
<1>4. Good(TransitToState(s1, s.next[owner]))
  BY <1>1, <1>2, TransitToStateGood
<1>5. QED  BY <1>3, <1>4 DEF NextStateTimedOut, s1

(* A step of a motion detection is done.                                   *)
LEMMA MotionStepDoneGood ==
  ASSUME NEW s, Good(s), NEW step \in MotionStep
  PROVE  Good(MotionStepDone(s, step))
<1>1. Good(EndEvalCurrentState(s, FALSE)) /\ Good(EndEvalCurrentState(s, TRUE))
  BY EndEvalCurrentStateGood
<1>2. Good([s EXCEPT !.sensorOn = FALSE])
  BY SetFlag
<1> DEFINE after == s.delayed \o <<"stop", "restart">>
<1>3. after \in Seq(MotionStep)
  <2>1. <<"stop", "restart">> \in Seq(MotionStep)  BY DEF MotionStep
  <2>2. s.delayed \in Seq(MotionStep)  BY FieldTypes
  <2>3. QED  BY <2>1, <2>2
<1> HIDE DEF after
<1>4. Good(PeriodlyStartMotionDetection(s, after, sensorOk))
  BY <1>3, PeriodlyStartMotionDetectionGood
<1>5. step \in {"moved", "stop", "restart", "total"}
  BY DEF MotionStep
<1>6. QED  BY <1>1, <1>2, <1>4, <1>5 DEF MotionStepDone, after

-----------------------------------------------------------------------------
(* Type correctness.                                                       *)

(* The record after Init of the state manager.                             *)
LEMMA InitialStateType ==
  ASSUME NEW on \in BOOLEAN
  PROVE  InitialState(on) \in SMType /\ \A st \in PhasedState : InitialState(on).index[st] = 0
<1> DEFINE init == InitialState(on)
<1>1. init.next \in [State -> State]
  BY DEF InitialState, State
<1>2. init.queue \in Seq(Task)
  <2>1. TaskOf("CONDITION", "WORKING", "none") \in Task
    BY TaskOfType, Names
  <2>2. init.queue = <<TaskOf("CONDITION", "WORKING", "none")>>
    BY DEF InitialState
  <2>3. QED  BY <2>1, <2>2
<1>3. init.phase \in [PhasedState -> 0..EndPhase] /\ init.index \in [PhasedState -> Nat]
  BY DEF InitialState, EndPhase
<1>4. \A st \in PhasedState : init.index[st] = 0
  BY DEF InitialState
<1> DEFINE next == init.next
           queue == init.queue
           phase == init.phase
           index == init.index
           delayed == init.delayed
           f == FALSE
           t == TRUE
<1>5. init = [cur |-> "WORKING", pre |-> "WORKING",
              phase |-> phase, next |-> next, index |-> index,
              isEvalution |-> f, isEvaluation |-> f, monitor |-> "none",
              sensorOn |-> f, isBlocked |-> f, isRepeatedDetection |-> f,
              scrOffHalfHourCtrl |-> f, isScreenOn |-> on, offLong |-> t, lock |-> f,
              armed |-> {}, inflight |-> {}, queue |-> queue, delayed |-> delayed]
  BY DEF InitialState
<1>6. f \in BOOLEAN /\ t \in BOOLEAN /\ delayed \in Seq(MotionStep) /\ "WORKING" \in State
  BY Names DEF InitialState
<1> HIDE DEF init, next, queue, phase, index, delayed, f, t
<1>7. init \in SMType
  BY <1>1, <1>2, <1>3, <1>5, <1>6 DEF SMType, next, queue, phase, index
<1>8. QED  BY <1>4, <1>7 DEF init

(* Init of the state manager.                                              *)
LEMMA InitType == Init => TypeOK
<1> SUFFICES ASSUME Init PROVE TypeOK
  OBVIOUS
<1>1. screenOn \in BOOLEAN /\ charging \in BOOLEAN /\ sensorOk \in BOOLEAN
  BY DEF Init
<1>2. sm \in SMType /\ \A st \in PhasedState : sm.index[st] = 0
  BY <1>1, InitialStateType DEF Init
<1>3. QED  BY <1>1, <1>2 DEF TypeOK

(* TypeOK is that the record is good and the outside world typed.          *)
LEMMA TypeIsGood ==
  TypeOK <=> Good(sm) /\ screenOn \in BOOLEAN /\ charging \in BOOLEAN /\ sensorOk \in BOOLEAN
BY DEF TypeOK, Good, IndexOK

(* The task at the head of the queue, and the record without it.           *)
LEMMA PoppedGood ==
  ASSUME Good(sm), sm.queue # <<>>
  PROVE  HeadTask \in Task /\ Good(Popped)
<1>1. sm.queue \in Seq(Task)
  BY FieldTypes
<1>2. HeadTask \in Task /\ Tail(sm.queue) \in Seq(Task)
  BY <1>1 DEF HeadTask
<1> DEFINE v == Tail(sm.queue)
<1> HIDE DEF v
<1>3. Good([sm EXCEPT !.queue = v])
  BY <1>2, SetQueue DEF v
<1>4. QED  BY <1>2, <1>3 DEF Popped, v

(* Every task of the handler keeps the type.                               *)
LEMMA HandlerGood ==
  ASSUME Good(sm), Handler
  PROVE  Good(sm') /\ UNCHANGED <<screenOn, charging, sensorOk>>
<1>1. sm.queue # <<>>
  BY DEF Handler, HandleCommonEvent, CheckScreenStatus, TransitNextState, TransitNextPhase,
         StartPeriodlyMotionDetection, MotionDetection, DispatchMessage, Running
<1>2. HeadTask \in Task /\ Good(Popped)
  BY <1>1, PoppedGood
<1>3. HeadTask.owner \in State
  BY <1>2 DEF Task
<1>4. CASE HandleCommonEvent
  BY <1>2, <1>4, CommonEventHandledGood DEF HandleCommonEvent
<1>5. CASE CheckScreenStatus
  BY <1>2, <1>5, TransitToStateGood, Names DEF CheckScreenStatus
<1>6. CASE TransitNextState
  BY <1>2, <1>3, <1>6, NextStateTimedOutGood DEF TransitNextState
<1>7. CASE TransitNextPhase
  <2> DEFINE u == IF HeadTask.arg = "acquire" THEN AcquireStandbyRunningLock(Popped) ELSE Popped
  <2>1. Good(u)
    BY <1>2, LockGood
  <2> HIDE DEF u
  <2>2. Good(TransitToPhase(u, HeadTask.owner))
    BY <2>1, StartEvalCurrentStateGood DEF TransitToPhase
  <2>3. QED  BY <1>7, <2>2 DEF TransitNextPhase, u
<1>8. CASE StartPeriodlyMotionDetection
  <2> DEFINE u == [Popped EXCEPT !.isRepeatedDetection = TRUE]
  <2>1. Good(u)
    BY <1>2, SetFlag
  <2> HIDE DEF u
  <2>2. Good(StartEvalCurrentState(u, "SLEEP", Popped.phase["SLEEP"], "SLEEP", TRUE))
    BY <2>1, StartEvalCurrentStateGood
  <2>3. QED  BY <1>8, <2>2 DEF StartPeriodlyMotionDetection, PeriodlyMotionDetected, u
<1>9. CASE MotionDetection
  <2>1. HeadTask.name = "MOTION"
    BY <1>9 DEF MotionDetection, Running, HeadTask
  <2>2. HeadTask.arg \in MotionStep
    BY <1>2, <2>1 DEF Task
  <2>3. QED  BY <1>2, <1>9, <2>2, MotionStepDoneGood DEF MotionDetection
<1>10. CASE DispatchMessage
  BY <1>2, <1>10 DEF DispatchMessage
<1>11. QED
  BY <1>4, <1>5, <1>6, <1>7, <1>8, <1>9, <1>10 DEF Handler

(* The other threads post tasks and change the outside world.              *)
LEMMA PostEventGood ==
  ASSUME Good(sm), NEW e, PostEvent(e)
  PROVE  Good(sm')
<1>1. e \in CommonEvent
  BY EventAssumption DEF PostEvent
<1>2. Good(PostTask(sm, "EVENT", "WORKING", e))
  BY <1>1, PostTaskGood, Names
<1>3. QED  BY <1>2 DEF PostEvent

(* So do the screen, the charger and the events,                           *)
LEMMA EnvironmentGood ==
  ASSUME TypeOK, Environment
  PROVE  TypeOK'
<1>1. Good(sm) /\ screenOn \in BOOLEAN /\ charging \in BOOLEAN /\ sensorOk \in BOOLEAN
  BY TypeIsGood
<1>2. CASE ScreenChanges
  <2>1. Good(sm')  BY <1>1, <1>2, PostEventGood DEF ScreenChanges
  <2>2. screenOn' \in BOOLEAN  BY <1>2 DEF ScreenChanges
  <2>3. UNCHANGED <<charging, sensorOk>>  BY <1>2 DEF ScreenChanges
  <2>4. QED  BY <1>1, <2>1, <2>2, <2>3 DEF TypeOK, Good, IndexOK
<1>3. CASE ChargingChanges
  <2>1. Good(sm')  BY <1>1, <1>3, PostEventGood DEF ChargingChanges
  <2>2. charging' \in BOOLEAN  BY <1>3 DEF ChargingChanges
  <2>3. UNCHANGED <<screenOn, sensorOk>>  BY <1>3 DEF ChargingChanges
  <2>4. QED  BY <1>1, <2>1, <2>2, <2>3 DEF TypeOK, Good, IndexOK
<1>4. CASE OtherEventArrives
  <2>1. Good(sm')  BY <1>1, <1>4, PostEventGood DEF OtherEventArrives
  <2>2. UNCHANGED <<screenOn, charging, sensorOk>>  BY <1>4 DEF OtherEventArrives
  <2>3. QED  BY <1>1, <2>1, <2>2 DEF TypeOK, Good, IndexOK
<1>5. CASE SensorServiceChanges
  <2>1. sensorOk' \in BOOLEAN  BY <1>5 DEF SensorServiceChanges
  <2>2. UNCHANGED <<sm, screenOn, charging>>  BY <1>5 DEF SensorServiceChanges
  <2>3. QED  BY <1>1, <2>1, <2>2 DEF TypeOK, Good, IndexOK
<1>6. CASE HalfHourElapses
  <2>1. Good([sm EXCEPT !.offLong = TRUE])  BY <1>1, SetFlag
  <2>2. sm' = [sm EXCEPT !.offLong = TRUE]  BY <1>6 DEF HalfHourElapses
  <2>3. UNCHANGED <<screenOn, charging, sensorOk>>  BY <1>6 DEF HalfHourElapses
  <2>4. Good(sm')  BY <2>1, <2>2
  <2>5. QED  BY <1>1, <2>3, <2>4 DEF TypeOK, Good, IndexOK
<1>7. CASE SensorReports
  <2> DEFINE v == sm.inflight \cup {"SENSOR"}
  <2>1. v \in SUBSET (Timer \cup {"SENSOR"})  BY <1>1, FieldTypes
  <2>2. sm' = [sm EXCEPT !.inflight = v]  BY <1>7 DEF SensorReports
  <2>3. UNCHANGED <<screenOn, charging, sensorOk>>  BY <1>7 DEF SensorReports
  <2> HIDE DEF v
  <2>4. Good(sm')  BY <1>1, <2>1, <2>2, SetInflight
  <2>5. QED  BY <1>1, <2>3, <2>4 DEF TypeOK, Good, IndexOK
<1>8. QED  BY <1>2, <1>3, <1>4, <1>5, <1>6, <1>7 DEF Environment

(* the timers and their callbacks,                                         *)
LEMMA TimerStepsGood ==
  ASSUME Good(sm), NEW t \in Timer, TimerExpires(t) \/ TimerCallback(t)
  PROVE  Good(sm') /\ UNCHANGED <<screenOn, charging, sensorOk>>
<1>1. sm.armed \in SUBSET Timer /\ sm.inflight \in SUBSET (Timer \cup {"SENSOR"})
  BY FieldTypes
<1>2. CASE TimerExpires(t)
  <2> DEFINE a == IF t = "REPEATED" THEN sm.armed ELSE sm.armed \ {t}
             v == sm.inflight \cup {t}
             u == [sm EXCEPT !.armed = a]
  <2>1. a \in SUBSET Timer /\ v \in SUBSET (Timer \cup {"SENSOR"})
    BY <1>1
  <2>2. sm' = [u EXCEPT !.inflight = v] /\ UNCHANGED <<screenOn, charging, sensorOk>>
    BY <1>2 DEF TimerExpires
  <2> HIDE DEF a, v
  <2>3. Good(u)  BY <2>1, SetArmed
  <2> HIDE DEF u
  <2>4. QED  BY <2>1, <2>2, <2>3, SetInflight
<1>3. CASE TimerCallback(t)
  <2> DEFINE v == sm.inflight \ {t}
             u == [sm EXCEPT !.inflight = v]
  <2>1. v \in SUBSET (Timer \cup {"SENSOR"})  BY <1>1
  <2>2. /\ sm' = CASE t \in StateTimer -> PostTask(u, "NEXT_STATE", t, "none")
                   [] t = "REPEATED"   -> PostTask(u, "REPEATED", "SLEEP", "none")
                   [] t = "HALF_HOUR"  -> OnScreenOffHalfHourInner(u, TRUE)
        /\ UNCHANGED <<screenOn, charging, sensorOk>>
    BY <1>3 DEF TimerCallback
  <2> HIDE DEF v
  <2>3. Good(u)  BY <2>1, SetInflight
  <2> HIDE DEF u
  <2>4. Good(PostTask(u, "REPEATED", "SLEEP", "none"))  BY <2>3, PostTaskGood, Names
  <2>5. Good(OnScreenOffHalfHourInner(u, TRUE))  BY <2>3, OnScreenOffHalfHourInnerGood
  <2>6. t \in StateTimer => Good(PostTask(u, "NEXT_STATE", t, "none"))
    <3>1. t \in StateTimer => t \in State  BY DEF StateTimer, State
    <3>2. QED  BY <2>3, <3>1, PostTaskGood, Names
  <2>7. t \in StateTimer \cup {"REPEATED", "HALF_HOUR"}  BY DEF Timer
  <2>8. QED  BY <2>2, <2>4, <2>5, <2>6, <2>7
<1>4. QED  BY <1>2, <1>3

(* the callbacks of the sensors,                                           *)
LEMMA SensorCallbackGood ==
  ASSUME Good(sm), SensorCallback
  PROVE  Good(sm') /\ UNCHANGED <<screenOn, charging, sensorOk>>
<1> DEFINE v == sm.inflight \ {"SENSOR"}
           u == [sm EXCEPT !.inflight = v]
<1>1. v \in SUBSET (Timer \cup {"SENSOR"})  BY FieldTypes
<1>2. /\ sm' = PostTask(u, "MOTION", "WORKING", "moved")
      /\ UNCHANGED <<screenOn, charging, sensorOk>>
  BY DEF SensorCallback
<1> HIDE DEF v
<1>3. Good(u)  BY <1>1, SetInflight
<1> HIDE DEF u
<1>4. "moved" \in MotionStep /\ "moved" \in TaskArg /\ "MOTION" \in TaskName /\ "WORKING" \in State
  BY DEF MotionStep, TaskArg, TaskName, State
<1>5. Good(PostTask(u, "MOTION", "WORKING", "moved"))  BY <1>3, <1>4, PostTaskGood
<1>6. QED  BY <1>2, <1>5

(* and the end of a delay.                                                 *)
LEMMA MotionTaskDueGood ==
  ASSUME Good(sm), MotionTaskDue
  PROVE  Good(sm') /\ UNCHANGED <<screenOn, charging, sensorOk>>
<1> DEFINE v == Tail(sm.delayed)
           h == Head(sm.delayed)
           u == [sm EXCEPT !.delayed = v]
<1>1. sm.delayed \in Seq(MotionStep) /\ sm.delayed # <<>>
  BY FieldTypes DEF MotionTaskDue
<1>2. v \in Seq(MotionStep) /\ h \in MotionStep
  BY <1>1
<1>3. /\ sm' = PostTask(u, "MOTION", "WORKING", h)
      /\ UNCHANGED <<screenOn, charging, sensorOk>>
  BY DEF MotionTaskDue
<1> HIDE DEF v, h
<1>4. Good(u)  BY <1>2, SetDelayed
<1> HIDE DEF u
<1>5. MotionStep \subseteq TaskArg /\ "MOTION" \in TaskName /\ "WORKING" \in State
  BY DEF TaskArg, TaskName, State
<1>6. Good(PostTask(u, "MOTION", "WORKING", h))  BY <1>2, <1>4, <1>5, PostTaskGood
<1>7. QED  BY <1>3, <1>6

(* Every step keeps the type.                                              *)
LEMMA NextType == TypeOK /\ [Next]_vars => TypeOK'
<1> SUFFICES ASSUME TypeOK, [Next]_vars PROVE TypeOK'
  OBVIOUS
<1>1. Good(sm) /\ screenOn \in BOOLEAN /\ charging \in BOOLEAN /\ sensorOk \in BOOLEAN
  BY TypeIsGood
<1>2. ASSUME Good(sm'), UNCHANGED <<screenOn, charging, sensorOk>> PROVE TypeOK'
  BY <1>1, <1>2 DEF TypeOK, Good, IndexOK
<1>3. CASE Handler
  BY <1>1, <1>2, <1>3, HandlerGood
<1>4. CASE Environment
  BY <1>4, EnvironmentGood
<1>5. ASSUME NEW t \in Timer, TimerExpires(t) \/ TimerCallback(t) PROVE TypeOK'
  BY <1>1, <1>2, <1>5, TimerStepsGood
<1>6. CASE SensorCallback
  BY <1>1, <1>2, <1>6, SensorCallbackGood
<1>7. CASE MotionTaskDue
  BY <1>1, <1>2, <1>7, MotionTaskDueGood
<1>8. CASE UNCHANGED vars
  BY <1>1, <1>2, <1>8 DEF vars
<1>9. QED  BY <1>3, <1>4, <1>5, <1>6, <1>7, <1>8 DEF Next

(* Under any configuration and any interleaving of the handler with late   *)
(* timer and sensor callbacks, the state machine stays in its types: no    *)
(* phase beyond END, no task for an unknown state, and no index past the   *)
(* list of maintenance intervals in CalculateMaintTimeOut.                 *)
THEOREM TypeCorrect == Spec => []TypeOK
BY InitType, NextType, PTL DEF Spec

-----------------------------------------------------------------------------
(* The invariants of the record.                                           *)

Tasks(s) == {s.queue[i] : i \in DOMAIN s.queue}

(* The two flags of an evaluation agree.                                   *)
Agrees(s) == s.isEvalution = s.isEvaluation

(* A detection task, other than the report of a motion.                    *)
Detects(t) == t.name = "MOTION" /\ t.arg # "moved"

(* Sensors are on, and detection tasks exist, only in a motion evaluation. *)
SensorsIn(s) ==
  (s.sensorOn \/ s.delayed # <<>> \/ \E t \in Tasks(s) : Detects(t))
  => s.isEvaluation /\ s.monitor = "motion"

(* The timers of a state are armed only while it is current.               *)
TimersIn(s) ==
  \A t \in s.armed : t = s.cur \/ (t = "REPEATED" /\ s.cur = "SLEEP") \/ t = "HALF_HOUR"

(* A queued task belongs to the state that posted it; the tasks of timers  *)
(* do so only if no callback is late.                                      *)
Belongs(t, cur) ==
  /\ t.name = "CONDITION" => cur = "WORKING"
  /\ t.name = "NEXT_PHASE" => t.owner = cur /\ cur \in PhasedState
  /\ SlowTimers /\ t.name = "NEXT_STATE" => t.owner = cur /\ cur # "WORKING"
  /\ SlowTimers /\ t.name = "REPEATED" => cur = "SLEEP"

TasksIn(s) == \A t \in Tasks(s) : Belongs(t, s.cur)

(* The successors of the states; a maintenance window was opened by nap or *)
(* sleep and returns there.                                                *)
NextIn(s) ==
  /\ s.next["DARK"] \in {"DARK", "NAP", "SLEEP"}
  /\ s.next["NAP"] \in {"NAP", "SLEEP", "MAINTENANCE"}
  /\ s.next["SLEEP"] = "MAINTENANCE"
  /\ s.cur = "MAINTENANCE" => s.next["MAINTENANCE"] = s.pre /\ s.pre \in PhasedState

Safe(s) == Agrees(s) /\ SensorsIn(s) /\ TimersIn(s) /\ TasksIn(s) /\ NextIn(s)

(* A callback that is under way belongs to the state that is current.      *)
CallbacksIn(s) ==
  SlowTimers => \A t \in s.inflight : /\ t \in StateTimer => t = s.cur
                                      /\ t = "REPEATED" => s.cur = "SLEEP"

Inv == Good(sm) /\ Safe(sm) /\ CallbacksIn(sm)

-----------------------------------------------------------------------------
(* What the elementary operations change.                                  *)

(* The evaluation, the screen and the callbacks under way are as before.   *)
SameEval(s, r) ==
  /\ r.isEvalution = s.isEvalution /\ r.isEvaluation = s.isEvaluation
  /\ r.monitor = s.monitor /\ r.sensorOn = s.sensorOn /\ r.delayed = s.delayed
  /\ r.isScreenOn = s.isScreenOn /\ r.inflight = s.inflight

(* So are the state, its timers and the half-hour control.                 *)
Same(s, r) ==
  /\ SameEval(s, r)
  /\ r.cur = s.cur /\ r.pre = s.pre /\ r.next = s.next
  /\ r.armed = s.armed /\ r.scrOffHalfHourCtrl = s.scrOffHalfHourCtrl

(* Messages to the strategies: the state machine asks nothing of them.     *)
Message == {"STATE_TRANSIT", "PHASE_TRANSIT", "SCREEN_OFF_HALF_HOUR", "REMOVED"}

(* Every queued task of r was queued in s, or is a message.                *)
OnlyMessages(s, r) == \A t \in Tasks(r) : t \in Tasks(s) \/ t.name \in Message

(* A queued task is a Task.                                                *)
LEMMA TasksType ==
  ASSUME NEW s, Good(s)
  PROVE  Tasks(s) \subseteq Task
<1>1. s.queue \in Seq(Task)
  BY FieldTypes
<1>2. QED  BY <1>1 DEF Tasks

(* Assignments to the fields that the invariants do not look at.           *)
LEMMA SameFields ==
  ASSUME NEW s, Good(s), NEW v
  PROVE  /\ LET r == [s EXCEPT !.isBlocked = v] IN Same(s, r) /\ Tasks(r) = Tasks(s)
         /\ LET r == [s EXCEPT !.isRepeatedDetection = v] IN Same(s, r) /\ Tasks(r) = Tasks(s)
         /\ LET r == [s EXCEPT !.lock = v] IN Same(s, r) /\ Tasks(r) = Tasks(s)
         /\ LET r == [s EXCEPT !.offLong = v] IN Same(s, r) /\ Tasks(r) = Tasks(s)
         /\ \A st : LET r == [s EXCEPT !.index[st] = v] IN Same(s, r) /\ Tasks(r) = Tasks(s)
         /\ \A st : LET r == [s EXCEPT !.phase[st] = v] IN Same(s, r) /\ Tasks(r) = Tasks(s)
BY DEF Good, SMType, Same, SameEval, Tasks

(* Posting a task appends it and changes nothing else.                     *)
LEMMA PostTaskDoes ==
  ASSUME NEW s, Good(s), NEW n, NEW o, NEW a
  PROVE  /\ Same(s, PostTask(s, n, o, a))
         /\ Tasks(PostTask(s, n, o, a)) = Tasks(s) \cup {TaskOf(n, o, a)}
<1> DEFINE q == s.queue
           x == TaskOf(n, o, a)
           r == PostTask(s, n, o, a)
<1>1. q \in Seq(Task)
  BY FieldTypes
<1>2. Same(s, r) /\ r.queue = Append(q, x)
  BY DEF Good, SMType, Same, SameEval, PostTask
<1> HIDE DEF q, r, x
<1>3. /\ DOMAIN Append(q, x) = 1..(Len(q) + 1) /\ DOMAIN q = 1..Len(q) /\ Len(q) \in Nat
      /\ \A i \in 1..Len(q) : Append(q, x)[i] = q[i]
      /\ Append(q, x)[Len(q) + 1] = x
  BY <1>1
<1>4. {Append(q, x)[i] : i \in DOMAIN Append(q, x)} = {q[i] : i \in DOMAIN q} \cup {x}
  BY <1>3
<1>5. QED  BY <1>2, <1>4 DEF Tasks, q, r, x

(* Removing tasks of a name leaves the others, and the holes.              *)
LEMMA RemoveTaskDoes ==
  ASSUME NEW s, Good(s), NEW n
  PROVE  /\ Same(s, RemoveTask(s, n))
         /\ \A t \in Tasks(RemoveTask(s, n)) : t = Removed \/ (t \in Tasks(s) /\ t.name # n)
<1> DEFINE q == s.queue
           v == [i \in DOMAIN q |-> IF q[i].name = n THEN Removed ELSE q[i]]
           r == RemoveTask(s, n)
<1>1. Same(s, r) /\ r.queue = v
  BY DEF Good, SMType, Same, SameEval, RemoveTask
<1>2. DOMAIN v = DOMAIN q /\ \A i \in DOMAIN q : v[i] = Removed \/ (v[i] = q[i] /\ q[i].name # n)
  OBVIOUS
<1> HIDE DEF v, r
<1>3. QED  BY <1>1, <1>2 DEF Tasks, r

(* Starting and stopping a timer changes the armed timers alone.           *)
LEMMA TimerDoes ==
  ASSUME NEW s, Good(s), NEW t
  PROVE  /\ LET r == StartTimer(s, t)
            IN  /\ SameEval(s, r) /\ Tasks(r) = Tasks(s) /\ r.armed = s.armed \cup {t}
                /\ r.cur = s.cur /\ r.pre = s.pre /\ r.next = s.next
                /\ r.scrOffHalfHourCtrl = s.scrOffHalfHourCtrl
         /\ LET r == StopTimer(s, t)
            IN  /\ SameEval(s, r) /\ Tasks(r) = Tasks(s) /\ r.armed = s.armed \ {t}
                /\ r.cur = s.cur /\ r.pre = s.pre /\ r.next = s.next
                /\ r.scrOffHalfHourCtrl = s.scrOffHalfHourCtrl
BY DEF Good, SMType, SameEval, Tasks, StartTimer, StopTimer

(* Setting the next state of a state changes nothing else.                 *)
LEMMA NextDoes ==
  ASSUME NEW s, Good(s), NEW st \in State, NEW v
  PROVE  LET r == [s EXCEPT !.next[st] = v]
         IN  /\ SameEval(s, r) /\ Tasks(r) = Tasks(s) /\ r.armed = s.armed
             /\ r.cur = s.cur /\ r.pre = s.pre /\ r.next = [s.next EXCEPT ![st] = v]
             /\ r.scrOffHalfHourCtrl = s.scrOffHalfHourCtrl
BY DEF Good, SMType, SameEval, Tasks

(* Taking or releasing the lock and unblocking change nothing else.        *)
LEMMA LockDoes ==
  ASSUME NEW s, Good(s)
  PROVE  /\ Same(s, AcquireStandbyRunningLock(s))
         /\ Tasks(AcquireStandbyRunningLock(s)) = Tasks(s)
         /\ Same(s, ReleaseStandbyRunningLock(s))
         /\ Tasks(ReleaseStandbyRunningLock(s)) = Tasks(s)
         /\ Same(s, UnblockCurrentState(s))
         /\ Tasks(UnblockCurrentState(s)) = Tasks(s)
BY SameFields DEF AcquireStandbyRunningLock, ReleaseStandbyRunningLock, UnblockCurrentState

(* Only the half-hour control may differ between s and r: it is cleared,   *)
(* or set in sleep and in the windows of sleep.                            *)
HalfHour(s, r, ctrl) ==
  /\ SameEval(s, r) /\ OnlyMessages(s, r)
  /\ r.cur = s.cur /\ r.pre = s.pre /\ r.next = s.next /\ r.armed = s.armed
  /\ ctrl => \/ r.scrOffHalfHourCtrl = s.scrOffHalfHourCtrl
             \/ /\ r.scrOffHalfHourCtrl = TRUE
                /\ s.cur = "SLEEP" \/ (s.pre = "SLEEP" /\ s.cur = "MAINTENANCE")
  /\ ~ ctrl => r.scrOffHalfHourCtrl = FALSE

(* The restriction after half an hour, in the state that is current.       *)
LEMMA OnScreenOffHalfHourInnerDoes ==
  ASSUME NEW s, Good(s), NEW ctrl \in BOOLEAN
  PROVE  HalfHour(s, OnScreenOffHalfHourInner(s, ctrl), ctrl)
<1> DEFINE u == [s EXCEPT !.scrOffHalfHourCtrl = ctrl]
           a == IF ctrl THEN "on" ELSE "off"
           w == PostTask(u, "SCREEN_OFF_HALF_HOUR", s.cur, a)
<1>1. Good(u)
  BY SetFlag
<1>2. /\ SameEval(s, u) /\ Tasks(u) = Tasks(s)
      /\ u.cur = s.cur /\ u.pre = s.pre /\ u.next = s.next /\ u.armed = s.armed
      /\ u.scrOffHalfHourCtrl = ctrl
  BY DEF Good, SMType, SameEval, Tasks
<1> HIDE DEF u, a
<1>3. Same(u, w) /\ Tasks(w) = Tasks(u) \cup {TaskOf("SCREEN_OFF_HALF_HOUR", s.cur, a)}
  BY <1>1, PostTaskDoes
<1> HIDE DEF w
<1>4. SameEval(s, w) /\ OnlyMessages(s, w)
  BY <1>2, <1>3 DEF Same, SameEval, OnlyMessages, Message, TaskOf
<1>5. /\ w.cur = s.cur /\ w.pre = s.pre /\ w.next = s.next /\ w.armed = s.armed
      /\ w.scrOffHalfHourCtrl = ctrl
  BY <1>2, <1>3 DEF Same
<1>6. CASE \/ ctrl /\ ~ (s.cur = "SLEEP" \/ (s.pre = "SLEEP" /\ s.cur = "MAINTENANCE"))
           \/ s.scrOffHalfHourCtrl = ctrl
  <2>1. OnScreenOffHalfHourInner(s, ctrl) = s
    BY <1>6 DEF OnScreenOffHalfHourInner
  <2>2. HalfHour(s, s, ctrl)
    BY <1>6 DEF HalfHour, SameEval, OnlyMessages
  <2>3. QED  BY <2>1, <2>2
<1>7. CASE ~ ( \/ ctrl /\ ~ (s.cur = "SLEEP" \/ (s.pre = "SLEEP" /\ s.cur = "MAINTENANCE"))
               \/ s.scrOffHalfHourCtrl = ctrl )
  <2>1. OnScreenOffHalfHourInner(s, ctrl) = w
    BY <1>7 DEF OnScreenOffHalfHourInner, w, u, a
  <2>2. HalfHour(s, w, ctrl)
    BY <1>4, <1>5, <1>7 DEF HalfHour
  <2>3. QED  BY <2>1, <2>2
<1>8. QED  BY <1>6, <1>7

(* Coming back from maintenance may start the timer of the state.          *)
LEMMA ResumeFromMaintDoes ==
  ASSUME NEW s, Good(s), NEW st \in PhasedState
  PROVE  LET r == ResumeFromMaint(s, st)
         IN  /\ SameEval(s, r) /\ Tasks(r) = Tasks(s) /\ r.armed \subseteq s.armed \cup {st}
             /\ r.cur = s.cur /\ r.pre = s.pre /\ r.next = s.next
             /\ r.scrOffHalfHourCtrl = s.scrOffHalfHourCtrl
<1> DEFINE v == NextIndex(s, st)
           u == [s EXCEPT !.index[st] = v]
<1>1. CASE Len(MaintInterval(st)) = 0
  BY <1>1 DEF ResumeFromMaint, SameEval
<1>2. CASE Len(MaintInterval(st)) # 0
  <2>1. v \in Nat /\ v < Len(MaintInterval(st))
    BY <1>2, NextIndexInList
  <2>2. Same(s, u) /\ Tasks(u) = Tasks(s)
    BY ZenonT(60), SameFields
  <2> HIDE DEF v
  <2>3. Good(u)
    BY <2>1, SetIndex
  <2> HIDE DEF u
  <2>4. LET r == StartTimer(u, st)
        IN  /\ SameEval(u, r) /\ Tasks(r) = Tasks(u) /\ r.armed = u.armed \cup {st}
            /\ r.cur = u.cur /\ r.pre = u.pre /\ r.next = u.next
            /\ r.scrOffHalfHourCtrl = u.scrOffHalfHourCtrl
    BY <2>3, TimerDoes
  <2>5. ResumeFromMaint(s, st) = u \/ ResumeFromMaint(s, st) = StartTimer(u, st)
    BY <1>2 DEF ResumeFromMaint, u, v
  <2>6. QED  BY <2>2, <2>4, <2>5 DEF Same, SameEval
<1>3. QED  BY <1>1, <1>2

-----------------------------------------------------------------------------
(* What beginning and ending a state change.                               *)

(* The successor of nap may change; those of dark and sleep never do.      *)
NextKept(s, r) ==
  /\ r.next["DARK"] = s.next["DARK"] /\ r.next["SLEEP"] = s.next["SLEEP"]
  /\ r.next["NAP"] \in {s.next["NAP"], "SLEEP", "MAINTENANCE"}

(* The tasks a state posts for itself.                                     *)
OwnTask(t, cur) ==
  \/ t.name = "CONDITION" /\ cur = "WORKING"
  \/ t.name = "NEXT_PHASE" /\ t.owner = cur /\ cur \in PhasedState

(* Beginning the state s.cur: it may start its own timer, post its own     *)
(* task, and restrict a sleep that does not come from maintenance.         *)
Begins(s, r) ==
  /\ SameEval(s, r) /\ r.cur = s.cur /\ r.pre = s.pre
  /\ r.armed \subseteq s.armed \cup {s.cur}
  /\ \A t \in Tasks(r) : t \in Tasks(s) \/ t.name \in Message \/ OwnTask(t, s.cur)
  /\ NextKept(s, r)
  /\ s.cur = "MAINTENANCE" => r.next["MAINTENANCE"] = s.pre
  /\ \/ r.scrOffHalfHourCtrl = s.scrOffHalfHourCtrl
     \/ s.cur = "SLEEP" /\ s.pre # "MAINTENANCE" /\ r.scrOffHalfHourCtrl = TRUE

(* What BeginState of working arms and posts.                              *)
LEMMA BeginWorkingDoes ==
  ASSUME NEW s, Good(s), s.cur = "WORKING"
  PROVE  Begins(s, BeginWorking(s))
<1> DEFINE r == BeginWorking(s)
<1>1. Same(s, r) /\ Tasks(r) = Tasks(s) \cup {TaskOf("CONDITION", "WORKING", "none")}
  BY PostTaskDoes DEF BeginWorking
<1> HIDE DEF r
<1>2. \A t \in Tasks(r) : t \in Tasks(s) \/ OwnTask(t, s.cur)
  BY <1>1 DEF TaskOf, OwnTask
<1>3. QED  BY <1>1, <1>2 DEF Begins, Same, NextKept, r

(* What BeginState of dark arms and posts.                                 *)
LEMMA BeginDarkDoes ==
  ASSUME NEW s, Good(s), s.cur = "DARK"
  PROVE  Begins(s, BeginDark(s))
<1> DEFINE r == StartTimer(s, "DARK")
<1>1. /\ SameEval(s, r) /\ Tasks(r) = Tasks(s) /\ r.armed = s.armed \cup {"DARK"}
      /\ r.cur = s.cur /\ r.pre = s.pre /\ r.next = s.next
      /\ r.scrOffHalfHourCtrl = s.scrOffHalfHourCtrl
  BY TimerDoes
<1> HIDE DEF r
<1>2. Begins(s, r)
  BY <1>1 DEF Begins, NextKept
<1>3. Begins(s, s)
  BY DEF Begins, NextKept, SameEval
<1>4. QED  BY <1>2, <1>3 DEF BeginDark, r

(* What BeginState of nap arms and posts.                                  *)
LEMMA BeginNapDoes ==
  ASSUME NEW s, Good(s), s.cur = "NAP"
  PROVE  Begins(s, BeginNap(s))
<1> DEFINE s0 == [s EXCEPT !.index["NAP"] = 0]
           s1 == [s EXCEPT !.index["NAP"] = 0, !.phase["NAP"] = 0]
           n1 == [s1 EXCEPT !.next["NAP"] = "SLEEP"]
           s2 == IF SleepSwitch THEN StartTimer(n1, "NAP") ELSE s1
           x  == PostTask(s2, "NEXT_PHASE", "NAP", "acquire")
           m  == [s EXCEPT !.next["NAP"] = "MAINTENANCE"]
           y  == ResumeFromMaint(m, "NAP")
<1>1. "NAP" \in PhasedState /\ "NAP" \in State /\ "SLEEP" \in State
      /\ "MAINTENANCE" \in State /\ "NAP" \in Timer
  BY Names
<1>2. s.next \in [State -> State]
  BY FieldTypes
<1>3. Good(s1) /\ Same(s, s1) /\ Tasks(s1) = Tasks(s)
  <2>1. Good(s0) /\ Same(s, s0) /\ Tasks(s0) = Tasks(s)
    BY ZenonT(60), <1>1, SetIndex, SameFields
  <2> HIDE DEF s0
  <2>2. 0 \in 0..EndPhase
    BY DEF EndPhase
  <2>3. LET r == [s0 EXCEPT !.phase["NAP"] = 0] IN Good(r) /\ Same(s0, r) /\ Tasks(r) = Tasks(s0)
    BY ZenonT(60), <1>1, <2>1, <2>2, SetPhase, SameFields
  <2>4. s1 = [s0 EXCEPT !.phase["NAP"] = 0]
    BY DEF s0
  <2>5. QED  BY <2>1, <2>3, <2>4 DEF Same, SameEval
<1> HIDE DEF s1
<1>4. Good(n1) /\ SameEval(s, n1) /\ Tasks(n1) = Tasks(s) /\ n1.armed = s.armed
      /\ n1.cur = s.cur /\ n1.pre = s.pre /\ n1.next = [s.next EXCEPT !["NAP"] = "SLEEP"]
      /\ n1.scrOffHalfHourCtrl = s.scrOffHalfHourCtrl
  <2>1. Good(n1)
    BY <1>1, <1>3, SetNext
  <2>2. /\ SameEval(s1, n1) /\ Tasks(n1) = Tasks(s1) /\ n1.armed = s1.armed
        /\ n1.cur = s1.cur /\ n1.pre = s1.pre /\ n1.next = [s1.next EXCEPT !["NAP"] = "SLEEP"]
        /\ n1.scrOffHalfHourCtrl = s1.scrOffHalfHourCtrl
    BY <1>1, <1>3, NextDoes
  <2> HIDE DEF n1
  <2>3. QED  BY <1>3, <2>1, <2>2 DEF Same, SameEval
<1> HIDE DEF n1
<1>5. Good(s2) /\ SameEval(s, s2) /\ Tasks(s2) = Tasks(s) /\ s2.armed \subseteq s.armed \cup {"NAP"}
      /\ s2.cur = s.cur /\ s2.pre = s.pre
      /\ (s2.next = s.next \/ s2.next = [s.next EXCEPT !["NAP"] = "SLEEP"])
      /\ s2.scrOffHalfHourCtrl = s.scrOffHalfHourCtrl
  <2> DEFINE r == StartTimer(n1, "NAP")
  <2>1. /\ Good(r) /\ SameEval(n1, r) /\ Tasks(r) = Tasks(n1) /\ r.armed = n1.armed \cup {"NAP"}
        /\ r.cur = n1.cur /\ r.pre = n1.pre /\ r.next = n1.next
        /\ r.scrOffHalfHourCtrl = n1.scrOffHalfHourCtrl
    BY <1>1, <1>4, TimerGood, TimerDoes
  <2>2. s2 = r \/ s2 = s1
    OBVIOUS
  <2> HIDE DEF r, s2
  <2>3. QED  BY <1>3, <1>4, <2>1, <2>2 DEF Same, SameEval
<1> HIDE DEF s2
<1>6. Begins(s, x)
  <2>1. Same(s2, x) /\ Tasks(x) = Tasks(s2) \cup {TaskOf("NEXT_PHASE", "NAP", "acquire")}
    BY <1>5, PostTaskDoes
  <2> HIDE DEF x
  <2>2. \A t \in Tasks(x) : t \in Tasks(s) \/ OwnTask(t, s.cur)
    BY <1>1, <1>5, <2>1 DEF TaskOf, OwnTask
  <2>3. NextKept(s, x)
    BY <1>1, <1>2, <1>5, <2>1 DEF NextKept, Same, State
  <2>4. QED  BY <1>5, <2>1, <2>2, <2>3 DEF Begins, Same, SameEval
<1>7. Begins(s, y)
  <2>1. /\ Good(m) /\ SameEval(s, m) /\ Tasks(m) = Tasks(s) /\ m.armed = s.armed
        /\ m.cur = s.cur /\ m.pre = s.pre /\ m.next = [s.next EXCEPT !["NAP"] = "MAINTENANCE"]
        /\ m.scrOffHalfHourCtrl = s.scrOffHalfHourCtrl
    BY <1>1, SetNext, NextDoes
  <2> HIDE DEF m
  <2>2. /\ SameEval(m, y) /\ Tasks(y) = Tasks(m) /\ y.armed \subseteq m.armed \cup {"NAP"}
        /\ y.cur = m.cur /\ y.pre = m.pre /\ y.next = m.next
        /\ y.scrOffHalfHourCtrl = m.scrOffHalfHourCtrl
    BY <1>1, <2>1, ResumeFromMaintDoes
  <2> HIDE DEF y
  <2>3. NextKept(s, y)
    BY <1>1, <1>2, <2>1, <2>2 DEF NextKept, State
  <2>4. QED  BY <2>1, <2>2, <2>3 DEF Begins, SameEval
<1>8. QED  BY <1>6, <1>7 DEF BeginNap, x, y, m, s1, n1, s2

(* What BeginState of maintenance arms and posts.                          *)
LEMMA BeginMaintenanceDoes ==
  ASSUME NEW s, Good(s), s.cur = "MAINTENANCE"
  PROVE  Begins(s, BeginMaintenance(s))
<1> DEFINE u == [s EXCEPT !.next["MAINTENANCE"] = s.pre]
           r == StartTimer(u, "MAINTENANCE")
<1>1. "MAINTENANCE" \in State /\ s.pre \in State /\ s.next \in [State -> State]
  BY FieldTypes, Names
<1>2. /\ Good(u) /\ SameEval(s, u) /\ Tasks(u) = Tasks(s) /\ u.armed = s.armed
      /\ u.cur = s.cur /\ u.pre = s.pre /\ u.next = [s.next EXCEPT !["MAINTENANCE"] = s.pre]
      /\ u.scrOffHalfHourCtrl = s.scrOffHalfHourCtrl
  BY <1>1, SetNext, NextDoes
<1> HIDE DEF u
<1>3. /\ SameEval(u, r) /\ Tasks(r) = Tasks(u) /\ r.armed = u.armed \cup {"MAINTENANCE"}
      /\ r.cur = u.cur /\ r.pre = u.pre /\ r.next = u.next
      /\ r.scrOffHalfHourCtrl = u.scrOffHalfHourCtrl
  BY <1>2, TimerDoes
<1> HIDE DEF r
<1>4. NextKept(s, r) /\ r.next["MAINTENANCE"] = s.pre
  BY <1>1, <1>2, <1>3 DEF NextKept, State
<1>5. Begins(s, r)
  BY <1>2, <1>3, <1>4 DEF Begins, SameEval
<1>6. QED  BY <1>5 DEF BeginMaintenance, r, u

(* What BeginState of sleep arms and posts.                                *)
LEMMA BeginSleepDoes ==
  ASSUME NEW s, Good(s), s.cur = "SLEEP"
  PROVE  Begins(s, BeginSleep(s))
<1> DEFINE s0 == [s EXCEPT !.isRepeatedDetection = FALSE]
           i0 == [s0 EXCEPT !.index["SLEEP"] = 0]
           s1 == [s0 EXCEPT !.index["SLEEP"] = 0, !.phase["SLEEP"] = 0]
           p1 == PostTask(s1, "NEXT_PHASE", "SLEEP", "acquire")
           s2 == StartTimer(p1, "SLEEP")
           x  == OnScreenOffHalfHourInner(s2, TRUE)
           y  == ResumeFromMaint(s0, "SLEEP")
<1>1. "SLEEP" \in PhasedState /\ "SLEEP" \in State /\ "SLEEP" \in Timer
  BY Names
<1>2. Good(s0) /\ Same(s, s0) /\ Tasks(s0) = Tasks(s) /\ s0.pre = s.pre
  BY ZenonT(60), SetFlag, SameFields DEF Same
<1> HIDE DEF s0
<1>3. Begins(s, y)
  <2>1. /\ SameEval(s0, y) /\ Tasks(y) = Tasks(s0) /\ y.armed \subseteq s0.armed \cup {"SLEEP"}
        /\ y.cur = s0.cur /\ y.pre = s0.pre /\ y.next = s0.next
        /\ y.scrOffHalfHourCtrl = s0.scrOffHalfHourCtrl
    BY <1>1, <1>2, ResumeFromMaintDoes
  <2> HIDE DEF y
  <2>2. QED  BY <1>2, <2>1 DEF Begins, Same, SameEval, NextKept
<1>4. Good(s1) /\ Same(s, s1) /\ Tasks(s1) = Tasks(s)
  <2>1. Good(i0) /\ Same(s0, i0) /\ Tasks(i0) = Tasks(s0)
    BY ZenonT(60), <1>1, <1>2, SetIndex, SameFields
  <2> HIDE DEF i0
  <2>2. 0 \in 0..EndPhase
    BY DEF EndPhase
  <2>3. LET r == [i0 EXCEPT !.phase["SLEEP"] = 0] IN Good(r) /\ Same(i0, r) /\ Tasks(r) = Tasks(i0)
    BY ZenonT(60), <1>1, <2>1, <2>2, SetPhase, SameFields
  <2>4. s1 = [i0 EXCEPT !.phase["SLEEP"] = 0]
    BY DEF i0
  <2>5. QED  BY <1>2, <2>1, <2>3, <2>4 DEF Same, SameEval
<1> HIDE DEF s1
<1>5. Good(p1) /\ Same(s1, p1) /\ Tasks(p1) = Tasks(s1) \cup {TaskOf("NEXT_PHASE", "SLEEP", "acquire")}
  BY <1>1, <1>4, PostTaskGood, PostTaskDoes, Names
<1> HIDE DEF p1
<1>6. /\ Good(s2) /\ SameEval(p1, s2) /\ Tasks(s2) = Tasks(p1) /\ s2.armed = p1.armed \cup {"SLEEP"}
      /\ s2.cur = p1.cur /\ s2.pre = p1.pre /\ s2.next = p1.next
      /\ s2.scrOffHalfHourCtrl = p1.scrOffHalfHourCtrl
  BY <1>1, <1>5, TimerGood, TimerDoes
<1> HIDE DEF s2
<1>7. \A t \in Tasks(s2) : t \in Tasks(s) \/ OwnTask(t, s.cur)
  BY <1>1, <1>4, <1>5, <1>6 DEF TaskOf, OwnTask
<1>8. SameEval(s, s2) /\ s2.cur = s.cur /\ s2.pre = s.pre /\ s2.next = s.next
      /\ s2.armed = s.armed \cup {"SLEEP"} /\ s2.scrOffHalfHourCtrl = s.scrOffHalfHourCtrl
  BY <1>4, <1>5, <1>6 DEF Same, SameEval
<1>9. Begins(s, s2)
  BY <1>7, <1>8 DEF Begins, NextKept
<1>10. s.pre # "MAINTENANCE" => Begins(s, x)
  <2>1. HalfHour(s2, x, TRUE)
    BY <1>6, OnScreenOffHalfHourInnerDoes
  <2> HIDE DEF x
  <2>2. \A t \in Tasks(x) : t \in Tasks(s) \/ t.name \in Message \/ OwnTask(t, s.cur)
    BY <1>7, <2>1 DEF HalfHour, OnlyMessages
  <2>3. SameEval(s, x) /\ NextKept(s, x) /\ x.cur = s.cur /\ x.pre = s.pre
        /\ x.armed = s.armed \cup {"SLEEP"}
    BY <1>8, <2>1 DEF HalfHour, SameEval, NextKept
  <2>4. \/ x.scrOffHalfHourCtrl = s.scrOffHalfHourCtrl
        \/ x.scrOffHalfHourCtrl = TRUE
    BY <1>8, <2>1 DEF HalfHour
  <2>5. QED  BY <2>2, <2>3, <2>4 DEF Begins
<1>11. BeginSleep(s) = IF s.pre = "MAINTENANCE" THEN y ELSE IF s2.offLong THEN x ELSE s2
  BY DEF BeginSleep, s0, s1, p1, s2, x, y
<1>12. QED  BY <1>3, <1>9, <1>10, <1>11

(* BeginState arms timers and posts tasks of the state that begins.        *)
LEMMA BeginStateDoes ==
  ASSUME NEW s, Good(s)
  PROVE  Begins(s, BeginState(s))
<1>1. s.cur \in {"WORKING", "DARK", "NAP", "MAINTENANCE", "SLEEP"}
  BY FieldTypes, Names
<1>2. QED
  BY <1>1, BeginWorkingDoes, BeginDarkDoes, BeginNapDoes, BeginMaintenanceDoes, BeginSleepDoes
  DEF BeginState

(* A task that belongs to no state.                                        *)
Free(t) ==
  /\ t.name \notin {"CONDITION", "NEXT_PHASE"}
  /\ SlowTimers => t.name \notin {"NEXT_STATE", "REPEATED"}

(* Ending a state stops its timers and removes its tasks.                  *)
Ends(s, r) ==
  /\ SameEval(s, r) /\ r.cur = s.cur /\ r.pre = s.pre /\ r.next = s.next
  /\ r.scrOffHalfHourCtrl = s.scrOffHalfHourCtrl
  /\ r.armed \subseteq {"HALF_HOUR"}
  /\ \A t \in Tasks(r) : t = Removed \/ (t \in Tasks(s) /\ Free(t))

(* EndState leaves no timer and no task of the state that ends.            *)
LEMMA EndStateDoes ==
  ASSUME NEW s, Good(s), TimersIn(s), TasksIn(s)
  PROVE  Ends(s, EndState(s))
<1>1. s.cur \in {"WORKING", "DARK", "NAP", "MAINTENANCE", "SLEEP"} /\ s.armed \in SUBSET Timer
  BY FieldTypes, Names
<1>2. ASSUME NEW u, Good(u), NEW n
      PROVE  LET r == RemoveTask(u, n)
             IN  /\ Good(r) /\ Same(u, r)
                 /\ \A t \in Tasks(r) : t = Removed \/ (t \in Tasks(u) /\ t.name # n)
  BY <1>2, RemoveTaskGood, RemoveTaskDoes
<1>3. \A t \in Tasks(s) : Belongs(t, s.cur)
  BY DEF TasksIn
<1>4. CASE s.cur = "WORKING"
  <2> DEFINE r == RemoveTask(s, "CONDITION")
  <2>1. Same(s, r) /\ \A t \in Tasks(r) : t = Removed \/ (t \in Tasks(s) /\ t.name # "CONDITION")
    BY <1>2
  <2> HIDE DEF r
  <2>2. \A t \in Tasks(r) : t = Removed \/ (t \in Tasks(s) /\ Free(t))
    BY <1>3, <1>4, <2>1 DEF Belongs, Free, PhasedState
  <2>3. r.armed \subseteq {"HALF_HOUR"}
    BY <1>1, <1>4, <2>1 DEF TimersIn, Same, Timer, StateTimer
  <2>4. QED  BY <1>4, <2>1, <2>2, <2>3 DEF EndState, Ends, Same, r
<1>5. CASE s.cur \in {"DARK", "MAINTENANCE"}
  <2> DEFINE u == StopTimer(s, s.cur)
             r == RemoveTask(u, "NEXT_STATE")
  <2>1. /\ Good(u) /\ SameEval(s, u) /\ Tasks(u) = Tasks(s) /\ u.armed = s.armed \ {s.cur}
        /\ u.cur = s.cur /\ u.pre = s.pre /\ u.next = s.next
        /\ u.scrOffHalfHourCtrl = s.scrOffHalfHourCtrl
    <3>1. s.cur \in Timer  BY <1>5 DEF Timer, StateTimer
    <3>2. QED  BY <3>1, TimerGood, TimerDoes
  <2> HIDE DEF u
  <2>2. Same(u, r) /\ \A t \in Tasks(r) : t = Removed \/ (t \in Tasks(u) /\ t.name # "NEXT_STATE")
    BY <1>2, <2>1
  <2> HIDE DEF r
  <2>3. \A t \in Tasks(r) : t = Removed \/ (t \in Tasks(s) /\ Free(t))
    BY <1>3, <1>5, <2>1, <2>2 DEF Belongs, Free, PhasedState
  <2>4. r.armed \subseteq {"HALF_HOUR"}
    BY <1>5, <2>1, <2>2 DEF TimersIn, Same
  <2>5. Ends(s, r)
    BY <2>1, <2>2, <2>3, <2>4 DEF Ends, Same, SameEval
  <2>6. QED  BY <1>5, <2>5 DEF EndState, r, u
<1>6. CASE s.cur = "NAP"
  <2> DEFINE u == StopTimer(s, "NAP")
             v == RemoveTask(u, "NEXT_STATE")
             r == RemoveTask(v, "NEXT_PHASE")
  <2>1. /\ Good(u) /\ SameEval(s, u) /\ Tasks(u) = Tasks(s) /\ u.armed = s.armed \ {"NAP"}
        /\ u.cur = s.cur /\ u.pre = s.pre /\ u.next = s.next
        /\ u.scrOffHalfHourCtrl = s.scrOffHalfHourCtrl
    BY TimerGood, TimerDoes, Names
  <2> HIDE DEF u
  <2>2. /\ Good(v) /\ Same(u, v)
        /\ \A t \in Tasks(v) : t = Removed \/ (t \in Tasks(u) /\ t.name # "NEXT_STATE")
    BY <1>2, <2>1
  <2> HIDE DEF v
  <2>3. Same(v, r) /\ \A t \in Tasks(r) : t = Removed \/ (t \in Tasks(v) /\ t.name # "NEXT_PHASE")
    BY <1>2, <2>2
  <2> HIDE DEF r
  <2>4. \A t \in Tasks(r) : t = Removed \/ (t \in Tasks(s) /\ Free(t))
    BY <1>3, <1>6, <2>1, <2>2, <2>3 DEF Belongs, Free
  <2>5. r.armed \subseteq {"HALF_HOUR"}
    BY <1>6, <2>1, <2>2, <2>3 DEF TimersIn, Same
  <2>6. Ends(s, r)
    BY <2>1, <2>2, <2>3, <2>4, <2>5 DEF Ends, Same, SameEval
  <2>7. QED  BY <1>6, <2>6 DEF EndState, r, v, u
<1>7. CASE s.cur = "SLEEP"
  <2> DEFINE p == StopTimer(s, "SLEEP")
             u == StopTimer(p, "REPEATED")
             v == RemoveTask(u, "NEXT_STATE")
             w == RemoveTask(v, "NEXT_PHASE")
             r == RemoveTask(w, "REPEATED")
  <2>1. /\ Good(p) /\ SameEval(s, p) /\ Tasks(p) = Tasks(s) /\ p.armed = s.armed \ {"SLEEP"}
        /\ p.cur = s.cur /\ p.pre = s.pre /\ p.next = s.next
        /\ p.scrOffHalfHourCtrl = s.scrOffHalfHourCtrl
    BY ZenonT(60), TimerGood, TimerDoes, Names
  <2> HIDE DEF p
  <2>2. /\ Good(u) /\ SameEval(p, u) /\ Tasks(u) = Tasks(p) /\ u.armed = p.armed \ {"REPEATED"}
        /\ u.cur = p.cur /\ u.pre = p.pre /\ u.next = p.next
        /\ u.scrOffHalfHourCtrl = p.scrOffHalfHourCtrl
    BY ZenonT(60), <2>1, TimerGood, TimerDoes, Names
  <2> HIDE DEF u
  <2>3. /\ Good(v) /\ Same(u, v)
        /\ \A t \in Tasks(v) : t = Removed \/ (t \in Tasks(u) /\ t.name # "NEXT_STATE")
    BY <1>2, <2>2
  <2> HIDE DEF v
  <2>4. /\ Good(w) /\ Same(v, w)
        /\ \A t \in Tasks(w) : t = Removed \/ (t \in Tasks(v) /\ t.name # "NEXT_PHASE")
    BY <1>2, <2>3
  <2> HIDE DEF w
  <2>5. Same(w, r) /\ \A t \in Tasks(r) : t = Removed \/ (t \in Tasks(w) /\ t.name # "REPEATED")
    BY <1>2, <2>4
  <2> HIDE DEF r
  <2>6. \A t \in Tasks(r) : t = Removed \/ (t \in Tasks(s) /\ Free(t))
    BY <1>3, <1>7, <2>1, <2>2, <2>3, <2>4, <2>5 DEF Belongs, Free
  <2>7. r.armed \subseteq {"HALF_HOUR"}
    BY <1>7, <2>1, <2>2, <2>3, <2>4, <2>5 DEF TimersIn, Same
  <2>8. Ends(s, r)
    BY <2>1, <2>2, <2>3, <2>4, <2>5, <2>6, <2>7 DEF Ends, Same, SameEval
  <2>9. QED  BY <1>7, <2>8 DEF EndState, r, w, v, u, p
<1>8. QED  BY <1>1, <1>4, <1>5, <1>6, <1>7

(* A change of state: the old state leaves nothing behind, the evaluation  *)
(* goes on, and the restriction is set at most on the way to sleep.        *)
Moves(s, r, n) ==
  /\ SameEval(s, r) /\ r.cur = n /\ r.pre = s.cur
  /\ TimersIn(r) /\ TasksIn(r)
  /\ \A t \in Tasks(r) : Detects(t) \/ t.name = "EVENT" => t \in Tasks(s)
  /\ SlowTimers => \A t \in Tasks(r) : t.name \notin {"NEXT_STATE", "REPEATED"}
  /\ NextKept(s, r)
  /\ n = "MAINTENANCE" => r.next["MAINTENANCE"] = s.cur
  /\ \/ r.scrOffHalfHourCtrl = s.scrOffHalfHourCtrl
     \/ n = "SLEEP" /\ s.cur # "MAINTENANCE" /\ r.scrOffHalfHourCtrl = TRUE

(* The state ends, and the next one begins.                                *)
LEMMA TransitToStateInnerDoes ==
  ASSUME NEW s, Good(s), TimersIn(s), TasksIn(s), NEW n \in State
  PROVE  Moves(s, TransitToStateInner(s, n), n)
<1> DEFINE s1 == EndState(s)
           w  == [s1 EXCEPT !.pre = s1.cur]
           u  == [s1 EXCEPT !.pre = s1.cur, !.cur = n]
           s2 == BeginState(u)
           p  == PostTask(s2, "STATE_TRANSIT", s2.cur, s2.pre)
           r  == ReleaseStandbyRunningLock(p)
<1>1. Good(s1) /\ Ends(s, s1)
  BY EndStateGood, EndStateDoes
<1> HIDE DEF s1
<1>2. Good(u)
  <2>1. Good(w)
    BY <1>1, FieldTypes, SetCur
  <2> HIDE DEF w
  <2>2. Good([w EXCEPT !.cur = n])
    BY <2>1, SetCur
  <2>3. QED  BY <2>2 DEF w
<1>3. /\ SameEval(s1, u) /\ u.cur = n /\ u.pre = s1.cur /\ u.next = s1.next
      /\ u.armed = s1.armed /\ Tasks(u) = Tasks(s1)
      /\ u.scrOffHalfHourCtrl = s1.scrOffHalfHourCtrl
  BY <1>1 DEF Good, SMType, SameEval, Tasks
<1> HIDE DEF u
<1>4. Good(s2) /\ Begins(u, s2)
  BY <1>2, BeginStateGood, BeginStateDoes
<1> HIDE DEF s2
<1>5. s2.cur \in State /\ s2.pre \in TaskArg
  BY <1>4, FieldTypes, Names
<1>6. /\ Good(p) /\ Same(s2, p)
      /\ Tasks(p) = Tasks(s2) \cup {TaskOf("STATE_TRANSIT", s2.cur, s2.pre)}
  BY <1>4, <1>5, PostTaskGood, PostTaskDoes, Names
<1> HIDE DEF p
<1>7. Same(p, r) /\ Tasks(r) = Tasks(p)
  BY <1>6, LockDoes
<1> HIDE DEF r
<1>8. \A t \in Tasks(r) : (t \in Tasks(s) /\ Free(t)) \/ t.name \in Message \/ OwnTask(t, n)
  BY <1>1, <1>3, <1>4, <1>6, <1>7 DEF Ends, Begins, Message, Removed, TaskOf
<1>9. SameEval(s, r) /\ r.cur = n /\ r.pre = s.cur
  BY <1>1, <1>3, <1>4, <1>6, <1>7 DEF Ends, Begins, Same, SameEval
<1>10. TimersIn(r)
  BY <1>1, <1>3, <1>4, <1>6, <1>7 DEF Ends, Begins, Same, TimersIn
<1>11. TasksIn(r)
  BY <1>8, <1>9 DEF TasksIn, Free, Message, OwnTask, Belongs
<1>12. /\ \A t \in Tasks(r) : Detects(t) \/ t.name = "EVENT" => t \in Tasks(s)
       /\ SlowTimers => \A t \in Tasks(r) : t.name \notin {"NEXT_STATE", "REPEATED"}
  BY <1>8 DEF Detects, Free, Message, OwnTask
<1>13. NextKept(s, r) /\ (n = "MAINTENANCE" => r.next["MAINTENANCE"] = s.cur)
  BY <1>1, <1>3, <1>4, <1>6, <1>7 DEF Ends, Begins, Same, NextKept
<1>14. \/ r.scrOffHalfHourCtrl = s.scrOffHalfHourCtrl
       \/ n = "SLEEP" /\ s.cur # "MAINTENANCE" /\ r.scrOffHalfHourCtrl = TRUE
  BY <1>1, <1>3, <1>4, <1>6, <1>7 DEF Ends, Begins, Same
<1>15. Moves(s, r, n)
  BY <1>9, <1>10, <1>11, <1>12, <1>13, <1>14 DEF Moves
<1>16. QED  BY <1>15 DEF TransitToStateInner, r, p, s2, u, s1

-----------------------------------------------------------------------------
(* From what a method changes to the invariants of the record.             *)

(* A call that only adds messages keeps the record safe,                   *)
LEMMA SameSafe ==
  ASSUME NEW s, Safe(s), NEW r, SameEval(s, r), OnlyMessages(s, r),
         r.cur = s.cur, r.pre = s.pre, r.next = s.next, r.armed \subseteq s.armed
  PROVE  Safe(r)
<1>1. Agrees(r)
  BY DEF Safe, Agrees, SameEval
<1>2. \A t \in Tasks(r) : Detects(t) => t \in Tasks(s)
  BY DEF OnlyMessages, Detects, Message
<1>3. SensorsIn(r)
  BY <1>2 DEF Safe, SensorsIn, SameEval
<1>4. TimersIn(r)
  BY DEF Safe, TimersIn
<1>5. TasksIn(r)
  BY DEF Safe, TasksIn, OnlyMessages, Message, Belongs
<1>6. NextIn(r)
  BY DEF Safe, NextIn
<1>7. QED  BY <1>1, <1>3, <1>4, <1>5, <1>6 DEF Safe

(* and so does a change of state that opens windows only in nap and sleep. *)
LEMMA MovesSafe ==
  ASSUME NEW s, Safe(s), NEW n, NEW r, Moves(s, r, n),
         n = "MAINTENANCE" => s.cur \in PhasedState
  PROVE  Safe(r)
<1>1. Agrees(r)
  BY DEF Safe, Agrees, Moves, SameEval
<1>2. SensorsIn(r)
  BY DEF Safe, SensorsIn, Moves, SameEval
<1>3. NextIn(r)
  BY DEF Safe, NextIn, Moves, NextKept
<1>4. QED  BY <1>1, <1>2, <1>3 DEF Safe, Moves

(* Stopping an evaluation switches the sensors off and leaves no detection *)
(* task.                                                                   *)
Stops(s, r) ==
  /\ r.isEvalution = FALSE /\ r.isEvaluation = FALSE
  /\ r.sensorOn = FALSE /\ r.delayed = <<>>
  /\ \A t \in Tasks(r) : ~ Detects(t) /\ (t \in Tasks(s) \/ t = Removed)
  /\ r.cur = s.cur /\ r.pre = s.pre /\ r.next = s.next /\ r.armed = s.armed
  /\ r.scrOffHalfHourCtrl = s.scrOffHalfHourCtrl
  /\ r.isScreenOn = s.isScreenOn /\ r.inflight = s.inflight

(* StopEvalution clears both flags, the sensors and the detection tasks.   *)
LEMMA StopEvalutionDoes ==
  ASSUME NEW s, Good(s), Agrees(s), SensorsIn(s)
  PROVE  Stops(s, StopEvalution(s))
<1>1. s.isEvalution \in BOOLEAN /\ s.isEvaluation \in BOOLEAN /\ s.sensorOn \in BOOLEAN
  BY DEF Good, SMType
<1>2. CASE ~ s.isEvalution
  <2>1. StopEvalution(s) = s
    BY <1>2 DEF StopEvalution
  <2>2. s.isEvalution = FALSE /\ s.isEvaluation = FALSE
    BY <1>1, <1>2 DEF Agrees
  <2>3. s.sensorOn = FALSE /\ s.delayed = <<>> /\ \A t \in Tasks(s) : ~ Detects(t)
    BY <1>1, <2>2 DEF SensorsIn
  <2>4. QED  BY <2>1, <2>2, <2>3 DEF Stops
<1>3. CASE s.isEvalution
  <2> DEFINE u  == RemoveTask(s, "MOTION")
             m  == StopMonitoring(s)
             s1 == IF s.monitor = "motion" THEN m ELSE s
             r  == [s1 EXCEPT !.isEvaluation = FALSE, !.monitor = "none"]
             x  == [r EXCEPT !.isEvalution = FALSE]
  <2>1. s.isEvaluation = TRUE
    BY <1>1, <1>3 DEF Agrees
  <2>2. StopEvalution(s) = x
    BY <1>3, <2>1 DEF StopEvalution, StopConstraintEvalution
  <2>3. /\ Good(u) /\ Same(s, u)
        /\ \A t \in Tasks(u) : t = Removed \/ (t \in Tasks(s) /\ t.name # "MOTION")
    BY RemoveTaskGood, RemoveTaskDoes
  <2>4. /\ m.sensorOn = FALSE /\ m.delayed = <<>> /\ Tasks(m) = Tasks(u)
        /\ m.cur = u.cur /\ m.pre = u.pre /\ m.next = u.next /\ m.armed = u.armed
        /\ m.scrOffHalfHourCtrl = u.scrOffHalfHourCtrl
        /\ m.isScreenOn = u.isScreenOn /\ m.inflight = u.inflight
    <3> HIDE DEF u
    <3>1. m = [u EXCEPT !.delayed = <<>>, !.sensorOn = FALSE]
      BY DEF StopMonitoring, u
    <3> HIDE DEF m
    <3>2. QED  BY <2>3, <3>1 DEF Good, SMType, Tasks
  <2>5. Good(m)
    BY StopMonitoringGood
  <2>6. \A t \in Tasks(m) : ~ Detects(t) /\ (t \in Tasks(s) \/ t = Removed)
    BY <2>3, <2>4 DEF Detects, Removed, TaskOf
  <2> HIDE DEF u, m
  <2>7. s.monitor # "motion" =>
          s.sensorOn = FALSE /\ s.delayed = <<>> /\ \A t \in Tasks(s) : ~ Detects(t)
    BY <1>1 DEF SensorsIn
  <2>8. /\ Good(s1) /\ s1.sensorOn = FALSE /\ s1.delayed = <<>>
        /\ s1.cur = s.cur /\ s1.pre = s.pre /\ s1.next = s.next /\ s1.armed = s.armed
        /\ s1.scrOffHalfHourCtrl = s.scrOffHalfHourCtrl
        /\ s1.isScreenOn = s.isScreenOn /\ s1.inflight = s.inflight
        /\ \A t \in Tasks(s1) : ~ Detects(t) /\ (t \in Tasks(s) \/ t = Removed)
    <3>1. CASE s.monitor = "motion"
      <4>1. s1 = m  BY <3>1
      <4> HIDE DEF s1
      <4>2. QED  BY <2>3, <2>4, <2>5, <2>6, <4>1 DEF Same, SameEval
    <3>2. CASE s.monitor # "motion"
      BY <2>7, <3>2
    <3>3. QED  BY <3>1, <3>2
  <2> HIDE DEF s1
  <2>9. /\ x.isEvalution = FALSE /\ x.isEvaluation = FALSE
        /\ x.sensorOn = s1.sensorOn /\ x.delayed = s1.delayed /\ Tasks(x) = Tasks(s1)
        /\ x.cur = s1.cur /\ x.pre = s1.pre /\ x.next = s1.next /\ x.armed = s1.armed
        /\ x.scrOffHalfHourCtrl = s1.scrOffHalfHourCtrl
        /\ x.isScreenOn = s1.isScreenOn /\ x.inflight = s1.inflight
    BY <2>8 DEF Good, SMType, Tasks
  <2> HIDE DEF x
  <2>10. Stops(s, x)
    BY <2>8, <2>9 DEF Stops
  <2>11. QED  BY <2>2, <2>10
<1>4. QED  BY <1>2, <1>3

(* Stopping an evaluation keeps the record safe.                           *)
LEMMA StopsSafe ==
  ASSUME NEW s, Safe(s), NEW r, Stops(s, r)
  PROVE  Safe(r)
<1>1. Agrees(r) /\ SensorsIn(r)
  BY DEF Stops, Agrees, SensorsIn
<1>2. TimersIn(r) /\ NextIn(r)
  BY DEF Safe, Stops, TimersIn, NextIn
<1>3. TasksIn(r)
  BY DEF Safe, Stops, TasksIn, Removed, TaskOf, Belongs
<1>4. QED  BY <1>1, <1>2, <1>3 DEF Safe

(* Nothing outside the state machine changes.                              *)
World(s, r) == r.isScreenOn = s.isScreenOn /\ r.inflight = s.inflight

(* Leaving standby: the evaluation is stopped and the restriction lifted.  *)
LEMMA ExitStandbyDoes ==
  ASSUME NEW s, Good(s), Safe(s), NEW n \in State \ {"MAINTENANCE", "SLEEP"}
  PROVE  LET r == ExitStandby(s, n)
         IN  /\ Safe(r) /\ World(s, r) /\ r.isEvaluation = FALSE
             /\ r.cur = n /\ r.scrOffHalfHourCtrl = FALSE
<1> DEFINE e == StopEvalution(s)
           b == UnblockCurrentState(e)
           h == OnScreenOffHalfHourInner(b, FALSE)
           r == TransitToStateInner(h, n)
<1>1. Good(e) /\ Stops(s, e)
  BY StopEvalutionGood, StopEvalutionDoes DEF Safe
<1>2. Safe(e)
  BY <1>1, StopsSafe
<1> HIDE DEF e
<1>3. Good(b) /\ Same(e, b) /\ Tasks(b) = Tasks(e)
  BY <1>1, UnblockCurrentStateGood, LockDoes
<1> HIDE DEF b
<1>4. Good(h) /\ HalfHour(b, h, FALSE)
  BY <1>3, OnScreenOffHalfHourInnerGood, OnScreenOffHalfHourInnerDoes
<1> HIDE DEF h
<1>5. Safe(h)
  <2>1. SameEval(e, h) /\ OnlyMessages(e, h)
        /\ h.cur = e.cur /\ h.pre = e.pre /\ h.next = e.next /\ h.armed = e.armed
    BY <1>3, <1>4 DEF Same, SameEval, HalfHour, OnlyMessages
  <2>2. QED  BY <1>2, <2>1, SameSafe
<1>6. Moves(h, r, n)
  BY <1>4, <1>5, TransitToStateInnerDoes DEF Safe
<1> HIDE DEF r
<1>7. Safe(r)
  BY <1>5, <1>6, MovesSafe
<1>8. World(s, r) /\ r.isEvaluation = FALSE /\ r.cur = n
  BY <1>1, <1>3, <1>4, <1>6 DEF Stops, Same, SameEval, HalfHour, Moves, World
<1>9. r.scrOffHalfHourCtrl = FALSE
  BY <1>4, <1>6 DEF HalfHour, Moves
<1>10. QED  BY <1>7, <1>8, <1>9 DEF ExitStandby, r, h, b, e

(* Entering or leaving a maintenance window: an evaluation goes on, and    *)
(* the restriction is lifted only on the way to work.                      *)
LEMMA TransitWithMaintDoes ==
  ASSUME NEW s, Good(s), Safe(s), NEW n \in State,
         n = "MAINTENANCE" => s.cur \in PhasedState
  PROVE  LET r == TransitWithMaint(s, n)
         IN  /\ Safe(r) /\ World(s, r) /\ r.isEvaluation = s.isEvaluation
             /\ r.cur = n /\ r.pre = s.cur
             /\ n = "WORKING" => r.scrOffHalfHourCtrl = FALSE
             /\ n # "WORKING" =>
                  \/ r.scrOffHalfHourCtrl = s.scrOffHalfHourCtrl
                  \/ n = "SLEEP" /\ s.cur # "MAINTENANCE" /\ r.scrOffHalfHourCtrl = TRUE
<1> DEFINE x == OnScreenOffHalfHourInner(s, FALSE)
           h == IF n = "WORKING" THEN x ELSE s
           r == TransitToStateInner(h, n)
<1>1. Good(x) /\ HalfHour(s, x, FALSE)
  BY OnScreenOffHalfHourInnerGood, OnScreenOffHalfHourInnerDoes
<1> HIDE DEF x
<1>2. Safe(x)
  BY <1>1, SameSafe DEF HalfHour
<1>3. /\ Good(h) /\ Safe(h) /\ SameEval(s, h) /\ h.cur = s.cur
      /\ n = "WORKING" => h.scrOffHalfHourCtrl = FALSE
      /\ n # "WORKING" => h.scrOffHalfHourCtrl = s.scrOffHalfHourCtrl
  BY <1>1, <1>2 DEF HalfHour, SameEval
<1> HIDE DEF h
<1>4. Moves(h, r, n)
  BY <1>3, TransitToStateInnerDoes DEF Safe
<1> HIDE DEF r
<1>5. Safe(r)
  BY <1>3, <1>4, MovesSafe
<1>6. World(s, r) /\ r.isEvaluation = s.isEvaluation /\ r.cur = n /\ r.pre = s.cur
  BY <1>3, <1>4 DEF SameEval, Moves, World
<1>7. /\ n = "WORKING" => r.scrOffHalfHourCtrl = FALSE
      /\ n # "WORKING" =>
           \/ r.scrOffHalfHourCtrl = s.scrOffHalfHourCtrl
           \/ n = "SLEEP" /\ s.cur # "MAINTENANCE" /\ r.scrOffHalfHourCtrl = TRUE
  BY <1>3, <1>4 DEF Moves
<1>8. QED  BY <1>5, <1>6, <1>7 DEF TransitWithMaint, r, h, x

-----------------------------------------------------------------------------
(* The end of an evaluation.                                               *)

(* The state machine stays where it is.                                    *)
Stays(s, r) ==
  /\ World(s, r) /\ r.cur = s.cur /\ r.pre = s.pre
  /\ r.scrOffHalfHourCtrl = s.scrOffHalfHourCtrl

(* It goes from work to dark, from dark or nap further down, or wakes.     *)
Darkens(s, r) ==
  /\ World(s, r) /\ s.cur = "WORKING" /\ r.cur = "DARK"
  /\ r.scrOffHalfHourCtrl = s.scrOffHalfHourCtrl

Settles(s, r) ==
  /\ World(s, r) /\ s.cur \in {"DARK", "NAP"}
  /\ r.cur \in {"NAP", "SLEEP"} /\ r.cur # s.cur
  /\ \/ r.scrOffHalfHourCtrl = s.scrOffHalfHourCtrl
     \/ r.cur = "SLEEP" /\ r.scrOffHalfHourCtrl = TRUE

Wakes(s, r) == World(s, r) /\ r.cur = "WORKING" /\ r.scrOffHalfHourCtrl = FALSE

(* A blocked state stays; a blocked nap may start its timer.               *)
LEMMA BlockCurrentStateDoes ==
  ASSUME NEW s, Good(s), Safe(s)
  PROVE  LET r == BlockCurrentState(s) IN Safe(r) /\ SameEval(s, r) /\ Stays(s, r)
<1> DEFINE s1 == [s EXCEPT !.isBlocked = TRUE]
           n1 == [s1 EXCEPT !.next["NAP"] = "MAINTENANCE"]
           s2 == IF HasInterval("NAP", s.index["NAP"]) THEN StartTimer(n1, "NAP") ELSE s1
           r  == ReleaseStandbyRunningLock(s2)
<1>1. "NAP" \in State /\ "NAP" \in Timer /\ "MAINTENANCE" \in State
  BY Names
<1>2. Good(s1) /\ Same(s, s1) /\ Tasks(s1) = Tasks(s)
  BY SetFlag, SameFields
<1> HIDE DEF s1
<1>3. Safe(s1) /\ SameEval(s, s1) /\ Stays(s, s1)
  <2>1. Safe(s1)
    BY <1>2, SameSafe DEF Same, OnlyMessages
  <2>2. QED  BY <1>2, <2>1 DEF Same, SameEval, Stays, World
<1>4. s.cur = "NAP" => Safe(r) /\ SameEval(s, r) /\ Stays(s, r)
  <2> SUFFICES ASSUME s.cur = "NAP" PROVE Safe(r) /\ SameEval(s, r) /\ Stays(s, r)
    OBVIOUS
  <2>1. /\ Good(n1) /\ SameEval(s1, n1) /\ Tasks(n1) = Tasks(s1) /\ n1.armed = s1.armed
        /\ n1.cur = s1.cur /\ n1.pre = s1.pre
        /\ n1.next = [s1.next EXCEPT !["NAP"] = "MAINTENANCE"]
        /\ n1.scrOffHalfHourCtrl = s1.scrOffHalfHourCtrl
    BY <1>1, <1>2, SetNext, NextDoes
  <2> HIDE DEF n1
  <2> DEFINE x == StartTimer(n1, "NAP")
  <2>2. /\ Good(x) /\ SameEval(n1, x) /\ Tasks(x) = Tasks(n1) /\ x.armed = n1.armed \cup {"NAP"}
        /\ x.cur = n1.cur /\ x.pre = n1.pre /\ x.next = n1.next
        /\ x.scrOffHalfHourCtrl = n1.scrOffHalfHourCtrl
    BY <1>1, <2>1, TimerGood, TimerDoes
  <2>3. s2 = x \/ s2 = s1
    OBVIOUS
  <2> HIDE DEF x
  <2>4. s1.next \in [State -> State]
    BY <1>2, FieldTypes
  <2>5. NextIn(x)
    BY <1>1, <1>2, <1>3, <2>1, <2>2, <2>4 DEF Safe, NextIn, Same, State
  <2>6. TimersIn(x) /\ TasksIn(x)
    BY <1>2, <1>3, <2>1, <2>2 DEF Safe, TimersIn, TasksIn, Same
  <2>7. Agrees(x) /\ SensorsIn(x)
    BY <1>2, <1>3, <2>1, <2>2 DEF Safe, Agrees, SensorsIn, SameEval
  <2>8. Safe(x)
    BY <2>5, <2>6, <2>7 DEF Safe
  <2>9. SameEval(s, x) /\ Stays(s, x)
    BY <1>3, <2>1, <2>2 DEF SameEval, Stays, World
  <2>10. Good(s2) /\ Safe(s2) /\ SameEval(s, s2) /\ Stays(s, s2)
    BY <1>2, <1>3, <2>2, <2>3, <2>8, <2>9
  <2> HIDE DEF s2
  <2>11. Same(s2, r) /\ Tasks(r) = Tasks(s2)
    BY <2>10, LockDoes
  <2> HIDE DEF r
  <2>12. Safe(r)
    BY <2>10, <2>11, SameSafe DEF Same, OnlyMessages
  <2>13. QED  BY <2>10, <2>11, <2>12 DEF Same, SameEval, Stays, World
<1>5. BlockCurrentState(s) = IF s.cur = "NAP" THEN r ELSE s1
  BY DEF BlockCurrentState, r, s2, n1, s1
<1>6. QED  BY <1>3, <1>4, <1>5

(* The next phase is announced, and the state does not change.             *)
LEMMA NextPhaseDoes ==
  ASSUME NEW s, Good(s), NEW st \in PhasedState, NEW res
  PROVE  LET r == NextPhase(s, st, res) IN Same(s, r) /\ OnlyMessages(s, r)
<1> DEFINE u == TransitToPhaseInner(s, st)
           w == IF res THEN u ELSE s
           r == [w EXCEPT !.phase[st] = w.phase[st] + 1]
<1>1. Same(s, u) /\ OnlyMessages(s, u)
  <2>1. /\ Same(s, u)
        /\ Tasks(u) = Tasks(s) \cup {TaskOf("PHASE_TRANSIT", st, PhaseName[st][s.phase[st] + 1])}
    BY PostTaskDoes DEF TransitToPhaseInner
  <2> HIDE DEF u
  <2>2. QED  BY <2>1 DEF OnlyMessages, Message, TaskOf
<1>2. \E q, p : w = [[s EXCEPT !.queue = q] EXCEPT !.phase = p]
  <2>1. u = [s EXCEPT !.queue = Append(s.queue, TaskOf("PHASE_TRANSIT", st, PhaseName[st][s.phase[st] + 1]))]
    BY DEF TransitToPhaseInner, PostTask
  <2>2. u = [[s EXCEPT !.queue = u.queue] EXCEPT !.phase = u.phase]
    BY <2>1 DEF Good, SMType
  <2>3. s = [[s EXCEPT !.queue = s.queue] EXCEPT !.phase = s.phase]
    BY DEF Good, SMType
  <2>4. QED  BY <2>2, <2>3
<1>3. Same(s, w) /\ OnlyMessages(s, w)
  BY <1>1 DEF Same, SameEval, OnlyMessages
<1>4. Same(w, r) /\ Tasks(r) = Tasks(w)
  <2> HIDE DEF w
  <2>1. PICK q, p : w = [[s EXCEPT !.queue = q] EXCEPT !.phase = p]
    BY <1>2
  <2>2. QED  BY <2>1 DEF Good, SMType, Same, SameEval, Tasks
<1>5. NextPhase(s, st, res) = r
  BY DEF NextPhase
<1> HIDE DEF r, w
<1>6. Same(s, r) /\ OnlyMessages(s, r)
  BY <1>3, <1>4 DEF Same, SameEval, OnlyMessages
<1>7. QED  BY <1>5, <1>6

(* A phase of nap: the chain goes on, or the lock is released.             *)
LEMMA SetPhaseTransitTaskDoes ==
  ASSUME NEW s, Good(s), Safe(s), s.cur = "NAP", s.phase["NAP"] < EndPhase, NEW res
  PROVE  LET r == SetPhaseTransitTask(s, res) IN Safe(r) /\ SameEval(s, r) /\ Stays(s, r)
<1> DEFINE s1 == NextPhase(s, "NAP", res)
           x  == PostTask(s1, "NEXT_PHASE", "NAP", "none")
           y  == ReleaseStandbyRunningLock(s1)
<1>1. Good(s1) /\ Same(s, s1) /\ OnlyMessages(s, s1)
  BY NextPhaseGood, NextPhaseDoes, Names
<1> HIDE DEF s1
<1>2. Safe(s1)
  BY <1>1, SameSafe DEF Same
<1>3. Safe(x) /\ Same(s1, x)
  <2>1. Same(s1, x) /\ Tasks(x) = Tasks(s1) \cup {TaskOf("NEXT_PHASE", "NAP", "none")}
    BY <1>1, PostTaskDoes
  <2> HIDE DEF x
  <2>2. Agrees(x) /\ TimersIn(x) /\ NextIn(x)
    BY <1>2, <2>1 DEF Safe, Agrees, TimersIn, NextIn, Same, SameEval
  <2>3. \A t \in Tasks(x) : Detects(t) => t \in Tasks(s1)
    BY <2>1 DEF Detects, TaskOf
  <2>4. SensorsIn(x)
    BY <1>2, <2>1, <2>3 DEF Safe, SensorsIn, Same, SameEval
  <2>5. s1.cur = "NAP" /\ "NAP" \in PhasedState
    BY <1>1, Names DEF Same
  <2>6. TasksIn(x)
    BY <1>2, <2>1, <2>5 DEF Safe, TasksIn, Same, TaskOf, Belongs
  <2>7. QED  BY <2>1, <2>2, <2>4, <2>6 DEF Safe
<1>4. Safe(y) /\ Same(s1, y)
  <2>1. Same(s1, y) /\ Tasks(y) = Tasks(s1)
    BY <1>1, LockDoes
  <2>2. QED  BY <1>2, <2>1, SameSafe DEF Same, OnlyMessages
<1>5. SetPhaseTransitTask(s, res) = IF s1.phase["NAP"] < EndPhase THEN x ELSE y
  BY DEF SetPhaseTransitTask, x, y, s1
<1> HIDE DEF x, y
<1>6. SameEval(s, x) /\ Stays(s, x) /\ SameEval(s, y) /\ Stays(s, y)
  BY <1>1, <1>3, <1>4 DEF Same, SameEval, Stays, World
<1>7. QED  BY <1>3, <1>4, <1>5, <1>6

(* A phase of sleep: after the last one the repeated detection is armed.   *)
LEMMA SetPhaseTransitOrRepeatedTaskDoes ==
  ASSUME NEW s, Good(s), Safe(s), s.cur = "SLEEP", s.phase["SLEEP"] < EndPhase, NEW res
  PROVE  LET r == SetPhaseTransitOrRepeatedTask(s, res)
         IN  Safe(r) /\ SameEval(s, r) /\ Stays(s, r)
<1> DEFINE s1 == NextPhase(s, "SLEEP", res)
           x  == PostTask(s1, "NEXT_PHASE", "SLEEP", "none")
           y  == ReleaseStandbyRunningLock(s1)
           z  == StartTimer(y, "REPEATED")
<1>1. Good(s1) /\ Same(s, s1) /\ OnlyMessages(s, s1)
  BY NextPhaseGood, NextPhaseDoes, Names
<1> HIDE DEF s1
<1>2. Safe(s1)
  BY <1>1, SameSafe DEF Same
<1>3. Safe(x) /\ Same(s1, x)
  <2>1. Same(s1, x) /\ Tasks(x) = Tasks(s1) \cup {TaskOf("NEXT_PHASE", "SLEEP", "none")}
    BY <1>1, PostTaskDoes
  <2> HIDE DEF x
  <2>2. Agrees(x) /\ TimersIn(x) /\ NextIn(x)
    BY <1>2, <2>1 DEF Safe, Agrees, TimersIn, NextIn, Same, SameEval
  <2>3. \A t \in Tasks(x) : Detects(t) => t \in Tasks(s1)
    BY <2>1 DEF Detects, TaskOf
  <2>4. SensorsIn(x)
    BY <1>2, <2>1, <2>3 DEF Safe, SensorsIn, Same, SameEval
  <2>5. s1.cur = "SLEEP" /\ "SLEEP" \in PhasedState
    BY <1>1, Names DEF Same
  <2>6. TasksIn(x)
    BY <1>2, <2>1, <2>5 DEF Safe, TasksIn, Same, TaskOf, Belongs
  <2>7. QED  BY <2>1, <2>2, <2>4, <2>6 DEF Safe
<1>4. Good(y) /\ Safe(y) /\ Same(s1, y)
  <2>1. Good(y) /\ Same(s1, y) /\ Tasks(y) = Tasks(s1)
    BY <1>1, LockGood, LockDoes
  <2>2. QED  BY <1>2, <2>1, SameSafe DEF Same, OnlyMessages
<1> HIDE DEF y
<1>5. /\ Safe(z) /\ SameEval(y, z) /\ z.cur = y.cur /\ z.pre = y.pre
      /\ z.scrOffHalfHourCtrl = y.scrOffHalfHourCtrl
  <2>1. /\ SameEval(y, z) /\ Tasks(z) = Tasks(y) /\ z.armed = y.armed \cup {"REPEATED"}
        /\ z.cur = y.cur /\ z.pre = y.pre /\ z.next = y.next
        /\ z.scrOffHalfHourCtrl = y.scrOffHalfHourCtrl
    BY <1>4, TimerDoes
  <2> HIDE DEF z
  <2>2. y.cur = "SLEEP"
    BY <1>1, <1>4 DEF Same
  <2>3. Agrees(z) /\ SensorsIn(z) /\ TasksIn(z) /\ NextIn(z)
    BY <1>4, <2>1 DEF Safe, Agrees, SensorsIn, TasksIn, NextIn, SameEval
  <2>4. TimersIn(z)
    BY <1>4, <2>1, <2>2 DEF Safe, TimersIn
  <2>5. QED  BY <2>1, <2>3, <2>4 DEF Safe
<1>6. SetPhaseTransitOrRepeatedTask(s, res) =
        IF s1.phase["SLEEP"] < EndPhase THEN x ELSE IF DetectMotion THEN z ELSE y
  BY DEF SetPhaseTransitOrRepeatedTask, x, y, z, s1
<1> HIDE DEF x, z
<1>7. SameEval(s, x) /\ Stays(s, x) /\ SameEval(s, y) /\ Stays(s, y) /\ SameEval(s, z) /\ Stays(s, z)
  BY <1>1, <1>3, <1>4, <1>5 DEF Same, SameEval, Stays, World
<1>8. QED  BY <1>3, <1>4, <1>5, <1>6, <1>7

(* How an evaluation can end: the state machine stays, goes dark if the    *)
(* constraint allows, settles further down or wakes.                       *)
Outcome(s, r, res) ==
  \/ Stays(s, r)
  \/ Darkens(s, r) /\ res
  \/ Settles(s, r)
  \/ Wakes(s, r) /\ s.cur \in PhasedState

(* What the state makes of the result of an evaluation.                    *)
LEMMA EndEvalCurrentStateDoes ==
  ASSUME NEW s, Good(s), Safe(s), NEW res
  PROVE  LET r == EndEvalCurrentState(s, res)
         IN  Safe(r) /\ r.isEvaluation = FALSE /\ Outcome(s, r, res)
<1> DEFINE u == StopEvalution(s)
<1>1. Good(u) /\ Stops(s, u)
  BY StopEvalutionGood, StopEvalutionDoes DEF Safe
<1>2. Safe(u)
  BY <1>1, StopsSafe
<1>3. /\ u.isEvaluation = FALSE /\ World(s, u) /\ u.cur = s.cur /\ u.pre = s.pre
      /\ u.scrOffHalfHourCtrl = s.scrOffHalfHourCtrl
  BY <1>1 DEF Stops, World
<1> HIDE DEF u
<1>4. ASSUME NEW r, SameEval(u, r), Stays(u, r) PROVE r.isEvaluation = FALSE /\ Outcome(s, r, res)
  BY <1>3, <1>4 DEF SameEval, Stays, World, Outcome
<1>5. ASSUME NEW n \in State \ {"MAINTENANCE", "WORKING"}
      PROVE  LET r == TransitToStateInner(u, n)
             IN  /\ Good(r) /\ Safe(r) /\ r.isEvaluation = FALSE /\ World(s, r) /\ r.cur = n
                 /\ \/ r.scrOffHalfHourCtrl = s.scrOffHalfHourCtrl
                    \/ n = "SLEEP" /\ r.scrOffHalfHourCtrl = TRUE
  <2> DEFINE r == TransitToStateInner(u, n)
  <2>1. Good(r) /\ Moves(u, r, n)
    BY <1>1, <1>2, TransitToStateInnerGood, TransitToStateInnerDoes DEF Safe
  <2> HIDE DEF r
  <2>2. Safe(r)
    BY <1>2, <2>1, MovesSafe
  <2>3. QED  BY <1>3, <2>1, <2>2 DEF Moves, SameEval, World, r
<1>6. LET r == BlockCurrentState(u) IN Safe(r) /\ r.isEvaluation = FALSE /\ Outcome(s, r, res)
  BY <1>1, <1>2, <1>4, BlockCurrentStateDoes
<1>7. LET r == ExitStandby(u, "WORKING")
      IN  Good(r) /\ Safe(r) /\ r.isEvaluation = FALSE /\ Wakes(s, r)
  <2>1. "WORKING" \in State \ {"MAINTENANCE", "SLEEP"}
    BY DEF State
  <2>2. QED  BY <1>1, <1>2, <1>3, <2>1, ExitStandbyGood, ExitStandbyDoes DEF Wakes, World
<1>8. Safe(u) /\ u.isEvaluation = FALSE /\ Outcome(s, u, res)
  BY <1>2, <1>3 DEF Outcome, Stays
<1>9. CASE ~ s.isEvalution
  <2>1. u = s /\ EndEvalCurrentState(s, res) = s
    BY <1>9 DEF EndEvalCurrentState, StopEvalution, u
  <2>2. QED  BY <1>8, <2>1
<1>10. CASE s.isEvalution /\ s.cur = "WORKING"
  <2> DEFINE r == EndEvalWorking(u, res)
  <2> SUFFICES Safe(r) /\ r.isEvaluation = FALSE /\ Outcome(s, r, res)
    BY <1>10 DEF EndEvalCurrentState, u
  <2>1. "DARK" \in State \ {"MAINTENANCE", "WORKING"}
    BY DEF State
  <2>2. QED  BY <1>5, <1>6, <1>10, <2>1 DEF EndEvalWorking, Outcome, Darkens
<1>11. CASE s.isEvalution /\ s.cur = "DARK"
  <2> DEFINE r == EndEvalDark(u, res)
             n == u.next["DARK"]
  <2> SUFFICES Safe(r) /\ r.isEvaluation = FALSE /\ Outcome(s, r, res)
    BY <1>11 DEF EndEvalCurrentState, u
  <2>1. n \in {"DARK", "NAP", "SLEEP"} /\ {"NAP", "SLEEP"} \subseteq State \ {"MAINTENANCE", "WORKING"}
    BY <1>2 DEF Safe, NextIn, State
  <2>2. CASE ~ res
    BY <1>6, <2>2 DEF EndEvalDark
  <2>3. CASE res /\ n # "DARK"
    <3>1. r = TransitToStateInner(u, n) /\ n \in {"NAP", "SLEEP"}
      BY <2>1, <2>3 DEF EndEvalDark
    <3> HIDE DEF n
    <3>2. Settles(s, TransitToStateInner(u, n))
      BY <1>5, <1>11, <2>1, <3>1 DEF Settles
    <3>3. QED  BY <1>5, <2>1, <3>1, <3>2 DEF Outcome
  <2>4. CASE res /\ n = "DARK"
    BY <1>8, <2>4 DEF EndEvalDark
  <2>5. QED  BY <2>2, <2>3, <2>4
<1>12. CASE s.isEvalution /\ s.cur = "NAP"
  <2> DEFINE r == EndEvalNap(u, res)
  <2> SUFFICES Safe(r) /\ r.isEvaluation = FALSE /\ Outcome(s, r, res)
    BY <1>12 DEF EndEvalCurrentState, u
  <2>1. CASE u.phase["NAP"] < EndPhase
    <3>1. r = SetPhaseTransitTask(u, res)
      BY <2>1 DEF EndEvalNap
    <3>2. QED  BY <1>1, <1>2, <1>3, <1>4, <1>12, <2>1, <3>1, SetPhaseTransitTaskDoes
  <2>2. CASE ~ (u.phase["NAP"] < EndPhase) /\ ~ res
    <3>1. r = ExitStandby(u, "WORKING")
      BY <2>2 DEF EndEvalNap
    <3>2. QED  BY <1>7, <1>12, <3>1, Names DEF Outcome
  <2>3. CASE ~ (u.phase["NAP"] < EndPhase) /\ res /\ u.next["NAP"] # "NAP"
    <3>1. r = TransitToStateInner(u, "SLEEP")
      BY <2>3 DEF EndEvalNap
    <3>2. "SLEEP" \in State \ {"MAINTENANCE", "WORKING"}
      BY DEF State
    <3>3. QED  BY ZenonT(60), <1>5, <1>12, <3>1, <3>2 DEF Settles, Outcome
  <2>4. CASE ~ (u.phase["NAP"] < EndPhase) /\ res /\ u.next["NAP"] = "NAP"
    BY <1>8, <2>4 DEF EndEvalNap
  <2>5. QED  BY <2>1, <2>2, <2>3, <2>4
<1>13. CASE s.isEvalution /\ s.cur = "SLEEP"
  <2> DEFINE w == IF ~ res /\ u.isRepeatedDetection THEN ExitStandby(u, "WORKING") ELSE u
             x == [w EXCEPT !.isRepeatedDetection = FALSE]
             r == EndEvalSleep(u, res)
  <2> SUFFICES Safe(r) /\ r.isEvaluation = FALSE /\ Outcome(s, r, res)
    BY <1>13 DEF EndEvalCurrentState, u
  <2>1. CASE u.phase["SLEEP"] < EndPhase
    <3>1. r = SetPhaseTransitOrRepeatedTask(u, res)
      BY <2>1 DEF EndEvalSleep
    <3>2. QED
      BY <1>1, <1>2, <1>3, <1>4, <1>13, <2>1, <3>1, SetPhaseTransitOrRepeatedTaskDoes
  <2>2. CASE ~ (u.phase["SLEEP"] < EndPhase)
    <3>1. Good(w) /\ Safe(w) /\ w.isEvaluation = FALSE /\ (Wakes(s, w) \/ Stays(s, w))
      BY <1>1, <1>3, <1>7, <1>8 DEF Stays
    <3>2. r = x
      BY <2>2 DEF EndEvalSleep
    <3> HIDE DEF w
    <3>3. Same(w, x) /\ Tasks(x) = Tasks(w)
      BY <3>1, SameFields
    <3> HIDE DEF x
    <3>4. Safe(x)
      BY <3>1, <3>3, SameSafe DEF Same, OnlyMessages
    <3>5. x.isEvaluation = FALSE /\ (Wakes(s, x) \/ Stays(s, x))
      BY <3>1, <3>3 DEF Same, SameEval, Wakes, Stays, World
    <3>6. QED  BY <1>13, <3>2, <3>4, <3>5, Names DEF Outcome
  <2>3. QED  BY <2>1, <2>2
<1>14. CASE s.isEvalution /\ s.cur = "MAINTENANCE"
  BY <1>8, <1>14 DEF EndEvalCurrentState, u
<1>15. s.cur \in {"WORKING", "DARK", "NAP", "MAINTENANCE", "SLEEP"}
  BY FieldTypes, Names
<1>16. QED  BY <1>9, <1>10, <1>11, <1>12, <1>13, <1>14, <1>15

-----------------------------------------------------------------------------
(* The start of an evaluation.                                             *)

(* Detection starts, or the state is blocked, in a motion evaluation.      *)
LEMMA PeriodlyStartMotionDetectionDoes ==
  ASSUME NEW s, Good(s), Safe(s), s.isEvaluation = TRUE, s.monitor = "motion",
         NEW after, NEW ok
  PROVE  LET r == PeriodlyStartMotionDetection(s, after, ok)
         IN  Safe(r) /\ r.isEvaluation = TRUE /\ Stays(s, r)
<1> DEFINE x == [s EXCEPT !.sensorOn = TRUE, !.delayed = after]
           y == [s EXCEPT !.sensorOn = FALSE]
<1>1. /\ x.isEvalution = s.isEvalution /\ x.isEvaluation = TRUE /\ x.monitor = "motion"
      /\ Tasks(x) = Tasks(s) /\ x.armed = s.armed /\ x.next = s.next /\ Stays(s, x)
  BY DEF Good, SMType, Stays, World, Tasks
<1>2. /\ y.isEvalution = s.isEvalution /\ y.isEvaluation = TRUE /\ y.monitor = "motion"
      /\ Tasks(y) = Tasks(s) /\ y.armed = s.armed /\ y.next = s.next /\ Stays(s, y)
  BY DEF Good, SMType, Stays, World, Tasks
<1>3. Good(y)
  BY SetFlag
<1> HIDE DEF x, y
<1>4. Safe(x) /\ Safe(y)
  BY <1>1, <1>2 DEF Safe, Agrees, SensorsIn, TimersIn, TasksIn, NextIn, Stays
<1>5. LET r == BlockCurrentState(y) IN Safe(r) /\ r.isEvaluation = TRUE /\ Stays(s, r)
  BY <1>2, <1>3, <1>4, BlockCurrentStateDoes DEF SameEval, Stays, World
<1>6. QED  BY <1>1, <1>4, <1>5 DEF PeriodlyStartMotionDetection, x, y

(* The monitor answers at once, or turns its sensors on.                   *)
LEMMA StartMonitoringDoes ==
  ASSUME NEW s, Good(s), Safe(s), s.isEvaluation = TRUE, s.monitor = "motion",
         NEW repeated, NEW ok
  PROVE  LET r == StartMonitoring(s, repeated, ok)
         IN  Safe(r) /\ r.isEvaluation = TRUE /\ Stays(s, r)
<1> DEFINE u == [s EXCEPT !.delayed = <<"total">>]
           after == IF repeated THEN <<"stop", "total", "restart">>
                    ELSE <<"stop", "restart", "total">>
           r == PeriodlyStartMotionDetection(u, after, ok)
<1>1. Good(u)
  <2>1. <<"total">> \in Seq(MotionStep)  BY DEF MotionStep
  <2>2. QED  BY <2>1, SetDelayed
<1>2. /\ u.isEvalution = s.isEvalution /\ u.isEvaluation = TRUE /\ u.monitor = "motion"
      /\ Tasks(u) = Tasks(s) /\ u.armed = s.armed /\ u.next = s.next /\ Stays(s, u)
  BY DEF Good, SMType, Stays, World, Tasks
<1> HIDE DEF u, after
<1>3. Safe(u)
  BY <1>2 DEF Safe, Agrees, SensorsIn, TimersIn, TasksIn, NextIn, Stays
<1>4. Safe(r) /\ r.isEvaluation = TRUE /\ Stays(u, r)
  BY <1>1, <1>2, <1>3, PeriodlyStartMotionDetectionDoes
<1> HIDE DEF r
<1>5. Stays(s, r)
  BY <1>2, <1>4 DEF Stays, World
<1>6. QED  BY <1>4, <1>5 DEF StartMonitoring, r, u, after

(* An evaluation stays open only for the motion sensors; one that asks the *)
(* charger goes dark only without it.                                      *)
Starts(s, r, c) ==
  \/ Stays(s, r) /\ (r.isEvaluation = TRUE => s.isEvaluation = TRUE \/ c = "motion")
  \/ r.isEvaluation = FALSE /\ Outcome(s, r, c = "charge" => ~ charging)

(* An evaluation begins in both managers or in neither, and may end at     *)
(* once.                                                                   *)
LEMMA StartEvalCurrentStateDoes ==
  ASSUME NEW s, Good(s), Safe(s), NEW cur, NEW phase, NEW next, NEW repeated
  PROVE  LET r == StartEvalCurrentState(s, cur, phase, next, repeated)
         IN  Safe(r) /\ Starts(s, r, ConstraintOf(cur, phase, next, repeated))
<1> DEFINE s1 == [s EXCEPT !.isEvalution = TRUE]
           s2 == [s1 EXCEPT !.isEvaluation = TRUE]
           s3 == [s2 EXCEPT !.monitor = "motion"]
           c  == ConstraintOf(cur, phase, next, repeated)
           r  == StartEvalCurrentState(s, cur, phase, next, repeated)
<1>1. s.isEvalution \in BOOLEAN /\ s.isEvaluation \in BOOLEAN /\ s.sensorOn \in BOOLEAN
  BY DEF Good, SMType
<1>2. CASE s.isEvaluation
  <2>1. s.isEvalution = TRUE
    BY <1>1, <1>2 DEF Safe, Agrees
  <2>2. s1 = s
    BY <2>1 DEF Good, SMType
  <2>3. r = s
    BY <1>2, <2>2 DEF StartEvalCurrentState
  <2>4. Starts(s, s, c)
    BY <1>1, <1>2 DEF Starts, Stays, World
  <2>5. QED  BY <2>3, <2>4
<1>3. CASE ~ s.isEvaluation
  <2>1. Good(s1)
    BY SetFlag
  <2>2. Good(s2)
    <3> HIDE DEF s1
    <3>1. QED  BY <2>1, SetFlag
  <2>3. Good(s3)
    <3> HIDE DEF s2
    <3>1. QED  BY <2>2, SetMonitor
  <2>4. /\ s2.isEvalution = TRUE /\ s2.isEvaluation = TRUE
        /\ s2.sensorOn = s.sensorOn /\ s2.delayed = s.delayed
        /\ Tasks(s2) = Tasks(s) /\ s2.armed = s.armed /\ s2.next = s.next /\ Stays(s, s2)
    BY DEF Good, SMType, Stays, World, Tasks
  <2>5. /\ s3.isEvalution = TRUE /\ s3.isEvaluation = TRUE /\ s3.monitor = "motion"
        /\ Tasks(s3) = Tasks(s) /\ s3.armed = s.armed /\ s3.next = s.next /\ Stays(s, s3)
    BY DEF Good, SMType, Stays, World, Tasks
  <2>6. r = CASE c = "charge" -> EndEvalCurrentState(s2, ~ charging)
              [] c = "motion" -> StartMonitoring(s3, repeated, sensorOk)
              [] c = "none"   -> EndEvalCurrentState(s2, TRUE)
    BY <1>3 DEF StartEvalCurrentState
  <2>7. c \in {"charge", "motion", "none"}
    BY DEF ConstraintOf
  <2> HIDE DEF s1, s2, s3, c, r
  <2>8. s.sensorOn = FALSE /\ s.delayed = <<>> /\ \A t \in Tasks(s) : ~ Detects(t)
    BY <1>1, <1>3 DEF Safe, SensorsIn
  <2>9. Safe(s2)
    <3>1. Agrees(s2) /\ SensorsIn(s2)
      BY <2>4, <2>8 DEF Agrees, SensorsIn
    <3>2. TimersIn(s2) /\ TasksIn(s2) /\ NextIn(s2)
      BY <2>4 DEF Safe, TimersIn, TasksIn, NextIn, Stays
    <3>3. QED  BY <3>1, <3>2 DEF Safe
  <2>10. Safe(s3)
    <3>1. Agrees(s3) /\ SensorsIn(s3)
      BY <2>5 DEF Agrees, SensorsIn
    <3>2. TimersIn(s3) /\ TasksIn(s3) /\ NextIn(s3)
      BY <2>5 DEF Safe, TimersIn, TasksIn, NextIn, Stays
    <3>3. QED  BY <3>1, <3>2 DEF Safe
  <2>11. ASSUME NEW x, NEW res, Outcome(s2, x, res) PROVE Outcome(s, x, res)
    BY <2>4, <2>11 DEF Outcome, Stays, Darkens, Settles, Wakes, World
  <2>12. CASE c = "charge"
    <3>1. r = EndEvalCurrentState(s2, ~ charging)
      BY <2>6, <2>12
    <3>2. Safe(r) /\ r.isEvaluation = FALSE /\ Outcome(s, r, ~ charging)
      BY <2>2, <2>9, <2>11, <3>1, EndEvalCurrentStateDoes
    <3>3. QED  BY <2>12, <3>2 DEF Starts, Outcome, c, r
  <2>13. CASE c = "none"
    <3>1. r = EndEvalCurrentState(s2, TRUE)
      BY <2>6, <2>13
    <3>2. Safe(r) /\ r.isEvaluation = FALSE /\ Outcome(s, r, TRUE)
      BY <2>2, <2>9, <2>11, <3>1, EndEvalCurrentStateDoes
    <3>3. QED  BY <2>13, <3>2 DEF Starts, Outcome, c, r
  <2>14. CASE c = "motion"
    <3>1. r = StartMonitoring(s3, repeated, sensorOk)
      BY <2>6, <2>14
    <3>2. Safe(r) /\ Stays(s3, r)
      BY <2>3, <2>5, <2>10, <3>1, StartMonitoringDoes
    <3>3. Stays(s, r)
      BY <2>5, <3>2 DEF Stays, World
    <3>4. QED  BY <2>14, <3>2, <3>3 DEF Starts, c, r
  <2>15. QED  BY <2>7, <2>12, <2>13, <2>14
<1>4. QED  BY <1>2, <1>3

-----------------------------------------------------------------------------
(* The requests for a state change.                                        *)

(* Leaving standby for work or dark, and passing through a window.         *)
Exits(s, r, n) ==
  /\ World(s, r) /\ s.cur \notin {"WORKING", n} /\ n \in {"WORKING", "DARK"} /\ r.cur = n
  /\ r.scrOffHalfHourCtrl = FALSE /\ r.isEvaluation = FALSE

Maintains(s, r, n) ==
  /\ World(s, r) /\ r.isEvaluation = s.isEvaluation /\ r.cur = n /\ r.pre = s.cur
  /\ \/ s.cur \in PhasedState /\ n = "MAINTENANCE"
     \/ s.cur = "MAINTENANCE" /\ n \in {"WORKING", "NAP", "SLEEP"}
  /\ r.scrOffHalfHourCtrl = IF n = "WORKING" THEN FALSE ELSE s.scrOffHalfHourCtrl

(* A request for work is always met; one for dark asks for the charger.    *)
Transits(s, r, n) ==
  \/ /\ Stays(s, r) /\ (n = "WORKING" => s.cur = "WORKING")
     /\ r.isEvaluation = TRUE => s.isEvaluation = TRUE \/ s.cur \in PhasedState
  \/ /\ n # "WORKING" /\ r.isEvaluation = FALSE
     /\ Outcome(s, r, n = "DARK" => ~ charging)
  \/ Exits(s, r, n)
  \/ Maintains(s, r, n)

(* A transition that is refused, evaluated first or made.                  *)
LEMMA TransitToStateDoes ==
  ASSUME NEW s, Good(s), Safe(s), NEW n \in State
  PROVE  LET r == TransitToState(s, n) IN Safe(r) /\ Transits(s, r, n)
<1> DEFINE r == TransitToState(s, n)
<1>1. s.cur \in {"WORKING", "DARK", "NAP", "MAINTENANCE", "SLEEP"}
      /\ n \in {"WORKING", "DARK", "NAP", "MAINTENANCE", "SLEEP"}
  BY FieldTypes, Names
<1>2. n # "WORKING" => Transits(s, s, n)
  BY DEF Transits, Stays, World
<1>3. CASE ~ CheckTransitionValid(s.cur, n)
  BY <1>2, <1>3 DEF TransitToState, CheckTransitionValid
<1>4. CASE CheckTransitionValid(s.cur, n) /\ s.cur = n
  <2> DEFINE u == UnblockCurrentState(s)
  <2>1. Same(s, u) /\ Tasks(u) = Tasks(s)
    BY LockDoes
  <2>2. r = u
    BY <1>4 DEF TransitToState
  <2> HIDE DEF u
  <2>3. Safe(u)
    BY <2>1, SameSafe DEF Same, OnlyMessages
  <2>4. Transits(s, u, n)
    BY <1>4, <2>1 DEF Same, SameEval, Transits, Stays, World
  <2>5. QED  BY <2>2, <2>3, <2>4
<1>5. CASE CheckTransitionValid(s.cur, n) /\ s.cur # n /\ "MAINTENANCE" \in {s.cur, n}
  <2> DEFINE u == TransitWithMaint(s, n)
  <2>1. \/ s.cur \in PhasedState /\ n = "MAINTENANCE"
        \/ s.cur = "MAINTENANCE" /\ n \in {"WORKING", "NAP", "SLEEP"}
    BY <1>1, <1>5 DEF CheckTransitionValid, PhasedState
  <2>2. /\ Safe(u) /\ World(s, u) /\ u.isEvaluation = s.isEvaluation
        /\ u.cur = n /\ u.pre = s.cur
        /\ n = "WORKING" => u.scrOffHalfHourCtrl = FALSE
        /\ n # "WORKING" =>
             \/ u.scrOffHalfHourCtrl = s.scrOffHalfHourCtrl
             \/ n = "SLEEP" /\ s.cur # "MAINTENANCE" /\ u.scrOffHalfHourCtrl = TRUE
    BY <2>1, TransitWithMaintDoes DEF PhasedState
  <2>3. r = u
    BY <1>5 DEF TransitToState
  <2> HIDE DEF u
  <2>4. Maintains(s, u, n)
    BY <2>1, <2>2 DEF Maintains
  <2>5. QED  BY <2>2, <2>3, <2>4 DEF Transits
<1>6. CASE /\ CheckTransitionValid(s.cur, n) /\ s.cur # n /\ "MAINTENANCE" \notin {s.cur, n}
           /\ Level[s.cur] < Level[n]
  <2> DEFINE c == ConstraintOf(s.cur, PhaseOf(s), n, FALSE)
             u == StartEvalCurrentState(s, s.cur, PhaseOf(s), n, FALSE)
  <2>1. Safe(u) /\ Starts(s, u, c)
    BY StartEvalCurrentStateDoes
  <2>2. r = u \/ r = s
    BY <1>6 DEF TransitToState, EnterStandby
  <2>3. c = "motion" => s.cur \in PhasedState
    BY DEF ConstraintOf, PhasedState
  <2>4. n # "WORKING" /\ (n = "DARK" => c = "charge")
    BY <1>1, <1>6 DEF ConstraintOf, Level
  <2> HIDE DEF u, c
  <2>5. Transits(s, u, n)
    <3>1. CASE Stays(s, u) /\ (u.isEvaluation = TRUE => s.isEvaluation = TRUE \/ c = "motion")
      BY <2>3, <2>4, <3>1 DEF Transits
    <3>2. CASE u.isEvaluation = FALSE /\ Outcome(s, u, c = "charge" => ~ charging)
      BY <2>4, <3>2 DEF Transits, Outcome
    <3>3. QED  BY <2>1, <3>1, <3>2 DEF Starts
  <2>6. QED  BY <1>2, <2>1, <2>2, <2>4, <2>5
<1>7. CASE /\ CheckTransitionValid(s.cur, n) /\ s.cur # n /\ "MAINTENANCE" \notin {s.cur, n}
           /\ ~ (Level[s.cur] < Level[n])
  <2> DEFINE u == ExitStandby(s, n)
  <2>1. s.cur # "WORKING" /\ n \in {"WORKING", "DARK"} /\ n \in State \ {"MAINTENANCE", "SLEEP"}
    BY <1>1, <1>7 DEF CheckTransitionValid, Level
  <2>2. /\ Safe(u) /\ World(s, u) /\ u.isEvaluation = FALSE
        /\ u.cur = n /\ u.scrOffHalfHourCtrl = FALSE
    BY <2>1, ExitStandbyDoes
  <2>3. r = u
    BY <1>7 DEF TransitToState
  <2> HIDE DEF u
  <2>4. QED  BY <1>7, <2>1, <2>2, <2>3 DEF Transits, Exits
<1>8. QED  BY <1>3, <1>4, <1>5, <1>6, <1>7

(* A forced sleep: from any other state, with the timers of sleep stopped. *)
Forces(s, r) ==
  /\ World(s, r) /\ r.isEvaluation = s.isEvaluation /\ r.cur = "SLEEP"
  /\ s.cur = "SLEEP" => r.pre = s.pre
  /\ \/ r.scrOffHalfHourCtrl = s.scrOffHalfHourCtrl
     \/ s.cur # "SLEEP" /\ r.scrOffHalfHourCtrl = TRUE

(* A sleep state that is kept or begun.                                    *)
LEMMA TransitHoldSleepStateDoes ==
  ASSUME NEW s, Good(s), Safe(s)
  PROVE  LET r == TransitHoldSleepState(s) IN Safe(r) /\ Forces(s, r)
<1> DEFINE b  == UnblockCurrentState(s)
           m  == TransitToStateInner(b, "SLEEP")
           s1 == IF s.cur = "SLEEP" THEN s ELSE m
           x  == StopTimer(s1, "SLEEP")
           r  == StopTimer(x, "REPEATED")
<1>1. "SLEEP" \in State /\ "SLEEP" \in Timer /\ "REPEATED" \in Timer
  BY Names
<1>2. Good(b) /\ Same(s, b) /\ Tasks(b) = Tasks(s)
  BY UnblockCurrentStateGood, LockDoes
<1> HIDE DEF b
<1>3. Safe(b)
  BY <1>2, SameSafe DEF Same, OnlyMessages
<1>4. Good(m) /\ Moves(b, m, "SLEEP")
  BY <1>1, <1>2, <1>3, TransitToStateInnerGood, TransitToStateInnerDoes DEF Safe
<1> HIDE DEF m
<1>5. Safe(m)
  BY <1>3, <1>4, MovesSafe
<1>6. Forces(s, m) \/ s.cur = "SLEEP"
  BY <1>2, <1>4 DEF Forces, Moves, Same, SameEval, World
<1>7. Forces(s, s) \/ s.cur # "SLEEP"
  BY DEF Forces, World
<1>8. Good(s1) /\ Safe(s1) /\ Forces(s, s1)
  BY <1>4, <1>5, <1>6, <1>7
<1> HIDE DEF s1
<1>9. /\ Good(x) /\ SameEval(s1, x) /\ Tasks(x) = Tasks(s1) /\ x.armed = s1.armed \ {"SLEEP"}
      /\ x.cur = s1.cur /\ x.pre = s1.pre /\ x.next = s1.next
      /\ x.scrOffHalfHourCtrl = s1.scrOffHalfHourCtrl
  BY ZenonT(60), <1>1, <1>8, TimerGood, TimerDoes
<1> HIDE DEF x
<1>10. /\ SameEval(x, r) /\ Tasks(r) = Tasks(x) /\ r.armed = x.armed \ {"REPEATED"}
       /\ r.cur = x.cur /\ r.pre = x.pre /\ r.next = x.next
       /\ r.scrOffHalfHourCtrl = x.scrOffHalfHourCtrl
  BY <1>9, TimerDoes
<1> HIDE DEF r
<1>11. SameEval(s1, r) /\ OnlyMessages(s1, r) /\ r.armed \subseteq s1.armed
       /\ r.cur = s1.cur /\ r.pre = s1.pre /\ r.next = s1.next
       /\ r.scrOffHalfHourCtrl = s1.scrOffHalfHourCtrl
  BY <1>9, <1>10 DEF SameEval, OnlyMessages
<1>12. Safe(r)
  BY <1>8, <1>11, SameSafe
<1>13. Forces(s, r)
  BY <1>8, <1>11 DEF Forces, SameEval, World
<1>14. QED  BY <1>12, <1>13 DEF TransitHoldSleepState, r, x, s1, m, b

(* The user wakes: a sleep that is held begins again.                      *)
LEMMA BeginsSafe ==
  ASSUME NEW s, Safe(s), NEW r, Begins(s, r)
  PROVE  Safe(r)
<1>1. Agrees(r)
  BY DEF Safe, Agrees, Begins, SameEval
<1>2. \A t \in Tasks(r) : Detects(t) => t \in Tasks(s)
  BY DEF Begins, Detects, Message, OwnTask
<1>3. SensorsIn(r)
  BY <1>2 DEF Safe, SensorsIn, Begins, SameEval
<1>4. TimersIn(r)
  BY DEF Safe, TimersIn, Begins
<1>5. TasksIn(r)
  BY DEF Safe, TasksIn, Begins, OwnTask, Message, Belongs
<1>6. NextIn(r)
  BY DEF Safe, NextIn, Begins, NextKept
<1>7. QED  BY <1>1, <1>3, <1>4, <1>5, <1>6 DEF Safe

(* HandleUserSleepState: the device is forced to sleep, or its sleep       *)
(* begins again, or nothing happens.                                       *)
Restarts(s, r) ==
  /\ World(s, r) /\ r.isEvaluation = s.isEvaluation /\ r.cur = s.cur /\ r.pre = s.pre
  /\ \/ r.scrOffHalfHourCtrl = s.scrOffHalfHourCtrl
     \/ s.cur = "SLEEP" /\ r.scrOffHalfHourCtrl = TRUE

(* The events of the user asleep and awake.                                *)
LEMMA HandleUserSleepStateDoes ==
  ASSUME NEW s, Good(s), Safe(s)
  PROVE  /\ LET r == HandleUserSleepState(s, TRUE)
            IN  Good(r) /\ Safe(r) /\ (r = s \/ Forces(s, r))
         /\ LET r == HandleUserSleepState(s, FALSE)
            IN  Good(r) /\ Safe(r) /\ Restarts(s, r)
<1>1. LET r == TransitHoldSleepState(s) IN Good(r) /\ Safe(r) /\ Forces(s, r)
  BY TransitHoldSleepStateGood, TransitHoldSleepStateDoes
<1> DEFINE b == BeginState(s)
<1>2. Good(b) /\ Begins(s, b)
  BY BeginStateGood, BeginStateDoes
<1> HIDE DEF b
<1>3. Safe(b)
  BY <1>2, BeginsSafe
<1>4. Restarts(s, b)
  BY <1>2 DEF Restarts, Begins, SameEval, World
<1>5. Restarts(s, s)
  BY DEF Restarts, World
<1>6. QED  BY <1>1, <1>2, <1>3, <1>4, <1>5 DEF HandleUserSleepState, b

(* The screen event itself: only what the machine knows of the screen and  *)
(* the half-hour timer change.                                             *)
Screens(s, r, e) ==
  /\ r.isEvaluation = s.isEvaluation /\ r.cur = s.cur /\ r.pre = s.pre
  /\ r.scrOffHalfHourCtrl = s.scrOffHalfHourCtrl /\ r.inflight = s.inflight
  /\ r.isScreenOn = CASE e = "SCREEN_OFF" -> FALSE [] e = "SCREEN_ON" -> TRUE
                      [] OTHER -> s.isScreenOn

(* The events of the screen move the screen and its timer.                 *)
LEMMA ScreenStatusDoes ==
  ASSUME NEW s, Good(s), Safe(s), NEW e
  PROVE  LET r == ScreenStatus(s, e) IN Good(r) /\ Safe(r) /\ Screens(s, r, e)
<1>1. ASSUME NEW r, r.isEvalution = s.isEvalution, r.isEvaluation = s.isEvaluation,
             r.monitor = s.monitor, r.sensorOn = s.sensorOn, r.delayed = s.delayed,
             Tasks(r) = Tasks(s), r.cur = s.cur, r.pre = s.pre, r.next = s.next,
             r.armed \subseteq s.armed \cup {"HALF_HOUR"}
      PROVE  Safe(r)
  BY <1>1 DEF Safe, Agrees, SensorsIn, TimersIn, TasksIn, NextIn
<1>2. CASE e = "SCREEN_OFF"
  <2> DEFINE u == [s EXCEPT !.isScreenOn = FALSE]
             v == [u EXCEPT !.offLong = FALSE]
             r == StartTimer(v, "HALF_HOUR")
  <2>1. Good(u)
    BY SetFlag
  <2>2. Good(v)
    <3> HIDE DEF u
    <3>1. QED  BY <2>1, SetFlag
  <2>3. /\ v.isEvalution = s.isEvalution /\ v.isEvaluation = s.isEvaluation
        /\ v.monitor = s.monitor /\ v.sensorOn = s.sensorOn /\ v.delayed = s.delayed
        /\ Tasks(v) = Tasks(s) /\ v.cur = s.cur /\ v.pre = s.pre /\ v.next = s.next
        /\ v.armed = s.armed /\ v.scrOffHalfHourCtrl = s.scrOffHalfHourCtrl
        /\ v.inflight = s.inflight /\ v.isScreenOn = FALSE
    BY DEF Good, SMType, Tasks
  <2>4. ScreenStatus(s, e) = r
    BY <1>2 DEF ScreenStatus
  <2> HIDE DEF v
  <2>5. /\ Good(r) /\ SameEval(v, r) /\ Tasks(r) = Tasks(v) /\ r.armed = v.armed \cup {"HALF_HOUR"}
        /\ r.cur = v.cur /\ r.pre = v.pre /\ r.next = v.next
        /\ r.scrOffHalfHourCtrl = v.scrOffHalfHourCtrl
    BY <2>2, TimerGood, TimerDoes, Names
  <2> HIDE DEF r
  <2>6. Safe(r)
    BY <1>1, <2>3, <2>5 DEF SameEval
  <2>7. Screens(s, r, e)
    BY <1>2, <2>3, <2>5 DEF Screens, SameEval
  <2>8. QED  BY <2>4, <2>5, <2>6, <2>7
<1>3. CASE e = "SCREEN_ON"
  <2> DEFINE v == [s EXCEPT !.isScreenOn = TRUE]
             r == StopTimer(v, "HALF_HOUR")
  <2>1. Good(v)
    BY SetFlag
  <2>2. /\ v.isEvalution = s.isEvalution /\ v.isEvaluation = s.isEvaluation
        /\ v.monitor = s.monitor /\ v.sensorOn = s.sensorOn /\ v.delayed = s.delayed
        /\ Tasks(v) = Tasks(s) /\ v.cur = s.cur /\ v.pre = s.pre /\ v.next = s.next
        /\ v.armed = s.armed /\ v.scrOffHalfHourCtrl = s.scrOffHalfHourCtrl
        /\ v.inflight = s.inflight /\ v.isScreenOn = TRUE
    BY DEF Good, SMType, Tasks
  <2>3. ScreenStatus(s, e) = r
    BY <1>3 DEF ScreenStatus
  <2> HIDE DEF v
  <2>4. /\ Good(r) /\ SameEval(v, r) /\ Tasks(r) = Tasks(v) /\ r.armed = v.armed \ {"HALF_HOUR"}
        /\ r.cur = v.cur /\ r.pre = v.pre /\ r.next = v.next
        /\ r.scrOffHalfHourCtrl = v.scrOffHalfHourCtrl
    BY <2>1, TimerGood, TimerDoes, Names
  <2> HIDE DEF r
  <2>5. Safe(r)
    BY <1>1, <2>2, <2>4 DEF SameEval
  <2>6. Screens(s, r, e)
    BY <1>3, <2>2, <2>4 DEF Screens, SameEval
  <2>7. QED  BY <2>3, <2>4, <2>5, <2>6
<1>4. CASE e \notin {"SCREEN_OFF", "SCREEN_ON"}
  <2>1. ScreenStatus(s, e) = s
    BY <1>4 DEF ScreenStatus
  <2>2. QED  BY <1>4, <2>1 DEF Screens
<1>5. QED  BY <1>2, <1>3, <1>4

(* What a common event makes the state machine do, and that a machine that *)
(* works with the screen off then asks for dark.                           *)
Acts(s, r, e) ==
  \/ e \in WakeEvent /\ Transits(s, r, "WORKING")
  \/ e \notin WakeEvent /\ (r = s \/ (e # "SCREEN_OFF" /\ (Forces(s, r) \/ Restarts(s, r))))

(* Every common event that a state handles.                                *)
LEMMA CommonEventHandledDoes ==
  ASSUME NEW s, Good(s), Safe(s), NEW e
  PROVE  LET r == CommonEventHandled(s, e)
         IN  /\ Safe(r)
             /\ \E s1, s2 : /\ Safe(s1) /\ Screens(s, s1, e)
                            /\ Safe(s2) /\ Acts(s1, s2, e)
                            /\ \/ r = s2 /\ ~ (s2.cur = "WORKING" /\ ~ s2.isScreenOn)
                               \/ /\ s2.cur = "WORKING" /\ ~ s2.isScreenOn
                                  /\ Transits(s2, r, "DARK")
<1> DEFINE s1 == ScreenStatus(s, e)
           s2 == CASE e \in WakeEvent           -> TransitToState(s1, "WORKING")
                   [] e = "USER_SLEEP"          -> HandleUserSleepState(s1, TRUE)
                   [] e = "USER_AWAKE"          -> HandleUserSleepState(s1, FALSE)
                   [] e = "ENTER_FORCE_SLEEP"   -> TransitHoldSleepState(s1)
                   [] OTHER                     -> s1
           d  == TransitToState(s2, "DARK")
           r  == CommonEventHandled(s, e)
<1>1. Good(s1) /\ Safe(s1) /\ Screens(s, s1, e)
  BY ScreenStatusDoes
<1>2. r = IF s2.cur = "WORKING" /\ ~ s2.isScreenOn THEN d ELSE s2
  BY DEF CommonEventHandled
<1> HIDE DEF s1, r
<1>3. "WORKING" \in State /\ "DARK" \in State
  BY Names
<1>4. {"USER_SLEEP", "USER_AWAKE", "ENTER_FORCE_SLEEP"} \cap WakeEvent = {}
  BY DEF WakeEvent
<1>5. Good(s2) /\ Safe(s2) /\ Acts(s1, s2, e)
  <2>1. CASE e \in WakeEvent
    <3> DEFINE x == TransitToState(s1, "WORKING")
    <3>1. Good(x) /\ Safe(x) /\ Transits(s1, x, "WORKING")
      BY <1>1, <1>3, TransitToStateGood, TransitToStateDoes
    <3>2. s2 = x
      BY <1>4, <2>1
    <3> HIDE DEF x, s2
    <3>3. QED  BY <2>1, <3>1, <3>2 DEF Acts
  <2>2. CASE e = "USER_SLEEP"
    <3> DEFINE x == HandleUserSleepState(s1, TRUE)
    <3>1. Good(x) /\ Safe(x) /\ (x = s1 \/ Forces(s1, x))
      BY <1>1, HandleUserSleepStateDoes
    <3>2. s2 = x
      BY <1>4, <2>2
    <3> HIDE DEF x, s2
    <3>3. QED  BY <1>4, <2>2, <3>1, <3>2 DEF Acts
  <2>3. CASE e = "USER_AWAKE"
    <3> DEFINE x == HandleUserSleepState(s1, FALSE)
    <3>1. Good(x) /\ Safe(x) /\ Restarts(s1, x)
      BY <1>1, HandleUserSleepStateDoes
    <3>2. s2 = x
      BY <1>4, <2>3
    <3> HIDE DEF x, s2
    <3>3. QED  BY <1>4, <2>3, <3>1, <3>2 DEF Acts
  <2>4. CASE e = "ENTER_FORCE_SLEEP"
    <3> DEFINE x == TransitHoldSleepState(s1)
    <3>1. Good(x) /\ Safe(x) /\ Forces(s1, x)
      BY <1>1, TransitHoldSleepStateGood, TransitHoldSleepStateDoes
    <3>2. s2 = x
      BY <1>4, <2>4
    <3> HIDE DEF x, s2
    <3>3. QED  BY <1>4, <2>4, <3>1, <3>2 DEF Acts
  <2>5. CASE e \notin WakeEvent \cup {"USER_SLEEP", "USER_AWAKE", "ENTER_FORCE_SLEEP"}
    <3>1. s2 = s1
      BY <2>5
    <3>2. QED  BY <1>1, <2>5, <3>1 DEF Acts
  <2>6. QED  BY <2>1, <2>2, <2>3, <2>4, <2>5
<1> HIDE DEF s2
<1>6. Safe(d) /\ Transits(s2, d, "DARK")
  BY <1>3, <1>5, TransitToStateDoes
<1> HIDE DEF d
<1>7. Safe(r) /\ (\/ r = s2 /\ ~ (s2.cur = "WORKING" /\ ~ s2.isScreenOn)
                  \/ s2.cur = "WORKING" /\ ~ s2.isScreenOn /\ Transits(s2, r, "DARK"))
  BY <1>2, <1>5, <1>6
<1>8. QED  BY <1>1, <1>5, <1>7 DEF r

(* A state times out: the evaluation is stopped first, then the successor  *)
(* is asked for or the state blocked.                                      *)
LEMMA NextStateTimedOutDoes ==
  ASSUME NEW s, Good(s), Safe(s), NEW owner \in State
  PROVE  LET r == NextStateTimedOut(s, owner)
         IN  /\ Safe(r)
             /\ \E s1 : Stays(s, s1) /\ s1.isEvaluation = FALSE /\ Transits(s1, r, s.next[owner])
<1> DEFINE a  == AcquireStandbyRunningLock(s)
           s1 == StopEvalution(a)
           n  == s.next[owner]
           b  == BlockCurrentState(s1)
           x  == ReleaseStandbyRunningLock(b)
           y  == TransitToState(s1, n)
<1>1. Good(a) /\ Same(s, a) /\ Tasks(a) = Tasks(s)
  BY LockGood, LockDoes
<1> HIDE DEF a
<1>2. Safe(a)
  BY <1>1, SameSafe DEF Same, OnlyMessages
<1>3. Good(s1) /\ Stops(a, s1)
  BY <1>1, <1>2, StopEvalutionGood, StopEvalutionDoes DEF Safe
<1> HIDE DEF s1
<1>4. Safe(s1)
  BY <1>2, <1>3, StopsSafe
<1>5. Stays(s, s1) /\ s1.isEvaluation = FALSE
  BY <1>1, <1>3 DEF Same, SameEval, Stops, Stays, World
<1>6. n \in State
  BY FieldTypes
<1> HIDE DEF n
<1>7. Safe(y) /\ Transits(s1, y, n)
  BY <1>3, <1>4, <1>6, TransitToStateDoes
<1>8. Good(b) /\ Safe(b) /\ SameEval(s1, b) /\ Stays(s1, b)
  BY <1>3, <1>4, BlockCurrentStateGood, BlockCurrentStateDoes
<1> HIDE DEF b
<1>9. Same(b, x) /\ Tasks(x) = Tasks(b)
  BY <1>8, LockDoes
<1> HIDE DEF x
<1>10. Safe(x)
  BY <1>8, <1>9, SameSafe DEF Same, OnlyMessages
<1>11. n # "WORKING" => Transits(s1, x, n)
  <2>1. Stays(s1, x) /\ x.isEvaluation = s1.isEvaluation
    BY <1>8, <1>9 DEF Same, SameEval, Stays, World
  <2>2. QED  BY <1>5, <2>1 DEF Transits
<1>12. \/ NextStateTimedOut(s, owner) = x /\ TransitionRefused(s1, n)
       \/ NextStateTimedOut(s, owner) = y
  BY DEF NextStateTimedOut, x, b, y, s1, a, n
<1>13. TransitionRefused(s1, n) => n # "WORKING"
  <2>1. s1.cur \in {"WORKING", "DARK", "NAP", "MAINTENANCE", "SLEEP"}
    BY <1>3, FieldTypes, Names
  <2>2. QED  BY <2>1 DEF TransitionRefused, CheckTransitionValid, Level
<1> HIDE DEF y
<1>14. QED  BY <1>5, <1>7, <1>10, <1>11, <1>12, <1>13 DEF n

(* A task of the motion monitor; the one that starts the sensors again     *)
(* finds its evaluation still open.                                        *)
LEMMA MotionStepDoneDoes ==
  ASSUME NEW s, Good(s), Safe(s), NEW step \in MotionStep,
         step # "moved" => s.isEvaluation = TRUE /\ s.monitor = "motion"
  PROVE  LET r == MotionStepDone(s, step)
         IN  /\ Safe(r)
             /\ \/ Stays(s, r) /\ (r.isEvaluation = TRUE => s.isEvaluation = TRUE)
                \/ r.isEvaluation = FALSE /\ Outcome(s, r, s.isEvaluation = TRUE)
<1> DEFINE x == [s EXCEPT !.sensorOn = FALSE]
           after == s.delayed \o <<"stop", "restart">>
           y == PeriodlyStartMotionDetection(s, after, sensorOk)
<1>1. step \in {"moved", "stop", "restart", "total"}
  BY DEF MotionStep
<1>2. CASE step \in {"moved", "total"}
  <2> DEFINE r == EndEvalCurrentState(s, step = "total")
  <2>1. MotionStepDone(s, step) = r
    BY <1>2 DEF MotionStepDone
  <2>2. Safe(r) /\ r.isEvaluation = FALSE /\ Outcome(s, r, step = "total")
    BY EndEvalCurrentStateDoes
  <2> HIDE DEF r
  <2>3. Outcome(s, r, s.isEvaluation = TRUE)
    BY <1>2, <2>2 DEF Outcome
  <2>4. QED  BY <2>1, <2>2, <2>3
<1>3. CASE step = "stop"
  <2>1. MotionStepDone(s, step) = x
    BY <1>3 DEF MotionStepDone
  <2>2. /\ x.isEvalution = s.isEvalution /\ x.isEvaluation = s.isEvaluation
        /\ x.monitor = s.monitor /\ Tasks(x) = Tasks(s) /\ x.armed = s.armed
        /\ x.next = s.next /\ Stays(s, x)
    BY DEF Good, SMType, Stays, World, Tasks
  <2> HIDE DEF x
  <2>3. Safe(x)
    BY <1>3, <2>2 DEF Safe, Agrees, SensorsIn, TimersIn, TasksIn, NextIn, Stays
  <2>4. QED  BY <2>1, <2>2, <2>3
<1>4. CASE step = "restart"
  <2>1. MotionStepDone(s, step) = y
    BY <1>4 DEF MotionStepDone
  <2>2. Safe(y) /\ y.isEvaluation = TRUE /\ Stays(s, y)
    BY <1>4, PeriodlyStartMotionDetectionDoes
  <2> HIDE DEF y
  <2>3. QED  BY <1>4, <2>1, <2>2
<1>5. QED  BY <1>1, <1>2, <1>3, <1>4

-----------------------------------------------------------------------------
(* The steps of the system.                                                *)

(* The task that runs belongs to the current state, and what is left of    *)
(* the queue keeps the record safe.                                        *)
LEMMA PoppedDoes ==
  ASSUME Good(sm), Safe(sm), sm.queue # <<>>
  PROVE  /\ Good(Popped) /\ Safe(Popped) /\ Same(sm, Popped)
         /\ HeadTask \in Task /\ HeadTask \in Tasks(sm) /\ Belongs(HeadTask, sm.cur)
<1> DEFINE q == sm.queue
<1>1. q \in Seq(Task) /\ q # <<>>
  BY FieldTypes
<1>2. /\ Len(q) \in Nat /\ 1 \in DOMAIN q /\ DOMAIN q = 1..Len(q) /\ Head(q) = q[1]
      /\ DOMAIN Tail(q) = 1..(Len(q) - 1)
      /\ \A i \in 1..(Len(q) - 1) : Tail(q)[i] = q[i + 1]
  BY <1>1
<1>3. {Tail(q)[i] : i \in DOMAIN Tail(q)} \subseteq {q[i] : i \in DOMAIN q}
  BY <1>2
<1>4. HeadTask \in Tasks(sm)
  BY <1>2 DEF HeadTask, Tasks
<1>5. Good(Popped) /\ HeadTask \in Task
  BY PoppedGood
<1>6. Same(sm, Popped) /\ Popped.queue = Tail(q)
  BY DEF Popped, Good, SMType, Same, SameEval
<1> HIDE DEF q
<1>7. Tasks(Popped) \subseteq Tasks(sm)
  BY <1>3, <1>6 DEF Tasks, q
<1>8. Safe(Popped)
  BY <1>6, <1>7, SameSafe DEF Same, OnlyMessages
<1>9. Belongs(HeadTask, sm.cur)
  BY <1>4 DEF Safe, TasksIn
<1>10. QED  BY <1>4, <1>5, <1>6, <1>8, <1>9

(* Every task of the handler keeps the record safe.                        *)
LEMMA HandlerSafe ==
  ASSUME Good(sm), Safe(sm), Handler
  PROVE  Safe(sm') /\ sm'.inflight = sm.inflight
<1>1. sm.queue # <<>>
  BY DEF Handler, HandleCommonEvent, CheckScreenStatus, TransitNextState, TransitNextPhase,
         StartPeriodlyMotionDetection, MotionDetection, DispatchMessage, Running
<1> DEFINE p == Popped
<1>2. Good(p) /\ Safe(p) /\ HeadTask \in Task /\ HeadTask \in Tasks(sm)
  BY <1>1, PoppedDoes
<1>3. p.inflight = sm.inflight /\ p.isEvaluation = sm.isEvaluation /\ p.monitor = sm.monitor
  BY <1>1, PoppedDoes DEF Same, SameEval
<1>4. HeadTask.owner \in State /\ "DARK" \in State
  BY <1>2, Names DEF Task
<1> HIDE DEF p
<1>5. ASSUME NEW s, NEW r, NEW c, Starts(s, r, c) PROVE r.inflight = s.inflight
  BY <1>5 DEF Starts, Stays, Outcome, Darkens, Settles, Wakes, World
<1>6. ASSUME NEW s, NEW r, NEW n, Transits(s, r, n) PROVE r.inflight = s.inflight
  BY <1>6 DEF Transits, Stays, Outcome, Darkens, Settles, Wakes, Exits, Maintains, World
<1>7. CASE HandleCommonEvent
  <2>1. sm' = CommonEventHandled(p, HeadTask.arg)
    BY <1>7 DEF HandleCommonEvent, p
  <2>2. Safe(sm')
    BY <1>2, <2>1, CommonEventHandledDoes
  <2>3. PICK s1, s2 : /\ Screens(p, s1, HeadTask.arg) /\ Acts(s1, s2, HeadTask.arg)
                      /\ sm' = s2 \/ Transits(s2, sm', "DARK")
    BY <1>2, <2>1, CommonEventHandledDoes
  <2>4. s1.inflight = p.inflight
    BY <2>3 DEF Screens
  <2>5. s2.inflight = s1.inflight
    BY <1>6, <2>3 DEF Acts, Forces, Restarts, World
  <2>6. QED  BY <1>3, <1>6, <2>2, <2>3, <2>4, <2>5
<1>8. CASE CheckScreenStatus
  <2>1. sm' = p \/ sm' = TransitToState(p, "DARK")
    BY <1>8 DEF CheckScreenStatus, p
  <2>2. QED  BY <1>2, <1>3, <1>4, <1>6, <2>1, TransitToStateDoes
<1>9. CASE TransitNextState
  <2>1. sm' = NextStateTimedOut(p, HeadTask.owner)
    BY <1>9 DEF TransitNextState, p
  <2>2. Safe(sm') /\ \E s1 : Stays(p, s1) /\ Transits(s1, sm', p.next[HeadTask.owner])
    BY <1>2, <1>4, <2>1, NextStateTimedOutDoes
  <2>3. QED  BY <1>3, <1>6, <2>2 DEF Stays, World
<1>10. CASE TransitNextPhase
  <2> DEFINE a == AcquireStandbyRunningLock(p)
             u == IF HeadTask.arg = "acquire" THEN a ELSE p
             st == HeadTask.owner
  <2>1. Good(a) /\ Same(p, a) /\ Tasks(a) = Tasks(p)
    BY <1>2, LockGood, LockDoes
  <2>2. sm' = StartEvalCurrentState(u, st, u.phase[st], st, FALSE)
    BY <1>10 DEF TransitNextPhase, TransitToPhase, p
  <2> HIDE DEF a
  <2>3. Safe(a)
    BY <1>2, <2>1, SameSafe DEF Same, OnlyMessages
  <2>4. Good(u) /\ Safe(u) /\ u.inflight = sm.inflight
    BY <1>2, <1>3, <2>1, <2>3 DEF Same, SameEval
  <2> HIDE DEF u
  <2>5. Safe(sm') /\ Starts(u, sm', ConstraintOf(st, u.phase[st], st, FALSE))
    BY <2>2, <2>4, StartEvalCurrentStateDoes
  <2>6. QED  BY <1>5, <2>4, <2>5
<1>11. CASE StartPeriodlyMotionDetection
  <2> DEFINE u == [p EXCEPT !.isRepeatedDetection = TRUE]
  <2>1. Good(u) /\ Same(p, u) /\ Tasks(u) = Tasks(p)
    BY <1>2, SetFlag, SameFields
  <2>2. sm' = StartEvalCurrentState(u, "SLEEP", p.phase["SLEEP"], "SLEEP", TRUE)
    BY <1>11 DEF StartPeriodlyMotionDetection, PeriodlyMotionDetected, p
  <2> HIDE DEF u
  <2>3. Safe(u) /\ u.inflight = sm.inflight
    BY <1>2, <1>3, <2>1, SameSafe DEF Same, SameEval, OnlyMessages
  <2>4. Safe(sm') /\ Starts(u, sm', ConstraintOf("SLEEP", p.phase["SLEEP"], "SLEEP", TRUE))
    BY <2>1, <2>2, <2>3, StartEvalCurrentStateDoes
  <2>5. QED  BY <1>5, <2>3, <2>4
<1>12. CASE MotionDetection
  <2>1. HeadTask.name = "MOTION" /\ sm' = MotionStepDone(p, HeadTask.arg)
    BY <1>12 DEF MotionDetection, Running, HeadTask, p
  <2>2. HeadTask.arg \in MotionStep
    BY <1>2, <2>1 DEF Task
  <2>3. HeadTask.arg # "moved" => sm.isEvaluation /\ sm.monitor = "motion"
    BY <1>2, <2>1 DEF Safe, SensorsIn, Detects
  <2>4. sm.isEvaluation \in BOOLEAN
    BY DEF Good, SMType
  <2>5. HeadTask.arg # "moved" => p.isEvaluation = TRUE /\ p.monitor = "motion"
    BY <1>3, <2>3, <2>4
  <2>6. /\ Safe(sm')
        /\ Stays(p, sm') \/ Outcome(p, sm', p.isEvaluation = TRUE)
    BY <1>2, <2>1, <2>2, <2>5, MotionStepDoneDoes
  <2>7. QED  BY <1>3, <2>6 DEF Stays, Outcome, Darkens, Settles, Wakes, World
<1>13. CASE DispatchMessage
  BY <1>2, <1>3, <1>13 DEF DispatchMessage, p
<1>14. QED
  BY <1>7, <1>8, <1>9, <1>10, <1>11, <1>12, <1>13 DEF Handler

(* A task that another thread posts is a message, the report of a motion,  *)
(* a detection step of an open evaluation, or the task of a timer.         *)
LEMMA PostSafe ==
  ASSUME NEW s, Good(s), Safe(s), NEW n, NEW o, NEW a,
         Belongs(TaskOf(n, o, a), s.cur),
         Detects(TaskOf(n, o, a)) => s.isEvaluation /\ s.monitor = "motion"
  PROVE  Safe(PostTask(s, n, o, a))
<1> DEFINE x == TaskOf(n, o, a)
           r == PostTask(s, n, o, a)
<1>1. Same(s, r) /\ Tasks(r) = Tasks(s) \cup {x}
  BY PostTaskDoes
<1> HIDE DEF x, r
<1>2. Agrees(r) /\ TimersIn(r) /\ NextIn(r)
  BY <1>1 DEF Safe, Agrees, TimersIn, NextIn, Same, SameEval
<1>3. SensorsIn(r)
  BY <1>1 DEF Safe, SensorsIn, Same, SameEval, x
<1>4. TasksIn(r)
  BY <1>1 DEF Safe, TasksIn, Same, x
<1>5. QED  BY <1>2, <1>3, <1>4 DEF Safe, r

(* Assigning the callbacks under way keeps the record safe.                *)
LEMMA InflightSafe ==
  ASSUME NEW s, Good(s), Safe(s), NEW v
  PROVE  LET r == [s EXCEPT !.inflight = v]
         IN  Safe(r) /\ r.cur = s.cur /\ r.pre = s.pre /\ r.inflight = v
             /\ r.isEvaluation = s.isEvaluation /\ r.isScreenOn = s.isScreenOn
             /\ r.scrOffHalfHourCtrl = s.scrOffHalfHourCtrl
<1> DEFINE r == [s EXCEPT !.inflight = v]
<1>1. /\ r.isEvalution = s.isEvalution /\ r.isEvaluation = s.isEvaluation
      /\ r.monitor = s.monitor /\ r.sensorOn = s.sensorOn /\ r.delayed = s.delayed
      /\ Tasks(r) = Tasks(s) /\ r.cur = s.cur /\ r.pre = s.pre /\ r.next = s.next
      /\ r.armed = s.armed /\ r.inflight = v /\ r.isScreenOn = s.isScreenOn
      /\ r.scrOffHalfHourCtrl = s.scrOffHalfHourCtrl
  BY DEF Good, SMType, Tasks
<1> HIDE DEF r
<1>2. Safe(r)
  BY <1>1 DEF Safe, Agrees, SensorsIn, TimersIn, TasksIn, NextIn
<1>3. QED  BY <1>1, <1>2 DEF r

(* The steps of the other threads leave the state, the evaluation and the  *)
(* screen alone; the time service may restrict a sleep.                    *)
Observes(s, r) ==
  /\ r.cur = s.cur /\ r.pre = s.pre /\ r.isScreenOn = s.isScreenOn
  /\ r.isEvaluation = s.isEvaluation
  /\ \/ r.scrOffHalfHourCtrl = s.scrOffHalfHourCtrl
     \/ /\ r.scrOffHalfHourCtrl = TRUE
        /\ s.cur = "SLEEP" \/ (s.pre = "SLEEP" /\ s.cur = "MAINTENANCE")

Others == \/ Environment \/ (\E t \in Timer : TimerExpires(t) \/ TimerCallback(t))
          \/ SensorCallback \/ MotionTaskDue

(* The steps of the other threads keep the record safe.                    *)
LEMMA OthersSafe ==
  ASSUME Good(sm), Safe(sm), CallbacksIn(sm), Others
  PROVE  Safe(sm') /\ CallbacksIn(sm') /\ Observes(sm, sm')
<1>1. sm.inflight \in SUBSET (Timer \cup {"SENSOR"}) /\ sm.cur \in State
      /\ sm.delayed \in Seq(MotionStep) /\ sm.armed \in SUBSET Timer
  BY FieldTypes
<1>2. ASSUME NEW n, NEW o, NEW a,
             Belongs(TaskOf(n, o, a), sm.cur), ~ Detects(TaskOf(n, o, a))
      PROVE  LET r == PostTask(sm, n, o, a) IN Safe(r) /\ CallbacksIn(r) /\ Observes(sm, r)
  <2> DEFINE r == PostTask(sm, n, o, a)
  <2>1. Safe(r)
    BY <1>2, PostSafe
  <2>2. Same(sm, r)
    BY PostTaskDoes
  <2> HIDE DEF r
  <2>3. QED  BY <2>1, <2>2 DEF Same, SameEval, CallbacksIn, Observes, r
<1>3. ASSUME NEW e, PostEvent(e) PROVE Safe(sm') /\ CallbacksIn(sm') /\ Observes(sm, sm')
  <2>1. sm' = PostTask(sm, "EVENT", "WORKING", e)
    BY <1>3 DEF PostEvent
  <2>2. /\ Belongs(TaskOf("EVENT", "WORKING", e), sm.cur)
        /\ ~ Detects(TaskOf("EVENT", "WORKING", e))
    BY DEF TaskOf, Belongs, Detects
  <2>3. QED  BY <1>2, <2>1, <2>2
<1>4. ASSUME ScreenChanges \/ ChargingChanges \/ OtherEventArrives
      PROVE  Safe(sm') /\ CallbacksIn(sm') /\ Observes(sm, sm')
  BY <1>3, <1>4 DEF ScreenChanges, ChargingChanges, OtherEventArrives
<1>5. CASE SensorServiceChanges
  <2>1. sm' = sm
    BY <1>5 DEF SensorServiceChanges
  <2>2. QED  BY <2>1 DEF Observes
<1>6. CASE HalfHourElapses
  <2> DEFINE r == [sm EXCEPT !.offLong = TRUE]
  <2>1. Same(sm, r) /\ Tasks(r) = Tasks(sm)
    BY SameFields
  <2>2. sm' = r
    BY <1>6 DEF HalfHourElapses
  <2> HIDE DEF r
  <2>3. Safe(r)
    BY <2>1, SameSafe DEF Same, OnlyMessages
  <2>4. CallbacksIn(r) /\ Observes(sm, r)
    BY <2>1 DEF Same, SameEval, CallbacksIn, Observes
  <2>5. QED  BY <2>2, <2>3, <2>4
<1>7. CASE SensorReports
  <2> DEFINE v == sm.inflight \cup {"SENSOR"}
             r == [sm EXCEPT !.inflight = v]
  <2>1. sm' = r
    BY <1>7 DEF SensorReports
  <2>2. Safe(r) /\ r.cur = sm.cur /\ r.pre = sm.pre /\ r.inflight = v
        /\ r.isEvaluation = sm.isEvaluation /\ r.isScreenOn = sm.isScreenOn
        /\ r.scrOffHalfHourCtrl = sm.scrOffHalfHourCtrl
    BY InflightSafe
  <2> HIDE DEF r
  <2>3. CallbacksIn(r) /\ Observes(sm, r)
    BY <2>2 DEF CallbacksIn, Observes, StateTimer
  <2>4. QED  BY <2>1, <2>2, <2>3
<1>8. ASSUME NEW t \in Timer, TimerExpires(t)
      PROVE  Safe(sm') /\ CallbacksIn(sm') /\ Observes(sm, sm')
  <2> DEFINE a == IF t = "REPEATED" THEN sm.armed ELSE sm.armed \ {t}
             v == sm.inflight \cup {t}
             u == [sm EXCEPT !.armed = a]
             r == [u EXCEPT !.inflight = v]
  <2>1. t \in sm.armed /\ sm' = r
    BY <1>8 DEF TimerExpires
  <2>2. a \in SUBSET Timer /\ a \subseteq sm.armed
    BY <1>1
  <2> HIDE DEF a, v
  <2>3. /\ Good(u) /\ SameEval(sm, u) /\ u.cur = sm.cur /\ u.pre = sm.pre
        /\ u.next = sm.next /\ u.armed = a /\ Tasks(u) = Tasks(sm)
        /\ u.scrOffHalfHourCtrl = sm.scrOffHalfHourCtrl
    <3>1. Good(u)
      BY <2>2, SetArmed
    <3>2. sm \in SMType
      BY DEF Good
    <3>3. SameEval(sm, u)
      BY <3>2 DEF SMType, SameEval
    <3>4. u.cur = sm.cur /\ u.pre = sm.pre /\ u.next = sm.next /\ u.armed = a
      BY <3>2 DEF SMType
    <3>5. u.queue = sm.queue /\ u.scrOffHalfHourCtrl = sm.scrOffHalfHourCtrl
      BY <3>2 DEF SMType
    <3>6. Tasks(u) = Tasks(sm)
      BY <3>5 DEF Tasks
    <3>7. QED  BY <3>1, <3>3, <3>4, <3>5, <3>6
  <2> HIDE DEF u
  <2>4. Safe(u)
    BY <2>2, <2>3, SameSafe DEF OnlyMessages
  <2>5. Safe(r) /\ r.cur = u.cur /\ r.pre = u.pre /\ r.inflight = v
        /\ r.isEvaluation = u.isEvaluation /\ r.isScreenOn = u.isScreenOn
        /\ r.scrOffHalfHourCtrl = u.scrOffHalfHourCtrl
    BY <2>3, <2>4, InflightSafe
  <2> HIDE DEF r
  <2>6. t \in StateTimer => t = sm.cur
    BY <2>1 DEF Safe, TimersIn, StateTimer
  <2>7. t = "REPEATED" => sm.cur = "SLEEP"
    BY <1>1, <2>1 DEF Safe, TimersIn, State
  <2>8. CallbacksIn(r)
    BY <2>3, <2>5, <2>6, <2>7 DEF CallbacksIn, v
  <2>9. Observes(sm, r)
    BY <2>3, <2>5 DEF Observes, SameEval
  <2>10. QED  BY <2>1, <2>5, <2>8, <2>9
<1>9. ASSUME NEW v, v \subseteq sm.inflight
      PROVE  LET u == [sm EXCEPT !.inflight = v]
             IN  /\ Good(u) /\ Safe(u) /\ CallbacksIn(u) /\ Observes(sm, u) /\ u.cur = sm.cur
                 /\ u.isEvaluation = sm.isEvaluation /\ u.pre = sm.pre
                 /\ u.scrOffHalfHourCtrl = sm.scrOffHalfHourCtrl
  <2> DEFINE u == [sm EXCEPT !.inflight = v]
  <2>1. v \in SUBSET (Timer \cup {"SENSOR"})
    BY <1>1, <1>9
  <2>2. Good(u)
    BY <2>1, SetInflight
  <2>3. /\ Safe(u) /\ u.cur = sm.cur /\ u.pre = sm.pre /\ u.inflight = v
        /\ u.isEvaluation = sm.isEvaluation /\ u.isScreenOn = sm.isScreenOn
        /\ u.scrOffHalfHourCtrl = sm.scrOffHalfHourCtrl
    BY InflightSafe
  <2> HIDE DEF u
  <2>4. QED  BY <1>9, <2>2, <2>3 DEF CallbacksIn, Observes, u
<1>10. ASSUME NEW t \in Timer, TimerCallback(t)
       PROVE  Safe(sm') /\ CallbacksIn(sm') /\ Observes(sm, sm')
  <2> DEFINE v == sm.inflight \ {t}
             u == [sm EXCEPT !.inflight = v]
  <2>1. /\ Good(u) /\ Safe(u) /\ CallbacksIn(u) /\ Observes(sm, u) /\ u.cur = sm.cur
        /\ u.isEvaluation = sm.isEvaluation /\ u.pre = sm.pre
        /\ u.scrOffHalfHourCtrl = sm.scrOffHalfHourCtrl
    BY <1>9
  <2>2. /\ t \in sm.inflight
        /\ sm' = CASE t \in StateTimer -> PostTask(u, "NEXT_STATE", t, "none")
                   [] t = "REPEATED"   -> PostTask(u, "REPEATED", "SLEEP", "none")
                   [] t = "HALF_HOUR"  -> OnScreenOffHalfHourInner(u, TRUE)
    BY <1>10 DEF TimerCallback
  <2> HIDE DEF v, u
  <2>3. ASSUME NEW n, NEW o, Belongs(TaskOf(n, o, "none"), u.cur), n # "MOTION"
        PROVE  LET r == PostTask(u, n, o, "none")
               IN  Safe(r) /\ CallbacksIn(r) /\ Observes(sm, r)
    <3> DEFINE r == PostTask(u, n, o, "none")
    <3>1. ~ Detects(TaskOf(n, o, "none"))
      BY <2>3 DEF Detects, TaskOf
    <3>2. Safe(r) /\ Same(u, r)
      BY <2>1, <2>3, <3>1, PostSafe, PostTaskDoes
    <3> HIDE DEF r
    <3>3. QED  BY <2>1, <3>2 DEF Same, SameEval, CallbacksIn, Observes, r
  <2>4. CASE t \in StateTimer
    <3>1. SlowTimers => t = sm.cur
      BY <2>2, <2>4 DEF CallbacksIn
    <3>2. t # "WORKING"
      BY <2>4 DEF StateTimer
    <3>3. Belongs(TaskOf("NEXT_STATE", t, "none"), u.cur)
      BY <2>1, <3>1, <3>2 DEF Belongs, TaskOf
    <3>4. sm' = PostTask(u, "NEXT_STATE", t, "none")
      BY <2>2, <2>4 DEF StateTimer
    <3>5. QED  BY <2>3, <3>3, <3>4
  <2>5. CASE t = "REPEATED"
    <3>1. SlowTimers => sm.cur = "SLEEP"
      BY <2>2, <2>5 DEF CallbacksIn
    <3>2. Belongs(TaskOf("REPEATED", "SLEEP", "none"), u.cur)
      BY <2>1, <3>1 DEF Belongs, TaskOf
    <3>3. sm' = PostTask(u, "REPEATED", "SLEEP", "none")
      BY <2>2, <2>5 DEF StateTimer
    <3>4. QED  BY <2>3, <3>2, <3>3
  <2>6. CASE t = "HALF_HOUR"
    <3> DEFINE r == OnScreenOffHalfHourInner(u, TRUE)
    <3>1. sm' = r
      BY <2>2, <2>6 DEF StateTimer
    <3>2. HalfHour(u, r, TRUE)
      BY <2>1, OnScreenOffHalfHourInnerDoes
    <3> HIDE DEF r
    <3>3. Safe(r)
      BY <2>1, <3>2, SameSafe DEF HalfHour
    <3>4. CallbacksIn(r) /\ Observes(sm, r)
      BY <2>1, <3>2 DEF HalfHour, SameEval, CallbacksIn, Observes
    <3>5. QED  BY <3>1, <3>3, <3>4
  <2>7. QED  BY <2>4, <2>5, <2>6 DEF Timer
<1>11. CASE SensorCallback
  <2> DEFINE v == sm.inflight \ {"SENSOR"}
             u == [sm EXCEPT !.inflight = v]
             r == PostTask(u, "MOTION", "WORKING", "moved")
  <2>1. /\ Good(u) /\ Safe(u) /\ CallbacksIn(u) /\ Observes(sm, u)
    BY <1>9
  <2>2. sm' = r
    BY <1>11 DEF SensorCallback
  <2> HIDE DEF u
  <2>3. /\ Belongs(TaskOf("MOTION", "WORKING", "moved"), u.cur)
        /\ ~ Detects(TaskOf("MOTION", "WORKING", "moved"))
    BY DEF TaskOf, Belongs, Detects
  <2>4. Safe(r) /\ Same(u, r)
    BY <2>1, <2>3, PostSafe, PostTaskDoes
  <2> HIDE DEF r
  <2>5. QED  BY <2>1, <2>2, <2>4 DEF Same, SameEval, CallbacksIn, Observes
<1>12. CASE MotionTaskDue
  <2> DEFINE v == Tail(sm.delayed)
             h == Head(sm.delayed)
             u == [sm EXCEPT !.delayed = v]
             r == PostTask(u, "MOTION", "WORKING", h)
  <2>1. sm.delayed # <<>> /\ sm' = r
    BY <1>12 DEF MotionTaskDue
  <2>2. v \in Seq(MotionStep)
    BY <1>1, <2>1
  <2>3. sm.isEvaluation /\ sm.monitor = "motion"
    BY <2>1 DEF Safe, SensorsIn
  <2> HIDE DEF v, h
  <2>4. /\ u.isEvalution = sm.isEvalution /\ u.isEvaluation = sm.isEvaluation
        /\ u.monitor = sm.monitor /\ Tasks(u) = Tasks(sm)
        /\ u.cur = sm.cur /\ u.pre = sm.pre /\ u.next = sm.next /\ u.armed = sm.armed
        /\ u.inflight = sm.inflight /\ u.isScreenOn = sm.isScreenOn
        /\ u.scrOffHalfHourCtrl = sm.scrOffHalfHourCtrl
    BY DEF Good, SMType, Tasks
  <2>5. Good(u)
    BY <2>2, SetDelayed
  <2> HIDE DEF u
  <2>6. Safe(u)
    BY <2>3, <2>4 DEF Safe, Agrees, SensorsIn, TimersIn, TasksIn, NextIn
  <2>7. Belongs(TaskOf("MOTION", "WORKING", h), u.cur)
    BY DEF TaskOf, Belongs
  <2>8. Safe(r) /\ Same(u, r)
    BY <2>3, <2>4, <2>5, <2>6, <2>7, PostSafe, PostTaskDoes
  <2> HIDE DEF r
  <2>9. QED  BY <2>1, <2>4, <2>8 DEF Same, SameEval, CallbacksIn, Observes
<1>13. QED
  BY <1>4, <1>5, <1>6, <1>7, <1>8, <1>10, <1>11, <1>12 DEF Others, Environment

(* The state machine starts at work, with the check of the screen queued.  *)
LEMMA InitInv == Init => Inv
<1> SUFFICES ASSUME Init PROVE Inv
  OBVIOUS
<1>1. Good(sm)
  BY InitType, TypeIsGood
<1> DEFINE q == <<TaskOf("CONDITION", "WORKING", "none")>>
<1>2. /\ sm.isEvalution = FALSE /\ sm.isEvaluation = FALSE /\ sm.sensorOn = FALSE
      /\ sm.delayed = <<>> /\ sm.armed = {} /\ sm.inflight = {} /\ sm.cur = "WORKING"
      /\ sm.queue = q
  BY DEF Init, InitialState
<1>3. /\ sm.next["DARK"] \in {"DARK", "NAP", "SLEEP"} /\ sm.next["NAP"] = "NAP"
      /\ sm.next["SLEEP"] = "MAINTENANCE"
  <2>1. sm.next = [st \in State |->
               CASE st = "DARK"  -> IF NapSwitch THEN "NAP"
                                    ELSE IF SleepSwitch THEN "SLEEP" ELSE "DARK"
                 [] st = "NAP"   -> "NAP"
                 [] st = "SLEEP" -> "MAINTENANCE"
                 [] OTHER        -> "WORKING"]
    BY DEF Init, InitialState
  <2>2. QED  BY <2>1 DEF State
<1>4. Tasks(sm) = {TaskOf("CONDITION", "WORKING", "none")}
  <2>1. DOMAIN q = {1} /\ q[1] = TaskOf("CONDITION", "WORKING", "none")
    OBVIOUS
  <2> HIDE DEF q
  <2>2. QED  BY <1>2, <2>1 DEF Tasks
<1>5. Agrees(sm) /\ TimersIn(sm) /\ CallbacksIn(sm)
  BY <1>2 DEF Agrees, TimersIn, CallbacksIn
<1>6. SensorsIn(sm) /\ TasksIn(sm)
  BY <1>2, <1>4 DEF SensorsIn, TasksIn, Detects, Belongs, TaskOf
<1>7. NextIn(sm)
  BY <1>2, <1>3 DEF NextIn
<1>8. QED  BY <1>1, <1>5, <1>6, <1>7 DEF Inv, Safe

(* Every step keeps the invariant.                                         *)
LEMMA NextInv == Inv /\ TypeOK /\ TypeOK' /\ [Next]_vars => Inv'
<1> SUFFICES ASSUME Inv, TypeOK, TypeOK', [Next]_vars PROVE Inv'
  OBVIOUS
<1>1. Good(sm) /\ Safe(sm) /\ CallbacksIn(sm) /\ Good(sm)'
  BY TypeIsGood DEF Inv, TypeOK, Good, IndexOK
<1>2. CASE Handler
  <2>1. Safe(sm') /\ sm'.inflight = sm.inflight
    BY <1>1, <1>2, HandlerSafe
  <2>2. SlowTimers => sm.inflight = {}
    BY <1>2 DEF Handler, HandleCommonEvent, CheckScreenStatus, TransitNextState,
         TransitNextPhase, StartPeriodlyMotionDetection, MotionDetection, DispatchMessage, Running
  <2>3. CallbacksIn(sm')
    BY <2>1, <2>2 DEF CallbacksIn
  <2>4. QED  BY <1>1, <2>1, <2>3 DEF Inv
<1>3. CASE Others
  <2>1. Safe(sm') /\ CallbacksIn(sm')
    BY <1>1, <1>3, OthersSafe
  <2>2. QED  BY <1>1, <2>1 DEF Inv
<1>4. CASE UNCHANGED vars
  BY <1>1, <1>4 DEF Inv, vars
<1>5. QED  BY <1>2, <1>3, <1>4 DEF Next, Others

(* The inductive invariant holds always.                                   *)
LEMMA InvHolds == Spec => []Inv
BY InitInv, NextInv, TypeCorrect, PTL DEF Spec

-----------------------------------------------------------------------------
(* The safety of the state machine, from its inductive invariant.          *)

(* isEvalution_ of StateManagerAdapter and isEvaluation_ of                *)
(* ConstraintManagerAdapter agree in every reachable state, whichever      *)
(* event, time-out or sensor report interrupts an evaluation: StartEval    *)
(* never refuses for an evaluation that nobody is going to end.            *)
THEOREM EvalFlagsAgreeHolds == Spec => []EvalFlagsAgree
<1>1. Inv => EvalFlagsAgree
  BY DEF Inv, Safe, Agrees, EvalFlagsAgree
<1>2. QED  BY <1>1, InvHolds, PTL

(* The sensors are powered, and a task that would power them is waiting,   *)
(* only during a motion evaluation: StopMonitoring reaches every task that *)
(* StartMonitoring and PeriodlyStartMotionDetection have posted.           *)
THEOREM SensorOnlyWhileEvaluatingHolds == Spec => []SensorOnlyWhileEvaluating
<1>1. Inv => SensorOnlyWhileEvaluating
  <2> SUFFICES ASSUME Inv, \/ sm.sensorOn \/ sm.delayed # <<>>
                           \/ MotionQueued(sm, {"stop", "restart", "total"})
               PROVE  sm.isEvaluation /\ sm.monitor = "motion"
    BY DEF SensorOnlyWhileEvaluating
  <2>1. MotionQueued(sm, {"stop", "restart", "total"}) => \E t \in Tasks(sm) : Detects(t)
    BY DEF MotionQueued, Tasks, Detects
  <2>2. QED  BY <2>1 DEF Inv, Safe, SensorsIn
<1>2. QED  BY <1>1, InvHolds, PTL

(* Every EndState stops the timers that its BeginState, a block or the     *)
(* repeated detection armed: no timer of a state outlives it.              *)
THEOREM TimersOwnedHolds == Spec => []TimersOwned
<1>1. Inv => TimersOwned
  BY DEF Inv, Safe, TimersIn, TimersOwned
<1>2. QED  BY <1>1, InvHolds, PTL

(* EndState removes the phase tasks of nap and sleep, so that a phase task *)
(* never runs in another state than the one that posted it.                *)
THEOREM PhaseTasksOwnedHolds == Spec => []PhaseTasksOwned
<1>1. Inv => PhaseTasksOwned
  BY DEF Inv, Safe, TasksIn, Belongs, Tasks, PhaseTasksOwned
<1>2. QED  BY <1>1, InvHolds, PTL

-----------------------------------------------------------------------------
(* StandbyPromise.                                                         *)

(* What holds besides Inv when no callback is late: an evaluation is open  *)
(* only in nap and sleep, the half-hour restriction applies only in sleep  *)
(* and its windows, and dark, nap and the windows of nap have the screen   *)
(* off.                                                                    *)
Calm(s) ==
  /\ s.isEvaluation = TRUE => s.cur \in PhasedState
  /\ s.scrOffHalfHourCtrl = TRUE => s.cur = "SLEEP" \/ (s.cur = "MAINTENANCE" /\ s.pre = "SLEEP")
  /\ s.cur \in {"DARK", "NAP"} \/ (s.cur = "MAINTENANCE" /\ s.pre = "NAP") => s.isScreenOn = FALSE

(* The state that a window returns to.                                     *)
Opener(s) == IF s.cur = "MAINTENANCE" THEN s.pre ELSE "none"

(* A step from s to r that the promise allows, with the charger as it is.  *)
Keeps(s, r) ==
  \/ r.cur = "WORKING" /\ r.scrOffHalfHourCtrl = FALSE
  \/ r.isScreenOn = FALSE /\ ~ charging /\ r.cur = "DARK" /\ r.scrOffHalfHourCtrl = FALSE
  \/ /\ s.isScreenOn = FALSE /\ r.isScreenOn = FALSE /\ s.cur \in {"DARK", "NAP"}
     /\ r.cur \in {"NAP", "SLEEP"} \ {s.cur}
     /\ r.cur = "NAP" => r.scrOffHalfHourCtrl = FALSE
  \/ /\ s.cur \in PhasedState /\ r.cur = "MAINTENANCE" /\ r.pre = s.cur
     /\ r.isScreenOn = s.isScreenOn /\ r.scrOffHalfHourCtrl = s.scrOffHalfHourCtrl
  \/ /\ s.cur = "MAINTENANCE" /\ r.cur = s.pre /\ r.cur \in PhasedState
     /\ r.isScreenOn = s.isScreenOn /\ r.scrOffHalfHourCtrl = s.scrOffHalfHourCtrl
  \/ /\ s.cur # "SLEEP" /\ r.cur = "SLEEP"
     /\ r.isScreenOn = s.isScreenOn
     /\ r.scrOffHalfHourCtrl \in {s.scrOffHalfHourCtrl, TRUE}
  \/ /\ "SLEEP" \in {s.cur, Opener(s)} /\ r.scrOffHalfHourCtrl = TRUE
     /\ r.cur = s.cur /\ r.pre = s.pre /\ r.isScreenOn = s.isScreenOn
  \/ /\ r.isScreenOn = s.isScreenOn \/ s.isScreenOn = TRUE \/ s.cur = "WORKING"
     /\ r.cur = s.cur /\ r.pre = s.pre /\ r.scrOffHalfHourCtrl = s.scrOffHalfHourCtrl

(* The Boolean fields are Boolean.                                         *)
LEMMA Flags ==
  ASSUME NEW s, Good(s)
  PROVE  s.isEvaluation \in BOOLEAN /\ s.scrOffHalfHourCtrl \in BOOLEAN /\ s.isScreenOn \in BOOLEAN
BY DEF Good, SMType

-----------------------------------------------------------------------------
(* Each kind of change keeps the promise.                                  *)

(* A method that leaves state, screen and restriction alone is allowed.    *)
LEMMA StaysKeeps ==
  ASSUME NEW s, Calm(s), NEW r, Stays(s, r), r.isEvaluation = TRUE => s.cur \in PhasedState
  PROVE  Calm(r) /\ Keeps(s, r)
BY DEF Calm, Keeps, Stays, World

(* What the result of an evaluation makes of the record is allowed.        *)
LEMMA OutcomeKeeps ==
  ASSUME NEW s, Good(s), Calm(s), NEW r, NEW res, Outcome(s, r, res),
         r.isEvaluation = FALSE, s.cur = "WORKING" => ~ res
  PROVE  Calm(r) /\ Keeps(s, r)
<1>1. s.scrOffHalfHourCtrl \in BOOLEAN
  BY Flags
<1>2. CASE Stays(s, r)
  BY <1>2, StaysKeeps
<1>3. CASE Darkens(s, r) /\ res
  BY <1>3 DEF Darkens
<1>4. CASE Settles(s, r)
  <2>1. s.isScreenOn = FALSE /\ r.isScreenOn = FALSE
    BY <1>4 DEF Settles, Calm, World
  <2>2. s.scrOffHalfHourCtrl = FALSE
    BY <1>1, <1>4 DEF Settles, Calm
  <2>3. r.cur = "NAP" => r.scrOffHalfHourCtrl = FALSE
    BY <1>4, <2>2 DEF Settles
  <2>4. Keeps(s, r)
    BY <1>4, <2>1, <2>3 DEF Settles, Keeps
  <2>5. Calm(r)
    BY <1>4, <2>1, <2>3 DEF Settles, Calm
  <2>6. QED  BY <2>4, <2>5
<1>5. CASE Wakes(s, r)
  BY <1>5 DEF Wakes, Calm, Keeps
<1>6. QED  BY <1>2, <1>3, <1>4, <1>5 DEF Outcome

(* A window opens without an evaluation, and closes on its opener or wakes.*)
LEMMA MaintainsKeeps ==
  ASSUME NEW s, Good(s), Calm(s), NEW r, NEW n, Maintains(s, r, n),
         s.isEvaluation = FALSE, s.cur = "MAINTENANCE" => n \in {"WORKING", s.pre}
  PROVE  Calm(r) /\ Keeps(s, r)
<1>1. s.cur # "MAINTENANCE" \/ n \in {"WORKING", s.pre}
  OBVIOUS
<1>2. CASE n = "WORKING"
  BY <1>2 DEF Maintains, Calm, Keeps
<1>3. CASE n = "MAINTENANCE"
  <2>1. Calm(r)
    BY <1>3 DEF Maintains, Calm, World, PhasedState
  <2>2. Keeps(s, r)
    BY <1>3 DEF Maintains, Keeps, World
  <2>3. QED  BY <2>1, <2>2
<1>4. CASE n \in {"NAP", "SLEEP"} /\ s.cur = "MAINTENANCE"
  <2>1. Calm(r)
    BY <1>4 DEF Maintains, Calm, World
  <2>2. Keeps(s, r)
    BY <1>4 DEF Maintains, Keeps, World, PhasedState
  <2>3. QED  BY <2>1, <2>2
<1>5. QED  BY <1>2, <1>3, <1>4 DEF Maintains

(* From work, with the screen off, the device goes dark or stays.          *)
LEMMA DarkFromWork ==
  ASSUME NEW s, Good(s), Calm(s), NEW r, Transits(s, r, "DARK"),
         s.cur = "WORKING", ~ s.isScreenOn
  PROVE  /\ Calm(r) /\ Keeps(s, r)
         /\ \/ Stays(s, r)
            \/ /\ World(s, r) /\ r.cur = "DARK" /\ r.scrOffHalfHourCtrl = FALSE /\ ~ charging
<1>1. /\ s.isEvaluation \in BOOLEAN /\ s.scrOffHalfHourCtrl \in BOOLEAN
      /\ s.isScreenOn \in BOOLEAN
  BY Flags
<1>2. s.isScreenOn = FALSE /\ s.isEvaluation = FALSE /\ s.scrOffHalfHourCtrl = FALSE
  BY <1>1 DEF Calm, PhasedState
<1>3. CASE Stays(s, r) /\ (r.isEvaluation = TRUE => s.isEvaluation = TRUE \/ s.cur \in PhasedState)
  <2>1. r.isEvaluation = TRUE => s.cur \in PhasedState
    BY <1>2, <1>3
  <2>2. QED  BY <1>3, <2>1, StaysKeeps
<1>4. CASE r.isEvaluation = FALSE /\ Outcome(s, r, ~ charging)
  <2>1. CASE Stays(s, r)
    BY <1>4, <2>1, StaysKeeps
  <2>2. CASE Darkens(s, r) /\ ~ charging
    BY <1>2, <1>4, <2>2 DEF Darkens, Calm, Keeps, World
  <2>3. QED  BY <1>4, <2>1, <2>2 DEF Outcome, Settles, Wakes, PhasedState
<1>5. Transits(s, r, "DARK") =>
        \/ Stays(s, r) /\ (r.isEvaluation = TRUE => s.isEvaluation = TRUE \/ s.cur \in PhasedState)
        \/ r.isEvaluation = FALSE /\ Outcome(s, r, ~ charging)
  BY DEF Transits, Outcome, Exits, Maintains, PhasedState
<1>6. QED  BY <1>3, <1>4, <1>5

(* A request for work is met.                                              *)
LEMMA WorkFromAny ==
  ASSUME NEW s, NEW r, Transits(s, r, "WORKING"),
         s.cur \in {"WORKING", "MAINTENANCE"} => s.isEvaluation = FALSE,
         s.cur = "WORKING" => s.scrOffHalfHourCtrl = FALSE
  PROVE  /\ World(s, r) /\ r.cur = "WORKING" /\ r.scrOffHalfHourCtrl = FALSE
         /\ r.isEvaluation # TRUE
<1>1. CASE Stays(s, r) /\ s.cur = "WORKING"
           /\ (r.isEvaluation = TRUE => s.isEvaluation = TRUE \/ s.cur \in PhasedState)
  BY <1>1 DEF Stays, PhasedState
<1>2. CASE Exits(s, r, "WORKING")
  BY <1>2 DEF Exits
<1>3. CASE Maintains(s, r, "WORKING")
  BY <1>3 DEF Maintains
<1>4. QED  BY <1>1, <1>2, <1>3 DEF Transits

-----------------------------------------------------------------------------
(* The steps of the handler.                                               *)

(* A common event: a wake-up that may fall back to dark, a forced sleep,   *)
(* or a change of the screen only.                                         *)
LEMMA CommonEventKeeps ==
  ASSUME NEW s, Good(s), Safe(s), Calm(s), NEW e
  PROVE  LET r == CommonEventHandled(s, e) IN Calm(r) /\ Keeps(s, r)
<1> DEFINE r == CommonEventHandled(s, e)
<1> SUFFICES Calm(r) /\ Keeps(s, r)  OBVIOUS
<1> HIDE DEF r
<1>1. PICK s1, s2 : /\ Screens(s, s1, e) /\ Acts(s1, s2, e)
                    /\ \/ r = s2 /\ ~ (s2.cur = "WORKING" /\ ~ s2.isScreenOn)
                       \/ /\ s2.cur = "WORKING" /\ ~ s2.isScreenOn
                          /\ Transits(s2, r, "DARK")
  BY CommonEventHandledDoes DEF r
<1>2. /\ s.isEvaluation \in BOOLEAN /\ s.scrOffHalfHourCtrl \in BOOLEAN
      /\ s.isScreenOn \in BOOLEAN
  BY Flags
<1>3. /\ s1.isEvaluation = s.isEvaluation /\ s1.cur = s.cur /\ s1.pre = s.pre
      /\ s1.scrOffHalfHourCtrl = s.scrOffHalfHourCtrl
  BY <1>1 DEF Screens
<1>4. s1.isScreenOn \in BOOLEAN
  BY <1>1, <1>2 DEF Screens
<1>5. ASSUME NEW u, u.cur = "WORKING", u.isScreenOn = FALSE, u.scrOffHalfHourCtrl = FALSE,
             u.isEvaluation # TRUE, Transits(u, r, "DARK")
      PROVE  /\ Calm(r) /\ r.isScreenOn = FALSE
             /\ \/ Stays(u, r)
                \/ r.cur = "DARK" /\ r.scrOffHalfHourCtrl = FALSE /\ ~ charging
  <2>1. CASE Stays(u, r) /\ (r.isEvaluation = TRUE => u.isEvaluation = TRUE \/ u.cur \in PhasedState)
    BY <1>5, <2>1 DEF Stays, World, Calm, PhasedState
  <2>2. CASE r.isEvaluation = FALSE /\ Outcome(u, r, ~ charging)
    BY <1>5, <2>2 DEF Outcome, Stays, Darkens, Settles, Wakes, World, Calm, PhasedState
  <2>3. QED  BY <1>5, <2>1, <2>2 DEF Transits, Outcome, Exits, Maintains, PhasedState
<1>6. CASE e \in WakeEvent
  <2>1. Transits(s1, s2, "WORKING")
    BY <1>1, <1>6 DEF Acts
  <2>2. /\ s1.cur \in {"WORKING", "MAINTENANCE"} => s1.isEvaluation = FALSE
        /\ s1.cur = "WORKING" => s1.scrOffHalfHourCtrl = FALSE
    BY <1>2, <1>3 DEF Calm, PhasedState
  <2>3. /\ World(s1, s2) /\ s2.cur = "WORKING" /\ s2.scrOffHalfHourCtrl = FALSE
        /\ s2.isEvaluation # TRUE
    BY <2>1, <2>2, WorkFromAny
  <2>4. CASE r = s2
    BY <2>3, <2>4 DEF Calm, Keeps
  <2>5. CASE ~ s2.isScreenOn /\ Transits(s2, r, "DARK")
    <3>1. s2.isScreenOn = FALSE
      BY <1>4, <2>3, <2>5 DEF World
    <3>2. /\ Calm(r) /\ r.isScreenOn = FALSE
          /\ \/ Stays(s2, r)
             \/ r.cur = "DARK" /\ r.scrOffHalfHourCtrl = FALSE /\ ~ charging
      BY <1>5, <2>3, <2>5, <3>1
    <3>3. QED  BY <2>3, <3>2 DEF Stays, Keeps
  <2>6. QED  BY <1>1, <2>4, <2>5 DEF r
<1>7. CASE e \notin WakeEvent
  <2>1. s1.isScreenOn = FALSE \/ s1.isScreenOn = s.isScreenOn
    BY <1>1, <1>7 DEF Screens, WakeEvent
  <2>2. e # "SCREEN_OFF" => s1.isScreenOn = s.isScreenOn
    BY <1>1, <1>7 DEF Screens, WakeEvent
  <2>3. Calm(s1)
    BY <1>3, <2>1 DEF Calm
  <2>4. s1.isScreenOn = s.isScreenOn \/ s.isScreenOn = TRUE
    BY <1>2, <2>1
  <2>5. CASE s2 = s1
    <3>1. CASE r = s2
      BY <1>3, <2>3, <2>4, <2>5, <3>1 DEF Keeps
    <3>2. CASE s2.cur = "WORKING" /\ ~ s2.isScreenOn /\ Transits(s2, r, "DARK")
      <4>1. s1.cur = "WORKING" /\ s1.isScreenOn = FALSE /\ s1.scrOffHalfHourCtrl = FALSE
            /\ s1.isEvaluation # TRUE
        BY <1>2, <1>3, <1>4, <2>3, <2>5, <3>2 DEF Calm, PhasedState
      <4>2. /\ Calm(r) /\ r.isScreenOn = FALSE
            /\ \/ Stays(s1, r)
               \/ r.cur = "DARK" /\ r.scrOffHalfHourCtrl = FALSE /\ ~ charging
        BY <1>5, <2>5, <3>2, <4>1
      <4>3. QED  BY <4>1, <4>2 DEF Stays, Keeps
    <3>3. QED  BY <1>1, <3>1, <3>2 DEF r
  <2>6. CASE e # "SCREEN_OFF" /\ Forces(s1, s2)
    <3>1. s2.cur = "SLEEP" /\ r = s2
      BY <1>1, <2>6 DEF Forces
    <3>2. /\ s2.isScreenOn = s.isScreenOn /\ s2.isEvaluation = s.isEvaluation
          /\ s.cur = "SLEEP" => s2.pre = s.pre
          /\ \/ s2.scrOffHalfHourCtrl = s.scrOffHalfHourCtrl
             \/ s.cur # "SLEEP" /\ s2.scrOffHalfHourCtrl = TRUE
      BY <1>3, <2>2, <2>6 DEF Forces, World
    <3>3. Calm(s2)
      BY <3>1, Names DEF Calm
    <3>4. Keeps(s, s2)
      BY <3>1, <3>2 DEF Keeps
    <3>5. QED  BY <3>1, <3>3, <3>4 DEF r
  <2>7. CASE e # "SCREEN_OFF" /\ Restarts(s1, s2)
    <3>1. /\ s2.isScreenOn = s.isScreenOn /\ s2.isEvaluation = s.isEvaluation
          /\ s2.cur = s.cur /\ s2.pre = s.pre
          /\ \/ s2.scrOffHalfHourCtrl = s.scrOffHalfHourCtrl
             \/ s.cur = "SLEEP" /\ s2.scrOffHalfHourCtrl = TRUE
      BY <1>3, <2>2, <2>7 DEF Restarts, World
    <3>2. Calm(s2) /\ Keeps(s, s2)
      BY <3>1 DEF Calm, Keeps
    <3>3. CASE r = s2
      BY <3>2, <3>3 DEF r
    <3>4. CASE s2.cur = "WORKING" /\ ~ s2.isScreenOn /\ Transits(s2, r, "DARK")
      <4>1. s2.cur = "WORKING" /\ s2.isScreenOn = FALSE /\ s2.scrOffHalfHourCtrl = FALSE
            /\ s2.isEvaluation # TRUE
        BY <1>2, <3>1, <3>2, <3>4 DEF Calm, PhasedState
      <4>2. /\ Calm(r) /\ r.isScreenOn = FALSE
            /\ \/ Stays(s2, r)
               \/ r.cur = "DARK" /\ r.scrOffHalfHourCtrl = FALSE /\ ~ charging
        BY <1>5, <3>4, <4>1
      <4>3. QED  BY <4>1, <4>2 DEF Stays, Keeps, r
    <3>5. QED  BY <1>1, <3>3, <3>4
  <2>8. QED  BY <1>1, <1>7, <2>5, <2>6, <2>7 DEF Acts
<1>8. QED  BY <1>6, <1>7

(* A time-out in the state that is current asks for its successor.         *)
LEMMA TimeOutKeeps ==
  ASSUME NEW s, Good(s), Safe(s), Calm(s), s.cur # "WORKING"
  PROVE  LET r == NextStateTimedOut(s, s.cur) IN Calm(r) /\ Keeps(s, r)
<1> DEFINE r == NextStateTimedOut(s, s.cur)
           n == s.next[s.cur]
<1> SUFFICES Calm(r) /\ Keeps(s, r)  OBVIOUS
<1>1. s.cur \in State
  BY FieldTypes
<1>2. PICK s1 : Stays(s, s1) /\ s1.isEvaluation = FALSE /\ Transits(s1, r, n)
  BY <1>1, NextStateTimedOutDoes
<1> HIDE DEF r
<1>3. /\ s1.cur = s.cur /\ s1.pre = s.pre /\ s1.isScreenOn = s.isScreenOn
      /\ s1.scrOffHalfHourCtrl = s.scrOffHalfHourCtrl
  BY <1>2 DEF Stays, World
<1>4. Calm(s1)
  BY <1>2, <1>3 DEF Calm
<1>5. Keeps(s1, r) => Keeps(s, r)
  BY <1>3 DEF Keeps, Opener
<1>6. /\ n # "WORKING" /\ (n = "DARK" => s.cur = "DARK")
      /\ (s.cur = "MAINTENANCE" => n = s.pre)
  BY <1>1 DEF Safe, NextIn, State, PhasedState
<1>7. s.isEvaluation \in BOOLEAN /\ s.scrOffHalfHourCtrl \in BOOLEAN
  BY Flags
<1>8. CASE Stays(s1, r) /\ (r.isEvaluation = TRUE => s1.isEvaluation = TRUE \/ s1.cur \in PhasedState)
  <2>1. r.isEvaluation = TRUE => s1.cur \in PhasedState
    BY <1>2, <1>8
  <2>2. QED  BY <1>4, <1>5, <1>8, <2>1, StaysKeeps DEF r
<1>9. CASE r.isEvaluation = FALSE /\ Outcome(s1, r, n = "DARK" => ~ charging)
  <2>1. CASE Settles(s1, r)
    <3>1. s1.isScreenOn = FALSE /\ r.isScreenOn = FALSE
      BY <1>4, <2>1 DEF Settles, Calm, World
    <3>2. s1.scrOffHalfHourCtrl = FALSE
      BY <1>3, <1>4, <1>7, <2>1 DEF Settles, Calm
    <3>3. r.cur = "NAP" => r.scrOffHalfHourCtrl = FALSE
      BY <2>1, <3>2 DEF Settles
    <3>4. Keeps(s1, r)
      BY <2>1, <3>1, <3>3 DEF Settles, Keeps
    <3>5. Calm(r)
      BY <1>9, <2>1, <3>1, <3>3 DEF Settles, Calm
    <3>6. QED  BY <1>5, <3>4, <3>5 DEF r
  <2>2. CASE Stays(s1, r)
    BY <1>4, <1>5, <1>9, <2>2, StaysKeeps DEF r
  <2>3. CASE Wakes(s1, r)
    BY <1>5, <1>9, <2>3 DEF Wakes, Calm, Keeps, r
  <2>4. ~ Darkens(s1, r)
    BY <1>3 DEF Darkens
  <2>5. QED  BY <1>9, <2>1, <2>2, <2>3, <2>4 DEF Outcome
<1>10. CASE Exits(s1, r, n)
  BY <1>3, <1>6, <1>10 DEF Exits
<1>11. CASE Maintains(s1, r, n)
  <2>1. n \in {"WORKING", s1.pre} \/ s1.cur # "MAINTENANCE"
    BY <1>3, <1>6
  <2>2. CASE n = "MAINTENANCE"
    BY <1>2, <1>4, <1>5, <1>11, <2>2 DEF Maintains, Calm, Keeps, World, PhasedState, r
  <2>3. CASE n \in {"NAP", "SLEEP"} /\ s1.cur = "MAINTENANCE"
    <3>1. Calm(r)
      BY <1>2, <1>4, <1>11, <2>1, <2>3 DEF Maintains, Calm, World
    <3>2. Keeps(s1, r)
      BY <1>11, <2>1, <2>3 DEF Maintains, Keeps, World, PhasedState
    <3>3. QED  BY <1>5, <3>1, <3>2 DEF r
  <2>4. QED  BY <1>6, <1>11, <2>2, <2>3 DEF Maintains
<1>12. QED  BY <1>2, <1>8, <1>9, <1>10, <1>11 DEF Transits
-----------------------------------------------------------------------------
(* The steps of the specification.                                         *)

(* Each task of the handler keeps the promise.                             *)
LEMMA HandlerKeeps ==
  ASSUME SlowTimers, Good(sm), Safe(sm), Calm(sm), Handler
  PROVE  Calm(sm') /\ Keeps(sm, sm')
<1>1. sm.queue # <<>>
  BY DEF Handler, HandleCommonEvent, CheckScreenStatus, TransitNextState, TransitNextPhase,
         StartPeriodlyMotionDetection, MotionDetection, DispatchMessage, Running
<1> DEFINE p == Popped
<1>2. /\ Good(p) /\ Safe(p) /\ HeadTask \in Task /\ HeadTask \in Tasks(sm)
      /\ Belongs(HeadTask, sm.cur)
  BY <1>1, PoppedDoes
<1>3. /\ p.cur = sm.cur /\ p.pre = sm.pre /\ p.isScreenOn = sm.isScreenOn
      /\ p.isEvaluation = sm.isEvaluation /\ p.monitor = sm.monitor
      /\ p.scrOffHalfHourCtrl = sm.scrOffHalfHourCtrl
  BY <1>1, PoppedDoes DEF Same, SameEval
<1> HIDE DEF p
<1>4. Calm(p)
  BY <1>3 DEF Calm
<1>5. ASSUME NEW r, Calm(r) /\ Keeps(p, r) PROVE Calm(r) /\ Keeps(sm, r)
  BY <1>3, <1>5 DEF Keeps, Opener
<1>6. Keeps(p, p)
  BY DEF Keeps
<1>7. ASSUME NEW u, Good(u), Calm(u), u.cur = sm.cur, u.pre = sm.pre,
             u.isScreenOn = sm.isScreenOn, u.scrOffHalfHourCtrl = sm.scrOffHalfHourCtrl,
             sm.cur \in PhasedState, NEW c, Starts(u, sm', c)
      PROVE  Calm(sm') /\ Keeps(sm, sm')
  <2>1. CASE Stays(u, sm')
    <3>1. Calm(sm') /\ Keeps(u, sm')
      BY <1>7, <2>1, StaysKeeps
    <3>2. QED  BY <1>7, <3>1 DEF Keeps, Opener
  <2>2. CASE sm'.isEvaluation = FALSE /\ Outcome(u, sm', c = "charge" => ~ charging)
    <3>1. u.cur # "WORKING"
      BY <1>7 DEF PhasedState
    <3>2. Calm(sm') /\ Keeps(u, sm')
      BY <1>7, <2>2, <3>1, OutcomeKeeps
    <3>3. QED  BY <1>7, <3>2 DEF Keeps, Opener
  <2>3. QED  BY <1>7, <2>1, <2>2 DEF Starts
<1>8. CASE HandleCommonEvent
  <2>1. sm' = CommonEventHandled(p, HeadTask.arg)
    BY <1>8 DEF HandleCommonEvent, p
  <2>2. Calm(sm') /\ Keeps(p, sm')
    BY <1>2, <1>4, <2>1, CommonEventKeeps
  <2>3. QED  BY <1>5, <2>2
<1>9. CASE CheckScreenStatus
  <2>1. HeadTask.name = "CONDITION" /\ sm' = IF sm.isScreenOn THEN p ELSE TransitToState(p, "DARK")
    BY <1>9 DEF CheckScreenStatus, Running, HeadTask, p
  <2>2. p.cur = "WORKING" /\ "DARK" \in State
    BY <1>2, <1>3, <2>1, Names DEF Belongs
  <2>3. CASE sm.isScreenOn
    BY <1>4, <1>5, <1>6, <2>1, <2>3
  <2>4. CASE ~ sm.isScreenOn
    <3>1. Transits(p, sm', "DARK")
      BY <1>2, <2>1, <2>2, <2>4, TransitToStateDoes
    <3>2. Calm(sm') /\ Keeps(p, sm')
      BY <1>2, <1>3, <1>4, <2>2, <2>4, <3>1, DarkFromWork
    <3>3. QED  BY <1>5, <3>2
  <2>5. QED  BY <2>3, <2>4
<1>10. CASE TransitNextState
  <2>1. HeadTask.name = "NEXT_STATE" /\ sm' = NextStateTimedOut(p, HeadTask.owner)
    BY <1>10 DEF TransitNextState, Running, HeadTask, p
  <2>2. HeadTask.owner = p.cur /\ p.cur # "WORKING"
    BY <1>2, <1>3, <2>1 DEF Belongs
  <2>3. Calm(sm') /\ Keeps(p, sm')
    BY <1>2, <1>4, <2>1, <2>2, TimeOutKeeps
  <2>4. QED  BY <1>5, <2>3
<1>11. CASE TransitNextPhase
  <2> DEFINE a == AcquireStandbyRunningLock(p)
             u == IF HeadTask.arg = "acquire" THEN a ELSE p
             st == HeadTask.owner
  <2>1. Good(a) /\ Same(p, a) /\ Tasks(a) = Tasks(p)
    BY <1>2, LockGood, LockDoes
  <2>2. HeadTask.name = "NEXT_PHASE" /\ sm' = StartEvalCurrentState(u, st, u.phase[st], st, FALSE)
    BY <1>11 DEF TransitNextPhase, TransitToPhase, Running, HeadTask, p
  <2> HIDE DEF a
  <2>3. Safe(a)
    BY <1>2, <2>1, SameSafe DEF Same, OnlyMessages
  <2>4. Good(u) /\ Safe(u)
    BY <1>2, <2>1, <2>3
  <2>5. /\ u.cur = sm.cur /\ u.pre = sm.pre /\ u.isScreenOn = sm.isScreenOn
        /\ u.isEvaluation = sm.isEvaluation /\ u.scrOffHalfHourCtrl = sm.scrOffHalfHourCtrl
    BY <1>3, <2>1 DEF Same, SameEval
  <2> HIDE DEF u
  <2>6. Starts(u, sm', ConstraintOf(st, u.phase[st], st, FALSE))
    BY <2>2, <2>4, StartEvalCurrentStateDoes
  <2>7. Calm(u)
    BY <2>5 DEF Calm
  <2>8. sm.cur \in PhasedState
    BY <1>2, <2>2 DEF Belongs
  <2>9. QED  BY <1>7, <2>4, <2>5, <2>6, <2>7, <2>8
<1>12. CASE StartPeriodlyMotionDetection
  <2> DEFINE u == [p EXCEPT !.isRepeatedDetection = TRUE]
  <2>1. Good(u) /\ Same(p, u) /\ Tasks(u) = Tasks(p)
    BY <1>2, SetFlag, SameFields
  <2>2. /\ HeadTask.name = "REPEATED"
        /\ sm' = StartEvalCurrentState(u, "SLEEP", p.phase["SLEEP"], "SLEEP", TRUE)
    BY <1>12 DEF StartPeriodlyMotionDetection, PeriodlyMotionDetected, Running, HeadTask, p
  <2> HIDE DEF u
  <2>3. Safe(u)
    BY <1>2, <2>1, SameSafe DEF Same, OnlyMessages
  <2>4. /\ u.cur = sm.cur /\ u.pre = sm.pre /\ u.isScreenOn = sm.isScreenOn
        /\ u.isEvaluation = sm.isEvaluation /\ u.scrOffHalfHourCtrl = sm.scrOffHalfHourCtrl
    BY <1>3, <2>1 DEF Same, SameEval
  <2>5. Starts(u, sm', ConstraintOf("SLEEP", p.phase["SLEEP"], "SLEEP", TRUE))
    BY <2>1, <2>2, <2>3, StartEvalCurrentStateDoes
  <2>6. Calm(u)
    BY <2>4 DEF Calm
  <2>7. sm.cur \in PhasedState
    BY <1>2, <2>2 DEF Belongs, PhasedState
  <2>8. QED  BY <1>7, <2>1, <2>4, <2>5, <2>6, <2>7
<1>13. CASE MotionDetection
  <2>1. HeadTask.name = "MOTION" /\ sm' = MotionStepDone(p, HeadTask.arg)
    BY <1>13 DEF MotionDetection, Running, HeadTask, p
  <2>2. HeadTask.arg \in MotionStep
    BY <1>2, <2>1 DEF Task
  <2>3. HeadTask.arg # "moved" => sm.isEvaluation /\ sm.monitor = "motion"
    BY <1>2, <2>1 DEF Safe, SensorsIn, Detects
  <2>4. sm.isEvaluation \in BOOLEAN
    BY Flags
  <2>5. HeadTask.arg # "moved" => p.isEvaluation = TRUE /\ p.monitor = "motion"
    BY <1>3, <2>3, <2>4
  <2>6. \/ Stays(p, sm') /\ (sm'.isEvaluation = TRUE => p.isEvaluation = TRUE)
        \/ sm'.isEvaluation = FALSE /\ Outcome(p, sm', p.isEvaluation = TRUE)
    BY <1>2, <2>1, <2>2, <2>5, MotionStepDoneDoes
  <2>7. p.isEvaluation = TRUE => p.cur \in PhasedState
    BY <1>4 DEF Calm
  <2>8. p.cur = "WORKING" => ~ (p.isEvaluation = TRUE)
    BY <2>7 DEF PhasedState
  <2>9. CASE Stays(p, sm') /\ (sm'.isEvaluation = TRUE => p.isEvaluation = TRUE)
    BY <1>4, <1>5, <2>7, <2>9, StaysKeeps
  <2>10. CASE sm'.isEvaluation = FALSE /\ Outcome(p, sm', p.isEvaluation = TRUE)
    <3>1. Calm(sm') /\ Keeps(p, sm')
      BY <1>2, <1>4, <2>8, <2>10, OutcomeKeeps
    <3>2. QED  BY <1>5, <3>1
  <2>11. QED  BY <2>6, <2>9, <2>10
<1>14. CASE DispatchMessage
  <2>1. sm' = p
    BY <1>14 DEF DispatchMessage, p
  <2>2. QED  BY <1>4, <1>5, <1>6, <2>1
<1>15. QED
  BY <1>8, <1>9, <1>10, <1>11, <1>12, <1>13, <1>14 DEF Handler

(* The handler leaves the charger alone; the other threads keep the state, *)
(* and when the charger changes they keep the restriction, too.            *)
LEMMA OthersKeep ==
  ASSUME Good(sm), Safe(sm), CallbacksIn(sm), Calm(sm), Others
  PROVE  /\ Calm(sm') /\ Observes(sm, sm')
         /\ charging' = charging \/ sm'.scrOffHalfHourCtrl = sm.scrOffHalfHourCtrl
<1>1. Observes(sm, sm')
  BY OthersSafe
<1>2. Calm(sm')
  BY <1>1 DEF Observes, Calm
<1>3. CASE ChargingChanges
  <2>1. \E e : sm' = PostTask(sm, "EVENT", "WORKING", e)
    BY <1>3 DEF ChargingChanges, PostEvent
  <2>2. Same(sm, sm')
    BY <2>1, PostTaskDoes
  <2>3. QED  BY <1>1, <1>2, <2>2 DEF Same
<1>4. CASE ~ ChargingChanges
  <2>1. charging' = charging
    BY <1>4 DEF Others, Environment, ScreenChanges, OtherEventArrives, SensorServiceChanges,
         HalfHourElapses, SensorReports, TimerExpires, TimerCallback, SensorCallback,
         MotionTaskDue
  <2>2. QED  BY <1>1, <1>2, <2>1
<1>5. QED  BY <1>3, <1>4

(* A step that keeps the promise is a step of StandbyPromise.              *)
LEMMA KeepsIsNext ==
  ASSUME Good(sm), Safe(sm), (Good(sm) /\ Safe(sm))', Keeps(sm, sm'), charging' = charging
  PROVE  Promise!Next
<1> DEFINE op == IF sm.cur = "MAINTENANCE" THEN sm.next["MAINTENANCE"] ELSE "none"
<1>1. op = Opener(sm) /\ op' = Opener(sm)' /\ Opener(sm)' = Opener(sm')
  BY DEF Safe, NextIn, Opener
<1>2. /\ sm.scrOffHalfHourCtrl \in BOOLEAN /\ sm.isScreenOn \in BOOLEAN
      /\ sm'.scrOffHalfHourCtrl \in BOOLEAN /\ sm'.isScreenOn \in BOOLEAN
  BY Flags
<1> HIDE DEF op
<1>3. CASE sm'.cur = "WORKING" /\ sm'.scrOffHalfHourCtrl = FALSE
  <2>1. op' = "none"
    BY <1>1, <1>3 DEF Opener
  <2>2. Promise!Wake
    BY <1>2, <1>3, <2>1 DEF Promise!Wake, op
  <2>3. QED  BY <2>2 DEF Promise!Next
<1>4. CASE /\ sm'.isScreenOn = FALSE /\ ~ charging /\ sm'.cur = "DARK"
           /\ sm'.scrOffHalfHourCtrl = FALSE
  <2>1. op' = "none"
    BY <1>1, <1>4 DEF Opener
  <2>2. Promise!GoDark
    BY <1>4, <2>1 DEF Promise!GoDark, op
  <2>3. QED  BY <2>2 DEF Promise!Next
<1>5. CASE /\ sm.isScreenOn = FALSE /\ sm'.isScreenOn = FALSE /\ sm.cur \in {"DARK", "NAP"}
           /\ sm'.cur \in {"NAP", "SLEEP"} \ {sm.cur}
           /\ sm'.cur = "NAP" => sm'.scrOffHalfHourCtrl = FALSE
  <2>1. op = "none" /\ op' = "none"
    BY <1>1, <1>5 DEF Opener
  <2>2. sm'.scrOffHalfHourCtrl \in (IF sm'.cur = "SLEEP" THEN BOOLEAN ELSE {FALSE})
    BY <1>2, <1>5
  <2>3. Promise!Settle
    BY <1>5, <2>1, <2>2 DEF Promise!Settle, op
  <2>4. QED  BY <2>3 DEF Promise!Next
<1>6. CASE /\ sm.cur \in PhasedState /\ sm'.cur = "MAINTENANCE" /\ sm'.pre = sm.cur
           /\ sm'.isScreenOn = sm.isScreenOn /\ sm'.scrOffHalfHourCtrl = sm.scrOffHalfHourCtrl
  <2>1. op' = sm.cur
    BY <1>1, <1>6 DEF Opener
  <2>2. Promise!OpenMaintenance
    BY <1>6, <2>1 DEF Promise!OpenMaintenance, op, PhasedState
  <2>3. QED  BY <2>2 DEF Promise!Next
<1>7. CASE /\ sm.cur = "MAINTENANCE" /\ sm'.cur = sm.pre /\ sm'.cur \in PhasedState
           /\ sm'.isScreenOn = sm.isScreenOn /\ sm'.scrOffHalfHourCtrl = sm.scrOffHalfHourCtrl
  <2>1. op = sm.pre /\ op' = "none"
    BY <1>1, <1>7 DEF Opener, PhasedState
  <2>2. Promise!CloseMaintenance
    BY <1>7, <2>1 DEF Promise!CloseMaintenance, op
  <2>3. QED  BY <2>2 DEF Promise!Next
<1>8. CASE /\ sm.cur # "SLEEP" /\ sm'.cur = "SLEEP" /\ sm'.isScreenOn = sm.isScreenOn
           /\ sm'.scrOffHalfHourCtrl \in {sm.scrOffHalfHourCtrl, TRUE}
  <2>1. op' = "none"
    BY <1>1, <1>8 DEF Opener
  <2>2. Promise!ForceSleep
    BY <1>8, <2>1 DEF Promise!ForceSleep, op
  <2>3. QED  BY <2>2 DEF Promise!Next
<1>9. CASE /\ "SLEEP" \in {sm.cur, Opener(sm)} /\ sm'.scrOffHalfHourCtrl = TRUE
           /\ sm'.cur = sm.cur /\ sm'.pre = sm.pre /\ sm'.isScreenOn = sm.isScreenOn
  <2>1. op' = op /\ "SLEEP" \in {sm.cur, op}
    BY <1>1, <1>9 DEF Opener
  <2>2. Promise!Restrict
    BY <1>9, <2>1 DEF Promise!Restrict, op
  <2>3. QED  BY <2>2 DEF Promise!Next
<1>10. CASE /\ sm'.isScreenOn = sm.isScreenOn \/ sm.isScreenOn = TRUE \/ sm.cur = "WORKING"
            /\ sm'.cur = sm.cur /\ sm'.pre = sm.pre
            /\ sm'.scrOffHalfHourCtrl = sm.scrOffHalfHourCtrl
  <2>1. op' = op
    BY <1>1, <1>10 DEF Opener
  <2>2. sm'.isScreenOn # sm.isScreenOn => sm.isScreenOn \/ sm.cur = "WORKING"
    BY <1>10
  <2>3. Promise!ScreenOrCharger
    BY <1>10, <2>1, <2>2 DEF Promise!ScreenOrCharger, op
  <2>4. QED  BY <2>3 DEF Promise!Next
<1>11. QED
  BY <1>3, <1>4, <1>5, <1>6, <1>7, <1>8, <1>9, <1>10 DEF Keeps

(* A step of the other threads is one of StandbyPromise, too.              *)
LEMMA ObservesIsNext ==
  ASSUME Good(sm), Safe(sm), (Good(sm) /\ Safe(sm))', Observes(sm, sm'),
         charging' = charging \/ sm'.scrOffHalfHourCtrl = sm.scrOffHalfHourCtrl
  PROVE  Promise!Next
<1> DEFINE op == IF sm.cur = "MAINTENANCE" THEN sm.next["MAINTENANCE"] ELSE "none"
<1>1. op' = op
  BY DEF Safe, NextIn, Observes
<1>2. CASE sm'.scrOffHalfHourCtrl = sm.scrOffHalfHourCtrl
  <2>1. Promise!ScreenOrCharger
    BY <1>1, <1>2 DEF Observes, Promise!ScreenOrCharger
  <2>2. QED  BY <2>1 DEF Promise!Next
<1>3. CASE sm'.scrOffHalfHourCtrl # sm.scrOffHalfHourCtrl
  <2>1. charging' = charging /\ Keeps(sm, sm')
    BY <1>3 DEF Observes, Keeps, Opener
  <2>2. QED  BY <2>1, KeepsIsNext
<1>4. QED  BY <1>2, <1>3

-----------------------------------------------------------------------------
(* The refinement.                                                         *)

(* The state machine starts calm, in an initial state of the promise.      *)
LEMMA InitCalm == Init => Calm(sm) /\ Promise!Init
<1> SUFFICES ASSUME Init PROVE Calm(sm) /\ Promise!Init
  OBVIOUS
<1>1. /\ sm.cur = "WORKING" /\ sm.isEvaluation = FALSE /\ sm.scrOffHalfHourCtrl = FALSE
      /\ sm.isScreenOn = screenOn /\ screenOn \in BOOLEAN /\ charging \in BOOLEAN
  BY DEF Init, InitialState
<1>2. QED  BY <1>1 DEF Calm, Promise!Init

(* Every step keeps it calm, and is a step or a stutter of the promise.    *)
LEMMA NextCalm ==
  SlowTimers /\ Inv /\ Inv' /\ Calm(sm) /\ [Next]_vars
    => Calm(sm)' /\ [Promise!Next]_(Promise!vars)
<1> SUFFICES ASSUME SlowTimers, Inv, Inv', Calm(sm), [Next]_vars
             PROVE  Calm(sm)' /\ [Promise!Next]_(Promise!vars)
  OBVIOUS
<1>1. Good(sm) /\ Safe(sm) /\ CallbacksIn(sm) /\ (Good(sm) /\ Safe(sm))'
  BY DEF Inv
<1>2. CASE Handler
  <2>1. Calm(sm') /\ Keeps(sm, sm')
    BY <1>1, <1>2, HandlerKeeps
  <2>2. charging' = charging
    BY <1>2 DEF Handler, HandleCommonEvent, CheckScreenStatus, TransitNextState,
         TransitNextPhase, StartPeriodlyMotionDetection, MotionDetection, DispatchMessage
  <2>3. Promise!Next
    BY <1>1, <2>1, <2>2, KeepsIsNext
  <2>4. QED  BY <2>1, <2>3 DEF Calm
<1>3. CASE Others
  <2>1. /\ Calm(sm') /\ Observes(sm, sm')
        /\ charging' = charging \/ sm'.scrOffHalfHourCtrl = sm.scrOffHalfHourCtrl
    BY <1>1, <1>3, OthersKeep
  <2>2. Promise!Next
    BY <1>1, <2>1, ObservesIsNext
  <2>3. QED  BY <2>1, <2>2 DEF Calm
<1>4. CASE UNCHANGED vars
  BY <1>4 DEF vars, Calm, Promise!vars
<1>5. QED  BY <1>2, <1>3, <1>4 DEF Next, Others

(* Under SlowTimers (no callback outlives the state that armed its timer)  *)
(* the state machine implements StandbyPromise: the device goes dark only  *)
(* without screen and charger, a window returns to the state that opened   *)
(* it, and the half-hour restriction applies only in sleep.                *)
THEOREM KeepsPromiseHolds == ASSUME SlowTimers PROVE Spec => KeepsPromise
<1>1. Init => Calm(sm) /\ Promise!Init
  BY InitCalm
<1>2. Inv /\ Inv' /\ Calm(sm) /\ [Next]_vars => Calm(sm)' /\ [Promise!Next]_(Promise!vars)
  BY NextCalm
<1>3. QED  BY <1>1, <1>2, InvHolds, PTL DEF Spec, KeepsPromise, Promise!Spec

-----------------------------------------------------------------------------
(* The running lock and the chains of phase tasks.                         *)

(* The places of the phase tasks in the queue,                             *)
PhaseTasks(s) == {i \in DOMAIN s.queue : s.queue[i].name = "NEXT_PHASE"}

(* and of those among them that take the lock.                             *)
Acquires(s) == {i \in PhaseTasks(s) : s.queue[i].arg = "acquire"}

(* Phases are to come, or a sleep that was forced on an evaluating nap     *)
(* waits for the end of that evaluation.                                   *)
Busy(s) ==
  \/ PhaseTasks(s) # {}
  \/ s.isEvaluation = TRUE /\ s.cur = "SLEEP" /\ s.phase["SLEEP"] < EndPhase

(* Nap has one phase task exactly while it has phases left, and is not     *)
(* evaluated until they are through.  Sleep may have several: when it is   *)
(* forced on an evaluating nap, the end of that evaluation goes a phase    *)
(* on too.  But the task that takes the lock comes first of them, and      *)
(* there are phases left when it runs.  While a state is busy it does not  *)
(* time out, and motion is detected again only in a sleep that is through  *)
(* its phases.                                                             *)
NapChain(s) ==
  /\ s.cur = "NAP" => /\ \E i : PhaseTasks(s) \subseteq {i}
                      /\ PhaseTasks(s) = {} <=> s.phase["NAP"] = EndPhase
                      /\ PhaseTasks(s) # {} => s.isEvaluation = FALSE
  /\ s.cur = "MAINTENANCE" /\ s.pre = "NAP" => s.phase["NAP"] = EndPhase

SleepChain(s) ==
  /\ \A i \in Acquires(s), j \in PhaseTasks(s) : i <= j
  /\ s.cur = "SLEEP" /\ Acquires(s) # {} =>
       s.phase["SLEEP"] = 0 \/ (s.phase["SLEEP"] = 1 /\ s.isEvaluation = FALSE)
  /\ \/ "REPEATED" \in s.armed \cup s.inflight
     \/ \E t \in Tasks(s) : t.name = "REPEATED"
     => s.phase["SLEEP"] = EndPhase

Chain(s) ==
  /\ NapChain(s) /\ SleepChain(s)
  /\ Busy(s) => /\ s.inflight \cap (StateTimer \cup {"REPEATED"}) = {}
                /\ \A t \in Tasks(s) : t.name \notin {"NEXT_STATE", "REPEATED"}

(* The timer of dark or nap runs, and the motion that ends nap is awaited, *)
(* only if there is another state to go to.                                *)
Leads(s) ==
  /\ \A st \in {"DARK", "NAP"} :
       \/ st \in s.armed \cup s.inflight
       \/ \E t \in Tasks(s) : t.name = "NEXT_STATE" /\ t.owner = st
       => s.next[st] # st
  /\ s.isEvaluation = TRUE /\ s.cur = "NAP" => s.next["NAP"] # "NAP"

(* The event that begins a sleep anew.                                     *)
NoRestarts(s) == \A t \in Tasks(s) : t.name = "EVENT" => t.arg # "USER_AWAKE"

Linked(s) == Chain(s) /\ Leads(s) /\ NoRestarts(s)

(* The lock is held while nap or sleep waits for the motion sensors, or    *)
(* until the last phase task has run, and in sleep while phases are left.  *)
Releases(s) ==
  s.lock = TRUE =>
    /\ (s.isEvaluation = TRUE /\ s.cur \in PhasedState) \/ PhaseTasks(s) # {}
    /\ s.cur = "SLEEP" => s.phase["SLEEP"] < EndPhase

(* The phases and the phase tasks are as before,                           *)
SamePhases(s, r) ==
  r.phase = s.phase /\ PhaseTasks(r) = PhaseTasks(s) /\ Acquires(r) = Acquires(s)

(* and so is the lock.                                                     *)
SameChain(s, r) == SamePhases(s, r) /\ r.lock = s.lock

(* The tasks that matter to the chain.                                     *)
NoNewTasks(s, r) ==
  \A t \in Tasks(r) : t.name \in {"NEXT_STATE", "REPEATED", "EVENT"} => t \in Tasks(s)

(* The state machine stays where it is, and the chain is as it was.        *)
Idles(s, r) ==
  /\ SamePhases(s, r) /\ NoNewTasks(s, r) /\ NextKept(s, r)
  /\ r.cur = s.cur /\ r.pre = s.pre /\ r.inflight = s.inflight
  /\ \A st \in {"DARK", "NAP"} : st \in r.armed => st \in s.armed \/ r.next[st] # st
  /\ "REPEATED" \in r.armed => "REPEATED" \in s.armed

(* It goes from s.cur to n: the lock is released, and a chain begins       *)
(* unless nap or sleep comes back from maintenance.                        *)
Enters(s, r, n) ==
  /\ Moves(s, r, n)
  /\ r.lock = FALSE
  /\ IF n \in PhasedState /\ s.cur # "MAINTENANCE"
     THEN r.phase[n] = 0 /\ \E i : PhaseTasks(r) = {i}
     ELSE r.phase = s.phase /\ PhaseTasks(r) = {}
  /\ \A st \in {"DARK", "NAP"} : st \in r.armed => r.next[st] # st
  /\ "REPEATED" \notin r.armed

(* Nap's phase task has been taken from the queue, its phase is to come.   *)
Waits(s) ==
  /\ s.cur = "NAP" /\ s.phase["NAP"] < EndPhase /\ PhaseTasks(s) = {}
  /\ s.isEvaluation = FALSE
  /\ \A t \in Tasks(s) : t.name \notin {"NEXT_STATE", "REPEATED"}
  /\ "REPEATED" \notin s.armed
  /\ Leads(s) /\ NoRestarts(s)

(* Assignments to the other fields,                                        *)
LEMMA OtherFieldsChain ==
  ASSUME NEW s, Good(s), NEW v
  PROVE  /\ SameChain(s, [s EXCEPT !.cur = v]) /\ SameChain(s, [s EXCEPT !.pre = v])
         /\ SameChain(s, [s EXCEPT !.isBlocked = v])
         /\ SameChain(s, [s EXCEPT !.isRepeatedDetection = v])
         /\ SameChain(s, [s EXCEPT !.scrOffHalfHourCtrl = v])
         /\ SameChain(s, [s EXCEPT !.isEvalution = v])
         /\ SameChain(s, [s EXCEPT !.isEvaluation = v])
         /\ SameChain(s, [s EXCEPT !.monitor = v])
         /\ SameChain(s, [s EXCEPT !.sensorOn = v])
         /\ SameChain(s, [s EXCEPT !.delayed = v])
         /\ SameChain(s, [s EXCEPT !.isScreenOn = v])
         /\ SameChain(s, [s EXCEPT !.offLong = v])
         /\ SameChain(s, [s EXCEPT !.armed = v])
         /\ SameChain(s, [s EXCEPT !.inflight = v])
         /\ \A st : SameChain(s, [s EXCEPT !.index[st] = v])
BY DEF Good, SMType, SameChain, SamePhases, PhaseTasks, Acquires

(* and of the successor of a state.                                        *)
LEMMA NextChain ==
  ASSUME NEW s, Good(s), NEW st, NEW v
  PROVE  SameChain(s, [s EXCEPT !.next[st] = v])
BY DEF Good, SMType, SameChain, SamePhases, PhaseTasks, Acquires

(* Timers and the block leave the chain alone; so does the lock but for    *)
(* itself.                                                                 *)
LEMMA SmallCallsChain ==
  ASSUME NEW s, Good(s)
  PROVE  /\ \A t : SameChain(s, StartTimer(s, t)) /\ SameChain(s, StopTimer(s, t))
         /\ SameChain(s, UnblockCurrentState(s))
         /\ LET r == AcquireStandbyRunningLock(s) IN SamePhases(s, r) /\ r.lock = TRUE
         /\ LET r == ReleaseStandbyRunningLock(s) IN SamePhases(s, r) /\ r.lock = FALSE
<1>1. \A t : SameChain(s, StartTimer(s, t)) /\ SameChain(s, StopTimer(s, t))
  BY OtherFieldsChain DEF StartTimer, StopTimer
<1>2. SameChain(s, UnblockCurrentState(s))
  BY OtherFieldsChain DEF UnblockCurrentState
<1>3. /\ LET r == AcquireStandbyRunningLock(s) IN SamePhases(s, r) /\ r.lock = TRUE
      /\ LET r == ReleaseStandbyRunningLock(s) IN SamePhases(s, r) /\ r.lock = FALSE
  BY DEF Good, SMType, SamePhases, PhaseTasks, Acquires, AcquireStandbyRunningLock, ReleaseStandbyRunningLock
<1>4. QED  BY <1>1, <1>2, <1>3

(* A posted task is appended: a phase task extends the chain.              *)
LEMMA PostTaskChain ==
  ASSUME NEW s, Good(s), NEW n, NEW o, NEW a
  PROVE  LET r == PostTask(s, n, o, a)
         IN  /\ r.lock = s.lock /\ r.phase = s.phase
             /\ PhaseTasks(r) = IF n = "NEXT_PHASE" THEN PhaseTasks(s) \cup {Len(s.queue) + 1}
                                ELSE PhaseTasks(s)
             /\ n # "NEXT_PHASE" \/ a # "acquire" => Acquires(r) = Acquires(s)
             /\ \A i \in PhaseTasks(s) : i <= Len(s.queue) + 1
<1> DEFINE q == s.queue
           x == TaskOf(n, o, a)
           r == PostTask(s, n, o, a)
           f == Append(q, x)
           p == {i \in DOMAIN q : q[i].name = "NEXT_PHASE"}
           b == {i \in DOMAIN q : q[i].name = "NEXT_PHASE" /\ q[i].arg = "acquire"}
<1>1. q \in Seq(Task)
  BY FieldTypes
<1>2. r.lock = s.lock /\ r.phase = s.phase /\ r.queue = f
  BY DEF Good, SMType, PostTask
<1>3. x.name = n /\ x.arg = a
  BY DEF TaskOf
<1> HIDE DEF q, r, x
<1>4. /\ DOMAIN f = 1..(Len(q) + 1) /\ DOMAIN q = 1..Len(q) /\ Len(q) \in Nat
      /\ \A i \in 1..Len(q) : f[i] = q[i]
      /\ f[Len(q) + 1] = x
  BY <1>1
<1> HIDE DEF f
<1>5. {i \in DOMAIN f : f[i].name = "NEXT_PHASE"} = IF n = "NEXT_PHASE" THEN p \cup {Len(q) + 1} ELSE p
  <2>1. CASE n = "NEXT_PHASE"
    BY <1>3, <1>4, <2>1
  <2>2. CASE n # "NEXT_PHASE"
    BY <1>3, <1>4, <2>2
  <2>3. QED  BY <2>1, <2>2
<1>6. PhaseTasks(r) = IF n = "NEXT_PHASE" THEN p \cup {Len(q) + 1} ELSE p
  BY <1>2, <1>5 DEF PhaseTasks
<1>7. PhaseTasks(s) = p
  BY DEF PhaseTasks, q
<1>8. \A i \in p : i <= Len(q) + 1
  BY <1>4
<1>9. n # "NEXT_PHASE" \/ a # "acquire" =>
        {i \in DOMAIN f : f[i].name = "NEXT_PHASE" /\ f[i].arg = "acquire"} = b
  BY <1>3, <1>4
<1>10. /\ Acquires(s) = b
       /\ Acquires(r) = {i \in DOMAIN f : f[i].name = "NEXT_PHASE" /\ f[i].arg = "acquire"}
  BY <1>2 DEF PhaseTasks, Acquires, q
<1> HIDE DEF p, b
<1>11. QED  BY <1>2, <1>6, <1>7, <1>8, <1>9, <1>10 DEF r, q

(* The next phase task comes after the others.                             *)
LEMMA PostPhaseChain ==
  ASSUME NEW s, Good(s), NEW o \in State, NEW a \in {"acquire", "none"}
  PROVE  LET r == PostTask(s, "NEXT_PHASE", o, a)
         IN  /\ Good(r) /\ r.lock = s.lock /\ r.phase = s.phase
             /\ \E i : /\ PhaseTasks(r) = PhaseTasks(s) \cup {i}
                       /\ \A j \in PhaseTasks(s) : j <= i
             /\ a = "none" => Acquires(r) = Acquires(s)
<1> DEFINE r == PostTask(s, "NEXT_PHASE", o, a)
           k == Len(s.queue) + 1
<1>1. Good(r)
  BY PostTaskGood, Names
<1>2. /\ r.lock = s.lock /\ r.phase = s.phase /\ PhaseTasks(r) = PhaseTasks(s) \cup {k}
      /\ a # "acquire" => Acquires(r) = Acquires(s)
      /\ \A i \in PhaseTasks(s) : i <= k
  BY PostTaskChain
<1> HIDE DEF r, k
<1>3. QED  BY <1>1, <1>2 DEF r

(* Removed tasks leave their places: no phase task moves.                  *)
LEMMA RemoveTaskChain ==
  ASSUME NEW s, Good(s), NEW n
  PROVE  LET r == RemoveTask(s, n)
         IN  /\ r.lock = s.lock /\ r.phase = s.phase
             /\ PhaseTasks(r) = IF n = "NEXT_PHASE" THEN {} ELSE PhaseTasks(s)
             /\ n # "NEXT_PHASE" => Acquires(r) = Acquires(s)
<1> DEFINE q == s.queue
           v == [i \in DOMAIN q |-> IF q[i].name = n THEN Removed ELSE q[i]]
           r == RemoveTask(s, n)
<1>1. r.lock = s.lock /\ r.phase = s.phase /\ r.queue = v
  BY DEF Good, SMType, RemoveTask
<1>2. DOMAIN v = DOMAIN q
  OBVIOUS
<1>3. Removed.name # "NEXT_PHASE"
  BY DEF Removed, TaskOf
<1>4. \A i \in DOMAIN q : v[i].name = "NEXT_PHASE" <=> q[i].name = "NEXT_PHASE" /\ n # "NEXT_PHASE"
  BY <1>3
<1>5. \A i \in DOMAIN q : v[i].name = "NEXT_PHASE" => v[i] = q[i]
  BY <1>3
<1> HIDE DEF v, r
<1>6. PhaseTasks(r) = IF n = "NEXT_PHASE" THEN {} ELSE PhaseTasks(s)
  BY <1>1, <1>2, <1>4 DEF PhaseTasks
<1>7. n # "NEXT_PHASE" => Acquires(r) = Acquires(s)
  BY <1>1, <1>4, <1>5, <1>6 DEF PhaseTasks, Acquires
<1>8. QED  BY <1>1, <1>6, <1>7 DEF r

(* The half-hour control posts a message at most.                          *)
LEMMA HalfHourChain ==
  ASSUME NEW s, Good(s), NEW ctrl \in BOOLEAN
  PROVE  SameChain(s, OnScreenOffHalfHourInner(s, ctrl))
<1> DEFINE u == [s EXCEPT !.scrOffHalfHourCtrl = ctrl]
           a == IF ctrl THEN "on" ELSE "off"
           w == PostTask(u, "SCREEN_OFF_HALF_HOUR", s.cur, a)
<1>1. Good(u) /\ SameChain(s, u)
  BY ZenonT(60), SetFlag, OtherFieldsChain
<1>2. OnScreenOffHalfHourInner(s, ctrl) = s \/ OnScreenOffHalfHourInner(s, ctrl) = w
  BY DEF OnScreenOffHalfHourInner
<1> HIDE DEF u, a
<1>3. SameChain(u, w)
  BY <1>1, PostTaskChain DEF SameChain, SamePhases
<1> HIDE DEF w
<1>4. QED  BY <1>1, <1>2, <1>3 DEF SameChain, SamePhases

(* Phase tasks are queued in nap and sleep alone.                          *)
LEMMA NoPhaseTasks ==
  ASSUME NEW s, Safe(s), s.cur \notin PhasedState
  PROVE  PhaseTasks(s) = {}
BY DEF Safe, TasksIn, Belongs, Tasks, PhaseTasks, Acquires

(* Calls that change neither the state nor its timers are idle.            *)
LEMMA SameIdles ==
  ASSUME NEW s, NEW r, SameEval(s, r), OnlyMessages(s, r), SamePhases(s, r),
         r.cur = s.cur, r.pre = s.pre, r.next = s.next, r.armed \subseteq s.armed
  PROVE  Idles(s, r)
<1>1. NoNewTasks(s, r)
  BY DEF OnlyMessages, Message, NoNewTasks
<1>2. QED  BY <1>1 DEF SameEval, Idles, NextKept

(* So is the end of an evaluation.                                         *)
LEMMA StopsIdles ==
  ASSUME NEW s, NEW r, Stops(s, r), SamePhases(s, r)
  PROVE  Idles(s, r)
<1>1. NoNewTasks(s, r)
  BY DEF Stops, Removed, TaskOf, NoNewTasks
<1>2. QED  BY <1>1 DEF Stops, Idles, NextKept

(* What is idle stays idle.                                                *)
LEMMA IdlesTwice ==
  ASSUME NEW s, NEW u, NEW r, Idles(s, u), Idles(u, r)
  PROVE  Idles(s, r)
<1>1. NoNewTasks(s, r) /\ SamePhases(s, r)
  BY DEF Idles, NoNewTasks, SamePhases
<1>2. NextKept(s, r)
  BY DEF Idles, NextKept
<1>3. ASSUME NEW st \in {"DARK", "NAP"}, st \in r.armed PROVE st \in s.armed \/ r.next[st] # st
  BY <1>3 DEF Idles, NextKept
<1>4. QED  BY <1>1, <1>2, <1>3 DEF Idles

(* An idle call keeps the chain linked, unless an evaluation begins in     *)
(* the middle of it.                                                       *)
LEMMA IdlesLinked ==
  ASSUME NEW s, NEW r, Linked(s), Idles(s, r),
         \/ r.isEvaluation = TRUE => s.isEvaluation = TRUE
         \/ /\ PhaseTasks(s) = {} /\ (s.cur = "NAP" => s.next["NAP"] # "NAP")
            /\ s.cur = "SLEEP" => s.phase["SLEEP"] = EndPhase,
         r.isEvaluation \in BOOLEAN
  PROVE  Linked(r)
<1>1. PhaseTasks(r) = PhaseTasks(s) /\ Acquires(r) = Acquires(s) /\ r.phase = s.phase
      /\ r.inflight = s.inflight /\ r.cur = s.cur /\ r.pre = s.pre
  BY DEF Idles, SamePhases
<1>2. \A t \in Tasks(r) : t.name \in {"NEXT_STATE", "REPEATED"} => t \in Tasks(s)
  BY DEF Idles, NoNewTasks
<1>3. NapChain(r)
  BY <1>1 DEF Linked, Chain, NapChain
<1>4. Acquires(s) \subseteq PhaseTasks(s)
  BY DEF Acquires
<1>5. SleepChain(r)
  <2>1. \A i \in Acquires(r), j \in PhaseTasks(r) : i <= j
    BY <1>1 DEF Linked, Chain, SleepChain
  <2>2. ASSUME r.cur = "SLEEP", Acquires(r) # {}
        PROVE  r.phase["SLEEP"] = 0 \/ (r.phase["SLEEP"] = 1 /\ r.isEvaluation = FALSE)
    BY <1>1, <1>4, <2>2 DEF Linked, Chain, SleepChain
  <2>3. ASSUME "REPEATED" \in r.armed \cup r.inflight
               \/ \E t \in Tasks(r) : t.name = "REPEATED"
        PROVE  r.phase["SLEEP"] = EndPhase
    BY <1>1, <1>2, <2>3 DEF Linked, Chain, SleepChain, Idles
  <2>4. QED  BY <2>1, <2>2, <2>3 DEF SleepChain
<1>6. Busy(r) => Busy(s)
  <2>1. EndPhase \in Nat /\ ~ (EndPhase < EndPhase)
    BY DEF EndPhase
  <2>2. QED  BY <1>1, <2>1 DEF Busy
<1>7. Chain(r)
  BY <1>1, <1>2, <1>3, <1>5, <1>6 DEF Linked, Chain
<1>8. \A st \in {"DARK", "NAP"} : s.next[st] # st => r.next[st] # st
  BY DEF Idles, NextKept
<1>9. Leads(r)
  <2>1. ASSUME NEW st \in {"DARK", "NAP"},
               \/ st \in r.armed \cup r.inflight
               \/ \E t \in Tasks(r) : t.name = "NEXT_STATE" /\ t.owner = st
        PROVE  r.next[st] # st
    BY <1>1, <1>2, <1>8, <2>1 DEF Linked, Leads, Idles
  <2>2. r.isEvaluation = TRUE /\ r.cur = "NAP" => r.next["NAP"] # "NAP"
    BY <1>1, <1>8 DEF Linked, Leads
  <2>3. QED  BY <2>1, <2>2 DEF Leads
<1>10. NoRestarts(r)
  BY DEF Linked, NoRestarts, Idles, NoNewTasks
<1>11. QED  BY <1>7, <1>9, <1>10 DEF Linked

(* A change of state begins a chain, or finds the phases of nap through.   *)
LEMMA EntersLinked ==
  ASSUME SlowTimers, NEW s, NoRestarts(s), s.inflight = {}, NEW n, NEW r, Good(r),
         Enters(s, r, n), n = "MAINTENANCE" /\ s.cur = "NAP" => s.phase["NAP"] = EndPhase,
         s.cur = "MAINTENANCE" /\ n = "NAP" => s.phase["NAP"] = EndPhase,
         n = "NAP" => s.isEvaluation = FALSE
  PROVE  Linked(r) /\ r.lock = FALSE
<1>1. r.cur = n /\ r.pre = s.cur /\ r.inflight = {} /\ r.isEvaluation = s.isEvaluation
      /\ r.lock = FALSE /\ "REPEATED" \notin r.armed
  BY DEF Enters, Moves, SameEval
<1>2. \A t \in Tasks(r) : t.name \notin {"NEXT_STATE", "REPEATED"}
  BY DEF Enters, Moves
<1>3. Acquires(r) \subseteq PhaseTasks(r)
  BY DEF Acquires
<1>4. NapChain(r) /\ SleepChain(r)
  <2>1. CASE n \in PhasedState /\ s.cur # "MAINTENANCE"
    <3>1. r.phase[n] = 0 /\ n \in {"NAP", "SLEEP"} /\ EndPhase # 0
      BY <2>1 DEF Enters, PhasedState, EndPhase
    <3>2. PICK i : PhaseTasks(r) = {i}
      BY <2>1 DEF Enters
    <3>3. i \in Nat
      <4>1. i \in DOMAIN r.queue
        BY <3>2 DEF PhaseTasks
      <4>2. r.queue \in Seq(Task)
        BY FieldTypes
      <4>3. QED  BY <4>1, <4>2
    <3>4. NapChain(r)
      BY <1>1, <3>1, <3>2 DEF NapChain
    <3>5. SleepChain(r)
      BY <1>1, <1>2, <1>3, <3>1, <3>2, <3>3 DEF SleepChain
    <3>6. QED  BY <3>4, <3>5
  <2>2. CASE ~ (n \in PhasedState /\ s.cur # "MAINTENANCE")
    <3>1. r.phase = s.phase /\ PhaseTasks(r) = {}
      BY <2>2 DEF Enters
    <3>2. n = "NAP" => s.cur = "MAINTENANCE"
      BY <2>2 DEF PhasedState
    <3>3. NapChain(r)
      BY <1>1, <3>1, <3>2 DEF NapChain
    <3>4. SleepChain(r)
      BY <1>1, <1>2, <1>3, <3>1 DEF SleepChain
    <3>5. QED  BY <3>3, <3>4
  <2>3. QED  BY <2>1, <2>2
<1>5. Chain(r)
  BY <1>1, <1>2, <1>4 DEF Chain
<1>6. Leads(r)
  BY <1>1, <1>2 DEF Leads, Enters
<1>7. NoRestarts(r)
  BY DEF NoRestarts, Enters, Moves
<1>8. QED  BY <1>1, <1>5, <1>6, <1>7 DEF Linked

-----------------------------------------------------------------------------
(* What beginning and ending a state do to the chain.                      *)

(* Coming back from maintenance keeps the chain.                           *)
LEMMA ResumeFromMaintChain ==
  ASSUME NEW s, Good(s), NEW st \in PhasedState
  PROVE  SameChain(s, ResumeFromMaint(s, st))
<1> DEFINE v == NextIndex(s, st)
           u == [s EXCEPT !.index[st] = v]
<1>1. CASE Len(MaintInterval(st)) = 0
  BY <1>1 DEF ResumeFromMaint, SameChain, SamePhases
<1>2. CASE Len(MaintInterval(st)) # 0
  <2>1. v \in Nat /\ v < Len(MaintInterval(st))
    BY <1>2, NextIndexInList
  <2>2. SameChain(s, u)
    BY ZenonT(60), OtherFieldsChain
  <2> HIDE DEF v
  <2>3. Good(u)
    BY <2>1, SetIndex
  <2> HIDE DEF u
  <2>4. SameChain(u, StartTimer(u, st))
    BY <2>3, SmallCallsChain
  <2>5. ResumeFromMaint(s, st) = u \/ ResumeFromMaint(s, st) = StartTimer(u, st)
    BY <1>2 DEF ResumeFromMaint, u, v
  <2>6. QED  BY <2>2, <2>4, <2>5 DEF SameChain, SamePhases
<1>3. QED  BY <1>1, <1>2

(* The state s.cur begins: nap and sleep begin a chain with it, unless     *)
(* they come back from maintenance.                                        *)
Commences(s, r) ==
  /\ r.lock = s.lock
  /\ IF s.cur \in PhasedState /\ s.pre # "MAINTENANCE"
     THEN r.phase[s.cur] = 0 /\ \E i : PhaseTasks(r) = PhaseTasks(s) \cup {i}
     ELSE SamePhases(s, r)
  /\ s.cur \in {"DARK", "NAP"} /\ s.cur \in r.armed => s.cur \in s.armed \/ r.next[s.cur] # s.cur

(* The phase of a state is set to its first one.                           *)
LEMMA FirstPhase ==
  ASSUME NEW s, Good(s), NEW st \in PhasedState
  PROVE  LET r == [s EXCEPT !.index[st] = 0, !.phase[st] = 0]
         IN  /\ Good(r) /\ r.lock = s.lock /\ r.phase[st] = 0 /\ PhaseTasks(r) = PhaseTasks(s)
             /\ r.armed = s.armed /\ r.next = s.next /\ r.cur = s.cur /\ r.pre = s.pre
             /\ r.offLong = s.offLong
<1> DEFINE s0 == [s EXCEPT !.index[st] = 0]
           r  == [s EXCEPT !.index[st] = 0, !.phase[st] = 0]
<1>1. Good(s0)
  BY SetIndex
<1>2. r = [s0 EXCEPT !.phase[st] = 0]
  OBVIOUS
<1>3. Good(r)
  <2> HIDE DEF s0
  <2>1. 0 \in 0..EndPhase
    BY DEF EndPhase
  <2>2. QED  BY <1>1, <1>2, <2>1, SetPhase
<1>4. /\ r.lock = s.lock /\ r.phase[st] = 0 /\ r.queue = s.queue
      /\ r.armed = s.armed /\ r.next = s.next /\ r.cur = s.cur /\ r.pre = s.pre
      /\ r.offLong = s.offLong
  BY DEF Good, SMType
<1> HIDE DEF r
<1>5. QED  BY <1>3, <1>4 DEF PhaseTasks, Acquires, r

(* Nap begins its chain, and its timer only with sleep or maintenance to   *)
(* go to.                                                                  *)
LEMMA BeginNapChain ==
  ASSUME NEW s, Good(s), s.cur = "NAP"
  PROVE  Commences(s, BeginNap(s))
<1> DEFINE s1 == [s EXCEPT !.index["NAP"] = 0, !.phase["NAP"] = 0]
           n1 == [s1 EXCEPT !.next["NAP"] = "SLEEP"]
           t1 == StartTimer(n1, "NAP")
           s2 == IF SleepSwitch THEN t1 ELSE s1
           x  == PostTask(s2, "NEXT_PHASE", "NAP", "acquire")
           m  == [s EXCEPT !.next["NAP"] = "MAINTENANCE"]
           y  == ResumeFromMaint(m, "NAP")
<1>1. "NAP" \in PhasedState /\ "NAP" \in State /\ "SLEEP" \in State
      /\ "MAINTENANCE" \in State /\ "NAP" \in Timer
  BY Names
<1>2. s.next \in [State -> State]
  BY FieldTypes
<1>3. BeginNap(s) = IF s.pre = "MAINTENANCE" THEN y ELSE x
  BY DEF BeginNap
<1>4. CASE s.pre # "MAINTENANCE"
  <2>1. /\ Good(s1) /\ s1.lock = s.lock /\ s1.phase["NAP"] = 0 /\ PhaseTasks(s1) = PhaseTasks(s)
        /\ s1.armed = s.armed /\ s1.next = s.next
    BY <1>1, FirstPhase
  <2> HIDE DEF s1
  <2>2. /\ Good(n1) /\ SameChain(s1, n1) /\ n1.armed = s1.armed
        /\ n1.next = [s1.next EXCEPT !["NAP"] = "SLEEP"]
    <3>1. Good(n1)
      BY <1>1, <2>1, SetNext
    <3>2. SameChain(s1, n1)
      BY <2>1, NextChain
    <3>3. QED  BY <1>1, <2>1, <3>1, <3>2, NextDoes
  <2> HIDE DEF n1
  <2>3. Good(t1) /\ SameChain(n1, t1) /\ t1.next = n1.next
    <3>1. Good(t1)
      BY <1>1, <2>2, TimerGood
    <3>2. SameChain(n1, t1)
      BY <2>2, SmallCallsChain
    <3>3. t1.next = n1.next
      BY <2>2, TimerDoes
    <3>4. QED  BY <3>1, <3>2, <3>3
  <2> HIDE DEF t1
  <2>4. /\ Good(s2) /\ s2.lock = s.lock /\ s2.phase["NAP"] = 0 /\ PhaseTasks(s2) = PhaseTasks(s)
        /\ s2.armed = s.armed \/ s2.next["NAP"] # "NAP"
    BY <1>1, <1>2, <2>1, <2>2, <2>3 DEF SameChain, SamePhases
  <2> HIDE DEF s2
  <2>5. /\ x.lock = s2.lock /\ x.phase = s2.phase
        /\ \E i : PhaseTasks(x) = PhaseTasks(s2) \cup {i}
    <3>1. Good(s2) /\ "NAP" \in State
      BY <1>1, <2>4
    <3>2. /\ x.lock = s2.lock /\ x.phase = s2.phase
          /\ \E i : /\ PhaseTasks(x) = PhaseTasks(s2) \cup {i}
                    /\ \A j \in PhaseTasks(s2) : j <= i
      BY <3>1, PostPhaseChain, ZenonT(60)
    <3>3. QED  BY <3>2, ZenonT(60)
  <2>6. x.armed = s2.armed /\ x.next = s2.next
    BY <2>4, PostTaskDoes DEF Same
  <2> HIDE DEF x
  <2>7. Commences(s, x)
    BY <1>1, <1>4, <2>4, <2>5, <2>6 DEF Commences
  <2>8. QED  BY <1>3, <1>4, <2>7
<1>5. CASE s.pre = "MAINTENANCE"
  <2>1. /\ Good(m) /\ SameChain(s, m) /\ m.next = [s.next EXCEPT !["NAP"] = "MAINTENANCE"]
    BY <1>1, SetNext, NextDoes, NextChain
  <2> HIDE DEF m
  <2>2. SameChain(m, y) /\ y.next = m.next
    BY <1>1, <2>1, ResumeFromMaintChain, ResumeFromMaintDoes
  <2> HIDE DEF y
  <2>3. y.next["NAP"] # "NAP"
    BY <1>1, <1>2, <2>1, <2>2
  <2>4. Commences(s, y)
    BY <1>5, <2>1, <2>2, <2>3 DEF Commences, SameChain, SamePhases, PhasedState
  <2>5. QED  BY <1>3, <1>5, <2>4
<1>6. QED  BY <1>4, <1>5

(* Sleep begins its chain.                                                 *)
LEMMA BeginSleepChain ==
  ASSUME NEW s, Good(s), s.cur = "SLEEP"
  PROVE  Commences(s, BeginSleep(s))
<1> DEFINE s0 == [s EXCEPT !.isRepeatedDetection = FALSE]
           s1 == [s0 EXCEPT !.index["SLEEP"] = 0, !.phase["SLEEP"] = 0]
           p  == PostTask(s1, "NEXT_PHASE", "SLEEP", "acquire")
           s2 == StartTimer(p, "SLEEP")
           h  == OnScreenOffHalfHourInner(s2, TRUE)
           y  == ResumeFromMaint(s0, "SLEEP")
<1>1. "SLEEP" \in PhasedState /\ "SLEEP" \in State /\ "SLEEP" \in Timer
  BY Names
<1>2. Good(s0) /\ SameChain(s, s0)
  BY SetFlag, OtherFieldsChain
<1>3. BeginSleep(s) = IF s.pre = "MAINTENANCE" THEN y ELSE IF s2.offLong THEN h ELSE s2
  BY DEF BeginSleep
<1> HIDE DEF s0
<1>4. CASE s.pre # "MAINTENANCE"
  <2>1. /\ Good(s1) /\ s1.lock = s0.lock /\ s1.phase["SLEEP"] = 0
        /\ PhaseTasks(s1) = PhaseTasks(s0)
    BY <1>1, <1>2, FirstPhase
  <2> HIDE DEF s1
  <2>2. /\ Good(p) /\ p.lock = s1.lock /\ p.phase = s1.phase
        /\ \E i : PhaseTasks(p) = PhaseTasks(s1) \cup {i}
    BY <1>1, <2>1, PostPhaseChain
  <2> HIDE DEF p
  <2>3. Good(s2) /\ SameChain(p, s2)
    BY <1>1, <2>2, TimerGood, SmallCallsChain
  <2> HIDE DEF s2
  <2>4. SameChain(s2, h)
    BY <2>3, HalfHourChain
  <2> HIDE DEF h
  <2>5. ASSUME NEW r, r = s2 \/ r = h PROVE Commences(s, r)
    BY <1>1, <1>2, <1>4, <2>1, <2>2, <2>3, <2>4, <2>5 DEF Commences, SameChain, SamePhases
  <2>6. QED  BY <1>3, <1>4, <2>5
<1>5. CASE s.pre = "MAINTENANCE"
  <2>1. SameChain(s0, y)
    BY <1>1, <1>2, ResumeFromMaintChain
  <2> HIDE DEF y
  <2>2. Commences(s, y)
    BY <1>2, <1>5, <2>1 DEF Commences, SameChain, SamePhases
  <2>3. QED  BY <1>3, <1>5, <2>2
<1>6. QED  BY <1>4, <1>5

(* Each of the five states begins.                                         *)
LEMMA BeginStateChain ==
  ASSUME NEW s, Good(s)
  PROVE  Commences(s, BeginState(s))
<1>1. s.cur \in {"WORKING", "DARK", "NAP", "MAINTENANCE", "SLEEP"} /\ s.pre \in State
  BY FieldTypes, Names
<1>2. CASE s.cur = "WORKING"
  <2> DEFINE r == PostTask(s, "CONDITION", "WORKING", "none")
  <2>1. SameChain(s, r)
    BY PostTaskChain DEF SameChain, SamePhases
  <2> HIDE DEF r
  <2>2. Commences(s, r)
    BY <1>2, <2>1 DEF Commences, SameChain, PhasedState
  <2>3. QED  BY <1>2, <2>2 DEF BeginState, BeginWorking, r
<1>3. CASE s.cur = "DARK"
  <2> DEFINE r == StartTimer(s, "DARK")
  <2>1. SameChain(s, r) /\ r.next = s.next
    BY SmallCallsChain, TimerDoes
  <2> HIDE DEF r
  <2>2. Commences(s, s) /\ (s.next["DARK"] # "DARK" => Commences(s, r))
    BY <1>3, <2>1 DEF Commences, SameChain, SamePhases, PhasedState
  <2>3. QED  BY <1>3, <2>2 DEF BeginState, BeginDark, r
<1>4. CASE s.cur = "MAINTENANCE"
  <2> DEFINE u == [s EXCEPT !.next["MAINTENANCE"] = s.pre]
             r == StartTimer(u, "MAINTENANCE")
  <2>1. Good(u) /\ SameChain(s, u)
    BY <1>1, SetNext, NextChain, Names
  <2> HIDE DEF u
  <2>2. SameChain(u, r)
    BY <2>1, SmallCallsChain
  <2> HIDE DEF r
  <2>3. Commences(s, r)
    BY <1>4, <2>1, <2>2 DEF Commences, SameChain, SamePhases, PhasedState
  <2>4. QED  BY <1>4, <2>3 DEF BeginState, BeginMaintenance, r, u
<1>5. QED
  BY <1>1, <1>2, <1>3, <1>4, BeginNapChain, BeginSleepChain DEF BeginState

(* Ending a state leaves no phase task.                                    *)
LEMMA EndStateChain ==
  ASSUME NEW s, Good(s), Safe(s)
  PROVE  LET r == EndState(s) IN r.lock = s.lock /\ r.phase = s.phase /\ PhaseTasks(r) = {}
<1>1. s.cur \in {"WORKING", "DARK", "NAP", "MAINTENANCE", "SLEEP"}
  BY FieldTypes, Names
<1>2. ASSUME NEW u, Good(u), NEW n
      PROVE  LET r == RemoveTask(u, n)
             IN  /\ Good(r) /\ r.lock = u.lock /\ r.phase = u.phase
                 /\ PhaseTasks(r) = IF n = "NEXT_PHASE" THEN {} ELSE PhaseTasks(u)
  BY <1>2, RemoveTaskGood, RemoveTaskChain
<1>3. ASSUME NEW u, Good(u), NEW t \in Timer
      PROVE  LET r == StopTimer(u, t)
             IN  Good(r) /\ r.lock = u.lock /\ r.phase = u.phase /\ PhaseTasks(r) = PhaseTasks(u)
  <2>1. Good(StopTimer(u, t))
    BY <1>3, TimerGood
  <2>2. SameChain(u, StopTimer(u, t))
    BY <1>3, SmallCallsChain
  <2>3. QED  BY <2>1, <2>2 DEF SameChain, SamePhases
<1>4. CASE s.cur = "WORKING"
  <2>1. PhaseTasks(s) = {}
    BY <1>4, NoPhaseTasks DEF PhasedState
  <2>2. EndState(s) = RemoveTask(s, "CONDITION")
    BY <1>4 DEF EndState
  <2>3. QED  BY <1>2, <2>1, <2>2
<1>5. CASE s.cur \in {"DARK", "MAINTENANCE"}
  <2> DEFINE u == StopTimer(s, s.cur)
             r == RemoveTask(u, "NEXT_STATE")
  <2>1. PhaseTasks(s) = {} /\ s.cur \in Timer
    BY <1>5, NoPhaseTasks DEF PhasedState, Timer, StateTimer
  <2>2. Good(u) /\ u.lock = s.lock /\ u.phase = s.phase /\ PhaseTasks(u) = {}
    BY <1>3, <2>1
  <2> HIDE DEF u
  <2>3. r.lock = u.lock /\ r.phase = u.phase /\ PhaseTasks(r) = PhaseTasks(u)
    BY <1>2, <2>2
  <2> HIDE DEF r
  <2>4. r.lock = s.lock /\ r.phase = s.phase /\ PhaseTasks(r) = {}
    BY <2>2, <2>3
  <2>5. QED  BY <1>5, <2>4 DEF EndState, r, u
<1>6. CASE s.cur = "NAP"
  <2> DEFINE u == StopTimer(s, "NAP")
             v == RemoveTask(u, "NEXT_STATE")
             r == RemoveTask(v, "NEXT_PHASE")
  <2>1. Good(u) /\ u.lock = s.lock /\ u.phase = s.phase
    BY <1>3, Names
  <2> HIDE DEF u
  <2>2. Good(v) /\ v.lock = u.lock /\ v.phase = u.phase
    BY <1>2, <2>1
  <2> HIDE DEF v
  <2>3. r.lock = v.lock /\ r.phase = v.phase /\ PhaseTasks(r) = {}
    BY <1>2, <2>2
  <2> HIDE DEF r
  <2>4. r.lock = s.lock /\ r.phase = s.phase /\ PhaseTasks(r) = {}
    BY <2>1, <2>2, <2>3
  <2>5. QED  BY <1>6, <2>4 DEF EndState, r, v, u
<1>7. CASE s.cur = "SLEEP"
  <2> DEFINE p == StopTimer(s, "SLEEP")
             u == StopTimer(p, "REPEATED")
             v == RemoveTask(u, "NEXT_STATE")
             w == RemoveTask(v, "NEXT_PHASE")
             r == RemoveTask(w, "REPEATED")
  <2>1. Good(p) /\ p.lock = s.lock /\ p.phase = s.phase
    BY <1>3, Names
  <2> HIDE DEF p
  <2>2. Good(u) /\ u.lock = p.lock /\ u.phase = p.phase
    BY <1>3, <2>1, Names
  <2> HIDE DEF u
  <2>3. Good(v) /\ v.lock = u.lock /\ v.phase = u.phase
    BY <1>2, <2>2
  <2> HIDE DEF v
  <2>4. Good(w) /\ w.lock = v.lock /\ w.phase = v.phase /\ PhaseTasks(w) = {}
    BY <1>2, <2>3
  <2> HIDE DEF w
  <2>5. r.lock = w.lock /\ r.phase = w.phase /\ PhaseTasks(r) = PhaseTasks(w)
    BY <1>2, <2>4
  <2> HIDE DEF r
  <2>6. r.lock = s.lock /\ r.phase = s.phase /\ PhaseTasks(r) = {}
    BY <2>1, <2>2, <2>3, <2>4, <2>5
  <2>7. QED  BY <1>7, <2>6 DEF EndState, r, w, v, u, p
<1>8. QED  BY <1>1, <1>4, <1>5, <1>6, <1>7

(* A change of state releases the lock and begins a chain or none.         *)
LEMMA TransitToStateInnerEnters ==
  ASSUME NEW s, Good(s), Safe(s), NEW n \in State
  PROVE  LET r == TransitToStateInner(s, n) IN Good(r) /\ Enters(s, r, n)
<1> DEFINE s1 == EndState(s)
           w  == [s1 EXCEPT !.pre = s1.cur]
           u  == [s1 EXCEPT !.pre = s1.cur, !.cur = n]
           s2 == BeginState(u)
           p  == PostTask(s2, "STATE_TRANSIT", s2.cur, s2.pre)
           r  == ReleaseStandbyRunningLock(p)
<1>1. Good(s1) /\ Ends(s, s1)
  BY EndStateGood, EndStateDoes DEF Safe
<1>2. s1.phase = s.phase /\ PhaseTasks(s1) = {}
  BY EndStateChain
<1> HIDE DEF s1
<1>3. Good(u)
  <2>1. Good(w)
    BY <1>1, FieldTypes, SetCur
  <2> HIDE DEF w
  <2>2. Good([w EXCEPT !.cur = n])
    BY <2>1, SetCur
  <2>3. QED  BY <2>2 DEF w
<1>4. /\ u.cur = n /\ u.pre = s.cur /\ u.armed \subseteq {"HALF_HOUR"}
      /\ u.phase = s.phase /\ PhaseTasks(u) = {}
  <2>1. u.cur = n /\ u.pre = s1.cur /\ u.armed = s1.armed /\ u.phase = s1.phase /\ u.queue = s1.queue
    BY <1>1 DEF Good, SMType
  <2> HIDE DEF u
  <2>2. QED  BY <1>1, <1>2, <2>1 DEF Ends, PhaseTasks, Acquires
<1> HIDE DEF u
<1>5. Good(s2) /\ Begins(u, s2) /\ Commences(u, s2)
  BY <1>3, BeginStateGood, BeginStateDoes, BeginStateChain
<1> HIDE DEF s2
<1>6. s2.cur \in State /\ s2.pre \in TaskArg
  BY <1>5, FieldTypes, Names
<1>7. /\ Good(p) /\ Same(s2, p)
      /\ p.phase = s2.phase /\ PhaseTasks(p) = PhaseTasks(s2)
  <2>1. Good(p)
    BY <1>5, <1>6, PostTaskGood, Names
  <2>2. Same(s2, p)
    BY <1>5, PostTaskDoes
  <2>3. p.phase = s2.phase /\ PhaseTasks(p) = PhaseTasks(s2)
    BY <1>5, PostTaskChain
  <2>4. QED  BY <2>1, <2>2, <2>3
<1> HIDE DEF p
<1>8. Good(r) /\ Same(p, r) /\ r.phase = p.phase /\ PhaseTasks(r) = PhaseTasks(p) /\ r.lock = FALSE
  BY <1>7, LockGood, LockDoes, SmallCallsChain DEF SamePhases
<1> HIDE DEF r
<1>9. IF n \in PhasedState /\ s.cur # "MAINTENANCE"
      THEN r.phase[n] = 0 /\ \E i : PhaseTasks(r) = {i}
      ELSE r.phase = s.phase /\ PhaseTasks(r) = {}
  BY <1>4, <1>5, <1>7, <1>8 DEF Commences, SamePhases
<1>10. r.cur = n /\ r.armed = s2.armed /\ r.next = s2.next /\ r.armed \subseteq {"HALF_HOUR", n}
  BY <1>4, <1>5, <1>7, <1>8 DEF Same, Begins
<1>11. \A st \in {"DARK", "NAP"} : st \in r.armed => r.next[st] # st
  BY <1>4, <1>5, <1>10 DEF Commences
<1>12. TransitToStateInner(s, n) = r
  BY DEF TransitToStateInner, r, p, s2, u, s1
<1>13. Moves(s, r, n)
  BY <1>12, TransitToStateInnerDoes DEF Safe
<1>14. n # "REPEATED" /\ "REPEATED" \notin r.armed
  BY <1>10 DEF State
<1>15. QED  BY <1>8, <1>9, <1>11, <1>12, <1>13, <1>14 DEF Enters

(* The end of an evaluation leaves the chain alone.                        *)
LEMMA StopEvalutionChain ==
  ASSUME NEW s, Good(s)
  PROVE  SameChain(s, StopEvalution(s))
<1> DEFINE u  == RemoveTask(s, "MOTION")
           m  == StopMonitoring(s)
           s1 == IF s.monitor = "motion" THEN m ELSE s
           x  == [s1 EXCEPT !.isEvaluation = FALSE, !.monitor = "none"]
           y  == [x EXCEPT !.isEvalution = FALSE]
           z  == [s EXCEPT !.isEvalution = FALSE]
<1>1. /\ Good(u) /\ u.lock = s.lock /\ u.phase = s.phase
      /\ PhaseTasks(u) = PhaseTasks(s) /\ Acquires(u) = Acquires(s)
  BY RemoveTaskGood, RemoveTaskChain
<1>2. SameChain(s, m)
  <2>1. m = [u EXCEPT !.delayed = <<>>, !.sensorOn = FALSE]
    BY DEF StopMonitoring
  <2> HIDE DEF u
  <2>2. m.lock = u.lock /\ m.phase = u.phase /\ m.queue = u.queue
    BY <1>1, <2>1 DEF Good, SMType
  <2> HIDE DEF m
  <2>3. QED  BY <1>1, <2>2 DEF SameChain, SamePhases, PhaseTasks, Acquires
<1>3. Good(m)
  BY StopMonitoringGood
<1> HIDE DEF u, m
<1>4. Good(s1) /\ SameChain(s, s1)
  BY <1>2, <1>3 DEF SameChain, SamePhases
<1> HIDE DEF s1
<1>5. y.lock = s1.lock /\ y.phase = s1.phase /\ y.queue = s1.queue
  BY <1>4 DEF Good, SMType
<1>6. SameChain(s, y)
  <2> HIDE DEF y
  <2>1. QED  BY <1>4, <1>5 DEF SameChain, SamePhases, PhaseTasks, Acquires
<1>7. SameChain(s, z)
  BY OtherFieldsChain
<1>8. SameChain(s, s)
  BY DEF SameChain, SamePhases
<1>9. StopEvalution(s) = y \/ StopEvalution(s) = z \/ StopEvalution(s) = s
  BY DEF StopEvalution, StopConstraintEvalution, y, x, s1, m
<1> HIDE DEF y, z
<1>10. QED  BY <1>6, <1>7, <1>8, <1>9

(* The evaluation stops, and the chain goes on.                            *)
LEMMA StopEvalutionIdles ==
  ASSUME NEW s, Good(s), Safe(s)
  PROVE  LET r == StopEvalution(s)
         IN  Good(r) /\ Safe(r) /\ Stops(s, r) /\ Idles(s, r) /\ r.lock = s.lock
<1> DEFINE r == StopEvalution(s)
<1>1. Good(r) /\ Stops(s, r) /\ SameChain(s, r)
  BY StopEvalutionGood, StopEvalutionDoes, StopEvalutionChain DEF Safe
<1> HIDE DEF r
<1>2. Safe(r) /\ Idles(s, r)
  BY <1>1, StopsSafe, StopsIdles DEF SameChain
<1>3. QED  BY <1>1, <1>2 DEF SameChain, r

(* The half-hour control leaves the chain alone,                           *)
LEMMA HalfHourIdles ==
  ASSUME NEW s, Good(s), Safe(s), NEW ctrl \in BOOLEAN
  PROVE  LET r == OnScreenOffHalfHourInner(s, ctrl)
         IN  Good(r) /\ Safe(r) /\ SameEval(s, r) /\ Idles(s, r) /\ r.lock = s.lock
<1> DEFINE r == OnScreenOffHalfHourInner(s, ctrl)
<1>1. Good(r) /\ HalfHour(s, r, ctrl) /\ SameChain(s, r)
  BY OnScreenOffHalfHourInnerGood, OnScreenOffHalfHourInnerDoes, HalfHourChain
<1> HIDE DEF r
<1>2. Safe(r) /\ Idles(s, r)
  BY <1>1, SameSafe, SameIdles DEF HalfHour, SameChain
<1>3. QED  BY <1>1, <1>2 DEF HalfHour, SameChain, r

(* and so does lifting the block.                                          *)
LEMMA UnblockIdles ==
  ASSUME NEW s, Good(s), Safe(s)
  PROVE  LET r == UnblockCurrentState(s)
         IN  Good(r) /\ Safe(r) /\ SameEval(s, r) /\ Idles(s, r) /\ r.lock = s.lock
<1> DEFINE r == UnblockCurrentState(s)
<1>1. Good(r) /\ Same(s, r) /\ Tasks(r) = Tasks(s) /\ SameChain(s, r)
  BY UnblockCurrentStateGood, LockDoes, SmallCallsChain
<1> HIDE DEF r
<1>2. OnlyMessages(s, r)
  BY <1>1 DEF OnlyMessages
<1>3. Safe(r) /\ Idles(s, r)
  BY <1>1, <1>2, SameSafe, SameIdles DEF Same, SameChain
<1>4. QED  BY <1>1, <1>3 DEF Same, SameChain, r

(* The lock itself is no part of the chain.                                *)
LEMMA LockIdles ==
  ASSUME NEW s, Good(s), Safe(s)
  PROVE  /\ LET r == AcquireStandbyRunningLock(s)
            IN  Good(r) /\ Safe(r) /\ SameEval(s, r) /\ Idles(s, r) /\ r.lock = TRUE
         /\ LET r == ReleaseStandbyRunningLock(s)
            IN  Good(r) /\ Safe(r) /\ SameEval(s, r) /\ Idles(s, r) /\ r.lock = FALSE
<1>1. ASSUME NEW r, Same(s, r), Tasks(r) = Tasks(s), SamePhases(s, r)
      PROVE  Safe(r) /\ SameEval(s, r) /\ Idles(s, r)
  <2>1. OnlyMessages(s, r)
    BY <1>1 DEF OnlyMessages
  <2>2. QED  BY <1>1, <2>1, SameSafe, SameIdles DEF Same
<1> DEFINE a == AcquireStandbyRunningLock(s)
           r == ReleaseStandbyRunningLock(s)
<1>2. /\ Good(a) /\ Same(s, a) /\ Tasks(a) = Tasks(s) /\ SamePhases(s, a) /\ a.lock = TRUE
      /\ Good(r) /\ Same(s, r) /\ Tasks(r) = Tasks(s) /\ SamePhases(s, r) /\ r.lock = FALSE
  BY LockGood, LockDoes, SmallCallsChain
<1> HIDE DEF a, r
<1>3. Safe(a) /\ SameEval(s, a) /\ Idles(s, a) /\ Safe(r) /\ SameEval(s, r) /\ Idles(s, r)
  BY <1>1, <1>2
<1>4. QED  BY <1>2, <1>3 DEF a, r

(* Leaving standby ends every chain and releases the lock.                 *)
LEMMA ExitStandbyLinked ==
  ASSUME SlowTimers, NEW s, Good(s), Safe(s), Linked(s), s.inflight = {},
         NEW n \in {"WORKING", "DARK"}
  PROVE  LET r == ExitStandby(s, n) IN Good(r) /\ Linked(r) /\ r.lock = FALSE
<1> DEFINE e == StopEvalution(s)
           b == UnblockCurrentState(e)
           h == OnScreenOffHalfHourInner(b, FALSE)
           r == TransitToStateInner(h, n)
<1>1. n \in State
  BY DEF State
<1>2. Good(e) /\ Safe(e) /\ Idles(s, e)
  BY StopEvalutionIdles
<1> HIDE DEF e
<1>3. Good(b) /\ Safe(b) /\ Idles(e, b)
  BY <1>2, UnblockIdles
<1> HIDE DEF b
<1>4. Good(h) /\ Safe(h) /\ Idles(b, h)
  BY <1>3, HalfHourIdles
<1> HIDE DEF h
<1>5. NoRestarts(h) /\ h.inflight = {}
  BY <1>2, <1>3, <1>4 DEF Linked, NoRestarts, Idles, NoNewTasks
<1>6. Good(r) /\ Enters(h, r, n)
  BY <1>1, <1>4, TransitToStateInnerEnters
<1> HIDE DEF r
<1>7. Linked(r) /\ r.lock = FALSE
  <2>1. n \notin {"NAP", "MAINTENANCE"}
    OBVIOUS
  <2>2. QED  BY <1>5, <1>6, <2>1, EntersLinked
<1>8. QED  BY <1>6, <1>7 DEF ExitStandby, r, h, b, e

(* So does a maintenance window, that opens and closes between chains.     *)
LEMMA TransitWithMaintLinked ==
  ASSUME SlowTimers, NEW s, Good(s), Safe(s), Linked(s), s.inflight = {}, NEW n \in State,
         n = "MAINTENANCE" /\ s.cur = "NAP" => PhaseTasks(s) = {},
         n # "MAINTENANCE" => s.cur = "MAINTENANCE",
         n = "NAP" => s.isEvaluation = FALSE /\ n = s.pre
  PROVE  LET r == TransitWithMaint(s, n) IN Good(r) /\ Linked(r) /\ r.lock = FALSE
<1> DEFINE x == OnScreenOffHalfHourInner(s, FALSE)
           h == IF n = "WORKING" THEN x ELSE s
           r == TransitToStateInner(h, n)
<1>1. Good(x) /\ Safe(x) /\ SameEval(s, x) /\ Idles(s, x)
  BY HalfHourIdles
<1> HIDE DEF x
<1>2. NoRestarts(x)
  BY <1>1 DEF Linked, NoRestarts, Idles, NoNewTasks
<1>3. /\ Good(h) /\ Safe(h) /\ NoRestarts(h) /\ h.inflight = {} /\ h.phase = s.phase
      /\ h.cur = s.cur /\ h.isEvaluation = s.isEvaluation
  BY <1>1, <1>2 DEF Linked, Idles, SamePhases, SameEval
<1> HIDE DEF h
<1>4. Good(r) /\ Enters(h, r, n)
  BY <1>3, TransitToStateInnerEnters
<1> HIDE DEF r
<1>5. /\ n = "MAINTENANCE" /\ s.cur = "NAP" => s.phase["NAP"] = EndPhase
      /\ s.cur = "MAINTENANCE" /\ n = "NAP" => s.phase["NAP"] = EndPhase
  BY DEF Linked, Chain, NapChain
<1>6. Linked(r) /\ r.lock = FALSE
  BY <1>3, <1>4, <1>5, EntersLinked
<1>7. QED  BY <1>4, <1>6 DEF TransitWithMaint, r, h, x

(* A blocked state keeps its chain; a blocked nap releases the lock.       *)
LEMMA BlockCurrentStateIdles ==
  ASSUME NEW s, Good(s), Safe(s)
  PROVE  LET r == BlockCurrentState(s)
         IN  /\ Good(r) /\ Safe(r) /\ SameEval(s, r) /\ Idles(s, r)
             /\ r.lock = IF s.cur = "NAP" THEN FALSE ELSE s.lock
<1> DEFINE s1 == [s EXCEPT !.isBlocked = TRUE]
           n1 == [s1 EXCEPT !.next["NAP"] = "MAINTENANCE"]
           t1 == StartTimer(n1, "NAP")
           s2 == IF HasInterval("NAP", s.index["NAP"]) THEN t1 ELSE s1
           x  == ReleaseStandbyRunningLock(s2)
           r  == BlockCurrentState(s)
<1>1. "NAP" \in State /\ "NAP" \in Timer /\ "MAINTENANCE" \in State /\ s.next \in [State -> State]
  BY FieldTypes, Names
<1>2. Good(s1) /\ Same(s, s1) /\ Tasks(s1) = Tasks(s) /\ SameChain(s, s1)
  BY SetFlag, SameFields, OtherFieldsChain
<1> HIDE DEF s1
<1>3. Good(n1) /\ n1.next = [s1.next EXCEPT !["NAP"] = "MAINTENANCE"] /\ n1.armed = s1.armed
      /\ Tasks(n1) = Tasks(s1)
  BY <1>1, <1>2, SetNext, NextDoes
<1>4. SameChain(s1, n1)
  BY <1>2, NextChain
<1> HIDE DEF n1
<1>5. /\ Good(t1) /\ SameChain(n1, t1) /\ t1.next = n1.next
      /\ t1.armed = n1.armed \cup {"NAP"} /\ Tasks(t1) = Tasks(n1)
  <2>1. Good(t1)
    BY <1>1, <1>3, TimerGood
  <2>2. SameChain(n1, t1)
    BY <1>3, SmallCallsChain
  <2>3. t1.next = n1.next /\ t1.armed = n1.armed \cup {"NAP"} /\ Tasks(t1) = Tasks(n1)
    BY <1>3, TimerDoes
  <2>4. QED  BY <2>1, <2>2, <2>3
<1> HIDE DEF t1
<1>6. /\ Good(s2) /\ SameChain(s, s2) /\ NextKept(s, s2) /\ Tasks(s2) = Tasks(s)
      /\ \A st \in {"DARK", "NAP"} : st \in s2.armed => st \in s.armed \/ s2.next[st] # st
      /\ "REPEATED" \in s2.armed => "REPEATED" \in s.armed
  <2>1. SameChain(s, t1) /\ t1.next = [s.next EXCEPT !["NAP"] = "MAINTENANCE"]
        /\ t1.armed = s.armed \cup {"NAP"} /\ Tasks(t1) = Tasks(s)
    BY <1>2, <1>3, <1>4, <1>5 DEF Same, SameChain, SamePhases
  <2>2. NextKept(s, t1) /\ t1.next["NAP"] = "MAINTENANCE"
    BY <1>1, <2>1 DEF NextKept, State
  <2>3. NextKept(s, s1) /\ s1.armed = s.armed
    BY <1>2 DEF Same, NextKept
  <2>4. QED  BY <1>2, <1>5, <2>1, <2>2, <2>3
<1> HIDE DEF s2
<1>7. SamePhases(s2, x) /\ x.lock = FALSE /\ x.next = s2.next /\ x.armed = s2.armed
      /\ Tasks(x) = Tasks(s2)
  BY <1>6, LockDoes, SmallCallsChain DEF Same
<1> HIDE DEF x
<1>8. r = IF s.cur = "NAP" THEN x ELSE s1
  BY DEF BlockCurrentState, x, s2, t1, n1, s1
<1>9. Good(r) /\ Safe(r) /\ SameEval(s, r) /\ Stays(s, r)
  BY BlockCurrentStateGood, BlockCurrentStateDoes
<1> HIDE DEF r
<1>10. NoNewTasks(s, r) /\ NextKept(s, r) /\ SamePhases(s, r)
  BY <1>2, <1>6, <1>7, <1>8 DEF NoNewTasks, NextKept, Same, SameChain, SamePhases
<1>11. /\ \A st \in {"DARK", "NAP"} : st \in r.armed => st \in s.armed \/ r.next[st] # st
       /\ "REPEATED" \in r.armed => "REPEATED" \in s.armed
  BY <1>2, <1>6, <1>7, <1>8 DEF Same
<1>12. Idles(s, r)
  BY <1>9, <1>10, <1>11 DEF Idles, Stays, World
<1>13. r.lock = IF s.cur = "NAP" THEN FALSE ELSE s.lock
  BY <1>2, <1>7, <1>8 DEF SameChain
<1>14. QED  BY <1>9, <1>12, <1>13 DEF r

-----------------------------------------------------------------------------
(* A phase of nap or sleep, and the end of an evaluation.                  *)

(* The next phase is one further, and the chain is the caller's to go on.  *)
LEMMA NextPhaseChain ==
  ASSUME NEW s, Good(s), NEW st \in PhasedState, s.phase[st] < EndPhase, NEW res
  PROVE  LET r == NextPhase(s, st, res)
         IN  /\ Good(r) /\ r.phase[st] = s.phase[st] + 1 /\ r.lock = s.lock
             /\ PhaseTasks(r) = PhaseTasks(s) /\ Acquires(r) = Acquires(s)
<1> DEFINE i == s.phase[st] + 1
           u == TransitToPhaseInner(s, st)
           w == IF res THEN u ELSE s
           r == [w EXCEPT !.phase[st] = w.phase[st] + 1]
<1>1. i \in 1..EndPhase
  <2>1. s.phase[st] \in 0..EndPhase  BY FieldTypes
  <2>2. QED  BY <2>1 DEF EndPhase
<1>2. PhaseName[st][i] \in TaskArg
  BY <1>1 DEF TaskArg
<1> HIDE DEF i
<1>3. u = PostTask(s, "PHASE_TRANSIT", st, PhaseName[st][i])
  BY DEF TransitToPhaseInner, i
<1> HIDE DEF u
<1>4. Good(u) /\ SameChain(s, u)
  BY <1>2, <1>3, PostTaskGood, PostTaskChain, Names DEF SameChain, SamePhases
<1>5. Good(w) /\ SameChain(s, w)
  BY <1>4 DEF SameChain, SamePhases
<1>6. NextPhase(s, st, res) = r
  BY DEF NextPhase, w, u
<1> HIDE DEF w
<1>7. r.phase[st] = w.phase[st] + 1 /\ r.lock = w.lock /\ r.queue = w.queue
  BY <1>5 DEF Good, SMType
<1>8. Good(NextPhase(s, st, res))
  BY NextPhaseGood
<1> HIDE DEF r
<1>9. QED  BY <1>5, <1>6, <1>7, <1>8 DEF SameChain, SamePhases, PhaseTasks, Acquires

(* The phases of nap go on: there is one phase task, or the phases are     *)
(* through and the lock is released.                                       *)
GoesOn(s, r) ==
  /\ Good(r) /\ r.cur = s.cur /\ r.pre = s.pre /\ r.inflight = s.inflight
  /\ r.isEvaluation = s.isEvaluation /\ r.next = s.next
  /\ r.armed = s.armed /\ NoNewTasks(s, r)
  /\ \/ r.phase["NAP"] < EndPhase /\ \E i : PhaseTasks(r) = {i}
     \/ r.phase["NAP"] = EndPhase /\ PhaseTasks(r) = {} /\ r.lock = FALSE

(* A chain that goes on is linked again.                                   *)
LEMMA GoesOnLinked ==
  ASSUME NEW s, Waits(s), s.inflight = {}, NEW r, GoesOn(s, r)
  PROVE  Linked(r) /\ Releases(r)
<1>1. \A t \in Tasks(r) : t.name \notin {"NEXT_STATE", "REPEATED"}
  BY DEF Waits, GoesOn, NoNewTasks
<1>2. /\ r.cur = "NAP" /\ r.isEvaluation = FALSE /\ r.inflight = {}
      /\ "REPEATED" \notin r.armed /\ Good(r)
  BY DEF Waits, GoesOn
<1>3. Acquires(r) \subseteq PhaseTasks(r)
  BY DEF Acquires
<1>4. NapChain(r) /\ SleepChain(r)
  <2>1. CASE r.phase["NAP"] < EndPhase /\ \E i : PhaseTasks(r) = {i}
    <3>1. PICK i : PhaseTasks(r) = {i}
      BY <2>1
    <3>2. i \in Nat
      <4>1. i \in DOMAIN r.queue
        BY <3>1 DEF PhaseTasks
      <4>2. r.queue \in Seq(Task)
        BY <1>2, FieldTypes
      <4>3. QED  BY <4>1, <4>2
    <3>3. r.phase["NAP"] # EndPhase
      BY <2>1 DEF EndPhase
    <3>4. NapChain(r)
      BY <1>2, <3>1, <3>3 DEF NapChain
    <3>5. SleepChain(r)
      BY <1>1, <1>2, <1>3, <3>1, <3>2 DEF SleepChain
    <3>6. QED  BY <3>4, <3>5
  <2>2. CASE r.phase["NAP"] = EndPhase /\ PhaseTasks(r) = {}
    <3>1. NapChain(r)
      BY <1>2, <2>2 DEF NapChain
    <3>2. SleepChain(r)
      BY <1>1, <1>2, <1>3, <2>2 DEF SleepChain
    <3>3. QED  BY <3>1, <3>2
  <2>3. QED  BY <2>1, <2>2 DEF GoesOn
<1>5. Chain(r)
  BY <1>1, <1>2, <1>4 DEF Chain
<1>6. Leads(r)
  BY <1>1, <1>2 DEF Waits, Leads, GoesOn
<1>7. NoRestarts(r)
  BY DEF Waits, GoesOn, NoNewTasks, NoRestarts
<1>8. Releases(r)
  BY <1>2 DEF GoesOn, Releases
<1>9. QED  BY <1>5, <1>6, <1>7, <1>8 DEF Linked

(* A phase of nap.                                                         *)
LEMMA SetPhaseTransitTaskGoesOn ==
  ASSUME NEW s, Good(s), s.cur = "NAP", Waits(s), NEW res
  PROVE  GoesOn(s, SetPhaseTransitTask(s, res))
<1> DEFINE s1 == NextPhase(s, "NAP", res)
           x  == PostTask(s1, "NEXT_PHASE", "NAP", "none")
           y  == ReleaseStandbyRunningLock(s1)
<1>1. s.phase["NAP"] \in 0..EndPhase /\ s.phase["NAP"] < EndPhase /\ "NAP" \in State
      /\ "NAP" \in PhasedState
  BY FieldTypes, Names DEF Waits
<1>2. /\ Good(s1) /\ s1.phase["NAP"] = s.phase["NAP"] + 1 /\ PhaseTasks(s1) = {}
      /\ Same(s, s1) /\ OnlyMessages(s, s1)
  BY <1>1, NextPhaseChain, NextPhaseDoes DEF Waits
<1> HIDE DEF s1
<1>3. /\ Good(x) /\ x.phase = s1.phase /\ \E i : PhaseTasks(x) = {i}
      /\ Same(s1, x) /\ Tasks(x) = Tasks(s1) \cup {TaskOf("NEXT_PHASE", "NAP", "none")}
  <2>1. Good(x) /\ x.phase = s1.phase /\ \E i : PhaseTasks(x) = PhaseTasks(s1) \cup {i}
    BY <1>1, <1>2, PostPhaseChain
  <2>2. /\ Same(s1, x)
        /\ Tasks(x) = Tasks(s1) \cup {TaskOf("NEXT_PHASE", "NAP", "none")}
    BY <1>2, PostTaskDoes
  <2>3. QED  BY <1>2, <2>1, <2>2
<1>4. Good(y) /\ Same(s1, y) /\ Tasks(y) = Tasks(s1) /\ SamePhases(s1, y) /\ y.lock = FALSE
  BY <1>2, LockGood, LockDoes, SmallCallsChain
<1> HIDE DEF x, y
<1>5. NoNewTasks(s, x) /\ NoNewTasks(s, y)
  BY <1>2, <1>3, <1>4 DEF NoNewTasks, OnlyMessages, Message, TaskOf
<1>6. s1.phase["NAP"] < EndPhase => GoesOn(s, x)
  BY <1>2, <1>3, <1>5 DEF GoesOn, Same, SameEval
<1>7. ~ (s1.phase["NAP"] < EndPhase) => GoesOn(s, y)
  <2>1. ~ (s1.phase["NAP"] < EndPhase) => s1.phase["NAP"] = EndPhase
    BY <1>1, <1>2 DEF EndPhase
  <2>2. QED  BY <1>2, <1>4, <1>5, <2>1 DEF GoesOn, Same, SameEval, SamePhases
<1>8. SetPhaseTransitTask(s, res) = IF s1.phase["NAP"] < EndPhase THEN x ELSE y
  BY DEF SetPhaseTransitTask, x, y, s1
<1>9. QED  BY <1>6, <1>7, <1>8

(* Sleep is a phase deeper: a further phase task comes last, or the phases *)
(* are through, the lock is released and the motion detection may repeat.  *)
Deepens(s, r) ==
  /\ r.cur = s.cur /\ r.pre = s.pre /\ r.inflight = s.inflight
  /\ r.isEvaluation = s.isEvaluation /\ r.next = s.next
  /\ r.armed \subseteq s.armed \cup {"REPEATED"} /\ NoNewTasks(s, r)
  /\ r.phase["SLEEP"] = s.phase["SLEEP"] + 1 /\ Acquires(r) = Acquires(s)
  /\ \A i \in PhaseTasks(r), j \in PhaseTasks(s) : i \in PhaseTasks(s) \/ j <= i
  /\ \/ r.phase["SLEEP"] < EndPhase /\ PhaseTasks(r) # {} /\ r.armed = s.armed
     \/ r.phase["SLEEP"] = EndPhase /\ r.lock = FALSE

(* A deeper sleep is linked again.                                         *)
LEMMA DeepensLinked ==
  ASSUME NEW s, Linked(s), s.inflight = {}, s.cur = "SLEEP", s.phase["SLEEP"] < EndPhase,
         s.isEvaluation = FALSE, Acquires(s) # {} => s.phase["SLEEP"] = 0,
         \A t \in Tasks(s) : t.name \notin {"NEXT_STATE", "REPEATED"},
         NEW r, Deepens(s, r)
  PROVE  Linked(r) /\ Releases(r)
<1>1. \A t \in Tasks(r) : t.name \notin {"NEXT_STATE", "REPEATED"}
  BY DEF Deepens, NoNewTasks
<1>2. r.cur = "SLEEP" /\ r.isEvaluation = FALSE /\ r.inflight = {}
  BY DEF Deepens
<1>3. Acquires(s) \subseteq PhaseTasks(s)
  BY DEF Acquires
<1>4. "REPEATED" \notin s.armed
  <2>1. s.phase["SLEEP"] # EndPhase
    BY DEF EndPhase
  <2>2. QED  BY <2>1 DEF Linked, Chain, SleepChain
<1>5. SleepChain(r)
  <2>1. \A i \in Acquires(r), j \in PhaseTasks(r) : i <= j
    BY <1>3 DEF Deepens, Linked, Chain, SleepChain
  <2>2. Acquires(r) # {} => r.phase["SLEEP"] = 1
    BY DEF Deepens
  <2>3. "REPEATED" \in r.armed => r.phase["SLEEP"] = EndPhase
    BY <1>4 DEF Deepens
  <2>4. QED  BY <1>1, <1>2, <2>1, <2>2, <2>3 DEF SleepChain
<1>6. NapChain(r)
  BY <1>2 DEF NapChain
<1>7. Chain(r)
  BY <1>1, <1>2, <1>5, <1>6 DEF Chain
<1>8. Leads(r)
  <2>1. \A st \in {"DARK", "NAP"} : st \in r.armed => st \in s.armed
    BY DEF Deepens
  <2>2. QED  BY <1>1, <1>2, <2>1 DEF Linked, Leads, Deepens
<1>9. NoRestarts(r)
  BY DEF Linked, Deepens, NoNewTasks, NoRestarts
<1>10. Releases(r)
  BY DEF Deepens, Releases
<1>11. QED  BY <1>7, <1>8, <1>9, <1>10 DEF Linked

(* A phase of sleep.                                                       *)
LEMMA SetPhaseTransitOrRepeatedTaskDeepens ==
  ASSUME NEW s, Good(s), s.cur = "SLEEP", s.phase["SLEEP"] < EndPhase, NEW res
  PROVE  Deepens(s, SetPhaseTransitOrRepeatedTask(s, res))
<1> DEFINE s1 == NextPhase(s, "SLEEP", res)
           x  == PostTask(s1, "NEXT_PHASE", "SLEEP", "none")
           y  == ReleaseStandbyRunningLock(s1)
           z  == StartTimer(y, "REPEATED")
<1>1. s.phase["SLEEP"] \in 0..EndPhase /\ s.phase["SLEEP"] < EndPhase /\ "SLEEP" \in State
      /\ "SLEEP" \in PhasedState
  BY FieldTypes, Names
<1>2. /\ Good(s1) /\ s1.phase["SLEEP"] = s.phase["SLEEP"] + 1
      /\ PhaseTasks(s1) = PhaseTasks(s) /\ Acquires(s1) = Acquires(s)
      /\ Same(s, s1) /\ OnlyMessages(s, s1)
  BY <1>1, NextPhaseChain, NextPhaseDoes
<1> HIDE DEF s1
<1>3. /\ x.phase = s1.phase /\ Acquires(x) = Acquires(s1)
      /\ \E i : PhaseTasks(x) = PhaseTasks(s1) \cup {i} /\ \A j \in PhaseTasks(s1) : j <= i
      /\ Same(s1, x) /\ Tasks(x) = Tasks(s1) \cup {TaskOf("NEXT_PHASE", "SLEEP", "none")}
  <2>1. /\ x.phase = s1.phase /\ Acquires(x) = Acquires(s1)
        /\ \E i : PhaseTasks(x) = PhaseTasks(s1) \cup {i} /\ \A j \in PhaseTasks(s1) : j <= i
    BY <1>1, <1>2, PostPhaseChain
  <2>2. /\ Same(s1, x)
        /\ Tasks(x) = Tasks(s1) \cup {TaskOf("NEXT_PHASE", "SLEEP", "none")}
    BY <1>2, PostTaskDoes
  <2>3. QED  BY <2>1, <2>2
<1>4. Good(y) /\ Same(s1, y) /\ Tasks(y) = Tasks(s1) /\ SamePhases(s1, y) /\ y.lock = FALSE
  BY <1>2, LockGood, LockDoes, SmallCallsChain
<1> HIDE DEF x, y
<1>5. /\ SameEval(y, z) /\ Tasks(z) = Tasks(y) /\ z.armed = y.armed \cup {"REPEATED"}
      /\ z.cur = y.cur /\ z.pre = y.pre /\ z.next = y.next /\ SameChain(y, z)
  <2>1. SameChain(y, z)
    BY <1>4, SmallCallsChain
  <2>2. QED  BY <1>4, <2>1, TimerDoes
<1> HIDE DEF z
<1>6. NoNewTasks(s, x) /\ NoNewTasks(s, y) /\ NoNewTasks(s, z)
  BY <1>2, <1>3, <1>4, <1>5 DEF NoNewTasks, OnlyMessages, Message, TaskOf
<1>7. s1.phase["SLEEP"] < EndPhase => Deepens(s, x)
  BY <1>2, <1>3, <1>6 DEF Deepens, Same, SameEval
<1>8. ~ (s1.phase["SLEEP"] < EndPhase) => Deepens(s, y) /\ Deepens(s, z)
  <2>1. ~ (s1.phase["SLEEP"] < EndPhase) => s1.phase["SLEEP"] = EndPhase
    BY <1>1, <1>2 DEF EndPhase
  <2>2. /\ y.phase = s1.phase /\ y.lock = FALSE /\ z.phase = s1.phase /\ z.lock = FALSE
        /\ PhaseTasks(y) = PhaseTasks(s) /\ Acquires(y) = Acquires(s)
        /\ PhaseTasks(z) = PhaseTasks(s) /\ Acquires(z) = Acquires(s)
    BY <1>2, <1>4, <1>5 DEF SamePhases, SameChain
  <2>3. QED  BY <1>2, <1>4, <1>5, <1>6, <2>1, <2>2 DEF Deepens, Same, SameEval
<1>9. SetPhaseTransitOrRepeatedTask(s, res) =
        IF s1.phase["SLEEP"] < EndPhase THEN x ELSE IF DetectMotion THEN z ELSE y
  BY DEF SetPhaseTransitOrRepeatedTask, x, y, z, s1
<1>10. QED  BY <1>7, <1>8, <1>9

(* An evaluation that ends: whatever follows is linked, and releases the   *)
(* lock.                                                                   *)
LEMMA EndEvalLinked ==
  ASSUME SlowTimers, NEW s, Good(s), Safe(s), Linked(s), s.inflight = {},
         s.isEvaluation = TRUE, NEW res \in BOOLEAN,
         s.lock = TRUE => \/ s.cur = "NAP"
                          \/ s.cur = "DARK" /\ s.next["DARK"] # "DARK" /\ res
                          \/ s.cur = "SLEEP" /\ s.phase["SLEEP"] < EndPhase
  PROVE  LET r == EndEvalCurrentState(s, res) IN Linked(r) /\ Releases(r)
<1> DEFINE u == StopEvalution(s)
           b == BlockCurrentState(u)
           e == ExitStandby(u, "WORKING")
<1>1. Good(u) /\ Safe(u) /\ Stops(s, u) /\ Idles(s, u) /\ u.lock = s.lock
  BY StopEvalutionIdles
<1>2. s.isEvalution = TRUE
  BY DEF Safe, Agrees
<1> HIDE DEF u
<1>3. /\ u.cur = s.cur /\ u.next = s.next /\ u.inflight = {} /\ u.isEvaluation = FALSE
      /\ u.phase = s.phase
  BY <1>1 DEF Stops, Idles, SamePhases
<1>4. Linked(u)
  BY <1>1, <1>3, IdlesLinked
<1>5. s.lock \in BOOLEAN
  BY DEF Good, SMType
<1>6. /\ Linked(b)
      /\ (s.lock = TRUE => s.cur = "NAP") => b.lock = FALSE
  <2>1. Idles(u, b) /\ SameEval(u, b) /\ b.lock = IF u.cur = "NAP" THEN FALSE ELSE u.lock
    BY <1>1, BlockCurrentStateIdles
  <2>2. b.isEvaluation = FALSE
    BY <1>3, <2>1 DEF SameEval
  <2> HIDE DEF b
  <2>3. Linked(b)
    BY <1>4, <2>1, <2>2, IdlesLinked
  <2>4. QED  BY <1>1, <1>3, <1>5, <2>1, <2>3
<1>7. Good(e) /\ Linked(e) /\ e.lock = FALSE
  BY <1>1, <1>3, <1>4, ExitStandbyLinked
<1>8. ASSUME NEW n \in {"DARK", "NAP", "SLEEP"}, s.cur # "MAINTENANCE"
      PROVE  LET r == TransitToStateInner(u, n) IN Linked(r) /\ Releases(r)
  <2> DEFINE r == TransitToStateInner(u, n)
  <2>1. n \in State /\ n # "MAINTENANCE"
    BY DEF State
  <2>2. Good(r) /\ Enters(u, r, n)
    BY <1>1, <2>1, TransitToStateInnerEnters
  <2> HIDE DEF r
  <2>3. NoRestarts(u)
    BY <1>4 DEF Linked
  <2>4. Linked(r) /\ r.lock = FALSE
    BY <1>3, <1>8, <2>1, <2>2, <2>3, EntersLinked
  <2>5. QED  BY <2>4 DEF r, Releases
<1> HIDE DEF b, e
<1>9. ASSUME ~ (s.lock = TRUE) PROVE Linked(u) /\ u.lock = FALSE /\ Releases(u)
  BY <1>1, <1>4, <1>5, <1>9 DEF Releases
<1>10. CASE s.cur = "WORKING"
  <2>1. EndEvalCurrentState(s, res) = IF res THEN TransitToStateInner(u, "DARK") ELSE b
    BY <1>2, <1>10 DEF EndEvalCurrentState, EndEvalWorking, u, b
  <2>2. Linked(b) /\ Releases(b)
    BY <1>6, <1>10 DEF Releases
  <2>3. QED  BY <1>8, <1>10, <2>1, <2>2
<1>11. CASE s.cur = "DARK"
  <2> DEFINE n == u.next["DARK"]
  <2>1. EndEvalCurrentState(s, res) =
          IF ~ res THEN b ELSE IF n # "DARK" THEN TransitToStateInner(u, n) ELSE u
    BY <1>2, <1>11 DEF EndEvalCurrentState, EndEvalDark, u, b
  <2>2. n \in {"DARK", "NAP", "SLEEP"} /\ n = s.next["DARK"]
    BY <1>1, <1>3 DEF Safe, NextIn
  <2> HIDE DEF n
  <2>3. ~ res => Linked(b) /\ Releases(b)
    BY <1>6, <1>11 DEF Releases
  <2>4. QED  BY <1>8, <1>9, <1>11, <2>1, <2>2, <2>3
<1>12. CASE s.cur = "NAP"
  <2>1. u.phase["NAP"] = EndPhase /\ u.next["NAP"] # "NAP"
    BY <1>3, <1>12 DEF Linked, Chain, NapChain, Leads
  <2>2. ~ (u.phase["NAP"] < EndPhase)
    BY <2>1 DEF EndPhase
  <2>3. EndEvalCurrentState(s, res) = IF ~ res THEN e ELSE TransitToStateInner(u, "SLEEP")
    BY <1>2, <1>12, <2>1, <2>2 DEF EndEvalCurrentState, EndEvalNap, u, e
  <2>4. QED  BY <1>7, <1>8, <1>12, <2>3 DEF Releases
<1>13. CASE s.cur = "SLEEP" /\ s.phase["SLEEP"] < EndPhase
  <2> DEFINE r == SetPhaseTransitOrRepeatedTask(u, res)
  <2>1. EndEvalCurrentState(s, res) = r
    BY <1>2, <1>3, <1>13 DEF EndEvalCurrentState, EndEvalSleep, u
  <2>2. Deepens(u, r)
    BY <1>1, <1>3, <1>13, SetPhaseTransitOrRepeatedTaskDeepens
  <2> HIDE DEF r
  <2>3. Acquires(u) # {} => u.phase["SLEEP"] = 0
    <3>1. Acquires(s) # {} => s.phase["SLEEP"] = 0
      BY <1>13 DEF Linked, Chain, SleepChain
    <3>2. QED  BY <1>1, <1>3, <3>1 DEF Idles, SamePhases
  <2>4. \A t \in Tasks(u) : t.name \notin {"NEXT_STATE", "REPEATED"}
    <3>1. \A t \in Tasks(s) : t.name \notin {"NEXT_STATE", "REPEATED"}
      BY <1>13 DEF Linked, Chain, Busy
    <3>2. QED  BY <1>1, <3>1 DEF Idles, NoNewTasks
  <2>5. Linked(r) /\ Releases(r)
    BY <1>3, <1>4, <1>13, <2>2, <2>3, <2>4, DeepensLinked
  <2>6. QED  BY <2>1, <2>5
<1>14. CASE s.cur = "SLEEP" /\ ~ (s.phase["SLEEP"] < EndPhase)
  <2> DEFINE w == IF ~ res /\ u.isRepeatedDetection THEN e ELSE u
             x == [w EXCEPT !.isRepeatedDetection = FALSE]
  <2>1. EndEvalCurrentState(s, res) = x
    BY <1>2, <1>3, <1>14 DEF EndEvalCurrentState, EndEvalSleep, u, e
  <2>2. Good(w) /\ Linked(w) /\ w.lock = FALSE
    BY <1>1, <1>7, <1>9, <1>14
  <2> HIDE DEF w
  <2>3. SameChain(w, x) /\ Same(w, x) /\ Tasks(x) = Tasks(w)
    BY <2>2, OtherFieldsChain, SameFields
  <2> HIDE DEF x
  <2>4. Idles(w, x) /\ x.isEvaluation = w.isEvaluation
    <3>1. OnlyMessages(w, x)
      BY <2>3 DEF OnlyMessages
    <3>2. QED  BY <2>3, <3>1, SameIdles DEF Same, SameEval, SameChain
  <2>5. w.isEvaluation \in BOOLEAN
    BY <2>2 DEF Good, SMType
  <2>6. Linked(x) /\ x.lock = FALSE
    BY <2>2, <2>3, <2>4, <2>5, IdlesLinked DEF SameChain
  <2>7. QED  BY <2>1, <2>6 DEF Releases
<1>15. CASE s.cur = "MAINTENANCE"
  <2>1. EndEvalCurrentState(s, res) = u
    BY <1>2, <1>15 DEF EndEvalCurrentState, u
  <2>2. QED  BY <1>9, <1>15, <2>1
<1>16. s.cur \in {"WORKING", "DARK", "NAP", "MAINTENANCE", "SLEEP"}
  BY FieldTypes, Names
<1>17. QED  BY <1>10, <1>11, <1>12, <1>13, <1>14, <1>15, <1>16

(* The motion monitor leaves the chain alone; a nap that it blocks         *)
(* releases the lock.                                                      *)
LEMMA PeriodlyStartMotionDetectionIdles ==
  ASSUME NEW s, Good(s), Safe(s), s.isEvaluation = TRUE, s.monitor = "motion",
         NEW after, NEW ok
  PROVE  LET r == PeriodlyStartMotionDetection(s, after, ok)
         IN  /\ Idles(s, r) /\ r.isEvaluation = TRUE
             /\ r.lock = s.lock \/ (s.cur = "NAP" /\ r.lock = FALSE)
<1> DEFINE x == [s EXCEPT !.sensorOn = TRUE, !.delayed = after]
           y == [s EXCEPT !.sensorOn = FALSE]
           b == BlockCurrentState(y)
<1>1. /\ x.isEvaluation = TRUE /\ x.queue = s.queue /\ x.phase = s.phase /\ x.lock = s.lock
      /\ x.armed = s.armed /\ x.next = s.next /\ x.cur = s.cur /\ x.pre = s.pre
      /\ x.inflight = s.inflight
  BY DEF Good, SMType
<1>2. /\ y.isEvalution = s.isEvalution /\ y.isEvaluation = TRUE /\ y.monitor = "motion"
      /\ y.queue = s.queue /\ y.phase = s.phase /\ y.lock = s.lock
      /\ y.armed = s.armed /\ y.next = s.next /\ y.cur = s.cur /\ y.pre = s.pre
      /\ y.inflight = s.inflight
  BY DEF Good, SMType
<1>3. Good(y)
  BY SetFlag
<1> HIDE DEF x, y
<1>4. Idles(s, x) /\ Idles(s, y)
  BY <1>1, <1>2 DEF Idles, SamePhases, PhaseTasks, Acquires, NoNewTasks, NextKept, Tasks
<1>5. Safe(y)
  <2>1. Agrees(y) /\ SensorsIn(y)
    BY <1>2 DEF Safe, Agrees, SensorsIn
  <2>2. TimersIn(y) /\ TasksIn(y) /\ NextIn(y)
    BY <1>2 DEF Safe, TimersIn, TasksIn, NextIn, Tasks
  <2>3. QED  BY <2>1, <2>2 DEF Safe
<1>6. /\ Idles(y, b) /\ SameEval(y, b) /\ b.lock = IF y.cur = "NAP" THEN FALSE ELSE y.lock
  BY <1>3, <1>5, BlockCurrentStateIdles
<1> HIDE DEF b
<1>7. Idles(s, b)
  BY <1>4, <1>6, IdlesTwice
<1>8. PeriodlyStartMotionDetection(s, after, ok) = IF ok THEN x ELSE b
  BY DEF PeriodlyStartMotionDetection, x, b, y
<1>9. QED  BY <1>1, <1>2, <1>4, <1>6, <1>7, <1>8 DEF SameEval

(* An evaluation of the current state between chains: it ends at once, or  *)
(* it waits for motion, in nap perhaps with the lock held.                 *)
LEMMA StartEvalLinked ==
  ASSUME SlowTimers, NEW s, Good(s), Safe(s), Linked(s), s.inflight = {},
         NEW phase, NEW next, NEW repeated, s.isEvaluation = FALSE,
         PhaseTasks(s) = {}, s.cur = "NAP" => s.next["NAP"] # "NAP",
         s.cur = "SLEEP" => s.phase["SLEEP"] = EndPhase,
         s.lock = TRUE => s.cur = "NAP" \/ (s.cur = "DARK" /\ s.next["DARK"] # "DARK")
  PROVE  LET r == StartEvalCurrentState(s, s.cur, phase, next, repeated)
         IN  Linked(r) /\ Releases(r)
<1> DEFINE s1 == [s EXCEPT !.isEvalution = TRUE]
           s2 == [s1 EXCEPT !.isEvaluation = TRUE]
           s3 == [s2 EXCEPT !.monitor = "motion"]
           u  == [s3 EXCEPT !.delayed = <<"total">>]
           after == IF repeated THEN <<"stop", "total", "restart">>
                    ELSE <<"stop", "restart", "total">>
           m  == PeriodlyStartMotionDetection(u, after, sensorOk)
           c  == ConstraintOf(s.cur, phase, next, repeated)
           r  == StartEvalCurrentState(s, s.cur, phase, next, repeated)
<1>1. r = CASE c = "charge" -> EndEvalCurrentState(s2, ~ charging)
            [] c = "motion" -> m
            [] c = "none"   -> EndEvalCurrentState(s2, TRUE)
  BY DEF StartEvalCurrentState, StartMonitoring
<1>2. /\ c \in {"charge", "motion", "none"}
      /\ c = "charge" => s.cur = "WORKING"
      /\ c = "motion" => s.cur \in PhasedState
  BY DEF ConstraintOf, PhasedState
<1>3. Good(s2) /\ Good(u)
  <2>1. Good(s1)
    BY SetFlag
  <2> HIDE DEF s1
  <2>2. Good(s2)
    BY <2>1, SetFlag
  <2> HIDE DEF s2
  <2>3. Good(s3)
    BY <2>2, SetMonitor
  <2> HIDE DEF s3
  <2>4. <<"total">> \in Seq(MotionStep)
    BY DEF MotionStep
  <2>5. QED  BY <2>2, <2>3, <2>4, SetDelayed
<1>4. /\ s2.isEvalution = TRUE /\ s2.isEvaluation = TRUE /\ s2.queue = s.queue
      /\ s2.sensorOn = s.sensorOn /\ s2.delayed = s.delayed
      /\ s2.phase = s.phase /\ s2.lock = s.lock
      /\ s2.armed = s.armed /\ s2.next = s.next /\ s2.cur = s.cur /\ s2.pre = s.pre
      /\ s2.inflight = {}
  BY DEF Good, SMType
<1>5. /\ u.isEvalution = TRUE /\ u.isEvaluation = TRUE /\ u.monitor = "motion"
      /\ u.queue = s.queue /\ u.phase = s.phase /\ u.lock = s.lock
      /\ u.armed = s.armed /\ u.next = s.next /\ u.cur = s.cur /\ u.pre = s.pre
      /\ u.inflight = {}
  BY DEF Good, SMType
<1> HIDE DEF s1, s2, s3, u, after, c, r
<1>6. s.sensorOn = FALSE /\ s.delayed = <<>> /\ \A t \in Tasks(s) : ~ Detects(t)
  <2>1. s.sensorOn \in BOOLEAN
    BY DEF Good, SMType
  <2>2. QED  BY <2>1 DEF Safe, SensorsIn
<1>7. Safe(s2) /\ Safe(u)
  <2>1. Agrees(s2) /\ SensorsIn(s2) /\ Agrees(u) /\ SensorsIn(u)
    BY <1>4, <1>5, <1>6 DEF Agrees, SensorsIn, Tasks
  <2>2. TimersIn(s2) /\ TasksIn(s2) /\ NextIn(s2) /\ TimersIn(u) /\ TasksIn(u) /\ NextIn(u)
    BY <1>4, <1>5 DEF Safe, TimersIn, TasksIn, NextIn, Tasks
  <2>3. QED  BY <2>1, <2>2 DEF Safe
<1>8. Idles(s, s2) /\ Idles(s, u)
  BY <1>4, <1>5 DEF Idles, SamePhases, PhaseTasks, Acquires, NoNewTasks, NextKept, Tasks
<1>9. Linked(s2) /\ Linked(u)
  BY <1>4, <1>5, <1>8, IdlesLinked
<1>10. CASE c = "charge"
  <2>1. r = EndEvalCurrentState(s2, ~ charging) /\ (~ charging) \in BOOLEAN /\ s2.lock # TRUE
    BY <1>1, <1>2, <1>4, <1>10
  <2>2. Linked(r) /\ Releases(r)
    BY <1>3, <1>4, <1>7, <1>9, <2>1, EndEvalLinked
  <2>3. QED  BY <2>2 DEF r
<1>11. CASE c = "none"
  <2>1. r = EndEvalCurrentState(s2, TRUE)
    BY <1>1, <1>11
  <2>2. Linked(r) /\ Releases(r)
    BY <1>3, <1>4, <1>7, <1>9, <2>1, EndEvalLinked
  <2>3. QED  BY <2>2 DEF r
<1>12. CASE c = "motion"
  <2>1. r = m
    BY <1>1, <1>12
  <2>2. /\ Idles(u, m) /\ m.isEvaluation = TRUE
        /\ m.lock = u.lock \/ (u.cur = "NAP" /\ m.lock = FALSE)
    BY <1>3, <1>5, <1>7, PeriodlyStartMotionDetectionIdles
  <2> HIDE DEF m
  <2>3. Linked(m)
    BY <1>5, <1>9, <2>2, IdlesLinked
  <2>4. m.lock = TRUE => m.cur = "NAP"
    BY <1>2, <1>5, <1>12, <2>2 DEF PhasedState, Idles
  <2>5. QED  BY <2>1, <2>2, <2>3, <2>4 DEF r, Releases, PhasedState
<1>13. QED  BY <1>2, <1>10, <1>11, <1>12

(* What idles without taking the lock still has its releaser.              *)
LEMMA IdlesReleases ==
  ASSUME NEW s, NEW r, Idles(s, r), Releases(s), r.lock = s.lock \/ r.lock = FALSE,
         r.isEvaluation = s.isEvaluation
  PROVE  Releases(r)
BY DEF Idles, SamePhases, Releases

(* An evaluation that is already open is not begun again.                  *)
LEMMA StartEvalReleases ==
  ASSUME SlowTimers, NEW s, Good(s), Safe(s), Linked(s), Releases(s), s.inflight = {},
         NEW phase, NEW next, NEW repeated, PhaseTasks(s) = {}, s.cur # "NAP",
         s.cur = "SLEEP" => s.phase["SLEEP"] = EndPhase
  PROVE  LET r == StartEvalCurrentState(s, s.cur, phase, next, repeated)
         IN  Linked(r) /\ Releases(r)
<1> DEFINE r == StartEvalCurrentState(s, s.cur, phase, next, repeated)
<1>1. s.isEvalution \in BOOLEAN /\ s.isEvaluation \in BOOLEAN
  BY DEF Good, SMType
<1>2. CASE s.isEvaluation = TRUE
  <2>1. [s EXCEPT !.isEvalution = TRUE] = s
    BY <1>2 DEF Safe, Agrees, Good, SMType
  <2>2. r = s
    BY <1>2, <2>1 DEF StartEvalCurrentState
  <2>3. QED  BY <2>2
<1>3. CASE s.isEvaluation = FALSE
  <2>1. s.lock # TRUE
    BY <1>3 DEF Releases
  <2>2. QED  BY <1>3, <2>1, StartEvalLinked
<1>4. QED  BY <1>1, <1>2, <1>3

(* Going to work ends every chain.                                         *)
LEMMA WorkLinked ==
  ASSUME SlowTimers, NEW s, Good(s), Safe(s), Linked(s), Releases(s), s.inflight = {}
  PROVE  LET r == TransitToState(s, "WORKING") IN Linked(r) /\ Releases(r)
<1> DEFINE r == TransitToState(s, "WORKING")
<1>1. s.cur \in {"WORKING", "DARK", "NAP", "MAINTENANCE", "SLEEP"} /\ "WORKING" \in State
  BY FieldTypes, Names
<1>2. CheckTransitionValid(s.cur, "WORKING")
  BY DEF CheckTransitionValid
<1>3. CASE s.cur = "WORKING"
  <2> DEFINE u == UnblockCurrentState(s)
  <2>1. Idles(s, u) /\ SameEval(s, u) /\ u.lock = s.lock
    BY UnblockIdles
  <2>2. r = u
    BY <1>2, <1>3 DEF TransitToState
  <2> HIDE DEF u
  <2>3. u.isEvaluation = s.isEvaluation /\ s.isEvaluation \in BOOLEAN
    BY <2>1 DEF SameEval, Good, SMType
  <2>4. QED  BY <2>1, <2>2, <2>3, IdlesLinked, IdlesReleases
<1>4. CASE s.cur = "MAINTENANCE"
  <2>1. r = TransitWithMaint(s, "WORKING")
    BY <1>2, <1>4 DEF TransitToState
  <2>2. Linked(r) /\ r.lock = FALSE
    BY <1>1, <1>4, <2>1, TransitWithMaintLinked DEF PhasedState
  <2>3. QED  BY <2>2 DEF Releases
<1>5. CASE s.cur \notin {"WORKING", "MAINTENANCE"}
  <2>1. ~ (Level[s.cur] < Level["WORKING"])
    BY <1>1 DEF Level
  <2>2. r = ExitStandby(s, "WORKING")
    BY <1>2, <1>5, <2>1 DEF TransitToState
  <2>3. Linked(r) /\ r.lock = FALSE
    BY <2>2, ExitStandbyLinked
  <2>4. QED  BY <2>3 DEF Releases
<1>6. QED  BY <1>3, <1>4, <1>5

(* From work to dark, or not.                                              *)
LEMMA DarkLinked ==
  ASSUME SlowTimers, NEW s, Good(s), Safe(s), Linked(s), Releases(s), s.inflight = {},
         s.cur = "WORKING"
  PROVE  LET r == TransitToState(s, "DARK") IN Linked(r) /\ Releases(r)
<1> DEFINE u == StartEvalCurrentState(s, s.cur, PhaseOf(s), "DARK", FALSE)
<1>1. TransitToState(s, "DARK") = IF s.isBlocked THEN s ELSE u
  <2>1. CheckTransitionValid(s.cur, "DARK") /\ Level[s.cur] < Level["DARK"]
    BY DEF CheckTransitionValid, Level
  <2>2. TransitToState(s, "DARK") = EnterStandby(s, "DARK")
    BY <2>1 DEF TransitToState
  <2>3. QED  BY <2>2 DEF EnterStandby
<1>2. PhaseTasks(s) = {}
  BY NoPhaseTasks DEF PhasedState
<1>3. Linked(u) /\ Releases(u)
  BY <1>2, StartEvalReleases
<1>4. QED  BY <1>1, <1>3

(* The current state times out between chains.  It takes the lock, and     *)
(* what it asks for releases it or, in nap, evaluates the motion first.    *)
LEMMA TimeOutLinked ==
  ASSUME SlowTimers, NEW s, Good(s), Safe(s), Linked(s), s.inflight = {},
         PhaseTasks(s) = {}, s.cur # "WORKING",
         s.cur \in {"DARK", "NAP"} => s.next[s.cur] # s.cur
  PROVE  LET r == NextStateTimedOut(s, s.cur) IN Linked(r) /\ Releases(r)
<1> DEFINE a == AcquireStandbyRunningLock(s)
           u == StopEvalution(a)
           n == s.next[s.cur]
           b == BlockCurrentState(u)
           x == ReleaseStandbyRunningLock(b)
           y == TransitToState(u, n)
<1>1. Good(a) /\ Safe(a) /\ Idles(s, a)
  BY LockIdles
<1> HIDE DEF a
<1>2. Good(u) /\ Safe(u) /\ Stops(a, u) /\ Idles(a, u)
  BY <1>1, StopEvalutionIdles
<1> HIDE DEF u
<1>3. Idles(s, u)
  BY <1>1, <1>2, IdlesTwice
<1>4. /\ u.cur = s.cur /\ u.pre = s.pre /\ u.isEvaluation = FALSE /\ u.inflight = {}
      /\ PhaseTasks(u) = {}
  BY <1>2, <1>3 DEF Stops, Idles, SamePhases
<1>5. Linked(u)
  BY <1>3, <1>4, IdlesLinked
<1>6. \/ s.cur = "DARK" /\ n \in {"NAP", "SLEEP"}
      \/ s.cur = "NAP" /\ n \in {"SLEEP", "MAINTENANCE"}
      \/ s.cur = "SLEEP" /\ n = "MAINTENANCE"
      \/ s.cur = "MAINTENANCE" /\ n = s.pre /\ n \in {"NAP", "SLEEP"}
  <2>1. s.cur \in {"WORKING", "DARK", "NAP", "MAINTENANCE", "SLEEP"}
    BY FieldTypes, Names
  <2>2. QED  BY <2>1 DEF Safe, NextIn, PhasedState
<1>7. n \in State /\ (n \in PhasedState => n \in {"NAP", "SLEEP"})
  BY <1>6 DEF State, PhasedState
<1>8. u.next["DARK"] = s.next["DARK"] /\ (s.cur = "NAP" => u.next["NAP"] # "NAP")
  BY <1>3, <1>6 DEF Idles, NextKept
<1>9. n = s.next[s.cur]
  OBVIOUS
<1>10. NextStateTimedOut(s, s.cur) = IF TransitionRefused(u, n) THEN x ELSE y
  BY DEF NextStateTimedOut, x, b, y, u, a
<1> HIDE DEF n
<1>11. Linked(x) /\ Releases(x)
  <2>1. Good(b) /\ Safe(b) /\ SameEval(u, b) /\ Idles(u, b)
    BY <1>2, BlockCurrentStateIdles
  <2> HIDE DEF b
  <2>2. SameEval(b, x) /\ Idles(b, x) /\ x.lock = FALSE
    BY <2>1, LockIdles
  <2> HIDE DEF x
  <2>3. Idles(u, x) /\ x.isEvaluation = FALSE
    BY <1>4, <2>1, <2>2, IdlesTwice DEF SameEval
  <2>4. Linked(x)
    BY <1>5, <2>3, IdlesLinked
  <2>5. QED  BY <2>2, <2>4 DEF Releases
<1>12. ASSUME ~ TransitionRefused(u, n) PROVE Linked(y) /\ Releases(y)
  <2>1. CheckTransitionValid(u.cur, n) /\ u.cur # n
    BY <1>4, <1>6, <1>12 DEF TransitionRefused
  <2>2. CASE "MAINTENANCE" \in {u.cur, n}
    <3>1. y = TransitWithMaint(u, n)
      BY <2>1, <2>2 DEF TransitToState
    <3>2. /\ n # "MAINTENANCE" => u.cur = "MAINTENANCE"
          /\ n = "NAP" => u.isEvaluation = FALSE /\ n = u.pre
      BY <1>4, <1>6, <2>2
    <3>3. Linked(y) /\ y.lock = FALSE
      BY <1>2, <1>4, <1>5, <1>7, <3>1, <3>2, TransitWithMaintLinked
    <3>4. QED  BY <3>3 DEF Releases
  <2>3. CASE "MAINTENANCE" \notin {u.cur, n}
    <3>1. Level[u.cur] < Level[n]
      BY <1>4, <1>6, <2>3 DEF Level
    <3>2. ~ u.isBlocked
      BY <1>12, <2>3, <3>1 DEF TransitionRefused
    <3>3. y = StartEvalCurrentState(u, u.cur, PhaseOf(u), n, FALSE)
      BY <2>1, <2>3, <3>1, <3>2 DEF TransitToState, EnterStandby
    <3>4. /\ u.cur = "NAP" => u.next["NAP"] # "NAP"
          /\ u.cur = "NAP" \/ (u.cur = "DARK" /\ u.next["DARK"] # "DARK")
      BY <1>4, <1>6, <1>8, <1>9, <2>3
    <3> HIDE DEF y
    <3> DEFINE ph == PhaseOf(u)
               no == FALSE
               e  == StartEvalCurrentState(u, u.cur, ph, n, no)
    <3> HIDE DEF ph, no
    <3>5. u.lock = TRUE => u.cur = "NAP" \/ (u.cur = "DARK" /\ u.next["DARK"] # "DARK")
      BY <3>4
    <3>6. Linked(e) /\ Releases(e)
      BY <1>2, <1>4, <1>5, <3>4, <3>5, StartEvalLinked
    <3> HIDE DEF e
    <3>7. y = e
      BY <3>3 DEF e, ph, no
    <3>8. QED  BY <3>6, <3>7
  <2>4. QED  BY <2>2, <2>3
<1>13. QED  BY <1>10, <1>11, <1>12

(* The events of the screen move a timer that is no part of the chain.     *)
LEMMA ScreenStatusIdles ==
  ASSUME NEW s, Good(s), NEW e
  PROVE  LET r == ScreenStatus(s, e)
         IN  Idles(s, r) /\ r.lock = s.lock /\ r.isEvaluation = s.isEvaluation
<1> DEFINE r == ScreenStatus(s, e)
<1>1. /\ r.queue = s.queue /\ r.phase = s.phase /\ r.lock = s.lock
      /\ r.isEvaluation = s.isEvaluation /\ r.next = s.next /\ r.cur = s.cur /\ r.pre = s.pre
      /\ r.inflight = s.inflight /\ r.armed \subseteq s.armed \cup {"HALF_HOUR"}
  <2>1. CASE e = "SCREEN_OFF"
    BY <2>1 DEF ScreenStatus, StartTimer, Good, SMType
  <2>2. CASE e = "SCREEN_ON"
    BY <2>2 DEF ScreenStatus, StopTimer, Good, SMType
  <2>3. CASE e \notin {"SCREEN_OFF", "SCREEN_ON"}
    BY <2>3 DEF ScreenStatus
  <2>4. QED  BY <2>1, <2>2, <2>3
<1> HIDE DEF r
<1>2. Idles(s, r)
  BY <1>1 DEF Idles, SamePhases, PhaseTasks, Acquires, NoNewTasks, NextKept, Tasks
<1>3. QED  BY <1>1, <1>2 DEF r

(* A sleep that is forced on any state begins its chain, though an         *)
(* evaluation of nap may still be open; one that is there keeps its chain. *)
LEMMA HoldSleepLinked ==
  ASSUME SlowTimers, NEW s, Good(s), Safe(s), Linked(s), Releases(s), s.inflight = {}
  PROVE  LET r == TransitHoldSleepState(s) IN Linked(r) /\ Releases(r) /\ r.cur = "SLEEP"
<1> DEFINE b  == UnblockCurrentState(s)
           m  == TransitToStateInner(b, "SLEEP")
           s1 == IF s.cur = "SLEEP" THEN s ELSE m
           x  == StopTimer(s1, "SLEEP")
           r  == StopTimer(x, "REPEATED")
<1>1. "SLEEP" \in State /\ "SLEEP" \in Timer /\ "REPEATED" \in Timer
  BY Names
<1>2. Good(b) /\ Safe(b) /\ SameEval(s, b) /\ Idles(s, b)
  BY UnblockIdles
<1> HIDE DEF b
<1>3. NoRestarts(b) /\ b.inflight = {}
  BY <1>2 DEF Linked, NoRestarts, Idles, NoNewTasks
<1>4. Good(m) /\ Enters(b, m, "SLEEP")
  BY <1>1, <1>2, TransitToStateInnerEnters
<1> HIDE DEF m
<1>5. Linked(m) /\ m.lock = FALSE /\ m.cur = "SLEEP"
  <2>1. Linked(m) /\ m.lock = FALSE
    BY <1>3, <1>4, EntersLinked
  <2>2. QED  BY <1>4, <2>1 DEF Enters, Moves
<1>6. Good(s1) /\ Linked(s1) /\ Releases(s1) /\ s1.cur = "SLEEP"
  BY <1>4, <1>5 DEF Releases
<1> HIDE DEF s1
<1>7. ASSUME NEW u, Good(u), Linked(u), Releases(u), u.cur = "SLEEP", NEW t \in Timer
      PROVE  LET v == StopTimer(u, t)
             IN  Good(v) /\ Linked(v) /\ Releases(v) /\ v.cur = "SLEEP"
  <2> DEFINE v == StopTimer(u, t)
  <2>1. Good(v)
    BY <1>7, TimerGood
  <2>2. SameChain(u, v)
    BY <1>7, SmallCallsChain
  <2>3. /\ SameEval(u, v) /\ Tasks(v) = Tasks(u) /\ v.armed = u.armed \ {t}
        /\ v.cur = u.cur /\ v.pre = u.pre /\ v.next = u.next
    BY <1>7, TimerDoes
  <2> HIDE DEF v
  <2>4. Idles(u, v)
    <3>1. OnlyMessages(u, v) /\ v.armed \subseteq u.armed
      BY <2>3 DEF OnlyMessages
    <3>2. QED  BY <2>2, <2>3, <3>1, SameIdles DEF SameChain
  <2>5. v.isEvaluation = u.isEvaluation /\ v.isEvaluation \in BOOLEAN /\ v.lock = u.lock
    BY <2>1, <2>2, <2>3 DEF SameEval, SameChain, Good, SMType
  <2>6. Linked(v)
    BY <1>7, <2>4, <2>5, IdlesLinked
  <2>7. Releases(v)
    BY <1>7, <2>4, <2>5, IdlesReleases
  <2>8. QED  BY <1>7, <2>1, <2>3, <2>6, <2>7 DEF v
<1>8. Good(x) /\ Linked(x) /\ Releases(x) /\ x.cur = "SLEEP"
  BY <1>1, <1>6, <1>7
<1> HIDE DEF x
<1>9. Linked(r) /\ Releases(r) /\ r.cur = "SLEEP"
  BY <1>1, <1>7, <1>8
<1>10. QED  BY <1>9 DEF TransitHoldSleepState, r, x, s1, m, b

(* A common event other than the one that begins a sleep anew.             *)
LEMMA CommonEventLinked ==
  ASSUME SlowTimers, NEW s, Good(s), Safe(s), Linked(s), Releases(s), s.inflight = {},
         NEW e, e # "USER_AWAKE"
  PROVE  LET r == CommonEventHandled(s, e) IN Linked(r) /\ Releases(r)
<1> DEFINE s1 == ScreenStatus(s, e)
           w  == TransitToState(s1, "WORKING")
           h  == TransitHoldSleepState(s1)
           s2 == CASE e \in WakeEvent         -> w
                   [] e = "USER_SLEEP"        -> IF s1.isScreenOn THEN s1 ELSE h
                   [] e = "ENTER_FORCE_SLEEP" -> h
                   [] OTHER                   -> s1
           d  == TransitToState(s2, "DARK")
<1>1. Good(s1) /\ Safe(s1) /\ Idles(s, s1) /\ s1.lock = s.lock /\ s1.isEvaluation = s.isEvaluation
  BY ScreenStatusDoes, ScreenStatusIdles
<1>2. CommonEventHandled(s, e) = IF s2.cur = "WORKING" /\ ~ s2.isScreenOn THEN d ELSE s2
  BY DEF CommonEventHandled, HandleUserSleepState
<1> HIDE DEF s1
<1>3. Linked(s1) /\ Releases(s1) /\ s1.inflight = {}
  <2>1. s1.isEvaluation \in BOOLEAN /\ s1.inflight = {}
    BY <1>1 DEF Good, SMType, Idles
  <2>2. QED  BY <1>1, <2>1, IdlesLinked, IdlesReleases
<1>4. Good(w) /\ Safe(w) /\ Linked(w) /\ Releases(w) /\ w.inflight = {}
  <2>1. Good(w) /\ Safe(w) /\ Transits(s1, w, "WORKING")
    BY <1>1, TransitToStateGood, TransitToStateDoes, Names
  <2>2. Linked(w) /\ Releases(w)
    BY <1>1, <1>3, WorkLinked
  <2> HIDE DEF w
  <2>3. w.inflight = s1.inflight
    BY <2>1 DEF Transits, Stays, Outcome, Darkens, Settles, Wakes, Exits, Maintains, World
  <2>4. QED  BY <1>3, <2>1, <2>2, <2>3
<1>5. Linked(h) /\ Releases(h) /\ h.cur = "SLEEP"
  BY <1>1, <1>3, HoldSleepLinked
<1> HIDE DEF w, h
<1>6. s2 \in {s1, w, h}
  BY DEF WakeEvent
<1> HIDE DEF s2
<1>7. Linked(s2) /\ Releases(s2)
  BY <1>3, <1>4, <1>5, <1>6
<1>8. s2.cur = "WORKING" => Linked(d) /\ Releases(d)
  <2>1. s2.cur = "WORKING" => Good(s2) /\ Safe(s2) /\ s2.inflight = {}
    BY <1>1, <1>3, <1>4, <1>5, <1>6
  <2>2. QED  BY <1>7, <2>1, DarkLinked
<1>9. QED  BY <1>2, <1>7, <1>8

(* A task of the motion monitor.                                           *)
LEMMA MotionStepLinked ==
  ASSUME SlowTimers, NEW s, Good(s), Safe(s), Linked(s), Releases(s), s.inflight = {},
         NEW step \in MotionStep,
         step # "moved" => s.isEvaluation = TRUE /\ s.monitor = "motion"
  PROVE  LET r == MotionStepDone(s, step) IN Linked(r) /\ Releases(r)
<1> DEFINE x == [s EXCEPT !.sensorOn = FALSE]
           after == s.delayed \o <<"stop", "restart">>
           y == PeriodlyStartMotionDetection(s, after, sensorOk)
<1>1. step \in {"moved", "stop", "restart", "total"}
  BY DEF MotionStep
<1>2. s.isEvaluation \in BOOLEAN /\ s.isEvalution \in BOOLEAN
  BY DEF Good, SMType
<1>3. CASE step \in {"moved", "total"}
  <2> DEFINE res == step = "total"
             r   == EndEvalCurrentState(s, res)
  <2>1. MotionStepDone(s, step) = r /\ res \in BOOLEAN
    BY <1>3 DEF MotionStepDone
  <2> HIDE DEF res
  <2>2. CASE s.isEvaluation = TRUE
    <3>1. s.lock = TRUE => s.cur = "NAP" \/ (s.cur = "SLEEP" /\ s.phase["SLEEP"] < EndPhase)
      BY NoPhaseTasks DEF Releases, PhasedState
    <3>2. Linked(r) /\ Releases(r)
      BY <2>1, <2>2, <3>1, EndEvalLinked
    <3>3. QED  BY <2>1, <3>2
  <2>3. CASE s.isEvaluation = FALSE
    <3>1. r = s
      BY <2>3 DEF EndEvalCurrentState, Safe, Agrees
    <3>2. QED  BY <2>1, <3>1
  <2>4. QED  BY <1>2, <2>2, <2>3
<1>4. CASE step = "stop"
  <2>1. MotionStepDone(s, step) = x
    BY <1>4 DEF MotionStepDone
  <2>2. SameChain(s, x) /\ x.queue = s.queue /\ x.cur = s.cur /\ x.pre = s.pre
        /\ x.next = s.next /\ x.armed = s.armed /\ x.inflight = s.inflight
        /\ x.isEvaluation = s.isEvaluation
    BY OtherFieldsChain DEF Good, SMType
  <2> HIDE DEF x
  <2>3. Idles(s, x)
    BY <2>2 DEF SameChain, Idles, NoNewTasks, NextKept, Tasks
  <2>4. Linked(x) /\ Releases(x)
    BY <1>2, <2>2, <2>3, IdlesLinked, IdlesReleases DEF SameChain
  <2>5. QED  BY <2>1, <2>4
<1>5. CASE step = "restart"
  <2>1. MotionStepDone(s, step) = y
    BY <1>5 DEF MotionStepDone
  <2>2. /\ Idles(s, y) /\ y.isEvaluation = TRUE
        /\ y.lock = s.lock \/ (s.cur = "NAP" /\ y.lock = FALSE)
    BY <1>5, PeriodlyStartMotionDetectionIdles
  <2> HIDE DEF y
  <2>3. Linked(y) /\ Releases(y)
    BY <1>5, <2>2, IdlesLinked, IdlesReleases
  <2>4. QED  BY <2>1, <2>3
<1>6. QED  BY <1>1, <1>3, <1>4, <1>5

-----------------------------------------------------------------------------
(* The steps of the system.                                                *)

(* The queue moves up by one place.  Nap's phase task is the only one, and *)
(* its phase is to come; sleep has no second task that takes the lock.     *)
LEMMA PoppedChain ==
  ASSUME Good(sm), Safe(sm), Linked(sm), sm.queue # <<>>
  PROVE  /\ Popped.lock = sm.lock /\ Popped.phase = sm.phase
         /\ HeadTask.name = "NEXT_PHASE" /\ sm.cur = "NAP" => Waits(Popped)
         /\ HeadTask.name = "NEXT_PHASE" /\ sm.cur = "SLEEP" =>
              /\ Linked(Popped) /\ Acquires(Popped) = {}
              /\ \A t \in Tasks(Popped) : t.name \notin {"NEXT_STATE", "REPEATED"}
              /\ HeadTask.arg = "acquire" => sm.phase["SLEEP"] \in {0, 1}
         /\ HeadTask.name # "NEXT_PHASE" =>
              Linked(Popped) /\ (PhaseTasks(Popped) = {} <=> PhaseTasks(sm) = {})
<1> DEFINE q == sm.queue
           v == Tail(q)
           p == Popped
<1>1. q \in Seq(Task) /\ q # <<>>
  BY FieldTypes
<1>2. /\ Len(q) \in Nat /\ 1 \in DOMAIN q /\ DOMAIN q = 1..Len(q) /\ HeadTask = q[1]
      /\ DOMAIN v = 1..(Len(q) - 1)
      /\ \A i \in 1..(Len(q) - 1) : v[i] = q[i + 1]
  BY <1>1 DEF HeadTask
<1>3. /\ p.queue = v /\ p.lock = sm.lock /\ p.phase = sm.phase
  BY DEF Popped, Good, SMType
<1>4. Good(p) /\ Safe(p) /\ Same(sm, p) /\ HeadTask \in Tasks(sm) /\ Belongs(HeadTask, sm.cur)
  BY PoppedDoes
<1>5. /\ PhaseTasks(p) = {i \in DOMAIN v : v[i].name = "NEXT_PHASE"}
      /\ PhaseTasks(sm) = {i \in DOMAIN q : q[i].name = "NEXT_PHASE"}
      /\ Acquires(p) = {i \in PhaseTasks(p) : v[i].arg = "acquire"}
      /\ Acquires(sm) = {i \in PhaseTasks(sm) : q[i].arg = "acquire"}
  BY <1>3 DEF PhaseTasks, Acquires
<1>6. /\ \A i \in PhaseTasks(p) : i \in Nat \ {0} /\ i + 1 \in PhaseTasks(sm)
      /\ \A j \in PhaseTasks(sm) : j = 1 \/ (j - 1 \in PhaseTasks(p) /\ j \in Nat)
      /\ 1 \in PhaseTasks(sm) <=> HeadTask.name = "NEXT_PHASE"
      /\ \A i \in Acquires(p) : i + 1 \in Acquires(sm)
      /\ HeadTask.name = "NEXT_PHASE" /\ HeadTask.arg = "acquire" => 1 \in Acquires(sm)
  <2> HIDE DEF v, q, p
  <2>1. \A i \in PhaseTasks(p) : i \in Nat \ {0} /\ i + 1 \in PhaseTasks(sm)
    BY <1>2, <1>5
  <2>2. ASSUME NEW j \in PhaseTasks(sm), j # 1 PROVE j - 1 \in PhaseTasks(p) /\ j \in Nat
    <3>1. j \in 1..Len(q) /\ q[j].name = "NEXT_PHASE"
      BY <1>2, <1>5
    <3>2. j - 1 \in 1..(Len(q) - 1) /\ (j - 1) + 1 = j
      BY <1>2, <2>2, <3>1
    <3>3. v[j - 1] = q[j]
      BY <1>2, <3>2
    <3>4. QED  BY <1>2, <1>5, <3>1, <3>2, <3>3
  <2>3. 1 \in PhaseTasks(sm) <=> HeadTask.name = "NEXT_PHASE"
    BY <1>2, <1>5
  <2>4. \A i \in Acquires(p) : i + 1 \in Acquires(sm)
    BY <1>2, <1>5, <2>1
  <2>5. HeadTask.name = "NEXT_PHASE" /\ HeadTask.arg = "acquire" => 1 \in Acquires(sm)
    BY <1>2, <1>5, <2>3
  <2>6. QED  BY <2>1, <2>2, <2>3, <2>4, <2>5
<1>7. Tasks(p) \subseteq Tasks(sm)
  <2>1. \A i \in DOMAIN v : v[i] \in {q[j] : j \in DOMAIN q}
    BY <1>2
  <2> HIDE DEF v, q
  <2>2. QED  BY <1>3, <2>1 DEF Tasks, q
<1>8. Acquires(p) \subseteq PhaseTasks(p) /\ Acquires(sm) \subseteq PhaseTasks(sm)
  BY <1>5
<1> HIDE DEF q, v, p
<1>9. /\ p.cur = sm.cur /\ p.pre = sm.pre /\ p.next = sm.next /\ p.armed = sm.armed
      /\ p.inflight = sm.inflight /\ p.isEvaluation = sm.isEvaluation
  BY <1>4 DEF Same, SameEval
<1>10. Leads(p) /\ NoRestarts(p)
  BY <1>7, <1>9 DEF Linked, Leads, NoRestarts
<1>11. SleepChain(p)
  <2>1. ASSUME NEW i \in Acquires(p), NEW j \in PhaseTasks(p) PROVE i <= j
    <3>1. i + 1 \in Acquires(sm) /\ j + 1 \in PhaseTasks(sm) /\ i \in Nat /\ j \in Nat
      BY <1>6, <1>8
    <3>2. i + 1 <= j + 1
      BY <3>1 DEF Linked, Chain, SleepChain
    <3>3. QED  BY <3>1, <3>2
  <2>2. Acquires(p) # {} => Acquires(sm) # {}
    BY <1>6
  <2>3. QED  BY <1>3, <1>7, <1>9, <2>1, <2>2 DEF Linked, Chain, SleepChain
<1>12. PhaseTasks(p) # {} => PhaseTasks(sm) # {}
  BY <1>6
<1>13. /\ Busy(sm) => /\ sm.inflight \cap (StateTimer \cup {"REPEATED"}) = {}
                      /\ \A t \in Tasks(sm) : t.name \notin {"NEXT_STATE", "REPEATED"}
       /\ Busy(p) => /\ p.inflight \cap (StateTimer \cup {"REPEATED"}) = {}
                     /\ \A t \in Tasks(p) : t.name \notin {"NEXT_STATE", "REPEATED"}
  BY <1>3, <1>7, <1>9, <1>12 DEF Linked, Chain, Busy
<1>14. CASE HeadTask.name = "NEXT_PHASE" /\ sm.cur = "NAP"
  <2>1. PICK k : PhaseTasks(sm) \subseteq {k}
    BY <1>14 DEF Linked, Chain, NapChain
  <2>2. 1 \in PhaseTasks(sm) /\ k = 1
    BY <1>6, <1>14, <2>1
  <2>3. PhaseTasks(p) = {}
    BY <1>6, <2>1, <2>2
  <2>4. sm.phase["NAP"] # EndPhase /\ sm.phase["NAP"] \in 0..EndPhase
    BY <1>14, <2>2, FieldTypes, Names DEF Linked, Chain, NapChain
  <2>5. p.phase["NAP"] < EndPhase
    BY <1>3, <2>4 DEF EndPhase
  <2>6. /\ p.isEvaluation = FALSE
        /\ \A t \in Tasks(p) : t.name \notin {"NEXT_STATE", "REPEATED"}
    BY <1>7, <1>9, <1>13, <1>14, <2>2 DEF Linked, Chain, NapChain, Busy
  <2>7. "REPEATED" \notin p.armed
    BY <1>4, <1>9, <1>14 DEF Safe, TimersIn
  <2>8. Waits(p)
    BY <1>9, <1>10, <1>14, <2>3, <2>5, <2>6, <2>7 DEF Waits
  <2>9. QED  BY <1>3, <1>14, <2>8 DEF p
<1>15. CASE HeadTask.name = "NEXT_PHASE" /\ sm.cur = "SLEEP"
  <2>1. ASSUME NEW i \in Acquires(p) PROVE FALSE
    <3>1. i + 1 \in Acquires(sm) /\ 1 \in PhaseTasks(sm) /\ i \in Nat \ {0}
      BY <1>6, <1>8, <1>15
    <3>2. i + 1 <= 1
      BY <3>1 DEF Linked, Chain, SleepChain
    <3>3. QED  BY <3>1, <3>2
  <2>2. NapChain(p)
    BY <1>9, <1>15 DEF NapChain
  <2>3. Linked(p)
    BY <1>10, <1>11, <1>13, <2>2 DEF Linked, Chain
  <2>4. HeadTask.arg = "acquire" => sm.phase["SLEEP"] \in {0, 1}
    BY <1>6, <1>15 DEF Linked, Chain, SleepChain
  <2>5. \A t \in Tasks(p) : t.name \notin {"NEXT_STATE", "REPEATED"}
    BY <1>6, <1>7, <1>13, <1>15 DEF Busy
  <2>6. QED  BY <1>3, <1>15, <2>1, <2>3, <2>4, <2>5 DEF p
<1>16. CASE HeadTask.name # "NEXT_PHASE"
  <2>1. PhaseTasks(p) = {} <=> PhaseTasks(sm) = {}
    BY <1>6, <1>16
  <2>2. ASSUME NEW k, PhaseTasks(sm) \subseteq {k} PROVE PhaseTasks(p) \subseteq {k - 1}
    BY <1>6, <2>2
  <2>3. NapChain(p)
    BY <1>3, <1>9, <2>1, <2>2 DEF Linked, Chain, NapChain
  <2>4. Linked(p)
    BY <1>10, <1>11, <1>13, <2>3 DEF Linked, Chain
  <2>5. QED  BY <1>3, <1>16, <2>1, <2>4 DEF p
<1>17. HeadTask.name = "NEXT_PHASE" => sm.cur \in {"NAP", "SLEEP"}
  BY <1>4 DEF Belongs, PhasedState
<1>18. QED  BY <1>14, <1>15, <1>16, <1>17

(* What idles between two phases goes on waiting for the next.             *)
LEMMA WaitsOn ==
  ASSUME NEW s, Waits(s), NEW r, Idles(s, r), r.isEvaluation = FALSE
  PROVE  Waits(r)
<1>1. /\ r.cur = "NAP" /\ r.phase = s.phase /\ PhaseTasks(r) = {}
      /\ r.inflight = s.inflight /\ "REPEATED" \notin r.armed
  BY DEF Idles, SamePhases, Waits
<1>2. r.phase["NAP"] < EndPhase
  BY <1>1 DEF Waits
<1>3. /\ \A t \in Tasks(r) : t.name \notin {"NEXT_STATE", "REPEATED"}
      /\ NoRestarts(r)
  BY DEF Waits, Idles, NoNewTasks, NoRestarts
<1>4. \A st \in {"DARK", "NAP"} : st \in r.armed => st \in s.armed \/ r.next[st] # st
  BY DEF Idles
<1>5. \A st \in {"DARK", "NAP"} : s.next[st] # st => r.next[st] # st
  BY DEF Idles, NextKept
<1>6. Leads(r)
  BY <1>1, <1>3, <1>4, <1>5 DEF Waits, Leads
<1>7. QED  BY <1>1, <1>2, <1>3, <1>6 DEF Waits

(* The task of a phase asks no constraint: it ends an evaluation of its    *)
(* own at once, with the state as it was.                                  *)
LEMMA PhaseStops ==
  ASSUME NEW s, Good(s), Safe(s), s.isEvaluation = FALSE,
         s.cur = "SLEEP" \/ (s.cur = "NAP" /\ s.phase["NAP"] < EndPhase)
  PROVE  \E u : /\ Good(u) /\ Idles(s, u) /\ u.isEvaluation = FALSE /\ u.lock = s.lock
                /\ TransitToPhase(s, s.cur) = IF s.cur = "NAP" THEN EndEvalNap(u, TRUE)
                                              ELSE EndEvalSleep(u, TRUE)
<1> DEFINE s1 == [s EXCEPT !.isEvalution = TRUE]
           s2 == [s1 EXCEPT !.isEvaluation = TRUE]
           u  == StopEvalution(s2)
           c  == ConstraintOf(s.cur, s.phase[s.cur], s.cur, FALSE)
           r  == TransitToPhase(s, s.cur)
<1>1. c = "none"
  <2>1. s.cur = "NAP" => s.phase["NAP"] # EndPhase
    BY DEF EndPhase
  <2>2. QED  BY <2>1 DEF ConstraintOf
<1>2. r = EndEvalCurrentState(s2, TRUE)
  BY <1>1 DEF TransitToPhase, StartEvalCurrentState
<1>3. Good(s2)
  <2>1. Good(s1)
    BY SetFlag
  <2> HIDE DEF s1
  <2>2. QED  BY <2>1, SetFlag
<1>4. /\ s2.isEvalution = TRUE /\ s2.isEvaluation = TRUE /\ s2.queue = s.queue
      /\ s2.sensorOn = s.sensorOn /\ s2.delayed = s.delayed /\ s2.phase = s.phase
      /\ s2.armed = s.armed /\ s2.next = s.next /\ s2.cur = s.cur /\ s2.pre = s.pre
      /\ s2.inflight = s.inflight /\ s2.lock = s.lock
  BY DEF Good, SMType
<1> HIDE DEF s1, s2, c, r
<1>5. s.sensorOn = FALSE /\ s.delayed = <<>> /\ \A t \in Tasks(s) : ~ Detects(t)
  <2>1. s.sensorOn \in BOOLEAN
    BY DEF Good, SMType
  <2>2. QED  BY <2>1 DEF Safe, SensorsIn
<1>6. Safe(s2)
  <2>1. Agrees(s2) /\ SensorsIn(s2)
    BY <1>4, <1>5 DEF Agrees, SensorsIn, Tasks
  <2>2. TimersIn(s2) /\ TasksIn(s2) /\ NextIn(s2)
    BY <1>4 DEF Safe, TimersIn, TasksIn, NextIn, Tasks
  <2>3. QED  BY <2>1, <2>2 DEF Safe
<1>7. Good(u) /\ Stops(s2, u) /\ Idles(s2, u) /\ u.lock = s2.lock
  BY <1>3, <1>6, StopEvalutionIdles
<1>8. r = IF s.cur = "NAP" THEN EndEvalNap(u, TRUE) ELSE EndEvalSleep(u, TRUE)
  BY <1>2, <1>4 DEF EndEvalCurrentState
<1> HIDE DEF u
<1>9. Idles(s, s2)
  BY <1>4 DEF Idles, SamePhases, PhaseTasks, Acquires, NoNewTasks, NextKept, Tasks
<1>10. Idles(s, u)
  BY <1>7, <1>9, IdlesTwice
<1>11. u.isEvaluation = FALSE /\ u.lock = s.lock
  BY <1>4, <1>7 DEF Stops
<1>12. QED  BY <1>7, <1>8, <1>10, <1>11 DEF r

(* A phase of nap that was to come: its task posts the next one or         *)
(* releases the lock.                                                      *)
LEMMA NapPhaseLinked ==
  ASSUME NEW s, Good(s), Safe(s), Waits(s), s.inflight = {}
  PROVE  LET r == TransitToPhase(s, "NAP") IN Linked(r) /\ Releases(r)
<1> DEFINE r == TransitToPhase(s, "NAP")
<1>1. s.cur = "NAP" /\ s.phase["NAP"] < EndPhase /\ s.isEvaluation = FALSE
  BY DEF Waits
<1>2. PICK u : /\ Good(u) /\ Idles(s, u) /\ u.isEvaluation = FALSE
               /\ r = EndEvalNap(u, TRUE)
  BY <1>1, PhaseStops
<1>3. u.cur = "NAP" /\ u.phase = s.phase /\ u.inflight = {}
  BY <1>1, <1>2 DEF Idles, SamePhases
<1>4. Waits(u)
  BY <1>2, WaitsOn
<1>5. r = SetPhaseTransitTask(u, TRUE)
  BY <1>1, <1>2, <1>3 DEF EndEvalNap
<1> HIDE DEF r
<1>6. GoesOn(u, r)
  BY <1>2, <1>3, <1>4, <1>5, SetPhaseTransitTaskGoesOn
<1>7. QED  BY <1>3, <1>4, <1>6, GoesOnLinked DEF r

(* A phase task of sleep: it finds an evaluation open, goes a phase on or  *)
(* finds the phases through.                                               *)
LEMMA SleepPhaseLinked ==
  ASSUME NEW s, Good(s), Safe(s), Linked(s), s.inflight = {}, s.cur = "SLEEP",
         Acquires(s) = {}, s.lock = TRUE => s.phase["SLEEP"] < EndPhase,
         \A t \in Tasks(s) : t.name \notin {"NEXT_STATE", "REPEATED"}
  PROVE  LET r == TransitToPhase(s, "SLEEP") IN Linked(r) /\ Releases(r)
<1> DEFINE r == TransitToPhase(s, "SLEEP")
<1>1. s.isEvaluation \in BOOLEAN /\ s.lock \in BOOLEAN
  BY DEF Good, SMType
<1>2. CASE s.isEvaluation = TRUE
  <2>1. [s EXCEPT !.isEvalution = TRUE] = s
    BY <1>2 DEF Safe, Agrees, Good, SMType
  <2>2. r = s
    BY <1>2, <2>1 DEF TransitToPhase, StartEvalCurrentState
  <2>3. QED  BY <1>2, <2>2 DEF Releases, PhasedState
<1>3. CASE s.isEvaluation = FALSE
  <2>1. PICK u : /\ Good(u) /\ Idles(s, u) /\ u.isEvaluation = FALSE /\ u.lock = s.lock
                 /\ r = EndEvalSleep(u, TRUE)
    BY <1>3, PhaseStops
  <2>2. /\ u.cur = "SLEEP" /\ u.phase = s.phase /\ u.inflight = {} /\ Acquires(u) = {}
        /\ \A t \in Tasks(u) : t.name \notin {"NEXT_STATE", "REPEATED"}
    BY <2>1 DEF Idles, SamePhases, NoNewTasks
  <2>3. Linked(u)
    BY <1>3, <2>1, IdlesLinked
  <2>4. CASE u.phase["SLEEP"] < EndPhase
    <3>1. r = SetPhaseTransitOrRepeatedTask(u, TRUE)
      BY <2>1, <2>4 DEF EndEvalSleep
    <3> HIDE DEF r
    <3>2. Deepens(u, r)
      BY <2>1, <2>2, <2>4, <3>1, SetPhaseTransitOrRepeatedTaskDeepens
    <3>3. QED  BY <2>1, <2>2, <2>3, <2>4, <3>2, DeepensLinked DEF r
  <2>5. CASE ~ (u.phase["SLEEP"] < EndPhase)
    <3> DEFINE x == [u EXCEPT !.isRepeatedDetection = FALSE]
    <3>1. r = x
      BY <2>1, <2>5 DEF EndEvalSleep
    <3>2. SameChain(u, x) /\ Same(u, x) /\ Tasks(x) = Tasks(u)
      BY <2>1, OtherFieldsChain, SameFields
    <3> HIDE DEF x, r
    <3>3. Idles(u, x) /\ x.isEvaluation = FALSE
      <4>1. OnlyMessages(u, x)
        BY <3>2 DEF OnlyMessages
      <4>2. QED  BY <2>1, <3>2, <4>1, SameIdles DEF Same, SameEval, SameChain
    <3>4. Linked(x)
      BY <2>1, <2>3, <3>3, IdlesLinked
    <3>5. x.lock = FALSE
      BY <1>1, <2>1, <2>2, <2>5, <3>2 DEF SameChain
    <3>6. QED  BY <3>1, <3>4, <3>5 DEF Releases, r
  <2>6. QED  BY <2>4, <2>5
<1>4. QED  BY <1>1, <1>2, <1>3

(* Each task of the handler keeps the chain linked.                        *)
LEMMA HandlerLinked ==
  ASSUME SlowTimers, Good(sm), Safe(sm), Linked(sm), Releases(sm), Handler
  PROVE  Linked(sm') /\ Releases(sm')
<1>1. sm.queue # <<>> /\ sm.inflight = {}
  BY DEF Handler, HandleCommonEvent, CheckScreenStatus, TransitNextState, TransitNextPhase,
         StartPeriodlyMotionDetection, MotionDetection, DispatchMessage, Running
<1> DEFINE p == Popped
<1>2. /\ Good(p) /\ Safe(p) /\ HeadTask \in Task /\ HeadTask \in Tasks(sm)
      /\ Belongs(HeadTask, sm.cur)
  BY <1>1, PoppedDoes
<1>3. /\ p.cur = sm.cur /\ p.isEvaluation = sm.isEvaluation /\ p.monitor = sm.monitor
      /\ p.next = sm.next /\ p.inflight = {}
  BY <1>1, PoppedDoes DEF Same, SameEval
<1>4. /\ p.lock = sm.lock /\ p.phase = sm.phase
      /\ HeadTask.name = "NEXT_PHASE" /\ sm.cur = "NAP" => Waits(p)
      /\ HeadTask.name = "NEXT_PHASE" /\ sm.cur = "SLEEP" =>
           /\ Linked(p) /\ Acquires(p) = {}
           /\ \A t \in Tasks(p) : t.name \notin {"NEXT_STATE", "REPEATED"}
           /\ HeadTask.arg = "acquire" => sm.phase["SLEEP"] \in {0, 1}
      /\ HeadTask.name # "NEXT_PHASE" => Linked(p) /\ (PhaseTasks(p) = {} <=> PhaseTasks(sm) = {})
  BY <1>1, PoppedChain
<1> HIDE DEF p
<1>5. HeadTask.name # "NEXT_PHASE" => Linked(p) /\ Releases(p)
  BY <1>3, <1>4 DEF Releases
<1>6. /\ HeadTask.name \in {"NEXT_STATE", "REPEATED"} => PhaseTasks(p) = {}
      /\ HeadTask.name = "REPEATED" => p.phase["SLEEP"] = EndPhase
  <2>1. HeadTask.name \in {"NEXT_STATE", "REPEATED"} => PhaseTasks(sm) = {}
    BY <1>2 DEF Linked, Chain, Busy
  <2>2. HeadTask.name = "REPEATED" => sm.phase["SLEEP"] = EndPhase
    BY <1>2 DEF Linked, Chain, SleepChain
  <2>3. QED  BY <1>4, <2>1, <2>2
<1>7. CASE HandleCommonEvent
  <2>1. HeadTask.name = "EVENT" /\ sm' = CommonEventHandled(p, HeadTask.arg)
    BY <1>7 DEF HandleCommonEvent, Running, HeadTask, p
  <2>2. HeadTask.arg # "USER_AWAKE"
    BY <1>2, <2>1 DEF Linked, NoRestarts
  <2>3. QED  BY <1>2, <1>3, <1>5, <2>1, <2>2, CommonEventLinked
<1>8. CASE CheckScreenStatus
  <2>1. HeadTask.name = "CONDITION" /\ sm' = IF sm.isScreenOn THEN p ELSE TransitToState(p, "DARK")
    BY <1>8 DEF CheckScreenStatus, Running, HeadTask, p
  <2>2. p.cur = "WORKING" /\ Linked(p) /\ Releases(p)
    BY <1>2, <1>3, <1>5, <2>1 DEF Belongs
  <2>3. QED  BY <1>2, <1>3, <2>1, <2>2, DarkLinked
<1>9. CASE TransitNextState
  <2>1. HeadTask.name = "NEXT_STATE" /\ sm' = NextStateTimedOut(p, HeadTask.owner)
    BY <1>9 DEF TransitNextState, Running, HeadTask, p
  <2>2. HeadTask.owner = p.cur /\ p.cur # "WORKING"
    BY <1>2, <1>3, <2>1 DEF Belongs
  <2>3. p.cur \in {"DARK", "NAP"} => p.next[p.cur] # p.cur
    BY <1>2, <1>3, <2>1, <2>2 DEF Linked, Leads
  <2>4. Linked(p) /\ PhaseTasks(p) = {}
    BY <1>5, <1>6, <2>1
  <2>5. QED  BY <1>2, <1>3, <2>1, <2>2, <2>3, <2>4, TimeOutLinked
<1>10. CASE TransitNextPhase
  <2> DEFINE a == AcquireStandbyRunningLock(p)
             u == IF HeadTask.arg = "acquire" THEN a ELSE p
  <2>1. Good(a) /\ Safe(a) /\ SameEval(p, a) /\ Idles(p, a)
    BY <1>2, LockIdles
  <2>2. HeadTask.name = "NEXT_PHASE" /\ sm' = TransitToPhase(u, HeadTask.owner)
    BY <1>10 DEF TransitNextPhase, Running, HeadTask, p
  <2> HIDE DEF a
  <2>3. HeadTask.owner = p.cur /\ p.cur \in {"NAP", "SLEEP"}
    BY <1>2, <1>3, <2>2 DEF Belongs, PhasedState
  <2>4. a.isEvaluation = p.isEvaluation /\ a.isEvaluation \in BOOLEAN /\ a.cur = p.cur
        /\ a.inflight = {} /\ a.phase = p.phase /\ Acquires(a) = Acquires(p)
    BY <1>3, <2>1 DEF SameEval, Idles, SamePhases, Good, SMType
  <2>5. Good(u) /\ Safe(u) /\ u.inflight = {} /\ u.cur = p.cur
    BY <1>2, <1>3, <2>1, <2>4
  <2>6. CASE p.cur = "NAP"
    <3>1. Waits(p)
      BY <1>3, <1>4, <2>2, <2>6
    <3>2. p.isEvaluation = FALSE
      BY <3>1 DEF Waits
    <3>3. Waits(a)
      BY <2>1, <2>4, <3>1, <3>2, WaitsOn
    <3>4. Waits(u)
      BY <3>1, <3>3
    <3> HIDE DEF u
    <3>5. QED  BY <2>2, <2>3, <2>5, <2>6, <3>4, NapPhaseLinked
  <2>7. CASE p.cur = "SLEEP"
    <3>1. /\ Linked(p) /\ Acquires(p) = {}
          /\ HeadTask.arg = "acquire" => p.phase["SLEEP"] \in {0, 1}
      BY <1>3, <1>4, <2>2, <2>7
    <3>2. Linked(a)
      BY <2>1, <2>4, <3>1, IdlesLinked
    <3>3. \A t \in Tasks(p) : t.name \notin {"NEXT_STATE", "REPEATED"}
      BY <1>3, <1>4, <2>2, <2>7
    <3>4. \A t \in Tasks(a) : t.name \notin {"NEXT_STATE", "REPEATED"}
      BY <2>1, <3>3 DEF Idles, NoNewTasks
    <3>5. u.lock = TRUE => u.phase["SLEEP"] < EndPhase
      <4>1. 0 < EndPhase /\ 1 < EndPhase
        BY DEF EndPhase
      <4>2. p.lock = TRUE => p.phase["SLEEP"] < EndPhase
        BY <1>3, <1>4, <2>7 DEF Releases
      <4>3. QED  BY <2>4, <3>1, <4>1, <4>2
    <3>6. Linked(u) /\ Acquires(u) = {}
          /\ \A t \in Tasks(u) : t.name \notin {"NEXT_STATE", "REPEATED"}
      BY <2>4, <3>1, <3>2, <3>3, <3>4
    <3> HIDE DEF u
    <3>7. QED  BY <2>2, <2>3, <2>5, <2>7, <3>5, <3>6, SleepPhaseLinked
  <2>8. QED  BY <2>3, <2>6, <2>7
<1>11. CASE StartPeriodlyMotionDetection
  <2> DEFINE u == [p EXCEPT !.isRepeatedDetection = TRUE]
             ph == p.phase["SLEEP"]
             slp == "SLEEP"
             yes == TRUE
  <2>1. Good(u) /\ Same(p, u) /\ Tasks(u) = Tasks(p) /\ SameChain(p, u)
    BY <1>2, SetFlag, SameFields, OtherFieldsChain
  <2>2. HeadTask.name = "REPEATED" /\ sm' = StartEvalCurrentState(u, slp, ph, slp, yes)
    BY <1>11 DEF StartPeriodlyMotionDetection, PeriodlyMotionDetected, Running, HeadTask, p
  <2> HIDE DEF u
  <2>3. Safe(u) /\ Idles(p, u)
    <3>1. OnlyMessages(p, u)
      BY <2>1 DEF OnlyMessages
    <3>2. QED  BY <1>2, <2>1, <3>1, SameSafe, SameIdles DEF Same, SameChain
  <2>4. p.cur = "SLEEP" /\ Linked(p) /\ Releases(p) /\ PhaseTasks(p) = {}
    BY <1>2, <1>3, <1>5, <1>6, <2>2 DEF Belongs
  <2>5. /\ u.cur = slp /\ PhaseTasks(u) = {} /\ u.inflight = {} /\ u.lock = p.lock
        /\ u.phase = p.phase
        /\ u.isEvaluation = p.isEvaluation /\ u.isEvaluation \in BOOLEAN
    BY <1>3, <2>1, <2>4 DEF Same, SameEval, SameChain, SamePhases, Good, SMType
  <2>6. Linked(u) /\ Releases(u)
    BY <2>3, <2>4, <2>5, IdlesLinked, IdlesReleases
  <2>7. u.cur # "NAP" /\ u.phase["SLEEP"] = EndPhase
    BY <1>6, <2>2, <2>5
  <2> HIDE DEF ph, slp, yes
  <2>8. QED  BY <2>1, <2>2, <2>3, <2>5, <2>6, <2>7, StartEvalReleases
<1>12. CASE MotionDetection
  <2>1. HeadTask.name = "MOTION" /\ sm' = MotionStepDone(p, HeadTask.arg)
    BY <1>12 DEF MotionDetection, Running, HeadTask, p
  <2>2. HeadTask.arg \in MotionStep
    BY <1>2, <2>1 DEF Task
  <2>3. HeadTask.arg # "moved" => sm.isEvaluation /\ sm.monitor = "motion"
    BY <1>2, <2>1 DEF Safe, SensorsIn, Detects
  <2>4. sm.isEvaluation \in BOOLEAN
    BY Flags
  <2>5. HeadTask.arg # "moved" => p.isEvaluation = TRUE /\ p.monitor = "motion"
    BY <1>3, <2>3, <2>4
  <2>6. QED  BY <1>2, <1>3, <1>5, <2>1, <2>2, <2>5, MotionStepLinked
<1>13. CASE DispatchMessage
  <2>1. sm' = p /\ HeadTask.name # "NEXT_PHASE"
    BY <1>13 DEF DispatchMessage, Running, HeadTask, p
  <2>2. QED  BY <1>5, <2>1
<1>14. QED
  BY <1>7, <1>8, <1>9, <1>10, <1>11, <1>12, <1>13 DEF Handler

(* A task that another thread posts is no phase task and no restart, and   *)
(* that of a timer comes between chains.                                   *)
LEMMA PostLinked ==
  ASSUME NEW s, Good(s), Linked(s), Releases(s), NEW n, NEW o, NEW a,
         n # "NEXT_PHASE", n = "EVENT" => a # "USER_AWAKE",
         n \in {"NEXT_STATE", "REPEATED"} => ~ Busy(s),
         n = "REPEATED" => s.phase["SLEEP"] = EndPhase,
         n = "NEXT_STATE" /\ o \in {"DARK", "NAP"} => s.next[o] # o
  PROVE  LET r == PostTask(s, n, o, a) IN Linked(r) /\ Releases(r)
<1> DEFINE x == TaskOf(n, o, a)
           r == PostTask(s, n, o, a)
<1>1. Same(s, r) /\ Tasks(r) = Tasks(s) \cup {x}
  BY PostTaskDoes
<1>2. r.lock = s.lock /\ r.phase = s.phase /\ PhaseTasks(r) = PhaseTasks(s)
      /\ Acquires(r) = Acquires(s)
  BY PostTaskChain
<1>3. x.name = n /\ x.owner = o /\ x.arg = a
  BY DEF TaskOf
<1> HIDE DEF x, r
<1>4. /\ r.cur = s.cur /\ r.pre = s.pre /\ r.next = s.next /\ r.armed = s.armed
      /\ r.inflight = s.inflight /\ r.isEvaluation = s.isEvaluation
  BY <1>1 DEF Same, SameEval
<1>5. Chain(r)
  <2>1. NapChain(r)
    BY <1>2, <1>4 DEF Linked, Chain, NapChain
  <2>2. SleepChain(r)
    BY <1>1, <1>2, <1>3, <1>4 DEF Linked, Chain, SleepChain
  <2>3. Busy(r) <=> Busy(s)
    BY <1>2, <1>4 DEF Busy
  <2>4. QED  BY <1>1, <1>3, <1>4, <2>1, <2>2, <2>3 DEF Linked, Chain
<1>6. Leads(r)
  <2>1. ASSUME NEW st \in {"DARK", "NAP"},
               \/ st \in r.armed \cup r.inflight
               \/ \E t \in Tasks(r) : t.name = "NEXT_STATE" /\ t.owner = st
        PROVE  r.next[st] # st
    BY <1>1, <1>3, <1>4, <2>1 DEF Linked, Leads
  <2>2. QED  BY <1>4, <2>1 DEF Linked, Leads
<1>7. NoRestarts(r)
  BY <1>1, <1>3 DEF Linked, NoRestarts
<1>8. Releases(r)
  BY <1>2, <1>4 DEF Releases
<1>9. QED  BY <1>5, <1>6, <1>7, <1>8 DEF Linked, r

(* A callback that is issued was armed; a chain knows only those of the    *)
(* sensors and of the half hour.                                           *)
LEMMA CallbackLinked ==
  ASSUME NEW s, Linked(s), Releases(s), NEW r,
         r.queue = s.queue, r.phase = s.phase, r.lock = s.lock, r.next = s.next,
         r.isEvaluation = s.isEvaluation, r.cur = s.cur, r.pre = s.pre,
         r.armed \subseteq s.armed,
         r.inflight \subseteq s.inflight \cup s.armed \cup {"SENSOR"},
         Busy(s) => r.inflight \subseteq s.inflight \cup {"SENSOR", "HALF_HOUR"}
  PROVE  Linked(r) /\ Releases(r)
<1>1. PhaseTasks(r) = PhaseTasks(s) /\ Acquires(r) = Acquires(s) /\ Tasks(r) = Tasks(s)
  BY DEF PhaseTasks, Acquires, Tasks
<1>2. {"SENSOR", "HALF_HOUR"} \cap (StateTimer \cup {"REPEATED"}) = {}
  BY DEF StateTimer
<1>3. Chain(r)
  <2>1. NapChain(r)
    BY <1>1 DEF Linked, Chain, NapChain
  <2>2. "REPEATED" \in r.armed \cup r.inflight => "REPEATED" \in s.armed \cup s.inflight
    OBVIOUS
  <2>3. SleepChain(r)
    BY <1>1, <2>2 DEF Linked, Chain, SleepChain
  <2>4. Busy(r) <=> Busy(s)
    BY <1>1 DEF Busy
  <2>5. QED  BY <1>1, <1>2, <2>1, <2>3, <2>4 DEF Linked, Chain
<1>4. Leads(r)
  <2>1. ASSUME NEW st \in {"DARK", "NAP"},
               \/ st \in r.armed \cup r.inflight
               \/ \E t \in Tasks(r) : t.name = "NEXT_STATE" /\ t.owner = st
        PROVE  r.next[st] # st
    BY <1>1, <2>1 DEF Linked, Leads
  <2>2. QED  BY <2>1 DEF Linked, Leads
<1>5. NoRestarts(r) /\ Releases(r)
  BY <1>1 DEF Linked, NoRestarts, Releases
<1>6. QED  BY <1>3, <1>4, <1>5 DEF Linked

(* The other threads keep the chain linked: nothing of theirs is under way *)
(* during it but the half-hour callback and the sensors'.                  *)
LEMMA OthersLinked ==
  ASSUME SlowTimers, "USER_AWAKE" \notin Events,
         Good(sm), Safe(sm), Linked(sm), Releases(sm), Others
  PROVE  Linked(sm') /\ Releases(sm')
<1>1. sm.inflight \in SUBSET (Timer \cup {"SENSOR"}) /\ sm.armed \in SUBSET Timer
      /\ sm.isEvaluation \in BOOLEAN
  BY FieldTypes, Flags
<1>2. ASSUME NEW e, PostEvent(e) PROVE Linked(sm') /\ Releases(sm')
  <2>1. sm' = PostTask(sm, "EVENT", "WORKING", e) /\ e # "USER_AWAKE"
    BY <1>2 DEF PostEvent
  <2>2. QED  BY <2>1, PostLinked
<1>3. ASSUME ScreenChanges \/ ChargingChanges \/ OtherEventArrives
      PROVE  Linked(sm') /\ Releases(sm')
  BY <1>2, <1>3 DEF ScreenChanges, ChargingChanges, OtherEventArrives
<1>4. CASE SensorServiceChanges
  BY <1>4 DEF SensorServiceChanges
<1>5. CASE HalfHourElapses
  <2> DEFINE r == [sm EXCEPT !.offLong = TRUE]
  <2>1. sm' = r
    BY <1>5 DEF HalfHourElapses
  <2>2. /\ r.queue = sm.queue /\ r.phase = sm.phase /\ r.lock = sm.lock /\ r.next = sm.next
        /\ r.isEvaluation = sm.isEvaluation /\ r.cur = sm.cur /\ r.pre = sm.pre
        /\ r.armed = sm.armed /\ r.inflight = sm.inflight
    BY DEF Good, SMType
  <2> HIDE DEF r
  <2>3. QED  BY <2>1, <2>2, CallbackLinked
<1>6. ASSUME NEW v, v \subseteq sm.inflight \cup {"SENSOR"}
      PROVE  LET u == [sm EXCEPT !.inflight = v]
             IN  /\ Linked(u) /\ Releases(u) /\ (Busy(u) <=> Busy(sm))
                 /\ u.next = sm.next /\ u.phase = sm.phase /\ u.isEvaluation = sm.isEvaluation
  <2> DEFINE u == [sm EXCEPT !.inflight = v]
  <2>1. /\ u.queue = sm.queue /\ u.phase = sm.phase /\ u.lock = sm.lock /\ u.next = sm.next
        /\ u.isEvaluation = sm.isEvaluation /\ u.cur = sm.cur /\ u.pre = sm.pre
        /\ u.armed = sm.armed /\ u.inflight = v
    BY DEF Good, SMType
  <2> HIDE DEF u
  <2>2. Linked(u) /\ Releases(u)
    BY <1>6, <2>1, CallbackLinked
  <2>3. Busy(u) <=> Busy(sm)
    BY <2>1 DEF Busy, PhaseTasks
  <2>4. QED  BY <2>1, <2>2, <2>3 DEF u
<1>7. CASE SensorReports
  <2>1. sm' = [sm EXCEPT !.inflight = sm.inflight \cup {"SENSOR"}]
    BY <1>7 DEF SensorReports
  <2>2. QED  BY <1>6, <2>1
<1>8. ASSUME NEW t \in Timer, TimerExpires(t) PROVE Linked(sm') /\ Releases(sm')
  <2> DEFINE a == IF t = "REPEATED" THEN sm.armed ELSE sm.armed \ {t}
             v == sm.inflight \cup {t}
             r == [sm EXCEPT !.armed = a, !.inflight = v]
  <2>1. t \in sm.armed /\ sm' = r
    BY <1>8 DEF TimerExpires
  <2>2. t # "HALF_HOUR" => ~ Busy(sm)
    <3>1. t # "HALF_HOUR" => ~ sm.isEvalution /\ ~ Pending(sm, "NEXT_PHASE")
      BY <1>8 DEF TimerExpires
    <3>2. t # "HALF_HOUR" => PhaseTasks(sm) = {}
      BY <3>1 DEF Pending, PhaseTasks
    <3>3. t # "HALF_HOUR" => sm.isEvaluation # TRUE
      BY <3>1 DEF Safe, Agrees
    <3>4. QED  BY <3>2, <3>3 DEF Busy
  <2> HIDE DEF a, v
  <2>3. /\ r.queue = sm.queue /\ r.phase = sm.phase /\ r.lock = sm.lock /\ r.next = sm.next
        /\ r.isEvaluation = sm.isEvaluation /\ r.cur = sm.cur /\ r.pre = sm.pre
        /\ r.armed = a /\ r.inflight = v
    BY DEF Good, SMType
  <2> HIDE DEF r
  <2>4. r.armed \subseteq sm.armed
    BY <2>3 DEF a
  <2>5. /\ r.inflight \subseteq sm.inflight \cup sm.armed \cup {"SENSOR"}
        /\ Busy(sm) => r.inflight \subseteq sm.inflight \cup {"SENSOR", "HALF_HOUR"}
    BY <2>1, <2>2, <2>3 DEF v
  <2>6. Linked(r) /\ Releases(r)
    BY <2>3, <2>4, <2>5, CallbackLinked
  <2>7. QED  BY <2>1, <2>6
<1>9. ASSUME NEW t \in Timer, TimerCallback(t) PROVE Linked(sm') /\ Releases(sm')
  <2> DEFINE v == sm.inflight \ {t}
             u == [sm EXCEPT !.inflight = v]
  <2>1. v \in SUBSET (Timer \cup {"SENSOR"}) /\ v \subseteq sm.inflight \cup {"SENSOR"}
    BY <1>1
  <2>2. /\ t \in sm.inflight
        /\ sm' = CASE t \in StateTimer -> PostTask(u, "NEXT_STATE", t, "none")
                   [] t = "REPEATED"   -> PostTask(u, "REPEATED", "SLEEP", "none")
                   [] t = "HALF_HOUR"  -> OnScreenOffHalfHourInner(u, TRUE)
    BY <1>9 DEF TimerCallback
  <2> HIDE DEF v
  <2>3. /\ Linked(u) /\ Releases(u) /\ (Busy(u) <=> Busy(sm)) /\ u.next = sm.next
        /\ u.isEvaluation = sm.isEvaluation /\ u.phase = sm.phase
    BY <1>6, <2>1
  <2>4. Good(u) /\ Safe(u)
    BY <2>1, SetInflight, InflightSafe
  <2> HIDE DEF u
  <2>5. /\ t \in StateTimer \cup {"REPEATED"} => ~ Busy(u)
        /\ t = "REPEATED" => u.phase["SLEEP"] = EndPhase
    BY <2>2, <2>3 DEF Linked, Chain, SleepChain
  <2>6. t \in {"DARK", "NAP"} => u.next[t] # t
    BY <2>2, <2>3 DEF Linked, Leads
  <2>7. CASE t \in StateTimer
    <3>1. sm' = PostTask(u, "NEXT_STATE", t, "none")
      BY <2>2, <2>7 DEF StateTimer
    <3>2. QED  BY <2>3, <2>4, <2>5, <2>6, <2>7, <3>1, PostLinked
  <2>8. CASE t = "REPEATED"
    <3>1. sm' = PostTask(u, "REPEATED", "SLEEP", "none")
      BY <2>2, <2>8 DEF StateTimer
    <3>2. QED  BY <2>3, <2>4, <2>5, <2>8, <3>1, PostLinked
  <2>9. CASE t = "HALF_HOUR"
    <3> DEFINE r == OnScreenOffHalfHourInner(u, TRUE)
    <3>1. sm' = r
      BY <2>2, <2>9 DEF StateTimer
    <3>2. SameEval(u, r) /\ Idles(u, r) /\ r.lock = u.lock
      BY <2>4, HalfHourIdles
    <3> HIDE DEF r
    <3>3. r.isEvaluation = u.isEvaluation /\ r.isEvaluation \in BOOLEAN
      BY <1>1, <2>3, <3>2 DEF SameEval
    <3>4. QED  BY <2>3, <3>1, <3>2, <3>3, IdlesLinked, IdlesReleases
  <2>10. QED  BY <2>7, <2>8, <2>9 DEF Timer
<1>10. CASE SensorCallback
  <2> DEFINE v == sm.inflight \ {"SENSOR"}
             u == [sm EXCEPT !.inflight = v]
  <2>1. v \in SUBSET (Timer \cup {"SENSOR"}) /\ v \subseteq sm.inflight \cup {"SENSOR"}
    BY <1>1
  <2>2. sm' = PostTask(u, "MOTION", "WORKING", "moved")
    BY <1>10 DEF SensorCallback
  <2> HIDE DEF v
  <2>3. Linked(u) /\ Releases(u) /\ Good(u)
    BY <1>6, <2>1, SetInflight
  <2> HIDE DEF u
  <2>4. QED  BY <2>2, <2>3, PostLinked
<1>11. CASE MotionTaskDue
  <2> DEFINE v == Tail(sm.delayed)
             h == Head(sm.delayed)
             u == [sm EXCEPT !.delayed = v]
  <2>1. sm.delayed # <<>> /\ sm' = PostTask(u, "MOTION", "WORKING", h)
    BY <1>11 DEF MotionTaskDue
  <2>2. v \in Seq(MotionStep)
    BY <2>1, FieldTypes
  <2> HIDE DEF v, h
  <2>3. /\ u.queue = sm.queue /\ u.phase = sm.phase /\ u.lock = sm.lock /\ u.next = sm.next
        /\ u.isEvaluation = sm.isEvaluation /\ u.cur = sm.cur /\ u.pre = sm.pre
        /\ u.armed = sm.armed /\ u.inflight = sm.inflight
    BY DEF Good, SMType
  <2>4. Good(u)
    BY <2>2, SetDelayed
  <2> HIDE DEF u
  <2>5. Linked(u) /\ Releases(u)
    BY <2>3, CallbackLinked
  <2>6. QED  BY <2>1, <2>4, <2>5, PostLinked
<1>12. QED
  BY <1>3, <1>4, <1>5, <1>7, <1>8, <1>9, <1>10, <1>11 DEF Others, Environment

(* There is no chain at the start, and no lock.                            *)
LEMMA InitLinked == Init => Linked(sm) /\ Releases(sm)
<1> SUFFICES ASSUME Init PROVE Linked(sm) /\ Releases(sm)
  OBVIOUS
<1> DEFINE q == <<TaskOf("CONDITION", "WORKING", "none")>>
<1>1. /\ sm.cur = "WORKING" /\ sm.isEvaluation = FALSE /\ sm.lock = FALSE
      /\ sm.armed = {} /\ sm.inflight = {} /\ sm.queue = q
  BY DEF Init, InitialState
<1>2. DOMAIN q = {1} /\ q[1].name = "CONDITION"
  BY DEF TaskOf
<1> HIDE DEF q
<1>3. PhaseTasks(sm) = {} /\ Acquires(sm) = {} /\ \A t \in Tasks(sm) : t.name = "CONDITION"
  BY <1>1, <1>2 DEF PhaseTasks, Acquires, Tasks
<1>4. NapChain(sm) /\ SleepChain(sm) /\ ~ Busy(sm)
  BY <1>1, <1>3 DEF NapChain, SleepChain, Busy
<1>5. Chain(sm) /\ Leads(sm) /\ NoRestarts(sm) /\ Releases(sm)
  BY <1>1, <1>3, <1>4 DEF Chain, Leads, NoRestarts, Releases
<1>6. QED  BY <1>5 DEF Linked

(* Every step keeps the chain linked and the lock with its releaser.       *)
LEMMA NextLinked ==
  /\ SlowTimers /\ "USER_AWAKE" \notin Events
  /\ Inv /\ Linked(sm) /\ Releases(sm) /\ [Next]_vars
  => (Linked(sm) /\ Releases(sm))'
<1> SUFFICES ASSUME SlowTimers, "USER_AWAKE" \notin Events,
                    Inv, Linked(sm), Releases(sm), [Next]_vars
             PROVE  Linked(sm') /\ Releases(sm')
  BY DEF Linked, Releases
<1>1. Good(sm) /\ Safe(sm)
  BY DEF Inv
<1>2. CASE Handler
  BY <1>1, <1>2, HandlerLinked
<1>3. CASE Others
  BY <1>1, <1>3, OthersLinked
<1>4. CASE UNCHANGED vars
  BY <1>4 DEF vars
<1>5. QED  BY <1>2, <1>3, <1>4 DEF Next, Others

(* Under SlowTimers, and as long as no event begins a sleep anew, the      *)
(* running lock never lasts: whenever it is held, a motion evaluation or   *)
(* the last phase task that is queued will release it.                     *)
THEOREM LockHasReleaserHolds ==
  ASSUME SlowTimers, "USER_AWAKE" \notin Events
  PROVE  Spec => []LockHasReleaser
<1> DEFINE L == Linked(sm) /\ Releases(sm)
<1>1. Init => L
  BY InitLinked
<1>2. Inv /\ L /\ [Next]_vars => L'
  BY NextLinked
<1>3. Inv /\ L => LockHasReleaser
  <2> SUFFICES ASSUME Inv, L, sm.lock PROVE sm.isEvalution \/ Pending(sm, "NEXT_PHASE")
    BY DEF LockHasReleaser
  <2>1. sm.lock = TRUE
    BY Flags DEF Inv, Good, SMType
  <2>2. CASE sm.isEvaluation = TRUE
    BY <2>2 DEF Inv, Safe, Agrees
  <2>3. CASE PhaseTasks(sm) # {}
    BY <2>3 DEF PhaseTasks, Acquires, Pending
  <2>4. QED  BY <2>1, <2>2, <2>3 DEF Releases
<1> HIDE DEF L
<1>4. QED  BY <1>1, <1>2, <1>3, InvHolds, PTL DEF Spec
=============================================================================
