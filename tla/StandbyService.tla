--------------------------- MODULE StandbyService ---------------------------
(* The life cycle of the service: the system abilities it depends on come  *)
(* and go, samgr tells it on its IPC threads, and tasks of high priority   *)
(* on the handler's thread make the plugins ready and take them down.      *)
(* Everything the service holds in another process (a timer, an observer,  *)
(* a listener) is lost with that process, so that the question is whether  *)
(* the service, once it has caught up, holds what it believes to hold.     *)
EXTENDS Integers, Sequences, FiniteSets

CONSTANTS
  Depend,        \* the system abilities of ALL_DEPENDS_READY
  MaxFaults,     \* bound: deaths of system abilities, and calls to the time service
                 \* that fail without cause
  MaxQueue,      \* bound: ordinary tasks that the environment may have waiting
  ScreenEvents   \* whether the screen is switched on and off

TIME == "TIME_SERVICE"
INPUT == "MULTIMODAL_INPUT_SERVICE"
BGTASK == "BACKGROUND_TASK_MANAGER_SERVICE"

Observed == Depend \cap {"COMMON_EVENT_SERVICE", "APP_MGR_SERVICE"}
Ability == Depend \cup {BGTASK}

ASSUME DependAssumption ==
  Depend \in SUBSET {"COMMON_EVENT_SERVICE", TIME, "ABILITY_MGR_SERVICE", "BUNDLE_MGR_SERVICE",
                     "POWER_MANAGER_SERVICE", "APP_MGR_SERVICE", INPUT}
  /\ {TIME, INPUT} \subseteq Depend
ASSUME ServiceBounds ==
  MaxFaults \in Nat /\ MaxQueue \in Nat /\ ScreenEvents \in BOOLEAN

Notice == {"added", "removed"}
Task == {"day_night", "reset_timer", "bgtask_added", "bgtask_removed",
         "screen_on", "screen_off", "check_screen"}

VARIABLES
  life,          \* how often each system ability has started
  up,            \* the system abilities that run
  watched,       \* whether samgr tells of the background task manager
  notices,       \* what samgr has still to tell, in order for each ability
  dependsReady,  \* dependsReady_
  isServiceReady, \* isServiceReady_
  initTask,      \* whether the task of InitReadyState has begun; history: or has failed last
  high,          \* tasks of high priority on the handler
  queue,         \* ordinary tasks on the handler
  observer,      \* commonEventObserver_ and appStateObserver_
  timer,         \* dayNightSwitchTimerId_ and what the time service makes of it
  registerFailed, \* history: the last registration of the timer failed
  failures,      \* calls to the time service that failed without cause
  stateTimers,   \* the life of the time service that has the states' timers
  listeners,     \* messageListenerList_
  lidListeners,  \* switch subscriptions that the input service holds
  bgListening,   \* whether the background task manager holds a subscription
  manager        \* what a loss of readiness leaves in the two managers

handles == <<observer, timer, registerFailed, failures, stateTimers, listeners, lidListeners,
             bgListening>>
vars == <<life, up, watched, notices, dependsReady, isServiceReady, initTask, high, queue, handles,
          manager>>

Nothing == [made |-> FALSE, at |-> 0, deaf |-> FALSE]      \* a null observer
NoTimer == [made |-> FALSE, at |-> 0, armed |-> FALSE]

Pending(task) == \E i \in DOMAIN queue : queue[i] = task
Room == Len(queue) < MaxQueue
Deaths == Cardinality(UNION {{<<a, n>> : n \in 1..(life[a] - 1)} : a \in Ability})
            + Cardinality({a \in Ability : life[a] > 0 /\ a \notin up})
MayFault(f) == Deaths + f < MaxFaults

(* The sequence s without the element e.                                   *)
Without(s, e) ==
  LET kept[n \in 0..Len(s)] ==
        IF n = 0 THEN << >> ELSE IF s[n] = e THEN kept[n - 1] ELSE Append(kept[n - 1], s[n])
  IN  kept[Len(s)]

-----------------------------------------------------------------------------
(* The day and night timer.  A timer of a time service that has died       *)
(* cannot be started, stopped or destroyed.                                *)

Usable(t) == t.made /\ TIME \in up /\ t.at = life[TIME]

(* RegisterTimeObserver when t is the timer and f the failures so far:     *)
(* nothing is done if it has an id, even one of a timer that was never     *)
(* started; CreateTimer or StartTimer may fail although the time service   *)
(* runs.                                                                   *)
RegisterTimeObserver(t, f) ==
  IF t.made
  THEN timer' = t /\ failures' = f /\ UNCHANGED registerFailed
  ELSE LET created == [made |-> TRUE, at |-> life[TIME], armed |-> FALSE]
       IN  \/ /\ TIME \in up
              /\ timer' = [created EXCEPT !.armed = TRUE]
              /\ registerFailed' = FALSE
              /\ failures' = f
           \/ /\ TIME \in up
              /\ MayFault(f)
              /\ timer' \in {NoTimer, created}
              /\ registerFailed' = TRUE
              /\ failures' = f + 1
           \/ /\ TIME \notin up
              /\ timer' = NoTimer
              /\ registerFailed' = TRUE
              /\ failures' = f

ResetTimeObserver(f) == RegisterTimeObserver(NoTimer, f)

TimerStarts ==
  /\ Usable(timer)
  /\ timer' = [timer EXCEPT !.armed = TRUE]
  /\ UNCHANGED <<registerFailed, failures>>

(* Mutant of DayNightSwitchTask: a start that fails is only logged.        *)
DayNightSwitchTaskLogs ==
  \/ TimerStarts
  \/ ~Usable(timer) /\ UNCHANGED <<timer, registerFailed, failures>>
  \/ /\ Usable(timer) /\ MayFault(failures)
     /\ failures' = failures + 1
     /\ UNCHANGED <<timer, registerFailed>>

(* The task of DayNightSwitchCallback: it starts the timer for the next    *)
(* switch, whether the service is ready or not, and makes a new one if     *)
(* that fails.                                                             *)
DayNightSwitchTask ==
  \/ TimerStarts
  \/ ~Usable(timer) /\ ResetTimeObserver(failures)
  \/ Usable(timer) /\ MayFault(failures) /\ ResetTimeObserver(failures + 1)

-----------------------------------------------------------------------------
(* The listeners.  The object that listens to the background task manager  *)
(* is made once and kept in listenerPluginMap_; one for the lid is made in *)
(* every Init.                                                             *)

BgListener == [kind |-> "bgtask", at |-> 0]
LidListener == [kind |-> "lid", at |-> IF INPUT \in up THEN life[INPUT] ELSE 0]
Listed(kind) == \E i \in DOMAIN listeners : listeners[i].kind = kind
Alive(l) == l.at = life[INPUT] /\ INPUT \in up

(* ListenerManagerAdapter::Init and StartListener.                         *)
StartListeners ==
  /\ listeners' = Append(listeners, LidListener)
  /\ lidListeners' = IF INPUT \in up THEN lidListeners + 1 ELSE lidListeners
  /\ bgListening' = (bgListening \/ (Listed("bgtask") /\ BGTASK \in up))

(* Mutant of StopListeners: it takes back a subscription per listener,     *)
(* those that died with the input service included.                        *)
StopListenersAll ==
  /\ lidListeners' =
       lidListeners - Cardinality({i \in DOMAIN listeners : listeners[i].kind = "lid"})
  /\ bgListening' = (bgListening /\ ~Listed("bgtask"))
  /\ listeners' = << >>

(* ListenerManagerAdapter::UnInit.                                         *)
StopListeners ==
  /\ lidListeners' =
       lidListeners - Cardinality({i \in DOMAIN listeners : listeners[i].kind = "lid"
                                                             /\ Alive(listeners[i])})
  /\ bgListening' = (bgListening /\ ~Listed("bgtask"))
  /\ listeners' = << >>

(* Mutant of AddSystemServiceListener: a listener that is listed is not    *)
(* started again.                                                          *)
AddSystemServiceListenerOnce ==
  /\ listeners' = IF BGTASK \in up /\ ~Listed("bgtask") THEN Append(listeners, BgListener)
                  ELSE listeners
  /\ bgListening' = (bgListening \/ (BGTASK \in up /\ ~Listed("bgtask")))
  /\ UNCHANGED lidListeners

(* AddSystemServiceListener: listed only if the subscription succeeds, and *)
(* again if it is listed already.                                          *)
AddSystemServiceListener ==
  /\ listeners' = IF BGTASK \in up THEN Append(listeners, BgListener) ELSE listeners
  /\ bgListening' = (bgListening \/ BGTASK \in up)
  /\ UNCHANGED lidListeners

RemoveSystemServiceListener ==
  /\ listeners' = Without(listeners, BgListener)
  /\ UNCHANGED <<lidListeners, bgListening>>

-----------------------------------------------------------------------------
(* The state manager, as far as a loss of readiness matters to it: whether *)
(* the device works or stands by, what it believes of the screen, and the  *)
(* flags by which it and the constraint manager know of an evaluation.     *)
(* A message of the screen is dispatching between the look at              *)
(* isServiceReady_ and the post.  Two histories: a stray message of the    *)
(* screen was on its way from before UnInit when Init asked for the        *)
(* screen, and none has been sent since; the last change of the screen was *)
(* missed, because it came after Init had asked and before isServiceReady_ *)
(* was set.                                                                *)

Screen == {"on", "off"}
NoMessage == "none"
Working(m) == m.state = "WORKING"

(* TransitToState(DARK) from working: without a live state manager the     *)
(* constraint manager cannot end the evaluation it has begun, and it       *)
(* refuses to begin another.                                               *)
GoDark(m) ==
  IF m.evaluating THEN [m EXCEPT !.isEvalution = TRUE]
  ELSE IF m.inited THEN [m EXCEPT !.state = "STANDBY", !.isEvalution = FALSE]
  ELSE [m EXCEPT !.isEvalution = TRUE, !.evaluating = TRUE]

(* checkScreenStatus, and HandleCommonEvent of a change of the screen.     *)
CheckScreen(m) == IF Working(m) /\ m.screen = "off" THEN GoDark(m) ELSE m
ScreenOff(m) == CheckScreen([m EXCEPT !.screen = "off"])
ScreenOn(m) ==
  IF Working(m) THEN [m EXCEPT !.screen = "on"]
  ELSE [m EXCEPT !.screen = "on", !.state = "WORKING", !.isEvalution = FALSE,
                 !.evaluating = @ /\ ~m.isEvalution]

(* Mutant of InitManagers: the state manager begins with what it believed. *)
InitManagersKeepsScreen(m, screen) == [m EXCEPT !.inited = TRUE, !.state = "WORKING"]

(* Init of the state manager and of the constraint manager: neither resets *)
(* its flag.                                                               *)
InitManagers(m, screen) ==
  [m EXCEPT !.inited = TRUE, !.state = "WORKING", !.screen = screen]

(* InitReadyState has begun: the state manager is there, the rest is not.  *)
Initializing == initTask = "begun"

UnInitConstraintManager(m) == [m EXCEPT !.evaluating = FALSE]

(* The state manager transits to working; the flag of an evaluation in     *)
(* working stays.                                                          *)
UnInitStateManager(m) ==
  [m EXCEPT !.inited = FALSE, !.state = "WORKING", !.isEvalution = @ /\ Working(m)]

-----------------------------------------------------------------------------
(* The system abilities.                                                   *)

(* OnStart has added the listeners of samgr; any ability may already run.  *)
Init ==
  /\ up \in SUBSET Ability
  /\ life = [a \in Ability |-> IF a \in up THEN 1 ELSE 0]
  /\ watched = FALSE
  /\ notices = [a \in Ability |-> IF a \in up \cap Depend THEN <<"added">> ELSE << >>]
  /\ dependsReady = {}
  /\ isServiceReady = FALSE /\ initTask = "idle"
  /\ high = << >>
  /\ queue = << >>
  /\ observer = [a \in Observed |-> Nothing]
  /\ timer = NoTimer
  /\ registerFailed = FALSE
  /\ failures = 0
  /\ stateTimers = 0
  /\ listeners = << >>
  /\ lidListeners = 0
  /\ bgListening = FALSE
  /\ manager = [inited |-> FALSE, state |-> "WORKING", screen |-> "on", actual |-> "on",
                isEvalution |-> FALSE, evaluating |-> FALSE, dispatching |-> NoMessage,
                stray |-> FALSE, missed |-> FALSE]

Told(a) == a \in Depend \/ watched

AbilityStarts(a) ==
  /\ a \notin up
  /\ up' = up \cup {a}
  /\ life' = [life EXCEPT ![a] = @ + 1]
  /\ notices' = IF Told(a) THEN [notices EXCEPT ![a] = Append(@, "added")] ELSE notices
  /\ UNCHANGED <<watched, dependsReady, isServiceReady, initTask, high, queue, handles, manager>>

(* What the ability held for the service is gone.                          *)
AbilityDies(a) ==
  /\ a \in up
  /\ MayFault(failures)
  /\ up' = up \ {a}
  /\ notices' = IF Told(a) THEN [notices EXCEPT ![a] = Append(@, "removed")] ELSE notices
  /\ timer' = IF a = TIME THEN [timer EXCEPT !.armed = FALSE] ELSE timer
  /\ lidListeners' = IF a = INPUT THEN 0 ELSE lidListeners
  /\ bgListening' = (bgListening /\ a # BGTASK)
  /\ UNCHANGED <<life, watched, dependsReady, isServiceReady, initTask, high, queue, observer,
                 registerFailed, failures, stateTimers, listeners, manager>>

-----------------------------------------------------------------------------
(* The IPC threads.  systemAbilityLock_ makes each call of samgr one step. *)

(* RegisterCommEventObserver, RegisterAppStateObserver: the pointer is set *)
(* before the subscription is tried, and nothing is tried if it is set.    *)
(* SubscribeObserver may fail although its ability runs (a history, deaf). *)
RegisterObserver(a) ==
  IF a \notin Observed THEN UNCHANGED <<observer, failures>>
  ELSE \/ /\ observer[a].made
          /\ UNCHANGED <<observer, failures>>
       \/ /\ ~observer[a].made
          /\ observer' = [observer EXCEPT ![a] = [made |-> TRUE, deaf |-> FALSE,
                                                  at |-> IF a \in up THEN life[a] ELSE 0]]
          /\ UNCHANGED failures
       \/ /\ a = "APP_MGR_SERVICE" /\ ~observer[a].made /\ a \in up
          /\ MayFault(failures) /\ failures' = failures + 1
          /\ observer' = [observer EXCEPT ![a] = [made |-> TRUE, deaf |-> TRUE, at |-> 0]]

(* What an ability is registered with when it is added.                    *)
RegisterFor(a) ==
  IF a = TIME THEN RegisterTimeObserver(timer, failures) /\ UNCHANGED observer
  ELSE RegisterObserver(a) /\ UNCHANGED <<timer, registerFailed>>

UnregisterObserver(a) ==
  observer' = IF a \in Observed THEN [observer EXCEPT ![a] = Nothing] ELSE observer

(* NotifySystemAbilityStatusChanged, which DispatchEvent drops until the   *)
(* service is ready.                                                       *)
Dispatch(task) == queue' = IF isServiceReady THEN Append(queue, task) ELSE queue

(* dependsReady_ after an ability is added or removed.                     *)
UpdateSaDependValue(isAdd, a) ==
  dependsReady' = IF isAdd THEN dependsReady \cup ({a} \cap Depend) ELSE dependsReady \ {a}

(* Mutant of OnAddSystemAbility: readiness is asked for when the task is   *)
(* posted, not when it runs.                                               *)
OnAddSystemAbilityUnlessReady(a) ==
  /\ notices[a] # << >> /\ Head(notices[a]) = "added"
  /\ notices' = [notices EXCEPT ![a] = Tail(@)]
  /\ UpdateSaDependValue(TRUE, a)
  /\ RegisterFor(a)
  /\ IF a \in Depend THEN UNCHANGED queue ELSE Dispatch("bgtask_added")
  /\ high' = IF dependsReady' = Depend /\ ~isServiceReady THEN Append(high, "init") ELSE high
  /\ UNCHANGED <<life, up, watched, isServiceReady, initTask, stateTimers, listeners, lidListeners,
                 bgListening, manager>>

OnAddSystemAbility(a) ==
  /\ notices[a] # << >> /\ Head(notices[a]) = "added"
  /\ notices' = [notices EXCEPT ![a] = Tail(@)]
  /\ UpdateSaDependValue(TRUE, a)
  /\ RegisterFor(a)
  /\ IF a \in Depend THEN UNCHANGED queue ELSE Dispatch("bgtask_added")
  /\ high' = IF dependsReady' = Depend THEN Append(high, "init") ELSE high
  /\ UNCHANGED <<life, up, watched, isServiceReady, initTask, stateTimers, listeners, lidListeners,
                 bgListening, manager>>

(* Mutant of OnRemoveSystemAbility: the timer keeps its id.                *)
OnRemoveSystemAbilityKeepsTimer(a) ==
  /\ notices[a] # << >> /\ Head(notices[a]) = "removed"
  /\ notices' = [notices EXCEPT ![a] = Tail(@)]
  /\ UpdateSaDependValue(FALSE, a)
  /\ UnregisterObserver(a)
  /\ IF a \in Depend THEN UNCHANGED queue ELSE Dispatch("bgtask_removed")
  /\ high' = IF dependsReady' # Depend THEN Append(high, "uninit") ELSE high
  /\ UNCHANGED <<life, up, watched, isServiceReady, initTask, timer, registerFailed, failures,
                 stateTimers, listeners, lidListeners, bgListening, manager>>

(* Mutant of OnRemoveSystemAbility: the task is posted only if the service *)
(* is ready by now.                                                        *)
OnRemoveSystemAbilityIfReady(a) ==
  /\ notices[a] # << >> /\ Head(notices[a]) = "removed"
  /\ notices' = [notices EXCEPT ![a] = Tail(@)]
  /\ UpdateSaDependValue(FALSE, a)
  /\ UnregisterObserver(a)
  /\ timer' = IF a = TIME THEN NoTimer ELSE timer
  /\ IF a \in Depend THEN UNCHANGED queue ELSE Dispatch("bgtask_removed")
  /\ high' = IF dependsReady' # Depend /\ isServiceReady THEN Append(high, "uninit") ELSE high
  /\ UNCHANGED <<life, up, watched, isServiceReady, initTask, registerFailed, failures, stateTimers,
                 listeners, lidListeners, bgListening, manager>>

OnRemoveSystemAbility(a) ==
  /\ notices[a] # << >> /\ Head(notices[a]) = "removed"
  /\ notices' = [notices EXCEPT ![a] = Tail(@)]
  /\ UpdateSaDependValue(FALSE, a)
  /\ UnregisterObserver(a)
  /\ timer' = IF a = TIME THEN NoTimer ELSE timer
  /\ IF a \in Depend THEN UNCHANGED queue ELSE Dispatch("bgtask_removed")
  /\ high' = IF dependsReady' # Depend THEN Append(high, "uninit") ELSE high
  /\ UNCHANGED <<life, up, watched, isServiceReady, initTask, registerFailed, failures, stateTimers,
                 listeners, lidListeners, bgListening, manager>>

-----------------------------------------------------------------------------
(* The handler's thread: a task of high priority runs before all others.   *)

(* AddPluginSysAbilityListener: samgr tells at once of one that runs.      *)
WatchPlugins ==
  /\ watched' = TRUE
  /\ notices' = IF BGTASK \in up THEN [notices EXCEPT ![BGTASK] = Append(@, "added")]
                ELSE notices

ScreenOnTheWay ==
  Pending("screen_on") \/ Pending("screen_off") \/ manager.dispatching # NoMessage

(* The task of InitReadyState returns early: the service is ready already, *)
(* or the state manager cannot make its timers.                            *)
InitReturns ==
  /\ high # << >> /\ Head(high) = "init" /\ ~Initializing
  /\ high' = Tail(high)
  /\ \/ /\ isServiceReady \/ TIME \notin up
        /\ failures' = failures
        /\ initTask' = "idle"
     \/ /\ ~isServiceReady /\ TIME \in up
        /\ MayFault(failures) /\ failures' = failures + 1
        /\ initTask' = "failed"
  /\ UNCHANGED <<life, up, watched, notices, dependsReady, isServiceReady, queue, observer, timer,
                 registerFailed, stateTimers, listeners, lidListeners, bgListening, manager>>

(* It begins with Init of the state manager, which asks for the screen.    *)
(* Until the task ends the messages of the IPC threads are dropped.        *)
InitStateManager ==
  /\ high # << >> /\ Head(high) = "init" /\ ~Initializing
  /\ ~isServiceReady /\ TIME \in up
  /\ initTask' = "begun"
  /\ stateTimers' = life[TIME]
  /\ manager' = [InitManagers(manager, manager.actual) EXCEPT
                   !.stray = ScreenOnTheWay, !.missed = FALSE]
  /\ queue' = Append(queue, "check_screen")
  /\ UNCHANGED <<life, up, watched, notices, dependsReady, isServiceReady, high, observer, timer,
                 registerFailed, failures, listeners, lidListeners, bgListening>>

(* ... and ends with the service ready.                                    *)
InitReadyState ==
  /\ high # << >> /\ Initializing
  /\ high' = Tail(high)
  /\ StartListeners
  /\ RegisterTimeObserver(timer, failures)
  /\ isServiceReady' = TRUE /\ initTask' = "idle"
  /\ WatchPlugins
  /\ UNCHANGED <<life, up, dependsReady, queue, observer, stateTimers, manager>>

(* The task of UninitReadyState.  EndState of working takes its task back. *)
UninitReadyState ==
  /\ high # << >> /\ Head(high) = "uninit"
  /\ high' = Tail(high)
  /\ IF ~isServiceReady
     THEN UNCHANGED <<isServiceReady, queue, handles, manager>>
     ELSE /\ StopListeners
          /\ manager' = [UnInitStateManager(UnInitConstraintManager(manager)) EXCEPT
                           !.stray = FALSE, !.missed = FALSE]
          /\ queue' = Without(queue, "check_screen")
          /\ stateTimers' = 0
          /\ isServiceReady' = FALSE
          /\ UNCHANGED <<observer, timer, registerFailed, failures>>
  /\ UNCHANGED <<life, up, watched, notices, dependsReady, initTask>>

(* The dispatched message goes to the managers as they are by then.        *)
ManagerHandles(task) ==
  CASE task = "screen_on" -> ScreenOn(manager)
    [] task = "screen_off" -> ScreenOff(manager)
    [] task = "check_screen" -> CheckScreen(manager)
    [] OTHER -> manager

(* BeginState of working posts its task again, EndState takes it back.     *)
Requeued(old, new) ==
  LET rest == Tail(queue)
  IN  IF Working(old) = Working(new) THEN rest
      ELSE IF Working(new) THEN Append(rest, "check_screen")
      ELSE Without(rest, "check_screen")

RunTask ==
  /\ high = << >> /\ queue # << >>
  /\ manager' = ManagerHandles(Head(queue))
  /\ queue' = Requeued(manager, manager')
  /\ CASE Head(queue) = "day_night" -> DayNightSwitchTask
       [] Head(queue) = "reset_timer" -> ResetTimeObserver(failures)
       [] OTHER -> UNCHANGED <<timer, registerFailed, failures>>
  /\ CASE Head(queue) = "bgtask_added" -> AddSystemServiceListener
       [] Head(queue) = "bgtask_removed" -> RemoveSystemServiceListener
       [] OTHER -> UNCHANGED <<listeners, lidListeners, bgListening>>
  /\ UNCHANGED <<life, up, watched, notices, dependsReady, isServiceReady, initTask, high, observer,
                 stateTimers>>

-----------------------------------------------------------------------------
(* What the service is told of by others.                                  *)

(* The timer expires: DayNightSwitchCallback posts its task.               *)
TimerExpires ==
  /\ Usable(timer) /\ timer.armed /\ Room
  /\ timer' = [timer EXCEPT !.armed = FALSE]
  /\ queue' = Append(queue, "day_night")
  /\ UNCHANGED <<life, up, watched, notices, dependsReady, isServiceReady, initTask, high, observer,
                 registerFailed, failures, stateTimers, listeners, lidListeners, bgListening,
                 manager>>

(* AppEventHandler of a change of the time or of the time zone.            *)
TimeChanges ==
  /\ Room /\ ~Pending("reset_timer")
  /\ queue' = Append(queue, "reset_timer")
  /\ UNCHANGED <<life, up, watched, notices, dependsReady, isServiceReady, initTask, high, handles,
                 manager>>

(* HandleScreenStateChanged, called for one change after the other.        *)
(* DispatchEvent looks at isServiceReady_ ...                              *)
ScreenTurns(screen) ==
  /\ ScreenEvents /\ (Room \/ Initializing)
  /\ manager.actual # screen /\ manager.dispatching = NoMessage
  /\ manager' = [manager EXCEPT
                   !.actual = screen,
                   !.dispatching = IF isServiceReady THEN screen ELSE NoMessage,
                   !.stray = @ /\ ~isServiceReady,
                   !.missed = Initializing /\ screen # manager.screen]
  /\ UNCHANGED <<life, up, watched, notices, dependsReady, isServiceReady, initTask, high, queue,
                 handles>>

(* ... and posts the message, whatever has become of the service.          *)
PostScreen ==
  /\ manager.dispatching # NoMessage
  /\ queue' = Append(queue, IF manager.dispatching = "on" THEN "screen_on" ELSE "screen_off")
  /\ manager' = [manager EXCEPT !.dispatching = NoMessage]
  /\ UNCHANGED <<life, up, watched, notices, dependsReady, isServiceReady, initTask, high, handles>>

Next ==
  \/ \E a \in Ability : AbilityStarts(a)
  \/ \E a \in Ability : AbilityDies(a)
  \/ \E a \in Ability : OnAddSystemAbility(a)
  \/ \E a \in Ability : OnRemoveSystemAbility(a)
  \/ InitReturns
  \/ InitStateManager
  \/ InitReadyState
  \/ UninitReadyState
  \/ RunTask
  \/ TimerExpires
  \/ TimeChanges
  \/ \E s \in Screen : ScreenTurns(s)
  \/ PostScreen

Spec == Init /\ [][Next]_vars

-----------------------------------------------------------------------------
(* Properties.                                                             *)

(* The handler and the IPC threads have caught up with samgr.              *)
Calm == high = << >> /\ \A a \in Ability : notices[a] = << >>

(* Every variable stays in its set, at most one timer is armed and a       *)
(* handle never belongs to a life that its ability has not had.            *)
TypeOK ==
  /\ life \in [Ability -> Nat] /\ up \subseteq Ability /\ watched \in BOOLEAN
  /\ notices \in [Ability -> Seq(Notice)]
  /\ dependsReady \subseteq Depend /\ isServiceReady \in BOOLEAN
  /\ initTask \in {"idle", "begun", "failed"}
  /\ high \in Seq({"init", "uninit"}) /\ queue \in Seq(Task)
  /\ observer \in [Observed -> [made : BOOLEAN, at : Nat, deaf : BOOLEAN]]
  /\ timer \in [made : BOOLEAN, at : Nat, armed : BOOLEAN]
  /\ timer.at <= life[TIME] /\ (timer.armed => TIME \in up)
  /\ registerFailed \in BOOLEAN /\ failures \in Nat
  /\ stateTimers \in 0..life[TIME]
  /\ listeners \in Seq([kind : {"lid", "bgtask"}, at : Nat])
  /\ lidListeners \in Nat /\ bgListening \in BOOLEAN
  /\ manager \in [inited : BOOLEAN, state : {"WORKING", "STANDBY"}, screen : Screen,
                   actual : Screen, isEvalution : BOOLEAN, evaluating : BOOLEAN,
                   dispatching : Screen \cup {NoMessage}, stray : BOOLEAN, missed : BOOLEAN]

(* Once the service has caught up it is ready if and only if everything it *)
(* depends on runs, in whatever order deaths, starts, calls of samgr and   *)
(* tasks came.  The one exception is an Init that failed although the time *)
(* service ran: nothing tries again until an ability dies and starts.      *)
ReadyFollowsDepends ==
  Calm => /\ isServiceReady => Depend \subseteq up
          /\ Depend \subseteq up => isServiceReady \/ initTask = "failed"

(* Once the service has caught up, what it holds in other processes is     *)
(* held by the process that runs now: a restart it did not see as such     *)
(* would leave it deaf, and the states without their timers.  There is one *)
(* lid listener while the service is ready, and none that outlives it.     *)
(* Only an observer whose subscription failed stays deaf: its pointer is   *)
(* set, so that nothing subscribes again before the ability has died.      *)
HandlesAreCurrent ==
  Calm =>
    /\ \A a \in Observed \cap up :
         observer[a].made /\ (observer[a].at = life[a] \/ observer[a].deaf)
    /\ \A a \in Observed \ up : observer[a] = Nothing
    /\ isServiceReady => stateTimers = life[TIME]
    /\ timer.made => Usable(timer)
    /\ lidListeners = IF isServiceReady THEN 1 ELSE 0

(* While the service is ready the switch of day and night comes: the timer *)
(* is armed or a task that will start it waits.  A start that fails in the *)
(* timer's own task is made good; only a registration that failed is not.  *)
DayNightArmed ==
  Calm /\ isServiceReady /\ ~registerFailed =>
    timer.armed \/ Pending("day_night") \/ Pending("reset_timer")

(* While the service is ready it hears of background tasks whenever their  *)
(* manager runs, and the listener is listed so that UnInit can stop it.    *)
BgTasksHeard ==
  Calm /\ queue = << >> /\ isServiceReady /\ BGTASK \in up =>
    bgListening /\ Listed("bgtask")

(* With nothing left to do a ready service stands by if and only if the    *)
(* screen is off, also when the screen changed while the service was not   *)
(* ready: messages are dropped then and Init asks the power manager.  What *)
(* the managers believe and what they do agree, unless an evaluation that  *)
(* they began after UnInit, which nothing ends, has every later one        *)
(* refused.  What they believe is how the screen is, with two exceptions   *)
(* that last until it turns again: a stray message, older than what Init   *)
(* asked for, and a change that was missed between that question and the   *)
(* end of InitReadyState, where messages are still dropped.                *)
StateFollowsScreen ==
  Calm /\ queue = << >> /\ isServiceReady /\ ~manager.evaluating =>
    /\ Working(manager) <=> manager.screen = "on"
    /\ manager.dispatching = NoMessage /\ ~manager.stray /\ ~manager.missed =>
         manager.screen = manager.actual

(* The threads run: samgr calls, and the handler takes its tasks.          *)
FairSpec ==
  /\ Spec
  /\ \A a \in Ability : WF_vars(OnAddSystemAbility(a)) /\ WF_vars(OnRemoveSystemAbility(a))
  /\ WF_vars(InitReturns \/ InitStateManager) /\ WF_vars(InitReadyState)
  /\ WF_vars(UninitReadyState) /\ WF_vars(RunTask)

(* If in the end everything it depends on keeps running, the service       *)
(* becomes ready and stays so, although an Init may have failed before for *)
(* want of the time service.  An Init that fails although the time service *)
(* runs may be the last one, and then it never becomes ready.              *)
BecomesReady ==
  <>[](Depend \subseteq up) => <>[](isServiceReady \/ initTask = "failed")
=============================================================================
