--------------------------- MODULE StandbyStrategies ---------------------------
(***************************************************************************)
(* StrategyManagerAdapter: the strategies get every message, one after the *)
(* other, when the event handler takes it out of the queue.                *)
(***************************************************************************)
EXTENDS RunningLockStrategy, NetworkStrategy

CONSTANT ScreenEvents   \* whether the screen may be switched on in sleep

ASSUME ScreenAssumption == ScreenEvents \in BOOLEAN

vars == <<inputs, lockVars, netVars>>

Init == InputsInit /\ LockInit /\ NetInit

(* Those two messages ask the other services, which may not answer.        *)
Answers(m) ==
  IF m.type \in {"RES_CTRL_CONDITION_CHANGED", "PHASE_TRANSIT"}
  THEN {"all", "some", "none"} ELSE {"all"}

StrategiesHandle ==
  /\ Dispatched
  /\ \E answers \in Answers(Head(queue)) :
       RunningLockHandles(Head(queue), answers) /\ NetworkHandles(Head(queue), answers)

(* The clock goes on: what the network table says of it is not heard yet.  *)
Elapse == ConditionSwitches /\ heard' = FALSE /\ UNCHANGED <<lockVars, ns, net>>

(* HandleScreenStateChanged switches the idle policy off at once, on its   *)
(* own thread; the message about the screen is handled later.              *)
ScreenOnResets ==
  /\ ScreenEvents /\ net.policy
  /\ net' = [net EXCEPT !.policy = FALSE]
  /\ UNCHANGED <<inputs, lockVars, ns, heard>>

Restart == ReadinessLost /\ RunningLockRestarts /\ NetworkRestarts

Next ==
  \/ Around /\ UNCHANGED <<lockVars, netVars>>
  \/ Elapse
  \/ ScreenOnResets
  \/ StrategiesHandle
  \/ Restart

Spec == Init /\ [][Next]_vars

TypeOK == InputsTypeOK /\ LockTypeOK /\ NetTypeOK
=============================================================================
