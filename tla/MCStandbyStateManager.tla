------------------------ MODULE MCStandbyStateManager ------------------------
(* Small instances of the state machine for TLC, and its abstraction.      *)
EXTENDS StandbyStateManager

(* One maintenance interval, or two, of one second each.                   *)
OneInterval == <<1>>
TwoIntervals == <<1, 1>>

Promise == INSTANCE StandbyPromise WITH
  cur <- sm.cur,
  opener <- IF sm.cur = "MAINTENANCE" THEN sm.next["MAINTENANCE"] ELSE "none",
  on <- sm.isScreenOn,
  restricted <- sm.scrOffHalfHourCtrl

(* Without late callbacks the state machine implements its promise: no     *)
(* transition but those of StandbyPromise, dark only without screen and    *)
(* charger, maintenance back to its opener, restriction only in sleep.     *)
KeepsPromise == Promise!Spec
=============================================================================
