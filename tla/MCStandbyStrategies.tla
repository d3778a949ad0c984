-------------------------- MODULE MCStandbyStrategies --------------------------
(* A small instance of the strategies for TLC: an application that may     *)
(* start, die, work and be exempt and is restricted at night, and a system *)
(* application in front.                                                   *)
EXTENDS StandbyStrategies, TLC

MCAppOf == "p" :> "app" @@ "s" :> "sys"
MCTasksOf == "app" :> {"WORK_SCHEDULER"} @@ "sys" :> {}
MCContinuous == "app" :> {"CONTINUOUS_TASK"} @@ "sys" :> {}
MCResourceConfig ==
  {[resource |-> "RUNNING_LOCK", isAllow |-> FALSE, conditions |-> {{"NIGHT_STANDBY"}},
    apps |-> {"app"}]}
MCAllowsOf == "app" :> {{"RUNNING_LOCK", "NETWORK"}} @@ "sys" :> {}
=============================================================================
