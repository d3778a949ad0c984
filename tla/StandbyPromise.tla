--------------------------- MODULE StandbyPromise ---------------------------
(***************************************************************************)
(* What the standby state machine promises to the rest of the system: in   *)
(* which state the device may be, which state may follow, and when the     *)
(* half-hour restriction applies.  How a transition is decided (timers,    *)
(* phases, constraints) is left out.                                       *)
(***************************************************************************)

VARIABLES
  cur,         \* the standby state
  opener,      \* the state a maintenance window returns to, else "none"
  on,          \* the screen, as the state machine knows it
  charging,    \* the charger
  restricted   \* the half-hour restriction

vars == <<cur, opener, on, charging, restricted>>

Init ==
  /\ cur = "WORKING" /\ opener = "none" /\ restricted = FALSE
  /\ on \in BOOLEAN /\ charging \in BOOLEAN

(* The device works again, from any state; restrictions end.               *)
Wake ==
  /\ cur' = "WORKING" /\ opener' = "none" /\ restricted' = FALSE
  /\ on' \in BOOLEAN /\ charging' = charging

(* The device goes dark: only without screen and charger.  A wake-up with  *)
(* the screen off falls back to dark at once, hence from any state.        *)
GoDark ==
  /\ ~ on' /\ ~ charging
  /\ cur' = "DARK" /\ opener' = "none" /\ restricted' = FALSE
  /\ charging' = charging

(* Dark settles into nap or sleep, nap into sleep, without the screen.     *)
Settle ==
  /\ ~ on
  /\ cur \in {"DARK", "NAP"}
  /\ cur' \in {"NAP", "SLEEP"} \ {cur}
  /\ restricted' \in (IF cur' = "SLEEP" THEN BOOLEAN ELSE {FALSE})
  /\ opener' = opener /\ on' = on /\ charging' = charging

OpenMaintenance ==
  /\ cur \in {"NAP", "SLEEP"}
  /\ cur' = "MAINTENANCE" /\ opener' = cur
  /\ on' = on /\ charging' = charging /\ restricted' = restricted

(* A window returns to the state that opened it.                           *)
CloseMaintenance ==
  /\ cur = "MAINTENANCE"
  /\ cur' = opener /\ opener' = "none"
  /\ on' = on /\ charging' = charging /\ restricted' = restricted

(* The system or the user's sleep state forces sleep, from any state.      *)
ForceSleep ==
  /\ cur # "SLEEP"
  /\ cur' = "SLEEP" /\ opener' = "none"
  /\ restricted' \in {restricted, TRUE}
  /\ on' = on /\ charging' = charging

(* Half an hour of dark screen has passed in deep sleep.                   *)
Restrict ==
  /\ "SLEEP" \in {cur, opener}
  /\ restricted' = TRUE
  /\ cur' = cur /\ opener' = opener /\ on' = on /\ charging' = charging

(* The screen goes off and the device stays where it is, or the screen     *)
(* comes on while it works; the charger changes at any time.               *)
ScreenOrCharger ==
  /\ on' # on => on \/ cur = "WORKING"
  /\ cur' = cur /\ opener' = opener /\ restricted' = restricted

Next ==
  \/ Wake \/ GoDark \/ Settle \/ OpenMaintenance \/ CloseMaintenance
  \/ ForceSleep \/ Restrict \/ ScreenOrCharger

Spec == Init /\ [][Next]_vars
=============================================================================
