------------------------------- MODULE DayNight -------------------------------
(* Day and night: the timer that is to hear of the two switches of a day,  *)
(* over the clock it is computed from (TimeProvider, TimedTask and         *)
(* DayNightSwitchCallback).  Time is in UTC; localtime_r and mktime add    *)
(* and take off the offset of the zone.  The timer service is taken to be  *)
(* punctual, and the strategies to ask for the condition when the device   *)
(* falls asleep and when they are told that it changed.                    *)
EXTENDS Integers

CONSTANTS
  Hour,          \* steps of the clock in an hour
  Zone,          \* offsets of the zones that are used
  MaxDelay,      \* HIGH_DELAY_TIME_INTERVAL, in steps of the clock
  Horizon,       \* bound: the end of time
  MaxChanges     \* bound: changes of the zone, and losses of the timer service

ASSUME ClockAssumption ==
  /\ Hour \in Nat \ {0} /\ Hour % 4 = 0
  /\ Zone \subseteq (-12 * Hour)..(14 * Hour) /\ Zone # {}
  /\ MaxDelay \in 0..(Hour \div 4)
  /\ Horizon \in Nat /\ MaxChanges \in Nat

Day == 24 * Hour
DayEntrance == 6 * Hour
NightEntrance == 23 * Hour + 3 * (Hour \div 4)
Unarmed == -1

VARIABLES
  now,        \* GetWallTimeMs
  zone,       \* offset of the local time
  timer,      \* when the day and night timer will expire, or Unarmed
  asleep,     \* the device is in SLEEP
  condition,  \* condition_ of the strategies
  armedIn,    \* history: the condition in which the timer was started
  late,       \* history: it was started on a date that is not the local one
  moved,      \* history: a change of the zone moved the device over a switch
  changes     \* counts towards MaxChanges

vars == <<now, zone, timer, asleep, condition, armedIn, late, moved, changes>>

(* The time of the local day.                                              *)
LocalTime(t, z) == (t + z) % Day

GetCondition(t, z) ==
  IF LocalTime(t, z) < NightEntrance /\ LocalTime(t, z) >= DayEntrance
  THEN "DAY_STANDBY" ELSE "NIGHT_STANDBY"

(* Mutant of DiffToFixedClock: a clock that has passed is not put off.     *)
DiffToFixedClockToday(t, z, clock) == (t \div Day) * Day + clock - z - t

(* The date is that of UTC, and the time of the day that of the zone.      *)
DiffToFixedClock(t, z, clock) ==
  LET timeDiff == (t \div Day) * Day + clock - z - t
  IN  IF timeDiff < 0 THEN timeDiff + Day ELSE timeDiff

(* Mutant of TimeDiffToDayNightSwitch: it is always the night to wait for. *)
TimeDiffToNight(t, z) == DiffToFixedClock(t, z, NightEntrance)

TimeDiffToDayNightSwitch(t, z) ==
  DiffToFixedClock(t, z, IF GetCondition(t, z) = "NIGHT_STANDBY" THEN DayEntrance
                         ELSE NightEntrance)

(* In the zones west of UTC the date of UTC is ahead in the evening.       *)
AheadOfLocalDate(t, z) == t \div Day > (t + z) \div Day

(* With the random delay that keeps devices from switching all at once.    *)
StartDayNightSwitchTimer(z) ==
  /\ \E delay \in 0..MaxDelay : timer' = now + TimeDiffToDayNightSwitch(now, z) + delay
  /\ armedIn' = GetCondition(now, z)
  /\ late' = (AheadOfLocalDate(now, z) /\ GetCondition(now, z) = "DAY_STANDBY")

Init ==
  /\ now = Day
  /\ zone \in Zone
  /\ timer = Unarmed /\ asleep = FALSE
  /\ condition = "DAY_STANDBY" /\ armedIn = "DAY_STANDBY"
  /\ late = FALSE /\ moved = FALSE /\ changes = 0

(* RegisterTimeObserver, when the timer service is there.                  *)
RegisterTimeObserver ==
  /\ timer = Unarmed
  /\ StartDayNightSwitchTimer(zone)
  /\ UNCHANGED <<now, zone, asleep, condition, moved, changes>>

(* The timer service goes, and with it the readiness of the service.       *)
UnregisterTimeObserver ==
  /\ timer # Unarmed
  /\ changes < MaxChanges /\ changes' = changes + 1
  /\ timer' = Unarmed /\ asleep' = FALSE /\ moved' = FALSE /\ late' = FALSE
  /\ UNCHANGED <<now, zone, condition, armedIn>>

FallsAsleep ==
  /\ timer # Unarmed /\ ~asleep
  /\ asleep' = TRUE /\ condition' = GetCondition(now, zone) /\ moved' = FALSE
  /\ UNCHANGED <<now, zone, timer, armedIn, late, changes>>

WakesUp ==
  /\ asleep
  /\ asleep' = FALSE /\ moved' = FALSE
  /\ UNCHANGED <<now, zone, timer, condition, armedIn, late, changes>>

(* Only a sleeping device is told; the timer is started again always.      *)
DayNightSwitchCallback ==
  /\ timer # Unarmed /\ timer <= now
  /\ condition' = IF asleep THEN GetCondition(now, zone) ELSE condition
  /\ moved' = FALSE
  /\ StartDayNightSwitchTimer(zone)
  /\ UNCHANGED <<now, zone, asleep, changes>>

(* RES_TYPE_TIMEZONE_CHANGED: ResetTimeObserver, which tells nobody.       *)
TimezoneChanged(z) ==
  /\ timer # Unarmed /\ z # zone
  /\ changes < MaxChanges /\ changes' = changes + 1
  /\ zone' = z
  /\ StartDayNightSwitchTimer(z)
  /\ moved' = (asleep /\ GetCondition(now, z) # condition)
  /\ UNCHANGED <<now, asleep, condition>>

Tick ==
  /\ now < Horizon
  /\ timer = Unarmed \/ timer > now
  /\ now' = now + 1
  /\ UNCHANGED <<zone, timer, asleep, condition, armedIn, late, moved, changes>>

Next ==
  \/ RegisterTimeObserver
  \/ UnregisterTimeObserver
  \/ FallsAsleep
  \/ WakesUp
  \/ DayNightSwitchCallback
  \/ \E z \in Zone : TimezoneChanged(z)
  \/ Tick

Spec == Init /\ [][Next]_vars

-----------------------------------------------------------------------------
(* Steps of the clock since the last switch.                               *)
SinceSwitch(t, z) ==
  IF GetCondition(t, z) = "DAY_STANDBY" THEN LocalTime(t, z) - DayEntrance
  ELSE (LocalTime(t, z) - NightEntrance) % Day

(* The strategies of a sleeping device go by the condition of the hour, at *)
(* most the random delay after a switch, in every zone.  Two ways out are  *)
(* known: a timer that was started in the evening of a zone west of UTC,   *)
(* which is a day late, and a change of the zone over a switch, which      *)
(* nobody is told of.                                                      *)
ConditionHeardInTime ==
  asleep /\ condition # GetCondition(now, zone) =>
    SinceSwitch(now, zone) <= MaxDelay \/ late \/ moved

(* The timer never expires before the switch it was started for: the call- *)
(* back would find the old condition and start it again for no time at     *)
(* all.                                                                    *)
TimerWaitsForSwitch ==
  timer # Unarmed /\ timer <= now => GetCondition(now, zone) # armedIn
=============================================================================
