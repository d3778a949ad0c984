---------------------------- MODULE DayNightProofs ----------------------------
(***************************************************************************)
(* The day and night timer waits for the switch, and the condition is      *)
(* heard in time, for any steps of the clock, zones and random delay.      *)
(***************************************************************************)
EXTENDS DayNight, TLAPS

-----------------------------------------------------------------------------
(* Whole days.  A midnight is a multiple of the day; each time is of one   *)
(* day only, so that what follows is linear in a midnight.                 *)

Midnight(d) == d \in Int /\ \E q \in Int : d = q * Day

(* An hour has four quarters, and a day is not empty.                      *)
LEMMA Hours ==
  /\ Hour \in Nat /\ Hour > 0 /\ Day \in Nat \ {0} /\ Day = 24 * Hour
  /\ DayEntrance \in Nat /\ DayEntrance = 6 * Hour
  /\ NightEntrance \in Nat /\ 4 * NightEntrance = 95 * Hour
  /\ MaxDelay \in Nat /\ 4 * MaxDelay <= Hour
  /\ \A z \in Zone : z \in Int /\ -12 * Hour <= z /\ z <= 14 * Hour
<1>1. Hour \in Nat /\ Hour > 0 /\ 4 * (Hour \div 4) = Hour
  BY ClockAssumption
<1>2. Hour \div 4 \in Nat
  BY <1>1
<1>3. Zone \subseteq (-12 * Hour)..(14 * Hour) /\ MaxDelay \in 0..(Hour \div 4)
  BY ClockAssumption
<1>4. QED  BY <1>1, <1>2, <1>3 DEF Day, DayEntrance, NightEntrance

(* Division with remainder.                                                *)
LEMMA Divides ==
  ASSUME NEW x \in Int, NEW n \in Nat \ {0}
  PROVE  /\ (x \div n) \in Int /\ (x % n) \in 0..(n - 1)
         /\ x = ((x \div n) * n) + (x % n)
OBVIOUS

(* Quotient and remainder are the only ones.                               *)
LEMMA DividesOnce ==
  ASSUME NEW n \in Nat \ {0}, NEW p \in Int, NEW q \in Int, NEW x \in Int,
         p * n <= x, x < (p * n) + n, q * n <= x, x < (q * n) + n
  PROVE  p = q
<1>1. ASSUME NEW a \in Int, NEW b \in Int, a < b PROVE (a * n) + n <= b * n
  <2>1. a + 1 <= b
    BY <1>1
  <2>2. (a + 1) * n <= b * n
    BY <2>1
  <2>3. (a + 1) * n = (a * n) + n
    OBVIOUS
  <2>4. QED  BY <2>2, <2>3
<1>2. ~ (p < q) /\ ~ (q < p)
  BY <1>1
<1>3. QED  BY <1>2

(* A time x of the day that begins at d.                                   *)
LEMMA TimeOfDay ==
  ASSUME NEW d, Midnight(d), NEW x \in Int, d <= x, x < d + Day
  PROVE  x % Day = x - d /\ (x \div Day) * Day = d
<1>1. Day \in Nat \ {0}
  BY Hours
<1>2. PICK q \in Int : d = q * Day
  BY DEF Midnight
<1>3. /\ (x \div Day) \in Int /\ (x % Day) \in 0..(Day - 1)
      /\ x = ((x \div Day) * Day) + (x % Day)
  BY <1>1, Divides
<1> DEFINE p == x \div Day
           r == x % Day
<1>4. p \in Int /\ r \in 0..(Day - 1) /\ x = (p * Day) + r
  BY <1>3
<1> HIDE DEF p, r
<1>5. p * Day \in Int /\ p * Day <= x /\ x < (p * Day) + Day
  BY <1>1, <1>4
<1>6. q * Day \in Int /\ q * Day <= x /\ x < (q * Day) + Day
  BY <1>1, <1>2 DEF Midnight
<1>7. p = q
  BY <1>1, <1>4, <1>5, <1>6, DividesOnce
<1>8. r = x - d /\ p * Day = d
  BY <1>2, <1>4, <1>5, <1>6, <1>7
<1>9. QED  BY <1>8 DEF p, r

(* Each time has a midnight before it.                                     *)
LEMMA DayBegins ==
  ASSUME NEW x \in Int
  PROVE  /\ Midnight((x \div Day) * Day)
         /\ (x \div Day) * Day <= x /\ x < ((x \div Day) * Day) + Day
<1>1. Day \in Nat \ {0}
  BY Hours
<1> DEFINE p == x \div Day
<1>2. p \in Int /\ (x % Day) \in 0..(Day - 1) /\ x = (p * Day) + (x % Day)
  BY <1>1, Divides
<1> HIDE DEF p
<1>3. p * Day \in Int
  BY <1>1, <1>2
<1>4. Midnight(p * Day)
  BY <1>2, <1>3 DEF Midnight
<1>5. p * Day <= x /\ x < (p * Day) + Day
  <2> DEFINE m == p * Day
             r == x % Day
  <2>1. m \in Int /\ r \in 0..(Day - 1) /\ x = m + r
    BY <1>2, <1>3
  <2> HIDE DEF m, r
  <2>2. m <= x /\ x < m + Day
    BY <1>1, <2>1
  <2>3. QED  BY <2>2 DEF m
<1>6. QED  BY <1>4, <1>5 DEF p

(* A day after a midnight, and a day before it, is a midnight.             *)
LEMMA NextMidnight ==
  ASSUME NEW d, Midnight(d) PROVE Midnight(d + Day) /\ Midnight(d - Day)
<1>1. Day \in Nat \ {0}
  BY Hours
<1>2. PICK q \in Int : d = q * Day
  BY DEF Midnight
<1>3. d + Day = (q + 1) * Day /\ d - Day = (q - 1) * Day /\ d \in Int
  BY <1>1, <1>2 DEF Midnight
<1>4. QED  BY <1>1, <1>3 DEF Midnight

(* The time of the local day.                                              *)
LEMMA LocalTimeIs ==
  ASSUME NEW d, Midnight(d), NEW t \in Int, NEW z \in Int, d <= t + z, t + z < d + Day
  PROVE  LocalTime(t, z) = t + z - d
<1> DEFINE x == t + z
<1>1. x \in Int /\ d <= x /\ x < d + Day
  OBVIOUS
<1> HIDE DEF x
<1>2. x % Day = x - d
  BY <1>1, TimeOfDay
<1>3. LocalTime(t, z) = x % Day
  BY DEF LocalTime, x
<1>4. LocalTime(t, z) = x - d
  BY <1>2, <1>3
<1>5. QED  BY <1>4 DEF x, Midnight

-----------------------------------------------------------------------------
(* The switch that the timer is started for.                               *)

Period == {"DAY_STANDBY", "NIGHT_STANDBY"}
Switch(c) == IF c = "NIGHT_STANDBY" THEN DayEntrance ELSE NightEntrance

(* The local time x is in the period c that ends at a switch on the day    *)
(* that begins at d.                                                       *)
Within(x, c, d) ==
  /\ x < d + Switch(c)
  /\ IF c = "NIGHT_STANDBY" THEN d - Day + NightEntrance <= x ELSE d + DayEntrance <= x

(* What is within a period has its condition.                              *)
LEMMA ConditionWithin ==
  ASSUME NEW d, Midnight(d), NEW t \in Int, NEW z \in Int, NEW c \in Period,
         Within(t + z, c, d)
  PROVE  GetCondition(t, z) = c
<1>1. d \in Int /\ d - Day \in Int /\ Midnight(d - Day)
  BY Hours, NextMidnight DEF Midnight
<1>2. CASE d <= t + z
  <2>1. t + z < d + Day
    BY <1>1, <1>2, Hours DEF Within, Switch
  <2>2. LocalTime(t, z) = t + z - d
    BY <1>2, <2>1, LocalTimeIs
  <2>3. QED  BY <1>1, <1>2, <2>2, Hours DEF GetCondition, Within, Switch, Period
<1>3. CASE t + z < d
  <2>1. c = "NIGHT_STANDBY" /\ d - Day <= t + z /\ t + z < d - Day + Day
    BY <1>1, <1>3, Hours DEF Within, Switch, Period
  <2>2. LocalTime(t, z) = t + z - (d - Day)
    BY <1>1, <2>1, LocalTimeIs
  <2>3. QED  BY <1>1, <1>3, <2>1, <2>2, Hours DEF GetCondition, Within, Switch
<1>4. QED  BY <1>1, <1>2, <1>3

(* Each local time is within one of the periods.                           *)
LEMMA PeriodOf ==
  ASSUME NEW t \in Int, NEW z \in Int
  PROVE  /\ GetCondition(t, z) \in Period
         /\ \E d : Midnight(d) /\ Within(t + z, GetCondition(t, z), d)
<1> DEFINE d == ((t + z) \div Day) * Day
           l == LocalTime(t, z)
<1>1. Midnight(d) /\ d <= t + z /\ t + z < d + Day
  BY DayBegins
<1> HIDE DEF d
<1>2. l = t + z - d
  BY <1>1, LocalTimeIs
<1>3. d \in Int /\ l \in Int /\ Midnight(d + Day) /\ d + Day - Day = d
  BY <1>1, <1>2, NextMidnight, Hours DEF Midnight
<1> HIDE DEF l
<1>4. CASE l < DayEntrance
  <2>1. GetCondition(t, z) = "NIGHT_STANDBY"
    BY <1>3, <1>4, Hours DEF GetCondition, l
  <2>2. Within(t + z, "NIGHT_STANDBY", d)
    BY <1>1, <1>2, <1>3, <1>4, Hours DEF Within, Switch
  <2>3. QED  BY <1>1, <2>1, <2>2 DEF Period
<1>5. CASE DayEntrance <= l /\ l < NightEntrance
  <2>1. GetCondition(t, z) = "DAY_STANDBY"
    BY <1>5 DEF GetCondition, l
  <2>2. Within(t + z, "DAY_STANDBY", d)
    BY <1>1, <1>2, <1>3, <1>5, Hours DEF Within, Switch
  <2>3. QED  BY <1>1, <2>1, <2>2 DEF Period
<1>6. CASE NightEntrance <= l
  <2>1. GetCondition(t, z) = "NIGHT_STANDBY"
    BY <1>3, <1>6, Hours DEF GetCondition, l
  <2>2. Within(t + z, "NIGHT_STANDBY", d + Day)
    BY <1>1, <1>2, <1>3, <1>6, Hours DEF Within, Switch
  <2>3. QED  BY <1>3, <2>1, <2>2 DEF Period
<1>7. QED  BY <1>2, <1>3, <1>4, <1>5, <1>6, Hours

(* The midnight of UTC is that of the zone or one of its neighbours.       *)
LEMMA DateOfUTC ==
  ASSUME NEW t \in Int, NEW z \in Zone, NEW d, Midnight(d), d <= t + z, t + z < d + Day
  PROVE  LET u == (t \div Day) * Day
         IN  /\ u \in Int /\ u <= t /\ t < u + Day
             /\ u \in {d - Day, d, d + Day}
             /\ u = d + Day => AheadOfLocalDate(t, z)
<1> DEFINE u == (t \div Day) * Day
<1>1. z \in Int /\ -12 * Hour <= z /\ z <= 14 * Hour /\ d \in Int
  BY Hours DEF Midnight
<1>2. Midnight(u) /\ u <= t /\ t < u + Day /\ u \in Int
  BY DayBegins DEF Midnight
<1>3. Midnight(d - Day) /\ Midnight(d + Day) /\ d - Day \in Int /\ d + Day \in Int
  BY <1>1, NextMidnight, Hours
<1>4. \A e \in {d - Day, d, d + Day} : e <= t /\ t < e + Day => u = e
  BY <1>1, <1>3, TimeOfDay
<1>5. u \in {d - Day, d, d + Day}
  <2> HIDE DEF u
  <2>1. d - Day <= t /\ t < d + Day + Day
    BY <1>1, Hours
  <2>2. QED  BY <1>1, <1>4, <2>1, Hours
<1>6. u = d + Day => AheadOfLocalDate(t, z)
  <2> SUFFICES ASSUME u = d + Day PROVE AheadOfLocalDate(t, z)
    OBVIOUS
  <2> DEFINE p == t \div Day
             q == (t + z) \div Day
  <2>1. p \in Int /\ q \in Int /\ Day \in Nat \ {0}
    BY <1>1, Divides, Hours
  <2>2. q * Day = d
    BY <1>1, TimeOfDay
  <2>3. p * Day = (q * Day) + Day
    BY <2>2
  <2> HIDE DEF p, q
  <2>4. p <= q => p * Day <= q * Day
    BY <2>1
  <2>5. p > q
    <3>1. q * Day \in Int /\ p * Day \in Int
      BY <2>1
    <3>2. QED  BY <2>1, <2>3, <2>4, <3>1
  <2>6. QED  BY <2>5 DEF AheadOfLocalDate, p, q
<1>7. QED  BY <1>2, <1>5, <1>6

(* The timer is started for the switch that ends the period, unless the    *)
(* date of UTC is ahead in the evening: then for the switch a day later.   *)
LEMMA SwitchTime ==
  ASSUME NEW t \in Int, NEW z \in Zone
  PROVE  LET c == GetCondition(t, z)
             diff == TimeDiffToDayNightSwitch(t, z)
             evening == AheadOfLocalDate(t, z) /\ c = "DAY_STANDBY"
         IN  /\ diff \in Nat
             /\ \E d : /\ Midnight(d) /\ t + z + diff = d + Switch(c)
                       /\ ~ evening => Within(t + z, c, d)
<1> DEFINE c == GetCondition(t, z)
           diff == TimeDiffToDayNightSwitch(t, z)
           evening == AheadOfLocalDate(t, z) /\ c = "DAY_STANDBY"
           u == (t \div Day) * Day
           today == ((t + z) \div Day) * Day
           early == u + Switch(c) - z - t
<1>1. z \in Int /\ -12 * Hour <= z /\ z <= 14 * Hour
  BY Hours
<1>2. c \in Period
  BY <1>1, PeriodOf
<1>3. PICK d : Midnight(d) /\ Within(t + z, c, d)
  BY <1>1, PeriodOf
<1>4. Midnight(today) /\ today <= t + z /\ t + z < today + Day
  BY <1>1, DayBegins
<1>5. /\ u \in Int /\ u <= t /\ t < u + Day
      /\ u \in {today - Day, today, today + Day}
      /\ u = today + Day => AheadOfLocalDate(t, z)
  BY <1>4, DateOfUTC
<1>6. diff = IF early < 0 THEN early + Day ELSE early
  BY DEF TimeDiffToDayNightSwitch, DiffToFixedClock, Switch
<1>7. d \in Int /\ today \in Int /\ Switch(c) \in Int
  BY <1>2, <1>3, <1>4, Hours DEF Midnight, Switch
<1>8. d = today \/ d = today + Day
  <2>1. \A e : Midnight(e) /\ e <= t + z /\ t + z < e + Day => e = today
    BY <1>1, TimeOfDay
  <2>2. Midnight(d - Day)
    BY <1>3, NextMidnight
  <2> HIDE DEF c, today
  <2>3. \/ d <= t + z /\ t + z < d + Day
        \/ d - Day <= t + z /\ t + z < (d - Day) + Day
    <3>1. CASE c = "DAY_STANDBY"
      BY <1>1, <1>3, <1>7, <3>1, Hours DEF Within, Switch
    <3>2. CASE c = "NIGHT_STANDBY"
      BY <1>1, <1>3, <1>7, <3>2, Hours DEF Within, Switch
    <3>3. QED  BY <1>2, <3>1, <3>2 DEF Period
  <2>4. d = today \/ d - Day = today
    BY <1>3, <2>1, <2>2, <2>3
  <2>5. QED  BY <1>7, <2>4, Hours
<1> HIDE DEF c, diff, u, today
<1>9. CASE evening /\ u = today + Day
  <2>1. c = "DAY_STANDBY" /\ Switch(c) = NightEntrance
    BY <1>9 DEF Switch
  <2>2. d = today
    BY <1>1, <1>3, <1>4, <1>7, <1>8, <2>1, Hours DEF Within
  <2>3. early \in Nat /\ diff = early
    BY <1>1, <1>3, <1>5, <1>6, <1>7, <1>9, <2>1, <2>2, Hours DEF Within
  <2>4. Midnight(d + Day) /\ t + z + diff = d + Day + Switch(c)
    BY <1>1, <1>3, <1>7, <1>9, <2>2, <2>3, NextMidnight, Hours
  <2>5. QED  BY <1>9, <2>3, <2>4 DEF c, diff
<1>10. CASE ~ (evening /\ u = today + Day)
  <2>1. diff \in Nat /\ t + z + diff = d + Switch(c)
    <3>1. CASE c = "DAY_STANDBY"
      <4>1. u \in {today - Day, today} /\ Switch(c) = NightEntrance /\ d = today
        BY <1>1, <1>3, <1>4, <1>5, <1>7, <1>8, <1>10, <3>1, Hours DEF Within, Switch
      <4>2. QED  BY <1>1, <1>3, <1>5, <1>6, <1>7, <3>1, <4>1, Hours DEF Within
    <3>2. CASE c = "NIGHT_STANDBY"
      <4>1. Switch(c) = DayEntrance /\ d - Day + NightEntrance <= t + z /\ t + z < d + DayEntrance
        BY <1>3, <3>2 DEF Within, Switch
      <4>2. u = d - Day \/ u = d
        BY <1>1, <1>4, <1>5, <1>7, <1>8, <4>1, Hours
      <4>3. QED  BY <1>1, <1>5, <1>6, <1>7, <4>1, <4>2, Hours
    <3>3. QED  BY <1>2, <3>1, <3>2 DEF Period
  <2>2. QED  BY <1>3, <2>1 DEF c, diff
<1>11. QED  BY <1>9, <1>10 DEF c, diff

-----------------------------------------------------------------------------
(* The inductive invariant.                                                *)

(* A timer that is armed has not expired unnoticed; it expires at the      *)
(* switch that ends the period armedIn, or later by the delay.  The device *)
(* has been in no other period since the timer was started, up to that     *)
(* switch, unless the timer is a day late.                                 *)
TimerSet ==
  timer # Unarmed =>
    /\ now <= timer
    /\ \E d : /\ Midnight(d)
              /\ timer + zone - (d + Switch(armedIn)) \in 0..MaxDelay
              /\ ~ late /\ now + zone < d + Switch(armedIn) => Within(now + zone, armedIn, d)

(* A sleeping device has a timer.  If it goes by a condition that is not   *)
(* that of the hour, the switch it was started for has been passed.        *)
SleepersHear ==
  asleep =>
    /\ timer # Unarmed
    /\ late \/ moved \/ condition = GetCondition(now, zone) \/ GetCondition(now, zone) # armedIn

ClockInv ==
  /\ now \in Nat /\ zone \in Zone /\ timer \in Int /\ armedIn \in Period
  /\ asleep \in BOOLEAN /\ late \in BOOLEAN /\ moved \in BOOLEAN
  /\ TimerSet /\ SleepersHear

(* Starting the timer sets it.                                             *)
LEMMA StartSets ==
  ASSUME now \in Nat, NEW z \in Zone, zone' = z, now' = now, StartDayNightSwitchTimer(z)
  PROVE  /\ timer' \in Int /\ timer' # Unarmed /\ armedIn' \in Period /\ late' \in BOOLEAN
         /\ TimerSet'
<1> DEFINE c == GetCondition(now, z)
           diff == TimeDiffToDayNightSwitch(now, z)
           evening == AheadOfLocalDate(now, z) /\ c = "DAY_STANDBY"
<1>1. now \in Int /\ z \in Int
  BY Hours
<1>2. PICK delay \in 0..MaxDelay : timer' = now + diff + delay
  BY DEF StartDayNightSwitchTimer
<1>3. armedIn' = c /\ late' = evening
  BY DEF StartDayNightSwitchTimer
<1>4. c \in Period
  BY <1>1, PeriodOf
<1>5. diff \in Nat
  BY <1>1, SwitchTime
<1>6. PICK d : /\ Midnight(d) /\ now + z + diff = d + Switch(c)
               /\ ~ evening => Within(now + z, c, d)
  BY <1>1, SwitchTime
<1>7. evening \in BOOLEAN
  BY DEF AheadOfLocalDate
<1> HIDE DEF c, diff, evening
<1>8. d \in Int /\ Switch(c) \in Int /\ MaxDelay \in Nat
  BY <1>4, <1>6, Hours DEF Midnight, Switch
<1>9. timer' \in Int /\ timer' >= now /\ timer' # Unarmed
  BY <1>1, <1>2, <1>5, <1>8 DEF Unarmed
<1>10. timer' + z - (d + Switch(c)) \in 0..MaxDelay
  BY <1>1, <1>2, <1>5, <1>6, <1>8
<1>11. TimerSet'
  <2>1. now' <= timer' /\ timer' + zone' - (d + Switch(armedIn')) \in 0..MaxDelay
    BY <1>3, <1>9, <1>10
  <2>2. ~ late' => Within(now' + zone', armedIn', d)
    BY <1>3, <1>6
  <2>3. QED  BY <1>6, <2>1, <2>2 DEF TimerSet
<1>12. QED  BY <1>3, <1>4, <1>7, <1>9, <1>11

(* A clock that ticks before the timer expires.                            *)
LEMMA TickKeeps ==
  ASSUME ClockInv, Tick PROVE ClockInv'
<1>1. now \in Int /\ zone \in Int /\ now' = now + 1 /\ now' \in Nat /\ zone \in Zone
  BY Hours DEF ClockInv, Tick
<1>2. UNCHANGED <<zone, timer, asleep, condition, armedIn, late, moved, changes>>
  BY DEF Tick
<1>3. armedIn \in Period /\ Switch(armedIn) \in Int /\ MaxDelay \in Nat /\ timer \in Int
  BY Hours DEF ClockInv, Switch
<1>4. CASE timer = Unarmed
  BY <1>1, <1>2, <1>4 DEF ClockInv, TimerSet, SleepersHear
<1>5. CASE timer # Unarmed
  <2>1. now < timer
    BY <1>1, <1>3, <1>5 DEF Tick
  <2>2. PICK d : /\ Midnight(d)
                 /\ timer + zone - (d + Switch(armedIn)) \in 0..MaxDelay
                 /\ ~ late /\ now + zone < d + Switch(armedIn) => Within(now + zone, armedIn, d)
    BY <1>5 DEF ClockInv, TimerSet
  <2>3. d \in Int
    BY <2>2 DEF Midnight
  <2>4. ~ late /\ now' + zone < d + Switch(armedIn) => Within(now' + zone, armedIn, d)
    BY <1>1, <1>3, <2>2, <2>3, Hours DEF Within
  <2>5. TimerSet'
    BY <1>1, <1>2, <1>3, <2>1, <2>2, <2>4 DEF TimerSet
  <2>6. ASSUME asleep, ~ late, GetCondition(now', zone) = armedIn
        PROVE  GetCondition(now, zone) = armedIn
    <3>1. CASE now' + zone < d + Switch(armedIn)
      <4>1. Within(now + zone, armedIn, d)
        BY <1>1, <1>3, <2>2, <2>3, <2>6, <3>1
      <4>2. QED  BY <1>1, <1>3, <2>2, <4>1, ConditionWithin
    <3>2. CASE now' + zone >= d + Switch(armedIn)
      <4>1. GetCondition(now', zone) # armedIn
        <5>1. now' + zone <= d + Switch(armedIn) + MaxDelay
          BY <1>1, <1>3, <2>1, <2>2, <2>3
        <5>2. CASE armedIn = "DAY_STANDBY"
          <6>1. Within(now' + zone, "NIGHT_STANDBY", d + Day)
            BY <1>1, <2>3, <3>2, <5>1, <5>2, Hours DEF Within, Switch
          <6>2. Midnight(d + Day)
            BY <2>2, NextMidnight
          <6>3. GetCondition(now', zone) = "NIGHT_STANDBY"
            BY <1>1, <6>1, <6>2, ConditionWithin DEF Period
          <6>4. QED  BY <5>2, <6>3
        <5>3. CASE armedIn = "NIGHT_STANDBY"
          <6>1. Within(now' + zone, "DAY_STANDBY", d)
            BY <1>1, <2>3, <3>2, <5>1, <5>3, Hours DEF Within, Switch
          <6>2. GetCondition(now', zone) = "DAY_STANDBY"
            BY <1>1, <2>2, <6>1, ConditionWithin DEF Period
          <6>3. QED  BY <5>3, <6>2
        <5>4. QED  BY <1>3, <5>2, <5>3 DEF Period
      <4>2. QED  BY <2>6, <4>1
    <3>3. QED  BY <1>1, <1>3, <2>3, <3>1, <3>2
  <2>7. SleepersHear'
    <3> SUFFICES ASSUME asleep, ~ late, ~ moved, GetCondition(now', zone) = armedIn
                 PROVE  condition = GetCondition(now', zone)
      BY <1>2, <1>5 DEF SleepersHear
    <3>1. GetCondition(now, zone) = armedIn
      BY <2>6
    <3>2. QED  BY <3>1 DEF ClockInv, SleepersHear
  <2>8. QED  BY <1>1, <1>2, <2>5, <2>7 DEF ClockInv
<1>6. QED  BY <1>4, <1>5

(* A timer that is started anew keeps the invariant, if the device is not  *)
(* left asleep by a condition that is not that of the hour.                *)
LEMMA StartKeeps ==
  ASSUME ClockInv, NEW z \in Zone, zone' = z, now' = now, StartDayNightSwitchTimer(z),
         asleep' = asleep, moved' \in BOOLEAN,
         asleep => moved' \/ condition' = GetCondition(now, z)
  PROVE  ClockInv'
<1>1. now \in Nat /\ asleep \in BOOLEAN
  BY DEF ClockInv
<1>2. timer' \in Int /\ timer' # Unarmed /\ armedIn' \in Period /\ late' \in BOOLEAN /\ TimerSet'
  BY <1>1, StartSets
<1>3. SleepersHear'
  BY <1>2 DEF SleepersHear
<1>4. QED  BY <1>1, <1>2, <1>3 DEF ClockInv

(* The invariant holds at the start and is kept by every step.             *)
LEMMA ClockInvStarts ==
  Init => ClockInv
<1> SUFFICES ASSUME Init PROVE ClockInv
  OBVIOUS
<1>1. now \in Nat /\ zone \in Zone /\ timer \in Int /\ armedIn \in Period
  BY Hours DEF Init, Unarmed, Period
<1>2. QED  BY <1>1 DEF Init, ClockInv, TimerSet, SleepersHear

LEMMA ClockInvKept ==
  ClockInv /\ [Next]_vars => ClockInv'
<1> SUFFICES ASSUME ClockInv, [Next]_vars PROVE ClockInv'
  OBVIOUS
<1>1. zone \in Zone /\ asleep \in BOOLEAN /\ moved \in BOOLEAN /\ late \in BOOLEAN
  BY DEF ClockInv
<1>2. CASE RegisterTimeObserver
  <2>1. asleep = FALSE
    BY <1>2 DEF RegisterTimeObserver, ClockInv, SleepersHear
  <2>2. QED  BY <1>1, <1>2, <2>1, StartKeeps DEF RegisterTimeObserver
<1>3. CASE UnregisterTimeObserver
  <2>1. Unarmed \in Int
    BY DEF Unarmed
  <2>2. QED  BY <1>3, <2>1 DEF UnregisterTimeObserver, ClockInv, TimerSet, SleepersHear
<1>4. CASE FallsAsleep
  BY <1>4 DEF FallsAsleep, ClockInv, TimerSet, SleepersHear
<1>5. CASE WakesUp
  BY <1>5 DEF WakesUp, ClockInv, TimerSet, SleepersHear
<1>6. CASE DayNightSwitchCallback
  BY <1>1, <1>6, StartKeeps DEF DayNightSwitchCallback
<1>7. ASSUME NEW z \in Zone, TimezoneChanged(z) PROVE ClockInv'
  <2>1. moved' \in BOOLEAN /\ (asleep => moved' \/ condition' = GetCondition(now, z))
    BY <1>1, <1>7 DEF TimezoneChanged
  <2>2. QED  BY <1>7, <2>1, StartKeeps DEF TimezoneChanged
<1>8. CASE Tick
  BY <1>8, TickKeeps
<1>9. CASE UNCHANGED vars
  BY <1>9 DEF vars, ClockInv, TimerSet, SleepersHear
<1>10. QED  BY <1>2, <1>3, <1>4, <1>5, <1>6, <1>7, <1>8, <1>9 DEF Next

LEMMA ClockInvHolds == Spec => []ClockInv
BY ClockInvStarts, ClockInvKept, PTL DEF Spec

-----------------------------------------------------------------------------
(* The properties.                                                         *)

(* What is after a switch, by no more than the delay, is in the other      *)
(* period, and the switch is as far back as SinceSwitch says.              *)
LEMMA JustSwitched ==
  ASSUME NEW t \in Int, NEW z \in Int, NEW c \in Period, NEW d, Midnight(d),
         d + Switch(c) <= t + z, t + z <= d + Switch(c) + MaxDelay
  PROVE  GetCondition(t, z) # c /\ SinceSwitch(t, z) = t + z - (d + Switch(c))
<1>1. d \in Int /\ Midnight(d + Day) /\ d + Day \in Int
  BY NextMidnight, Hours DEF Midnight
<1>2. CASE c = "NIGHT_STANDBY"
  <2>1. Within(t + z, "DAY_STANDBY", d) /\ Switch(c) = DayEntrance
    BY <1>1, <1>2, Hours DEF Within, Switch
  <2>2. GetCondition(t, z) = "DAY_STANDBY"
    BY <2>1, ConditionWithin DEF Period
  <2>3. LocalTime(t, z) = t + z - d
    BY <1>1, <2>1, LocalTimeIs, Hours DEF Within, Switch
  <2>4. QED  BY <1>1, <1>2, <2>1, <2>2, <2>3, Hours DEF SinceSwitch
<1>3. CASE c = "DAY_STANDBY"
  <2>1. Within(t + z, "NIGHT_STANDBY", d + Day) /\ Switch(c) = NightEntrance
    BY <1>1, <1>3, Hours DEF Within, Switch
  <2>2. GetCondition(t, z) = "NIGHT_STANDBY"
    BY <1>1, <2>1, ConditionWithin DEF Period
  <2> DEFINE l == LocalTime(t, z) - NightEntrance
             since == t + z - (d + NightEntrance)
  <2>3. since \in Int /\ 0 <= since /\ since < Day
    BY <1>1, <1>3, <2>1, Hours
  <2>4. CASE t + z < d + Day
    <3>1. LocalTime(t, z) = t + z - d
      <4>1. d <= t + z
        BY <1>1, <2>1, Hours
      <4>2. QED  BY <2>4, <4>1, LocalTimeIs
    <3>2. l = since
      BY <1>1, <3>1, Hours
    <3>3. Midnight(0)
      BY Hours DEF Midnight
    <3> HIDE DEF l, since
    <3>4. since % Day = since
      <4>1. 0 <= since /\ since < 0 + Day
        BY <2>3, Hours
      <4>2. since % Day = since - 0
        BY <2>3, <3>3, <4>1, TimeOfDay
      <4>3. QED  BY <2>3, <4>2
    <3>5. QED  BY <1>3, <2>1, <2>2, <3>2, <3>4 DEF SinceSwitch, l, since
  <2>5. CASE d + Day <= t + z
    <3>1. LocalTime(t, z) = t + z - (d + Day)
      <4> DEFINE e == d + Day
      <4>1. e <= t + z /\ t + z < e + Day
        BY <1>1, <2>1, <2>5, Hours
      <4>2. Midnight(e)
        BY <1>1
      <4> HIDE DEF e
      <4>3. LocalTime(t, z) = t + z - e
        BY <4>1, <4>2, LocalTimeIs
      <4>4. QED  BY <4>3 DEF e
    <3>2. l = since - Day
      BY <1>1, <3>1, Hours
    <3>3. Midnight(0) /\ Midnight(-Day)
      <4>1. Midnight(0)
        BY Hours DEF Midnight
      <4>2. 0 - Day = -Day
        BY Hours
      <4>3. QED  BY <4>1, <4>2, NextMidnight
    <3> HIDE DEF l, since
    <3>4. l \in Int /\ -Day <= l /\ l < (-Day) + Day
      BY <2>3, <3>2, Hours
    <3>5. l % Day = l - (-Day)
      BY <3>3, <3>4, TimeOfDay
    <3>6. l % Day = since
      BY <2>3, <3>2, <3>5, Hours
    <3>7. QED  BY <1>3, <2>1, <2>2, <3>6 DEF SinceSwitch, l, since
  <2>6. QED  BY <1>1, <2>4, <2>5, Hours
<1>4. QED  BY <1>2, <1>3 DEF Period

(* A timer that expires finds another condition than the one it was        *)
(* started in (DayNightSwitchCallback, standby_service_impl.cpp:204).      *)
THEOREM TimerWaitsForSwitchHolds == Spec => []TimerWaitsForSwitch
<1>1. ClockInv => TimerWaitsForSwitch
  <2> SUFFICES ASSUME ClockInv, timer # Unarmed, timer <= now
               PROVE  GetCondition(now, zone) # armedIn
    BY DEF TimerWaitsForSwitch
  <2>1. now \in Int /\ zone \in Int /\ timer \in Int /\ armedIn \in Period
    BY Hours DEF ClockInv
  <2>2. PICK d : Midnight(d) /\ timer + zone - (d + Switch(armedIn)) \in 0..MaxDelay
    BY DEF ClockInv, TimerSet
  <2>3. timer = now /\ d \in Int /\ Switch(armedIn) \in Int /\ MaxDelay \in Nat
    BY <2>1, <2>2, Hours DEF ClockInv, TimerSet, Midnight, Switch
  <2>4. /\ d + Switch(armedIn) <= now + zone
        /\ now + zone <= d + Switch(armedIn) + MaxDelay
    BY <2>1, <2>2, <2>3
  <2>5. QED  BY <2>1, <2>2, <2>4, JustSwitched
<1>2. QED  BY <1>1, ClockInvHolds, PTL

(* The strategies of a sleeping device hear of a switch at most the random *)
(* delay after it, but for a timer that is a day late and for a change of  *)
(* the zone (time_provider.cpp:89).                                        *)
THEOREM ConditionHeardInTimeHolds == Spec => []ConditionHeardInTime
<1>1. ClockInv => ConditionHeardInTime
  <2> SUFFICES ASSUME ClockInv, asleep, condition # GetCondition(now, zone), ~ late, ~ moved
               PROVE  SinceSwitch(now, zone) <= MaxDelay
    BY DEF ConditionHeardInTime
  <2>1. now \in Int /\ zone \in Int /\ timer \in Int /\ armedIn \in Period
    BY Hours DEF ClockInv
  <2>2. timer # Unarmed /\ GetCondition(now, zone) # armedIn
    BY DEF ClockInv, SleepersHear
  <2>3. PICK d : /\ Midnight(d)
                 /\ timer + zone - (d + Switch(armedIn)) \in 0..MaxDelay
                 /\ now + zone < d + Switch(armedIn) => Within(now + zone, armedIn, d)
    BY <2>2 DEF ClockInv, TimerSet
  <2>4. now <= timer /\ d \in Int /\ Switch(armedIn) \in Int /\ MaxDelay \in Nat
    BY <2>1, <2>2, <2>3, Hours DEF ClockInv, TimerSet, Midnight, Switch
  <2>5. ~ (now + zone < d + Switch(armedIn))
    BY <2>1, <2>2, <2>3, ConditionWithin
  <2>6. /\ d + Switch(armedIn) <= now + zone
        /\ now + zone <= d + Switch(armedIn) + MaxDelay
    BY <2>1, <2>3, <2>4, <2>5
  <2>7. SinceSwitch(now, zone) = now + zone - (d + Switch(armedIn))
    BY <2>1, <2>3, <2>6, JustSwitched
  <2>8. QED  BY <2>1, <2>4, <2>6, <2>7
<1>2. QED  BY <1>1, ClockInvHolds, PTL
=============================================================================
