------------------------ MODULE StandbySubscriberProofs ------------------------
(***************************************************************************)
(* Proofs about the subscribers and the client library, for any clients,   *)
(* modules, values, days and processes of the service.                     *)
(***************************************************************************)
EXTENDS StandbySubscriber, SequenceTheorems, TLAPS

-----------------------------------------------------------------------------
(* What the operators on the list of subscribers return.                   *)

(* What comes before an entry of a sequence, and what comes after it.      *)
LEMMA FrontOf ==
  ASSUME NEW S, NEW s \in Seq(S), NEW f \in 1..Len(s)
  PROVE  /\ SubSeq(s, 1, f - 1) \in Seq(S)
         /\ Len(SubSeq(s, 1, f - 1)) = f - 1
         /\ \A i \in 1..(f - 1) : SubSeq(s, 1, f - 1)[i] = s[i]
OBVIOUS

(* The rest of a sequence behind a place.                                  *)
LEMMA RestOf ==
  ASSUME NEW S, NEW s \in Seq(S), NEW f \in 1..Len(s)
  PROVE  /\ SubSeq(s, f + 1, Len(s)) \in Seq(S)
         /\ Len(SubSeq(s, f + 1, Len(s))) = Len(s) - f
         /\ \A i \in 1..(Len(s) - f) : SubSeq(s, f + 1, Len(s))[i] = s[f + i]
OBVIOUS

(* The two together: the sequence without the entry.                       *)
Without(s, f) == SubSeq(s, 1, f - 1) \o SubSeq(s, f + 1, Len(s))

(* What a sequence holds after one place is taken out.                     *)
LEMMA WithoutProperties ==
  ASSUME NEW S, NEW s \in Seq(S), NEW f \in 1..Len(s)
  PROVE  /\ Without(s, f) \in Seq(S) /\ Len(Without(s, f)) = Len(s) - 1
         /\ \A i \in 1..(f - 1) : Without(s, f)[i] = s[i]
         /\ \A i \in f..(Len(s) - 1) : Without(s, f)[i] = s[i + 1]
<1> DEFINE a == SubSeq(s, 1, f - 1)
           b == SubSeq(s, f + 1, Len(s))
<1>1. /\ a \in Seq(S) /\ Len(a) = f - 1
      /\ \A i \in 1..(f - 1) : a[i] = s[i]
  BY FrontOf
<1>2. /\ b \in Seq(S) /\ Len(b) = Len(s) - f
      /\ \A i \in 1..(Len(s) - f) : b[i] = s[f + i]
  BY RestOf
<1>3. Without(s, f) = a \o b
  BY Zenon DEF Without
<1> HIDE DEF a, b
<1>4. a \o b \in Seq(S) /\ Len(a \o b) = Len(s) - 1
  <2>1. a \in Seq(S) /\ b \in Seq(S)
    BY <1>1, <1>2
  <2>2. a \o b \in Seq(S) /\ Len(a \o b) = Len(a) + Len(b)
    BY <2>1, ConcatProperties
  <2>3. Len(a) + Len(b) = Len(s) - 1
    BY <1>1, <1>2
  <2>4. QED  BY <2>2, <2>3
<1>5. ASSUME NEW i \in 1..(f - 1)
      PROVE  (a \o b)[i] = s[i]
  BY <1>1, <1>2
<1>6. ASSUME NEW i \in f..(Len(s) - 1)
      PROVE  (a \o b)[i] = s[i + 1]
  <2>1. i - (f - 1) \in 1..(Len(s) - f) /\ f + (i - (f - 1)) = i + 1
    OBVIOUS
  <2>2. (a \o b)[i] = b[i - (f - 1)]
    BY <1>1, <1>2
  <2>3. b[i - (f - 1)] = s[f + (i - (f - 1))]
    BY <1>2, <2>1
  <2>4. QED  BY <2>1, <2>2, <2>3
<1>7. QED  BY <1>3, <1>4, <1>5, <1>6, Zenon

(* Erase returns a list of the other entries: an entry of the result is    *)
(* one of the list, every entry of another client stays, no entry appears  *)
(* twice that did not before, and of a client that was listed once nothing *)
(* is left.                                                                *)
LEMMA EraseProperties ==
  ASSUME NEW S, NEW s \in Seq(S), NEW c \in S,
         \A i, j \in DOMAIN s : s[i] = s[j] => i = j
  PROVE  /\ Erase(s, c) \in Seq(S)
         /\ \A i \in DOMAIN Erase(s, c) : Erase(s, c)[i] # c
         /\ \A i \in DOMAIN Erase(s, c) : \E j \in DOMAIN s : s[j] = Erase(s, c)[i]
         /\ \A j \in DOMAIN s : s[j] # c => \E i \in DOMAIN Erase(s, c) : s[j] = Erase(s, c)[i]
         /\ \A i, j \in DOMAIN Erase(s, c) : Erase(s, c)[i] = Erase(s, c)[j] => i = j
<1>1. CASE ~ \E i \in DOMAIN s : s[i] = c
  BY <1>1 DEF Erase
<1>2. CASE \E i \in DOMAIN s : s[i] = c
  <2> DEFINE first == CHOOSE i \in DOMAIN s : s[i] = c /\ \A j \in 1..(i - 1) : s[j] # c
             r == Without(s, first)
  <2>1. DOMAIN s = 1..Len(s) /\ Len(s) \in Nat
    BY LenProperties
  <2>2. \E i \in DOMAIN s : s[i] = c /\ \A j \in 1..(i - 1) : s[j] # c
    <3>1. PICK i \in DOMAIN s : s[i] = c  BY <1>2
    <3>2. \A j \in 1..(i - 1) : s[j] # c  BY <2>1, <3>1
    <3>3. QED  BY <3>1, <3>2
  <2>3. first \in 1..Len(s) /\ s[first] = c
    BY <2>1, <2>2
  <2>4. Erase(s, c) = r
    BY <1>2 DEF Erase, Without
  <2> HIDE DEF first
  <2>5. /\ r \in Seq(S) /\ Len(r) = Len(s) - 1
        /\ \A i \in 1..(first - 1) : r[i] = s[i]
        /\ \A i \in first..(Len(s) - 1) : r[i] = s[i + 1]
    BY <2>3, WithoutProperties, Zenon
  <2> HIDE DEF r
  <2> DEFINE at(i) == IF i < first THEN i ELSE i + 1
  <2>6. DOMAIN r = 1..(Len(s) - 1)
    BY <2>5, LenProperties
  <2>7. ASSUME NEW i \in DOMAIN r
        PROVE  at(i) \in DOMAIN s /\ r[i] = s[at(i)] /\ at(i) # first
    BY <2>1, <2>3, <2>5, <2>6
  <2>8. ASSUME NEW i \in DOMAIN r, NEW j \in DOMAIN r, at(i) = at(j)
        PROVE  i = j
    BY <2>1, <2>3, <2>6, <2>8
  <2>9. ASSUME NEW j \in DOMAIN s, s[j] # c
        PROVE  \E i \in DOMAIN r : s[j] = r[i]
    <3>1. CASE j < first
      BY <2>1, <2>3, <2>5, <2>6, <3>1
    <3>2. CASE j > first
      <4>1. j - 1 \in DOMAIN r /\ r[j - 1] = s[j]
        BY <2>1, <2>3, <2>5, <2>6, <3>2
      <4>2. QED  BY <4>1
    <3>3. j # first /\ j \in Int /\ first \in Int
      BY <2>1, <2>3, <2>9
    <3>4. QED  BY <3>1, <3>2, <3>3
  <2> HIDE DEF at
  <2>10. \A i \in DOMAIN r : r[i] # c
    BY <2>1, <2>3, <2>7
  <2>11. \A i \in DOMAIN r : \E j \in DOMAIN s : s[j] = r[i]
    BY <2>7
  <2>12. \A i, j \in DOMAIN r : r[i] = r[j] => i = j
    BY <2>7, <2>8
  <2>13. QED  BY <2>4, <2>5, <2>9, <2>10, <2>11, <2>12
<1>3. QED  BY <1>1, <1>2

-----------------------------------------------------------------------------
(* The inductive invariant.                                                *)

(* While the service is down it has no subscribers and no reports, and it  *)
(* can start once more.                                                    *)
DownIsEmpty ==
  ~serviceUp =>
    /\ life < MaxLife /\ subscriberList = << >> /\ adding = {} /\ reports = {}
    /\ \A k \in Kind, m \in Module : burst[k][m].on = 0

(* AddSubscriber refuses a subscriber that is listed, so that erasing the  *)
(* first entry of a subscriber erases all of them.                         *)
ListedOnce ==
  \A i, j \in DOMAIN subscriberList : subscriberList[i] = subscriberList[j] => i = j

(* subscriberLock_ lets one AddSubscriber run at a time.                   *)
OneAdding == \A a, b \in adding : a = b

BeingAdded(c) == \E a \in adding : a.client = c

(* The service hears of the death of every subscriber that is alive and    *)
(* that it has added.                                                      *)
AliveAreWatched ==
  \A c \in alive : Listed(c) => c \in recipient \/ BeingAdded(c)

(* A subscriber that is not listed has not been told a standby state.      *)
UnlistedAreUntold ==
  \A c \in Client : ~Listed(c) => told[c].mode = Untold

(* The lock of a map lets one report renew it at a time.                   *)
OneLocked ==
  \A r, s \in reports : r.stage = "checked" /\ s.stage = "checked" /\ r.kind = s.kind => r = s

(* A report belongs to the reports of its module that overlap.             *)
ReportsOfBurst ==
  \A r \in reports :
    r.value \in burst[r.kind][r.module].values /\ burst[r.kind][r.module].on <= r.on

(* A map that was cleared holds values of the day of curDate_ only.        *)
RenewedIsCurrent ==
  \A k \in renewed, m \in Module :
    callBackMap[k][m].value # Normal => callBackMap[k][m].on = curDate

(* As long as no report of an earlier day has set curDate_ back, what is   *)
(* in a map for today was reported after curDate_ became today, ...        *)
TodayIsCurrent ==
  \A k \in Kind, m \in Module :
    ~setBack /\ callBackMap[k][m].on = date => curDate = date

(* ... a report that will clear its map for today finds nothing of today   *)
(* in it, ...                                                              *)
ClearsNothingOfToday ==
  \A r \in reports, m \in Module :
    ~setBack /\ r.stage = "checked" /\ r.on = date => callBackMap[r.kind][m].on # date

(* ... and when the reports of a module have updated the map, one of them  *)
(* is in it.                                                               *)
Entered(k, m) ==
  \A r \in reports : r.kind = k /\ r.module = m => r.stage = "updated"

BurstIsInMap ==
  \A k \in Kind, m \in Module : burst[k][m].on = date /\ Entered(k, m) =>
    \/ /\ callBackMap[k][m].value \in burst[k][m].values
       /\ (setBack \/ (callBackMap[k][m].on = date /\ curDate = date))
    \/ setBack /\ callBackMap[k][m].value = Normal

(* While a subscriber is told with the day before, the reports of today    *)
(* have still to reach it.                                                 *)
LateIsToldAgain ==
  \A a \in adding :
    a.step \in Kind /\ a.on # 0 /\ a.on # date /\ burst[a.step][ModuleOf[a.client]].on = date =>
      Reporting(a.step, ModuleOf[a.client])

MapInv ==
  /\ OneLocked
  /\ ReportsOfBurst
  /\ RenewedIsCurrent
  /\ TodayIsCurrent
  /\ ClearsNothingOfToday
  /\ BurstIsInMap

Inv ==
  /\ TypeOK
  /\ DownIsEmpty
  /\ ListedOnce
  /\ OneAdding
  /\ AliveAreWatched
  /\ DeadAreForgotten
  /\ UnlistedAreUntold
  /\ MapInv
  /\ LateIsToldAgain
  /\ ReportsReachSubscribers
  /\ StaleProxyIsDropped

-----------------------------------------------------------------------------
(* Who is listed after a step.                                             *)

(* AddSubscriber appends one that was not listed.                          *)
LEMMA AppendLists ==
  ASSUME TypeOK, ListedOnce, NEW c \in Client, ~Listed(c),
         subscriberList' = Append(subscriberList, c)
  PROVE  /\ subscriberList' \in Seq(Client)
         /\ ListedOnce'
         /\ \A d \in Client : Listed(d)' <=> Listed(d) \/ d = c
<1> DEFINE s == subscriberList
           n == Len(s)
<1>1. s \in Seq(Client) /\ n \in Nat /\ DOMAIN s = 1..n
  BY LenProperties DEF TypeOK
<1>2. /\ s' \in Seq(Client) /\ DOMAIN s' = 1..(n + 1)
      /\ s'[n + 1] = c /\ \A i \in 1..n : s'[i] = s[i]
  BY <1>1, AppendProperties
<1>3. ListedOnce'
  BY <1>1, <1>2 DEF ListedOnce, Listed
<1>4. ASSUME NEW d \in Client PROVE Listed(d)' <=> Listed(d) \/ d = c
  BY <1>1, <1>2 DEF Listed
<1>5. QED  BY <1>2, <1>3, <1>4

(* RemoveSubscriber and HandleSubscriberDeath leave the others.            *)
LEMMA EraseUnlists ==
  ASSUME TypeOK, ListedOnce, NEW c \in Client,
         subscriberList' = Erase(subscriberList, c)
  PROVE  /\ subscriberList' \in Seq(Client)
         /\ ListedOnce'
         /\ \A d \in Client : Listed(d)' <=> Listed(d) /\ d # c
<1> DEFINE s == subscriberList
           e == Erase(subscriberList, c)
<1>1. s \in Seq(Client) /\ \A i, j \in DOMAIN s : s[i] = s[j] => i = j
  BY DEF TypeOK, ListedOnce
<1> HIDE DEF s
<1>2. /\ Erase(s, c) \in Seq(Client)
      /\ \A i \in DOMAIN Erase(s, c) : Erase(s, c)[i] # c
      /\ \A i \in DOMAIN Erase(s, c) : \E j \in DOMAIN s : s[j] = Erase(s, c)[i]
      /\ \A j \in DOMAIN s : s[j] # c => \E i \in DOMAIN Erase(s, c) : s[j] = Erase(s, c)[i]
      /\ \A i, j \in DOMAIN Erase(s, c) : Erase(s, c)[i] = Erase(s, c)[j] => i = j
  BY <1>1, EraseProperties
<1>3. /\ e \in Seq(Client)
      /\ \A i \in DOMAIN e : e[i] # c
      /\ \A i \in DOMAIN e : \E j \in DOMAIN s : s[j] = e[i]
      /\ \A j \in DOMAIN s : s[j] # c => \E i \in DOMAIN e : s[j] = e[i]
      /\ \A i, j \in DOMAIN e : e[i] = e[j] => i = j
  BY <1>2 DEF s
<1>4. subscriberList' = e /\ s = subscriberList
  BY DEF s
<1> HIDE DEF e
<1>5. ListedOnce'
  BY <1>3, <1>4 DEF ListedOnce
<1>6. ASSUME NEW d \in Client PROVE Listed(d)' <=> Listed(d) /\ d # c
  BY <1>3, <1>4 DEF Listed
<1>7. QED  BY <1>3, <1>4, <1>5, <1>6

(* Nobody is listed in the empty list.                                     *)
LEMMA EmptyLists ==
  ASSUME subscriberList = << >>
  PROVE  ListedOnce /\ \A d \in Client : ~Listed(d)
BY DEF ListedOnce, Listed

-----------------------------------------------------------------------------
(* Each part of the invariant, step by step.                               *)

(* What a subscriber may have been told.                                   *)
Told == [power : Value \cup {Normal}, action : Value \cup {Normal}, mode : Mode \cup {Untold}]

(* A client that was told nothing.                                         *)
LEMMA ToldNothingType == ToldNothing \in Told
BY DEF ToldNothing, Told

(* What a subscriber hears when it registers is a value.                   *)
LEMMA RegisterType ==
  ASSUME TypeOK, NEW k \in Kind, NEW m \in Module, NEW on
  PROVE  ValueOnRegister(k, m, on) \in Value \cup {Normal}
BY DEF TypeOK, ValueOnRegister

(* What a map holds for a module, and what is kept of its reports.         *)
Entries == [value : Value \cup {Normal}, on : 0..date]
Bursts == [values : SUBSET Value, on : 0..date]
Stage == {"dated", "checked", "updated"}

(* The fields of a report.                                                 *)
LEMMA ReportFields ==
  ASSUME TypeOK, NEW r \in reports
  PROVE  /\ r.kind \in Kind /\ r.module \in Module /\ r.value \in Value
         /\ r.on \in 1..date /\ r.stage \in Stage
         /\ Entry(r) \in Entries /\ Entry(r).value = r.value /\ Entry(r).on = r.on
<1>1. /\ r.kind \in Kind /\ r.module \in Module /\ r.value \in Value
      /\ r.on \in 1..date /\ r.stage \in Stage
  BY DEF TypeOK, Stage
<1>2. r.on \in 0..date
  BY <1>1, SubscriberAssumption DEF TypeOK
<1>3. QED  BY <1>1, <1>2 DEF Entry, Entries

(* A report that gets to its next stage keeps everything else, and the     *)
(* other reports stay as they are.                                         *)
LEMMA NextStage ==
  ASSUME TypeOK, NEW r \in reports, NEW st \in Stage, Becomes(r, st)
  PROVE  /\ \A s \in reports' :
              \/ s \in reports /\ s # r
              \/ /\ s.kind = r.kind /\ s.module = r.module /\ s.value = r.value
                 /\ s.on = r.on /\ s.stage = st
         /\ \A s \in reports : s # r => s \in reports'
         /\ reports' \subseteq [n : 0..(reported - 1), kind : Kind, module : Module,
                                value : Value, on : 1..date, stage : Stage]
         /\ \A k \in Kind, m \in Module : Reporting(k, m)' <=> Reporting(k, m)
         /\ st # "updated" => ~Entered(r.kind, r.module)'
         /\ \A k \in Kind, m \in Module :
              ~(k = r.kind /\ m = r.module) /\ Entered(k, m)' => Entered(k, m)
<1> DEFINE N == [n : 0..(reported - 1), kind : Kind, module : Module, value : Value,
                 on : 1..date, stage : Stage]
           t == [r EXCEPT !.stage = st]
<1>1. reports \subseteq N
  BY DEF TypeOK, Stage
<1>2. /\ t.kind = r.kind /\ t.module = r.module /\ t.value = r.value /\ t.on = r.on
      /\ t.stage = st /\ t \in N
  BY <1>1
<1>3. reports' = (reports \ {r}) \cup {t}
  BY DEF Becomes
<1> HIDE DEF t, N
<1>4. \A s \in reports' : \/ s \in reports /\ s # r
                          \/ /\ s.kind = r.kind /\ s.module = r.module /\ s.value = r.value
                             /\ s.on = r.on /\ s.stage = st
  BY <1>2, <1>3
<1>5. (\A s \in reports : s # r => s \in reports') /\ reports' \subseteq N /\ t \in reports'
  BY <1>1, <1>2, <1>3
<1>6. \A k \in Kind, m \in Module : Reporting(k, m)' <=> Reporting(k, m)
  BY <1>2, <1>4, <1>5 DEF Reporting
<1>7. st # "updated" => ~Entered(r.kind, r.module)'
  BY <1>2, <1>5 DEF Entered
<1>8. \A k \in Kind, m \in Module :
        ~(k = r.kind /\ m = r.module) /\ Entered(k, m)' => Entered(k, m)
  BY <1>5 DEF Entered
<1>9. QED  BY <1>4, <1>5, <1>6, <1>7, <1>8 DEF N

(* A report that begins.                                                   *)
LEMMA ReportBegins ==
  ASSUME TypeOK, NEW k \in Kind, NEW m \in Module, NEW v \in Value, Report(k, m, v)
  PROVE  /\ reported' \in 0..MaxReports
         /\ reports' \subseteq [n : 0..(reported' - 1), kind : Kind, module : Module,
                                value : Value, on : 1..date, stage : Stage]
         /\ \A s \in reports' : s \in reports \/ (/\ s.kind = k /\ s.module = m /\ s.value = v
                                                  /\ s.on = date /\ s.stage = "dated")
         /\ \A l \in Kind, n \in Module : Reporting(l, n)' <=> Reporting(l, n) \/ (l = k /\ n = m)
         /\ ~Entered(k, m)'
         /\ \A s \in reports : s \in reports'
         /\ burst'[k][m].on = IF Reporting(k, m) THEN burst[k][m].on ELSE date
         /\ burst'[k][m].values = IF Reporting(k, m) THEN burst[k][m].values \cup {v} ELSE {v}
         /\ \A l \in Kind, n \in Module : ~(l = k /\ n = m) => burst'[l][n] = burst[l][n]
         /\ burst' \in [Kind -> [Module -> Bursts]]
<1> DEFINE N == [n : 0..(reported' - 1), kind : Kind, module : Module, value : Value,
                 on : 1..date, stage : Stage]
           t == [n |-> reported, kind |-> k, module |-> m, value |-> v, on |-> date,
                 stage |-> "dated"]
           b == IF Reporting(k, m) THEN [values |-> burst[k][m].values \cup {v}, on |-> burst[k][m].on]
                ELSE [values |-> {v}, on |-> date]
<1>1. date \in Nat /\ date >= 1 /\ reported \in Nat /\ reported < MaxReports /\ MaxReports \in Nat
  BY SubscriberAssumption DEF TypeOK, Report
<1>2. reported' = reported + 1 /\ reported' \in 0..MaxReports
  BY <1>1 DEF Report
<1>3. /\ t.kind = k /\ t.module = m /\ t.value = v /\ t.on = date /\ t.stage = "dated"
      /\ t \in N
  BY <1>1, <1>2 DEF Stage
<1>4. \A s \in reports : s \in N
  <2> SUFFICES ASSUME NEW s \in reports PROVE s \in N
    OBVIOUS
  <2>1. s \in [n : 0..(reported - 1), kind : Kind, module : Module, value : Value,
               on : 1..date, stage : Stage]
    BY DEF TypeOK, Stage
  <2>2. 0..(reported - 1) \subseteq 0..(reported' - 1)
    BY <1>1, <1>2
  <2>3. QED  BY <2>1, <2>2
<1>5. reports' = reports \cup {t}
  BY DEF Report
<1>6. burst[k][m] \in Bursts /\ burst \in [Kind -> [Module -> Bursts]]
  BY DEF TypeOK, Bursts
<1>7. b \in Bursts
  BY <1>1, <1>6 DEF Bursts
<1>8. /\ b.on = IF Reporting(k, m) THEN burst[k][m].on ELSE date
      /\ b.values = IF Reporting(k, m) THEN burst[k][m].values \cup {v} ELSE {v}
  BY <1>6 DEF Bursts
<1>9. burst' = [burst EXCEPT ![k][m] = b]
  BY DEF Report
<1> HIDE DEF t, N, b
<1>10. burst' \in [Kind -> [Module -> Bursts]] /\ burst'[k][m] = b
       /\ \A l \in Kind, n \in Module : ~(l = k /\ n = m) => burst'[l][n] = burst[l][n]
  BY <1>6, <1>7, <1>9
<1>11. /\ \A s \in reports' : s \in reports \/ (/\ s.kind = k /\ s.module = m /\ s.value = v
                                                /\ s.on = date /\ s.stage = "dated")
       /\ \A s \in reports : s \in reports'
       /\ reports' \subseteq N /\ t \in reports'
  BY <1>3, <1>4, <1>5
<1>12. \A l \in Kind, n \in Module : Reporting(l, n)' <=> Reporting(l, n) \/ (l = k /\ n = m)
  BY <1>3, <1>11 DEF Reporting
<1>13. ~Entered(k, m)'
  BY <1>3, <1>11 DEF Entered
<1>14. QED  BY <1>2, <1>8, <1>10, <1>11, <1>12, <1>13 DEF N

(* What a map holds when a report has entered its value, ...               *)
LEMMA EntersValue ==
  ASSUME TypeOK, NEW r \in reports,
         callBackMap' = [callBackMap EXCEPT ![r.kind][r.module] = Entry(r)]
  PROVE  /\ callBackMap' \in [Kind -> [Module -> Entries]]
         /\ callBackMap'[r.kind][r.module] = Entry(r)
         /\ \A k \in Kind, m \in Module :
              ~(k = r.kind /\ m = r.module) => callBackMap'[k][m] = callBackMap[k][m]
<1>1. r.kind \in Kind /\ r.module \in Module /\ Entry(r) \in Entries
  BY ReportFields
<1>2. callBackMap \in [Kind -> [Module -> Entries]]
  BY DEF TypeOK, Entries
<1>3. QED  BY <1>1, <1>2

(* ... and when it has cleared the map before.                             *)
LEMMA ClearsMap ==
  ASSUME TypeOK, NEW r \in reports, RenewCallBackMap(r)
  PROVE  /\ callBackMap' \in [Kind -> [Module -> Entries]]
         /\ callBackMap'[r.kind][r.module] = Entry(r)
         /\ \A m \in Module \ {r.module} : callBackMap'[r.kind][m] = None
         /\ \A k \in Kind \ {r.kind}, m \in Module : callBackMap'[k][m] = callBackMap[k][m]
<1> DEFINE row == [m \in Module |-> IF m = r.module THEN Entry(r) ELSE None]
<1>1. r.kind \in Kind /\ r.module \in Module /\ Entry(r) \in Entries
  BY ReportFields
<1>2. None \in Entries
  BY SubscriberAssumption DEF None, Normal, Entries, TypeOK
<1>3. row \in [Module -> Entries] /\ row[r.module] = Entry(r)
      /\ \A m \in Module \ {r.module} : row[m] = None
  BY <1>1, <1>2
<1>4. callBackMap' = [callBackMap EXCEPT ![r.kind] = row]
  BY DEF RenewCallBackMap
<1>5. callBackMap \in [Kind -> [Module -> Entries]]
  BY DEF TypeOK, Entries
<1> HIDE DEF row
<1>6. callBackMap' \in [Kind -> [Module -> Entries]] /\ callBackMap'[r.kind] = row
      /\ \A k \in Kind \ {r.kind} : callBackMap'[k] = callBackMap[k]
  BY <1>1, <1>3, <1>4, <1>5
<1>7. QED  BY <1>3, <1>6

(* The parts of TypeOK, which a step proves one by one.                     *)
TypeClients ==
  /\ life \in 1..MaxLife /\ serviceUp \in BOOLEAN /\ alive \subseteq Client
  /\ proxy \in [Client -> 0..life] /\ watching \in [Client -> BOOLEAN]
  /\ connecting \subseteq Client /\ resets \subseteq Client /\ lastCalls \subseteq Client \ alive

TypeLists ==
  /\ subscriberList \in Seq(Client) /\ recipient \subseteq Client
  /\ deaths \subseteq Client \ alive /\ unwatched \subseteq Client \ alive

TypeMaps ==
  /\ callBackMap \in [Kind -> [Module -> [value : Value \cup {Normal}, on : 0..date]]]
  /\ curDate \in 1..date /\ date \in 1..MaxDate
  /\ renewed \subseteq Kind /\ setBack \in BOOLEAN

TypeAdding == adding \subseteq [client : Client, step : Kind \cup {"watch"}, on : 0..date]

TypeReports ==
  /\ reports \subseteq [n : 0..(reported - 1), kind : Kind, module : Module, value : Value,
                        on : 1..date, stage : {"dated", "checked", "updated"}]
  /\ burst \in [Kind -> [Module -> [values : SUBSET Value, on : 0..date]]]
  /\ reported \in 0..MaxReports

TypeTold ==
  /\ mode \in Mode
  /\ told \in [Client -> [power : Value \cup {Normal}, action : Value \cup {Normal},
                          mode : Mode \cup {Untold}]]

(* The parts make up TypeOK, ...                                           *)
LEMMA TypeParts ==
  TypeOK <=> /\ TypeClients /\ TypeLists /\ TypeMaps
             /\ TypeAdding /\ TypeReports /\ TypeTold
BY Zenon DEF TypeOK, TypeClients, TypeLists, TypeMaps, TypeAdding, TypeReports, TypeTold

(* ... after a step, too, ...                                              *)
LEMMA TypePartsNext ==
  ASSUME TypeClients', TypeLists', TypeMaps', TypeAdding', TypeReports', TypeTold'
  PROVE  TypeOK'
BY Zenon DEF TypeOK, TypeClients, TypeLists, TypeMaps, TypeAdding, TypeReports, TypeTold

(* ... and stay when a step leaves their variables alone.                  *)
LEMMA TypeFrame ==
  ASSUME TypeOK
  PROVE  /\ UNCHANGED <<life, serviceUp, clients>> => TypeClients'
         /\ UNCHANGED <<lists, alive>> => TypeLists'
         /\ UNCHANGED <<maps, date>> => TypeMaps'
         /\ UNCHANGED <<adding, date>> => TypeAdding'
         /\ UNCHANGED <<reporting, date>> => TypeReports'
         /\ UNCHANGED <<mode, told>> => TypeTold'
<1>1. UNCHANGED <<life, serviceUp, clients>> => TypeClients'
  BY TypeParts DEF TypeClients, clients
<1>2. UNCHANGED <<lists, alive>> => TypeLists'
  BY TypeParts DEF TypeLists, lists
<1>3. UNCHANGED <<maps, date>> => TypeMaps'
  BY TypeParts DEF TypeMaps, maps
<1>4. UNCHANGED <<adding, date>> => TypeAdding'
  BY TypeParts DEF TypeAdding
<1>5. UNCHANGED <<reporting, date>> => TypeReports'
  BY TypeParts DEF TypeReports, reporting
<1>6. UNCHANGED <<mode, told>> => TypeTold'
  BY TypeParts DEF TypeTold
<1>7. QED  BY <1>1, <1>2, <1>3, <1>4, <1>5, <1>6

(* Every step of the clients keeps the variables in their sets.            *)
LEMMA TypeClientStep ==
  ASSUME TypeOK, NEW c \in Client,
         \/ GetSystemAbility(c) \/ AddDeathRecipient(c) \/ ResetStandbyServiceClient(c)
  PROVE  TypeOK'
<1>1. UNCHANGED <<life, serviceUp, alive, lastCalls, lists, adding, maps, date, reporting, mode, told>>
  BY DEF GetSystemAbility, AddDeathRecipient, ResetStandbyServiceClient
<1>2. TypeClients
  BY TypeParts
<1>3. life \in 0..life
  BY <1>2, SubscriberAssumption DEF TypeClients
<1>4. proxy' \in [Client -> 0..life]
  BY <1>2, <1>3 DEF TypeClients, GetSystemAbility, AddDeathRecipient, ResetStandbyServiceClient
<1>5. watching' \in [Client -> BOOLEAN]
  BY <1>2 DEF TypeClients, GetSystemAbility, AddDeathRecipient, ResetStandbyServiceClient
<1>6. connecting' \subseteq Client /\ resets' \subseteq Client
  BY <1>2 DEF TypeClients, GetSystemAbility, AddDeathRecipient, ResetStandbyServiceClient
<1>7. TypeClients'
  BY <1>1, <1>2, <1>4, <1>5, <1>6 DEF TypeClients
<1>8. QED  BY <1>1, <1>7, TypeFrame, TypePartsNext

(* Every step keeps the variables in their sets.                           *)
LEMMA TypeStep ==
  ASSUME TypeOK, DownIsEmpty, ListedOnce, [Next]_vars
  PROVE  TypeOK'
<1> USE SubscriberAssumption
<1>0. TypeClients /\ TypeLists /\ TypeMaps /\ TypeAdding /\ TypeReports /\ TypeTold
  BY TypeParts
<1>1. ASSUME NEW c \in Client, GetSystemAbility(c) PROVE TypeOK'
  BY <1>1, TypeClientStep
<1>2. ASSUME NEW c \in Client, AddDeathRecipient(c) PROVE TypeOK'
  BY <1>2, TypeClientStep
<1>3. ASSUME NEW c \in Client, ResetStandbyServiceClient(c) PROVE TypeOK'
  BY <1>3, TypeClientStep
<1>4. ASSUME NEW c \in Client, AddSubscriber(c) PROVE TypeOK'
  <2>1. subscriberList' \in Seq(Client)
    BY <1>4, AppendLists DEF AddSubscriber
  <2>2. date \in Nat
    BY <1>0 DEF TypeMaps
  <2>3. TypeAdding'
    BY <1>4, <2>2 DEF AddSubscriber, TypeAdding, Kind
  <2>4. UNCHANGED <<life, serviceUp, alive, proxy, watching, connecting, resets, recipient, deaths,
                    unwatched, maps, date, reporting, mode, told>>
    BY <1>4 DEF AddSubscriber
  <2>5. TypeLists'
    BY <1>0, <2>1, <2>4 DEF TypeLists
  <2>6. TypeClients'
    BY <1>0, <1>4, <2>4
       DEF TypeClients, AddSubscriber, SubscribeStandbyCallback, Call
  <2>7. QED  BY <2>3, <2>4, <2>5, <2>6, TypeFrame, TypePartsNext
<1>5. ASSUME NEW a \in adding, ReadDateOnRegister(a) PROVE TypeOK'
  <2>1. date \in 0..date
    BY <1>0 DEF TypeMaps
  <2>2. a \in [client : Client, step : Kind \cup {"watch"}, on : 0..date]
    BY <1>0 DEF TypeAdding
  <2>3. adding' = {[a EXCEPT !.on = date]}
        /\ UNCHANGED <<life, serviceUp, clients, lists, maps, date, reporting, mode, told>>
    BY <1>5 DEF ReadDateOnRegister
  <2>4. TypeAdding'
    BY <2>1, <2>2, <2>3 DEF TypeAdding
  <2>5. UNCHANGED alive
    BY <2>3 DEF clients
  <2>6. QED  BY <2>3, <2>4, <2>5, TypeFrame, TypePartsNext
<1>6. ASSUME NEW a \in adding, NotifyOnRegister(a) PROVE TypeOK'
  <2>1. a \in [client : Client, step : Kind \cup {"watch"}, on : 0..date]
    BY <1>0 DEF TypeAdding
  <2>2. a.client \in Client /\ a.step \in Kind /\ ModuleOf[a.client] \in Module
    BY <1>6, <2>1 DEF NotifyOnRegister
  <2> DEFINE next == IF a.step = "power" THEN "action" ELSE "watch"
             b == [a EXCEPT !.step = next, !.on = 0]
  <2>3. date \in Nat /\ 0 \in 0..date /\ next \in Kind \cup {"watch"}
    BY <1>0 DEF TypeMaps, Kind
  <2>4. adding' = {b}
        /\ UNCHANGED <<life, serviceUp, clients, lists, maps, date, reporting, mode>>
    BY <1>6 DEF NotifyOnRegister
  <2> HIDE DEF next
  <2>5. b \in [client : Client, step : Kind \cup {"watch"}, on : 0..date]
    BY <2>1, <2>3
  <2>6. TypeAdding'
    BY <2>4, <2>5 DEF TypeAdding
  <2>7. ValueOnRegister(a.step, ModuleOf[a.client], a.on) \in Value \cup {Normal}
    BY <2>2, RegisterType
  <2>8. told \in [Client -> Told]  BY <1>0 DEF TypeTold, Told
  <2> DEFINE t == [told[a.client] EXCEPT ![a.step] =
                     ValueOnRegister(a.step, ModuleOf[a.client], a.on)]
  <2>9. t \in Told
    BY <2>2, <2>7, <2>8 DEF Told, Kind
  <2>10. told' = [told EXCEPT ![a.client] = t]
    BY <1>6 DEF NotifyOnRegister
  <2> HIDE DEF t, b
  <2>11. told' \in [Client -> Told]
    BY <2>2, <2>8, <2>9, <2>10
  <2>12. TypeTold'
    BY <1>0, <2>4, <2>11 DEF TypeTold, Told
  <2>13. UNCHANGED alive
    BY <2>4 DEF clients
  <2>14. QED  BY <2>4, <2>6, <2>12, <2>13, TypeFrame, TypePartsNext
<1>7. ASSUME NEW a \in adding, WatchSubscriber(a) PROVE TypeOK'
  <2>1. a.client \in Client
    BY <1>0 DEF TypeAdding
  <2>2. recipient' \subseteq Client /\ unwatched' \subseteq Client \ alive /\ adding' = {}
    BY <1>0, <1>7, <2>1 DEF WatchSubscriber, TypeLists
  <2>3. UNCHANGED <<life, serviceUp, clients, subscriberList, deaths, maps, date, reporting, mode,
                    told>>
    BY <1>7 DEF WatchSubscriber
  <2>4. UNCHANGED alive
    BY <2>3 DEF clients
  <2>5. TypeLists' /\ TypeAdding'
    BY <1>0, <2>2, <2>3, <2>4 DEF TypeLists, TypeAdding
  <2>6. QED  BY <2>3, <2>5, TypeFrame, TypePartsNext
<1>8. ASSUME NEW c \in Client, RemoveSubscriber(c) PROVE TypeOK'
  <2>1. subscriberList' \in Seq(Client)
    BY <1>8, EraseUnlists DEF RemoveSubscriber
  <2>2. TypeTold'
    BY <1>0, <1>8, ToldNothingType DEF RemoveSubscriber, TypeTold, Told
  <2>3. UNCHANGED <<life, serviceUp, alive, proxy, watching, connecting, resets, deaths, unwatched,
                    adding, maps, date, reporting, mode>>
    BY <1>8 DEF RemoveSubscriber
  <2>4. TypeLists'
    BY <1>0, <1>8, <2>1, <2>3 DEF RemoveSubscriber, TypeLists
  <2>5. TypeClients'
    BY <1>0, <1>8, <2>3 DEF TypeClients, RemoveSubscriber, UnsubscribeStandbyCallback, Call
  <2>6. QED  BY <2>2, <2>3, <2>4, <2>5, TypeFrame, TypePartsNext
<1>9. ASSUME NEW c \in Client, HandleSubscriberDeath(c) PROVE TypeOK'
  <2>1. subscriberList' \in Seq(Client)
    BY <1>9, EraseUnlists DEF HandleSubscriberDeath
  <2>2. UNCHANGED <<life, serviceUp, clients, unwatched, adding, maps, date, reporting, mode>>
    BY <1>9 DEF HandleSubscriberDeath
  <2>3. TypeTold'
    BY <1>0, <1>9, ToldNothingType DEF HandleSubscriberDeath, TypeTold, Told
  <2>4. UNCHANGED alive
    BY <2>2 DEF clients
  <2>5. TypeLists'
    BY <1>0, <1>9, <2>1, <2>2, <2>4 DEF HandleSubscriberDeath, TypeLists
  <2>6. QED  BY <2>2, <2>3, <2>5, TypeFrame, TypePartsNext
<1>10. ASSUME NEW next \in Mode, ReportStandbyState(next) PROVE TypeOK'
  <2>1. told' \in [Client -> Told]
    BY ZenonT(60), <1>10 DEF ReportStandbyState, TypeOK, Told
  <2>2. UNCHANGED <<life, serviceUp, clients, lists, adding, maps, date, reporting>> /\ mode' = next
    BY <1>10 DEF ReportStandbyState
  <2>3. TypeTold'
    BY <2>1, <2>2 DEF TypeTold, Told
  <2>4. UNCHANGED alive
    BY <2>2 DEF clients
  <2>5. QED  BY <2>2, <2>3, <2>4, TypeFrame, TypePartsNext
<1>11. ASSUME NEW k \in Kind, NEW m \in Module, NEW v \in Value, Report(k, m, v) PROVE TypeOK'
  <2>1. reported' \in 0..MaxReports /\ burst' \in [Kind -> [Module -> Bursts]]
    BY <1>11, ReportBegins
  <2>2. reports' \subseteq [n : 0..(reported' - 1), kind : Kind, module : Module,
                            value : Value, on : 1..date, stage : Stage]
    BY <1>11, ReportBegins
  <2>3. UNCHANGED <<life, serviceUp, clients, lists, adding, maps, date, mode, told>>
    BY <1>11 DEF Report
  <2>4. TypeReports'
    BY <2>1, <2>2, <2>3 DEF TypeReports, Bursts, Stage
  <2>5. UNCHANGED alive
    BY <2>3 DEF clients
  <2>6. QED  BY <2>3, <2>4, <2>5, TypeFrame, TypePartsNext
<1>12. ASSUME NEW r \in reports, UpdateCallBackMap(r) PROVE TypeOK'
  <2>1. UNCHANGED <<life, serviceUp, clients, lists, adding, curDate, renewed, setBack, date,
                    burst, reported, mode, told>>
    BY <1>12 DEF UpdateCallBackMap
  <2>2. \E st \in Stage : Becomes(r, st)
    BY <1>12 DEF UpdateCallBackMap, Stage
  <2>3. reports' \subseteq [n : 0..(reported - 1), kind : Kind, module : Module,
                            value : Value, on : 1..date, stage : Stage]
    BY <2>2, NextStage
  <2>4. callBackMap' \in [Kind -> [Module -> Entries]]
    <3>1. CASE UNCHANGED callBackMap
      BY <1>0, <3>1 DEF TypeMaps, Entries
    <3>2. CASE callBackMap' = [callBackMap EXCEPT ![r.kind][r.module] = Entry(r)]
      BY <3>2, EntersValue
    <3>3. QED  BY <1>12, <3>1, <3>2 DEF UpdateCallBackMap
  <2>5. TypeReports'
    BY <1>0, <2>1, <2>3 DEF TypeReports, Stage
  <2>6. TypeMaps'
    BY <1>0, <2>1, <2>4 DEF TypeMaps, Entries
  <2>7. UNCHANGED alive
    BY <2>1 DEF clients
  <2>8. QED  BY <2>1, <2>5, <2>6, <2>7, TypeFrame, TypePartsNext
<1>13. ASSUME NEW r \in reports, RenewCallBackMap(r) PROVE TypeOK'
  <2>1. UNCHANGED <<life, serviceUp, clients, lists, adding, date, burst, reported, mode, told>>
    BY <1>13 DEF RenewCallBackMap
  <2>2. Becomes(r, "updated") /\ "updated" \in Stage
    BY <1>13 DEF RenewCallBackMap, Stage
  <2>3. reports' \subseteq [n : 0..(reported - 1), kind : Kind, module : Module,
                            value : Value, on : 1..date, stage : Stage]
    BY <2>2, NextStage
  <2>4. callBackMap' \in [Kind -> [Module -> Entries]]
    BY <1>13, ClearsMap
  <2>5. r.kind \in Kind /\ r.on \in 1..date
    BY ReportFields
  <2>6. curDate' \in 1..date /\ renewed' \subseteq Kind
    BY <1>0, <1>13, <2>5 DEF RenewCallBackMap, TypeMaps
  <2>7. setBack' \in BOOLEAN
    BY <1>13 DEF RenewCallBackMap
  <2>8. TypeReports'
    BY <1>0, <2>1, <2>3 DEF TypeReports, Stage
  <2>9. TypeMaps'
    BY <1>0, <2>1, <2>4, <2>6, <2>7 DEF TypeMaps, Entries
  <2>10. UNCHANGED alive
    BY <2>1 DEF clients
  <2>11. QED  BY <2>1, <2>8, <2>9, <2>10, TypeFrame, TypePartsNext
<1>14. ASSUME NEW r \in reports, NotifyByCallback(r) PROVE TypeOK'
  <2>1. r.kind \in {"power", "action"} /\ r.value \in Value
    BY <1>0 DEF TypeReports, Kind
  <2>2. told \in [Client -> Told]  BY <1>0 DEF TypeTold, Told
  <2>3. ASSUME NEW c \in Client PROVE [told[c] EXCEPT ![r.kind] = r.value] \in Told
    BY <2>1, <2>2 DEF Told
  <2>4. told' \in [Client -> Told]
    BY <1>14, <2>2, <2>3 DEF NotifyByCallback
  <2>5. reports' \subseteq reports
    BY <1>14 DEF NotifyByCallback
  <2>6. UNCHANGED <<life, serviceUp, clients, lists, adding, maps, date, burst, reported, mode>>
    BY <1>14 DEF NotifyByCallback
  <2>7. TypeReports'
    BY <1>0, <2>5, <2>6 DEF TypeReports
  <2>8. TypeTold'
    BY <1>0, <2>4, <2>6 DEF TypeTold, Told
  <2>9. UNCHANGED alive
    BY <2>6 DEF clients
  <2>10. QED  BY <2>6, <2>7, <2>8, <2>9, TypeFrame, TypePartsNext
<1>15. CASE NewDay
  <2>1. date' \in 1..MaxDate /\ 0..date \subseteq 0..date' /\ 1..date \subseteq 1..date'
        /\ date' = date + 1 /\ date \in Nat
    BY <1>15 DEF NewDay, TypeOK
  <2>2. setBack' = FALSE
        /\ UNCHANGED <<life, serviceUp, clients, lists, adding, callBackMap, curDate, renewed,
                       reporting, mode, told>>
    BY <1>15 DEF NewDay
  <2>3. \A k \in Kind, m \in Module :
          callBackMap[k][m] \in [value : Value \cup {Normal}, on : 0..date']
    <3>1. \A k \in Kind, m \in Module : callBackMap[k][m] \in Entries
      BY DEF TypeOK, Entries
    <3>2. Entries \subseteq [value : Value \cup {Normal}, on : 0..date']
      BY <2>1 DEF Entries
    <3>3. QED  BY <3>1, <3>2
  <2>4. callBackMap' \in [Kind -> [Module -> [value : Value \cup {Normal}, on : 0..date']]]
    <3>1. callBackMap \in [Kind -> [Module -> Entries]]
      BY DEF TypeOK, Entries
    <3>2. QED  BY <2>2, <2>3, <3>1
  <2>5. burst' \in [Kind -> [Module -> [values : SUBSET Value, on : 0..date']]]
    <3>1. burst \in [Kind -> [Module -> Bursts]]
      BY DEF TypeOK, Bursts
    <3>2. Bursts \subseteq [values : SUBSET Value, on : 0..date']
      BY <2>1 DEF Bursts
    <3>3. QED  BY <2>2, <3>1, <3>2 DEF reporting
  <2>6. adding' \subseteq [client : Client, step : Kind \cup {"watch"}, on : 0..date']
    <3>1. \A a \in adding : a \in [client : Client, step : Kind \cup {"watch"}, on : 0..date]
      BY DEF TypeOK
    <3>2. [client : Client, step : Kind \cup {"watch"}, on : 0..date]
            \subseteq [client : Client, step : Kind \cup {"watch"}, on : 0..date']
      BY <2>1
    <3>3. QED  BY <2>2, <3>1, <3>2
  <2>7. reports' \subseteq [n : 0..(reported - 1), kind : Kind, module : Module,
                            value : Value, on : 1..date', stage : Stage]
    <3>1. \A r \in reports : r \in [n : 0..(reported - 1), kind : Kind, module : Module,
                                    value : Value, on : 1..date, stage : Stage]
      BY DEF TypeOK, Stage
    <3>2. [n : 0..(reported - 1), kind : Kind, module : Module, value : Value, on : 1..date,
           stage : Stage]
            \subseteq [n : 0..(reported - 1), kind : Kind, module : Module, value : Value,
                       on : 1..date', stage : Stage]
      BY <2>1
    <3>3. QED  BY <2>2, <3>1, <3>2 DEF reporting
  <2>8. curDate' \in 1..date'
    BY <1>0, <2>1, <2>2 DEF TypeMaps
  <2>9. TypeMaps'
    BY <1>0, <2>1, <2>2, <2>4, <2>8 DEF TypeMaps
  <2>10. TypeReports'
    <3>1. reported' = reported
      BY <2>2 DEF reporting
    <3>2. QED  BY <1>0, <2>5, <2>7, <3>1 DEF TypeReports, Stage
  <2>11. TypeAdding'
    BY <2>6 DEF TypeAdding
  <2>12. UNCHANGED alive
    BY <2>2 DEF clients
  <2>13. QED  BY <2>2, <2>9, <2>10, <2>11, <2>12, TypeFrame, TypePartsNext
<1>16. ASSUME NEW c \in Client, ClientDies(c) PROVE TypeOK'
  <2>1. UNCHANGED <<life, serviceUp, proxy, watching, connecting, resets, subscriberList, recipient,
                    unwatched, adding, maps, date, reporting, mode, told>>
    BY <1>16 DEF ClientDies
  <2>2. /\ alive' = alive \ {c} /\ c \in alive
        /\ deaths' \subseteq deaths \cup {c} /\ lastCalls' \subseteq lastCalls \cup {c}
    BY <1>16 DEF ClientDies
  <2>3. TypeClients'
    BY <1>0, <2>1, <2>2 DEF TypeClients
  <2>4. TypeLists'
    BY <1>0, <2>1, <2>2 DEF TypeLists
  <2>5. QED  BY <2>1, <2>3, <2>4, TypeFrame, TypePartsNext
<1>17. CASE ServiceDies
  <2>1. told' \in [Client -> Told]
    BY <1>17, ToldNothingType DEF ServiceDies
  <2>2. resets' \subseteq Client /\ subscriberList' \in Seq(Client)
    BY <1>0, <1>17 DEF ServiceDies, TypeClients
  <2>3. burst' \in [Kind -> [Module -> Bursts]]
    BY <1>0, <1>17 DEF ServiceDies, TypeMaps, NoBurst, Bursts
  <2>4. /\ serviceUp' \in BOOLEAN /\ recipient' = {} /\ deaths' = {} /\ unwatched' = {}
        /\ reports' = {} /\ adding' = {}
        /\ UNCHANGED <<life, alive, proxy, watching, connecting, lastCalls, maps, date, reported,
                       mode>>
    BY <1>17 DEF ServiceDies
  <2>5. TypeClients'
    BY <1>0, <2>2, <2>4 DEF TypeClients
  <2>6. TypeLists' /\ TypeAdding'
    BY <2>2, <2>4 DEF TypeLists, TypeAdding
  <2>7. TypeReports'
    BY <1>0, <2>3, <2>4 DEF TypeReports, Bursts
  <2>8. TypeTold'
    BY <1>0, <2>1, <2>4 DEF TypeTold, Told
  <2>9. QED  BY <2>4, <2>5, <2>6, <2>7, <2>8, TypeFrame, TypePartsNext
<1>18. CASE ServiceStarts
  <2>1. life + 1 \in 1..MaxLife /\ proxy \in [Client -> 0..(life + 1)]
    <3>1. life \in Nat /\ life + 1 \in 1..MaxLife /\ 0..life \subseteq 0..(life + 1)
      BY <1>0, <1>18 DEF ServiceStarts, DownIsEmpty, TypeClients
    <3>2. QED  BY <1>0, <3>1 DEF TypeClients
  <2>2. callBackMap' \in [Kind -> [Module -> Entries]] /\ curDate' \in 1..date
    BY <1>0, <1>18 DEF ServiceStarts, None, Normal, TypeMaps, Entries
  <2>3. life' = life + 1 /\ serviceUp' = TRUE /\ renewed' = Kind /\ setBack' = FALSE /\ mode' \in Mode
    BY <1>18 DEF ServiceStarts, Mode
  <2>4. UNCHANGED <<clients, lists, adding, date, reporting, told>>
    BY <1>18 DEF ServiceStarts
  <2>5. TypeClients'
    BY <1>0, <2>1, <2>3, <2>4 DEF TypeClients, clients
  <2>6. TypeMaps'
    BY <1>0, <2>2, <2>3, <2>4 DEF TypeMaps, Entries
  <2>7. TypeTold'
    BY <1>0, <2>3, <2>4 DEF TypeTold
  <2>8. UNCHANGED alive
    BY <2>4 DEF clients
  <2>9. QED  BY <2>4, <2>5, <2>6, <2>7, <2>8, TypeFrame, TypePartsNext
<1>19. CASE UNCHANGED vars
  <2>1. UNCHANGED <<life, serviceUp, clients, lists, adding, maps, date, reporting, mode, told>>
    BY <1>19 DEF vars
  <2>2. UNCHANGED alive
    BY <2>1 DEF clients
  <2>3. QED  BY <2>1, <2>2, TypeFrame, TypePartsNext
<1>20. QED
  BY <1>1, <1>2, <1>3, <1>4, <1>5, <1>6, <1>7, <1>8, <1>9, <1>10, <1>11, <1>12, <1>13, <1>14,
     <1>15, <1>16, <1>17, <1>18, <1>19
     DEF Next

(* Every step keeps DownIsEmpty, who is listed and who is watched.         *)
LEMMA ListStep ==
  ASSUME TypeOK, DownIsEmpty, ListedOnce, OneAdding, AliveAreWatched, DeadAreForgotten,
         [Next]_vars
  PROVE  DownIsEmpty' /\ ListedOnce' /\ OneAdding' /\ AliveAreWatched' /\ DeadAreForgotten'
<1> DEFINE Goal == DownIsEmpty' /\ ListedOnce' /\ OneAdding' /\ AliveAreWatched'
                   /\ DeadAreForgotten'
<1> USE DEF DownIsEmpty, AliveAreWatched, DeadAreForgotten, OneAdding, BeingAdded
<1>1. ASSUME UNCHANGED <<alive, subscriberList, recipient, deaths, unwatched, adding, life,
                         serviceUp>>,
             (UNCHANGED <<reports, burst>>) \/ serviceUp \/ reports # {}
      PROVE  Goal
  BY <1>1 DEF ListedOnce, Listed
<1>2. ASSUME NEW c \in Client, GetSystemAbility(c) PROVE Goal
  BY <1>1, <1>2 DEF GetSystemAbility, lists, reporting
<1>3. ASSUME NEW c \in Client, AddDeathRecipient(c) PROVE Goal
  BY <1>1, <1>3 DEF AddDeathRecipient, lists, reporting
<1>4. ASSUME NEW c \in Client, ResetStandbyServiceClient(c) PROVE Goal
  BY <1>1, <1>4 DEF ResetStandbyServiceClient, lists, reporting
<1>5. ASSUME NEW c \in Client, AddSubscriber(c) PROVE Goal
  <2>1. /\ ~Listed(c) /\ subscriberList' = Append(subscriberList, c) /\ adding = {}
        /\ serviceUp /\ serviceUp' = serviceUp
        /\ UNCHANGED <<alive, recipient, deaths, unwatched>>
    BY <1>5 DEF AddSubscriber, SubscribeStandbyCallback, Call, Unlocked
  <2>2. adding' = {[client |-> c, step |-> "power", on |-> 0]}
    BY <1>5 DEF AddSubscriber
  <2>3. OneAdding' /\ BeingAdded(c)'
    BY <2>2
  <2>4. ListedOnce' /\ \A d \in Client : Listed(d)' <=> Listed(d) \/ d = c
    BY <2>1, AppendLists
  <2>5. AliveAreWatched'  BY <2>1, <2>3, <2>4 DEF TypeOK
  <2>6. DeadAreForgotten'  BY <2>1, <2>3, <2>4
  <2>7. QED  BY <2>1, <2>3, <2>4, <2>5, <2>6
<1>6. ASSUME NEW a \in adding,
             OneAdding' /\ (\E b \in adding' : b.client = a.client),
             UNCHANGED <<alive, subscriberList, recipient, deaths, unwatched, life, serviceUp,
                         reports, burst>>
      PROVE  Goal
  BY <1>6 DEF ListedOnce, Listed
<1>7. ASSUME NEW a \in adding, ReadDateOnRegister(a) PROVE Goal
  <2>1. /\ a \in [client : Client, step : Kind \cup {"watch"}, on : 0..date]
        /\ adding' = {[a EXCEPT !.on = date]}
    BY <1>7 DEF ReadDateOnRegister, TypeOK
  <2>2. OneAdding' /\ \E b \in adding' : b.client = a.client
    BY <2>1
  <2>3. QED  BY <1>6, <1>7, <2>2 DEF ReadDateOnRegister, clients, lists, reporting
<1>8. ASSUME NEW a \in adding, NotifyOnRegister(a) PROVE Goal
  <2>1. /\ a \in [client : Client, step : Kind \cup {"watch"}, on : 0..date]
        /\ adding' = {[a EXCEPT !.step = IF a.step = "power" THEN "action" ELSE "watch", !.on = 0]}
    BY <1>8 DEF NotifyOnRegister, TypeOK
  <2>2. OneAdding' /\ \E b \in adding' : b.client = a.client
    BY <2>1
  <2>3. QED  BY <1>6, <1>8, <2>2 DEF NotifyOnRegister, clients, lists, reporting
<1>9. ASSUME NEW a \in adding, WatchSubscriber(a) PROVE Goal
  <2>1. /\ adding' = {}
        /\ a.client \in alive => recipient' = recipient \cup {a.client} /\ unwatched' = unwatched
        /\ a.client \notin alive => recipient' = recipient /\ unwatched' = unwatched \cup {a.client}
        /\ UNCHANGED <<alive, subscriberList, deaths, life, serviceUp, reports, burst>>
    BY <1>9 DEF WatchSubscriber, clients, reporting
  <2>2. ListedOnce' /\ \A d \in Client : Listed(d)' <=> Listed(d)
    BY <2>1 DEF ListedOnce, Listed
  <2>3. \A b \in adding : b = a
    OBVIOUS
  <2>4. AliveAreWatched'  BY <2>1, <2>2, <2>3 DEF TypeOK
  <2>5. DeadAreForgotten'  BY <2>1, <2>2, <2>3
  <2>6. QED  BY <2>1, <2>2, <2>4, <2>5
<1>10. ASSUME NEW c \in Client, RemoveSubscriber(c) PROVE Goal
  <2>1. /\ subscriberList' = Erase(subscriberList, c)
        /\ serviceUp /\ serviceUp' = serviceUp /\ adding' = adding
        /\ recipient' = recipient \ {c} /\ UNCHANGED <<alive, deaths, unwatched>>
    BY <1>10 DEF RemoveSubscriber, UnsubscribeStandbyCallback, Call
  <2>2. ListedOnce' /\ \A d \in Client : Listed(d)' <=> Listed(d) /\ d # c
    BY <2>1, EraseUnlists
  <2>3. AliveAreWatched'  BY <2>1, <2>2 DEF TypeOK
  <2>4. QED  BY <2>1, <2>2, <2>3
<1>11. ASSUME NEW c \in Client, HandleSubscriberDeath(c) PROVE Goal
  <2>1. /\ subscriberList' = Erase(subscriberList, c) /\ adding' = adding
        /\ deaths' = deaths \ {c} /\ recipient' = recipient \ {c}
        /\ UNCHANGED <<alive, unwatched, serviceUp, life, reports, burst>>
    BY <1>11 DEF HandleSubscriberDeath, clients, reporting
  <2>2. ListedOnce' /\ \A d \in Client : Listed(d)' <=> Listed(d) /\ d # c
    BY <2>1, EraseUnlists
  <2>3. AliveAreWatched'  BY <2>1, <2>2 DEF TypeOK
  <2>4. DeadAreForgotten'  BY <2>1, <2>2
  <2>5. DownIsEmpty'
    <3>1. subscriberList = << >> => Erase(subscriberList, c) = << >>
      BY DEF Erase
    <3>2. QED  BY <2>1, <3>1
  <2>6. QED  BY <2>1, <2>2, <2>3, <2>4, <2>5
<1>12. ASSUME NEW next \in Mode, ReportStandbyState(next) PROVE Goal
  BY <1>1, <1>12 DEF ReportStandbyState, clients, lists, reporting
<1>13. ASSUME NEW k \in Kind, NEW m \in Module, NEW v \in Value, Report(k, m, v) PROVE Goal
  BY <1>1, <1>13 DEF Report, clients, lists
<1>14. ASSUME NEW r \in reports, UpdateCallBackMap(r) PROVE Goal
  BY <1>1, <1>14 DEF UpdateCallBackMap, clients, lists
<1>15. ASSUME NEW r \in reports, RenewCallBackMap(r) PROVE Goal
  BY <1>1, <1>15 DEF RenewCallBackMap, clients, lists
<1>16. ASSUME NEW r \in reports, NotifyByCallback(r) PROVE Goal
  BY <1>1, <1>16 DEF NotifyByCallback, clients, lists
<1>17. CASE NewDay
  BY <1>1, <1>17 DEF NewDay, clients, lists, reporting
<1>18. ASSUME NEW c \in Client, ClientDies(c) PROVE Goal
  <2>1. /\ alive' = alive \ {c}
        /\ c \in recipient => deaths' = deaths \cup {c}
        /\ c \notin recipient => deaths' = deaths
        /\ c \in alive
        /\ UNCHANGED <<subscriberList, recipient, unwatched, adding, serviceUp, life, reports,
                       burst>>
    BY <1>18 DEF ClientDies, reporting
  <2>2. ListedOnce' /\ OneAdding' /\ DownIsEmpty' /\ \A d \in Client : Listed(d)' <=> Listed(d)
    BY <2>1 DEF ListedOnce, Listed
  <2>3. AliveAreWatched'  BY <2>1, <2>2 DEF TypeOK
  <2>4. DeadAreForgotten'  BY <2>1, <2>2
  <2>5. QED  BY <2>2, <2>3, <2>4
<1>19. CASE ServiceDies
  <2>1. /\ subscriberList' = << >> /\ reports' = {} /\ adding' = {} /\ life' = life
        /\ life < MaxLife /\ alive' = alive
        /\ burst' = [k \in Kind |-> [m \in Module |-> NoBurst]]
    BY <1>19 DEF ServiceDies
  <2>2. ListedOnce' /\ OneAdding' /\ \A d \in Client : ~Listed(d)'
    BY <2>1 DEF ListedOnce, Listed
  <2>3. AliveAreWatched'  BY <2>1, <2>2 DEF TypeOK
  <2>4. DownIsEmpty'
    BY <2>1 DEF NoBurst
  <2>5. QED  BY <2>1, <2>2, <2>3, <2>4
<1>20. CASE ServiceStarts
  <2>1. serviceUp' /\ UNCHANGED <<alive, subscriberList, recipient, deaths, unwatched, adding>>
    BY <1>20 DEF ServiceStarts, clients, lists
  <2>2. QED  BY <2>1 DEF ListedOnce, Listed
<1>21. CASE UNCHANGED vars
  BY <1>1, <1>21 DEF vars, clients, lists, reporting
<1>22. QED
  BY <1>2, <1>3, <1>4, <1>5, <1>7, <1>8, <1>9, <1>10, <1>11, <1>12, <1>13, <1>14, <1>15, <1>16,
     <1>17, <1>18, <1>19, <1>20, <1>21
     DEF Next

(* Every step keeps the two maps as they should be from day to day.        *)
LEMMA MapStep ==
  ASSUME TypeOK, DownIsEmpty, MapInv, [Next]_vars
  PROVE  MapInv'
<1>1. /\ OneLocked /\ ReportsOfBurst /\ RenewedIsCurrent /\ TodayIsCurrent
      /\ ClearsNothingOfToday /\ BurstIsInMap
  BY DEF MapInv
<1>2. date \in Nat /\ date >= 1 /\ curDate \in 1..date
  BY SubscriberAssumption DEF TypeOK
<1>3. \A k \in Kind, m \in Module : burst[k][m].on \in 0..date /\ callBackMap[k][m].on \in 0..date
  BY DEF TypeOK
<1>4. \A r \in reports : r.kind \in Kind /\ r.module \in Module /\ r.on \in 1..date
  BY ReportFields
<1>5. ASSUME UNCHANGED <<callBackMap, curDate, renewed, setBack, date, reports, burst>>
      PROVE  MapInv'
  BY <1>1, <1>5
     DEF MapInv, OneLocked, ReportsOfBurst, RenewedIsCurrent, TodayIsCurrent,
         ClearsNothingOfToday, BurstIsInMap, Entered
<1>6. ASSUME NEW c \in Client,
             \/ GetSystemAbility(c) \/ AddDeathRecipient(c) \/ ResetStandbyServiceClient(c)
             \/ AddSubscriber(c) \/ RemoveSubscriber(c)
      PROVE  MapInv'
  BY <1>5, <1>6 DEF GetSystemAbility, AddDeathRecipient, ResetStandbyServiceClient, AddSubscriber,
                    RemoveSubscriber, maps, reporting
<1>7. ASSUME NEW c \in Client, HandleSubscriberDeath(c) \/ ClientDies(c) PROVE MapInv'
  BY <1>5, <1>7 DEF HandleSubscriberDeath, ClientDies, maps, reporting
<1>8. ASSUME NEW a \in adding,
             ReadDateOnRegister(a) \/ NotifyOnRegister(a) \/ WatchSubscriber(a)
      PROVE  MapInv'
  BY <1>5, <1>8 DEF ReadDateOnRegister, NotifyOnRegister, WatchSubscriber, maps, reporting
<1>9. ASSUME NEW next \in Mode, ReportStandbyState(next) PROVE MapInv'
  BY <1>5, <1>9 DEF ReportStandbyState, maps, reporting
<1>10. ASSUME NEW k \in Kind, NEW m \in Module, NEW v \in Value, Report(k, m, v) PROVE MapInv'
  <2>1. UNCHANGED <<callBackMap, curDate, renewed, setBack, date>>
    BY <1>10 DEF Report, maps
  <2>2. /\ \A s \in reports' : s \in reports \/ (/\ s.kind = k /\ s.module = m /\ s.value = v
                                                 /\ s.on = date /\ s.stage = "dated")
        /\ \A s \in reports : s \in reports'
        /\ ~Entered(k, m)'
    BY <1>10, ReportBegins
  <2>3. /\ burst'[k][m].on = IF Reporting(k, m) THEN burst[k][m].on ELSE date
        /\ burst'[k][m].values = IF Reporting(k, m) THEN burst[k][m].values \cup {v} ELSE {v}
        /\ \A l \in Kind, n \in Module : ~(l = k /\ n = m) => burst'[l][n] = burst[l][n]
    BY ZenonT(60), <1>10, ReportBegins
  <2>4. OneLocked'
    <3>1. \A s \in reports' : s.stage = "checked" => s \in reports
      BY <2>2
    <3>2. QED  BY <1>1, <3>1 DEF OneLocked
  <2>5. ReportsOfBurst'
    <3> SUFFICES ASSUME NEW s \in reports'
                 PROVE  /\ s.value \in burst'[s.kind][s.module].values
                        /\ burst'[s.kind][s.module].on <= s.on
      BY DEF ReportsOfBurst
    <3>1. CASE s \in reports /\ s.kind = k /\ s.module = m
      <4>1. Reporting(k, m)
        BY <3>1 DEF Reporting
      <4>2. QED  BY <1>1, <2>3, <3>1, <4>1 DEF ReportsOfBurst
    <3>2. CASE s \in reports /\ ~(s.kind = k /\ s.module = m)
      BY <1>1, <1>4, <2>3, <3>2 DEF ReportsOfBurst
    <3>3. CASE s.kind = k /\ s.module = m /\ s.value = v /\ s.on = date
      BY <1>2, <1>3, <2>3, <3>3
    <3>4. QED  BY <2>2, <3>1, <3>2, <3>3
  <2>6. RenewedIsCurrent' /\ TodayIsCurrent'
    BY <1>1, <2>1 DEF RenewedIsCurrent, TodayIsCurrent
  <2>7. ClearsNothingOfToday'
    BY <1>1, <2>1, <2>2 DEF ClearsNothingOfToday
  <2>8. BurstIsInMap'
    <3> SUFFICES ASSUME NEW l \in Kind, NEW n \in Module, burst'[l][n].on = date, Entered(l, n)'
                 PROVE  \/ /\ callBackMap[l][n].value \in burst'[l][n].values
                           /\ (setBack \/ (callBackMap[l][n].on = date /\ curDate = date))
                        \/ setBack /\ callBackMap[l][n].value = Normal
      BY <2>1 DEF BurstIsInMap
    <3>1. ~(l = k /\ n = m)
      BY <2>2
    <3>2. Entered(l, n)
      BY <2>2 DEF Entered
    <3>3. QED  BY <1>1, <2>3, <3>1, <3>2 DEF BurstIsInMap
  <2>9. QED  BY <2>4, <2>5, <2>6, <2>7, <2>8 DEF MapInv
<1>11. ASSUME NEW r \in reports, UpdateCallBackMap(r), curDate = r.on PROVE MapInv'
  <2>1. /\ UNCHANGED <<curDate, renewed, setBack, date, burst>>
        /\ callBackMap' = [callBackMap EXCEPT ![r.kind][r.module] = Entry(r)]
        /\ Becomes(r, "updated") /\ r.stage = "dated" /\ ~Locked(r.kind)
    BY <1>11 DEF UpdateCallBackMap
  <2>2. /\ r.kind \in Kind /\ r.module \in Module
        /\ Entry(r).value = r.value /\ Entry(r).on = r.on
    BY ReportFields
  <2>3. /\ callBackMap'[r.kind][r.module] = Entry(r)
        /\ \A k \in Kind, m \in Module :
             ~(k = r.kind /\ m = r.module) => callBackMap'[k][m] = callBackMap[k][m]
    BY <2>1, EntersValue
  <2>4. "updated" \in Stage
    BY DEF Stage
  <2>5. /\ \A s \in reports' : \/ s \in reports /\ s # r
                               \/ /\ s.kind = r.kind /\ s.module = r.module /\ s.value = r.value
                                  /\ s.on = r.on /\ s.stage = "updated"
        /\ \A k \in Kind, m \in Module :
             ~(k = r.kind /\ m = r.module) /\ Entered(k, m)' => Entered(k, m)
    BY <2>1, <2>4, NextStage
  <2>6. OneLocked'
    BY <1>1, <2>5 DEF OneLocked
  <2>7. ReportsOfBurst'
    BY <1>1, <2>1, <2>5 DEF ReportsOfBurst
  <2>8. RenewedIsCurrent'
    <3> SUFFICES ASSUME NEW k \in renewed, NEW m \in Module, callBackMap'[k][m].value # Normal
                 PROVE  callBackMap'[k][m].on = curDate
      BY <2>1 DEF RenewedIsCurrent
    <3>1. k \in Kind
      BY DEF TypeOK
    <3>2. CASE k = r.kind /\ m = r.module
      BY <1>11, <2>2, <2>3, <3>2
    <3>3. CASE ~(k = r.kind /\ m = r.module)
      BY <1>1, <2>3, <3>1, <3>3 DEF RenewedIsCurrent
    <3>4. QED  BY <3>2, <3>3
  <2>9. TodayIsCurrent'
    <3> SUFFICES ASSUME NEW k \in Kind, NEW m \in Module, ~setBack, callBackMap'[k][m].on = date
                 PROVE  curDate = date
      BY <2>1 DEF TodayIsCurrent
    <3>1. CASE k = r.kind /\ m = r.module
      BY <1>11, <2>2, <2>3, <3>1
    <3>2. CASE ~(k = r.kind /\ m = r.module)
      BY <1>1, <2>3, <3>2 DEF TodayIsCurrent
    <3>3. QED  BY <3>1, <3>2
  <2>10. ClearsNothingOfToday'
    <3> SUFFICES ASSUME NEW s \in reports', NEW m \in Module,
                        ~setBack, s.stage = "checked", s.on = date
                 PROVE  callBackMap'[s.kind][m].on # date
      BY <2>1 DEF ClearsNothingOfToday
    <3>1. s \in reports /\ s.kind # r.kind
      BY <2>1, <2>5 DEF Locked
    <3>2. callBackMap'[s.kind][m] = callBackMap[s.kind][m]
      BY <1>4, <2>3, <3>1
    <3>3. QED  BY <1>1, <3>1, <3>2 DEF ClearsNothingOfToday
  <2>11. BurstIsInMap'
    <3> SUFFICES ASSUME NEW k \in Kind, NEW m \in Module, burst[k][m].on = date, Entered(k, m)'
                 PROVE  \/ /\ callBackMap'[k][m].value \in burst[k][m].values
                           /\ (setBack \/ (callBackMap'[k][m].on = date /\ curDate = date))
                        \/ setBack /\ callBackMap'[k][m].value = Normal
      BY <2>1 DEF BurstIsInMap
    <3>1. CASE k = r.kind /\ m = r.module
      <4>1. r.value \in burst[k][m].values /\ burst[k][m].on <= r.on
        BY <1>1, <3>1 DEF ReportsOfBurst
      <4>2. r.on = date
        BY <1>2, <1>4, <4>1
      <4>3. QED  BY <1>11, <2>2, <2>3, <3>1, <4>1, <4>2
    <3>2. CASE ~(k = r.kind /\ m = r.module)
      BY <1>1, <2>3, <2>5, <3>2 DEF BurstIsInMap
    <3>3. QED  BY <3>1, <3>2
  <2>12. QED  BY <2>6, <2>7, <2>8, <2>9, <2>10, <2>11 DEF MapInv
<1>12. ASSUME NEW r \in reports, UpdateCallBackMap(r), curDate # r.on PROVE MapInv'
  <2>1. /\ UNCHANGED <<callBackMap, curDate, renewed, setBack, date, burst>>
        /\ Becomes(r, "checked") /\ ~Locked(r.kind)
    BY <1>12 DEF UpdateCallBackMap
  <2>2. "checked" \in Stage /\ "checked" # "updated"
    BY DEF Stage
  <2>3. /\ \A s \in reports' : \/ s \in reports /\ s # r
                               \/ /\ s.kind = r.kind /\ s.module = r.module /\ s.value = r.value
                                  /\ s.on = r.on /\ s.stage = "checked"
        /\ ~Entered(r.kind, r.module)'
        /\ \A k \in Kind, m \in Module :
             ~(k = r.kind /\ m = r.module) /\ Entered(k, m)' => Entered(k, m)
    BY <2>1, <2>2, NextStage
  <2>4. OneLocked'
    <3>1. reports' = (reports \ {r}) \cup {[r EXCEPT !.stage = "checked"]}
      BY <2>1 DEF Becomes
    <3>2. [r EXCEPT !.stage = "checked"].kind = r.kind
      BY DEF TypeOK
    <3>3. \A s \in reports : s.stage = "checked" => s.kind # r.kind
      BY <2>1 DEF Locked
    <3>4. QED  BY <1>1, <3>1, <3>2, <3>3 DEF OneLocked
  <2>5. ReportsOfBurst'
    BY <1>1, <2>1, <2>3 DEF ReportsOfBurst
  <2>6. RenewedIsCurrent' /\ TodayIsCurrent'
    BY <1>1, <2>1 DEF RenewedIsCurrent, TodayIsCurrent
  <2>7. ClearsNothingOfToday'
    <3> SUFFICES ASSUME NEW s \in reports', NEW m \in Module,
                        ~setBack, s.stage = "checked", s.on = date
                 PROVE  callBackMap[s.kind][m].on # date
      BY <2>1 DEF ClearsNothingOfToday
    <3>1. CASE s \in reports
      BY <1>1, <3>1 DEF ClearsNothingOfToday
    <3>2. CASE s.kind = r.kind /\ s.on = r.on
      BY <1>1, <1>4, <1>12, <3>2 DEF TodayIsCurrent
    <3>3. QED  BY <2>3, <3>1, <3>2
  <2>8. BurstIsInMap'
    BY <1>1, <2>1, <2>3 DEF BurstIsInMap
  <2>9. QED  BY <2>4, <2>5, <2>6, <2>7, <2>8 DEF MapInv
<1>13. ASSUME NEW r \in reports, RenewCallBackMap(r) PROVE MapInv'
  <2>1. /\ UNCHANGED <<date, burst>> /\ curDate' = r.on
        /\ renewed' = (IF curDate = r.on THEN renewed \cup {r.kind} ELSE {r.kind})
        /\ Becomes(r, "updated") /\ r.stage = "checked"
    BY <1>13 DEF RenewCallBackMap
  <2>2. ~setBack' => ~setBack /\ ~(curDate = date /\ r.on < date)
    BY <1>13 DEF RenewCallBackMap
  <2>3. /\ r.kind \in Kind /\ r.module \in Module /\ r.on \in 1..date
        /\ Entry(r).value = r.value /\ Entry(r).on = r.on
    BY ReportFields
  <2>4. /\ callBackMap'[r.kind][r.module] = Entry(r)
        /\ \A m \in Module \ {r.module} : callBackMap'[r.kind][m] = None
        /\ \A k \in Kind \ {r.kind}, m \in Module : callBackMap'[k][m] = callBackMap[k][m]
    BY <1>13, ClearsMap
  <2>5. None.value = Normal /\ None.on = 0
    BY DEF None
  <2>6. "updated" \in Stage
    BY DEF Stage
  <2>7. /\ \A s \in reports' : \/ s \in reports /\ s # r
                               \/ /\ s.kind = r.kind /\ s.module = r.module /\ s.value = r.value
                                  /\ s.on = r.on /\ s.stage = "updated"
        /\ \A k \in Kind, m \in Module :
             ~(k = r.kind /\ m = r.module) /\ Entered(k, m)' => Entered(k, m)
    BY <2>1, <2>6, NextStage
  <2>8. OneLocked'
    <3>1. \A s \in reports' : s.stage = "checked" => s \in reports
      BY <2>7
    <3>2. QED  BY <1>1, <3>1 DEF OneLocked
  <2>9. ReportsOfBurst'
    BY <1>1, <2>1, <2>7 DEF ReportsOfBurst
  <2>10. RenewedIsCurrent'
    <3> SUFFICES ASSUME NEW k \in renewed', NEW m \in Module, callBackMap'[k][m].value # Normal
                 PROVE  callBackMap'[k][m].on = r.on
      BY <2>1 DEF RenewedIsCurrent
    <3>1. CASE k = r.kind
      BY <2>3, <2>4, <2>5, <3>1
    <3>2. CASE k # r.kind
      <4>1. k \in renewed /\ curDate = r.on /\ k \in Kind
        BY <2>1, <3>2 DEF TypeOK
      <4>2. QED  BY <1>1, <2>4, <3>2, <4>1 DEF RenewedIsCurrent
    <3>3. QED  BY <3>1, <3>2
  <2>11. TodayIsCurrent'
    <3> SUFFICES ASSUME NEW k \in Kind, NEW m \in Module, ~setBack', callBackMap'[k][m].on = date
                 PROVE  r.on = date
      BY <2>1 DEF TodayIsCurrent
    <3>1. CASE k = r.kind
      BY <1>2, <2>3, <2>4, <2>5, <3>1
    <3>2. CASE k # r.kind
      <4>1. curDate = date
        BY <1>1, <2>2, <2>4, <3>2 DEF TodayIsCurrent
      <4>2. QED  BY <1>2, <2>2, <2>3, <4>1
    <3>3. QED  BY <3>1, <3>2
  <2>12. ClearsNothingOfToday'
    <3> SUFFICES ASSUME NEW s \in reports', NEW m \in Module,
                        ~setBack', s.stage = "checked", s.on = date
                 PROVE  callBackMap'[s.kind][m].on # date
      BY <2>1 DEF ClearsNothingOfToday
    <3>1. s \in reports /\ s.kind # r.kind
      BY <1>1, <2>1, <2>7 DEF OneLocked
    <3>2. callBackMap'[s.kind][m] = callBackMap[s.kind][m]
      BY <1>4, <2>4, <3>1
    <3>3. QED  BY <1>1, <2>2, <3>1, <3>2 DEF ClearsNothingOfToday
  <2>13. BurstIsInMap'
    <3> SUFFICES ASSUME NEW k \in Kind, NEW m \in Module, burst[k][m].on = date, Entered(k, m)'
                 PROVE  \/ /\ callBackMap'[k][m].value \in burst[k][m].values
                           /\ (setBack' \/ (callBackMap'[k][m].on = date /\ r.on = date))
                        \/ setBack' /\ callBackMap'[k][m].value = Normal
      BY <2>1 DEF BurstIsInMap
    <3>1. CASE k = r.kind /\ m = r.module
      <4>1. r.value \in burst[k][m].values /\ burst[k][m].on <= r.on
        BY <1>1, <3>1 DEF ReportsOfBurst
      <4>2. r.on = date
        BY <1>2, <2>3, <4>1
      <4>3. QED  BY <2>3, <2>4, <3>1, <4>1, <4>2
    <3>2. ASSUME ~(k = r.kind /\ m = r.module)
          PROVE  \/ /\ callBackMap[k][m].value \in burst[k][m].values
                    /\ (setBack \/ (callBackMap[k][m].on = date /\ curDate = date))
                 \/ setBack /\ callBackMap[k][m].value = Normal
      BY <1>1, <2>7, <3>2 DEF BurstIsInMap
    <3>3. setBack => setBack'
      BY <2>2
    <3>4. CASE k # r.kind
      <4>1. callBackMap'[k][m] = callBackMap[k][m]
        BY <2>4, <3>4
      <4>2. CASE setBack'
        BY <3>2, <3>4, <4>1, <4>2
      <4>3. CASE ~setBack'
        BY <1>2, <2>2, <2>3, <3>2, <3>4, <4>1, <4>3
      <4>4. QED  BY <4>2, <4>3
    <3>5. CASE k = r.kind /\ m # r.module
      <4>1. callBackMap'[k][m].value = Normal
        BY <2>4, <2>5, <3>5
      <4>2. ASSUME ~setBack' PROVE FALSE
        <5>1. ~setBack /\ callBackMap[k][m].on = date /\ curDate = date
          BY <2>2, <3>2, <3>5, <4>2
        <5>2. r.on = date
          BY <1>2, <2>2, <2>3, <4>2, <5>1
        <5>3. QED  BY <1>1, <2>1, <3>5, <5>1, <5>2 DEF ClearsNothingOfToday
      <4>3. QED  BY <4>1, <4>2
    <3>6. QED  BY <3>1, <3>4, <3>5
  <2>14. QED  BY <2>8, <2>9, <2>10, <2>11, <2>12, <2>13 DEF MapInv
<1>14. ASSUME NEW r \in reports, NotifyByCallback(r) PROVE MapInv'
  <2>1. /\ reports' = reports \ {r} /\ r.stage = "updated"
        /\ UNCHANGED <<callBackMap, curDate, renewed, setBack, date, burst>>
    BY <1>14 DEF NotifyByCallback, maps
  <2>2. \A k \in Kind, m \in Module : Entered(k, m)' => Entered(k, m)
    BY <2>1 DEF Entered
  <2>3. OneLocked' /\ ReportsOfBurst' /\ ClearsNothingOfToday'
    BY <1>1, <2>1 DEF OneLocked, ReportsOfBurst, ClearsNothingOfToday
  <2>4. RenewedIsCurrent' /\ TodayIsCurrent'
    BY <1>1, <2>1 DEF RenewedIsCurrent, TodayIsCurrent
  <2>5. BurstIsInMap'
    BY <1>1, <2>1, <2>2 DEF BurstIsInMap
  <2>6. QED  BY <2>3, <2>4, <2>5 DEF MapInv
<1>15. CASE NewDay
  <2>1. UNCHANGED <<callBackMap, curDate, renewed, reports, burst>> /\ date' = date + 1
    BY <1>15 DEF NewDay, reporting
  <2>2. OneLocked' /\ ReportsOfBurst' /\ RenewedIsCurrent'
    BY <1>1, <2>1 DEF OneLocked, ReportsOfBurst, RenewedIsCurrent
  <2>3. \A k \in Kind, m \in Module : callBackMap'[k][m].on # date' /\ burst'[k][m].on # date'
    BY <1>2, <1>3, <2>1
  <2>4. \A r \in reports' : r.on # date'
    BY <1>2, <1>4, <2>1
  <2>5. TodayIsCurrent' /\ ClearsNothingOfToday' /\ BurstIsInMap'
    BY <2>3, <2>4 DEF TodayIsCurrent, ClearsNothingOfToday, BurstIsInMap
  <2>6. QED  BY <2>2, <2>5 DEF MapInv
<1>16. CASE ServiceDies
  <2>1. /\ reports' = {} /\ burst' = [k \in Kind |-> [m \in Module |-> NoBurst]]
        /\ UNCHANGED <<callBackMap, curDate, renewed, setBack, date>>
    BY <1>16 DEF ServiceDies, maps
  <2>2. OneLocked' /\ ReportsOfBurst' /\ ClearsNothingOfToday'
    BY <2>1 DEF OneLocked, ReportsOfBurst, ClearsNothingOfToday
  <2>3. RenewedIsCurrent' /\ TodayIsCurrent'
    BY <1>1, <2>1 DEF RenewedIsCurrent, TodayIsCurrent
  <2>4. \A k \in Kind, m \in Module : burst'[k][m].on # date'
    BY <1>2, <2>1 DEF NoBurst
  <2>5. BurstIsInMap'
    BY <2>4 DEF BurstIsInMap
  <2>6. QED  BY <2>2, <2>3, <2>5 DEF MapInv
<1>17. CASE ServiceStarts
  <2>1. /\ callBackMap' = [k \in Kind |-> [m \in Module |-> None]]
        /\ curDate' = date /\ renewed' = Kind /\ UNCHANGED <<date, reports, burst>> /\ ~serviceUp
    BY <1>17 DEF ServiceStarts, reporting
  <2>2. reports = {} /\ \A k \in Kind, m \in Module : burst[k][m].on = 0
    BY <2>1 DEF DownIsEmpty
  <2>3. \A k \in Kind, m \in Module : callBackMap'[k][m].on = 0 /\ callBackMap'[k][m].value = Normal
    BY <2>1 DEF None
  <2>4. OneLocked' /\ ReportsOfBurst' /\ ClearsNothingOfToday'
    BY <2>1, <2>2 DEF OneLocked, ReportsOfBurst, ClearsNothingOfToday
  <2>5. RenewedIsCurrent' /\ TodayIsCurrent'
    BY <1>2, <2>1, <2>3 DEF RenewedIsCurrent, TodayIsCurrent
  <2>6. BurstIsInMap'
    BY <1>2, <2>1, <2>2 DEF BurstIsInMap
  <2>7. QED  BY <2>4, <2>5, <2>6 DEF MapInv
<1>18. CASE UNCHANGED vars
  BY <1>5, <1>18 DEF vars, maps, reporting
<1>19. QED
  BY <1>6, <1>7, <1>8, <1>9, <1>10, <1>11, <1>12, <1>13, <1>14, <1>15, <1>16, <1>17, <1>18
     DEF Next

(* In a map that was cleared, nothing of an earlier day is left.           *)
LEMMA ForgetsYesterday ==
  ASSUME TypeOK, MapInv
  PROVE  YesterdayForgotten
<1>1. RenewedIsCurrent /\ date \in Nat
  BY SubscriberAssumption DEF MapInv, TypeOK
<1>2. QED  BY <1>1 DEF RenewedIsCurrent, YesterdayForgotten

(* Every step keeps the stale proxies about to be dropped.                 *)
LEMMA ProxyStep ==
  ASSUME TypeOK, StaleProxyIsDropped, [Next]_vars
  PROVE  StaleProxyIsDropped'
<1> USE DEF StaleProxyIsDropped
<1>1. ASSUME UNCHANGED <<alive, serviceUp, proxy, life, resets, connecting, watching>>
      PROVE  StaleProxyIsDropped'
  BY <1>1
<1>2. ASSUME NEW c \in Client, GetSystemAbility(c) PROVE StaleProxyIsDropped'
  BY <1>2 DEF GetSystemAbility, TypeOK
<1>3. ASSUME NEW c \in Client, AddDeathRecipient(c) PROVE StaleProxyIsDropped'
  BY <1>3 DEF AddDeathRecipient, TypeOK
<1>4. ASSUME NEW c \in Client, ResetStandbyServiceClient(c) PROVE StaleProxyIsDropped'
  BY <1>4 DEF ResetStandbyServiceClient, TypeOK
<1>5. ASSUME NEW c \in Client, AddSubscriber(c) \/ RemoveSubscriber(c)
      PROVE  StaleProxyIsDropped'
  BY <1>1, <1>5 DEF AddSubscriber, RemoveSubscriber
<1>6. ASSUME NEW a \in adding,
             ReadDateOnRegister(a) \/ NotifyOnRegister(a) \/ WatchSubscriber(a)
      PROVE  StaleProxyIsDropped'
  BY <1>1, <1>6 DEF ReadDateOnRegister, NotifyOnRegister, WatchSubscriber, clients
<1>7. ASSUME NEW c \in Client, HandleSubscriberDeath(c) PROVE StaleProxyIsDropped'
  BY <1>1, <1>7 DEF HandleSubscriberDeath, clients
<1>8. ASSUME NEW next \in Mode, ReportStandbyState(next) PROVE StaleProxyIsDropped'
  BY <1>1, <1>8 DEF ReportStandbyState, clients
<1>9. ASSUME NEW k \in Kind, NEW m \in Module, NEW v \in Value, Report(k, m, v)
      PROVE  StaleProxyIsDropped'
  BY <1>1, <1>9 DEF Report, clients
<1>10. ASSUME NEW r \in reports,
              UpdateCallBackMap(r) \/ RenewCallBackMap(r) \/ NotifyByCallback(r)
       PROVE  StaleProxyIsDropped'
  BY <1>1, <1>10 DEF UpdateCallBackMap, RenewCallBackMap, NotifyByCallback, clients
<1>11. CASE NewDay
  BY <1>1, <1>11 DEF NewDay, clients
<1>12. ASSUME NEW c \in Client, ClientDies(c) PROVE StaleProxyIsDropped'
  BY <1>12 DEF ClientDies
<1>13. CASE ServiceDies
  BY <1>13 DEF ServiceDies
<1>14. CASE ServiceStarts
  <2>1. ~serviceUp /\ UNCHANGED <<alive, proxy, resets, connecting, watching>>
    BY <1>14 DEF ServiceStarts, clients
  <2>2. QED  BY <2>1
<1>15. CASE UNCHANGED vars
  BY <1>1, <1>15 DEF vars, clients
<1>16. QED
  BY <1>2, <1>3, <1>4, <1>5, <1>6, <1>7, <1>8, <1>9, <1>10, <1>11, <1>12, <1>13, <1>14, <1>15
     DEF Next

(* What a subscriber knows of the reports of a kind.                       *)
Knows(c, k) ==
  RegisteredFor(c, k) /\ ~Reporting(k, ModuleOf[c]) /\ burst[k][ModuleOf[c]].on = date =>
    told[c][k] \in burst[k][ModuleOf[c]].values \cup (IF setBack THEN {Normal} ELSE {})

KnowsMode(c) == told[c].mode \in {mode, Untold}

(* ReportsReachSubscribers in these words, and after a step.               *)
LEMMA KnowsAll ==
  ReportsReachSubscribers <=>
    \A c \in Client : Listed(c) => (\A k \in Kind : Knows(c, k)) /\ KnowsMode(c)
BY DEF ReportsReachSubscribers, Knows, KnowsMode

LEMMA KnowsAllNext ==
  ASSUME \A c \in Client : Listed(c)' => (\A k \in Kind : Knows(c, k)') /\ KnowsMode(c)'
  PROVE  ReportsReachSubscribers'
BY DEF ReportsReachSubscribers, Knows, KnowsMode

(* A step that leaves what a subscriber was told of a kind, and neither    *)
(* ends the last report of its module nor brings a new day.                *)
LEMMA StillKnows ==
  ASSUME NEW c \in Client, NEW k \in Kind, Knows(c, k),
         told'[c][k] = told[c][k], date' = date, setBack => setBack',
         RegisteredFor(c, k)' => RegisteredFor(c, k),
         Reporting(k, ModuleOf[c]) => Reporting(k, ModuleOf[c])',
         burst'[k][ModuleOf[c]] = burst[k][ModuleOf[c]] \/ Reporting(k, ModuleOf[c])'
  PROVE  Knows(c, k)'
BY DEF Knows

(* Every step keeps what the subscribers know.                             *)
LEMMA ToldStep ==
  ASSUME TypeOK, DownIsEmpty, ListedOnce, OneAdding, UnlistedAreUntold, MapInv, LateIsToldAgain,
         ReportsReachSubscribers, [Next]_vars
  PROVE  UnlistedAreUntold' /\ LateIsToldAgain' /\ ReportsReachSubscribers'
<1> DEFINE Goal == UnlistedAreUntold' /\ LateIsToldAgain' /\ ReportsReachSubscribers'
<1>1. \A c \in Client : Listed(c) => (\A k \in Kind : Knows(c, k)) /\ KnowsMode(c)
  BY KnowsAll
<1>2. \A c \in Client : ModuleOf[c] \in Module
  BY SubscriberAssumption
<1>3. date \in Nat /\ date >= 1
  BY SubscriberAssumption DEF TypeOK
<1>4. \A k \in Kind, m \in Module : burst[k][m].on \in 0..date
  BY DEF TypeOK
<1>5. told \in [Client -> Told]
  BY DEF TypeOK, Told
<1>6. \A a \in adding : a.client \in Client /\ ModuleOf[a.client] \in Module
  BY <1>2 DEF TypeOK
<1>7. ASSUME UNCHANGED <<subscriberList, adding, setBack, date, reports, burst, mode, told>>
      PROVE  Goal
  BY <1>7 DEF UnlistedAreUntold, LateIsToldAgain, ReportsReachSubscribers, Listed, Reporting,
              RegisteredFor
<1>8. ASSUME NEW c \in Client,
             GetSystemAbility(c) \/ AddDeathRecipient(c) \/ ResetStandbyServiceClient(c)
             \/ ClientDies(c)
      PROVE  Goal
  BY <1>7, <1>8
     DEF GetSystemAbility, AddDeathRecipient, ResetStandbyServiceClient, ClientDies, lists, maps,
         reporting
<1>9. ASSUME NEW c \in Client, AddSubscriber(c) PROVE Goal
  <2>1. /\ ~Listed(c) /\ subscriberList' = Append(subscriberList, c) /\ adding = {}
        /\ adding' = {[client |-> c, step |-> "power", on |-> 0]}
        /\ UNCHANGED <<setBack, date, reports, burst, mode, told>>
    BY <1>9 DEF AddSubscriber, Unlocked, maps, reporting
  <2>2. \A d \in Client : Listed(d)' <=> Listed(d) \/ d = c
    BY <2>1, AppendLists
  <2>3. ASSUME NEW k \in Kind PROVE ~RegisteredFor(c, k)'
    BY <2>1 DEF RegisteredFor
  <2>4. UnlistedAreUntold'
    BY <2>1, <2>2 DEF UnlistedAreUntold
  <2>5. LateIsToldAgain'
    BY <2>1 DEF LateIsToldAgain
  <2>6. ASSUME NEW d \in Client, Listed(d)'
        PROVE  (\A k \in Kind : Knows(d, k)') /\ KnowsMode(d)'
    <3>1. CASE d = c
      <4>1. \A k \in Kind : Knows(d, k)'
        BY <2>3, <3>1 DEF Knows
      <4>2. KnowsMode(d)'
        BY <2>1, <3>1 DEF UnlistedAreUntold, KnowsMode
      <4>3. QED  BY <4>1, <4>2
    <3>2. CASE d # c
      <4>1. Listed(d)
        BY <2>2, <2>6, <3>2
      <4>2. ASSUME NEW k \in Kind PROVE RegisteredFor(d, k)
        BY <2>1, <4>1 DEF RegisteredFor
      <4>3. \A k \in Kind : Knows(d, k)'
        BY <1>1, <2>1, <4>1, <4>2 DEF Knows, Reporting
      <4>4. KnowsMode(d)'
        BY <1>1, <2>1, <4>1 DEF KnowsMode
      <4>5. QED  BY <4>3, <4>4
    <3>3. QED  BY <3>1, <3>2
  <2>7. QED  BY <2>4, <2>5, <2>6, KnowsAllNext
<1>10. ASSUME NEW a \in adding, ReadDateOnRegister(a) PROVE Goal
  <2>1. /\ adding' = {[a EXCEPT !.on = date]}
        /\ UNCHANGED <<subscriberList, setBack, date, reports, burst, mode, told>>
    BY <1>10 DEF ReadDateOnRegister, lists, maps, reporting
  <2>2. a \in [client : Client, step : Kind \cup {"watch"}, on : 0..date]
    BY DEF TypeOK
  <2>3. \A b \in adding' : b.client = a.client /\ b.step = a.step /\ b.on = date
    BY <2>1, <2>2
  <2>4. adding' # {}
    BY <2>1
  <2>5. \A c \in Client : Listed(c)' <=> Listed(c)
    BY <2>1 DEF Listed
  <2>6. ASSUME NEW c \in Client, NEW k \in Kind, RegisteredFor(c, k)'
        PROVE  RegisteredFor(c, k)
    <3>1. ASSUME NEW b \in adding, b.client = c, b.step \in {"power", k} PROVE FALSE
      <4>1. b = a
        BY DEF OneAdding
      <4>2. \E e \in adding' : e.client = c /\ e.step \in {"power", k}
        BY <2>3, <2>4, <3>1, <4>1
      <4>3. QED  BY <2>6, <4>2 DEF RegisteredFor
    <3>2. QED  BY <2>5, <2>6, <3>1 DEF RegisteredFor
  <2>7. UnlistedAreUntold'
    BY <2>1, <2>5 DEF UnlistedAreUntold
  <2>8. LateIsToldAgain'
    BY <2>1, <2>3 DEF LateIsToldAgain
  <2>9. ASSUME NEW c \in Client, Listed(c)'
        PROVE  (\A k \in Kind : Knows(c, k)') /\ KnowsMode(c)'
    <3>1. \A k \in Kind : Knows(c, k)'
      BY <1>1, <2>1, <2>5, <2>6, <2>9 DEF Knows, Reporting
    <3>2. KnowsMode(c)'
      BY <1>1, <2>1, <2>5, <2>9 DEF KnowsMode
    <3>3. QED  BY <3>1, <3>2
  <2>10. QED  BY <2>7, <2>8, <2>9, KnowsAllNext
<1>11. ASSUME NEW a \in adding, NotifyOnRegister(a) PROVE Goal
  <2> DEFINE next == IF a.step = "power" THEN "action" ELSE "watch"
             m == ModuleOf[a.client]
             v == ValueOnRegister(a.step, m, a.on)
  <2>1. /\ adding' = {[a EXCEPT !.step = next, !.on = 0]}
        /\ a.step \in Kind /\ a.on # 0
        /\ UNCHANGED <<subscriberList, setBack, curDate, callBackMap, date, reports, burst, mode>>
    BY <1>11 DEF NotifyOnRegister, lists, maps, reporting
  <2>2. told' = [told EXCEPT ![a.client] = [@ EXCEPT ![a.step] = v]]
    BY <1>11 DEF NotifyOnRegister
  <2>3. a \in [client : Client, step : Kind \cup {"watch"}, on : 0..date]
    BY DEF TypeOK
  <2>4. (a.step = "power" /\ next = "action") \/ (a.step = "action" /\ next = "watch")
    BY <2>1 DEF Kind
  <2> HIDE DEF next, v
  <2>5. adding' # {} /\ \A b \in adding' : b.client = a.client /\ b.step = next /\ b.on = 0
    BY <2>1, <2>3
  <2>6. \A c \in Client \ {a.client} : told'[c] = told[c]
    BY <1>5, <2>2
  <2>7. /\ told'[a.client].mode = told[a.client].mode /\ told'[a.client][a.step] = v
        /\ \A k \in Kind \ {a.step} : told'[a.client][k] = told[a.client][k]
    <3>1. a.client \in Client /\ told[a.client] \in Told
      BY <1>5, <1>6
    <3>2. told'[a.client] = [told[a.client] EXCEPT ![a.step] = v]
      BY <1>5, <2>2, <3>1
    <3>3. CASE a.step = "power"
      BY <3>1, <3>2, <3>3 DEF Told, Kind
    <3>4. CASE a.step = "action"
      BY <3>1, <3>2, <3>4 DEF Told, Kind
    <3>5. QED  BY <2>4, <3>3, <3>4
  <2>8. \A c \in Client : Listed(c)' <=> Listed(c)
    BY <2>1 DEF Listed
  <2>9. UnlistedAreUntold'
    BY <2>6, <2>7, <2>8 DEF UnlistedAreUntold
  <2>10. LateIsToldAgain'
    BY <2>5 DEF LateIsToldAgain
  <2>11. ASSUME NEW c \in Client, NEW k \in Kind, RegisteredFor(c, k)', ~(c = a.client /\ k = a.step)
         PROVE  RegisteredFor(c, k)
    <3>1. ASSUME NEW b \in adding, b.client = c, b.step \in {"power", k} PROVE FALSE
      <4>1. b = a
        BY DEF OneAdding
      <4>2. c = a.client /\ a.step = "power" /\ next = "action" /\ k # "power"
        BY <2>4, <2>11, <3>1, <4>1
      <4>3. k = "action"
        BY <4>2 DEF Kind
      <4>4. \E e \in adding' : e.client = c /\ e.step \in {"power", k}
        BY <2>5, <4>2, <4>3
      <4>5. QED  BY <2>11, <4>4 DEF RegisteredFor
    <3>2. QED  BY <2>8, <2>11, <3>1 DEF RegisteredFor
  <2>12. Knows(a.client, a.step)'
    <3> SUFFICES ASSUME ~Reporting(a.step, m), burst[a.step][m].on = date
                 PROVE  v \in burst[a.step][m].values \cup (IF setBack THEN {Normal} ELSE {})
      BY <2>1, <2>7 DEF Knows, Reporting
    <3>1. a.on = date
      BY <2>1 DEF LateIsToldAgain
    <3>2. Entered(a.step, m)
      BY DEF Entered, Reporting
    <3>3. m \in Module
      BY <1>6
    <3>4. \/ /\ callBackMap[a.step][m].value \in burst[a.step][m].values
             /\ (setBack \/ (callBackMap[a.step][m].on = date /\ curDate = date))
          \/ setBack /\ callBackMap[a.step][m].value = Normal
      BY <2>1, <3>2, <3>3 DEF MapInv, BurstIsInMap
    <3>5. v = IF curDate = date THEN callBackMap[a.step][m].value ELSE Normal
      BY <3>1 DEF v, ValueOnRegister
    <3>6. CASE setBack
      BY <3>4, <3>5, <3>6
    <3>7. CASE ~setBack
      BY <3>4, <3>5, <3>7
    <3>8. QED  BY <3>6, <3>7
  <2>13. ASSUME NEW c \in Client, Listed(c)'
         PROVE  (\A k \in Kind : Knows(c, k)') /\ KnowsMode(c)'
    <3>1. ASSUME NEW k \in Kind PROVE Knows(c, k)'
      <4>1. CASE c = a.client /\ k = a.step
        BY <2>12, <4>1
      <4>2. CASE ~(c = a.client /\ k = a.step)
        <5>1. told'[c][k] = told[c][k]
          BY <2>6, <2>7, <4>2
        <5>2. RegisteredFor(c, k)' => RegisteredFor(c, k)
          BY <2>11, <4>2
        <5>3. Knows(c, k)
          BY <1>1, <2>8, <2>13
        <5>4. QED  BY <2>1, <5>1, <5>2, <5>3 DEF Knows, Reporting
      <4>3. QED  BY <4>1, <4>2
    <3>2. KnowsMode(c)'
      <4>1. told'[c].mode = told[c].mode
        BY <2>6, <2>7
      <4>2. QED  BY <1>1, <2>1, <2>8, <2>13, <4>1 DEF KnowsMode
    <3>3. QED  BY <3>1, <3>2
  <2>14. QED  BY <2>9, <2>10, <2>13, KnowsAllNext
<1>12. ASSUME NEW a \in adding, WatchSubscriber(a) PROVE Goal
  <2>1. /\ adding' = {} /\ a.step = "watch"
        /\ UNCHANGED <<subscriberList, setBack, date, reports, burst, mode, told>>
    BY <1>12 DEF WatchSubscriber, maps, reporting
  <2>2. \A c \in Client : Listed(c)' <=> Listed(c)
    BY <2>1 DEF Listed
  <2>3. ASSUME NEW c \in Client, NEW k \in Kind, Listed(c) PROVE RegisteredFor(c, k)
    <3>1. \A b \in adding : b = a
      BY DEF OneAdding
    <3>2. "watch" \notin {"power", k}
      BY DEF Kind
    <3>3. QED  BY <2>1, <2>3, <3>1, <3>2 DEF RegisteredFor
  <2>4. UnlistedAreUntold' /\ LateIsToldAgain'
    BY <2>1, <2>2 DEF UnlistedAreUntold, LateIsToldAgain
  <2>5. ASSUME NEW c \in Client, Listed(c)'
        PROVE  (\A k \in Kind : Knows(c, k)') /\ KnowsMode(c)'
    <3>1. \A k \in Kind : Knows(c, k)'
      BY <1>1, <2>1, <2>2, <2>3, <2>5 DEF Knows, Reporting
    <3>2. KnowsMode(c)'
      BY <1>1, <2>1, <2>2, <2>5 DEF KnowsMode
    <3>3. QED  BY <3>1, <3>2
  <2>6. QED  BY <2>4, <2>5, KnowsAllNext
<1>13. ASSUME NEW c \in Client, subscriberList' = Erase(subscriberList, c), adding = {},
              told' = [told EXCEPT ![c] = ToldNothing],
              UNCHANGED <<adding, setBack, date, reports, burst, mode>>
       PROVE  Goal
  <2>1. \A d \in Client : Listed(d)' <=> Listed(d) /\ d # c
    BY <1>13, EraseUnlists
  <2>2. told'[c].mode = Untold /\ \A d \in Client \ {c} : told'[d] = told[d]
    BY <1>5, <1>13 DEF ToldNothing
  <2>3. UnlistedAreUntold'
    BY <2>1, <2>2 DEF UnlistedAreUntold
  <2>4. LateIsToldAgain'
    BY <1>13 DEF LateIsToldAgain
  <2>5. ASSUME NEW d \in Client, Listed(d)'
        PROVE  (\A k \in Kind : Knows(d, k)') /\ KnowsMode(d)'
    <3>1. Listed(d) /\ told'[d] = told[d]
      BY <2>1, <2>2, <2>5
    <3>2. ASSUME NEW k \in Kind PROVE RegisteredFor(d, k)
      BY <1>13, <3>1 DEF RegisteredFor
    <3>3. \A k \in Kind : Knows(d, k)'
      BY <1>1, <1>13, <3>1, <3>2 DEF Knows, Reporting
    <3>4. KnowsMode(d)'
      BY <1>1, <1>13, <3>1 DEF KnowsMode
    <3>5. QED  BY <3>3, <3>4
  <2>6. QED  BY <2>3, <2>4, <2>5, KnowsAllNext
<1>14. ASSUME NEW c \in Client, RemoveSubscriber(c) \/ HandleSubscriberDeath(c) PROVE Goal
  BY <1>13, <1>14 DEF RemoveSubscriber, HandleSubscriberDeath, Unlocked, maps, reporting
<1>15. ASSUME NEW next \in Mode, ReportStandbyState(next) PROVE Goal
  <2>1. /\ mode' = next
        /\ UNCHANGED <<subscriberList, adding, setBack, date, reports, burst>>
        /\ told' = [c \in Client |-> IF Listed(c) THEN [told[c] EXCEPT !.mode = next] ELSE told[c]]
    BY <1>15 DEF ReportStandbyState, lists, maps, reporting
  <2>2. \A d \in Client : Listed(d)' <=> Listed(d)
    BY <2>1 DEF Listed
  <2>3. ASSUME NEW d \in Client, Listed(d)
        PROVE  told'[d].mode = next /\ \A k \in Kind : told'[d][k] = told[d][k]
    BY <1>5, <2>1, <2>3 DEF Told, Kind
  <2>4. \A d \in Client : ~Listed(d) => told'[d] = told[d]
    BY <2>1
  <2>5. UnlistedAreUntold'
    BY <2>2, <2>4 DEF UnlistedAreUntold
  <2>6. LateIsToldAgain'
    BY <2>1 DEF LateIsToldAgain, Reporting
  <2>7. ASSUME NEW d \in Client, Listed(d)'
        PROVE  (\A k \in Kind : Knows(d, k)') /\ KnowsMode(d)'
    <3>1. ASSUME NEW k \in Kind PROVE Knows(d, k)'
      <4>1. Knows(d, k) /\ told'[d][k] = told[d][k]
        BY <1>1, <2>2, <2>3, <2>7
      <4>2. RegisteredFor(d, k)' <=> RegisteredFor(d, k)
        BY <2>1, <2>2 DEF RegisteredFor
      <4>3. QED  BY <2>1, <4>1, <4>2 DEF Knows, Reporting
    <3>2. KnowsMode(d)'
      BY <2>1, <2>2, <2>3, <2>7 DEF KnowsMode
    <3>3. QED  BY <3>1, <3>2
  <2>8. QED  BY <2>5, <2>6, <2>7, KnowsAllNext
<1>16. ASSUME NEW k \in Kind, NEW m \in Module, NEW v \in Value, Report(k, m, v) PROVE Goal
  <2>1. UNCHANGED <<subscriberList, adding, setBack, date, mode, told>>
    BY <1>16 DEF Report, lists, maps
  <2>2. /\ \A l \in Kind, n \in Module : Reporting(l, n)' <=> Reporting(l, n) \/ (l = k /\ n = m)
        /\ \A l \in Kind, n \in Module : ~(l = k /\ n = m) => burst'[l][n] = burst[l][n]
    BY <1>16, ReportBegins
  <2>3. \A d \in Client : Listed(d)' <=> Listed(d)
    BY <2>1 DEF Listed
  <2>4. UnlistedAreUntold'
    BY <2>1, <2>3 DEF UnlistedAreUntold
  <2>5. LateIsToldAgain'
    BY <1>6, <2>1, <2>2 DEF LateIsToldAgain
  <2>6. ASSUME NEW d \in Client, Listed(d)'
        PROVE  (\A l \in Kind : Knows(d, l)') /\ KnowsMode(d)'
    <3>1. ASSUME NEW l \in Kind PROVE Knows(d, l)'
      <4>1. Knows(d, l)
        BY <1>1, <2>3, <2>6
      <4>2. RegisteredFor(d, l)' <=> RegisteredFor(d, l)
        BY <2>1, <2>3 DEF RegisteredFor
      <4>3. QED  BY <1>2, <2>1, <2>2, <4>1, <4>2, StillKnows
    <3>2. KnowsMode(d)'
      BY <1>1, <2>1, <2>3, <2>6 DEF KnowsMode
    <3>3. QED  BY <3>1, <3>2
  <2>7. QED  BY <2>4, <2>5, <2>6, KnowsAllNext
<1>17. ASSUME NEW r \in reports, UpdateCallBackMap(r) \/ RenewCallBackMap(r) PROVE Goal
  <2>1. UNCHANGED <<subscriberList, adding, date, burst, mode, told>>
    BY <1>17 DEF UpdateCallBackMap, RenewCallBackMap, lists
  <2>2. setBack => setBack'
    BY <1>17 DEF UpdateCallBackMap, RenewCallBackMap
  <2>3. \E st \in Stage : Becomes(r, st)
    BY <1>17 DEF UpdateCallBackMap, RenewCallBackMap, Stage
  <2>4. \A k \in Kind, m \in Module : Reporting(k, m)' <=> Reporting(k, m)
    BY <2>3, NextStage
  <2>5. \A d \in Client : Listed(d)' <=> Listed(d)
    BY <2>1 DEF Listed
  <2>6. UnlistedAreUntold'
    BY <2>1, <2>5 DEF UnlistedAreUntold
  <2>7. LateIsToldAgain'
    BY <1>6, <2>1, <2>4 DEF LateIsToldAgain
  <2>8. ASSUME NEW d \in Client, Listed(d)'
        PROVE  (\A l \in Kind : Knows(d, l)') /\ KnowsMode(d)'
    <3>1. ASSUME NEW l \in Kind PROVE Knows(d, l)'
      <4>1. Knows(d, l)
        BY <1>1, <2>5, <2>8
      <4>2. RegisteredFor(d, l)' <=> RegisteredFor(d, l)
        BY <2>1, <2>5 DEF RegisteredFor
      <4>3. QED  BY <1>2, <2>1, <2>2, <2>4, <4>1, <4>2, StillKnows
    <3>2. KnowsMode(d)'
      BY <1>1, <2>1, <2>5, <2>8 DEF KnowsMode
    <3>3. QED  BY <3>1, <3>2
  <2>9. QED  BY <2>6, <2>7, <2>8, KnowsAllNext
<1>18. ASSUME NEW r \in reports, NotifyByCallback(r) PROVE Goal
  <2>1. /\ UNCHANGED <<subscriberList, adding, setBack, date, burst, mode>> /\ adding = {}
        /\ reports' = reports \ {r}
        /\ told' = [c \in Client |-> IF Listed(c) /\ ModuleOf[c] = r.module
                                     THEN [told[c] EXCEPT ![r.kind] = r.value] ELSE told[c]]
    BY <1>18 DEF NotifyByCallback, Unlocked, lists, maps
  <2>2. \A d \in Client : Listed(d)' <=> Listed(d)
    BY <2>1 DEF Listed
  <2>3. r.kind \in Kind /\ r.module \in Module
    BY ReportFields
  <2>4. ASSUME NEW d \in Client, Listed(d), ModuleOf[d] = r.module
        PROVE  /\ told'[d].mode = told[d].mode /\ told'[d][r.kind] = r.value
               /\ \A k \in Kind \ {r.kind} : told'[d][k] = told[d][k]
    <3>1. told'[d] = [told[d] EXCEPT ![r.kind] = r.value]
      BY <2>1, <2>4
    <3>2. told[d] \in Told
      BY <1>5
    <3>3. CASE r.kind = "power"
      BY <3>1, <3>2, <3>3 DEF Told, Kind
    <3>4. CASE r.kind = "action"
      BY <3>1, <3>2, <3>4 DEF Told, Kind
    <3>5. QED  BY <2>3, <3>3, <3>4 DEF Kind
  <2>5. \A d \in Client : ~(Listed(d) /\ ModuleOf[d] = r.module) => told'[d] = told[d]
    BY <2>1
  <2>6. UnlistedAreUntold'
    BY <2>2, <2>5 DEF UnlistedAreUntold
  <2>7. LateIsToldAgain'
    BY <2>1 DEF LateIsToldAgain
  <2>8. r.value \in burst[r.kind][r.module].values
    BY DEF MapInv, ReportsOfBurst
  <2>9. ASSUME NEW d \in Client, Listed(d)', NEW k \in Kind PROVE Knows(d, k)'
    <3>1. Listed(d)
      BY <2>2, <2>9
    <3>2. CASE k = r.kind /\ ModuleOf[d] = r.module
      <4>1. told'[d][k] = r.value
        BY <2>4, <3>1, <3>2
      <4>2. QED  BY <2>1, <2>8, <3>2, <4>1 DEF Knows
    <3>3. CASE ~(k = r.kind /\ ModuleOf[d] = r.module)
      <4>1. Reporting(k, ModuleOf[d]) => Reporting(k, ModuleOf[d])'
        BY <2>1, <3>3 DEF Reporting
      <4>2. Knows(d, k)
        BY <1>1, <3>1
      <4>3. told'[d][k] = told[d][k]
        BY <2>4, <2>5, <3>1, <3>3
      <4>4. RegisteredFor(d, k)
        BY <2>1, <3>1 DEF RegisteredFor
      <4>5. QED  BY <2>1, <4>1, <4>2, <4>3, <4>4, StillKnows
    <3>4. QED  BY <3>2, <3>3
  <2>10. ASSUME NEW d \in Client, Listed(d)' PROVE KnowsMode(d)'
    <3>1. told'[d].mode = told[d].mode
      BY <2>2, <2>4, <2>5, <2>10
    <3>2. QED  BY <1>1, <2>1, <2>2, <2>10, <3>1 DEF KnowsMode
  <2>11. QED  BY <2>6, <2>7, <2>9, <2>10, KnowsAllNext
<1>19. CASE NewDay
  <2>1. UNCHANGED <<subscriberList, adding, reports, burst, mode, told>> /\ date' = date + 1
    BY <1>19 DEF NewDay, lists, reporting
  <2>2. \A d \in Client : Listed(d)' <=> Listed(d)
    BY <2>1 DEF Listed
  <2>3. \A k \in Kind, m \in Module : burst'[k][m].on # date'
    BY <1>3, <1>4, <2>1
  <2>4. UnlistedAreUntold'
    BY <2>1, <2>2 DEF UnlistedAreUntold
  <2>5. LateIsToldAgain'
    BY <1>6, <2>1, <2>3 DEF LateIsToldAgain
  <2>6. ASSUME NEW d \in Client, Listed(d)'
        PROVE  (\A k \in Kind : Knows(d, k)') /\ KnowsMode(d)'
    <3>1. \A k \in Kind : Knows(d, k)'
      BY <1>2, <2>3 DEF Knows
    <3>2. KnowsMode(d)'
      BY <1>1, <2>1, <2>2, <2>6 DEF KnowsMode
    <3>3. QED  BY <3>1, <3>2
  <2>7. QED  BY <2>4, <2>5, <2>6, KnowsAllNext
<1>20. CASE ServiceDies
  <2>1. subscriberList' = << >> /\ adding' = {} /\ told' = [c \in Client |-> ToldNothing]
    BY <1>20 DEF ServiceDies
  <2>2. \A d \in Client : ~Listed(d)'
    BY <2>1 DEF Listed
  <2>3. \A d \in Client : told'[d].mode = Untold
    BY <2>1 DEF ToldNothing
  <2>4. UnlistedAreUntold' /\ LateIsToldAgain'
    BY <2>1, <2>3 DEF UnlistedAreUntold, LateIsToldAgain
  <2>5. QED  BY <2>2, <2>4, KnowsAllNext
<1>21. CASE ServiceStarts
  <2>1. ~serviceUp /\ UNCHANGED <<subscriberList, adding, told>>
    BY <1>21 DEF ServiceStarts, lists
  <2>2. subscriberList = << >> /\ adding = {}
    BY <2>1 DEF DownIsEmpty
  <2>3. \A d \in Client : ~Listed(d) /\ ~Listed(d)'
    BY <2>1, <2>2 DEF Listed
  <2>4. UnlistedAreUntold' /\ LateIsToldAgain'
    BY <2>1, <2>2, <2>3 DEF UnlistedAreUntold, LateIsToldAgain
  <2>5. QED  BY <2>3, <2>4, KnowsAllNext
<1>22. CASE UNCHANGED vars
  BY <1>7, <1>22 DEF vars, lists, maps, reporting
<1>23. QED
  BY <1>8, <1>9, <1>10, <1>11, <1>12, <1>14, <1>15, <1>16, <1>17, <1>18, <1>19, <1>20, <1>21, <1>22
     DEF Next

-----------------------------------------------------------------------------
(* The theorems.                                                           *)

(* Nobody has registered at first.                                         *)
LEMMA InitInv == Init => Inv
<1> SUFFICES ASSUME Init PROVE Inv
  OBVIOUS
<1> USE SubscriberAssumption DEF Init
<1>1. TypeOK
  <2>1. TypeTold
    <3>1. told = [c \in Client |-> ToldNothing] /\ mode \in Mode
      BY DEF Mode
    <3>2. told \in [Client -> Told]
      BY <3>1, ToldNothingType
    <3>3. QED  BY <3>1, <3>2 DEF TypeTold, Told
  <2>2. TypeMaps
    <3>1. None \in Entries /\ date = 1 /\ 1 \in 1..MaxDate
      BY DEF None, Normal, Entries
    <3>2. callBackMap \in [Kind -> [Module -> Entries]]
      BY <3>1
    <3>3. renewed \subseteq Kind /\ setBack \in BOOLEAN /\ curDate \in 1..date
      <4>1. renewed = Kind /\ setBack = FALSE
        OBVIOUS
      <4>2. curDate \in 1..date
        BY <3>1
      <4>3. QED  BY <4>1, <4>2
    <3>4. callBackMap \in [Kind -> [Module -> [value : Value \cup {Normal}, on : 0..date]]]
      BY <3>2 DEF Entries
    <3>5. QED  BY Zenon, <3>1, <3>3, <3>4 DEF TypeMaps
  <2>3. TypeReports
    BY DEF TypeReports, NoBurst
  <2>4. TypeClients /\ TypeLists /\ TypeAdding
    BY DEF TypeClients, TypeLists, TypeAdding
  <2>5. QED  BY <2>1, <2>2, <2>3, <2>4, TypeParts
<1>2. ListedOnce /\ \A d \in Client : ~Listed(d)
  BY EmptyLists
<1>3. DownIsEmpty /\ AliveAreWatched /\ DeadAreForgotten /\ ReportsReachSubscribers
  BY <1>2 DEF DownIsEmpty, AliveAreWatched, DeadAreForgotten, ReportsReachSubscribers
<1>4. UnlistedAreUntold /\ OneAdding /\ LateIsToldAgain
  BY DEF UnlistedAreUntold, ToldNothing, OneAdding, LateIsToldAgain
<1>5. OneLocked /\ ReportsOfBurst /\ ClearsNothingOfToday
  BY DEF OneLocked, ReportsOfBurst, ClearsNothingOfToday
<1>6. RenewedIsCurrent /\ TodayIsCurrent
  BY DEF RenewedIsCurrent, TodayIsCurrent, None
<1>7. BurstIsInMap
  BY DEF BurstIsInMap, NoBurst
<1>8. StaleProxyIsDropped
  BY DEF StaleProxyIsDropped
<1>9. MapInv
  BY <1>5, <1>6, <1>7 DEF MapInv
<1>10. QED  BY <1>1, <1>2, <1>3, <1>4, <1>8, <1>9 DEF Inv

(* The inductive invariant holds always.                                   *)
LEMMA InvHolds == Spec => []Inv
<1>1. Inv /\ [Next]_vars => Inv'
  <2> SUFFICES ASSUME Inv, [Next]_vars PROVE Inv'
    OBVIOUS
  <2>1. TypeOK'  BY TypeStep DEF Inv
  <2>2. DownIsEmpty' /\ ListedOnce' /\ OneAdding' /\ AliveAreWatched' /\ DeadAreForgotten'
    BY ListStep DEF Inv
  <2>3. MapInv'
    BY MapStep DEF Inv
  <2>4. UnlistedAreUntold' /\ LateIsToldAgain' /\ ReportsReachSubscribers'
    BY ToldStep DEF Inv
  <2>5. StaleProxyIsDropped'
    BY ProxyStep DEF Inv
  <2>6. QED  BY <2>1, <2>2, <2>3, <2>4, <2>5 DEF Inv
<1>2. QED  BY InitInv, <1>1, PTL DEF Spec

(* Every variable of the subscribers and of the client library stays in    *)
(* its set, and no proxy leads to a process that has not been.             *)
THEOREM TypeCorrect == Spec => []TypeOK
<1>1. Inv => TypeOK  BY DEF Inv
<1>2. QED  BY <1>1, InvHolds, PTL

(* However many threads report for a module, and however their steps and   *)
(* those of AddSubscriber, the days and the restarts fall between one      *)
(* another: once the last of the reports of today that overlapped has told *)
(* the subscribers, each that is listed knows one of them, unless a late   *)
(* report of yesterday has set curDate_ back; and none knows a standby     *)
(* state that is not the last one.                                         *)
THEOREM ReportsReachSubscribersHolds == Spec => []ReportsReachSubscribers
<1>1. Inv => ReportsReachSubscribers  BY DEF Inv
<1>2. QED  BY <1>1, InvHolds, PTL

(* A map that was cleared for the day of curDate_ holds nothing of an      *)
(* earlier day; only the map of the other kind may.                        *)
THEOREM YesterdayForgottenHolds == Spec => []YesterdayForgotten
<1>1. Inv => YesterdayForgotten  BY ForgetsYesterday DEF Inv
<1>2. QED  BY <1>1, InvHolds, PTL

(* The service has heard, or will hear, of the death of every subscriber   *)
(* on its list, except of one that died before AddSubscriber had added the *)
(* death recipient.                                                        *)
THEOREM DeadAreForgottenHolds == Spec => []DeadAreForgotten
<1>1. Inv => DeadAreForgotten  BY DEF Inv
<1>2. QED  BY <1>1, InvHolds, PTL

(* A client with the proxy of a dead process is about to reset it, or is   *)
(* still connecting, or its death recipient came too late.                 *)
THEOREM StaleProxyIsDroppedHolds == Spec => []StaleProxyIsDropped
<1>1. Inv => StaleProxyIsDropped  BY DEF Inv
<1>2. QED  BY <1>1, InvHolds, PTL
=============================================================================
