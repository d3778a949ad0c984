------------------------------ MODULE AllowList ------------------------------
(***************************************************************************)
(* The allow list of StandbyServiceImpl: which application is exempt from  *)
(* which restriction of standby, and until when.  Requests arrive on the   *)
(* threads of the IPC framework, expiry and clean-up tasks run on the      *)
(* event handler, and every change is made under allowRecordMutex_, so     *)
(* that each call below is one step.  The list survives a crash of the     *)
(* service in a file that is read back when the service becomes ready.     *)
(*                                                                         *)
(* Times are those of the boot clock.  The delay of a task is measured by  *)
(* the handler on a clock that stands still while the device is suspended, *)
(* hence a task runs at its due time or at any time after it.              *)
(***************************************************************************)
EXTENDS Integers, FiniteSets

CONSTANTS
  Key,            \* "uid_name" of the applications
  AllowType,      \* the resources that can be exempt
  Pid,            \* the processes that can call and run
  AppPid,         \* those that the application manager reports
  NoPid, None,    \* no process, no application
  MaxDuration,    \* configured limits, by condition and reason
  Exempted,       \* resources a HAP may apply for
  Duration,       \* the durations a caller may ask for
  IntMax,         \* the largest int32_t
  MaxTime,        \* bound: the latest end of an exemption
  MaxLag,         \* bound: the time spent suspended since the boot
  MaxTasks,       \* bound: pending expiry tasks when a request is made
  MaxRestart,     \* bound: crashes, reboots and losses of readiness
  Reboots         \* whether the whole device may restart

Reason == {"APP_API", "NATIVE_API"}
Condition == {"DAY_STANDBY", "NIGHT_STANDBY"}

(* What RemoveAppAllowRecord leaves to an application that died.           *)
KeptType == {"TIMER", "WORK_SCHEDULER"}

ASSUME PidAssumption == AppPid \subseteq Pid /\ NoPid \notin Pid /\ None \notin Key

ASSUME DurationAssumption ==
  /\ MaxDuration \in [Condition -> [Reason -> [AllowType -> Nat]]]
  /\ Duration \subseteq Nat
  /\ Exempted \subseteq AllowType

ASSUME BoundAssumption ==
  /\ IntMax \in Nat /\ MaxTime \in Nat /\ MaxLag \in Nat
  /\ MaxTasks \in Nat /\ MaxRestart \in Nat
  /\ Reboots \in BOOLEAN

VARIABLES
  ready,          \* isServiceReady_
  allowInfoMap,   \* the records, by key
  file,           \* the records in ALLOW_RECORD_FILE_PATH
  expiries,       \* delayed tasks that take out what has expired
  removals,       \* tasks for applications that died or were uninstalled
  purges,         \* tasks posted by GetAllowList for outdated records
  running,        \* the application each process runs
  mirror,         \* a subscriber: the changes it was told, put together
  now,            \* the boot clock
  restarts        \* counts towards MaxRestart

vars == <<ready, allowInfoMap, file, expiries, removals, purges, running,
          mirror, now, restarts>>

-----------------------------------------------------------------------------
(* Records.  allowTimeList_ has at most one element per type: endTime maps *)
(* each type to the end in its element, or to 0 when it has none.          *)

Record == [pid : Pid \cup {NoPid}, reasonCode : Reason,
           allowType : SUBSET AllowType, endTime : [AllowType -> Nat]]

(* The key has no record.                                                  *)
NoRecord == [pid |-> NoPid, reasonCode |-> "NATIVE_API", allowType |-> {},
             endTime |-> [t \in AllowType |-> 0]]

Listed(r) == {t \in AllowType : r.endTime[t] # 0}

Expiry == [key : Key, allowType : SUBSET AllowType, due : Nat]
Removal == [key : Key, resetAll : BOOLEAN]

Later(a, b) == IF a > b THEN a ELSE b
Sooner(a, b) == IF a < b THEN a ELSE b

-----------------------------------------------------------------------------
(* Requests.                                                               *)

(* 0 where nothing is configured for the application.                      *)
GetMaxDuration(t, reason, condition) == MaxDuration[condition][reason][t]

(* How long a type is granted for; work scheduling has no limit.           *)
Granted(t, duration, reason, condition) ==
  IF t = "WORK_SCHEDULER" THEN duration
  ELSE Sooner(duration, GetMaxDuration(t, reason, condition))

GrantedTypes(types, duration, reason, condition) ==
  {t \in types : Granted(t, duration, reason, condition) > 0}

(* Mutant of UpdateRecord: a shorter request replaces a longer one.        *)
UpdateRecordNoMax(r, types, duration, reason, condition) ==
  LET granted == GrantedTypes(types, duration, reason, condition)
  IN  [r EXCEPT !.allowType = @ \cup granted,
                !.endTime = [t \in AllowType |->
                   IF t \in granted THEN now + Granted(t, duration, reason, condition)
                   ELSE @[t]]]

(* Mutant of UpdateRecord: allowType_ takes what was asked for.            *)
UpdateRecordAsAsked(r, types, duration, reason, condition) ==
  LET granted == GrantedTypes(types, duration, reason, condition)
  IN  [r EXCEPT !.allowType = @ \cup types,
                !.endTime = [t \in AllowType |->
                   IF t \in granted
                   THEN Later(@[t], now + Granted(t, duration, reason, condition))
                   ELSE @[t]]]

UpdateRecord(r, types, duration, reason, condition) ==
  LET granted == GrantedTypes(types, duration, reason, condition)
  IN  [r EXCEPT !.allowType = @ \cup granted,
                !.endTime = [t \in AllowType |->
                   IF t \in granted
                   THEN Later(@[t], now + Granted(t, duration, reason, condition))
                   ELSE @[t]]]

(* The tasks UpdateRecord posts: one for each type it grants, over all the *)
(* types of the request.                                                   *)
ExpiriesOf(k, types, duration, reason, condition) ==
  {[key |-> k, allowType |-> types,
    due |-> now + Granted(t, duration, reason, condition)] :
     t \in GrantedTypes(types, duration, reason, condition)}

(* Mutant of ApplyAllowResInner: subscribers are told the request.         *)
ApplyAllowResInnerReportsAsked(k, pid, types, duration, reason, condition) ==
  LET old == IF allowInfoMap[k] = NoRecord
             THEN [NoRecord EXCEPT !.pid = pid, !.reasonCode = reason]
             ELSE [allowInfoMap[k] EXCEPT !.pid = pid]
      new == UpdateRecord(old, types, duration, reason, condition)
  IN  /\ allowInfoMap' = [allowInfoMap EXCEPT
                            ![k] = IF new.allowType = {} THEN NoRecord ELSE new]
      /\ expiries' = expiries \cup ExpiriesOf(k, types, duration, reason, condition)
      /\ mirror' = [mirror EXCEPT ![k] = @ \cup types]

(* ApplyAllowResInner, without the call of DumpPersistantData.             *)
ApplyAllowResInner(k, pid, types, duration, reason, condition) ==
  LET old == IF allowInfoMap[k] = NoRecord
             THEN [NoRecord EXCEPT !.pid = pid, !.reasonCode = reason]
             ELSE [allowInfoMap[k] EXCEPT !.pid = pid]
      new == UpdateRecord(old, types, duration, reason, condition)
  IN  /\ allowInfoMap' = [allowInfoMap EXCEPT
                            ![k] = IF new.allowType = {} THEN NoRecord ELSE new]
      /\ expiries' = expiries \cup ExpiriesOf(k, types, duration, reason, condition)
      /\ mirror' = [mirror EXCEPT ![k] = @ \cup (new.allowType \ old.allowType)]

DumpPersistantData == file' = allowInfoMap'

(* CheckCallerPermission and GetExemptedResourceType: an application calls *)
(* for the reason APP_API and gets what the configuration lets it have.    *)
PermittedTypes(hap, types) == IF hap THEN types \cap Exempted ELSE types

ApplyAllowResource(k, pid, hap, types, duration, reason, condition) ==
  /\ ready
  /\ hap => reason = "APP_API"
  /\ PermittedTypes(hap, types) # {}
  /\ duration >= 0
  /\ now + duration <= MaxTime
  /\ Cardinality(expiries) < MaxTasks
  /\ ApplyAllowResInner(k, pid, PermittedTypes(hap, types), duration, reason, condition)
  /\ DumpPersistantData
  /\ UNCHANGED <<ready, removals, purges, running, now, restarts>>

-----------------------------------------------------------------------------
(* Removal.                                                                *)

(* Mutant of RemovedTypes: the end itself does not count as expired.       *)
RemovedTypesLate(r, types, removeAll) ==
  {t \in types \cap Listed(r) : removeAll \/ now > r.endTime[t]}

RemovedTypes(r, types, removeAll) ==
  {t \in types \cap Listed(r) : removeAll \/ now >= r.endTime[t]}

(* The record that remains.                                                *)
Remaining(r, removed) ==
  IF removed = r.allowType THEN NoRecord
  ELSE [r EXCEPT !.allowType = @ \ removed,
                 !.endTime = [t \in AllowType |-> IF t \in removed THEN 0 ELSE @[t]]]

(* Mutant of UnapplyAllowResInner: what is taken out stays in the file.    *)
UnapplyAllowResInnerUnsaved(k, types, removeAll) ==
  LET r == allowInfoMap[k]
      removed == RemovedTypes(r, types, removeAll)
  IN  IF r = NoRecord \/ types \cap r.allowType = {} \/ removed = {}
      THEN UNCHANGED <<allowInfoMap, mirror, file>>
      ELSE /\ allowInfoMap' = [allowInfoMap EXCEPT ![k] = Remaining(r, removed)]
           /\ mirror' = [mirror EXCEPT ![k] = @ \ removed]
           /\ UNCHANGED file

(* UnapplyAllowResInner with its early returns.                            *)
UnapplyAllowResInner(k, types, removeAll) ==
  LET r == allowInfoMap[k]
      removed == RemovedTypes(r, types, removeAll)
  IN  IF r = NoRecord \/ types \cap r.allowType = {} \/ removed = {}
      THEN UNCHANGED <<allowInfoMap, mirror, file>>
      ELSE /\ allowInfoMap' = [allowInfoMap EXCEPT ![k] = Remaining(r, removed)]
           /\ mirror' = [mirror EXCEPT ![k] = @ \ removed]
           /\ DumpPersistantData

UnapplyAllowResource(k, hap, types) ==
  /\ ready
  /\ PermittedTypes(hap, types) # {}
  /\ UnapplyAllowResInner(k, PermittedTypes(hap, types), TRUE)
  /\ UNCHANGED <<ready, expiries, removals, purges, running, now, restarts>>

(* The delayed task of UpdateRecord or RecoverTimeLimitedTask is due.      *)
ExpiryTask ==
  \E e \in expiries :
    /\ e.due <= now
    /\ UnapplyAllowResInner(e.key, e.allowType, FALSE)
    /\ expiries' = expiries \ {e}
    /\ UNCHANGED <<ready, removals, purges, running, now, restarts>>

(* RemoveAppAllowRecord, on the handler.                                   *)
RemoveAppAllowRecord ==
  \E d \in removals :
    /\ IF ready
       THEN UnapplyAllowResInner(d.key, IF d.resetAll THEN AllowType ELSE AllowType \ KeptType,
                                 TRUE)
       ELSE UNCHANGED <<allowInfoMap, mirror, file>>
    /\ removals' = removals \ {d}
    /\ UNCHANGED <<ready, expiries, purges, running, now, restarts>>

(* GetTemporaryAllowList posts a task for each record of the caller's kind *)
(* with an outdated element.                                               *)
Outdated(types, reason) ==
  {k \in Key : /\ allowInfoMap[k].reasonCode = reason
               /\ \E t \in types \cap allowInfoMap[k].allowType :
                    t \in Listed(allowInfoMap[k]) /\ allowInfoMap[k].endTime[t] <= now}

GetAllowList(types, reason) ==
  /\ ready
  /\ types # {}
  /\ Outdated(types, reason) # {}
  /\ purges' = purges \cup Outdated(types, reason)
  /\ UNCHANGED <<ready, allowInfoMap, file, expiries, removals, running, mirror,
                 now, restarts>>

(* The task reads allowType_ of the record it captured, without the lock   *)
(* and perhaps after the record was replaced: any mask.                    *)
PurgeTask ==
  \E k \in purges, types \in SUBSET AllowType :
    /\ UnapplyAllowResInner(k, types, FALSE)
    /\ purges' = purges \ {k}
    /\ UNCHANGED <<ready, expiries, removals, running, now, restarts>>

-----------------------------------------------------------------------------
(* Applications: AppStateObserver and the bundle manager's events.         *)

ProcessStarts(p, k) ==
  /\ running[p] = None
  /\ running' = [running EXCEPT ![p] = k]
  /\ UNCHANGED <<ready, allowInfoMap, file, expiries, removals, purges, mirror,
                 now, restarts>>

(* Mutant of ProcessDies: the application's data are not validated.        *)
ProcessDiesUnchecked(p, known, ended) ==
  /\ running' = [running EXCEPT ![p] = None]
  /\ removals' = removals \cup {[key |-> running[p], resetAll |-> FALSE]}
  /\ UNCHANGED <<ready, allowInfoMap, file, expiries, purges, mirror, now, restarts>>

(* OnProcessDied: an application with another process, or one whose state  *)
(* is unknown, keeps its record.  OnApplicationStateChanged, if the state  *)
(* of the application is told to have ended, asks for nothing.             *)
ProcessDies(p, known, ended) ==
  LET k == running[p]
  IN  /\ k # None
      /\ running' = [running EXCEPT ![p] = None]
      /\ removals' = IF ended \/ (known /\ \A q \in Pid \ {p} : running[q] # k)
                     THEN removals \cup {[key |-> k, resetAll |-> FALSE]}
                     ELSE removals
      /\ UNCHANGED <<ready, allowInfoMap, file, expiries, purges, mirror, now, restarts>>

(* The application is uninstalled.                                         *)
Uninstalled(k) ==
  /\ removals' = removals \cup {[key |-> k, resetAll |-> TRUE]}
  /\ UNCHANGED <<ready, allowInfoMap, file, expiries, purges, running, mirror,
                 now, restarts>>

-----------------------------------------------------------------------------
(* Start, loss of readiness, crash.                                        *)

(* The conversion to int32_t.                                              *)
Int32(x) ==
  IF x <= IntMax /\ -x <= IntMax + 1 THEN x
  ELSE ((x + IntMax + 1) % (2 * (IntMax + 1))) - (IntMax + 1)

(* The delay of the task for a type that ends at end: the ends are of the  *)
(* boot clock, the present time is of the monotonic clock, which lags.     *)
RecoveredDelay(end, lag) == Later(0, Int32(end - (now - lag)))

(* Mutant of RecoveredExpiries: no task for what is over already.          *)
RecoveredExpiriesAhead(m, lag) ==
  {[key |-> kt[1], allowType |-> AllowType,
    due |-> now + RecoveredDelay(m[kt[1]].endTime[kt[2]], lag)] :
     kt \in {x \in Key \X AllowType : m[x[1]].endTime[x[2]] > now}}

(* RecoverTimeLimitedTask: one task for each element of every record.      *)
RecoveredExpiries(m, lag) ==
  {[key |-> kt[1], allowType |-> AllowType,
    due |-> now + RecoveredDelay(m[kt[1]].endTime[kt[2]], lag)] :
     kt \in {x \in Key \X AllowType : m[x[1]].endTime[x[2]] # 0}}

(* The records of the file that are not in memory are added, and those     *)
(* whose process is gone are dropped.                                      *)
LoadedRecords(seen) ==
  [k \in Key |->
     LET r == IF allowInfoMap[k] = NoRecord THEN file[k] ELSE allowInfoMap[k]
     IN  IF r.pid \in seen /\ running[r.pid] = k THEN r ELSE NoRecord]

(* GetPidAndProcName: nothing is known when the application manager does   *)
(* not answer, and only applications when the ability manager does not.    *)
SeenProcesses == {{p \in visible : running[p] # None} : visible \in {{}, AppPid, Pid}}

ParsePersistentData(seen, lag) ==
  IF seen = {} THEN UNCHANGED <<allowInfoMap, expiries, file>>
  ELSE /\ allowInfoMap' = LoadedRecords(seen)
       /\ expiries' = expiries \cup RecoveredExpiries(LoadedRecords(seen), lag)
       /\ DumpPersistantData

InitReadyState ==
  /\ ~ ready
  /\ \E seen \in SeenProcesses, lag \in 0..Sooner(now, MaxLag) : ParsePersistentData(seen, lag)
  /\ ready' = TRUE
  /\ UNCHANGED <<removals, purges, running, mirror, now, restarts>>

(* A service the component depends on goes away.                           *)
UninitReadyState ==
  /\ ready
  /\ restarts < MaxRestart
  /\ ready' = FALSE
  /\ restarts' = restarts + 1
  /\ UNCHANGED <<allowInfoMap, file, expiries, removals, purges, running, mirror, now>>

(* What the process of the service loses with its memory; subscribers have *)
(* to register again.                                                      *)
MemoryLost ==
  /\ ready' = FALSE
  /\ allowInfoMap' = [k \in Key |-> NoRecord]
  /\ expiries' = {} /\ removals' = {} /\ purges' = {}
  /\ mirror' = [k \in Key |-> {}]

Crash ==
  /\ restarts < MaxRestart
  /\ MemoryLost
  /\ restarts' = restarts + 1
  /\ UNCHANGED <<file, running, now>>

(* The device starts again: the boot clock starts at zero.                 *)
Reboot ==
  /\ Reboots
  /\ restarts < MaxRestart
  /\ MemoryLost
  /\ restarts' = restarts + 1
  /\ now' = 0
  /\ running' = [p \in Pid |-> None]
  /\ UNCHANGED file

(* Bound: late enough for the latest task of a reload to be due.           *)
Tick ==
  /\ now < MaxTime + MaxLag
  /\ now' = now + 1
  /\ UNCHANGED <<ready, allowInfoMap, file, expiries, removals, purges, running,
                 mirror, restarts>>

-----------------------------------------------------------------------------
Init ==
  /\ ready = FALSE
  /\ allowInfoMap = [k \in Key |-> NoRecord]
  /\ file = [k \in Key |-> NoRecord]
  /\ expiries = {} /\ removals = {} /\ purges = {}
  /\ running = [p \in Pid |-> None]
  /\ mirror = [k \in Key |-> {}]
  /\ now = 0
  /\ restarts = 0

Requests ==
  \/ \E k \in Key, pid \in Pid, hap \in BOOLEAN, types \in SUBSET AllowType,
        duration \in Duration, reason \in Reason, condition \in Condition :
       ApplyAllowResource(k, pid, hap, types, duration, reason, condition)
  \/ \E k \in Key, hap \in BOOLEAN, types \in SUBSET AllowType :
       UnapplyAllowResource(k, hap, types)
  \/ \E types \in SUBSET AllowType, reason \in Reason : GetAllowList(types, reason)

Applications ==
  \/ \E p \in Pid, k \in Key : ProcessStarts(p, k)
  \/ \E p \in Pid, known, ended \in BOOLEAN : ProcessDies(p, known, ended)
  \/ \E k \in Key : Uninstalled(k)

Next ==
  \/ Requests
  \/ Applications
  \/ ExpiryTask \/ RemoveAppAllowRecord \/ PurgeTask
  \/ InitReadyState \/ UninitReadyState \/ Crash \/ Reboot
  \/ Tick

Spec == Init /\ [][Next]_vars

-----------------------------------------------------------------------------
(* Properties.                                                             *)

(* The type invariant.                                                     *)
TypeOK ==
  /\ ready \in BOOLEAN
  /\ allowInfoMap \in [Key -> Record]
  /\ file \in [Key -> Record]
  /\ expiries \subseteq Expiry
  /\ removals \subseteq Removal
  /\ purges \subseteq Key
  /\ running \in [Pid -> Key \cup {None}]
  /\ mirror \in [Key -> SUBSET AllowType]
  /\ now \in Nat
  /\ restarts \in Nat

(* allowType_ and allowTimeList_ name the same types, and a record that    *)
(* exists exempts something and has a process.                             *)
Consistent(r) ==
  /\ r.allowType = Listed(r)
  /\ r # NoRecord => r.allowType # {} /\ r.pid # NoPid

(* Every record, in memory and in the file, is consistent: otherwise the   *)
(* subtraction in UnapplyAllowResInner would go wrong and a type would     *)
(* stay exempt that no task can take out.                                  *)
RecordsConsistent ==
  \A k \in Key : Consistent(allowInfoMap[k]) /\ Consistent(file[k])

(* Every exemption in memory has a pending task that takes it out at its   *)
(* end or later: none is forgotten, across extensions, partial removals,   *)
(* crashes and reloads.                                                    *)
ExpiryPending ==
  \A k \in Key, t \in AllowType :
    allowInfoMap[k].endTime[t] # 0 =>
      \E e \in expiries :
        /\ e.key = k
        /\ t \in e.allowType
        /\ e.due >= allowInfoMap[k].endTime[t]

(* Somebody asked for the record of k to go, or the service lost it.       *)
Released(k) ==
  \/ \E hap \in BOOLEAN, types \in SUBSET AllowType : UnapplyAllowResource(k, hap, types)
  \/ \E d \in removals : d.key = k /\ d \notin removals'
  \/ ready' # ready
  \/ restarts' # restarts

(* An exemption is kept to its end: no step shortens it, and it goes away  *)
(* only when it is over, on release, with its application, or in a         *)
(* restart.  A task posted for an earlier, shorter request may not take    *)
(* out an extended exemption.                                              *)
ExemptionsKept ==
  [][\A k \in Key, t \in AllowType :
       allowInfoMap'[k].endTime[t] < allowInfoMap[k].endTime[t] =>
         /\ allowInfoMap'[k].endTime[t] = 0
         /\ allowInfoMap[k].endTime[t] <= now \/ Released(k)]_vars

(* report change of allow list to subscriber: one that listens from the    *)
(* start knows which types are exempt.                                     *)
SubscribersAgree == \A k \in Key : mirror[k] = allowInfoMap[k].allowType

(* The same while the service has not been restarted or lost its readiness: *)
(* every path that changes a record without a restart reports the change.  *)
SubscribersAgreeInOneLife == restarts = 0 => SubscribersAgree

-----------------------------------------------------------------------------
(* Liveness.  Time passes and the handler runs what is due; requests,      *)
(* applications and restarts do as they like.                              *)

FairSpec == Spec /\ WF_vars(Tick) /\ WF_vars(ExpiryTask) /\ WF_vars(InitReadyState)

(* Every exemption comes to an end unless it is asked for again.           *)
ExemptionsEnd ==
  \A k \in Key, t \in AllowType : \A e \in 1..MaxTime :
    allowInfoMap[k].endTime[t] = e ~> allowInfoMap[k].endTime[t] # e
=============================================================================
