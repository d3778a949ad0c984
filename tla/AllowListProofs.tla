--------------------------- MODULE AllowListProofs ---------------------------
(***************************************************************************)
(* Proofs about the allow list, for any set of applications, resources,    *)
(* processes, limits and durations.                                        *)
(***************************************************************************)
EXTENDS MCAllowList, TLAPS

-----------------------------------------------------------------------------
(* What the operators on records return.                                   *)

(* A grant is a natural number, and never longer than asked for.           *)
LEMMA GrantedBounds ==
  ASSUME NEW t \in AllowType, NEW duration \in Nat,
         NEW reason \in Reason, NEW condition \in Condition
  PROVE  /\ Granted(t, duration, reason, condition) \in Nat
         /\ Granted(t, duration, reason, condition) <= duration
<1>1. GetMaxDuration(t, reason, condition) \in Nat
  BY DurationAssumption DEF GetMaxDuration
<1>2. QED  BY <1>1 DEF Granted, Sooner

(* UpdateRecord returns a record.                                          *)
LEMMA UpdateRecordType ==
  ASSUME now \in Nat,
         NEW r \in Record, NEW types \in SUBSET AllowType, NEW duration \in Nat,
         NEW reason \in Reason, NEW condition \in Condition
  PROVE  UpdateRecord(r, types, duration, reason, condition) \in Record
<1> DEFINE granted == GrantedTypes(types, duration, reason, condition)
           end == [t \in AllowType |->
                     IF t \in granted
                     THEN Later(r.endTime[t], now + Granted(t, duration, reason, condition))
                     ELSE r.endTime[t]]
<1>1. granted \subseteq AllowType
  BY DEF GrantedTypes
<1>2. end \in [AllowType -> Nat]
  <2>1. ASSUME NEW t \in AllowType PROVE end[t] \in Nat
    <3>1. r.endTime[t] \in Nat  BY DEF Record
    <3>2. Granted(t, duration, reason, condition) \in Nat  BY GrantedBounds
    <3>3. QED  BY <3>1, <3>2 DEF Later
  <2>2. QED  BY <2>1
<1>3. UpdateRecord(r, types, duration, reason, condition) =
        [r EXCEPT !.allowType = r.allowType \cup granted, !.endTime = end]
  BY DEF UpdateRecord, Record
<1> HIDE DEF granted, end
<1>4. QED  BY <1>1, <1>2, <1>3 DEF Record

(* The tasks of a request are expiry tasks.                                *)
LEMMA ExpiriesOfType ==
  ASSUME now \in Nat,
         NEW k \in Key, NEW types \in SUBSET AllowType, NEW duration \in Nat,
         NEW reason \in Reason, NEW condition \in Condition
  PROVE  ExpiriesOf(k, types, duration, reason, condition) \subseteq Expiry
<1>1. ASSUME NEW t \in GrantedTypes(types, duration, reason, condition)
      PROVE  [key |-> k, allowType |-> types,
              due |-> now + Granted(t, duration, reason, condition)] \in Expiry
  <2>1. t \in AllowType  BY DEF GrantedTypes
  <2>2. Granted(t, duration, reason, condition) \in Nat  BY <2>1, GrantedBounds
  <2>3. QED  BY <2>2 DEF Expiry
<1>2. QED  BY <1>1 DEF ExpiriesOf

(* NoRecord is a record, and Remaining returns one.                        *)
LEMMA NoRecordType == NoRecord \in Record
BY DEF NoRecord, Record, Reason

(* What remains of a record after some of its types are removed is a       *)
(* record.                                                                 *)
LEMMA RemainingType ==
  ASSUME NEW r \in Record, NEW removed
  PROVE  Remaining(r, removed) \in Record
<1> DEFINE end == [t \in AllowType |-> IF t \in removed THEN 0 ELSE r.endTime[t]]
<1>1. end \in [AllowType -> Nat]
  <2>1. ASSUME NEW t \in AllowType PROVE end[t] \in Nat
    BY DEF Record
  <2>2. QED  BY <2>1
<1>2. CASE removed = r.allowType
  BY <1>2, NoRecordType DEF Remaining
<1>3. CASE removed # r.allowType
  <2>1. Remaining(r, removed) =
          [r EXCEPT !.allowType = r.allowType \ removed, !.endTime = end]
    BY <1>3 DEF Remaining, Record
  <2> HIDE DEF end
  <2>2. QED  BY <1>1, <2>1 DEF Record
<1>4. QED  BY <1>2, <1>3

(* The tasks posted after a reload are expiry tasks.                       *)
LEMMA Int32Type ==
  ASSUME NEW x \in Int
  PROVE  Int32(x) \in Int
<1>1. 2 * (IntMax + 1) \in Nat \ {0} /\ IntMax \in Nat
  BY BoundAssumption
<1>2. (x + IntMax + 1) % (2 * (IntMax + 1)) \in Int
  BY <1>1
<1>3. QED  BY <1>1, <1>2 DEF Int32

(* The expiry tasks that a reload posts are tasks.                         *)
LEMMA RecoveredExpiriesType ==
  ASSUME now \in Nat, NEW m \in [Key -> Record], NEW lag \in Nat
  PROVE  RecoveredExpiries(m, lag) \subseteq Expiry
<1>1. ASSUME NEW k \in Key, NEW t \in AllowType
      PROVE  [key |-> k, allowType |-> AllowType,
              due |-> now + RecoveredDelay(m[k].endTime[t], lag)] \in Expiry
  <2>1. m[k].endTime[t] - (now - lag) \in Int
    BY DEF Record
  <2>2. Int32(m[k].endTime[t] - (now - lag)) \in Int
    BY <2>1, Int32Type
  <2>3. RecoveredDelay(m[k].endTime[t], lag) \in Nat
    BY <2>2 DEF Later, RecoveredDelay
  <2>4. QED  BY <2>3 DEF Expiry
<1>2. QED  BY <1>1 DEF RecoveredExpiries

-----------------------------------------------------------------------------
(* Type correctness.                                                       *)

(* UnapplyAllowResInner leaves records, file and subscriber well typed.    *)
LEMMA UnapplyType ==
  ASSUME TypeOK, NEW k \in Key, NEW types \in SUBSET AllowType,
         NEW removeAll \in BOOLEAN,
         UnapplyAllowResInner(k, types, removeAll)
  PROVE  /\ allowInfoMap' \in [Key -> Record]
         /\ file' \in [Key -> Record]
         /\ mirror' \in [Key -> SUBSET AllowType]
<1> DEFINE r == allowInfoMap[k]
           removed == RemovedTypes(r, types, removeAll)
<1>1. r \in Record
  BY DEF TypeOK
<1>2. Remaining(r, removed) \in Record
  BY <1>1, RemainingType
<1>3. CASE UNCHANGED <<allowInfoMap, mirror, file>>
  BY <1>3 DEF TypeOK
<1>4. CASE /\ allowInfoMap' = [allowInfoMap EXCEPT ![k] = Remaining(r, removed)]
           /\ mirror' = [mirror EXCEPT ![k] = @ \ removed]
           /\ DumpPersistantData
  BY <1>2, <1>4 DEF TypeOK, DumpPersistantData
<1>5. QED  BY <1>3, <1>4 DEF UnapplyAllowResInner

(* So does ApplyAllowResInner.                                             *)
LEMMA ApplyType ==
  ASSUME TypeOK, NEW k \in Key, NEW pid \in Pid, NEW types \in SUBSET AllowType,
         NEW duration \in Nat, NEW reason \in Reason, NEW condition \in Condition,
         ApplyAllowResInner(k, pid, types, duration, reason, condition)
  PROVE  /\ allowInfoMap' \in [Key -> Record]
         /\ expiries' \subseteq Expiry
         /\ mirror' \in [Key -> SUBSET AllowType]
<1> DEFINE old == IF allowInfoMap[k] = NoRecord
                  THEN [NoRecord EXCEPT !.pid = pid, !.reasonCode = reason]
                  ELSE [allowInfoMap[k] EXCEPT !.pid = pid]
           new == UpdateRecord(old, types, duration, reason, condition)
<1>1. now \in Nat /\ allowInfoMap[k] \in Record
  BY DEF TypeOK
<1>2. old \in Record
  BY <1>1, NoRecordType DEF Record
<1>3. new \in Record
  BY <1>1, <1>2, UpdateRecordType
<1>4. allowInfoMap' = [allowInfoMap EXCEPT
                         ![k] = IF new.allowType = {} THEN NoRecord ELSE new]
  BY DEF ApplyAllowResInner
<1>5. mirror' = [mirror EXCEPT ![k] = mirror[k] \cup (new.allowType \ old.allowType)]
  BY DEF ApplyAllowResInner, TypeOK
<1>6. expiries' = expiries \cup ExpiriesOf(k, types, duration, reason, condition)
  BY DEF ApplyAllowResInner
<1>7. new.allowType \subseteq AllowType
  BY <1>3 DEF Record
<1> HIDE DEF old, new
<1>8. allowInfoMap' \in [Key -> Record]
  BY <1>3, <1>4, NoRecordType DEF TypeOK
<1>9. expiries' \subseteq Expiry
  BY <1>1, <1>6, ExpiriesOfType DEF TypeOK
<1>10. mirror' \in [Key -> SUBSET AllowType]
  BY <1>5, <1>7 DEF TypeOK
<1>11. QED  BY <1>8, <1>9, <1>10

(* A reload keeps records typed.                                           *)
LEMMA LoadedRecordsType ==
  ASSUME TypeOK, NEW seen
  PROVE  LoadedRecords(seen) \in [Key -> Record]
BY NoRecordType DEF TypeOK, LoadedRecords

(* The first life of the service, with any processes running.              *)
LEMMA InitType == Init => TypeOK
<1> SUFFICES ASSUME Init PROVE TypeOK
  OBVIOUS
<1>1. ready \in BOOLEAN
  BY DEF Init
<1>2. allowInfoMap \in [Key -> Record] /\ file \in [Key -> Record]
  BY NoRecordType DEF Init
<1>3. running \in [Pid -> Key \cup {None}] /\ mirror \in [Key -> SUBSET AllowType]
  BY DEF Init
<1>4. expiries = {} /\ removals = {} /\ purges = {} /\ now = 0 /\ restarts = 0
  BY DEF Init
<1>5. QED  BY <1>1, <1>2, <1>3, <1>4 DEF TypeOK

(* Losing the memory leaves the service well typed.                        *)
LEMMA MemoryLostType ==
  ASSUME MemoryLost
  PROVE  /\ ready' \in BOOLEAN
         /\ allowInfoMap' \in [Key -> Record]
         /\ expiries' \subseteq Expiry /\ removals' \subseteq Removal /\ purges' \subseteq Key
         /\ mirror' \in [Key -> SUBSET AllowType]
<1>1. ready' \in BOOLEAN
  BY DEF MemoryLost
<1>2. allowInfoMap' \in [Key -> Record] /\ mirror' \in [Key -> SUBSET AllowType]
  BY NoRecordType DEF MemoryLost
<1>3. expiries' = {} /\ removals' = {} /\ purges' = {}
  BY DEF MemoryLost
<1>4. QED  BY <1>1, <1>2, <1>3

(* The parameters of a request are typed.                                  *)
LEMMA PermittedTypesType ==
  ASSUME NEW hap, NEW types \in SUBSET AllowType
  PROVE  PermittedTypes(hap, types) \in SUBSET AllowType
BY DEF PermittedTypes

(* Every step of the service, its clients and its clock keeps the type.    *)
LEMMA NextType == TypeOK /\ [Next]_vars => TypeOK'
<1> SUFFICES ASSUME TypeOK, [Next]_vars PROVE TypeOK'
  OBVIOUS
<1>1. ASSUME NEW k \in Key, NEW pid \in Pid, NEW hap \in BOOLEAN,
             NEW types \in SUBSET AllowType, NEW duration \in Duration,
             NEW reason \in Reason, NEW condition \in Condition,
             ApplyAllowResource(k, pid, hap, types, duration, reason, condition)
      PROVE  TypeOK'
  <2>1. duration \in Nat /\ PermittedTypes(hap, types) \in SUBSET AllowType
    BY DurationAssumption, PermittedTypesType
  <2>2. ApplyAllowResInner(k, pid, PermittedTypes(hap, types), duration, reason, condition)
    BY <1>1 DEF ApplyAllowResource
  <2>3. /\ allowInfoMap' \in [Key -> Record]
        /\ expiries' \subseteq Expiry
        /\ mirror' \in [Key -> SUBSET AllowType]
    BY <2>1, <2>2, ApplyType
  <2>4. QED  BY <1>1, <2>3 DEF TypeOK, ApplyAllowResource, DumpPersistantData
<1>2. ASSUME NEW k \in Key, NEW hap \in BOOLEAN, NEW types \in SUBSET AllowType,
             UnapplyAllowResource(k, hap, types)
      PROVE  TypeOK'
  <2>1. PermittedTypes(hap, types) \in SUBSET AllowType
    BY PermittedTypesType
  <2>2. UnapplyAllowResInner(k, PermittedTypes(hap, types), TRUE)
    BY <1>2 DEF UnapplyAllowResource
  <2>3. /\ allowInfoMap' \in [Key -> Record]
        /\ file' \in [Key -> Record]
        /\ mirror' \in [Key -> SUBSET AllowType]
    BY <2>1, <2>2, UnapplyType
  <2>4. QED  BY <1>2, <2>3 DEF TypeOK, UnapplyAllowResource
<1>3. ASSUME NEW types, NEW reason, GetAllowList(types, reason) PROVE TypeOK'
  <2>1. Outdated(types, reason) \subseteq Key  BY DEF Outdated
  <2>2. QED  BY <1>3, <2>1 DEF TypeOK, GetAllowList
<1>4. ASSUME NEW p \in Pid, NEW k \in Key, ProcessStarts(p, k) PROVE TypeOK'
  BY <1>4 DEF TypeOK, ProcessStarts
<1>5. ASSUME NEW p \in Pid, NEW known \in BOOLEAN, NEW ended \in BOOLEAN,
             ProcessDies(p, known, ended)
      PROVE  TypeOK'
  <2>1. running[p] \in Key  BY <1>5 DEF TypeOK, ProcessDies
  <2>2. [key |-> running[p], resetAll |-> FALSE] \in Removal  BY <2>1 DEF Removal
  <2>3. removals' \subseteq Removal  BY <1>5, <2>2 DEF TypeOK, ProcessDies
  <2>4. running' \in [Pid -> Key \cup {None}]  BY <1>5 DEF TypeOK, ProcessDies
  <2>5. QED  BY <1>5, <2>3, <2>4 DEF TypeOK, ProcessDies
<1>6. ASSUME NEW k \in Key, Uninstalled(k) PROVE TypeOK'
  <2>1. [key |-> k, resetAll |-> TRUE] \in Removal  BY DEF Removal
  <2>2. QED  BY <1>6, <2>1 DEF TypeOK, Uninstalled
<1>7. CASE ExpiryTask
  <2>1. PICK e \in expiries :
          /\ UnapplyAllowResInner(e.key, e.allowType, FALSE)
          /\ expiries' = expiries \ {e}
          /\ UNCHANGED <<ready, removals, purges, running, now, restarts>>
    BY <1>7 DEF ExpiryTask
  <2>2. e.key \in Key /\ e.allowType \in SUBSET AllowType
    BY DEF TypeOK, Expiry
  <2>3. /\ allowInfoMap' \in [Key -> Record]
        /\ file' \in [Key -> Record]
        /\ mirror' \in [Key -> SUBSET AllowType]
    BY <2>1, <2>2, UnapplyType
  <2>4. QED  BY <2>1, <2>3 DEF TypeOK
<1>8. CASE RemoveAppAllowRecord
  <2>1. PICK d \in removals :
          /\ IF ready
             THEN UnapplyAllowResInner(d.key, IF d.resetAll THEN AllowType
                                              ELSE AllowType \ KeptType, TRUE)
             ELSE UNCHANGED <<allowInfoMap, mirror, file>>
          /\ removals' = removals \ {d}
          /\ UNCHANGED <<ready, expiries, purges, running, now, restarts>>
    BY <1>8 DEF RemoveAppAllowRecord
  <2>2. d.key \in Key
    BY DEF TypeOK, Removal
  <2>3. /\ allowInfoMap' \in [Key -> Record]
        /\ file' \in [Key -> Record]
        /\ mirror' \in [Key -> SUBSET AllowType]
    <3>1. CASE ready
      BY <2>1, <2>2, <3>1, UnapplyType
    <3>2. CASE ~ ready
      BY <2>1, <3>2 DEF TypeOK
    <3>3. QED  BY <3>1, <3>2
  <2>4. QED  BY <2>1, <2>3 DEF TypeOK
<1>9. CASE PurgeTask
  <2>1. PICK k \in purges, types \in SUBSET AllowType :
          /\ UnapplyAllowResInner(k, types, FALSE)
          /\ purges' = purges \ {k}
          /\ UNCHANGED <<ready, expiries, removals, running, now, restarts>>
    BY <1>9 DEF PurgeTask
  <2>2. k \in Key  BY DEF TypeOK
  <2>3. /\ allowInfoMap' \in [Key -> Record]
        /\ file' \in [Key -> Record]
        /\ mirror' \in [Key -> SUBSET AllowType]
    BY <2>1, <2>2, UnapplyType
  <2>4. QED  BY <2>1, <2>3 DEF TypeOK
<1>10. CASE InitReadyState
  <2>1. PICK seen \in SeenProcesses, lag \in 0..Sooner(now, MaxLag) :
          ParsePersistentData(seen, lag)
    BY <1>10 DEF InitReadyState
  <2>2. lag \in Nat  OBVIOUS
  <2>3. LoadedRecords(seen) \in [Key -> Record]
    BY LoadedRecordsType
  <2>4. RecoveredExpiries(LoadedRecords(seen), lag) \subseteq Expiry
    BY <2>2, <2>3, RecoveredExpiriesType DEF TypeOK
  <2>5. /\ allowInfoMap' \in [Key -> Record]
        /\ file' \in [Key -> Record]
        /\ expiries' \subseteq Expiry
    BY <2>1, <2>3, <2>4 DEF TypeOK, ParsePersistentData, DumpPersistantData
  <2>6. QED  BY <1>10, <2>5 DEF TypeOK, InitReadyState
<1>11. CASE UninitReadyState
  <2>1. ready' \in BOOLEAN  BY <1>11 DEF UninitReadyState
  <2>2. restarts' \in Nat  BY <1>11 DEF TypeOK, UninitReadyState
  <2>3. UNCHANGED <<allowInfoMap, file, expiries, removals, purges, running, mirror, now>>
    BY <1>11 DEF UninitReadyState
  <2>4. QED  BY <2>1, <2>2, <2>3 DEF TypeOK
<1>12. CASE Crash
  <2>1. restarts' \in Nat /\ UNCHANGED <<file, running, now>>
    BY <1>12 DEF TypeOK, Crash
  <2>2. MemoryLost  BY <1>12 DEF Crash
  <2>3. QED  BY <2>1, <2>2, MemoryLostType DEF TypeOK
<1>13. CASE Reboot
  <2>1. restarts' \in Nat /\ now' \in Nat /\ file' = file
    BY <1>13 DEF TypeOK, Reboot
  <2>2. running' \in [Pid -> Key \cup {None}]  BY <1>13 DEF Reboot
  <2>3. MemoryLost  BY <1>13 DEF Reboot
  <2>4. QED  BY <2>1, <2>2, <2>3, MemoryLostType DEF TypeOK
<1>14. CASE Tick
  BY <1>14 DEF TypeOK, Tick
<1>15. CASE UNCHANGED vars
  BY <1>15 DEF TypeOK, vars
<1>16. QED
  BY <1>1, <1>2, <1>3, <1>4, <1>5, <1>6, <1>7, <1>8, <1>9, <1>10, <1>11, <1>12,
     <1>13, <1>14, <1>15 DEF Next, Requests, Applications

(* Requests, tasks, deaths and restarts keep every variable of the service *)
(* in its type: no task or record is made for a key that is no application.*)
THEOREM TypeCorrect == Spec => []TypeOK
BY InitType, NextType, PTL DEF Spec

-----------------------------------------------------------------------------
(* Consistency of the records.                                             *)

(* No record is a consistent one.                                          *)
LEMMA NoRecordConsistent == Consistent(NoRecord)
BY DEF Consistent, NoRecord, Listed

(* The fields of an updated record.                                        *)
LEMMA UpdateRecordFields ==
  ASSUME now \in Nat,
         NEW r \in Record, NEW types \in SUBSET AllowType, NEW duration \in Nat,
         NEW reason \in Reason, NEW condition \in Condition
  PROVE  LET new == UpdateRecord(r, types, duration, reason, condition)
             granted == GrantedTypes(types, duration, reason, condition)
         IN  /\ new.pid = r.pid
             /\ new.allowType = r.allowType \cup granted
             /\ \A t \in AllowType :
                  new.endTime[t] =
                    IF t \in granted
                    THEN Later(r.endTime[t], now + Granted(t, duration, reason, condition))
                    ELSE r.endTime[t]
BY DEF UpdateRecord, Record

(* What is granted ends in the future.                                     *)
LEMMA GrantedTypesPositive ==
  ASSUME NEW types \in SUBSET AllowType, NEW duration \in Nat,
         NEW reason \in Reason, NEW condition \in Condition,
         NEW t \in GrantedTypes(types, duration, reason, condition)
  PROVE  /\ t \in AllowType
         /\ Granted(t, duration, reason, condition) \in Nat
         /\ Granted(t, duration, reason, condition) > 0
         /\ Granted(t, duration, reason, condition) <= duration
<1>1. t \in AllowType /\ Granted(t, duration, reason, condition) > 0
  BY DEF GrantedTypes
<1>2. QED  BY <1>1, GrantedBounds

(* An update keeps a record consistent.                                    *)
LEMMA UpdateRecordConsistent ==
  ASSUME now \in Nat,
         NEW r \in Record, NEW types \in SUBSET AllowType, NEW duration \in Nat,
         NEW reason \in Reason, NEW condition \in Condition,
         r.allowType = Listed(r), r.pid # NoPid
  PROVE  LET new == UpdateRecord(r, types, duration, reason, condition)
         IN  Consistent(IF new.allowType = {} THEN NoRecord ELSE new)
<1> DEFINE new == UpdateRecord(r, types, duration, reason, condition)
           granted == GrantedTypes(types, duration, reason, condition)
<1>1. /\ new.pid = r.pid
      /\ new.allowType = r.allowType \cup granted
      /\ \A t \in AllowType :
           new.endTime[t] =
             IF t \in granted
             THEN Later(r.endTime[t], now + Granted(t, duration, reason, condition))
             ELSE r.endTime[t]
  BY UpdateRecordFields
<1>2. new.allowType = Listed(new)
  <2>1. ASSUME NEW t \in AllowType
        PROVE  t \in new.allowType <=> new.endTime[t] # 0
    <3>1. r.endTime[t] \in Nat  BY DEF Record
    <3>2. CASE t \in granted
      <4>1. /\ Granted(t, duration, reason, condition) \in Nat
            /\ Granted(t, duration, reason, condition) > 0
        BY <3>2, GrantedTypesPositive
      <4>2. Later(r.endTime[t], now + Granted(t, duration, reason, condition)) > 0
        BY <3>1, <4>1 DEF Later
      <4>3. new.endTime[t] > 0  BY <1>1, <3>2, <4>2
      <4>4. t \in new.allowType  BY <1>1, <3>2
      <4>5. new.endTime[t] # 0  BY <4>3
      <4>6. QED  BY <4>4, <4>5
    <3>3. CASE t \notin granted
      <4>1. t \in r.allowType <=> r.endTime[t] # 0  BY DEF Listed
      <4>2. QED  BY <1>1, <3>3, <4>1
    <3>4. QED  BY <3>2, <3>3
  <2>2. new.allowType \subseteq AllowType
    BY <1>1 DEF GrantedTypes, Record
  <2> HIDE DEF new, granted
  <2>3. QED  BY <2>1, <2>2 DEF Listed
<1> HIDE DEF new
<1>3. ASSUME new.allowType # {} PROVE Consistent(new)
  BY <1>1, <1>2, <1>3 DEF Consistent
<1>4. Consistent(IF new.allowType = {} THEN NoRecord ELSE new)
  BY <1>3, NoRecordConsistent
<1>5. QED  BY <1>4 DEF new

(* So does taking out types that it lists.                                 *)
LEMMA RemainingConsistent ==
  ASSUME NEW r \in Record, Consistent(r), r # NoRecord,
         NEW removed \in SUBSET Listed(r)
  PROVE  /\ Consistent(Remaining(r, removed))
         /\ \A t \in AllowType :
              Remaining(r, removed).endTime[t] = IF t \in removed THEN 0 ELSE r.endTime[t]
<1>1. CASE removed = r.allowType
  <2>1. Remaining(r, removed) = NoRecord
    BY <1>1 DEF Remaining
  <2>2. ASSUME NEW t \in AllowType
        PROVE  NoRecord.endTime[t] = IF t \in removed THEN 0 ELSE r.endTime[t]
    BY <1>1 DEF NoRecord, Consistent, Listed
  <2>3. QED  BY <2>1, <2>2, NoRecordConsistent
<1>2. CASE removed # r.allowType
  <2> DEFINE new == Remaining(r, removed)
  <2>1. /\ new.allowType = r.allowType \ removed
        /\ new.pid = r.pid
        /\ \A t \in AllowType : new.endTime[t] = IF t \in removed THEN 0 ELSE r.endTime[t]
    BY <1>2 DEF Remaining, Record
  <2> HIDE DEF new
  <2>2. new.allowType = Listed(new)
    BY <2>1 DEF Listed, Consistent, Record
  <2>3. new.allowType # {}
    BY <1>2, <2>1 DEF Consistent
  <2>4. new.pid # NoPid
    BY <2>1 DEF Consistent
  <2>5. Consistent(new)
    BY <2>2, <2>3, <2>4 DEF Consistent
  <2>6. QED  BY <2>1, <2>5 DEF new
<1>3. QED  BY <1>1, <1>2

(* The end of type t of application j once types of application k are      *)
(* taken out.                                                              *)
ReducedEnd(j, t, k, types, removeAll) ==
  IF j = k /\ t \in types /\ (removeAll \/ now >= allowInfoMap[j].endTime[t])
  THEN 0 ELSE allowInfoMap[j].endTime[t]

(* The end of type t of application j once application k is granted types. *)
ExtendedEnd(j, t, k, types, duration, reason, condition) ==
  IF j = k /\ t \in GrantedTypes(types, duration, reason, condition)
  THEN Later(allowInfoMap[j].endTime[t], now + Granted(t, duration, reason, condition))
  ELSE allowInfoMap[j].endTime[t]

(* What UnapplyAllowResInner does: exactly the types it was called for are *)
(* taken out that have ended, or all of them.                              *)
LEMMA UnapplyEffect ==
  ASSUME TypeOK, RecordsConsistent, NEW k \in Key, NEW types \in SUBSET AllowType,
         NEW removeAll \in BOOLEAN,
         UnapplyAllowResInner(k, types, removeAll)
  PROVE  /\ file' = file \/ file' = allowInfoMap'
         /\ \A j \in Key : Consistent(allowInfoMap'[j])
         /\ \A j \in Key, t \in AllowType :
              allowInfoMap'[j].endTime[t] = ReducedEnd(j, t, k, types, removeAll)
<1> DEFINE r == allowInfoMap[k]
           removed == RemovedTypes(r, types, removeAll)
<1>1. r \in Record /\ Consistent(r)
  BY DEF TypeOK, RecordsConsistent
<1>2. \A t \in AllowType :
        t \in removed <=>
          t \in types /\ r.endTime[t] # 0 /\ (removeAll \/ now >= r.endTime[t])
  BY DEF RemovedTypes, Listed
<1>3. removed \subseteq Listed(r) /\ removed \subseteq types
  BY DEF RemovedTypes
<1>4. CASE /\ r = NoRecord \/ types \cap r.allowType = {} \/ removed = {}
           /\ UNCHANGED <<allowInfoMap, mirror, file>>
  <2>1. removed = {}
    BY <1>1, <1>3, <1>4 DEF Consistent, NoRecord, Listed
  <2>2. ASSUME NEW t \in types, removeAll \/ now >= r.endTime[t]
        PROVE  r.endTime[t] = 0
    BY <1>2, <2>1, <2>2
  <2>3. QED  BY <1>4, <2>2 DEF RecordsConsistent, ReducedEnd
<1>5. CASE /\ ~ (r = NoRecord \/ types \cap r.allowType = {} \/ removed = {})
           /\ allowInfoMap' = [allowInfoMap EXCEPT ![k] = Remaining(r, removed)]
           /\ mirror' = [mirror EXCEPT ![k] = @ \ removed]
           /\ DumpPersistantData
  <2>1. /\ Consistent(Remaining(r, removed))
        /\ \A t \in AllowType :
             Remaining(r, removed).endTime[t] = IF t \in removed THEN 0 ELSE r.endTime[t]
    BY <1>1, <1>3, <1>5, RemainingConsistent
  <2> HIDE DEF removed
  <2>2. allowInfoMap'[k] = Remaining(r, removed)
    BY <1>5 DEF TypeOK
  <2>3. \A j \in Key : j # k => allowInfoMap'[j] = allowInfoMap[j]
    BY <1>5 DEF TypeOK
  <2>4. \A j \in Key : Consistent(allowInfoMap'[j])
    BY <2>1, <2>2, <2>3 DEF RecordsConsistent
  <2>5. ASSUME NEW t \in AllowType
        PROVE  allowInfoMap'[k].endTime[t] =
                 IF t \in types /\ (removeAll \/ now >= r.endTime[t])
                 THEN 0 ELSE r.endTime[t]
    BY <1>2, <2>1, <2>2
  <2>6. QED  BY <1>5, <2>3, <2>4, <2>5 DEF DumpPersistantData, ReducedEnd
<1>6. QED  BY <1>4, <1>5 DEF UnapplyAllowResInner

(* What ApplyAllowResInner does: each granted type ends at the later of    *)
(* its old and its new end, and nothing else changes.                      *)
LEMMA ApplyEffect ==
  ASSUME TypeOK, RecordsConsistent, NEW k \in Key, NEW pid \in Pid,
         NEW types \in SUBSET AllowType, NEW duration \in Nat,
         NEW reason \in Reason, NEW condition \in Condition,
         ApplyAllowResInner(k, pid, types, duration, reason, condition)
  PROVE  /\ \A j \in Key : Consistent(allowInfoMap'[j])
         /\ \A j \in Key, t \in AllowType :
              allowInfoMap'[j].endTime[t] =
                ExtendedEnd(j, t, k, types, duration, reason, condition)
<1> DEFINE old == IF allowInfoMap[k] = NoRecord
                  THEN [NoRecord EXCEPT !.pid = pid, !.reasonCode = reason]
                  ELSE [allowInfoMap[k] EXCEPT !.pid = pid]
           new == UpdateRecord(old, types, duration, reason, condition)
           granted == GrantedTypes(types, duration, reason, condition)
<1>1. now \in Nat /\ allowInfoMap[k] \in Record /\ Consistent(allowInfoMap[k])
  BY DEF TypeOK, RecordsConsistent
<1>2. /\ old \in Record
      /\ old.pid = pid
      /\ old.allowType = allowInfoMap[k].allowType
      /\ old.endTime = allowInfoMap[k].endTime
  BY <1>1, NoRecordType DEF Record
<1>3. old.allowType = Listed(old) /\ old.pid # NoPid
  BY <1>1, <1>2, PidAssumption DEF Consistent, Listed
<1>4. allowInfoMap' = [allowInfoMap EXCEPT
                         ![k] = IF new.allowType = {} THEN NoRecord ELSE new]
  BY DEF ApplyAllowResInner
<1> HIDE DEF old
<1>5. Consistent(IF new.allowType = {} THEN NoRecord ELSE new)
  BY <1>1, <1>2, <1>3, UpdateRecordConsistent
<1>6. /\ new.allowType = old.allowType \cup granted
      /\ \A t \in AllowType :
           new.endTime[t] =
             IF t \in granted
             THEN Later(old.endTime[t], now + Granted(t, duration, reason, condition))
             ELSE old.endTime[t]
  BY <1>1, <1>2, UpdateRecordFields
<1> HIDE DEF new, granted
<1>7. /\ allowInfoMap'[k] = IF new.allowType = {} THEN NoRecord ELSE new
      /\ \A j \in Key : j # k => allowInfoMap'[j] = allowInfoMap[j]
  BY <1>4 DEF TypeOK
<1>8. \A j \in Key : Consistent(allowInfoMap'[j])
  BY <1>5, <1>7 DEF RecordsConsistent
<1>9. ASSUME NEW t \in AllowType
      PROVE  allowInfoMap'[k].endTime[t] =
               IF t \in granted
               THEN Later(allowInfoMap[k].endTime[t],
                          now + Granted(t, duration, reason, condition))
               ELSE allowInfoMap[k].endTime[t]
  <2>1. CASE new.allowType = {}
    <3>1. t \notin granted /\ t \notin old.allowType  BY <1>6, <2>1
    <3>2. old.endTime[t] = 0  BY <1>3, <3>1 DEF Listed
    <3>3. allowInfoMap'[k].endTime[t] = 0  BY <1>7, <2>1 DEF NoRecord
    <3>4. QED  BY <1>2, <3>1, <3>2, <3>3
  <2>2. CASE new.allowType # {}
    BY <1>2, <1>6, <1>7, <2>2
  <2>3. QED  BY <2>1, <2>2
<1>10. QED  BY <1>7, <1>8, <1>9 DEF granted, ExtendedEnd

-----------------------------------------------------------------------------
(* For the list itself there are five kinds of steps.                      *)

(* A request extends a record.                                             *)
Extends ==
  \E k \in Key, pid \in Pid, types \in SUBSET AllowType, duration \in Nat,
     reason \in Reason, condition \in Condition :
    /\ ApplyAllowResInner(k, pid, types, duration, reason, condition)
    /\ now + duration <= MaxTime
    /\ file' = allowInfoMap' /\ now' = now
    /\ ready /\ UNCHANGED <<ready, restarts>>

(* A release, a death, a purge, or the expiry task e takes types out.      *)
Shrinks ==
  \E k \in Key, types \in SUBSET AllowType, removeAll \in BOOLEAN :
    /\ UnapplyAllowResInner(k, types, removeAll)
    /\ removeAll => Released(k)
    /\ \/ expiries' = expiries
       \/ \E e \in expiries : /\ e.key = k /\ e.allowType = types /\ e.due <= now
                             /\ expiries' = expiries \ {e}
    /\ now' = now /\ UNCHANGED <<ready, restarts>>

(* The service becomes ready and reads its file.                           *)
Reloads ==
  \E seen \in SeenProcesses, lag \in 0..Sooner(now, MaxLag) :
    /\ ParsePersistentData(seen, lag)
    /\ ~ready /\ ready' = TRUE /\ now' = now /\ UNCHANGED <<mirror, restarts>>

(* A crash, or a reboot of the device.                                     *)
Forgets ==
  /\ MemoryLost /\ file' = file
  /\ restarts' = restarts + 1
  /\ now' = now \/ now' = 0

(* Nothing happens to the list, but time may pass.                         *)
Keeps ==
  /\ UNCHANGED <<allowInfoMap, file, expiries, mirror>>
  /\ UNCHANGED <<ready, restarts>> \/ restarts' = restarts + 1
  /\ now' = now \/ (now < MaxTime + MaxLag /\ now' = now + 1)

(* Each step is of one of the five kinds.                                  *)
LEMMA StepKinds ==
  ASSUME TypeOK, [Next]_vars
  PROVE  Extends \/ Shrinks \/ Reloads \/ Forgets \/ Keeps
<1>1. ASSUME NEW k \in Key, NEW pid \in Pid, NEW hap \in BOOLEAN,
             NEW types \in SUBSET AllowType, NEW duration \in Duration,
             NEW reason \in Reason, NEW condition \in Condition,
             ApplyAllowResource(k, pid, hap, types, duration, reason, condition)
      PROVE  Extends
  <2>1. duration \in Nat /\ PermittedTypes(hap, types) \in SUBSET AllowType
    BY DurationAssumption, PermittedTypesType
  <2>2. /\ ApplyAllowResInner(k, pid, PermittedTypes(hap, types), duration, reason, condition)
        /\ now + duration <= MaxTime
        /\ file' = allowInfoMap' /\ now' = now
        /\ ready /\ UNCHANGED <<ready, restarts>>
    BY <1>1 DEF ApplyAllowResource, DumpPersistantData
  <2>3. QED  BY <2>1, <2>2 DEF Extends
<1>2. ASSUME NEW k \in Key, NEW hap \in BOOLEAN, NEW types \in SUBSET AllowType,
             UnapplyAllowResource(k, hap, types)
      PROVE  Shrinks
  <2>1. PermittedTypes(hap, types) \in SUBSET AllowType
    BY PermittedTypesType
  <2>2. Released(k)
    BY <1>2 DEF Released
  <2>3. /\ UnapplyAllowResInner(k, PermittedTypes(hap, types), TRUE)
        /\ expiries' = expiries /\ now' = now /\ UNCHANGED <<ready, restarts>>
    BY <1>2 DEF UnapplyAllowResource
  <2>4. QED  BY <2>1, <2>2, <2>3 DEF Shrinks
<1>3. ASSUME NEW types, NEW reason, GetAllowList(types, reason) PROVE Keeps
  BY <1>3 DEF GetAllowList, Keeps
<1>4. ASSUME NEW p, NEW k, ProcessStarts(p, k) PROVE Keeps
  BY <1>4 DEF ProcessStarts, Keeps
<1>5. ASSUME NEW p, NEW known, NEW ended, ProcessDies(p, known, ended) PROVE Keeps
  BY <1>5 DEF ProcessDies, Keeps
<1>6. ASSUME NEW k, Uninstalled(k) PROVE Keeps
  BY <1>6 DEF Uninstalled, Keeps
<1>7. CASE ExpiryTask
  <2>1. PICK e \in expiries :
          /\ e.due <= now
          /\ UnapplyAllowResInner(e.key, e.allowType, FALSE)
          /\ expiries' = expiries \ {e}
          /\ now' = now /\ UNCHANGED <<ready, restarts>>
    BY <1>7 DEF ExpiryTask
  <2>2. e.key \in Key /\ e.allowType \in SUBSET AllowType
    BY DEF TypeOK, Expiry
  <2>3. QED  BY <2>1, <2>2 DEF Shrinks
<1>8. CASE RemoveAppAllowRecord
  <2>1. PICK d \in removals :
          /\ IF ready
             THEN UnapplyAllowResInner(d.key, IF d.resetAll THEN AllowType
                                              ELSE AllowType \ KeptType, TRUE)
             ELSE UNCHANGED <<allowInfoMap, mirror, file>>
          /\ removals' = removals \ {d}
          /\ UNCHANGED <<ready, expiries, purges, running, now, restarts>>
    BY <1>8 DEF RemoveAppAllowRecord
  <2>2. d.key \in Key
    BY DEF TypeOK, Removal
  <2>3. CASE ready
    <3>1. Released(d.key)
      BY <2>1 DEF Released
    <3>2. QED  BY <2>1, <2>2, <2>3, <3>1 DEF Shrinks
  <2>4. CASE ~ ready
    BY <2>1, <2>4 DEF Keeps
  <2>5. QED  BY <2>3, <2>4
<1>9. CASE PurgeTask
  <2>1. PICK k \in purges, types \in SUBSET AllowType :
          /\ UnapplyAllowResInner(k, types, FALSE)
          /\ expiries' = expiries /\ now' = now /\ UNCHANGED <<ready, restarts>>
    BY <1>9 DEF PurgeTask
  <2>2. k \in Key  BY DEF TypeOK
  <2>3. QED  BY <2>1, <2>2 DEF Shrinks
<1>10. CASE InitReadyState
  <2>1. ~ready /\ ready' = TRUE /\ now' = now /\ UNCHANGED <<mirror, restarts>>
    BY <1>10 DEF InitReadyState
  <2>2. QED  BY <1>10, <2>1 DEF InitReadyState, Reloads
<1>11. CASE UninitReadyState
  BY <1>11 DEF UninitReadyState, Keeps
<1>12. CASE Crash
  BY <1>12 DEF Crash, Forgets, TypeOK
<1>13. CASE Reboot
  BY <1>13 DEF Reboot, Forgets, TypeOK
<1>14. CASE Tick
  BY <1>14 DEF Tick, Keeps
<1>15. CASE UNCHANGED vars
  BY <1>15 DEF vars, Keeps
<1>16. QED
  BY <1>1, <1>2, <1>3, <1>4, <1>5, <1>6, <1>7, <1>8, <1>9, <1>10, <1>11, <1>12,
     <1>13, <1>14, <1>15 DEF Next, Requests, Applications

(* A reload takes each record from memory or from the file, or drops it.   *)
LEMMA LoadedRecordsFrom ==
  ASSUME NEW seen, NEW k \in Key
  PROVE  LoadedRecords(seen)[k] \in {allowInfoMap[k], file[k], NoRecord}
BY DEF LoadedRecords

(* Nobody is exempted at first.                                            *)
LEMMA RecordsConsistentInit == Init => RecordsConsistent
BY NoRecordConsistent DEF Init, RecordsConsistent

(* Each kind of step keeps the records consistent.                         *)
LEMMA RecordsConsistentStep ==
  ASSUME TypeOK, RecordsConsistent, [Next]_vars
  PROVE  RecordsConsistent'
<1>1. CASE Extends
  <2>1. \A j \in Key : Consistent(allowInfoMap'[j])
    BY <1>1, ApplyEffect DEF Extends
  <2>2. file' = allowInfoMap'
    BY <1>1 DEF Extends
  <2>3. QED  BY <2>1, <2>2 DEF RecordsConsistent
<1>2. CASE Shrinks
  <2>1. /\ file' = file \/ file' = allowInfoMap'
        /\ \A j \in Key : Consistent(allowInfoMap'[j])
    BY <1>2, UnapplyEffect DEF Shrinks
  <2>2. QED  BY <2>1 DEF RecordsConsistent
<1>3. CASE Reloads
  <2>1. PICK seen : \/ UNCHANGED <<allowInfoMap, file>>
                    \/ allowInfoMap' = LoadedRecords(seen) /\ file' = allowInfoMap'
    BY <1>3 DEF Reloads, ParsePersistentData, DumpPersistantData
  <2>2. \A k \in Key : Consistent(LoadedRecords(seen)[k])
    BY LoadedRecordsFrom, NoRecordConsistent DEF RecordsConsistent
  <2>3. QED  BY <2>1, <2>2 DEF RecordsConsistent
<1>4. CASE Forgets
  <2>1. \A k \in Key : allowInfoMap'[k] = NoRecord
    BY <1>4 DEF Forgets, MemoryLost
  <2>2. file' = file
    BY <1>4 DEF Forgets
  <2>3. QED  BY <2>1, <2>2, NoRecordConsistent DEF RecordsConsistent
<1>5. CASE Keeps
  BY <1>5 DEF Keeps, RecordsConsistent
<1>6. QED  BY <1>1, <1>2, <1>3, <1>4, <1>5, StepKinds

(* allowType_ and allowTimeList_ agree in every record and in the file, in *)
(* every reachable state: the mask arithmetic of UnapplyAllowResInner is   *)
(* sound, for any configuration of limits and exempted resources.          *)
THEOREM ConsistencyHolds == Spec => []RecordsConsistent
<1>1. TypeOK /\ RecordsConsistent /\ [Next]_vars => RecordsConsistent'
  BY RecordsConsistentStep
<1>2. QED  BY <1>1, RecordsConsistentInit, TypeCorrect, PTL DEF Spec

-----------------------------------------------------------------------------
(* Exemptions are kept.                                                    *)

(* No step ends an exemption early.                                        *)
LEMMA ExemptionsKeptStep ==
  ASSUME TypeOK, RecordsConsistent, [Next]_vars,
         NEW k \in Key, NEW t \in AllowType,
         allowInfoMap'[k].endTime[t] < allowInfoMap[k].endTime[t]
  PROVE  /\ allowInfoMap'[k].endTime[t] = 0
         /\ allowInfoMap[k].endTime[t] <= now \/ Released(k)
<1> DEFINE end == allowInfoMap[k].endTime[t]
<1>1. end \in Nat /\ now \in Nat /\ allowInfoMap'[k].endTime[t] \in Nat
  BY NextType DEF TypeOK, Record
<1>2. CASE Extends
  <2>1. PICK j \in Key, pid \in Pid, types \in SUBSET AllowType, duration \in Nat,
             reason \in Reason, condition \in Condition :
          ApplyAllowResInner(j, pid, types, duration, reason, condition)
    BY <1>2 DEF Extends
  <2>2. allowInfoMap'[k].endTime[t] =
          ExtendedEnd(k, t, j, types, duration, reason, condition)
    BY <2>1, ApplyEffect
  <2>3. Granted(t, duration, reason, condition) \in Nat
    BY GrantedBounds
  <2>4. Later(end, now + Granted(t, duration, reason, condition)) >= end
    BY <1>1, <2>3 DEF Later
  <2>5. allowInfoMap'[k].endTime[t] >= end
    BY <1>1, <2>2, <2>4 DEF ExtendedEnd
  <2>6. QED  BY <1>1, <2>5
<1>3. CASE Shrinks
  <2>1. PICK j \in Key, types \in SUBSET AllowType, removeAll \in BOOLEAN :
          /\ UnapplyAllowResInner(j, types, removeAll)
          /\ removeAll => Released(j)
    BY <1>3 DEF Shrinks
  <2>2. allowInfoMap'[k].endTime[t] = ReducedEnd(k, t, j, types, removeAll)
    BY <2>1, UnapplyEffect
  <2>3. k = j /\ (removeAll \/ now >= end) /\ allowInfoMap'[k].endTime[t] = 0
    BY <1>1, <2>2 DEF ReducedEnd
  <2>4. QED  BY <1>1, <2>1, <2>3
<1>4. CASE Reloads
  <2>1. ready' # ready
    BY <1>4 DEF Reloads
  <2>2. Released(k)
    BY <2>1 DEF Released
  <2>3. PICK seen : \/ allowInfoMap' = allowInfoMap
                    \/ allowInfoMap' = LoadedRecords(seen)
    BY <1>4 DEF Reloads, ParsePersistentData
  <2>4. allowInfoMap[k] # NoRecord
    BY <1>1 DEF NoRecord
  <2>5. LoadedRecords(seen)[k] \in {allowInfoMap[k], NoRecord}
    BY <2>4 DEF LoadedRecords
  <2>6. allowInfoMap'[k] = NoRecord
    BY <1>1, <2>3, <2>5
  <2>7. QED  BY <2>2, <2>6 DEF NoRecord
<1>5. CASE Forgets
  <2>1. Released(k)
    BY <1>5 DEF Forgets, Released, TypeOK
  <2>2. allowInfoMap'[k] = NoRecord
    BY <1>5 DEF Forgets, MemoryLost
  <2>3. QED  BY <2>1, <2>2 DEF NoRecord
<1>6. CASE Keeps
  BY <1>1, <1>6 DEF Keeps
<1>7. QED  BY <1>2, <1>3, <1>4, <1>5, <1>6, StepKinds

(* No step of any thread shortens an exemption before its end, unless the  *)
(* application, its death or a restart asks for it: an expiry task of an   *)
(* earlier request, or a purge, never takes out an extended exemption.     *)
THEOREM ExemptionsKeptHolds == Spec => ExemptionsKept
<1>1. TypeOK /\ RecordsConsistent /\ [Next]_vars =>
        [\A k \in Key, t \in AllowType :
           allowInfoMap'[k].endTime[t] < allowInfoMap[k].endTime[t] =>
             /\ allowInfoMap'[k].endTime[t] = 0
             /\ allowInfoMap[k].endTime[t] <= now \/ Released(k)]_vars
  BY ExemptionsKeptStep
<1>2. QED  BY <1>1, TypeCorrect, ConsistencyHolds, PTL DEF Spec, ExemptionsKept

-----------------------------------------------------------------------------
(* Subscribers hear of every change.                                       *)

(* Before the service is ready for the first time there are no records, in *)
(* memory or in the file.                                                  *)
FreshIsEmpty ==
  restarts = 0 /\ ~ready => \A k \in Key : allowInfoMap[k] = NoRecord /\ file[k] = NoRecord

(* ApplyAllowResInner changes one record and reports exactly the types it  *)
(* adds.                                                                   *)
LEMMA ApplyTells ==
  ASSUME TypeOK, NEW k \in Key, NEW pid \in Pid,
         NEW types \in SUBSET AllowType, NEW duration \in Nat,
         NEW reason \in Reason, NEW condition \in Condition,
         ApplyAllowResInner(k, pid, types, duration, reason, condition)
  PROVE  /\ allowInfoMap[k].allowType \subseteq allowInfoMap'[k].allowType
         /\ mirror'[k] = mirror[k] \cup (allowInfoMap'[k].allowType \ allowInfoMap[k].allowType)
         /\ \A j \in Key \ {k} : mirror'[j] = mirror[j] /\ allowInfoMap'[j] = allowInfoMap[j]
<1> DEFINE old == IF allowInfoMap[k] = NoRecord
                  THEN [NoRecord EXCEPT !.pid = pid, !.reasonCode = reason]
                  ELSE [allowInfoMap[k] EXCEPT !.pid = pid]
           new == UpdateRecord(old, types, duration, reason, condition)
           kept == IF new.allowType = {} THEN NoRecord ELSE new
<1>1. now \in Nat /\ allowInfoMap[k] \in Record
  BY DEF TypeOK
<1>2. old \in Record /\ old.allowType = allowInfoMap[k].allowType
  BY <1>1, NoRecordType DEF Record
<1>3. /\ allowInfoMap' = [allowInfoMap EXCEPT ![k] = kept]
      /\ mirror' = [mirror EXCEPT ![k] = @ \cup (new.allowType \ old.allowType)]
  BY DEF ApplyAllowResInner
<1> HIDE DEF old
<1>4. new.allowType = old.allowType \cup GrantedTypes(types, duration, reason, condition)
  BY <1>1, <1>2, UpdateRecordFields
<1> HIDE DEF new
<1>5. kept.allowType = new.allowType
  BY DEF NoRecord
<1> HIDE DEF kept
<1>6. allowInfoMap'[k].allowType = new.allowType
  BY <1>3, <1>5 DEF TypeOK
<1>7. mirror'[k] = mirror[k] \cup (new.allowType \ old.allowType)
  BY <1>3 DEF TypeOK
<1>8. \A j \in Key \ {k} : mirror'[j] = mirror[j] /\ allowInfoMap'[j] = allowInfoMap[j]
  BY <1>3 DEF TypeOK
<1>9. QED  BY <1>2, <1>4, <1>6, <1>7, <1>8

(* Some types are taken out of the record of k, and nothing else.          *)
TakesOut(k, removed) ==
  /\ removed # {} /\ allowInfoMap[k] # NoRecord
  /\ file' = allowInfoMap'
  /\ allowInfoMap'[k] = Remaining(allowInfoMap[k], removed)
  /\ allowInfoMap'[k].allowType = allowInfoMap[k].allowType \ removed
  /\ mirror'[k] = mirror[k] \ removed
  /\ \A j \in Key \ {k} : mirror'[j] = mirror[j] /\ allowInfoMap'[j] = allowInfoMap[j]

(* UnapplyAllowResInner changes nothing, or takes some types out of one    *)
(* record, saves the records and reports just these types.                 *)
LEMMA UnapplyTells ==
  ASSUME TypeOK, NEW k \in Key,
         NEW types \in SUBSET AllowType, NEW removeAll \in BOOLEAN,
         UnapplyAllowResInner(k, types, removeAll)
  PROVE  \/ UNCHANGED <<allowInfoMap, mirror, file>>
         \/ TakesOut(k, RemovedTypes(allowInfoMap[k], types, removeAll))
<1> DEFINE r == allowInfoMap[k]
           removed == RemovedTypes(r, types, removeAll)
<1>1. CASE UNCHANGED <<allowInfoMap, mirror, file>>
  BY <1>1
<1>2. CASE /\ r # NoRecord /\ removed # {}
           /\ allowInfoMap' = [allowInfoMap EXCEPT ![k] = Remaining(r, removed)]
           /\ mirror' = [mirror EXCEPT ![k] = @ \ removed]
           /\ file' = allowInfoMap'
  <2>1. r \in Record
    BY DEF TypeOK
  <2> HIDE DEF removed
  <2>2. Remaining(r, removed).allowType = r.allowType \ removed
    BY <2>1 DEF Remaining, NoRecord, Record
  <2>3. allowInfoMap'[k] = Remaining(r, removed) /\ mirror'[k] = mirror[k] \ removed
    BY <1>2 DEF TypeOK
  <2>4. \A j \in Key \ {k} : mirror'[j] = mirror[j] /\ allowInfoMap'[j] = allowInfoMap[j]
    BY <1>2 DEF TypeOK
  <2>5. TakesOut(k, removed)
    BY <1>2, <2>2, <2>3, <2>4 DEF TakesOut
  <2>6. QED  BY <2>5 DEF removed
<1>3. QED  BY <1>1, <1>2 DEF UnapplyAllowResInner, DumpPersistantData

(* Hence a request keeps the subscribers right.                            *)
LEMMA ApplyReports ==
  ASSUME TypeOK, SubscribersAgree, NEW k \in Key, NEW pid \in Pid,
         NEW types \in SUBSET AllowType, NEW duration \in Nat,
         NEW reason \in Reason, NEW condition \in Condition,
         ApplyAllowResInner(k, pid, types, duration, reason, condition)
  PROVE  SubscribersAgree'
BY ApplyTells DEF SubscribersAgree

(* So does everything that takes types out.                                *)
LEMMA UnapplyReports ==
  ASSUME TypeOK, SubscribersAgree, NEW k \in Key,
         NEW types \in SUBSET AllowType, NEW removeAll \in BOOLEAN,
         UnapplyAllowResInner(k, types, removeAll)
  PROVE  SubscribersAgree'
<1>1. CASE UNCHANGED <<allowInfoMap, mirror, file>>
  BY <1>1 DEF SubscribersAgree
<1>2. ASSUME NEW removed, TakesOut(k, removed) PROVE SubscribersAgree'
  BY <1>2 DEF TakesOut, SubscribersAgree
<1>3. QED  BY <1>1, <1>2, UnapplyTells

(* Nothing can be taken out of records that do not exist.                  *)
LEMMA UnapplyNothing ==
  ASSUME NEW k \in Key, NEW types, NEW removeAll,
         \A j \in Key : allowInfoMap[j] = NoRecord,
         UnapplyAllowResInner(k, types, removeAll)
  PROVE  UNCHANGED <<allowInfoMap, file>>
BY DEF UnapplyAllowResInner

(* A step of one life of the service tells the subscribers what it         *)
(* changes.                                                                *)
LEMMA AgreeStep ==
  ASSUME TypeOK, RecordsConsistent, FreshIsEmpty, SubscribersAgreeInOneLife, [Next]_vars
  PROVE  FreshIsEmpty' /\ SubscribersAgreeInOneLife'
<1>1. restarts \in Nat
  BY DEF TypeOK
<1>2. CASE Extends
  <2>1. ready /\ UNCHANGED <<ready, restarts>>
    BY <1>2 DEF Extends
  <2>2. ASSUME restarts = 0 PROVE SubscribersAgree'
    BY <1>2, <2>2, ApplyReports DEF Extends, SubscribersAgreeInOneLife
  <2>3. QED  BY <2>1, <2>2 DEF FreshIsEmpty, SubscribersAgreeInOneLife
<1>3. CASE Shrinks
  <2>1. UNCHANGED <<ready, restarts>>
    BY <1>3 DEF Shrinks
  <2>2. ASSUME restarts = 0 PROVE SubscribersAgree'
    BY <1>3, <2>2, UnapplyReports DEF Shrinks, SubscribersAgreeInOneLife
  <2>3. FreshIsEmpty'
    BY <1>3, <2>1, UnapplyNothing DEF Shrinks, FreshIsEmpty
  <2>4. QED  BY <2>1, <2>2, <2>3 DEF SubscribersAgreeInOneLife
<1>4. CASE Reloads
  <2>1. ~ready /\ ready' = TRUE /\ UNCHANGED <<mirror, restarts>>
    BY <1>4 DEF Reloads
  <2>2. PICK seen : allowInfoMap' = allowInfoMap \/ allowInfoMap' = LoadedRecords(seen)
    BY <1>4 DEF Reloads, ParsePersistentData
  <2>3. ASSUME restarts = 0, NEW k \in Key PROVE mirror'[k] = allowInfoMap'[k].allowType
    <3>1. allowInfoMap[k] = NoRecord /\ file[k] = NoRecord
      BY <2>1, <2>3 DEF FreshIsEmpty
    <3>2. LoadedRecords(seen)[k] = NoRecord
      BY <3>1, LoadedRecordsFrom
    <3>3. allowInfoMap'[k] = allowInfoMap[k]
      BY <2>2, <3>1, <3>2
    <3>4. QED  BY <2>1, <2>3, <3>3 DEF SubscribersAgreeInOneLife, SubscribersAgree
  <2>4. QED  BY <2>1, <2>3 DEF FreshIsEmpty, SubscribersAgreeInOneLife, SubscribersAgree
<1>5. CASE Forgets
  BY <1>1, <1>5 DEF Forgets, FreshIsEmpty, SubscribersAgreeInOneLife
<1>6. CASE Keeps
  <2>1. UNCHANGED <<allowInfoMap, file, mirror>>
    BY <1>6 DEF Keeps
  <2>2. CASE UNCHANGED <<ready, restarts>>
    BY <2>1, <2>2 DEF FreshIsEmpty, SubscribersAgreeInOneLife, SubscribersAgree
  <2>3. CASE restarts' = restarts + 1
    BY <1>1, <2>3 DEF FreshIsEmpty, SubscribersAgreeInOneLife
  <2>4. QED  BY <1>6, <2>2, <2>3 DEF Keeps
<1>7. QED  BY <1>2, <1>3, <1>4, <1>5, <1>6, StepKinds

(* Until the first restart a subscriber that listens from the start knows  *)
(* exactly which types are exempt: every path that changes a record calls  *)
(* back with just the types it added or took out.                          *)
THEOREM SubscribersAgreeHolds == Spec => []SubscribersAgreeInOneLife
<1>1. Init => FreshIsEmpty /\ SubscribersAgreeInOneLife
  BY DEF Init, FreshIsEmpty, SubscribersAgreeInOneLife, SubscribersAgree, NoRecord
<1>2. TypeOK /\ RecordsConsistent /\ FreshIsEmpty /\ SubscribersAgreeInOneLife /\ [Next]_vars
        => FreshIsEmpty' /\ SubscribersAgreeInOneLife'
  BY AgreeStep
<1>3. QED  BY <1>1, <1>2, TypeCorrect, ConsistencyHolds, PTL DEF Spec

-----------------------------------------------------------------------------
(* No exemption is without its expiry task.                                *)

(* No exemption, in memory or in the file, ends after MaxTime, and the     *)
(* clock stops at its bound: the remaining time fits int32_t when          *)
(* MaxTime + MaxLag does.                                                  *)
EndsInTime ==
  /\ now <= MaxTime + MaxLag
  /\ \A k \in Key, t \in AllowType :
       allowInfoMap[k].endTime[t] <= MaxTime /\ file[k].endTime[t] <= MaxTime

(* There is no end at first.                                               *)
LEMMA EndsInTimeInit == Init => EndsInTime
BY BoundAssumption DEF Init, EndsInTime, NoRecord

(* A request sets an end within the longest duration, and no other step    *)
(* sets a later one.                                                       *)
LEMMA EndsInTimeStep ==
  ASSUME TypeOK, RecordsConsistent, EndsInTime, [Next]_vars
  PROVE  EndsInTime'
<1>1. now \in Nat /\ MaxTime \in Nat /\ MaxLag \in Nat
  BY BoundAssumption DEF TypeOK
<1>2. ASSUME NEW k \in Key, NEW t \in AllowType
      PROVE  allowInfoMap[k].endTime[t] \in Nat /\ file[k].endTime[t] \in Nat
  BY DEF TypeOK, Record
<1>3. CASE Extends
  <2>1. PICK j \in Key, pid \in Pid, types \in SUBSET AllowType, duration \in Nat,
             reason \in Reason, condition \in Condition :
          /\ ApplyAllowResInner(j, pid, types, duration, reason, condition)
          /\ now + duration <= MaxTime
          /\ file' = allowInfoMap' /\ now' = now
    BY <1>3 DEF Extends
  <2>2. ApplyAllowResInner(j, pid, types, duration, reason, condition)
    BY <2>1
  <2>3. ASSUME NEW k \in Key, NEW t \in AllowType
        PROVE  allowInfoMap'[k].endTime[t] <= MaxTime
    <3>1. allowInfoMap'[k].endTime[t] =
            ExtendedEnd(k, t, j, types, duration, reason, condition)
      BY <2>2, ApplyEffect
    <3>2. /\ Granted(t, duration, reason, condition) \in Nat
          /\ Granted(t, duration, reason, condition) <= duration
      BY GrantedBounds
    <3>3. now + Granted(t, duration, reason, condition) <= MaxTime
      BY <1>1, <2>1, <3>2
    <3>4. allowInfoMap[k].endTime[t] <= MaxTime
      BY DEF EndsInTime
    <3>5. Later(allowInfoMap[k].endTime[t],
                now + Granted(t, duration, reason, condition)) <= MaxTime
      BY <1>1, <1>2, <3>2, <3>3, <3>4 DEF Later
    <3>6. QED  BY <3>1, <3>4, <3>5 DEF ExtendedEnd
  <2>4. QED  BY <2>1, <2>3 DEF EndsInTime
<1>4. CASE Shrinks
  <2>1. PICK j \in Key, types \in SUBSET AllowType, removeAll \in BOOLEAN :
          UnapplyAllowResInner(j, types, removeAll) /\ now' = now
    BY <1>4 DEF Shrinks
  <2>2. UnapplyAllowResInner(j, types, removeAll)
    BY <2>1
  <2>3. /\ file' = file \/ file' = allowInfoMap'
        /\ \A k \in Key, t \in AllowType :
             allowInfoMap'[k].endTime[t] = ReducedEnd(k, t, j, types, removeAll)
    BY <2>2, UnapplyEffect
  <2>4. ASSUME NEW k \in Key, NEW t \in AllowType
        PROVE  allowInfoMap'[k].endTime[t] <= MaxTime
    <3>1. allowInfoMap'[k].endTime[t] \in {0, allowInfoMap[k].endTime[t]}
      BY <2>3 DEF ReducedEnd
    <3>2. QED  BY <1>1, <3>1 DEF EndsInTime
  <2>5. file' = file \/ file' = allowInfoMap'
    BY <2>3
  <2>6. QED  BY <2>1, <2>4, <2>5 DEF EndsInTime
<1>5. CASE Reloads
  <2>1. PICK seen : \/ UNCHANGED <<allowInfoMap, file, now>>
                    \/ /\ allowInfoMap' = LoadedRecords(seen) /\ file' = allowInfoMap'
                       /\ now' = now
    BY <1>5 DEF Reloads, ParsePersistentData, DumpPersistantData
  <2>2. ASSUME NEW k \in Key, NEW t \in AllowType
        PROVE  LoadedRecords(seen)[k].endTime[t] <= MaxTime
    <3>1. LoadedRecords(seen)[k] \in {allowInfoMap[k], file[k], NoRecord}
      BY LoadedRecordsFrom
    <3>2. NoRecord.endTime[t] = 0
      BY DEF NoRecord
    <3>3. QED  BY <1>1, <3>1, <3>2 DEF EndsInTime
  <2>3. QED  BY <2>1, <2>2 DEF EndsInTime
<1>6. CASE Forgets
  <2>1. \A k \in Key : allowInfoMap'[k] = NoRecord
    BY <1>6 DEF Forgets, MemoryLost
  <2>2. \A t \in AllowType : NoRecord.endTime[t] = 0
    BY DEF NoRecord
  <2>3. file' = file /\ (now' = now \/ now' = 0)
    BY <1>6 DEF Forgets
  <2>4. QED  BY <1>1, <2>1, <2>2, <2>3 DEF EndsInTime
<1>7. CASE Keeps
  BY <1>1, <1>7 DEF Keeps, EndsInTime
<1>8. QED  BY <1>3, <1>4, <1>5, <1>6, <1>7, StepKinds

(* A task that takes type t of application k out at end or later.          *)
Covers(e, k, t, end) == e.key = k /\ t \in e.allowType /\ e.due >= end

(* There is no end at first that a task would have to wait for.            *)
LEMMA ExpiryPendingInit == Init => ExpiryPending
BY DEF Init, ExpiryPending, NoRecord

(* The delay after a reload reaches the end, when it fits int32_t.         *)
LEMMA RecoveredDelayLongEnough ==
  ASSUME MaxTime + MaxLag <= IntMax, now \in Nat, now <= MaxTime + MaxLag,
         NEW lag \in 0..Sooner(now, MaxLag),
         NEW end \in Nat, end <= MaxTime
  PROVE  /\ RecoveredDelay(end, lag) \in Nat
         /\ now + RecoveredDelay(end, lag) >= end
<1>1. IntMax \in Nat /\ MaxTime \in Nat /\ MaxLag \in Nat
  BY BoundAssumption
<1>2. lag \in Nat /\ lag <= now /\ lag <= MaxLag
  BY <1>1 DEF Sooner
<1>3. end - (now - lag) <= IntMax /\ -(end - (now - lag)) <= IntMax + 1
  BY <1>1, <1>2
<1>4. Int32(end - (now - lag)) = end - (now - lag)
  BY <1>3 DEF Int32
<1>5. QED  BY <1>1, <1>2, <1>4 DEF RecoveredDelay, Later

(* An end that is set has its task, and a task that is due early is posted *)
(* again.                                                                  *)
LEMMA ExpiryPendingStep ==
  ASSUME MaxTime + MaxLag <= IntMax,
         TypeOK, RecordsConsistent, EndsInTime, ExpiryPending, [Next]_vars
  PROVE  ExpiryPending'
<1> SUFFICES ASSUME NEW k \in Key, NEW t \in AllowType, allowInfoMap'[k].endTime[t] # 0
             PROVE  \E e \in expiries' : Covers(e, k, t, allowInfoMap'[k].endTime[t])
  BY DEF ExpiryPending, Covers
<1> DEFINE end == allowInfoMap[k].endTime[t]
<1>1. end \in Nat /\ now \in Nat
  BY DEF TypeOK, Record
<1>2. end # 0 => \E e \in expiries : Covers(e, k, t, end)
  BY DEF ExpiryPending, Covers
<1>3. CASE Extends
  <2>1. PICK j \in Key, pid \in Pid, types \in SUBSET AllowType, duration \in Nat,
             reason \in Reason, condition \in Condition :
          ApplyAllowResInner(j, pid, types, duration, reason, condition)
    BY <1>3 DEF Extends
  <2> DEFINE length == Granted(t, duration, reason, condition)
             granted == GrantedTypes(types, duration, reason, condition)
             task == [key |-> k, allowType |-> types, due |-> now + length]
  <2>2. allowInfoMap'[k].endTime[t] =
          ExtendedEnd(k, t, j, types, duration, reason, condition)
    BY <2>1, ApplyEffect
  <2>3. expiries' = expiries \cup ExpiriesOf(j, types, duration, reason, condition)
    BY <2>1 DEF ApplyAllowResInner
  <2>4. CASE allowInfoMap'[k].endTime[t] = end
    BY <1>2, <2>3, <2>4
  <2>5. CASE allowInfoMap'[k].endTime[t] # end
    <3>1. k = j /\ t \in granted /\ allowInfoMap'[k].endTime[t] = now + length
      BY <2>2, <2>5 DEF ExtendedEnd, Later
    <3>2. task \in expiries'
      BY <2>3, <3>1 DEF ExpiriesOf
    <3>3. t \in types /\ length \in Nat
      BY <3>1, GrantedBounds DEF GrantedTypes
    <3>4. Covers(task, k, t, now + length)
      BY <1>1, <3>3 DEF Covers
    <3>5. QED  BY <3>1, <3>2, <3>4
  <2>6. QED  BY <2>4, <2>5
<1>4. CASE Shrinks
  <2>1. PICK j \in Key, types \in SUBSET AllowType, removeAll \in BOOLEAN :
          /\ UnapplyAllowResInner(j, types, removeAll)
          /\ \/ expiries' = expiries
             \/ \E e \in expiries : /\ e.key = j /\ e.allowType = types /\ e.due <= now
                                   /\ expiries' = expiries \ {e}
    BY <1>4 DEF Shrinks
  <2>2. allowInfoMap'[k].endTime[t] = ReducedEnd(k, t, j, types, removeAll)
    BY <2>1, UnapplyEffect
  <2>3. /\ allowInfoMap'[k].endTime[t] = end
        /\ end # 0
        /\ k = j /\ t \in types => ~ (now >= end)
    BY <2>2 DEF ReducedEnd
  <2>4. PICK e \in expiries : Covers(e, k, t, end)
    BY <1>2, <2>3
  <2>5. e.due \in Nat
    BY DEF TypeOK, Expiry
  <2>6. e \in expiries'
    <3>1. CASE expiries' = expiries
      BY <3>1
    <3>2. ASSUME NEW f \in expiries, f.key = j, f.allowType = types, f.due <= now,
                 expiries' = expiries \ {f}
          PROVE  e \in expiries'
      <4>1. SUFFICES ASSUME e = f PROVE FALSE
        BY <3>2
      <4>2. k = j /\ t \in types /\ e.due >= end /\ e.due <= now
        BY <2>4, <3>2, <4>1 DEF Covers
      <4>3. now >= end
        BY <1>1, <2>5, <4>2
      <4>4. QED  BY <2>3, <4>2, <4>3
    <3>3. QED  BY <2>1, <3>1, <3>2
  <2>7. QED  BY <2>3, <2>4, <2>6
<1>5. CASE Reloads
  <2>1. PICK seen \in SeenProcesses, lag \in 0..Sooner(now, MaxLag) :
          ParsePersistentData(seen, lag)
    BY <1>5 DEF Reloads
  <2>2. CASE UNCHANGED <<allowInfoMap, expiries>>
    BY <1>2, <2>2
  <2>3. CASE /\ allowInfoMap' = LoadedRecords(seen)
             /\ expiries' = expiries \cup RecoveredExpiries(LoadedRecords(seen), lag)
    <3> DEFINE new == allowInfoMap'[k].endTime[t]
               task == [key |-> k, allowType |-> AllowType,
                        due |-> now + RecoveredDelay(new, lag)]
    <3>1. task \in RecoveredExpiries(LoadedRecords(seen), lag)
      <4> DEFINE m == LoadedRecords(seen)
                 kt == <<k, t>>
      <4>1. kt \in {x \in Key \X AllowType : m[x[1]].endTime[x[2]] # 0}
        BY <2>3
      <4>2. task = [key |-> kt[1], allowType |-> AllowType,
                    due |-> now + RecoveredDelay(m[kt[1]].endTime[kt[2]], lag)]
        BY <2>3
      <4> HIDE DEF m, kt, task
      <4>3. QED  BY <4>1, <4>2 DEF RecoveredExpiries, m
    <3>2. new \in Nat
      BY NextType DEF TypeOK, Record
    <3>3. new <= MaxTime
      BY EndsInTimeStep DEF EndsInTime
    <3>4. now + RecoveredDelay(new, lag) >= new
      BY <1>1, <3>2, <3>3, RecoveredDelayLongEnough DEF EndsInTime
    <3>5. Covers(task, k, t, new)
      BY <3>4 DEF Covers
    <3>6. QED  BY <2>3, <3>1, <3>5
  <2>4. QED  BY <2>1, <2>2, <2>3 DEF ParsePersistentData
<1>6. CASE Forgets
  <2>1. allowInfoMap'[k] = NoRecord
    BY <1>6 DEF Forgets, MemoryLost
  <2>2. QED  BY <2>1 DEF NoRecord
<1>7. CASE Keeps
  BY <1>2, <1>7 DEF Keeps
<1>8. QED  BY <1>3, <1>4, <1>5, <1>6, <1>7, StepKinds

(* No exemption is forgotten: each one in memory has a pending task that   *)
(* takes it out at its end or later, across extensions, removals, crashes, *)
(* reboots and reloads, provided that no remaining time overflows the      *)
(* int32_t of RecoverTimeLimitedTask.                                      *)
THEOREM ExpiryPendingHolds ==
  ASSUME MaxTime + MaxLag <= IntMax
  PROVE  Spec => []ExpiryPending
<1>1. TypeOK /\ RecordsConsistent /\ EndsInTime /\ [Next]_vars => EndsInTime'
  BY EndsInTimeStep
<1>2. TypeOK /\ RecordsConsistent /\ EndsInTime /\ ExpiryPending /\ [Next]_vars
        => ExpiryPending'
  BY ExpiryPendingStep
<1>3. QED
  BY <1>1, <1>2, EndsInTimeInit, ExpiryPendingInit, TypeCorrect, ConsistencyHolds, PTL
  DEF Spec
-----------------------------------------------------------------------------
(* The refinement of ExemptionService.                                     *)

(* What the service makes of a record that is consistent.                  *)
LEMMA ExemptIsListed ==
  ASSUME NEW k \in Key, Consistent(allowInfoMap[k])
  PROVE  /\ Service!Exempt(k) = allowInfoMap[k].allowType
         /\ Service!Exempt(k) = {} <=> allowInfoMap[k] = NoRecord
<1>1. Service!Exempt(k) = Listed(allowInfoMap[k])
  BY DEF Service!Exempt, Listed
<1>2. NoRecord.allowType = {}
  BY DEF NoRecord
<1>3. QED  BY <1>1, <1>2 DEF Consistent

(* The same after a step.                                                  *)
LEMMA ExemptIsListedNext ==
  ASSUME NEW k \in Key, Consistent(allowInfoMap'[k])
  PROVE  Service!Exempt(k)' = allowInfoMap'[k].allowType
BY DEF Service!Exempt, Listed, Consistent

(* A request is a Grant of the promise.                                    *)
LEMMA ApplyIsGrant ==
  ASSUME TypeOK, RecordsConsistent, NEW k \in Key, NEW pid \in Pid,
         NEW types \in SUBSET AllowType, NEW duration \in Nat,
         NEW reason \in Reason, NEW condition \in Condition,
         ApplyAllowResInner(k, pid, types, duration, reason, condition),
         file' = allowInfoMap', now' = now
  PROVE  Service!Grant(k)
<1>1. /\ mirror'[k] = mirror[k] \cup (allowInfoMap'[k].allowType \ allowInfoMap[k].allowType)
      /\ \A j \in Key \ {k} : mirror'[j] = mirror[j] /\ allowInfoMap'[j] = allowInfoMap[j]
  BY ApplyTells
<1>2. Service!Changes(k)
  BY <1>1 DEF Service!Changes
<1>3. ASSUME NEW t \in AllowType, allowInfoMap'[k].endTime[t] # allowInfoMap[k].endTime[t]
      PROVE  /\ allowInfoMap'[k].endTime[t] > allowInfoMap[k].endTime[t]
             /\ allowInfoMap'[k].endTime[t] > now
  <2> DEFINE end == allowInfoMap[k].endTime[t]
             given == Granted(t, duration, reason, condition)
  <2>1. end \in Nat /\ now \in Nat
    BY DEF TypeOK, Record
  <2>2. allowInfoMap'[k].endTime[t] = ExtendedEnd(k, t, k, types, duration, reason, condition)
    <3>1. \A j \in Key, u \in AllowType :
            allowInfoMap'[j].endTime[u] =
              ExtendedEnd(j, u, k, types, duration, reason, condition)
      BY ApplyEffect
    <3>2. k \in Key /\ t \in AllowType
      OBVIOUS
    <3> HIDE DEF end, given
    <3> QED BY <3>1, <3>2
  <2>3. /\ t \in GrantedTypes(types, duration, reason, condition)
        /\ allowInfoMap'[k].endTime[t] = Later(end, now + given)
    BY <1>3, <2>2 DEF ExtendedEnd
  <2>4. given \in Nat /\ given > 0
    BY <2>3, GrantedTypesPositive
  <2> HIDE DEF given
  <2>5. QED  BY <1>3, <2>1, <2>3, <2>4 DEF Later
<1>4. Consistent(allowInfoMap[k]) /\ Consistent(allowInfoMap'[k])
  BY ApplyEffect DEF RecordsConsistent
<1>5. mirror'[k] = mirror[k] \cup (Service!Exempt(k)' \ Service!Exempt(k))
  BY <1>1, <1>4, ExemptIsListed, ExemptIsListedNext
<1>6. QED  BY <1>2, <1>3, <1>5 DEF Service!Grant

(* A release, an expiry, a death or a purge is a Withdraw of the promise   *)
(* or changes nothing.                                                     *)
LEMMA UnapplyIsWithdraw ==
  ASSUME TypeOK, RecordsConsistent, NEW k \in Key,
         NEW types \in SUBSET AllowType, NEW removeAll \in BOOLEAN,
         UnapplyAllowResInner(k, types, removeAll), now' = now
  PROVE  Service!Withdraw(k) \/ UNCHANGED <<allowInfoMap, mirror, file>>
<1> DEFINE r == allowInfoMap[k]
           removed == RemovedTypes(r, types, removeAll)
<1>1. CASE UNCHANGED <<allowInfoMap, mirror, file>>
  BY <1>1
<1>2. CASE TakesOut(k, removed)
  <2>1. r \in Record /\ Consistent(r)
    BY DEF TypeOK, RecordsConsistent
  <2>2. removed \in SUBSET Listed(r)
    BY DEF RemovedTypes
  <2>3. removed \in SUBSET Service!Exempt(k)
    BY <2>1, <2>2, ExemptIsListed DEF Consistent
  <2> HIDE DEF removed
  <2>4. \A t \in AllowType :
          Remaining(r, removed).endTime[t] = IF t \in removed THEN 0 ELSE r.endTime[t]
    BY <1>2, <2>1, <2>2, RemainingConsistent DEF TakesOut
  <2>5. Service!Changes(k)
    BY <1>2 DEF TakesOut, Service!Changes
  <2>6. \A t \in AllowType :
          allowInfoMap'[k].endTime[t] =
            IF t \in removed THEN 0 ELSE allowInfoMap[k].endTime[t]
    BY <1>2, <2>4 DEF TakesOut
  <2>7. QED  BY <1>2, <2>3, <2>5, <2>6 DEF TakesOut, Service!Withdraw
<1>3. QED  BY <1>1, <1>2, UnapplyTells

(* What is read from the file when the service becomes ready is a Reload   *)
(* of the promise.                                                         *)
LEMMA LoadIsReload ==
  ASSUME TypeOK, RecordsConsistent, NEW seen,
         allowInfoMap' = LoadedRecords(seen), file' = allowInfoMap',
         now' = now, mirror' = mirror
  PROVE  Service!Reload
<1>1. ASSUME NEW k \in Key
      PROVE  allowInfoMap'[k].endTime \in
               {IF Service!Exempt(k) = {} THEN file[k].endTime ELSE allowInfoMap[k].endTime,
                Service!Nowhere}
  <2>1. Service!Exempt(k) = {} <=> allowInfoMap[k] = NoRecord
    BY ExemptIsListed DEF RecordsConsistent
  <2>2. NoRecord.endTime = Service!Nowhere
    BY DEF NoRecord, Service!Nowhere
  <2>3. allowInfoMap'[k] \in
          {IF allowInfoMap[k] = NoRecord THEN file[k] ELSE allowInfoMap[k], NoRecord}
    BY DEF LoadedRecords
  <2>4. QED  BY <2>1, <2>2, <2>3
<1>2. QED  BY <1>1 DEF Service!Reload

(* Each kind of step is a step of the promise or changes nothing in it.    *)
LEMMA NextServes ==
  ASSUME TypeOK, RecordsConsistent, [Next]_vars
  PROVE  [Service!Next]_(Service!vars)
<1>1. ASSUME UNCHANGED <<allowInfoMap, mirror, file>>, now' = now
      PROVE  UNCHANGED Service!vars
  BY <1>1 DEF Service!vars
<1>2. CASE Extends
  <2>1. PICK k \in Key, pid \in Pid, types \in SUBSET AllowType, duration \in Nat,
             reason \in Reason, condition \in Condition :
          /\ ApplyAllowResInner(k, pid, types, duration, reason, condition)
          /\ file' = allowInfoMap' /\ now' = now
    BY <1>2 DEF Extends
  <2>2. Service!Grant(k)
    BY <2>1, ApplyIsGrant
  <2>3. QED  BY <2>2 DEF Service!Next
<1>3. CASE Shrinks
  <2>1. PICK k \in Key, types \in SUBSET AllowType, removeAll \in BOOLEAN :
          UnapplyAllowResInner(k, types, removeAll) /\ now' = now
    BY <1>3 DEF Shrinks
  <2>2. Service!Withdraw(k) \/ UNCHANGED <<allowInfoMap, mirror, file>>
    BY <2>1, UnapplyIsWithdraw
  <2>3. QED  BY <1>1, <2>1, <2>2 DEF Service!Next
<1>4. CASE Reloads
  <2>1. PICK seen :
          /\ \/ UNCHANGED <<allowInfoMap, file>>
             \/ allowInfoMap' = LoadedRecords(seen) /\ file' = allowInfoMap'
          /\ now' = now /\ mirror' = mirror
    BY <1>4 DEF Reloads, ParsePersistentData, DumpPersistantData
  <2>2. UNCHANGED <<allowInfoMap, mirror, file>> \/ Service!Reload
    BY <2>1, LoadIsReload
  <2>3. QED  BY <1>1, <2>1, <2>2 DEF Service!Next
<1>5. CASE Forgets
  <2>1. /\ allowInfoMap' = [k \in Key |-> NoRecord] /\ mirror' = [k \in Key |-> {}]
        /\ file' = file /\ now' \in {now, 0}
    BY <1>5 DEF Forgets, MemoryLost
  <2>2. NoRecord.endTime = Service!Nowhere
    BY DEF NoRecord, Service!Nowhere
  <2>3. Service!Lose
    BY <2>1, <2>2 DEF Service!Lose
  <2>4. QED  BY <2>3 DEF Service!Next
<1>6. CASE Keeps
  <2>1. UNCHANGED <<allowInfoMap, mirror, file>> /\ now' \in {now, now + 1}
    BY <1>6 DEF Keeps
  <2>2. CASE now' = now
    BY <1>1, <2>1, <2>2
  <2>3. CASE now' = now + 1
    BY <2>1, <2>3 DEF Service!Next, Service!Elapse
  <2>4. QED  BY <2>1, <2>2, <2>3
<1>7. QED  BY <1>2, <1>3, <1>4, <1>5, <1>6, StepKinds

(* The allow list implements ExemptionService, for any applications,       *)
(* limits and durations: no request shortens an exemption or touches the   *)
(* record of another application, every change of UpdateRecord and         *)
(* UnapplyAllowResInner is saved and reported in the same step, and after  *)
(* a crash ParsePersistentData brings back what was saved last or nothing. *)
THEOREM KeepsExemptionPromiseHolds == Spec => KeepsExemptionPromise
<1>1. Init => Service!Init
  BY DEF Init, Service!Init, Service!Nowhere, NoRecord
<1>2. TypeOK /\ RecordsConsistent /\ [Next]_vars => [Service!Next]_(Service!vars)
  BY NextServes
<1>3. QED
  BY <1>1, <1>2, TypeCorrect, ConsistencyHolds, PTL
  DEF Spec, KeepsExemptionPromise, Service!Spec
=============================================================================
