---------------------------- MODULE MCAllowList ----------------------------
(* Small instances of the allow list for TLC, and its abstraction.         *)
EXTENDS AllowList, TLC

(* Native callers get the network for two units by day and one by night,   *)
(* applications for one; applications have no timers by night.             *)
Limits ==
  [c \in Condition |-> [r \in Reason |-> [t \in AllowType |->
     IF r = "NATIVE_API" /\ c = "DAY_STANDBY" THEN 2
     ELSE IF t = "TIMER" /\ r = "APP_API" /\ c = "NIGHT_STANDBY" THEN 0
     ELSE 1]]]

(* The ends of the exemptions, in memory and in the file.                  *)
Service == INSTANCE ExemptionService WITH
  ends <- [k \in Key |-> allowInfoMap[k].endTime],
  saved <- [k \in Key |-> file[k].endTime],
  told <- mirror

(* The allow list implements its promise: no call shortens an exemption or *)
(* touches another application's, every change is told and saved at once,  *)
(* and after a crash nothing comes back but what was saved last.           *)
KeepsExemptionPromise == Service!Spec

(* The applications are interchangeable.                                   *)
Symmetry == Permutations(Key)
=============================================================================
