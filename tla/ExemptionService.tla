--------------------------- MODULE ExemptionService ---------------------------
(* What the allow list promises to the rest of the system: which           *)
(* application is exempt from which restriction and until when, what of it *)
(* outlives the service, and what a subscriber is told.  Processes, masks, *)
(* reasons, limits and tasks are left out.                                 *)
EXTENDS Naturals

CONSTANTS Key, AllowType

VARIABLES
  ends,    \* until when an application is exempt from a restriction, or 0
  saved,   \* the same, as a new service process would find it
  told,    \* what a subscriber that listens from the start believes exempt
  now

vars == <<ends, saved, told, now>>

Nowhere == [t \in AllowType |-> 0]
Exempt(k) == {t \in AllowType : ends[k][t] # 0}

Init ==
  /\ ends = [k \in Key |-> Nowhere] /\ saved = ends
  /\ told = [k \in Key |-> {}]
  /\ now = 0

(* One application at a time, and at once as it is saved.                  *)
Changes(k) ==
  /\ \A j \in Key \ {k} : ends'[j] = ends[j] /\ told'[j] = told[j]
  /\ saved' = ends'
  /\ now' = now

(* An application is exempt from more, or for longer, and from nothing for *)
(* shorter; what is new is told.                                           *)
Grant(k) ==
  /\ Changes(k)
  /\ \A t \in AllowType :
       ends'[k][t] # ends[k][t] => ends'[k][t] > ends[k][t] /\ ends'[k][t] > now
  /\ told'[k] = told[k] \cup (Exempt(k)' \ Exempt(k))

(* Some of its exemptions end, the others are as they were; what ends is   *)
(* told.                                                                   *)
Withdraw(k) ==
  /\ Changes(k)
  /\ \E gone \in SUBSET Exempt(k) :
       /\ gone # {}
       /\ \A t \in AllowType : ends'[k][t] = IF t \in gone THEN 0 ELSE ends[k][t]
       /\ told'[k] = told[k] \ gone

(* The process of the service ends, perhaps with the device.               *)
Lose ==
  /\ ends' = [k \in Key |-> Nowhere]
  /\ told' = [k \in Key |-> {}]
  /\ now' \in {now, 0}
  /\ saved' = saved

(* The service starts, or is ready again: what was saved comes back as it  *)
(* was, but for applications that are gone, and never in place of what is  *)
(* there.  Nobody is told.                                                 *)
Reload ==
  /\ \A k \in Key :
       ends'[k] \in {IF Exempt(k) = {} THEN saved[k] ELSE ends[k], Nowhere}
  /\ saved' = ends'
  /\ UNCHANGED <<told, now>>

Elapse == now' = now + 1 /\ UNCHANGED <<ends, saved, told>>

Next ==
  \/ \E k \in Key : Grant(k) \/ Withdraw(k)
  \/ Lose \/ Reload \/ Elapse

Spec == Init /\ [][Next]_vars
=============================================================================
