-------------------------- MODULE StandbySubscriber --------------------------
(* The subscribers of the service (StandbyStateSubscriber) and the client  *)
(* library through which they come (StandbyServiceClient).  Clients call   *)
(* on IPC threads of the service, which share the list of subscribers and  *)
(* two maps of what was reported last for a module, each with a lock of    *)
(* its own; call-backs are one-way and stay in order.  Both sides learn of *)
(* a death by a notice.                                                    *)
EXTENDS Naturals, Sequences, FiniteSets

CONSTANTS
  Client,        \* processes with one subscriber each
  Module,        \* the names of the modules
  ModuleOf,      \* the module of each client
  Deployed,      \* clients whose subscriber name is in the strategy list
  Value,         \* levels and actions that are reported
  MaxDate,       \* bound: days, fewer than a month has
  MaxLife,       \* bound: processes of the service
  MaxReports     \* bound: reports of power and of actions

ASSUME SubscriberAssumption ==
  /\ ModuleOf \in [Client -> Module] /\ Deployed \subseteq Client
  /\ Value \subseteq Nat \ {0}
  /\ MaxDate \in Nat \ {0} /\ MaxLife \in Nat \ {0} /\ MaxReports \in Nat

Normal == 0                      \* PowerOverusedLevel::NORMAL, no action
Kind == {"power", "action"}      \* modulePowerMap_, moduleActionMap_
Mode == {"awake", "napped", "sleeping"}
Untold == "untold"
None == [value |-> Normal, on |-> 0]      \* a module that is not in the map
NoBurst == [values |-> {}, on |-> 0]

VARIABLES
  life,           \* the process of the service, counted
  serviceUp,      \* whether it runs
  alive,          \* the clients that run
  proxy,          \* standbyServiceProxy_: the life it leads to, 0 for null
  watching,       \* whether the client's death recipient is registered
  connecting,     \* clients between GetSystemAbility and AddDeathRecipient
  resets,         \* clients that OnRemoteDied has still to reset
  subscriberList, \* subscriberList_
  recipient,      \* subscribers on which the service has a death recipient
  deaths,         \* deaths of subscribers that the service has yet to hear of
  lastCalls,      \* clients that died while a call of theirs was on its way
  unwatched,      \* history: subscribers that were dead when they were added
  callBackMap,    \* modulePowerMap_ and moduleActionMap_, with the date
  curDate,        \* curDate_
  renewed,        \* history: the maps that were cleared for the day of curDate_
  setBack,        \* history: a report of an earlier day has set curDate_ back today
  adding,         \* the subscriber that AddSubscriber is adding
  date,           \* the day it is
  reports,        \* reports on their threads, with the day they read
  burst,          \* history: for a module, what the reports under way now or last reported,
                  \* since none was under way, and the day of the first of them
  reported,       \* counts towards MaxReports, and numbers the reports
  mode,           \* the standby state that was reported last
  told            \* what each subscriber was told last

clients == <<alive, proxy, watching, connecting, resets, lastCalls>>
lists == <<subscriberList, recipient, deaths, unwatched>>
maps == <<callBackMap, curDate, renewed, setBack>>
reporting == <<reports, burst, reported>>
vars == <<life, serviceUp, clients, lists, adding, maps, date, reporting, mode, told>>

Listed(c) == \E i \in DOMAIN subscriberList : subscriberList[i] = c
ToldNothing == [power |-> Normal, action |-> Normal, mode |-> Untold]

(* The first entry of a sequence that is c is erased.                      *)
Erase(s, c) ==
  LET first == CHOOSE i \in DOMAIN s : s[i] = c /\ \A j \in 1..(i - 1) : s[j] # c
  IN  IF \E i \in DOMAIN s : s[i] = c
      THEN SubSeq(s, 1, first - 1) \o SubSeq(s, first + 1, Len(s)) ELSE s

Init ==
  /\ life = 1 /\ serviceUp = TRUE
  /\ alive = Client
  /\ proxy = [c \in Client |-> 0]
  /\ watching = [c \in Client |-> FALSE]
  /\ connecting = {} /\ resets = {} /\ lastCalls = {}
  /\ subscriberList = << >> /\ recipient = {} /\ deaths = {} /\ unwatched = {}
  /\ callBackMap = [k \in Kind |-> [m \in Module |-> None]]
  /\ curDate = 1 /\ renewed = Kind /\ setBack = FALSE /\ date = 1
  /\ adding = {}
  /\ reports = {} /\ burst = [k \in Kind |-> [m \in Module |-> NoBurst]] /\ reported = 0
  /\ mode = "awake"
  /\ told = [c \in Client |-> ToldNothing]

-----------------------------------------------------------------------------
(* The client library.  mutex_ makes its calls one after the other.        *)

(* GetStandbyServiceProxy: the ability is looked up ...                    *)
GetSystemAbility(c) ==
  /\ c \in alive \ connecting
  /\ proxy[c] = 0 /\ serviceUp
  /\ proxy' = [proxy EXCEPT ![c] = life]
  /\ connecting' = connecting \cup {c}
  /\ UNCHANGED <<life, serviceUp, alive, watching, resets, lastCalls, lists, adding, maps,
                 date, reporting, mode, told>>

(* ... and a death recipient is added, which fails if it has died since.   *)
(* The result is not looked at.                                            *)
AddDeathRecipient(c) ==
  /\ c \in connecting
  /\ connecting' = connecting \ {c}
  /\ watching' = [watching EXCEPT ![c] = serviceUp /\ proxy[c] = life]
  /\ UNCHANGED <<life, serviceUp, alive, proxy, resets, lastCalls, lists, adding, maps,
                 date, reporting, mode, told>>

(* Mutant of ResetStandbyServiceClient: the proxy is kept.                 *)
ResetStandbyServiceClientKeeps(c) ==
  /\ c \in resets \ connecting
  /\ resets' = resets \ {c}
  /\ UNCHANGED <<life, serviceUp, alive, proxy, watching, connecting, lastCalls, lists, adding,
                 maps, date, reporting, mode, told>>

(* OnRemoteDied.                                                           *)
ResetStandbyServiceClient(c) ==
  /\ c \in resets \ connecting
  /\ resets' = resets \ {c}
  /\ proxy' = [proxy EXCEPT ![c] = 0]
  /\ watching' = [watching EXCEPT ![c] = FALSE]
  /\ UNCHANGED <<life, serviceUp, alive, connecting, lastCalls, lists, adding, maps,
                 date, reporting, mode, told>>

(* A call through the proxy arrives only in the process it leads to; one   *)
(* that was on its way still arrives when its caller has died.             *)
Call(c) ==
  /\ c \in alive \cup lastCalls /\ c \notin connecting
  /\ serviceUp /\ proxy[c] = life
  /\ lastCalls' = lastCalls \ {c}

-----------------------------------------------------------------------------
(* The subscribers.  All of these hold subscriberLock_, so that each is one *)
(* step, and waits while AddSubscriber adds another.                       *)

Unlocked == adding = {}

(* A thread that updates a map holds its lock, modulePowerLock_ or         *)
(* moduleActionLock_.                                                      *)
Locked(k) == \E r \in reports : r.kind = k /\ r.stage = "checked"

(* What is in the map for a module counts only on the day of curDate_.     *)
ValueOnRegister(k, m, on) == IF curDate = on THEN callBackMap[k][m].value ELSE Normal

(* The clients have the permission that both calls ask for.                *)
SubscribeStandbyCallback(c) == Call(c) /\ c \in Deployed
UnsubscribeStandbyCallback(c) == Call(c)

(* Mutant of AddSubscriber: one that is listed is listed again.            *)
AddSubscriberAgain(c) ==
  /\ SubscribeStandbyCallback(c) /\ Unlocked
  /\ Cardinality({i \in DOMAIN subscriberList : subscriberList[i] = c}) < 2
  /\ subscriberList' = Append(subscriberList, c)
  /\ adding' = {[client |-> c, step |-> "power", on |-> 0]}
  /\ UNCHANGED <<life, serviceUp, alive, proxy, watching, connecting, resets, recipient, deaths,
                 unwatched, maps, date, reporting, mode, told>>

(* SubscribeStandbyCallback and AddSubscriber, which lists the caller ...  *)
AddSubscriber(c) ==
  /\ SubscribeStandbyCallback(c) /\ Unlocked /\ ~Listed(c)
  /\ subscriberList' = Append(subscriberList, c)
  /\ adding' = {[client |-> c, step |-> "power", on |-> 0]}
  /\ UNCHANGED <<life, serviceUp, alive, proxy, watching, connecting, resets, recipient, deaths,
                 unwatched, maps, date, reporting, mode, told>>

(* ... tells it of the power and then of the action, reading the day       *)
(* before it takes the lock of the map ...                                 *)
ReadDateOnRegister(a) ==
  /\ a \in adding /\ a.step \in Kind /\ a.on = 0
  /\ adding' = {[a EXCEPT !.on = date]}
  /\ UNCHANGED <<life, serviceUp, clients, lists, maps, date, reporting, mode, told>>

(* NotifyPowerOnRegister, NotifyLowpowerActionOnRegister.                  *)
NotifyOnRegister(a) ==
  /\ a \in adding /\ a.step \in Kind /\ a.on # 0 /\ ~Locked(a.step)
  /\ told' = [told EXCEPT ![a.client] =
                [@ EXCEPT ![a.step] = ValueOnRegister(a.step, ModuleOf[a.client], a.on)]]
  /\ adding' = {[a EXCEPT !.step = IF a.step = "power" THEN "action" ELSE "watch", !.on = 0]}
  /\ UNCHANGED <<life, serviceUp, clients, lists, maps, date, reporting, mode>>

(* ... and at last adds the death recipient.  The caller may have died     *)
(* since it called: the recipient is then not added, and that is not       *)
(* looked at.                                                              *)
WatchSubscriber(a) ==
  /\ a \in adding /\ a.step = "watch"
  /\ recipient' = IF a.client \in alive THEN recipient \cup {a.client} ELSE recipient
  /\ unwatched' = IF a.client \in alive THEN unwatched ELSE unwatched \cup {a.client}
  /\ adding' = {}
  /\ UNCHANGED <<life, serviceUp, clients, subscriberList, deaths, maps, date, reporting, mode,
                 told>>

(* UnsubscribeStandbyCallback and RemoveSubscriber.                        *)
RemoveSubscriber(c) ==
  /\ UnsubscribeStandbyCallback(c) /\ Unlocked /\ Listed(c)
  /\ subscriberList' = Erase(subscriberList, c)
  /\ recipient' = recipient \ {c}
  /\ told' = [told EXCEPT ![c] = ToldNothing]
  /\ UNCHANGED <<life, serviceUp, alive, proxy, watching, connecting, resets, deaths, unwatched,
                 adding, maps, date, reporting, mode>>

(* The notice that a subscriber died: nothing, if it has left.             *)
HandleSubscriberDeath(c) ==
  /\ c \in deaths /\ Unlocked
  /\ deaths' = deaths \ {c}
  /\ subscriberList' = Erase(subscriberList, c)
  /\ recipient' = recipient \ {c}
  /\ told' = [told EXCEPT ![c] = ToldNothing]
  /\ UNCHANGED <<life, serviceUp, clients, unwatched, adding, maps, date, reporting, mode>>

(* NotifyIdleModeByCallback, on the handler's thread.                      *)
ReportStandbyState(next) ==
  /\ serviceUp /\ next # mode /\ Unlocked
  /\ mode' = next
  /\ told' = [c \in Client |-> IF Listed(c) THEN [told[c] EXCEPT !.mode = next] ELSE told[c]]
  /\ UNCHANGED <<life, serviceUp, clients, lists, adding, maps, date, reporting>>

-----------------------------------------------------------------------------
(* ReportPowerOverused, and the report of an action: several threads may   *)
(* report for a module at once.                                            *)

Reporting(k, m) == \E r \in reports : r.kind = k /\ r.module = m

(* A report reads the day before it takes the lock of its map.             *)
Report(k, m, v) ==
  /\ serviceUp
  /\ reported < MaxReports /\ reported' = reported + 1
  /\ reports' = reports \cup {[n |-> reported, kind |-> k, module |-> m, value |-> v, on |-> date,
                               stage |-> "dated"]}
  /\ burst' = [burst EXCEPT ![k][m] =
                 IF Reporting(k, m) THEN [values |-> @.values \cup {v}, on |-> @.on]
                 ELSE [values |-> {v}, on |-> date]]
  /\ UNCHANGED <<life, serviceUp, clients, lists, adding, maps, date, mode, told>>

Becomes(r, stage) == reports' = (reports \ {r}) \cup {[r EXCEPT !.stage = stage]}
Entry(r) == [value |-> r.value, on |-> r.on]

(* Mutant of UpdateCallBackMap: a value that is in the map stays, as with  *)
(* emplace.                                                                *)
UpdateCallBackMapEmplaces(r) ==
  /\ r \in reports /\ r.stage = "dated" /\ ~Locked(r.kind)
  /\ IF curDate = r.on
     THEN /\ callBackMap' = [callBackMap EXCEPT
                               ![r.kind][r.module] = IF @ = None THEN Entry(r) ELSE @]
          /\ Becomes(r, "updated")
     ELSE Becomes(r, "checked") /\ UNCHANGED callBackMap
  /\ UNCHANGED <<life, serviceUp, clients, lists, adding, curDate, renewed, setBack, date, burst,
                 reported, mode, told>>

(* UpdateCallBackMap, with the lock.  If curDate_ is the day that the      *)
(* report read, it enters its value at once; if not ...                    *)
UpdateCallBackMap(r) ==
  /\ r \in reports /\ r.stage = "dated" /\ ~Locked(r.kind)
  /\ IF curDate = r.on
     THEN /\ callBackMap' = [callBackMap EXCEPT ![r.kind][r.module] = Entry(r)]
          /\ Becomes(r, "updated")
     ELSE Becomes(r, "checked") /\ UNCHANGED callBackMap
  /\ UNCHANGED <<life, serviceUp, clients, lists, adding, curDate, renewed, setBack, date, burst,
                 reported, mode, told>>

(* Mutant of RenewCallBackMap: the new day is noticed and nothing cleared. *)
RenewCallBackMapKeeps(r) ==
  /\ r \in reports /\ r.stage = "checked"
  /\ curDate' = r.on
  /\ callBackMap' = [callBackMap EXCEPT ![r.kind][r.module] = Entry(r)]
  /\ renewed' = IF curDate = r.on THEN renewed \cup {r.kind} ELSE {r.kind}
  /\ setBack' = (setBack \/ (curDate = date /\ r.on < date))
  /\ Becomes(r, "updated")
  /\ UNCHANGED <<life, serviceUp, clients, lists, adding, date, burst, reported, mode, told>>

(* ... it sets curDate_ and clears its map first, not the one of the other *)
(* kind, and whatever a report of that kind has made of curDate_ by now.   *)
RenewCallBackMap(r) ==
  /\ r \in reports /\ r.stage = "checked"
  /\ curDate' = r.on
  /\ callBackMap' = [callBackMap EXCEPT
                       ![r.kind] = [m \in Module |-> IF m = r.module THEN Entry(r) ELSE None]]
  /\ renewed' = IF curDate = r.on THEN renewed \cup {r.kind} ELSE {r.kind}
  /\ setBack' = (setBack \/ (curDate = date /\ r.on < date))
  /\ Becomes(r, "updated")
  /\ UNCHANGED <<life, serviceUp, clients, lists, adding, date, burst, reported, mode, told>>

(* The second half of NotifyPowerOverusedByCallback and of                 *)
(* NotifyLowpowerActionByCallback, under subscriberLock_.                  *)
NotifyByCallback(r) ==
  /\ r \in reports /\ r.stage = "updated" /\ Unlocked
  /\ reports' = reports \ {r}
  /\ told' = [c \in Client |-> IF Listed(c) /\ ModuleOf[c] = r.module
                               THEN [told[c] EXCEPT ![r.kind] = r.value] ELSE told[c]]
  /\ UNCHANGED <<life, serviceUp, clients, lists, adding, maps, date, burst, reported, mode>>

-----------------------------------------------------------------------------
(* Time, deaths and restarts.                                              *)

NewDay ==
  /\ date < MaxDate
  /\ date' = date + 1
  /\ setBack' = FALSE
  /\ UNCHANGED <<life, serviceUp, clients, lists, adding, callBackMap, curDate, renewed, reporting,
                 mode, told>>

ClientDies(c) ==
  /\ c \in alive
  /\ alive' = alive \ {c}
  /\ deaths' = IF c \in recipient THEN deaths \cup {c} ELSE deaths
  /\ lastCalls' \in {lastCalls, lastCalls \cup {c}}
  /\ UNCHANGED <<life, serviceUp, proxy, watching, connecting, resets, subscriberList, recipient,
                 unwatched, adding, maps, date, reporting, mode, told>>

ServiceDies ==
  /\ serviceUp /\ life < MaxLife
  /\ serviceUp' = FALSE
  /\ resets' = resets \cup {c \in alive : watching[c] /\ proxy[c] = life}
  /\ subscriberList' = << >> /\ recipient' = {} /\ deaths' = {} /\ unwatched' = {}
  /\ adding' = {}
  /\ reports' = {} /\ burst' = [k \in Kind |-> [m \in Module |-> NoBurst]]
  /\ told' = [c \in Client |-> ToldNothing]
  /\ UNCHANGED <<life, alive, proxy, watching, connecting, lastCalls, maps, date, reported, mode>>

(* The process starts again with empty maps.                               *)
ServiceStarts ==
  /\ ~serviceUp
  /\ serviceUp' = TRUE /\ life' = life + 1
  /\ callBackMap' = [k \in Kind |-> [m \in Module |-> None]]
  /\ curDate' = date /\ renewed' = Kind /\ setBack' = FALSE /\ mode' = "awake"
  /\ UNCHANGED <<clients, lists, adding, date, reporting, told>>

Next ==
  \/ \E c \in Client : GetSystemAbility(c)
  \/ \E c \in Client : AddDeathRecipient(c)
  \/ \E c \in Client : ResetStandbyServiceClient(c)
  \/ \E c \in Client : AddSubscriber(c)
  \/ \E a \in adding : ReadDateOnRegister(a)
  \/ \E a \in adding : NotifyOnRegister(a)
  \/ \E a \in adding : WatchSubscriber(a)
  \/ \E c \in Client : RemoveSubscriber(c)
  \/ \E c \in Client : HandleSubscriberDeath(c)
  \/ \E m \in Mode : ReportStandbyState(m)
  \/ \E k \in Kind, m \in Module, v \in Value : Report(k, m, v)
  \/ \E r \in reports : UpdateCallBackMap(r)
  \/ \E r \in reports : RenewCallBackMap(r)
  \/ \E r \in reports : NotifyByCallback(r)
  \/ NewDay
  \/ \E c \in Client : ClientDies(c)
  \/ ServiceDies
  \/ ServiceStarts

Spec == Init /\ [][Next]_vars

-----------------------------------------------------------------------------
(* Properties.                                                             *)

(* Every variable stays in its set, and a proxy never leads to a process   *)
(* that has not been.                                                      *)
TypeOK ==
  /\ life \in 1..MaxLife /\ serviceUp \in BOOLEAN /\ alive \subseteq Client
  /\ proxy \in [Client -> 0..life] /\ watching \in [Client -> BOOLEAN]
  /\ connecting \subseteq Client /\ resets \subseteq Client
  /\ subscriberList \in Seq(Client) /\ recipient \subseteq Client
  /\ deaths \subseteq Client \ alive /\ lastCalls \subseteq Client \ alive
  /\ unwatched \subseteq Client \ alive
  /\ callBackMap \in [Kind -> [Module -> [value : Value \cup {Normal}, on : 0..date]]]
  /\ curDate \in 1..date /\ date \in 1..MaxDate
  /\ renewed \subseteq Kind /\ setBack \in BOOLEAN
  /\ adding \subseteq [client : Client, step : Kind \cup {"watch"}, on : 0..date]
  /\ reports \subseteq [n : 0..(reported - 1), kind : Kind, module : Module, value : Value,
                        on : 1..date, stage : {"dated", "checked", "updated"}]
  /\ burst \in [Kind -> [Module -> [values : SUBSET Value, on : 0..date]]]
  /\ reported \in 0..MaxReports
  /\ mode \in Mode
  /\ told \in [Client -> [power : Value \cup {Normal}, action : Value \cup {Normal},
                          mode : Mode \cup {Untold}]]

(* AddSubscriber has told the subscriber of the kind.                      *)
RegisteredFor(c, k) ==
  Listed(c) /\ ~\E a \in adding : a.client = c /\ a.step \in {"power", k}

(* No order of AddSubscriber and of reports, which are each several steps, *)
(* loses a report of today: with none under way, a subscriber knows one of *)
(* those that were under way last, the last one if they came one by one,   *)
(* whether it subscribed before, between or after their steps.  Nothing is *)
(* promised of a report of today that met one of yesterday, and the one    *)
(* exception is a subscriber that is told of nothing because a report of   *)
(* yesterday, late to take the lock, has set curDate_ back.  Of the        *)
(* standby state it knows the one that was reported last, if any.          *)
ReportsReachSubscribers ==
  \A c \in Client : Listed(c) =>
    /\ \A k \in Kind :
         LET b == burst[k][ModuleOf[c]]
         IN  RegisteredFor(c, k) /\ ~Reporting(k, ModuleOf[c]) /\ b.on = date =>
               told[c][k] \in b.values \cup (IF setBack THEN {Normal} ELSE {})
    /\ told[c].mode \in {mode, Untold}

(* A new day forgets what was reported the day before.  What a report of   *)
(* the other kind found still there is the one exception: the two maps     *)
(* share curDate_, and only the map of a report that saw it change is      *)
(* cleared.                                                                *)
YesterdayForgotten ==
  \A k \in Kind, m \in Module :
    curDate = date /\ callBackMap[k][m].value # Normal /\ callBackMap[k][m].on < date =>
      k \notin renewed

(* A subscriber that died is taken out, unless it had died before the      *)
(* service could register for its death: then it stays for good.           *)
DeadAreForgotten ==
  \A c \in Client : Listed(c) /\ c \notin alive =>
    c \in deaths \cup unwatched \/ \E a \in adding : a.client = c

(* A client that holds the proxy of a process that died is about to drop   *)
(* it, unless its death recipient came too late: then it never reconnects. *)
StaleProxyIsDropped ==
  \A c \in alive :
    proxy[c] # 0 /\ ~(serviceUp /\ proxy[c] = life) =>
      c \in resets \cup connecting \/ ~watching[c]
=============================================================================
