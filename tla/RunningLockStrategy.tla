-------------------------- MODULE RunningLockStrategy --------------------------
(***************************************************************************)
(* The running-lock strategy: in the deep phase of sleep the running locks *)
(* of applications without an exemption are proxied in the power manager,  *)
(* in a maintenance window they are given back, and when the device wakes  *)
(* all of them are.  Between the start and the end of the proxy the table  *)
(* of applications is kept up to date message by message.                  *)
(*                                                                         *)
(* A record of proxiedAppInfo_ is there exactly while it has a process, so *)
(* that an application without pids has no record.                         *)
(***************************************************************************)
EXTENDS StrategyInputs

VARIABLES
  rl,        \* the strategy: isProxied_, isIdleMaintence_, proxiedAppInfo_
  proxied,   \* the power manager: processes whose running locks are proxied
  stray,     \* history: conditions changed while no proxy was started
  missed     \* history: applications of which the table missed something

lockVars == <<rl, proxied, stray, missed>>

Info == [pids : SUBSET Pid, flags : SUBSET Flag]
NoInfo == [pids |-> {}, flags |-> {}]
NoInfos == [a \in App |-> NoInfo]

Stopped == [isProxied |-> FALSE, isIdle |-> FALSE, info |-> NoInfos]

(* A state of the strategy together with the locks it has proxied.         *)
With(s, locks) == [rl |-> s, proxied |-> locks]

-----------------------------------------------------------------------------
(* The calls to the power manager.                                         *)

(* Mutant of ProxyRunningLockList: a window does not hold back the call.   *)
ProxyRunningLockListInWindow(s, isProxied, pids, locks) ==
  IF isProxied THEN locks \cup pids ELSE locks \ pids

ProxyRunningLockList(s, isProxied, pids, locks) ==
  CASE s.isIdle                  -> locks
    [] ~ s.isIdle /\ isProxied   -> locks \cup pids
    [] ~ s.isIdle /\ ~ isProxied -> locks \ pids

(* The processes of the applications without an exemption.                 *)
Unexempted(info) ==
  UNION {info[a].pids : a \in {b \in App : ~ IsExempted(info[b].flags)}}

ProxyAppAndProcess(s, isProxied, locks) ==
  With(s, ProxyRunningLockList(s, isProxied, Unexempted(s.info), locks))

-----------------------------------------------------------------------------
(* The table.                                                              *)

(* The Get functions of InitProxiedAppInfo, over every running application.*)
InitFlags(a) ==
  SystemFlags(a) \cup Given(a \in ForegroundApp, "FOREGROUND_APP")
    \cup tasks[a] \cup ListedFlags(a, "RUNNING_LOCK")

PidsOf(a) == {p \in running : AppOf[p] = a}

InitProxiedAppInfo ==
  [a \in App |-> IF IsRunning(a)
                 THEN [pids |-> PidsOf(a), flags |-> InitFlags(a)] ELSE NoInfo]

(* The services the table is made from may not answer.                     *)
StartProxyInner(s, answers, locks) ==
  IF answers
  THEN [ok |-> TRUE, is |-> ProxyAppAndProcess([s EXCEPT !.info = InitProxiedAppInfo],
                                               TRUE, locks)]
  ELSE [ok |-> FALSE, is |-> With([s EXCEPT !.info = NoInfos], locks)]

StopProxyInner(s, locks) ==
  [ProxyAppAndProcess(s, FALSE, locks) EXCEPT !.rl.info = NoInfos]

AddExemptionFlag(s, a, f, locks) ==
  LET old == s.info[a]
      new == [old EXCEPT !.flags = @ \cup {f}]
  IN  IF ~ s.isProxied \/ old = NoInfo THEN With(s, locks)
      ELSE With([s EXCEPT !.info[a] = new],
                IF ~ IsExempted(old.flags) /\ IsExempted(new.flags)
                THEN ProxyRunningLockList(s, FALSE, new.pids, locks) ELSE locks)

RemoveExemptionFlag(s, a, fs, locks) ==
  LET old == s.info[a]
      new == [old EXCEPT !.flags = @ \ fs]
  IN  IF old = NoInfo THEN With(s, locks)
      ELSE With([s EXCEPT !.info[a] = new],
                IF IsExempted(old.flags) /\ ~ IsExempted(new.flags)
                THEN ProxyRunningLockList(s, TRUE, new.pids, locks) ELSE locks)

(* GetExemptionConfigForApp asks for the lists of the network.             *)
CreatedFlags(a) == SystemFlags(a) \cup ListedFlags(a, "NETWORK")

GetAndCreateAppInfo(info, p) ==
  LET a == AppOf[p]
  IN  IF info[a] # NoInfo THEN [info EXCEPT ![a].pids = @ \cup {p}]
      ELSE [info EXCEPT ![a] = [pids |-> {p}, flags |-> CreatedFlags(a)]]

-----------------------------------------------------------------------------
(* The handlers of HandleEvent.                                            *)

UpdateExemptionList(s, m, locks) ==
  IF "RUNNING_LOCK" \notin m.allowType \/ ~ s.isProxied THEN With(s, locks)
  ELSE IF m.added THEN AddExemptionFlag(s, m.app, "EXEMPTION", locks)
       ELSE RemoveExemptionFlag(s, m.app, {"EXEMPTION"}, locks)

UpdateResourceConfig(s, answers, locks) ==
  LET stop == StopProxyInner(s, locks)
  IN  StartProxyInner(stop.rl, answers, stop.proxied).is

StartProxy(s, m, answers, locks) ==
  LET start == StartProxyInner(s, answers, locks)
  IN  IF s.isProxied \/ m.cur # "SLEEP" \/ m.phase # AppResDeep THEN With(s, locks)
      ELSE IF start.ok
           THEN [start.is EXCEPT !.rl.isProxied = TRUE, !.rl.isIdle = FALSE]
           ELSE start.is

(* Mutant of StopProxy: the proxy ends without giving the locks back.      *)
StopProxyForgetsLocks(s, m, locks) ==
  IF s.isProxied /\ m.pre = "SLEEP" /\ m.cur \notin {"SLEEP", "MAINTENANCE"}
  THEN With(Stopped, locks) ELSE With(s, locks)

StopProxy(s, m, locks) ==
  CASE ~ s.isProxied -> With(s, locks)
    [] s.isProxied /\ m.pre = "SLEEP" /\ m.cur = "MAINTENANCE" ->
         [ProxyAppAndProcess(s, FALSE, locks) EXCEPT !.rl.isIdle = TRUE]
    [] s.isProxied /\ m.pre = "MAINTENANCE" /\ m.cur = "SLEEP" ->
         ProxyAppAndProcess([s EXCEPT !.isIdle = FALSE], TRUE, locks)
    [] s.isProxied /\ m.pre \in {"SLEEP", "MAINTENANCE"}
         /\ <<m.pre, m.cur>> \notin {<<"SLEEP", "MAINTENANCE">>, <<"MAINTENANCE", "SLEEP">>} ->
         With(Stopped, StopProxyInner(s, locks).proxied)
    [] OTHER -> With(s, locks)

UpdateBgTaskAppStatus(s, m, locks) ==
  IF m.started THEN AddExemptionFlag(s, m.app, m.task, locks)
  ELSE RemoveExemptionFlag(s, m.app, {m.task}, locks)

(* Mutant of ResetProxyStatus: only transient tasks are reset.             *)
ResetProxyStatusTransient(s, locks) ==
  IF ~ s.isProxied \/ s.isIdle THEN With(s, locks)
  ELSE With([s EXCEPT !.info = [a \in App |-> [s.info[a] EXCEPT !.flags = @ \ {"TRANSIENT_TASK"}]]],
            locks)

(* Both services are meant when one of them crashes; every application     *)
(* that loses its last exemption is proxied.                               *)
ResetProxyStatus(s, locks) ==
  LET gone == {"TRANSIENT_TASK", "WORK_SCHEDULER"}
      info == [a \in App |-> [s.info[a] EXCEPT !.flags = @ \ gone]]
      lost == {a \in App : IsExempted(s.info[a].flags) /\ ~ IsExempted(info[a].flags)}
  IN  IF ~ s.isProxied \/ s.isIdle THEN With(s, locks)
      ELSE With([s EXCEPT !.info = info], locks \cup UNION {info[a].pids : a \in lost})

(* Mutant of HandleProcessStatusChanged: a process that died stays in the  *)
(* table while its application has others.                                 *)
HandleProcessStatusChangedKeepsPid(s, m, locks) ==
  LET a == AppOf[m.pid]
      created == GetAndCreateAppInfo(s.info, m.pid)
      call(info) == IF IsExempted(info[a].flags) THEN locks
                    ELSE ProxyRunningLockList(s, m.isCreated, {m.pid}, locks)
  IN  CASE ~ s.isProxied -> With(s, locks)
        [] s.isProxied /\ m.isCreated -> With([s EXCEPT !.info = created], call(created))
        [] OTHER -> With(s, call(s.info))

HandleProcessStatusChanged(s, m, locks) ==
  LET a == AppOf[m.pid]
      created == GetAndCreateAppInfo(s.info, m.pid)
      left == s.info[a].pids \ {m.pid}
      died == [s.info EXCEPT ![a] = IF left = {} THEN NoInfo
                                    ELSE [@ EXCEPT !.pids = left]]
      call(info) == IF IsExempted(info[a].flags) THEN locks
                    ELSE ProxyRunningLockList(s, m.isCreated, {m.pid}, locks)
  IN  CASE ~ s.isProxied -> With(s, locks)
        [] s.isProxied /\ m.isCreated -> With([s EXCEPT !.info = created], call(created))
        [] s.isProxied /\ ~ m.isCreated /\ s.info[a] # NoInfo ->
             With([s EXCEPT !.info = died], call(s.info))
        [] OTHER -> With(s, locks)

HandleEvent(s, m, answers, locks) ==
  CASE m.type = "ALLOW_LIST_CHANGED"         -> UpdateExemptionList(s, m, locks)
    [] m.type = "RES_CTRL_CONDITION_CHANGED" -> UpdateResourceConfig(s, answers, locks)
    [] m.type = "PHASE_TRANSIT"              -> StartProxy(s, m, answers, locks)
    [] m.type = "STATE_TRANSIT"              -> StopProxy(s, m, locks)
    [] m.type = "BG_TASK_STATUS_CHANGE"      -> UpdateBgTaskAppStatus(s, m, locks)
    [] m.type = "PROCESS_STATE_CHANGED"      -> HandleProcessStatusChanged(s, m, locks)
    [] m.type = "SYS_ABILITY_STATUS_CHANGED" -> ResetProxyStatus(s, locks)

-----------------------------------------------------------------------------
LockInit == rl = Stopped /\ proxied = {} /\ stray = FALSE /\ missed = {}

(* A message told nothing to the table: a crash of a task service in a     *)
(* window, or conditions that changed while a service did not answer.  The *)
(* table is complete again when it is built anew.                          *)
MissedAfter(m, answers) ==
  CASE m.type = "RES_CTRL_CONDITION_CHANGED"              -> IF answers THEN {} ELSE App
    [] m.type = "PHASE_TRANSIT" /\ ~ rl.isProxied         -> {}
    [] m.type = "SYS_ABILITY_STATUS_CHANGED" /\ rl.isIdle -> App
    [] OTHER                                              -> missed

RunningLockHandles(m, answers) ==
  LET new == HandleEvent(rl, m, answers = "all", proxied)
  IN  /\ rl' = new.rl /\ proxied' = new.proxied
      /\ stray' = (stray \/ (m.type = "RES_CTRL_CONDITION_CHANGED" /\ ~ rl.isProxied))
      /\ missed' = MissedAfter(m, answers = "all")

(* OnDestroy keeps the table; OnCreated resets the power manager.          *)
RunningLockRestarts ==
  /\ rl' = [rl EXCEPT !.isProxied = FALSE, !.isIdle = FALSE]
  /\ proxied' = {}
  /\ UNCHANGED <<stray, missed>>

-----------------------------------------------------------------------------
LockTypeOK ==
  /\ rl \in [isProxied : BOOLEAN, isIdle : BOOLEAN, info : [App -> Info]]
  /\ proxied \subseteq Pid /\ stray \in BOOLEAN /\ missed \subseteq App

(* Proxied locks are those of the recorded processes without exemption:    *)
(* the calls made message by message add up to what the table says, in     *)
(* and out of maintenance windows.                                         *)
ProxiedMatchesTable ==
  ~ stray /\ ~ stale => proxied = IF rl.isProxied /\ ~ rl.isIdle THEN Unexempted(rl.info) ELSE {}

(* When the device works and every transition has been handled, no         *)
(* running lock is proxied any more.                                       *)
AwakeNotProxied ==
  cur \in {"WORKING", "DARK", "NAP"} /\ ~ StatePending => stray \/ stale \/ proxied = {}

(* While the proxy is on, the table has every process that lives and none  *)
(* that died, whatever was created or died while it was built.             *)
TableKnowsProcesses ==
  rl.isProxied /\ queue = <<>> => \A a \in App \ missed : rl.info[a].pids = PidsOf(a)

(* No exemption outlives the task it was given for.                        *)
ExemptionEndsWithTask ==
  rl.isProxied /\ queue = <<>>
    => \A a \in App \ missed : rl.info[a].flags \cap TaskFlag \subseteq tasks[a]

(* "application in exemption list or with bgtask will not be proxied."     *)
ExemptNotProxied ==
  rl.isProxied /\ queue = <<>> /\ ~ stray /\ ~ stale
    => \A p \in proxied : tasks[AppOf[p]] = {} /\ "RUNNING_LOCK" \notin allowed[AppOf[p]]
=============================================================================
