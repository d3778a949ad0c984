---------------------------- MODULE NetworkStrategy ----------------------------
(***************************************************************************)
(* The network strategy (NetworkStrategy over BaseNetworkStrategy): in the *)
(* deep phase of sleep the idle policy of the network manager cuts off     *)
(* every application that is not on its trust list; the strategy puts the  *)
(* exempt ones there.  In a maintenance window the policy is off.          *)
(***************************************************************************)
EXTENDS StrategyInputs

VARIABLES
  ns,          \* isFirewallEnabled_, isIdleMaintence_, netLimitedAppInfo_
  net,         \* the network manager: its idle policy and its trust list
  heard        \* history: the table was built and has missed nothing since

netVars == <<ns, net, heard>>

NetInfo == [known : BOOLEAN, flags : SUBSET Flag]
Unknown == [known |-> FALSE, flags |-> {}]
AllUnknown == [a \in App |-> Unknown]

Off == [enabled |-> FALSE, isIdle |-> FALSE, info |-> AllUnknown]

NetWith(s, n) == [ns |-> s, net |-> n]

-----------------------------------------------------------------------------
(* Flags.                                                                  *)

IsFlagExempted(flags) ==
  IsExempted(flags) /\ (night => IsExempted(flags \ {"UNRESTRICTED"}))

(* Whether going from the one to the other makes an application exempt.    *)
GetExemptedFlag(without, with) ==
  /\ IsExempted(with)
  /\ ~ IsExempted(without) \/ (night /\ ~ IsExempted(without \ {"UNRESTRICTED"}))

(* A conditionally restricted application is so while nothing exempts it.  *)
Conditional(a, flags) ==
  flags \cup Given(a \in ConditionalApp /\ flags \subseteq {"UNRESTRICTED"}, "RESTRICTED")

(* At night no continuous task is exempt.                                  *)
ExemptTask(t) == t = "CONTINUOUS_TASK" => ~ night

NetInitFlags(a) ==
  Conditional(a, SystemFlags(a) \cup Given(a \in ForegroundApp, "FOREGROUND_APP")
                   \cup {t \in tasks[a] : ExemptTask(t)} \cup ListedFlags(a, "NETWORK"))

(* "none": the running processes are unknown; "some": a later service does *)
(* not answer, and the table keeps what was found out before.              *)
InitNetLimitedAppInfo(answers) ==
  [a \in App |->
     IF answers = "none" \/ ~ IsRunning(a) THEN Unknown
     ELSE [known |-> TRUE,
           flags |-> IF answers = "all" THEN NetInitFlags(a) ELSE SystemFlags(a)]]

(* GetExemptionConfigForApp: its tasks are not asked for.                  *)
NetCreatedFlags(a) == Conditional(a, SystemFlags(a) \cup ListedFlags(a, "NETWORK"))

NetGetAndCreateAppInfo(info, a) ==
  IF info[a].known THEN info
  ELSE [info EXCEPT ![a] = [known |-> TRUE, flags |-> NetCreatedFlags(a)]]

-----------------------------------------------------------------------------
(* The calls to the network manager.                                       *)

(* Mutant of SetFirewallAllowedList: nobody leaves the trust list.         *)
SetFirewallAllowedListAdds(s, apps, isAdded, n) ==
  IF isAdded THEN [n EXCEPT !.trust = @ \cup apps] ELSE n

SetFirewallAllowedList(s, apps, isAdded, n) ==
  CASE isAdded               -> [n EXCEPT !.trust = @ \cup apps]
    [] ~ isAdded /\ s.isIdle -> n
    [] OTHER                 -> [n EXCEPT !.trust = @ \ apps]

SetNetAllowApps(s, isAllow, n) ==
  SetFirewallAllowedList(
    s, {a \in App : s.info[a].known /\ IsFlagExempted(s.info[a].flags)}, isAllow, n)

SetFirewallStatus(s, enable, n) == [SetNetAllowApps(s, enable, n) EXCEPT !.policy = enable]

(* Mutant of ResetFirewallAllowList: the policy itself stays as it is.     *)
ResetFirewallAllowListOnly(n) == [n EXCEPT !.trust = {}]

ResetFirewallAllowList(n) == [policy |-> FALSE, trust |-> {}]

-----------------------------------------------------------------------------
(* Flags that come and go by message.                                      *)

(* Mutant of NetAddExemptionFlag: the network manager is not told.         *)
NetAddExemptionFlagOnly(s, a, f, n) ==
  IF ~ s.enabled THEN NetWith(s, n)
  ELSE NetWith([s EXCEPT !.info[a] = [known |-> TRUE, flags |-> @.flags \cup {f}]], n)

NetAddExemptionFlag(s, a, f, n) ==
  LET info == NetGetAndCreateAppInfo(s.info, a)
      old == info[a].flags
      new == (old \cup {f}) \ Given(a \in ConditionalApp, "RESTRICTED")
      next == [s EXCEPT !.info = [info EXCEPT ![a].flags = new]]
  IN  IF ~ s.enabled THEN NetWith(s, n)
      ELSE NetWith(next, IF GetExemptedFlag(old, new)
                         THEN SetFirewallAllowedList(next, {a}, TRUE, n) ELSE n)

NetRemoveExemptionFlag(s, a, f, n) ==
  LET old == s.info[a].flags
      new == Conditional(a, old \ {f})
      next == [s EXCEPT !.info[a].flags = new]
  IN  IF ~ s.enabled \/ ~ s.info[a].known THEN NetWith(s, n)
      ELSE NetWith(next, IF GetExemptedFlag(new, old)
                         THEN SetFirewallAllowedList(next, {a}, FALSE, n) ELSE n)

-----------------------------------------------------------------------------
(* The handlers of HandleEvent.                                            *)

NetUpdateExemptionList(s, m, n) ==
  IF "NETWORK" \notin m.allowType \/ ~ s.enabled THEN NetWith(s, n)
  ELSE IF m.added THEN NetAddExemptionFlag(s, m.app, "EXEMPTION", n)
       ELSE NetRemoveExemptionFlag(s, m.app, "EXEMPTION", n)

UpdateFirewallAllowList(s, answers, n) ==
  LET next == [s EXCEPT !.info = InitNetLimitedAppInfo(answers)]
  IN  IF answers # "all" THEN NetWith(next, ResetFirewallAllowList(n))
      ELSE NetWith([next EXCEPT !.enabled = TRUE],
                   SetFirewallStatus(next, TRUE, ResetFirewallAllowList(n)))

EnableNetworkFirewall(s, m, answers, n) ==
  LET next == [s EXCEPT !.info = InitNetLimitedAppInfo(answers)]
  IN  IF m.cur # "SLEEP" \/ m.phase # AppResDeep \/ s.enabled THEN NetWith(s, n)
      ELSE IF answers # "all" THEN NetWith(next, n)
      ELSE NetWith([next EXCEPT !.enabled = TRUE, !.isIdle = FALSE],
                   SetFirewallStatus(next, TRUE, n))

(* No transition leads to the state it comes from: the last guard of the   *)
(* code need not look at cur.                                              *)
DisableNetworkFirewall(s, m, n) ==
  CASE m.pre = "SLEEP" /\ m.cur = "MAINTENANCE" ->
         NetWith([s EXCEPT !.isIdle = TRUE, !.enabled = FALSE], SetFirewallStatus(s, FALSE, n))
    [] m.pre = "MAINTENANCE" /\ m.cur = "SLEEP" ->
         LET next == [s EXCEPT !.isIdle = FALSE, !.enabled = TRUE]
         IN  NetWith(next, SetFirewallStatus(next, TRUE, n))
    [] m.pre \in {"SLEEP", "MAINTENANCE"} /\ m.cur \notin {"SLEEP", "MAINTENANCE"} ->
         NetWith(Off, ResetFirewallAllowList(n))
    [] OTHER -> NetWith(s, n)

NetUpdateBgTaskAppStatus(s, m, n) ==
  CASE ~ s.enabled                       -> NetWith(s, n)
    [] s.enabled /\ ~ m.started          -> NetRemoveExemptionFlag(s, m.app, m.task, n)
    [] s.enabled /\ m.started /\ ~ ExemptTask(m.task) -> NetWith(s, n)
    [] OTHER                             -> NetAddExemptionFlag(s, m.app, m.task, n)

(* A process that died is forgotten with the last one of its application.  *)
NetHandleProcessStatusChanged(s, m, n) ==
  LET a == AppOf[m.pid]
      created == NetGetAndCreateAppInfo(s.info, a)
      call(info) == IF IsFlagExempted(info[a].flags)
                    THEN SetFirewallAllowedList(s, {a}, m.isCreated, n) ELSE n
  IN  CASE ~ s.enabled -> NetWith(s, n)
        [] s.enabled /\ m.isCreated -> NetWith([s EXCEPT !.info = created], call(created))
        [] s.enabled /\ ~ m.isCreated /\ ~ IsRunning(a) /\ s.info[a].known ->
             NetWith([s EXCEPT !.info[a] = Unknown], call(s.info))
        [] OTHER -> NetWith(s, n)

(* A message about a crashed service is not for this strategy.             *)
NetHandleEvent(s, m, answers, n) ==
  CASE m.type = "ALLOW_LIST_CHANGED"         -> NetUpdateExemptionList(s, m, n)
    [] m.type = "RES_CTRL_CONDITION_CHANGED" -> UpdateFirewallAllowList(s, answers, n)
    [] m.type = "PHASE_TRANSIT"              -> EnableNetworkFirewall(s, m, answers, n)
    [] m.type = "STATE_TRANSIT"              -> DisableNetworkFirewall(s, m, n)
    [] m.type = "BG_TASK_STATUS_CHANGE"      -> NetUpdateBgTaskAppStatus(s, m, n)
    [] m.type = "PROCESS_STATE_CHANGED"      -> NetHandleProcessStatusChanged(s, m, n)
    [] m.type = "SYS_ABILITY_STATUS_CHANGED" -> NetWith(s, n)

NetInit ==
  /\ ns = Off /\ net = [policy |-> FALSE, trust |-> {}]
  /\ heard = FALSE

(* The table hears of all applications from when it is built, with every   *)
(* service answering, until the strategy is off; what it misses is a crash *)
(* of a task service and all that is said in a window.                     *)
HeardAfter(m, answers) ==
  LET built == \/ m.type = "RES_CTRL_CONDITION_CHANGED"
               \/ m.type = "PHASE_TRANSIT" /\ m.cur = "SLEEP" /\ m.phase = AppResDeep
                  /\ ~ ns.enabled
  IN  CASE built                               -> answers = "all"
        [] m.type = "PHASE_TRANSIT" /\ ~ built -> heard
        [] m.type = "STATE_TRANSIT"            -> heard /\ m.cur \in {"SLEEP", "MAINTENANCE"}
        [] m.type = "SYS_ABILITY_STATUS_CHANGED" -> FALSE
        [] OTHER                               -> heard /\ ns.enabled

NetworkHandles(m, answers) ==
  LET new == NetHandleEvent(ns, m, answers, net)
  IN  /\ ns' = new.ns /\ net' = new.net
      /\ heard' = HeardAfter(m, answers)

(* OnDestroy and OnCreated reset the network manager only.                 *)
NetworkRestarts ==
  /\ net' = ResetFirewallAllowList(net)
  /\ UNCHANGED <<ns, heard>>

-----------------------------------------------------------------------------
NetTypeOK ==
  /\ ns \in [enabled : BOOLEAN, isIdle : BOOLEAN, info : [App -> NetInfo]]
  /\ net \in [policy : BOOLEAN, trust : SUBSET App]
  /\ heard \in BOOLEAN

(* When the device works and every transition has been handled, the idle   *)
(* policy is off, even if the service lost its readiness in between; and   *)
(* its trust list is empty again.                                          *)
AwakeNotLimited ==
  cur \in {"WORKING", "DARK", "NAP"} /\ ~ StatePending
    => ~ net.policy /\ (stale \/ net.trust = {})

(* Nobody stays on the trust list without a reason that still holds.       *)
TrustHasReason ==
  ns.enabled /\ heard /\ queue = <<>> /\ ~ switching /\ ~ stale
    => \A a \in net.trust : IsFlagExempted(NetInitFlags(a))

(* An application that runs and is on the allow list is on the trust list. *)
AllowedIsTrusted ==
  ns.enabled /\ heard /\ queue = <<>> /\ ~ stale
    => \A a \in App :
         IsRunning(a) /\ "NETWORK" \in allowed[a] => a \in net.trust
=============================================================================
