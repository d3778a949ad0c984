---------------------- MODULE NetworkStrategyProofs ----------------------
(***************************************************************************)
(* The network strategy keeps its promises for any applications, tasks and *)
(* configuration, and any length of the queue.                             *)
(***************************************************************************)
EXTENDS StandbyStrategiesProofs

-----------------------------------------------------------------------------
(* What the network strategy knows, told of state s.                       *)

NsType == [enabled : BOOLEAN, isIdle : BOOLEAN, info : [App -> NetInfo]]
NetType == [policy : BOOLEAN, trust : SUBSET App]

NetTold(s) ==
  /\ net.policy = TRUE => s \in Asleep
  /\ ~ stale /\ net.trust # {} => s \in Asleep
  /\ ~ stale /\ ns.enabled = TRUE => s = "SLEEP"
  /\ ~ stale /\ ns.isIdle = TRUE => s = "MAINTENANCE"
  /\ ~ stale /\ ns.enabled = FALSE /\ s = "SLEEP" => net.trust = {}
  /\ ~ stale /\ heard = TRUE =>
       /\ s \in Asleep
       /\ s = "SLEEP" => ns.enabled = TRUE
       /\ s = "MAINTENANCE" => net.trust = {}

Hears == heard = TRUE /\ ~ stale

Exempt(s, a) == s.info[a].known = TRUE /\ IsFlagExempted(s.info[a].flags)

(* Nobody but the exempt applications of the table is trusted.             *)
TrustedAreExempt == Hears => \A a \in net.trust : Exempt(ns, a)

CreatedNews(p) == Saying(ProcessNews(p) \cup ProcessTasks(p), TRUE)

(* A running application is in the table and trusted if it is exempt.      *)
RunningAreKnown ==
  Hears => \A p \in running :
    \/ Waits(queue, CreatedNews(p))
    \/ /\ ns.info[AppOf[p]].known = TRUE
       /\ ns.enabled = TRUE /\ Exempt(ns, AppOf[p]) => AppOf[p] \in net.trust

(* Whom the configuration exempts and restricts now.                       *)
Permitted == GetPersistAllowList("NETWORK", TRUE)
Prohibited == GetPersistAllowList("NETWORK", FALSE)

(* An application for which no flag ever hides that it is restricted.      *)
Unmoved(a) == a \notin ConditionalApp /\ \A rs \in AllowsOf[a] : "NETWORK" \notin rs

(* Every exemption was asked for.                                          *)
AllowsAsked ==
  \A a \in App : "NETWORK" \in allowed[a] => \E rs \in AllowsOf[a] : "NETWORK" \in rs

(* The flags of an application have reasons, and exemptions their flags.   *)
Reasons(a, flags, q) ==
  /\ "EXEMPTION" \in flags =>
       "NETWORK" \in allowed[a] \/ a \in Permitted \/ Waits(q, AllowNews(a))
  /\ "NETWORK" \in allowed[a] => "EXEMPTION" \in flags \/ Waits(q, AllowNews(a))
  /\ \A t \in TaskFlag : t \in flags =>
       ExemptTask(t) /\ (t \in tasks[a] \/ Waits(q, TaskNews(a, t)))
  /\ "FOREGROUND_APP" \in flags => a \in ForegroundApp
  /\ "UNRESTRICTED" \in flags => a \in SystemApp
  /\ a \in ConditionalApp => ~ (flags \subseteq {"UNRESTRICTED"})
  /\ Unmoved(a) /\ a \in Prohibited /\ a \notin Permitted => "RESTRICTED" \in flags

FlagsHaveReasons ==
  Hears => \A a \in App : ns.info[a].known = TRUE => Reasons(a, ns.info[a].flags, queue)

NetInv ==
  /\ InputsInv /\ NetTypeOK /\ AllowsAsked
  /\ TrustedAreExempt /\ RunningAreKnown /\ FlagsHaveReasons
  /\ \E f \in [0..Len(queue) -> State] : Chained(queue, f, cur) /\ NetTold(f[0])

-----------------------------------------------------------------------------
(* Flags.                                                                  *)

(* An application becomes exempt if it was not and is now.                 *)
LEMMA BecomesExempt ==
  ASSUME NEW old, NEW new
  PROVE  /\ GetExemptedFlag(old, new) <=> IsExempted(new) /\ ~ IsFlagExempted(old)
         /\ IsFlagExempted(old) => IsExempted(old)
BY DEF GetExemptedFlag, IsFlagExempted

(* One more flag exempts no less, and by day and night alike.              *)
LEMMA MoreFlags ==
  ASSUME NEW old, NEW f, f \notin {"UNRESTRICTED", "RESTRICTED"}, NEW gone,
         gone \subseteq {"RESTRICTED"}
  PROVE  LET new == (old \cup {f}) \ gone
         IN  /\ IsFlagExempted(old) => IsFlagExempted(new)
             /\ IsExempted(new) => IsFlagExempted(new)
<1> DEFINE new == (old \cup {f}) \ gone
<1>1. f \in new /\ f \in new \ {"UNRESTRICTED"}
  OBVIOUS
<1>2. IsExempted(old) => IsExempted(new)
  BY <1>1 DEF IsExempted
<1>3. IsExempted(new) => IsExempted(new \ {"UNRESTRICTED"})
  BY <1>1 DEF IsExempted
<1> HIDE DEF new
<1>4. QED  BY <1>2, <1>3 DEF IsFlagExempted, new

(* One flag less exempts no more.                                          *)
LEMMA FewerFlags ==
  ASSUME NEW old, NEW f, f # "RESTRICTED", NEW given, given \subseteq {"RESTRICTED"}
  PROVE  LET new == (old \ {f}) \cup given
         IN  IsFlagExempted(new) => IsFlagExempted(old)
<1> DEFINE new == (old \ {f}) \cup given
<1>1. IsExempted(new) => IsExempted(old)
  BY DEF IsExempted
<1>2. IsExempted(new \ {"UNRESTRICTED"}) => IsExempted(old \ {"UNRESTRICTED"})
  BY DEF IsExempted
<1> HIDE DEF new
<1>3. QED  BY <1>1, <1>2 DEF IsFlagExempted, new

(* The flags given at first.                                               *)
LEMMA FlagsTyped ==
  ASSUME NEW a \in App, tasks \in [App -> SUBSET TaskFlag]
  PROVE  /\ SystemFlags(a) \in SUBSET Flag /\ NetInitFlags(a) \in SUBSET Flag
         /\ NetCreatedFlags(a) \in SUBSET Flag
<1>1. \A b, f : f \in Flag => Given(b, f) \in SUBSET Flag
  BY DEF Given
<1>2. SystemFlags(a) \in SUBSET Flag /\ ListedFlags(a, "NETWORK") \in SUBSET Flag
  BY DEF SystemFlags, ListedFlags, Given, Flag
<1>3. \A flags \in SUBSET Flag : Conditional(a, flags) \in SUBSET Flag
  BY DEF Conditional, Given, Flag
<1>4. Given(a \in ForegroundApp, "FOREGROUND_APP") \in SUBSET Flag
  BY DEF Given, Flag
<1>5. {t \in tasks[a] : ExemptTask(t)} \in SUBSET Flag
  BY DEF Flag
<1>6. QED  BY <1>2, <1>3, <1>4, <1>5 DEF NetInitFlags, NetCreatedFlags

(* The table found out when every service answers, and otherwise.          *)
LEMMA TableBuilt ==
  ASSUME NEW answers, tasks \in [App -> SUBSET TaskFlag]
  PROVE  LET info == InitNetLimitedAppInfo(answers)
         IN  /\ info \in [App -> NetInfo]
             /\ answers = "all" => \A a \in App :
                  /\ info[a].known = TRUE => info[a].flags = NetInitFlags(a)
                  /\ info[a].known = TRUE <=> IsRunning(a)
<1> DEFINE info == InitNetLimitedAppInfo(answers)
<1> USE DEF InitNetLimitedAppInfo
<1>1. Unknown \in NetInfo /\ Unknown.known = FALSE
  BY DEF Unknown, NetInfo
<1>2. ASSUME NEW a \in App PROVE info[a] \in NetInfo
  BY <1>1, <1>2, FlagsTyped DEF NetInfo
<1>3. info \in [App -> NetInfo]
  BY <1>2
<1>4. ASSUME answers = "all", NEW a \in App
      PROVE  /\ info[a].known = TRUE => info[a].flags = NetInitFlags(a)
             /\ info[a].known = TRUE <=> IsRunning(a)
  <2>1. CASE IsRunning(a)
    BY <1>4, <2>1
  <2>2. CASE ~ IsRunning(a)
    BY <1>1, <2>2
  <2>3. QED  BY <2>1, <2>2
<1>5. QED  BY <1>3, <1>4

(* An exemption asked for does not concern an unmoved application.         *)
LEMMA NoneAsked ==
  ASSUME AllowsAsked, NEW a \in App, Unmoved(a) PROVE "NETWORK" \notin allowed[a]
BY DEF AllowsAsked, Unmoved

(* The flags given at first have reasons.                                  *)
LEMMA FirstReasons ==
  ASSUME AllowsAsked, NEW a \in App, NEW q, tasks \in [App -> SUBSET TaskFlag]
  PROVE  Reasons(a, NetInitFlags(a), q) /\ Reasons(a, NetCreatedFlags(a), q)
<1> DEFINE listed == ListedFlags(a, "NETWORK")
<1>1. /\ listed \subseteq {"EXEMPTION", "RESTRICTED"}
      /\ "EXEMPTION" \in listed <=> a \in GetAllowListInner("NETWORK")
      /\ "RESTRICTED" \in listed <=> a \in GetEligiableRestrictSet("NETWORK")
  BY DEF ListedFlags, Given
<1>2. a \in GetAllowListInner("NETWORK") <=> "NETWORK" \in allowed[a] \/ a \in Permitted
  BY DEF GetAllowListInner, Permitted
<1>3. Unmoved(a) /\ a \in Prohibited /\ a \notin Permitted => a \in GetEligiableRestrictSet("NETWORK")
  BY <1>2, NoneAsked DEF GetEligiableRestrictSet, Prohibited
<1>4. /\ SystemFlags(a) \subseteq {"UNRESTRICTED"}
      /\ "UNRESTRICTED" \in SystemFlags(a) => a \in SystemApp
  BY DEF SystemFlags, Given
<1> DEFINE front == Given(a \in ForegroundApp, "FOREGROUND_APP")
           work == {t \in tasks[a] : ExemptTask(t)}
<1>5. front \subseteq {"FOREGROUND_APP"} /\ ("FOREGROUND_APP" \in front => a \in ForegroundApp)
  BY DEF Given
<1>6. work \subseteq TaskFlag /\ \A t \in work : ExemptTask(t) /\ t \in tasks[a]
  OBVIOUS
<1>7. NetInitFlags(a) = Conditional(a, SystemFlags(a) \cup front \cup work \cup listed)
  BY DEF NetInitFlags
<1>8. NetCreatedFlags(a) = Conditional(a, SystemFlags(a) \cup listed)
  BY DEF NetCreatedFlags
<1> HIDE DEF listed, front, work
<1>9. ASSUME NEW flags
      PROVE  /\ flags \subseteq Conditional(a, flags)
             /\ Conditional(a, flags) \subseteq flags \cup {"RESTRICTED"}
             /\ a \in ConditionalApp => ~ (Conditional(a, flags) \subseteq {"UNRESTRICTED"})
  BY DEF Conditional, Given
<1>10. ASSUME NEW base,
              base \subseteq SystemFlags(a) \cup front \cup work \cup listed,
              listed \subseteq base
       PROVE  Reasons(a, Conditional(a, base), q)
  <2> DEFINE flags == Conditional(a, base)
  <2>1. /\ base \subseteq flags /\ flags \subseteq base \cup {"RESTRICTED"}
        /\ a \in ConditionalApp => ~ (flags \subseteq {"UNRESTRICTED"})
    BY <1>9
  <2> HIDE DEF flags
  <2>2. "EXEMPTION" \in flags <=> "EXEMPTION" \in listed
    BY <1>1, <1>4, <1>5, <1>6, <1>10, <2>1 DEF TaskFlag
  <2>3. \A t \in TaskFlag : t \in flags => t \in work
    BY <1>1, <1>4, <1>5, <1>6, <1>10, <2>1 DEF TaskFlag
  <2>4. "FOREGROUND_APP" \in flags => a \in ForegroundApp
    BY <1>1, <1>4, <1>5, <1>6, <1>10, <2>1 DEF TaskFlag
  <2>5. "UNRESTRICTED" \in flags => a \in SystemApp
    BY <1>1, <1>4, <1>5, <1>6, <1>10, <2>1 DEF TaskFlag
  <2>6. Unmoved(a) /\ a \in Prohibited /\ a \notin Permitted => "RESTRICTED" \in flags
    BY <1>1, <1>3, <1>10, <2>1
  <2>7. Reasons(a, flags, q)
    BY <1>1, <1>2, <1>6, <2>1, <2>2, <2>3, <2>4, <2>5, <2>6 DEF Reasons
  <2>8. QED  BY <2>7 DEF flags
<1>11. QED  BY <1>7, <1>8, <1>10
-----------------------------------------------------------------------------
(* The handlers that concern one application, while the strategy is on.    *)

(* Nothing but the application's record and its place on the trust list.   *)
OneApp(s, n, a, r) ==
  /\ r.ns \in NsType /\ r.net \in NetType
  /\ r.ns.enabled = s.enabled /\ r.ns.isIdle = s.isIdle /\ r.net.policy = n.policy
  /\ \A b \in App \ {a} : r.ns.info[b] = s.info[b] /\ (b \in r.net.trust <=> b \in n.trust)

(* It stays trusted only if it is exempt, and is trusted if it becomes so. *)
Trusts(s, n, a, r) ==
  /\ (a \in n.trust => Exempt(s, a)) => (a \in r.net.trust => Exempt(r.ns, a))
  /\ Exempt(r.ns, a) =>
       a \in r.net.trust \/ s.info[a].known = FALSE \/ (Exempt(s, a) /\ a \notin n.trust)

(* The strategy is on.                                                     *)
On(s, n) == s \in NsType /\ n \in NetType /\ s.enabled = TRUE

FlagsBefore(s, a) == IF s.info[a].known = TRUE THEN s.info[a].flags ELSE NetCreatedFlags(a)

(* The record found or created.                                            *)
LEMMA RecordCreated ==
  ASSUME NEW s \in NsType, NEW a \in App, tasks \in [App -> SUBSET TaskFlag]
  PROVE  LET info == NetGetAndCreateAppInfo(s.info, a)
         IN  /\ info \in [App -> NetInfo] /\ info[a].known = TRUE
             /\ info[a].flags = FlagsBefore(s, a)
             /\ \A b \in App \ {a} : info[b] = s.info[b]
<1>1. s.info \in [App -> NetInfo] /\ s.info[a].known \in BOOLEAN
  BY DEF NsType, NetInfo
<1>2. [known |-> TRUE, flags |-> NetCreatedFlags(a)] \in NetInfo
  BY FlagsTyped DEF NetInfo
<1>3. QED  BY <1>1, <1>2 DEF NetGetAndCreateAppInfo, FlagsBefore

(* What adding and removing a flag come to.                                *)
Added(s, n, a, f, r) ==
  /\ OneApp(s, n, a, r) /\ Trusts(s, n, a, r) /\ r.ns.info[a].known = TRUE
  /\ r.ns.info[a].flags = (FlagsBefore(s, a) \cup {f}) \ Given(a \in ConditionalApp, "RESTRICTED")

Removed(s, n, a, f, r) ==
  /\ OneApp(s, n, a, r) /\ (s.isIdle = FALSE => Trusts(s, n, a, r))
  /\ r.ns.info[a].known = TRUE /\ r.ns.info[a].flags = Conditional(a, s.info[a].flags \ {f})

(* A flag that exempts is added.                                           *)
LEMMA NetAddExemptionFlagDoes ==
  ASSUME NEW s, NEW n, On(s, n), NEW a \in App, tasks \in [App -> SUBSET TaskFlag],
         NEW f \in Flag, f \notin {"UNRESTRICTED", "RESTRICTED"}
  PROVE  Added(s, n, a, f, NetAddExemptionFlag(s, a, f, n))
<1> DEFINE info == NetGetAndCreateAppInfo(s.info, a)
           old == info[a].flags
           gone == Given(a \in ConditionalApp, "RESTRICTED")
           new == (old \cup {f}) \ gone
           next == [s EXCEPT !.info = [info EXCEPT ![a].flags = new]]
           added == SetFirewallAllowedList(next, {a}, TRUE, n)
           k == IF GetExemptedFlag(old, new) THEN added ELSE n
           r == NetAddExemptionFlag(s, a, f, n)
<1>1. s \in NsType /\ n \in NetType /\ s.enabled = TRUE /\ s.isIdle \in BOOLEAN
  BY DEF On, NsType
<1>2. /\ info \in [App -> NetInfo] /\ info[a].known = TRUE
      /\ info[a].flags = FlagsBefore(s, a) /\ \A b \in App \ {a} : info[b] = s.info[b]
  BY <1>1, RecordCreated
<1>3. gone \subseteq {"RESTRICTED"}
  BY DEF Given
<1>4. r.ns = next /\ r.net = k
  BY <1>1 DEF NetAddExemptionFlag, NetWith
<1>5. old \in SUBSET Flag
  BY <1>2 DEF NetInfo
<1> HIDE DEF info, gone
<1>6. new \in SUBSET Flag
  BY <1>5
<1>7. /\ IsFlagExempted(old) => IsFlagExempted(new)
      /\ IsExempted(new) => IsFlagExempted(new)
  BY <1>3, MoreFlags
<1>8. /\ next \in NsType /\ next.enabled = s.enabled /\ next.isIdle = s.isIdle
      /\ next.info[a].known = TRUE /\ next.info[a].flags = new
      /\ \A b \in App \ {a} : next.info[b] = s.info[b]
  <2> HIDE DEF new
  <2>1. QED  BY <1>1, <1>2, <1>6 DEF NsType, NetInfo
<1> HIDE DEF next, new, old
<1>9. /\ added \in NetType /\ added.policy = n.policy /\ a \in added.trust
      /\ \A c \in App \ {a} : c \in added.trust <=> c \in n.trust
  BY <1>1, <1>8 DEF SetFirewallAllowedList, NetType
<1>10. GetExemptedFlag(old, new) <=> IsExempted(new) /\ ~ IsFlagExempted(old)
  BY BecomesExempt
<1> HIDE DEF added
<1>11. OneApp(s, n, a, r)
  <2>1. /\ k \in NetType /\ k.policy = n.policy
        /\ \A c \in App \ {a} : c \in k.trust <=> c \in n.trust
    BY <1>1, <1>9
  <2> HIDE DEF k, r
  <2>2. QED  BY <1>4, <1>8, <2>1 DEF OneApp
<1>12. Trusts(s, n, a, r)
  <2>1. s.info[a].known \in BOOLEAN
    BY <1>1 DEF NsType, NetInfo
  <2>2. s.info[a].known = TRUE => old = s.info[a].flags
    BY <1>2 DEF FlagsBefore, old
  <2>3. IsFlagExempted(new) => IsExempted(new)
    BY BecomesExempt
  <2>4. k.trust = IF IsExempted(new) /\ ~ IsFlagExempted(old) THEN added.trust ELSE n.trust
    BY <1>10
  <2> HIDE DEF k, r
  <2>5. QED  BY <1>4, <1>7, <1>8, <1>9, <2>1, <2>2, <2>3, <2>4 DEF Trusts, Exempt
<1>13. r.ns.info[a].flags = (FlagsBefore(s, a) \cup {f}) \ gone
  BY <1>2, <1>4, <1>8 DEF new, old
<1> HIDE DEF r, k
<1>14. QED  BY <1>4, <1>8, <1>11, <1>12, <1>13 DEF gone, Added, r

(* A flag that exempts is taken away.                                      *)
LEMMA NetRemoveExemptionFlagDoes ==
  ASSUME NEW s, NEW n, On(s, n), NEW a \in App, NEW f \in Flag, f # "RESTRICTED",
         s.info[a].known = TRUE
  PROVE  Removed(s, n, a, f, NetRemoveExemptionFlag(s, a, f, n))
<1> DEFINE old == s.info[a].flags
           base == old \ {f}
           given == Given(a \in ConditionalApp /\ base \subseteq {"UNRESTRICTED"}, "RESTRICTED")
           new == base \cup given
           next == [s EXCEPT !.info[a].flags = new]
           removed == SetFirewallAllowedList(next, {a}, FALSE, n)
           k == IF GetExemptedFlag(new, old) THEN removed ELSE n
           r == NetRemoveExemptionFlag(s, a, f, n)
<1>1. s \in NsType /\ n \in NetType /\ s.enabled = TRUE /\ s.isIdle \in BOOLEAN
  BY DEF On, NsType
<1>2. given \subseteq {"RESTRICTED"} /\ new = Conditional(a, base)
  BY DEF Given, Conditional
<1>3. r.ns = next /\ r.net = k
  BY <1>1 DEF NetRemoveExemptionFlag, NetWith, Conditional
<1>4. old \in SUBSET Flag
  BY <1>1 DEF NsType, NetInfo
<1> HIDE DEF given
<1>5. new \in SUBSET Flag
  BY <1>2, <1>4 DEF Flag
<1>6. IsFlagExempted(new) => IsFlagExempted(old)
  BY <1>2, FewerFlags
<1>7. /\ next \in NsType /\ next.enabled = s.enabled /\ next.isIdle = s.isIdle
      /\ next.info[a].known = TRUE /\ next.info[a].flags = new
      /\ \A b \in App \ {a} : next.info[b] = s.info[b]
  <2> HIDE DEF new
  <2>1. QED  BY <1>1, <1>5 DEF NsType, NetInfo
<1> HIDE DEF next, new
<1>8. /\ removed \in NetType /\ removed.policy = n.policy
      /\ s.isIdle = FALSE => a \notin removed.trust
      /\ \A c \in App \ {a} : c \in removed.trust <=> c \in n.trust
  <2>1. CASE next.isIdle = TRUE
    BY <1>1, <1>7, <2>1 DEF SetFirewallAllowedList
  <2>2. CASE next.isIdle = FALSE
    BY <1>1, <1>7, <2>2 DEF SetFirewallAllowedList, NetType
  <2>3. QED  BY <1>1, <1>7, <2>1, <2>2
<1>9. /\ GetExemptedFlag(new, old) <=> IsExempted(old) /\ ~ IsFlagExempted(new)
      /\ IsFlagExempted(old) => IsExempted(old)
  BY BecomesExempt
<1> HIDE DEF removed
<1>10. OneApp(s, n, a, r)
  <2>1. /\ k \in NetType /\ k.policy = n.policy
        /\ \A c \in App \ {a} : c \in k.trust <=> c \in n.trust
    BY <1>1, <1>8
  <2> HIDE DEF k, r
  <2>2. QED  BY <1>3, <1>7, <2>1 DEF OneApp
<1>11. ASSUME s.isIdle = FALSE PROVE Trusts(s, n, a, r)
  <2>1. k.trust = IF IsExempted(old) /\ ~ IsFlagExempted(new) THEN removed.trust ELSE n.trust
    BY <1>9
  <2> HIDE DEF k, r
  <2>2. QED  BY <1>3, <1>6, <1>7, <1>8, <1>9, <1>11, <2>1 DEF Trusts, Exempt
<1> HIDE DEF r, k
<1>12. QED  BY <1>2, <1>3, <1>7, <1>10, <1>11 DEF Removed, r
(* A process was created or died.                                          *)
LEMMA NetHandleProcessStatusChangedDoes ==
  ASSUME NEW s, NEW n, On(s, n), tasks \in [App -> SUBSET TaskFlag],
         NEW m, m.pid \in Pid, m.isCreated \in BOOLEAN
  PROVE  LET r == NetHandleProcessStatusChanged(s, m, n)
             a == AppOf[m.pid]
         IN  /\ OneApp(s, n, a, r)
             /\ m.isCreated = TRUE =>
                  /\ r.ns.info[a].known = TRUE /\ r.ns.info[a].flags = FlagsBefore(s, a)
                  /\ (a \in n.trust => Exempt(s, a)) => (a \in r.net.trust => Exempt(r.ns, a))
                  /\ Exempt(r.ns, a) => a \in r.net.trust
             /\ m.isCreated = FALSE =>
                  \/ r.ns = s /\ r.net = n /\ (s.info[a].known = FALSE \/ IsRunning(a))
                  \/ /\ r.ns.info[a].known = FALSE /\ ~ IsRunning(a)
                     /\ s.isIdle = FALSE /\ (a \in n.trust => Exempt(s, a))
                          => a \notin r.net.trust
<1> DEFINE a == AppOf[m.pid]
           info == NetGetAndCreateAppInfo(s.info, a)
           r == NetHandleProcessStatusChanged(s, m, n)
<1>1. s \in NsType /\ n \in NetType /\ s.enabled = TRUE /\ s.isIdle \in BOOLEAN
  BY DEF On, NsType
<1>2. a \in App
  BY AppAssumption
<1>3. s.info \in [App -> NetInfo] /\ s.info[a].known \in BOOLEAN
  BY <1>1, <1>2 DEF NsType, NetInfo
<1> HIDE DEF a
<1> DEFINE k == SetFirewallAllowedList(s, {a}, m.isCreated, n)
<1>4. /\ k \in NetType /\ k.policy = n.policy
      /\ \A c \in App \ {a} : c \in k.trust <=> c \in n.trust
      /\ m.isCreated = TRUE => a \in k.trust
      /\ m.isCreated = FALSE /\ s.isIdle = FALSE => a \notin k.trust
  <2>1. CASE m.isCreated = TRUE
    BY <1>1, <1>2, <2>1 DEF SetFirewallAllowedList, NetType
  <2>2. CASE m.isCreated = FALSE /\ s.isIdle = TRUE
    BY <1>1, <2>2 DEF SetFirewallAllowedList
  <2>3. CASE m.isCreated = FALSE /\ s.isIdle = FALSE
    BY <1>1, <1>2, <2>3 DEF SetFirewallAllowedList, NetType
  <2>4. QED  BY <1>1, <2>1, <2>2, <2>3
<1>5. CASE m.isCreated = TRUE
  <2> DEFINE next == [s EXCEPT !.info = info]
             call == IF IsFlagExempted(info[a].flags) THEN k ELSE n
  <2>1. r.ns = next /\ r.net = call
    BY <1>1, <1>5 DEF NetHandleProcessStatusChanged, NetWith, a
  <2>2. /\ info \in [App -> NetInfo] /\ info[a].known = TRUE
        /\ info[a].flags = FlagsBefore(s, a) /\ \A b \in App \ {a} : info[b] = s.info[b]
    BY <1>1, <1>2, RecordCreated
  <2> HIDE DEF info, k
  <2>3. /\ next \in NsType /\ next.enabled = s.enabled /\ next.isIdle = s.isIdle
        /\ next.info = info
    BY <1>1, <2>2 DEF NsType
  <2>4. s.info[a].known = TRUE => s.info[a].flags = info[a].flags
    BY <2>2 DEF FlagsBefore
  <2> HIDE DEF next
  <2>5. OneApp(s, n, a, r)
    <3>1. /\ call \in NetType /\ call.policy = n.policy
          /\ \A c \in App \ {a} : c \in call.trust <=> c \in n.trust
      BY <1>1, <1>4
    <3> HIDE DEF call, r
    <3>2. QED  BY <2>1, <2>2, <2>3, <3>1 DEF OneApp
  <2>6. IsFlagExempted(info[a].flags) => a \in call.trust
    BY <1>4, <1>5
  <2>7. (a \in n.trust => Exempt(s, a)) => (a \in call.trust => IsFlagExempted(info[a].flags))
    BY <2>4 DEF Exempt
  <2> HIDE DEF call, r
  <2>8. QED  BY <1>5, <2>1, <2>2, <2>3, <2>5, <2>6, <2>7 DEF Exempt, a, r
<1>6. CASE m.isCreated = FALSE /\ (IsRunning(a) \/ s.info[a].known = FALSE)
  <2>1. r = NetWith(s, n)
    <3>1. CASE IsRunning(a)
      BY <1>1, <1>6, <3>1 DEF NetHandleProcessStatusChanged, a
    <3>2. CASE ~ IsRunning(a) /\ s.info[a].known = FALSE
      BY <1>1, <1>6, <3>2 DEF NetHandleProcessStatusChanged, a
    <3>3. QED  BY <1>6, <3>1, <3>2
  <2>2. r.ns = s /\ r.net = n
    BY <2>1 DEF NetWith
  <2> HIDE DEF r
  <2>3. OneApp(s, n, a, r)
    BY <1>1, <2>2 DEF OneApp
  <2>4. QED  BY <1>6, <2>2, <2>3 DEF a, r
<1>7. CASE m.isCreated = FALSE /\ ~ IsRunning(a) /\ s.info[a].known = TRUE
  <2> DEFINE next == [s EXCEPT !.info[a] = Unknown]
             call == IF IsFlagExempted(s.info[a].flags) THEN k ELSE n
  <2>1. r.ns = next /\ r.net = call
    BY <1>1, <1>7 DEF NetHandleProcessStatusChanged, NetWith, a
  <2>2. Unknown \in NetInfo /\ Unknown.known = FALSE
    BY DEF Unknown, NetInfo
  <2>3. /\ next \in NsType /\ next.enabled = s.enabled /\ next.isIdle = s.isIdle
        /\ next.info[a].known = FALSE /\ \A b \in App \ {a} : next.info[b] = s.info[b]
    BY <1>1, <1>2, <1>3, <2>2 DEF NsType
  <2> HIDE DEF next, k
  <2>4. OneApp(s, n, a, r)
    <3>1. /\ call \in NetType /\ call.policy = n.policy
          /\ \A c \in App \ {a} : c \in call.trust <=> c \in n.trust
      BY <1>1, <1>4
    <3> HIDE DEF call, r
    <3>2. QED  BY <2>1, <2>3, <3>1 DEF OneApp
  <2>5. s.isIdle = FALSE /\ (a \in n.trust => Exempt(s, a)) => a \notin call.trust
    BY <1>4, <1>7 DEF Exempt
  <2> HIDE DEF call, r
  <2>6. QED  BY <1>7, <2>1, <2>3, <2>4, <2>5 DEF a, r
<1>8. QED  BY <1>3, <1>5, <1>6, <1>7 DEF a
-----------------------------------------------------------------------------
(* The handlers that switch the idle policy.                               *)

SwitchedOn(s, n) == SetFirewallStatus(s, TRUE, n)
SwitchedOff(s, n) == SetFirewallStatus(s, FALSE, n)

(* The policy goes on, and the exempt applications are trusted.            *)
LEMMA SwitchedOnDoes ==
  ASSUME NEW s \in NsType, NEW n \in NetType
  PROVE  LET k == SwitchedOn(s, n)
         IN  k \in NetType /\ \A a \in App : a \in k.trust <=> a \in n.trust \/ Exempt(s, a)
<1> DEFINE apps == {a \in App : s.info[a].known /\ IsFlagExempted(s.info[a].flags)}
           k == SwitchedOn(s, n)
<1>1. \A a \in App : a \in apps <=> Exempt(s, a)
  BY DEF Exempt, NsType, NetInfo
<1>2. apps \subseteq App
  OBVIOUS
<1>3. k = [[n EXCEPT !.trust = @ \cup apps] EXCEPT !.policy = TRUE]
  BY DEF SwitchedOn, SetFirewallStatus, SetNetAllowApps, SetFirewallAllowedList
<1> HIDE DEF apps, k
<1>4. k \in NetType /\ k.trust = n.trust \cup apps
  BY <1>2, <1>3 DEF NetType
<1>5. QED  BY <1>1, <1>4 DEF k

(* The policy goes off, and the exempt applications are trusted no more.   *)
LEMMA SwitchedOffDoes ==
  ASSUME NEW s \in NsType, NEW n \in NetType
  PROVE  LET k == SwitchedOff(s, n)
         IN  /\ k \in NetType /\ k.policy = FALSE
             /\ s.isIdle = FALSE =>
                  \A a \in App : a \in k.trust <=> a \in n.trust /\ ~ Exempt(s, a)
<1> DEFINE apps == {a \in App : s.info[a].known /\ IsFlagExempted(s.info[a].flags)}
           k == SwitchedOff(s, n)
<1>1. \A a \in App : a \in apps <=> Exempt(s, a)
  BY DEF Exempt, NsType, NetInfo
<1>2. s.isIdle \in BOOLEAN
  BY DEF NsType
<1>3. CASE s.isIdle = TRUE
  <2>1. k = [n EXCEPT !.policy = FALSE]
    BY <1>3 DEF SwitchedOff, SetFirewallStatus, SetNetAllowApps, SetFirewallAllowedList
  <2> HIDE DEF k
  <2>2. QED  BY <1>3, <2>1 DEF NetType, k
<1>4. CASE s.isIdle = FALSE
  <2>1. k = [[n EXCEPT !.trust = @ \ apps] EXCEPT !.policy = FALSE]
    BY <1>4 DEF SwitchedOff, SetFirewallStatus, SetNetAllowApps, SetFirewallAllowedList
  <2> HIDE DEF k, apps
  <2>2. k \in NetType /\ k.policy = FALSE /\ k.trust = n.trust \ apps
    BY <2>1 DEF NetType
  <2>3. QED  BY <1>1, <1>4, <2>2 DEF k
<1>5. QED  BY <1>2, <1>3, <1>4

(* The table is the one found out now.                                     *)
Built(info) ==
  \A a \in App : /\ info[a].known = TRUE => info[a].flags = NetInitFlags(a)
                 /\ info[a].known = TRUE <=> IsRunning(a)

(* The table is found out anew.                                            *)
LEMMA UpdateFirewallAllowListDoes ==
  ASSUME NEW s \in NsType, NEW n \in NetType, NEW answers,
         tasks \in [App -> SUBSET TaskFlag]
  PROVE  LET r == UpdateFirewallAllowList(s, answers, n)
         IN  /\ r.ns \in NsType /\ r.net \in NetType /\ r.ns.isIdle = s.isIdle
             /\ answers # "all" =>
                  r.ns.enabled = s.enabled /\ r.net.trust = {} /\ r.net.policy = FALSE
             /\ answers = "all" =>
                  /\ r.ns.enabled = TRUE /\ Built(r.ns.info)
                  /\ \A a \in App : a \in r.net.trust <=> Exempt(r.ns, a)
<1> DEFINE info == InitNetLimitedAppInfo(answers)
           next == [s EXCEPT !.info = info]
           on == [next EXCEPT !.enabled = TRUE]
           none == ResetFirewallAllowList(n)
           r == UpdateFirewallAllowList(s, answers, n)
<1>1. info \in [App -> NetInfo] /\ (answers = "all" => Built(info))
  BY TableBuilt DEF Built
<1> HIDE DEF info
<1>2. next \in NsType /\ next.isIdle = s.isIdle /\ next.enabled = s.enabled /\ next.info = info
  BY <1>1 DEF NsType
<1>3. none \in NetType /\ none.trust = {} /\ none.policy = FALSE
  BY DEF ResetFirewallAllowList, NetType
<1>4. CASE answers # "all"
  <2>1. r.ns = next /\ r.net = none
    BY <1>4 DEF UpdateFirewallAllowList, NetWith, info
  <2> HIDE DEF r, next, none
  <2>2. QED  BY <1>2, <1>3, <1>4, <2>1 DEF r
<1>5. CASE answers = "all"
  <2>1. r.ns = on /\ r.net = SwitchedOn(next, none)
    BY <1>5 DEF UpdateFirewallAllowList, NetWith, info, SwitchedOn
  <2> HIDE DEF r, next, none
  <2>2. on \in NsType /\ on.isIdle = s.isIdle /\ on.enabled = TRUE /\ on.info = info
    BY <1>2 DEF NsType
  <2>3. /\ SwitchedOn(next, none) \in NetType
        /\ \A a \in App : a \in SwitchedOn(next, none).trust <=> Exempt(next, a)
    BY <1>2, <1>3, SwitchedOnDoes
  <2>4. \A a \in App : Exempt(next, a) <=> Exempt(on, a)
    BY <1>2, <2>2 DEF Exempt
  <2> HIDE DEF on
  <2>5. QED  BY <1>1, <1>5, <2>1, <2>2, <2>3, <2>4 DEF r
<1>6. QED  BY <1>4, <1>5

(* A phase ended; the deep phase of sleep switches the policy on.          *)
LEMMA EnableNetworkFirewallDoes ==
  ASSUME NEW s \in NsType, NEW n \in NetType, NEW answers, NEW m,
         tasks \in [App -> SUBSET TaskFlag]
  PROVE  LET r == EnableNetworkFirewall(s, m, answers, n)
             deep == m.cur = "SLEEP" /\ m.phase = AppResDeep /\ s.enabled = FALSE
         IN  /\ r.ns \in NsType /\ r.net \in NetType
             /\ ~ deep => r.ns = s /\ r.net = n
             /\ deep /\ answers # "all" =>
                  r.ns.enabled = s.enabled /\ r.ns.isIdle = s.isIdle /\ r.net = n
             /\ deep /\ answers = "all" =>
                  /\ r.ns.enabled = TRUE /\ r.ns.isIdle = FALSE /\ Built(r.ns.info)
                  /\ \A a \in App : a \in r.net.trust <=> a \in n.trust \/ Exempt(r.ns, a)
<1> DEFINE info == InitNetLimitedAppInfo(answers)
           next == [s EXCEPT !.info = info]
           on == [next EXCEPT !.enabled = TRUE, !.isIdle = FALSE]
           deep == m.cur = "SLEEP" /\ m.phase = AppResDeep /\ s.enabled = FALSE
           r == EnableNetworkFirewall(s, m, answers, n)
<1>1. info \in [App -> NetInfo] /\ (answers = "all" => Built(info))
  BY TableBuilt DEF Built
<1> HIDE DEF info
<1>2. next \in NsType /\ next.isIdle = s.isIdle /\ next.enabled = s.enabled /\ next.info = info
  BY <1>1 DEF NsType
<1>3. s.enabled \in BOOLEAN
  BY DEF NsType
<1>4. CASE ~ deep
  <2>1. r = NetWith(s, n)
    <3>1. CASE m.cur # "SLEEP" \/ m.phase # AppResDeep
      BY <3>1 DEF EnableNetworkFirewall
    <3>2. CASE s.enabled = TRUE
      BY <3>2 DEF EnableNetworkFirewall
    <3>3. QED  BY <1>3, <1>4, <3>1, <3>2
  <2>2. r.ns = s /\ r.net = n
    BY <2>1 DEF NetWith
  <2> HIDE DEF r
  <2>3. QED  BY <1>4, <2>2 DEF r
<1>5. CASE deep /\ answers # "all"
  <2>1. r.ns = next /\ r.net = n
    BY <1>5 DEF EnableNetworkFirewall, NetWith, info
  <2> HIDE DEF r, next
  <2>2. QED  BY <1>2, <1>5, <2>1 DEF r
<1>6. CASE deep /\ answers = "all"
  <2>1. r.ns = on /\ r.net = SwitchedOn(next, n)
    BY <1>6 DEF EnableNetworkFirewall, NetWith, info, SwitchedOn
  <2> HIDE DEF r, next
  <2>2. on \in NsType /\ on.isIdle = FALSE /\ on.enabled = TRUE /\ on.info = info
    BY <1>2 DEF NsType
  <2>3. /\ SwitchedOn(next, n) \in NetType
        /\ \A a \in App : a \in SwitchedOn(next, n).trust <=> a \in n.trust \/ Exempt(next, a)
    BY <1>2, SwitchedOnDoes
  <2>4. \A a \in App : Exempt(next, a) <=> Exempt(on, a)
    BY <1>2, <2>2 DEF Exempt
  <2> HIDE DEF on
  <2>5. QED  BY <1>1, <1>6, <2>1, <2>2, <2>3, <2>4 DEF r
<1>7. QED  BY <1>4, <1>5, <1>6

(* What a transition from pre to now makes of the strategy s.              *)
Switched(s, n, pre, now, r) ==
  /\ r.ns \in NsType /\ r.net \in NetType
  /\ \/ /\ pre = "SLEEP" /\ now = "MAINTENANCE"
        /\ r.ns.isIdle = TRUE /\ r.ns.enabled = FALSE /\ r.ns.info = s.info
        /\ s.isIdle = FALSE =>
             \A a \in App : a \in r.net.trust <=> a \in n.trust /\ ~ Exempt(s, a)
     \/ /\ pre = "MAINTENANCE" /\ now = "SLEEP"
        /\ r.ns.isIdle = FALSE /\ r.ns.enabled = TRUE /\ r.ns.info = s.info
        /\ \A a \in App : a \in r.net.trust <=> a \in n.trust \/ Exempt(s, a)
     \/ /\ pre \in Asleep /\ now \notin Asleep
        /\ r.ns.isIdle = FALSE /\ r.ns.enabled = FALSE
        /\ r.net.trust = {} /\ r.net.policy = FALSE
     \/ /\ pre \notin Asleep \/ pre = now
        /\ r.ns = s /\ r.net = n

(* A transition: a window opens or closes, or sleep ends.                  *)
LEMMA DisableNetworkFirewallDoes ==
  ASSUME NEW s \in NsType, NEW n \in NetType, NEW m
  PROVE  Switched(s, n, m.pre, m.cur, DisableNetworkFirewall(s, m, n))
<1> DEFINE r == DisableNetworkFirewall(s, m, n)
<1>1. CASE m.pre = "SLEEP" /\ m.cur = "MAINTENANCE"
  <2> DEFINE next == [s EXCEPT !.isIdle = TRUE, !.enabled = FALSE]
  <2>1. r.ns = next /\ r.net = SwitchedOff(s, n)
    BY <1>1 DEF DisableNetworkFirewall, NetWith, SwitchedOff
  <2>2. next \in NsType /\ next.isIdle = TRUE /\ next.enabled = FALSE /\ next.info = s.info
    BY DEF NsType
  <2> HIDE DEF next, r
  <2>3. QED  BY <1>1, <2>1, <2>2, SwitchedOffDoes DEF r, Switched
<1>2. CASE m.pre = "MAINTENANCE" /\ m.cur = "SLEEP"
  <2> DEFINE next == [s EXCEPT !.isIdle = FALSE, !.enabled = TRUE]
  <2>1. r.ns = next /\ r.net = SwitchedOn(next, n)
    BY <1>2 DEF DisableNetworkFirewall, NetWith, SwitchedOn
  <2>2. next \in NsType /\ next.isIdle = FALSE /\ next.enabled = TRUE /\ next.info = s.info
    BY DEF NsType
  <2> HIDE DEF next, r
  <2>3. \A a \in App : Exempt(next, a) <=> Exempt(s, a)
    BY <2>2 DEF Exempt
  <2>4. QED  BY <1>2, <2>1, <2>2, <2>3, SwitchedOnDoes DEF r, Switched
<1>3. CASE m.pre \in Asleep /\ m.cur \notin Asleep
  <2>1. r.ns = Off /\ r.net = ResetFirewallAllowList(n)
    BY <1>3 DEF DisableNetworkFirewall, NetWith, Asleep
  <2>2. Off \in NsType /\ Off.isIdle = FALSE /\ Off.enabled = FALSE
    BY DEF Off, NsType, AllUnknown, Unknown, NetInfo
  <2>3. /\ ResetFirewallAllowList(n) \in NetType /\ ResetFirewallAllowList(n).trust = {}
        /\ ResetFirewallAllowList(n).policy = FALSE
    BY DEF ResetFirewallAllowList, NetType
  <2> HIDE DEF r
  <2>4. QED  BY <1>3, <2>1, <2>2, <2>3 DEF r, Switched
<1>4. CASE m.pre \notin Asleep \/ (m.pre = m.cur /\ m.pre \in Asleep)
  <2>1. r = NetWith(s, n)
    BY <1>4 DEF DisableNetworkFirewall, Asleep
  <2>2. r.ns = s /\ r.net = n
    BY <2>1 DEF NetWith
  <2> HIDE DEF r
  <2>3. QED  BY <1>4, <2>2 DEF r, Switched
<1>5. QED  BY <1>1, <1>2, <1>3, <1>4 DEF Asleep
-----------------------------------------------------------------------------
(* The messages, one by one.                                               *)

(* What a message makes of the strategy, which is then told of state t.    *)
NetStep(t) ==
  /\ ns' \in NsType /\ net' \in NetType /\ heard' \in BOOLEAN /\ NetTold(t)'
  /\ TrustedAreExempt' /\ RunningAreKnown' /\ FlagsHaveReasons'

(* The strategy, told of s, is told of t by the first message.             *)
NetHandling(answers, s, t) ==
  /\ InputsInv /\ NetTypeOK /\ AllowsAsked /\ NetTold(s) /\ s \in State /\ Dispatched
  /\ TrustedAreExempt /\ RunningAreKnown /\ FlagsHaveReasons
  /\ answers \in Answers(Head(queue)) /\ NetworkHandles(Head(queue), answers)
  /\ Tells(Head(queue), s, t)

(* What stays and what changes when a message is handled.                  *)
NetMoves(answers) ==
  LET m == Head(queue)
      r == NetHandleEvent(ns, m, answers, net)
  IN  /\ queue \in Seq(HandlerTask) /\ queue # <<>> /\ queue' = Tail(queue)
      /\ m \in HandlerTask /\ m.type # "PROCESS_TASK"
      /\ cur' = cur /\ running' = running /\ tasks' = tasks /\ allowed' = allowed
      /\ night' = night /\ losses' = losses /\ (stale' <=> stale)
      /\ running \subseteq Pid /\ tasks \in [App -> SUBSET TaskFlag]
      /\ ns \in NsType /\ net \in NetType /\ heard \in BOOLEAN
      /\ ns' = r.ns /\ net' = r.net /\ heard' = HeardAfter(m, answers)

(* A message that is handled changes the network strategy and its history; *)
(* the device, the processes and the tasks stay.                           *)
LEMMA Moving ==
  ASSUME NEW answers, NEW s, NEW t, NetHandling(answers, s, t) PROVE NetMoves(answers)
<1>1. /\ queue \in Seq(HandlerTask) /\ queue # <<>> /\ queue' = Tail(queue)
      /\ Head(queue) \in HandlerTask /\ Head(queue).type # "PROCESS_TASK"
  BY DispatchedDoes DEF NetHandling
<1>2. /\ cur' = cur /\ running' = running /\ tasks' = tasks /\ allowed' = allowed
      /\ night' = night /\ losses' = losses
  BY DEF NetHandling, Dispatched
<1>3. running \subseteq Pid /\ tasks \in [App -> SUBSET TaskFlag]
  BY DEF NetHandling, InputsInv, InputsTypeOK
<1>4. ns \in NsType /\ net \in NetType /\ heard \in BOOLEAN
  BY DEF NetHandling, NetTypeOK, NsType, NetType
<1>5. stale' <=> stale
  BY <1>2 DEF stale
<1>6. QED  BY <1>1, <1>2, <1>3, <1>4, <1>5 DEF NetHandling, NetworkHandles, NetMoves

(* The first message about an exemption or a task is true, or more follow. *)
LEMMA HeadAllow ==
  ASSUME NEW answers, NetMoves(answers), InputsInv, NEW a \in App, Head(queue) \in AllowNews(a)
  PROVE  Head(queue).added = ("NETWORK" \in allowed[a]) \/ Waits(queue', AllowNews(a))
<1> DEFINE m == Head(queue)
           b == m.added
           x == b = ("NETWORK" \in allowed[a])
<1>1. queue \in Seq(HandlerTask) /\ queue # <<>> /\ queue' = Tail(queue) /\ m \in HandlerTask
  BY DEF NetMoves
<1>2. b \in BOOLEAN
  BY <1>1, Fields DEF AllowNews
<1>3. m \in AllowSaying(a, b)
  BY DEF AllowSaying
<1>4. Owes(queue, AllowSaying(a, b), AllowNews(a), x)
  BY <1>2 DEF InputsInv, News, AllowTrue
<1> HIDE DEF x
<1>5. x \/ Waits(queue', AllowNews(a))
  BY <1>1, <1>3, <1>4, OwesTail
<1>6. QED  BY <1>5 DEF x

(* The first message that a task started.                                  *)
LEMMA HeadTask ==
  ASSUME NEW answers, NetMoves(answers), InputsInv, NEW a \in App, NEW t \in TaskFlag,
         Head(queue) \in TaskStarted(a, t)
  PROVE  t \in tasks[a] \/ Waits(queue', TaskNews(a, t))
<1> DEFINE x == t \in tasks[a]
<1>1. queue \in Seq(HandlerTask) /\ queue # <<>> /\ queue' = Tail(queue)
  BY DEF NetMoves
<1>2. Owes(queue, TaskStarted(a, t), TaskNews(a, t), x)
  BY DEF InputsInv, News, TasksTrue
<1> HIDE DEF x
<1>3. x \/ Waits(queue', TaskNews(a, t))
  BY <1>1, <1>2, OwesTail
<1>4. QED  BY <1>3 DEF x

(* What the flags become by the first message m.                           *)
FlagStep(a, m, old, new) ==
  /\ m \notin AllowNews(a) => ("EXEMPTION" \in new <=> "EXEMPTION" \in old)
  /\ m \in AllowNews(a) => ("EXEMPTION" \in new <=> m.added = TRUE)
  /\ \A t \in TaskFlag : t \in new =>
       \/ t \in old /\ m \notin TaskNews(a, t)
       \/ m \in TaskStarted(a, t) /\ ExemptTask(t)
  /\ "FOREGROUND_APP" \in new => "FOREGROUND_APP" \in old
  /\ "UNRESTRICTED" \in new => "UNRESTRICTED" \in old
  /\ a \in ConditionalApp => ~ (new \subseteq {"UNRESTRICTED"})
  /\ a \notin ConditionalApp /\ "RESTRICTED" \in old => "RESTRICTED" \in new

(* They keep their reasons.                                                *)
LEMMA ReasonsStep ==
  ASSUME NEW answers, NetMoves(answers), InputsInv, NEW a \in App, NEW old, NEW new,
         Reasons(a, old, queue), FlagStep(a, Head(queue), old, new)
  PROVE  Reasons(a, new, queue')
<1> DEFINE m == Head(queue)
<1>1. queue \in Seq(HandlerTask) /\ queue # <<>> /\ queue' = Tail(queue) /\ m \in HandlerTask
  BY DEF NetMoves
<1>2. \A T : Waits(queue, T) => Waits(queue', T) \/ m \in T
  BY <1>1, WaitsTail
<1>3. /\ "EXEMPTION" \in new =>
           "NETWORK" \in allowed[a] \/ a \in Permitted \/ Waits(queue', AllowNews(a))
      /\ "NETWORK" \in allowed[a] => "EXEMPTION" \in new \/ Waits(queue', AllowNews(a))
  <2>1. CASE m \in AllowNews(a)
    <3>1. m.added \in BOOLEAN
      BY <1>1, <2>1, Fields DEF AllowNews
    <3>2. m.added = ("NETWORK" \in allowed[a]) \/ Waits(queue', AllowNews(a))
      BY <2>1, HeadAllow
    <3>3. QED  BY <2>1, <3>1, <3>2 DEF FlagStep
  <2>2. CASE m \notin AllowNews(a)
    BY <1>2, <2>2 DEF FlagStep, Reasons
  <2>3. QED  BY <2>1, <2>2
<1>4. ASSUME NEW t \in TaskFlag, t \in new
      PROVE  ExemptTask(t) /\ (t \in tasks[a] \/ Waits(queue', TaskNews(a, t)))
  <2>1. CASE t \in old /\ m \notin TaskNews(a, t)
    BY <1>2, <2>1 DEF Reasons
  <2>2. CASE m \in TaskStarted(a, t) /\ ExemptTask(t)
    BY <2>2, HeadTask
  <2>3. QED  BY <1>4, <2>1, <2>2 DEF FlagStep
<1>5. QED  BY <1>3, <1>4 DEF Reasons, FlagStep, Unmoved

(* The reasons after the step.                                             *)
LEMMA ReasonsAfter ==
  ASSUME allowed' = allowed, tasks' = tasks, night' = night,
         Hears' => \A a \in App : ns'.info[a].known = TRUE => Reasons(a, ns'.info[a].flags, queue')
  PROVE  FlagsHaveReasons'
<1>1. Permitted' = Permitted /\ Prohibited' = Prohibited
  BY DEF Permitted, Prohibited, GetPersistAllowList
<1>2. QED  BY <1>1 DEF FlagsHaveReasons, Reasons, ExemptTask

(* Who is trusted and known after the step.                                *)
LEMMA TrustAfter ==
  ASSUME night' = night, running' = running, running \subseteq Pid, net' \in NetType,
         Hears' => \A a \in App : a \in net'.trust => Exempt(ns', a),
         Hears' => \A p \in running :
           \/ Waits(queue', CreatedNews(p))
           \/ /\ ns'.info[AppOf[p]].known = TRUE
              /\ ns'.enabled = TRUE /\ Exempt(ns', AppOf[p]) => AppOf[p] \in net'.trust
  PROVE  TrustedAreExempt' /\ RunningAreKnown'
<1>1. \A a : Exempt(ns', a) <=> Exempt(ns, a)'
  BY DEF Exempt, IsFlagExempted
<1>2. net'.trust \subseteq App
  BY DEF NetType
<1>3. TrustedAreExempt'
  BY <1>1, <1>2 DEF TrustedAreExempt
<1>4. RunningAreKnown'
  BY <1>1 DEF RunningAreKnown
<1>5. QED  BY <1>3, <1>4
(* What was found or created had its reasons.                              *)
LEMMA ReasonsBefore ==
  ASSUME NEW answers, NEW s, NEW t, NetHandling(answers, s, t), Hears, NEW a \in App
  PROVE  Reasons(a, FlagsBefore(ns, a), queue)
<1>1. AllowsAsked /\ FlagsHaveReasons /\ tasks \in [App -> SUBSET TaskFlag]
  BY DEF NetHandling, InputsInv, InputsTypeOK
<1>2. CASE ns.info[a].known = TRUE
  BY <1>1, <1>2 DEF FlagsHaveReasons, FlagsBefore
<1>3. CASE ns.info[a].known # TRUE
  BY <1>1, <1>3, FirstReasons DEF FlagsBefore
<1>4. QED  BY <1>2, <1>3

(* The messages about one application.                                     *)
About(m, a) ==
  /\ m.type \in {"ALLOW_LIST_CHANGED", "BG_TASK_STATUS_CHANGE", "PROCESS_STATE_CHANGED"}
  /\ \A b \in App \ {a} : m \notin AllowNews(b) /\ \A u \in TaskFlag : m \notin TaskNews(b, u)
  /\ \A p \in Pid : AppOf[p] # a => m \notin CreatedNews(p)

(* While the strategy is off, they are not heard.                          *)
LEMMA OffHandled ==
  ASSUME NEW answers, NEW s, NEW t, NetHandling(answers, s, t), NEW a, About(Head(queue), a),
         ns.enabled # TRUE, ns' = ns, net' = net
  PROVE  NetStep(t)
<1>1. NetMoves(answers)
  BY Moving
<1>2. ns.enabled = FALSE
  BY <1>1 DEF NetMoves, NsType
<1>3. heard' = FALSE
  BY <1>1, <1>2 DEF NetMoves, HeardAfter, About
<1>4. t = s
  BY DEF NetHandling, Tells, About
<1>5. ~ Hears'
  BY <1>3 DEF Hears
<1>6. NetTold(t)'
  BY <1>1, <1>3, <1>4 DEF NetHandling, NetTold, NetMoves
<1>7. QED  BY <1>1, <1>3, <1>5, <1>6 DEF NetStep, TrustedAreExempt, RunningAreKnown, FlagsHaveReasons, NetMoves

(* While it is on, they change its record and its place on the trust list. *)
LEMMA OneAppHandled ==
  ASSUME NEW answers, NEW s, NEW t, NetHandling(answers, s, t),
         NEW a \in App, About(Head(queue), a), ns.enabled = TRUE,
         NEW r, ns' = r.ns, net' = r.net, OneApp(ns, net, a, r),
         Hears /\ ns.isIdle = FALSE =>
           /\ (a \in net.trust => Exempt(ns, a)) => (a \in r.net.trust => Exempt(r.ns, a))
           /\ \A p \in running : AppOf[p] = a =>
                \/ Waits(queue', CreatedNews(p))
                \/ /\ r.ns.info[a].known = TRUE
                   /\ Exempt(r.ns, a) => a \in r.net.trust
           /\ r.ns.info[a].known = TRUE => Reasons(a, r.ns.info[a].flags, queue')
  PROVE  NetStep(t)
<1> DEFINE m == Head(queue)
<1>1. NetMoves(answers)
  BY Moving
<1>2. /\ queue \in Seq(HandlerTask) /\ queue # <<>> /\ queue' = Tail(queue)
      /\ running' = running /\ tasks' = tasks /\ allowed' = allowed /\ night' = night
      /\ (stale' <=> stale) /\ running \subseteq Pid /\ ns \in NsType /\ heard \in BOOLEAN
  BY <1>1 DEF NetMoves
<1>3. heard' = (heard /\ ns.enabled)
  BY <1>1 DEF NetMoves, HeardAfter, About
<1>4. heard' = heard
  BY <1>2, <1>3
<1>5. t = s
  BY DEF NetHandling, Tells, About
<1>6. ns' \in NsType /\ net' \in NetType /\ ns'.enabled = TRUE /\ ns'.isIdle = ns.isIdle
      /\ net'.policy = net.policy
  BY DEF OneApp
<1>7. ~ stale => s = "SLEEP" /\ ns.isIdle = FALSE
  BY <1>2 DEF NetHandling, NetTold, NsType
<1>8. NetTold(t)'
  <2>1. net.policy = TRUE => s \in Asleep
    BY DEF NetHandling, NetTold
  <2>2. QED  BY <1>2, <1>5, <1>6, <1>7, <2>1 DEF NetTold, Asleep
<1>9. Hears' => Hears /\ ns.isIdle = FALSE
  BY <1>2, <1>4, <1>7 DEF Hears
<1>10. ASSUME Hears, NEW b \in App \ {a} PROVE Exempt(ns', b) <=> Exempt(ns, b)
  BY DEF OneApp, Exempt
<1>11. ASSUME Hears', NEW b \in App, b \in net'.trust PROVE Exempt(ns', b)
  <2>1. \A c \in net.trust : Exempt(ns, c)
    BY <1>9, <1>11 DEF NetHandling, TrustedAreExempt
  <2>2. CASE b = a
    BY <1>9, <1>11, <2>1, <2>2
  <2>3. CASE b # a
    BY <1>9, <1>10, <1>11, <2>1, <2>3 DEF OneApp
  <2>4. QED  BY <2>2, <2>3
<1>12. ASSUME Hears', NEW p \in running
       PROVE  \/ Waits(queue', CreatedNews(p))
              \/ /\ ns'.info[AppOf[p]].known = TRUE
                 /\ ns'.enabled = TRUE /\ Exempt(ns', AppOf[p]) => AppOf[p] \in net'.trust
  <2>1. CASE AppOf[p] = a
    BY <1>9, <1>12, <2>1
  <2>2. CASE AppOf[p] # a
    <3>1. p \in Pid /\ AppOf[p] \in App
      BY <1>2, AppAssumption
    <3>2. m \notin CreatedNews(p)
      BY <2>2, <3>1 DEF About
    <3>3. Waits(queue, CreatedNews(p)) => Waits(queue', CreatedNews(p))
      BY <1>2, <3>2, WaitsTail
    <3>4. \/ Waits(queue, CreatedNews(p))
          \/ /\ ns.info[AppOf[p]].known = TRUE
             /\ ns.enabled = TRUE /\ Exempt(ns, AppOf[p]) => AppOf[p] \in net.trust
      BY <1>9, <1>12 DEF NetHandling, RunningAreKnown
    <3>5. QED  BY <1>9, <1>10, <1>12, <2>2, <3>1, <3>3, <3>4 DEF OneApp
  <2>3. QED  BY <2>1, <2>2
<1>13. TrustedAreExempt' /\ RunningAreKnown'
  BY <1>2, <1>6, <1>11, <1>12, TrustAfter
<1>14. ASSUME Hears', NEW b \in App, ns'.info[b].known = TRUE
       PROVE  Reasons(b, ns'.info[b].flags, queue')
  <2>1. CASE b = a
    BY <1>9, <1>14, <2>1
  <2>2. CASE b # a
    <3>1. ns'.info[b] = ns.info[b]
      BY <2>2 DEF OneApp
    <3>2. Reasons(b, ns.info[b].flags, queue)
      BY <1>9, <1>14, <3>1 DEF NetHandling, FlagsHaveReasons
    <3>3. FlagStep(b, m, ns.info[b].flags, ns.info[b].flags)
      BY <2>2, <3>2 DEF FlagStep, Reasons, About
    <3>4. Reasons(b, ns.info[b].flags, queue')
      BY <1>1, <3>2, <3>3, ReasonsStep DEF NetHandling
    <3>5. QED  BY <3>1, <3>4
  <2>3. QED  BY <2>1, <2>2
<1>15. FlagsHaveReasons'
  BY <1>2, <1>14, ReasonsAfter
<1>16. QED  BY <1>2, <1>4, <1>6, <1>8, <1>13, <1>15 DEF NetStep

(* A message about its flags, which says nothing of processes.             *)
LEMMA FlagsHandledByNet ==
  ASSUME NEW answers, NEW s, NEW t, NetHandling(answers, s, t),
         NEW a \in App, About(Head(queue), a), ns.enabled = TRUE,
         Head(queue).type # "PROCESS_STATE_CHANGED",
         NEW r, ns' = r.ns, net' = r.net, OneApp(ns, net, a, r),
         ns.isIdle = FALSE => Trusts(ns, net, a, r),
         ns.info[a].known = TRUE => r.ns.info[a].known = TRUE,
         Hears /\ r.ns.info[a].known = TRUE =>
           FlagStep(a, Head(queue), FlagsBefore(ns, a), r.ns.info[a].flags)
  PROVE  NetStep(t)
<1>1. NetMoves(answers) /\ InputsInv
  BY Moving DEF NetHandling
<1>2. /\ queue \in Seq(HandlerTask) /\ queue # <<>> /\ queue' = Tail(queue)
      /\ running \subseteq Pid /\ ns \in NsType
      /\ Head(queue).type # "PROCESS_TASK"
  BY <1>1 DEF NetMoves
<1>3. ASSUME Hears, ns.isIdle = FALSE, NEW p \in running, AppOf[p] = a
      PROVE  \/ Waits(queue', CreatedNews(p))
             \/ /\ r.ns.info[a].known = TRUE
                /\ Exempt(r.ns, a) => a \in r.net.trust
  <2>1. Head(queue) \notin CreatedNews(p)
    BY <1>2 DEF CreatedNews, Saying, ProcessNews, ProcessTasks
  <2>2. Waits(queue, CreatedNews(p)) => Waits(queue', CreatedNews(p))
    BY <1>2, <2>1, WaitsTail
  <2>3. \/ Waits(queue, CreatedNews(p))
        \/ /\ ns.info[a].known = TRUE
           /\ Exempt(ns, a) => a \in net.trust
    BY <1>3 DEF NetHandling, RunningAreKnown
  <2>4. QED  BY <1>3, <2>2, <2>3 DEF Trusts
<1>4. ASSUME Hears, r.ns.info[a].known = TRUE PROVE Reasons(a, r.ns.info[a].flags, queue')
  <2>1. Reasons(a, FlagsBefore(ns, a), queue)
    BY <1>4, ReasonsBefore
  <2>2. QED  BY <1>1, <1>4, <2>1, ReasonsStep
<1>5. QED  BY <1>3, <1>4, OneAppHandled DEF Trusts
(* The message changes nothing while the strategy is on.                   *)
LEMMA NothingHandled ==
  ASSUME NEW answers, NEW s, NEW t, NetHandling(answers, s, t),
         NEW a \in App, About(Head(queue), a), ns.enabled = TRUE,
         Head(queue).type # "PROCESS_STATE_CHANGED", ns' = ns, net' = net,
         Hears /\ ns.info[a].known = TRUE =>
           FlagStep(a, Head(queue), ns.info[a].flags, ns.info[a].flags)
  PROVE  NetStep(t)
<1> DEFINE r == NetWith(ns, net)
<1>1. r.ns = ns /\ r.net = net
  BY DEF NetWith
<1>2. ns \in NsType /\ net \in NetType
  BY Moving DEF NetMoves
<1> HIDE DEF r
<1>3. OneApp(ns, net, a, r) /\ Trusts(ns, net, a, r)
  <2>1. ns.info[a].known \in BOOLEAN
    BY <1>2 DEF NsType, NetInfo
  <2>2. QED  BY <1>1, <1>2, <2>1 DEF OneApp, Trusts
<1>4. ns' = r.ns /\ net' = r.net
  BY <1>1
<1>5. ns.info[a].known = TRUE => FlagsBefore(ns, a) = ns.info[a].flags
  BY DEF FlagsBefore
<1>6. ns.info[a].known = TRUE => r.ns.info[a].known = TRUE
  BY <1>1
<1>7. Hears /\ r.ns.info[a].known = TRUE =>
           FlagStep(a, Head(queue), FlagsBefore(ns, a), r.ns.info[a].flags)
  BY <1>1, <1>5
<1>8. QED  BY <1>3, <1>4, <1>6, <1>7, FlagsHandledByNet

(* The flag f of the application is added.                                 *)
LEMMA FlagAdded ==
  ASSUME NEW a, NEW m, NEW old, NEW new, NEW f \in TaskFlag \cup {"EXEMPTION"},
         NEW gone, gone = Given(a \in ConditionalApp, "RESTRICTED"),
         new = (old \cup {f}) \ gone,
         f = "EXEMPTION" => m \in AllowNews(a) /\ m.added = TRUE,
         f # "EXEMPTION" => m \notin AllowNews(a) /\ m \in TaskStarted(a, f) /\ ExemptTask(f),
         \A u \in TaskFlag : u # f => m \notin TaskNews(a, u)
  PROVE  FlagStep(a, m, old, new)
<1>1. /\ gone \subseteq {"RESTRICTED"}
      /\ a \notin ConditionalApp => gone = {}
  BY DEF Given
<1>2. ~ (new \subseteq {"UNRESTRICTED"})
  BY <1>1 DEF TaskFlag
<1>3. \A u \in TaskFlag : u \in new => u \in old \/ u = f
  OBVIOUS
<1>4. "EXEMPTION" \in new <=> "EXEMPTION" \in old \/ f = "EXEMPTION"
  BY <1>1
<1>5. QED  BY <1>1, <1>2, <1>3, <1>4 DEF FlagStep, TaskFlag

(* The flag f of the application is taken away.                            *)
LEMMA FlagRemoved ==
  ASSUME NEW a, NEW m, NEW old, NEW new, NEW f \in TaskFlag \cup {"EXEMPTION"},
         new = Conditional(a, old \ {f}),
         f = "EXEMPTION" => m \in AllowNews(a) /\ m.added # TRUE,
         f # "EXEMPTION" => m \notin AllowNews(a),
         \A u \in TaskFlag : u # f => m \notin TaskNews(a, u)
  PROVE  FlagStep(a, m, old, new)
<1> DEFINE base == old \ {f}
<1>1. /\ base \subseteq new /\ new \subseteq base \cup {"RESTRICTED"}
      /\ a \in ConditionalApp => ~ (new \subseteq {"UNRESTRICTED"})
  BY DEF Conditional, Given
<1>2. \A u \in TaskFlag : u \in new => u \in old /\ u # f
  BY <1>1 DEF TaskFlag
<1>3. "EXEMPTION" \in new <=> "EXEMPTION" \in old /\ f # "EXEMPTION"
  BY <1>1
<1>4. QED  BY <1>1, <1>2, <1>3 DEF FlagStep, TaskFlag

(* An exemption was given or taken away.                                   *)
LEMMA AllowHandledByNet ==
  ASSUME NEW answers, NEW s, NEW t, NetHandling(answers, s, t),
         Head(queue).type = "ALLOW_LIST_CHANGED"
  PROVE  NetStep(t)
<1> DEFINE m == Head(queue)
           a == m.app
           r == NetUpdateExemptionList(ns, m, net)
<1>1. NetMoves(answers)
  BY Moving
<1>2. /\ m \in HandlerTask /\ ns \in NsType /\ net \in NetType
      /\ tasks \in [App -> SUBSET TaskFlag] /\ ns' = r.ns /\ net' = r.net
  BY <1>1 DEF NetMoves, NetHandleEvent
<1>3. a \in App /\ m.added \in BOOLEAN /\ m.allowType \subseteq Resource
  BY <1>2, Fields
<1>4. \A b \in App, u \in TaskFlag : m \notin TaskNews(b, u)
  BY DEF TaskNews
<1>5. /\ About(m, a)
      /\ m \in AllowNews(a) <=> "NETWORK" \in m.allowType
  <2>1. \A b \in App \ {a} : m \notin AllowNews(b)
    BY DEF AllowNews
  <2>2. \A p \in Pid : m \notin CreatedNews(p)
    BY DEF CreatedNews, Saying, ProcessNews, ProcessTasks
  <2>3. m \in AllowNews(a) <=> "NETWORK" \in m.allowType
    BY <1>2 DEF AllowNews
  <2>4. QED  BY <1>4, <2>1, <2>2, <2>3 DEF About
<1>6. CASE ns.enabled # TRUE
  <2>1. r = NetWith(ns, net)
    BY <1>2, <1>6 DEF NetUpdateExemptionList, NsType
  <2>2. ns' = ns /\ net' = net
    BY <1>2, <2>1 DEF NetWith
  <2>3. QED  BY <1>5, <1>6, <2>2, OffHandled
<1>7. CASE ns.enabled = TRUE /\ "NETWORK" \notin m.allowType
  <2>1. r = NetWith(ns, net)
    BY <1>7 DEF NetUpdateExemptionList
  <2>2. ns' = ns /\ net' = net
    BY <1>2, <2>1 DEF NetWith
  <2>3. ASSUME Hears, ns.info[a].known = TRUE
        PROVE  FlagStep(a, m, ns.info[a].flags, ns.info[a].flags)
    <3>1. Reasons(a, ns.info[a].flags, queue)
      BY <1>3, <2>3 DEF NetHandling, FlagsHaveReasons
    <3>2. QED  BY <1>3, <1>4, <1>5, <1>7, <3>1 DEF FlagStep, Reasons
  <2> HIDE DEF r
  <2>4. QED  BY <1>3, <1>5, <1>7, <2>2, <2>3, NothingHandled
<1>8. CASE ns.enabled = TRUE /\ "NETWORK" \in m.allowType /\ m.added = TRUE
  <2> DEFINE k == NetAddExemptionFlag(ns, a, "EXEMPTION", net)
  <2>1. r = k
    BY <1>8 DEF NetUpdateExemptionList
  <2>2. On(ns, net) /\ "EXEMPTION" \in Flag
    BY <1>2, <1>8 DEF On, Flag
  <2>3. Added(ns, net, a, "EXEMPTION", k)
    BY <1>2, <1>3, <2>2, NetAddExemptionFlagDoes
  <2>4. ns' = k.ns /\ net' = k.net
    BY <1>2, <2>1
  <2> HIDE DEF k, r
  <2>5. FlagStep(a, m, FlagsBefore(ns, a), k.ns.info[a].flags)
    BY <1>4, <1>5, <1>8, <2>3, <1>3, FlagAdded DEF Added
  <2>6. QED  BY <1>3, <1>5, <1>8, <2>3, <2>4, <2>5, FlagsHandledByNet DEF Added
<1>9. CASE ns.enabled = TRUE /\ "NETWORK" \in m.allowType /\ m.added = FALSE
  <2> DEFINE k == NetRemoveExemptionFlag(ns, a, "EXEMPTION", net)
  <2>1. r = k
    BY <1>9 DEF NetUpdateExemptionList
  <2>2. On(ns, net) /\ "EXEMPTION" \in Flag /\ ns.info[a].known \in BOOLEAN
    BY <1>2, <1>3, <1>9 DEF On, Flag, NsType, NetInfo
  <2>3. CASE ns.info[a].known = TRUE
    <3>1. Removed(ns, net, a, "EXEMPTION", k)
      BY <1>3, <2>2, <2>3, NetRemoveExemptionFlagDoes
    <3>2. ns' = k.ns /\ net' = k.net /\ FlagsBefore(ns, a) = ns.info[a].flags
      BY <1>2, <2>1, <2>3 DEF FlagsBefore
    <3> HIDE DEF k, r
    <3>3. FlagStep(a, m, FlagsBefore(ns, a), k.ns.info[a].flags)
      BY <1>4, <1>5, <1>9, <3>1, <3>2, <1>3, FlagRemoved DEF Removed
    <3>4. QED  BY <1>3, <1>5, <1>9, <3>1, <3>2, <3>3, FlagsHandledByNet DEF Removed
  <2>4. CASE ns.info[a].known = FALSE
    <3>1. k = NetWith(ns, net)
      BY <2>4 DEF NetRemoveExemptionFlag
    <3>2. ns' = ns /\ net' = net
      BY <1>2, <2>1, <3>1 DEF NetWith
    <3> HIDE DEF k, r
    <3>3. QED  BY <1>3, <1>5, <1>9, <2>4, <3>2, NothingHandled
  <2>5. QED  BY <2>2, <2>3, <2>4
<1>10. QED  BY <1>3, <1>6, <1>7, <1>8, <1>9

(* A background task began or ended.                                       *)
LEMMA TaskHandledByNet ==
  ASSUME NEW answers, NEW s, NEW t, NetHandling(answers, s, t),
         Head(queue).type = "BG_TASK_STATUS_CHANGE"
  PROVE  NetStep(t)
<1> DEFINE m == Head(queue)
           a == m.app
           f == m.task
           r == NetUpdateBgTaskAppStatus(ns, m, net)
<1>1. NetMoves(answers)
  BY Moving
<1>2. /\ m \in HandlerTask /\ ns \in NsType /\ net \in NetType
      /\ tasks \in [App -> SUBSET TaskFlag] /\ ns' = r.ns /\ net' = r.net
  BY <1>1 DEF NetMoves, NetHandleEvent
<1>3. a \in App /\ m.started \in BOOLEAN /\ f \in TaskFlag
  BY <1>2, Fields
<1>4. /\ \A b \in App : m \notin AllowNews(b)
      /\ \A b \in App, u \in TaskFlag : b # a \/ u # f => m \notin TaskNews(b, u)
      /\ m.started = TRUE => m \in TaskStarted(a, f)
  BY <1>2 DEF TaskNews, AllowNews, TaskStarted
<1>5. About(m, a)
  <2>1. \A p \in Pid : m \notin CreatedNews(p)
    BY DEF CreatedNews, Saying, ProcessNews, ProcessTasks
  <2>2. QED  BY <1>4, <2>1 DEF About
<1>6. f \in Flag /\ f # "EXEMPTION" /\ f \notin {"UNRESTRICTED", "RESTRICTED"}
  BY <1>3 DEF Flag, TaskFlag
<1>7. CASE ns.enabled # TRUE
  <2>1. r = NetWith(ns, net)
    BY <1>2, <1>7 DEF NetUpdateBgTaskAppStatus, NsType
  <2>2. ns' = ns /\ net' = net
    BY <1>2, <2>1 DEF NetWith
  <2>3. QED  BY <1>5, <1>7, <2>2, OffHandled
<1>8. CASE ns.enabled = TRUE /\ m.started = TRUE /\ ~ ExemptTask(f)
  <2>1. r = NetWith(ns, net)
    BY <1>8 DEF NetUpdateBgTaskAppStatus
  <2>2. ns' = ns /\ net' = net
    BY <1>2, <2>1 DEF NetWith
  <2>3. ASSUME Hears, ns.info[a].known = TRUE
        PROVE  FlagStep(a, m, ns.info[a].flags, ns.info[a].flags)
    <3>1. Reasons(a, ns.info[a].flags, queue)
      BY <1>3, <2>3 DEF NetHandling, FlagsHaveReasons
    <3>2. \A u \in TaskFlag : u \in ns.info[a].flags => u # f
      BY <1>8, <3>1 DEF Reasons
    <3>3. QED  BY <1>3, <1>4, <3>1, <3>2 DEF FlagStep, Reasons
  <2> HIDE DEF r
  <2>4. QED  BY <1>3, <1>5, <1>8, <2>2, <2>3, NothingHandled
<1>9. CASE ns.enabled = TRUE /\ m.started = TRUE /\ ExemptTask(f)
  <2> DEFINE k == NetAddExemptionFlag(ns, a, f, net)
  <2>1. r = k
    BY <1>9 DEF NetUpdateBgTaskAppStatus
  <2>2. On(ns, net)
    BY <1>2, <1>9 DEF On
  <2>3. Added(ns, net, a, f, k)
    BY <1>2, <1>3, <1>6, <2>2, NetAddExemptionFlagDoes
  <2>4. ns' = k.ns /\ net' = k.net
    BY <1>2, <2>1
  <2> HIDE DEF k, r
  <2>5. FlagStep(a, m, FlagsBefore(ns, a), k.ns.info[a].flags)
    BY <1>3, <1>4, <1>6, <1>9, <2>3, FlagAdded DEF Added
  <2>6. QED  BY <1>3, <1>5, <1>9, <2>3, <2>4, <2>5, FlagsHandledByNet DEF Added
<1>10. CASE ns.enabled = TRUE /\ m.started = FALSE
  <2> DEFINE k == NetRemoveExemptionFlag(ns, a, f, net)
  <2>1. r = k
    BY <1>10 DEF NetUpdateBgTaskAppStatus
  <2>2. On(ns, net) /\ ns.info[a].known \in BOOLEAN
    BY <1>2, <1>3, <1>10 DEF On, NsType, NetInfo
  <2>3. CASE ns.info[a].known = TRUE
    <3>1. Removed(ns, net, a, f, k)
      BY <1>3, <1>6, <2>2, <2>3, NetRemoveExemptionFlagDoes
    <3>2. ns' = k.ns /\ net' = k.net /\ FlagsBefore(ns, a) = ns.info[a].flags
      BY <1>2, <2>1, <2>3 DEF FlagsBefore
    <3> HIDE DEF k, r
    <3>3. FlagStep(a, m, FlagsBefore(ns, a), k.ns.info[a].flags)
      BY <1>3, <1>4, <1>6, <3>1, <3>2, FlagRemoved DEF Removed
    <3>4. QED  BY <1>3, <1>5, <1>10, <3>1, <3>2, <3>3, FlagsHandledByNet DEF Removed
  <2>4. CASE ns.info[a].known = FALSE
    <3>1. k = NetWith(ns, net)
      BY <2>4 DEF NetRemoveExemptionFlag
    <3>2. ns' = ns /\ net' = net
      BY <1>2, <2>1, <3>1 DEF NetWith
    <3> HIDE DEF k, r
    <3>3. QED  BY <1>3, <1>5, <1>10, <2>4, <3>2, NothingHandled
  <2>5. QED  BY <2>2, <2>3, <2>4
<1>11. QED  BY <1>3, <1>7, <1>8, <1>9, <1>10
(* A process was created or died.                                          *)
LEMMA ProcessHandledByNet ==
  ASSUME NEW answers, NEW s, NEW t, NetHandling(answers, s, t),
         Head(queue).type = "PROCESS_STATE_CHANGED"
  PROVE  NetStep(t)
<1> DEFINE m == Head(queue)
           a == AppOf[m.pid]
           r == NetHandleProcessStatusChanged(ns, m, net)
<1>1. NetMoves(answers)
  BY Moving
<1>2. /\ m \in HandlerTask /\ ns \in NsType /\ net \in NetType /\ running \subseteq Pid
      /\ tasks \in [App -> SUBSET TaskFlag] /\ ns' = r.ns /\ net' = r.net
      /\ queue \in Seq(HandlerTask) /\ queue # <<>> /\ queue' = Tail(queue)
  BY <1>1 DEF NetMoves, NetHandleEvent
<1>3. m.pid \in Pid /\ m.isCreated \in BOOLEAN /\ a \in App
  BY <1>2, Fields, AppAssumption
<1>4. /\ \A b \in App : m \notin AllowNews(b) /\ \A u \in TaskFlag : m \notin TaskNews(b, u)
      /\ \A p \in Pid : m \in CreatedNews(p) => p = m.pid /\ m.isCreated = TRUE
  BY DEF AllowNews, TaskNews, CreatedNews, Saying, ProcessNews, ProcessTasks
<1>5. About(m, a)
  BY <1>4 DEF About
<1>6. CASE ns.enabled # TRUE
  <2>1. r = NetWith(ns, net)
    BY <1>2, <1>6 DEF NetHandleProcessStatusChanged, NsType
  <2>2. ns' = ns /\ net' = net
    BY <1>2, <2>1 DEF NetWith
  <2> HIDE DEF r
  <2>3. QED  BY <1>5, <1>6, <2>2, OffHandled
<1>7. CASE ns.enabled = TRUE
  <2>1. On(ns, net)
    BY <1>2, <1>7 DEF On
  <2>2. /\ OneApp(ns, net, a, r)
        /\ m.isCreated = TRUE =>
             /\ r.ns.info[a].known = TRUE /\ r.ns.info[a].flags = FlagsBefore(ns, a)
             /\ (a \in net.trust => Exempt(ns, a)) => (a \in r.net.trust => Exempt(r.ns, a))
             /\ Exempt(r.ns, a) => a \in r.net.trust
        /\ m.isCreated = FALSE =>
             \/ r.ns = ns /\ r.net = net /\ (ns.info[a].known = FALSE \/ IsRunning(a))
             \/ /\ r.ns.info[a].known = FALSE /\ ~ IsRunning(a)
                /\ ns.isIdle = FALSE /\ (a \in net.trust => Exempt(ns, a))
                     => a \notin r.net.trust
    BY <1>2, <1>3, <2>1, NetHandleProcessStatusChangedDoes
  <2> HIDE DEF r
  <2>3. ASSUME Hears PROVE Reasons(a, FlagsBefore(ns, a), queue')
    <3>1. Reasons(a, FlagsBefore(ns, a), queue)
      BY <1>3, <2>3, ReasonsBefore
    <3>2. FlagStep(a, m, FlagsBefore(ns, a), FlagsBefore(ns, a))
      BY <1>3, <1>4, <3>1 DEF FlagStep, Reasons
    <3>3. QED  BY <1>1, <1>3, <3>1, <3>2, ReasonsStep DEF NetHandling
  <2>4. ASSUME Hears, ns.isIdle = FALSE
        PROVE  /\ (a \in net.trust => Exempt(ns, a)) => (a \in r.net.trust => Exempt(r.ns, a))
               /\ \A p \in running : AppOf[p] = a =>
                    \/ Waits(queue', CreatedNews(p))
                    \/ /\ r.ns.info[a].known = TRUE
                       /\ Exempt(r.ns, a) => a \in r.net.trust
               /\ r.ns.info[a].known = TRUE => Reasons(a, r.ns.info[a].flags, queue')
    <3>1. CASE m.isCreated = TRUE
      BY <2>2, <2>3, <2>4, <3>1
    <3>2. CASE m.isCreated = FALSE /\ r.ns = ns /\ r.net = net
      <4>1. ASSUME NEW p \in running, AppOf[p] = a
            PROVE  \/ Waits(queue', CreatedNews(p))
                   \/ /\ ns.info[a].known = TRUE
                      /\ Exempt(ns, a) => a \in net.trust
        <5>1. Waits(queue, CreatedNews(p)) => Waits(queue', CreatedNews(p))
          <6>1. m \notin CreatedNews(p)
            BY <1>2, <1>4, <3>2
          <6>2. QED  BY <1>2, <6>1, WaitsTail
        <5>2. \/ Waits(queue, CreatedNews(p))
              \/ /\ ns.info[a].known = TRUE
                 /\ Exempt(ns, a) => a \in net.trust
          BY <1>7, <2>4, <4>1 DEF NetHandling, RunningAreKnown
        <5>3. QED  BY <5>1, <5>2
      <4>2. ns.info[a].known = TRUE => FlagsBefore(ns, a) = ns.info[a].flags
        BY DEF FlagsBefore
      <4>3. QED  BY <2>3, <2>4, <3>2, <4>1, <4>2
    <3>3. CASE m.isCreated = FALSE /\ ~ (r.ns = ns /\ r.net = net)
      <4>1. \A p \in running : AppOf[p] # a
        BY <2>2, <3>3 DEF IsRunning
      <4>2. QED  BY <2>2, <2>4, <3>3, <4>1
    <3>4. QED  BY <1>3, <3>1, <3>2, <3>3
  <2>5. QED  BY <1>2, <1>3, <1>5, <1>7, <2>2, <2>4, OneAppHandled
<1>8. QED  BY <1>6, <1>7

(* A task service crashed: the strategy is not told.                       *)
LEMMA CrashHandledByNet ==
  ASSUME NEW answers, NEW s, NEW t, NetHandling(answers, s, t),
         Head(queue).type = "SYS_ABILITY_STATUS_CHANGED"
  PROVE  NetStep(t)
<1>1. NetMoves(answers)
  BY Moving
<1>2. ns' = ns /\ net' = net /\ heard' = FALSE
  <2>1. NetHandleEvent(ns, Head(queue), answers, net) = NetWith(ns, net)
    BY DEF NetHandleEvent
  <2>2. HeardAfter(Head(queue), answers) = FALSE
    BY DEF HeardAfter
  <2>3. QED  BY <1>1, <2>1, <2>2 DEF NetMoves, NetWith
<1>3. t = s
  BY DEF NetHandling, Tells
<1>4. ~ Hears'
  BY <1>2 DEF Hears
<1>5. NetTold(t)'
  BY <1>1, <1>2, <1>3 DEF NetHandling, NetTold, NetMoves
<1>6. QED
  BY <1>1, <1>2, <1>4, <1>5
  DEF NetStep, TrustedAreExempt, RunningAreKnown, FlagsHaveReasons, NetMoves

(* The table found out now, with every service answering.                  *)
LEMMA BuiltAfter ==
  ASSUME NEW answers, NEW s, NEW t, NetHandling(answers, s, t), net' \in NetType,
         Hears' => Built(ns'.info) /\ \A a \in App : a \in net'.trust <=> Exempt(ns', a)
  PROVE  TrustedAreExempt' /\ RunningAreKnown' /\ FlagsHaveReasons'
<1>1. /\ running' = running /\ running \subseteq Pid /\ night' = night
      /\ tasks' = tasks /\ allowed' = allowed /\ tasks \in [App -> SUBSET TaskFlag]
  BY Moving DEF NetMoves
<1>2. ASSUME Hears', NEW p \in running
      PROVE  /\ ns'.info[AppOf[p]].known = TRUE
             /\ Exempt(ns', AppOf[p]) => AppOf[p] \in net'.trust
  <2>1. AppOf[p] \in App /\ IsRunning(AppOf[p])
    BY <1>1, AppAssumption DEF IsRunning
  <2>2. QED  BY <1>2, <2>1 DEF Built
<1>3. TrustedAreExempt' /\ RunningAreKnown'
  BY <1>1, <1>2, TrustAfter
<1>4. ASSUME Hears', NEW a \in App, ns'.info[a].known = TRUE
      PROVE  Reasons(a, ns'.info[a].flags, queue')
  <2>1. ns'.info[a].flags = NetInitFlags(a)
    BY <1>4 DEF Built
  <2>2. \A q : Reasons(a, NetInitFlags(a), q)
    BY <1>1, FirstReasons DEF NetHandling
  <2>3. QED  BY <2>1, <2>2
<1>5. FlagsHaveReasons'
  BY <1>1, <1>4, ReasonsAfter
<1>6. QED  BY <1>3, <1>5

(* The day or the night has come, in sleep.                                *)
LEMMA ConditionHandledByNet ==
  ASSUME NEW answers, NEW s, NEW t, NetHandling(answers, s, t),
         Head(queue).type = "RES_CTRL_CONDITION_CHANGED"
  PROVE  NetStep(t)
<1> DEFINE r == UpdateFirewallAllowList(ns, answers, net)
<1>1. NetMoves(answers)
  BY Moving
<1>2. /\ ns \in NsType /\ net \in NetType /\ tasks \in [App -> SUBSET TaskFlag]
      /\ ns' = r.ns /\ net' = r.net
  BY <1>1 DEF NetMoves, NetHandleEvent
<1>3. heard' = (answers = "all")
  BY <1>1 DEF NetMoves, HeardAfter
<1>4. s = "SLEEP" /\ t = "SLEEP"
  BY DEF NetHandling, Tells
<1>5. /\ r.ns \in NsType /\ r.net \in NetType /\ r.ns.isIdle = ns.isIdle
      /\ answers # "all" =>
           r.ns.enabled = ns.enabled /\ r.net.trust = {} /\ r.net.policy = FALSE
      /\ answers = "all" =>
           /\ r.ns.enabled = TRUE /\ Built(r.ns.info)
           /\ \A a \in App : a \in r.net.trust <=> Exempt(r.ns, a)
  BY <1>2, UpdateFirewallAllowListDoes
<1> HIDE DEF r
<1>6. TrustedAreExempt' /\ RunningAreKnown' /\ FlagsHaveReasons'
  BY <1>2, <1>3, <1>5, BuiltAfter DEF Hears
<1>7. NetTold(t)'
  <2>1. ~ stale => ns.isIdle # TRUE
    BY <1>4 DEF NetHandling, NetTold
  <2>2. stale' <=> stale
    BY <1>1 DEF NetMoves
  <2>3. QED  BY <1>2, <1>3, <1>4, <1>5, <2>1, <2>2 DEF NetTold, Asleep
<1>8. QED  BY <1>2, <1>3, <1>5, <1>6, <1>7 DEF NetStep

(* The records stay, and the trust list follows them.                      *)
LEMMA TableKept ==
  ASSUME NEW answers, NEW s, NEW t, NetHandling(answers, s, t),
         Head(queue).type \in {"STATE_TRANSIT", "PHASE_TRANSIT"},
         net' \in NetType, Hears' => Hears, Hears' => ns'.info = ns.info,
         Hears' => \A a \in App : a \in net'.trust => Exempt(ns, a),
         Hears' => \A a \in App : ns'.enabled = TRUE /\ Exempt(ns, a) =>
           a \in net'.trust \/ (ns.enabled = TRUE /\ a \notin net.trust)
  PROVE  TrustedAreExempt' /\ RunningAreKnown' /\ FlagsHaveReasons'
<1> DEFINE m == Head(queue)
<1>1. NetMoves(answers)
  BY Moving
<1>2. /\ queue \in Seq(HandlerTask) /\ queue # <<>> /\ queue' = Tail(queue)
      /\ running' = running /\ tasks' = tasks /\ allowed' = allowed /\ night' = night
      /\ running \subseteq Pid /\ InputsInv
  BY <1>1 DEF NetMoves, NetHandling
<1>3. /\ \A b \in App : m \notin AllowNews(b) /\ \A u \in TaskFlag : m \notin TaskNews(b, u)
      /\ \A p \in Pid : m \notin CreatedNews(p)
  BY DEF AllowNews, TaskNews, CreatedNews, Saying, ProcessNews, ProcessTasks
<1>4. ASSUME Hears' PROVE \A a : Exempt(ns', a) <=> Exempt(ns, a)
  BY <1>4 DEF Exempt
<1>5. ASSUME Hears', NEW p \in running
      PROVE  \/ Waits(queue', CreatedNews(p))
             \/ /\ ns'.info[AppOf[p]].known = TRUE
                /\ ns'.enabled = TRUE /\ Exempt(ns', AppOf[p]) => AppOf[p] \in net'.trust
  <2>1. AppOf[p] \in App /\ m \notin CreatedNews(p)
    BY <1>2, <1>3, AppAssumption
  <2>2. Waits(queue, CreatedNews(p)) => Waits(queue', CreatedNews(p))
    BY <1>2, <2>1, WaitsTail
  <2>3. \/ Waits(queue, CreatedNews(p))
        \/ /\ ns.info[AppOf[p]].known = TRUE
           /\ ns.enabled = TRUE /\ Exempt(ns, AppOf[p]) => AppOf[p] \in net.trust
    BY <1>5 DEF NetHandling, RunningAreKnown
  <2>4. QED  BY <1>4, <1>5, <2>1, <2>2, <2>3
<1>6. TrustedAreExempt' /\ RunningAreKnown'
  BY <1>2, <1>4, <1>5, TrustAfter
<1>7. ASSUME Hears', NEW b \in App, ns'.info[b].known = TRUE
      PROVE  Reasons(b, ns'.info[b].flags, queue')
  <2>1. ns'.info[b] = ns.info[b]
    BY <1>7
  <2>2. Reasons(b, ns.info[b].flags, queue)
    BY <1>7, <2>1 DEF NetHandling, FlagsHaveReasons
  <2>3. FlagStep(b, m, ns.info[b].flags, ns.info[b].flags)
    BY <1>3, <2>2 DEF FlagStep, Reasons
  <2>4. Reasons(b, ns.info[b].flags, queue')
    BY <1>1, <1>2, <2>2, <2>3, ReasonsStep
  <2>5. QED  BY <2>1, <2>4
<1>8. FlagsHaveReasons'
  BY <1>2, <1>7, ReasonsAfter
<1>9. QED  BY <1>6, <1>8
(* A phase ended; the deep phase of sleep switches the policy on.          *)
LEMMA PhaseHandledByNet ==
  ASSUME NEW answers, NEW s, NEW t, NetHandling(answers, s, t),
         Head(queue).type = "PHASE_TRANSIT"
  PROVE  NetStep(t)
<1> DEFINE m == Head(queue)
           r == EnableNetworkFirewall(ns, m, answers, net)
           deep == m.cur = "SLEEP" /\ m.phase = AppResDeep /\ ns.enabled = FALSE
<1>1. NetMoves(answers)
  BY Moving
<1>2. /\ ns \in NsType /\ net \in NetType /\ tasks \in [App -> SUBSET TaskFlag]
      /\ ns' = r.ns /\ net' = r.net /\ heard \in BOOLEAN /\ (stale' <=> stale)
  BY <1>1 DEF NetMoves, NetHandleEvent
<1>3. ns.enabled \in BOOLEAN
  BY <1>2 DEF NsType
<1>4. /\ deep => heard' = (answers = "all")
      /\ ~ deep => heard' = heard
  <2>1. CASE deep
    BY <1>1, <2>1 DEF NetMoves, HeardAfter
  <2>2. CASE ~ deep
    BY <1>1, <1>3, <2>2 DEF NetMoves, HeardAfter
  <2>3. QED  BY <2>1, <2>2
<1>5. t = s /\ (deep => s = "SLEEP")
  BY DEF NetHandling, Tells
<1>6. /\ r.ns \in NsType /\ r.net \in NetType
      /\ ~ deep => r.ns = ns /\ r.net = net
      /\ deep /\ answers # "all" =>
           r.ns.enabled = ns.enabled /\ r.ns.isIdle = ns.isIdle /\ r.net = net
      /\ deep /\ answers = "all" =>
           /\ r.ns.enabled = TRUE /\ r.ns.isIdle = FALSE /\ Built(r.ns.info)
           /\ \A a \in App : a \in r.net.trust <=> a \in net.trust \/ Exempt(r.ns, a)
  BY <1>2, EnableNetworkFirewallDoes
<1>7. ~ stale /\ deep => net.trust = {}
  BY <1>5 DEF NetHandling, NetTold
<1> HIDE DEF r, deep
<1>8. NetTold(s)
  BY DEF NetHandling
<1>9. CASE deep /\ answers = "all"
  <2>1. Hears' => Built(ns'.info) /\ \A a \in App : a \in net'.trust <=> Exempt(ns', a)
    BY <1>2, <1>6, <1>7, <1>9 DEF Hears
  <2>2. TrustedAreExempt' /\ RunningAreKnown' /\ FlagsHaveReasons'
    BY <1>2, <1>6, <2>1, BuiltAfter
  <2>3. NetTold(t)'
    BY <1>2, <1>5, <1>6, <1>9 DEF NetTold, Asleep
  <2>4. QED  BY <1>2, <1>4, <1>6, <1>9, <2>2, <2>3 DEF NetStep
<1>10. CASE deep /\ answers # "all"
  <2>1. ~ Hears' /\ heard' = FALSE
    BY <1>4, <1>10 DEF Hears
  <2>2. NetTold(t)'
    BY <1>2, <1>5, <1>6, <1>8, <1>10, <2>1 DEF NetTold
  <2>3. QED
    BY <1>2, <1>6, <2>1, <2>2 DEF NetStep, TrustedAreExempt, RunningAreKnown, FlagsHaveReasons
<1>11. CASE ~ deep
  <2>1. ns' = ns /\ net' = net /\ heard' = heard
    BY <1>2, <1>4, <1>6, <1>11
  <2>2. Hears' => Hears
    BY <1>2, <2>1 DEF Hears
  <2>3. Hears => \A a \in net.trust : Exempt(ns, a)
    BY DEF NetHandling, TrustedAreExempt
  <2>4. TrustedAreExempt' /\ RunningAreKnown' /\ FlagsHaveReasons'
    BY <1>2, <2>1, <2>2, <2>3, TableKept
  <2>5. NetTold(t)'
    BY <1>2, <1>5, <1>8, <2>1 DEF NetTold
  <2>6. QED  BY <1>2, <2>1, <2>4, <2>5 DEF NetStep
<1>12. QED  BY <1>9, <1>10, <1>11

(* A transition was made.                                                  *)
LEMMA StateHandledByNet ==
  ASSUME NEW answers, NEW s, NEW t, NetHandling(answers, s, t),
         Head(queue).type = "STATE_TRANSIT"
  PROVE  NetStep(t)
<1> DEFINE m == Head(queue)
           r == DisableNetworkFirewall(ns, m, net)
<1>1. NetMoves(answers)
  BY Moving
<1>2. /\ ns \in NsType /\ net \in NetType /\ ns' = r.ns /\ net' = r.net
      /\ heard \in BOOLEAN /\ (stale' <=> stale)
  BY <1>1 DEF NetMoves, NetHandleEvent
<1>3. m.pre = s /\ m.cur = t
  BY DEF NetHandling, Tells
<1>4. heard' = (heard /\ t \in Asleep)
  BY <1>1, <1>3 DEF NetMoves, HeardAfter, Asleep
<1>5. heard' \in BOOLEAN /\ (Hears' => Hears) /\ (heard' = TRUE => t \in Asleep /\ heard = TRUE)
  BY <1>2, <1>4 DEF Hears
<1>6. Switched(ns, net, s, t, r) /\ r.ns \in NsType /\ r.net \in NetType
  <2>1. Switched(ns, net, m.pre, m.cur, r)
    BY <1>2, DisableNetworkFirewallDoes
  <2> HIDE DEF r
  <2>2. QED  BY <1>3, <2>1 DEF Switched
<1> HIDE DEF r
<1>7. NetTold(s) /\ ns.isIdle \in BOOLEAN /\ ns.enabled \in BOOLEAN /\ net.policy \in BOOLEAN
  BY <1>2 DEF NetHandling, NsType, NetType
<1>8. Hears => \A a \in net.trust : Exempt(ns, a)
  BY DEF NetHandling, TrustedAreExempt
<1>9. CASE s = "SLEEP" /\ t = "MAINTENANCE"
  <2>1. /\ r.ns.isIdle = TRUE /\ r.ns.enabled = FALSE /\ r.ns.info = ns.info
        /\ ns.isIdle = FALSE =>
             \A a \in App : a \in r.net.trust <=> a \in net.trust /\ ~ Exempt(ns, a)
    BY <1>6, <1>9 DEF Asleep, Switched
  <2>2. ~ stale => ns.isIdle = FALSE
    BY <1>7, <1>9 DEF NetTold
  <2>3. Hears => net'.trust = {}
    BY <1>2, <1>6, <1>8, <2>1, <2>2 DEF Hears, NetType
  <2>4. TrustedAreExempt' /\ RunningAreKnown' /\ FlagsHaveReasons'
    BY <1>2, <1>5, <1>6, <2>1, <2>3, TableKept
  <2>5. NetTold(t)'
    BY <1>2, <1>5, <1>9, <2>1, <2>3 DEF NetTold, Asleep, Hears
  <2>6. QED  BY <1>2, <1>5, <1>6, <2>4, <2>5 DEF NetStep
<1>10. CASE s = "MAINTENANCE" /\ t = "SLEEP"
  <2>1. /\ r.ns.isIdle = FALSE /\ r.ns.enabled = TRUE /\ r.ns.info = ns.info
        /\ \A a \in App : a \in r.net.trust <=> a \in net.trust \/ Exempt(ns, a)
    BY <1>6, <1>10 DEF Asleep, Switched
  <2>2. TrustedAreExempt' /\ RunningAreKnown' /\ FlagsHaveReasons'
    BY <1>2, <1>5, <1>6, <1>8, <2>1, TableKept
  <2>3. NetTold(t)'
    BY <1>2, <1>10, <2>1 DEF NetTold, Asleep
  <2>4. QED  BY <1>2, <1>5, <1>6, <2>2, <2>3 DEF NetStep
<1>11. CASE s \in Asleep /\ t \notin Asleep
  <2>1. /\ r.ns.isIdle = FALSE /\ r.ns.enabled = FALSE
        /\ r.net.trust = {} /\ r.net.policy = FALSE
    BY <1>6, <1>11 DEF Asleep, Switched
  <2>2. ~ Hears'
    BY <1>5, <1>11 DEF Hears
  <2>3. NetTold(t)'
    BY <1>2, <1>5, <1>11, <2>1 DEF NetTold
  <2>4. QED
    BY <1>2, <1>5, <1>6, <2>2, <2>3 DEF NetStep, TrustedAreExempt, RunningAreKnown, FlagsHaveReasons
<1>12. CASE s \notin Asleep \/ s = t
  <2>1. ns' = ns /\ net' = net
    BY <1>2, <1>6, <1>12 DEF Asleep, Switched
  <2>2. TrustedAreExempt' /\ RunningAreKnown' /\ FlagsHaveReasons'
    BY <1>2, <1>5, <1>8, <2>1, TableKept
  <2>3. NetTold(t)'
    BY <1>2, <1>5, <1>7, <1>12, <2>1 DEF NetTold, Asleep
  <2>4. QED  BY <1>2, <1>5, <1>6, <2>2, <2>3 DEF NetStep
<1>13. QED  BY <1>6, <1>9, <1>10, <1>11, <1>12 DEF Switched

(* Any message.                                                            *)
LEMMA MessageHandledByNet ==
  ASSUME NEW answers, NEW s, NEW t, NetHandling(answers, s, t) PROVE NetStep(t)
<1>1. Head(queue) \in HandlerTask /\ Head(queue).type # "PROCESS_TASK"
  BY Moving DEF NetMoves
<1>2. QED
  BY <1>1, Fields, AllowHandledByNet, TaskHandledByNet, ProcessHandledByNet, CrashHandledByNet,
     ConditionHandledByNet, PhaseHandledByNet, StateHandledByNet

-----------------------------------------------------------------------------
(* The invariant is inductive.                                             *)

(* The parts of the invariant that the handlers keep.                      *)
NetSound ==
  /\ InputsInv /\ ns \in NsType /\ net \in NetType /\ heard \in BOOLEAN /\ AllowsAsked
  /\ TrustedAreExempt /\ RunningAreKnown /\ FlagsHaveReasons
  /\ \E f : Chained(queue, f, cur) /\ NetTold(f[0])

(* They give the invariant.                                                *)
LEMMA SoundNetInv == NetSound => NetInv
<1>1. \A f : Chained(queue, f, cur) => f \in [0..Len(queue) -> State]
  BY DEF Chained
<1>2. QED  BY <1>1 DEF NetSound, NetInv, NetTypeOK, NsType, NetType

(* In the beginning everything is empty, and nothing has been heard.       *)
LEMMA NetInvInit == Init => NetInv
<1> SUFFICES ASSUME Init PROVE NetInv
  OBVIOUS
<1>1. InputsInit /\ ns = Off /\ net = [policy |-> FALSE, trust |-> {}] /\ heard = FALSE
  BY DEF Init, NetInit
<1>2. Off \in NsType /\ Off.isIdle = FALSE /\ Off.enabled = FALSE
  BY DEF Off, NsType, AllUnknown, Unknown, NetInfo
<1>3. net \in NetType /\ net.policy = FALSE /\ net.trust = {}
  BY <1>1 DEF NetType
<1>4. AllowsAsked
  BY <1>1 DEF AllowsAsked, InputsInit
<1>5. ~ Hears
  BY <1>1 DEF Hears
<1>6. \A s : NetTold(s)
  BY <1>1, <1>2, <1>3 DEF NetTold
<1>7. \E f : Chained(queue, f, cur) /\ NetTold(f[0])
  BY <1>1, <1>6, InputsInitTold
<1>8. NetSound
  BY <1>1, <1>2, <1>3, <1>4, <1>5, <1>7, InputsInitKeeps
  DEF NetSound, TrustedAreExempt, RunningAreKnown, FlagsHaveReasons
<1>9. QED  BY <1>8, SoundNetInv

(* Exemptions are asked for.                                               *)
LEMMA AskedStays == ASSUME AllowsAsked, InputsTypeOK, [Next]_vars PROVE AllowsAsked'
<1>1. ASSUME NEW a \in App, NEW rs \in AllowsOf[a], NEW added \in BOOLEAN,
             AllowChanges(a, rs, added)
      PROVE  AllowsAsked'
  <2>1. allowed' = [allowed EXCEPT ![a] = IF added THEN @ \cup rs ELSE @ \ rs]
    BY <1>1 DEF AllowChanges
  <2>2. allowed \in [App -> SUBSET Resource]
    BY DEF InputsTypeOK
  <2>3. \A b \in App : b # a => allowed'[b] = allowed[b]
    BY <2>1, <2>2
  <2>4. allowed'[a] \subseteq allowed[a] \cup rs
    BY <2>1, <2>2
  <2>5. QED  BY <1>1, <2>3, <2>4 DEF AllowsAsked
<1>2. ASSUME allowed' = allowed PROVE AllowsAsked'
  BY <1>2 DEF AllowsAsked
<1>3. CASE Around
  <2>1. CASE \E a \in App : \E rs \in AllowsOf[a], added \in BOOLEAN : AllowChanges(a, rs, added)
    BY <1>1, <2>1
  <2>2. CASE ~ \E a \in App : \E rs \in AllowsOf[a], added \in BOOLEAN : AllowChanges(a, rs, added)
    <3>1. allowed' = allowed
      BY <1>3, <2>2 DEF Around, DeviceTransits, SleepPhase, NapPhase, SleepBeginsAgain,
        ProcessChanges, TaskChanges, ServiceCrashes, DayNightSwitch, OnProcessStatusChanged
    <3>2. QED  BY <1>2, <3>1
  <2>3. QED  BY <2>1, <2>2
<1>4. CASE ~ Around
  <2>1. allowed' = allowed
    BY <1>4 DEF Next, Elapse, ConditionSwitches, ScreenOnResets, StrategiesHandle, Dispatched,
      Restart, ReadinessLost, vars, inputs
  <2>2. QED  BY <1>2, <2>1
<1>5. QED  BY <1>3, <1>4
(* The steps of the others.                                                *)
LEMMA OthersKeepNet ==
  ASSUME NetInv, AllowsAsked', Kept, Hears' => Hears /\ night' = night,
         ns' = ns, heard' \in BOOLEAN, net' \in NetType, net'.trust = net.trust,
         net'.policy = TRUE => net.policy = TRUE, heard' = TRUE => heard = TRUE
  PROVE  NetInv'
<1>1. ns \in NsType /\ net \in NetType
  BY DEF NetInv, NetTypeOK, NsType, NetType
<1>2. InputsInv' /\ losses' = losses /\ Noticed /\ (stale' <=> stale)
  BY DEF Kept, stale
<1>3. \E g : (Chained(queue, g, cur) /\ NetTold(g[0]))'
  <2>1. PICK f : Chained(queue, f, cur) /\ NetTold(f[0])
    BY DEF NetInv
  <2>2. PICK g : Chained(queue', g, cur') /\ g[0] = f[0]
    BY <2>1 DEF Kept
  <2>3. NetTold(g[0])'
    BY <1>1, <1>2, <2>1, <2>2 DEF NetTold, NetType
  <2>4. QED  BY <2>2, <2>3
<1>4. TrustedAreExempt'
  BY DEF NetInv, TrustedAreExempt, Exempt, IsFlagExempted
<1>5. ASSUME Hears', NEW p \in running'
      PROVE  \/ Waits(queue', CreatedNews(p))
             \/ /\ ns.info[AppOf[p]].known = TRUE
                /\ ns.enabled = TRUE /\ Exempt(ns, AppOf[p]) => AppOf[p] \in net.trust
  <2>1. p \in Pid
    BY <1>2, <1>5 DEF InputsInv, InputsTypeOK
  <2>2. Patient(CreatedNews(p))
    <3>1. ASSUME NEW m \in CreatedNews(p), m.type = "PROCESS_TASK"
          PROVE  ProcessStateChanged(m.pid, m.isCreated) \in CreatedNews(p)
      <4>1. m \in HandlerTask /\ m.pid = p /\ m.isCreated = TRUE
        BY <3>1 DEF CreatedNews, Saying, ProcessNews, ProcessTasks
      <4>2. ProcessStateChanged(m.pid, m.isCreated) \in HandlerTask
        BY <2>1, <4>1, Made
      <4>3. QED  BY <4>1, <4>2 DEF CreatedNews, Saying, ProcessNews, ProcessStateChanged
    <3>2. QED  BY <3>1 DEF Patient
  <2>3. Waits(queue, CreatedNews(p)) => Waits(queue', CreatedNews(p))
    BY <1>2, <2>2 DEF Noticed
  <2>4. CASE p \in running
    <3>1. \/ Waits(queue, CreatedNews(p))
          \/ /\ ns.info[AppOf[p]].known = TRUE
             /\ ns.enabled = TRUE /\ Exempt(ns, AppOf[p]) => AppOf[p] \in net.trust
      BY <1>5, <2>4 DEF NetInv, RunningAreKnown
    <3>2. QED  BY <2>3, <3>1
  <2>5. CASE p \notin running
    <3> DEFINE b == p \in running'
    <3>1. Waits(queue', Saying(ProcessTasks(p), b))
      BY <1>2, <1>5, <2>1, <2>5 DEF Noticed
    <3>2. Saying(ProcessTasks(p), b) \subseteq CreatedNews(p)
      BY <1>5 DEF CreatedNews, Saying
    <3> HIDE DEF b
    <3>3. QED  BY <3>1, <3>2 DEF Waits
  <2>6. QED  BY <2>4, <2>5
<1>6. RunningAreKnown'
  <2>1. Hears' => \A a : Exempt(ns, a)' <=> Exempt(ns, a)
    BY DEF Exempt, IsFlagExempted
  <2>2. QED  BY <1>5, <2>1 DEF RunningAreKnown
<1>7. ASSUME Hears', NEW a \in App, ns.info[a].known = TRUE
      PROVE  Reasons(a, ns.info[a].flags, queue)'
  <2> DEFINE flags == ns.info[a].flags
  <2>1. Reasons(a, flags, queue)
    BY <1>7 DEF NetInv, FlagsHaveReasons
  <2>2. Permitted' = Permitted /\ Prohibited' = Prohibited /\ night' = night
    BY <1>7 DEF Permitted, Prohibited, GetPersistAllowList
  <2>3. /\ Waits(queue, AllowNews(a)) => Waits(queue', AllowNews(a))
        /\ \A t \in TaskFlag : Waits(queue, TaskNews(a, t)) => Waits(queue', TaskNews(a, t))
    <3>1. Patient(AllowNews(a)) /\ \A t \in TaskFlag : Patient(TaskNews(a, t))
      BY DEF Patient, AllowNews, TaskNews
    <3>2. QED  BY <1>2, <3>1 DEF Noticed
  <2>4. ("NETWORK" \in allowed[a] <=> "NETWORK" \in allowed'[a]) \/ Waits(queue', AllowNews(a))
    BY <1>2 DEF Noticed
  <2>5. \A t \in TaskFlag : t \in tasks[a] => t \in tasks'[a] \/ Waits(queue', TaskNews(a, t))
    BY <1>2 DEF Noticed
  <2>6. flags' = flags
    OBVIOUS
  <2> HIDE DEF flags
  <2>7. Reasons(a, flags, queue)'
    BY <2>1, <2>2, <2>3, <2>4, <2>5, <2>6 DEF Reasons, ExemptTask, Unmoved
  <2>8. QED  BY <2>7 DEF flags
<1>8. FlagsHaveReasons'
  BY <1>7 DEF FlagsHaveReasons
<1>9. NetSound'
  BY <1>1, <1>2, <1>3, <1>4, <1>6, <1>8 DEF NetSound
<1>10. QED  BY <1>9, SoundNetInv, PTL

(* A message is handled.                                                   *)
LEMMA HandlingKeepsNet == ASSUME NetInv, AllowsAsked', StrategiesHandle PROVE NetInv'
<1>1. PICK answers \in Answers(Head(queue)) : NetworkHandles(Head(queue), answers)
  BY DEF StrategiesHandle
<1>2. InputsInv /\ Dispatched
  BY DEF NetInv, StrategiesHandle
<1>3. /\ InputsInv' /\ queue # <<>> /\ queue \in Seq(HandlerTask)
      /\ \A f : Chained(queue, f, cur) =>
           \E g : Chained(queue', g, cur') /\ Tells(Head(queue), f[0], g[0])
  BY <1>2, DispatchedDoes
<1>4. PICK f : Chained(queue, f, cur) /\ NetTold(f[0])
  BY DEF NetInv
<1>5. PICK g : Chained(queue', g, cur') /\ Tells(Head(queue), f[0], g[0])
  BY <1>3, <1>4
<1>6. f[0] \in State
  BY <1>3, <1>4 DEF Chained
<1>7. NetHandling(answers, f[0], g[0])
  BY <1>1, <1>2, <1>4, <1>5, <1>6 DEF NetHandling, NetInv
<1>8. NetStep(g[0])
  BY <1>7, MessageHandledByNet
<1>9. \E h : (Chained(queue, h, cur) /\ NetTold(h[0]))'
  BY <1>5, <1>8 DEF NetStep
<1>10. NetSound'
  BY <1>3, <1>8, <1>9 DEF NetStep, NetSound
<1>11. QED  BY <1>10, SoundNetInv, PTL

(* The strategies begin anew: nobody is limited, and the table is not      *)
(* trusted any more.                                                       *)
LEMMA RestartKeepsNet == ASSUME NetInv, AllowsAsked', Restart PROVE NetInv'
<1>1. ReadinessLost /\ NetworkRestarts /\ InputsInv
  BY DEF Restart, NetInv
<1>2. PICK f : Chained(queue, f, cur)
  BY DEF NetInv
<1>3. InputsInv' /\ stale' /\ \E g : Chained(queue', g, cur')
  BY <1>1, <1>2, ReadinessLostDoes
<1>4. /\ ns' = ns /\ heard' = heard /\ net' \in NetType /\ net'.policy = FALSE
  BY <1>1 DEF NetworkRestarts, ResetFirewallAllowList, NetType
<1>5. ns \in NsType /\ heard \in BOOLEAN
  BY DEF NetInv, NetTypeOK, NsType
<1>6. ~ Hears' /\ \A s : NetTold(s)'
  BY <1>3, <1>4 DEF Hears, NetTold
<1>7. \E h : (Chained(queue, h, cur) /\ NetTold(h[0]))'
  BY <1>3, <1>6
<1>8. NetSound'
  BY <1>3, <1>4, <1>5, <1>6, <1>7
  DEF NetSound, TrustedAreExempt, RunningAreKnown, FlagsHaveReasons
<1>9. QED  BY <1>8, SoundNetInv, PTL

(* Every step keeps the invariant: the inputs move, or a message is        *)
(* handled.                                                                *)
LEMMA NetInvNext == NetInv /\ [Next]_vars => NetInv'
<1> SUFFICES ASSUME NetInv, [Next]_vars PROVE NetInv'
  OBVIOUS
<1>1. InputsInv /\ InputsTypeOK /\ ns \in NsType /\ net \in NetType /\ heard \in BOOLEAN
  BY DEF NetInv, NetTypeOK, NsType, NetType, InputsInv
<1>2. AllowsAsked'
  BY <1>1, AskedStays DEF NetInv
<1>3. CASE Around /\ UNCHANGED <<lockVars, netVars>>
  <2>1. night' = night
    BY <1>3 DEF Around, DeviceTransits, SleepPhase, NapPhase, SleepBeginsAgain,
        ProcessChanges, TaskChanges, AllowChanges, ServiceCrashes, DayNightSwitch,
        OnProcessStatusChanged
  <2>2. Kept
    BY <1>1, <1>3, AroundKept
  <2>3. stale' <=> stale
    BY <2>2 DEF Kept, stale
  <2>4. QED  BY <1>1, <1>2, <1>3, <2>1, <2>2, <2>3, OthersKeepNet DEF netVars, Hears
<1>4. CASE Elapse
  <2>1. Kept
    BY <1>1, <1>4, AroundKept DEF Elapse
  <2>2. ~ Hears' /\ heard' = FALSE /\ ns' = ns /\ net' = net
    BY <1>4 DEF Elapse, Hears
  <2>3. QED  BY <1>1, <1>2, <2>1, <2>2, OthersKeepNet
<1>5. CASE UNCHANGED inputs /\ UNCHANGED <<ns, heard>> /\ (net' = net \/ net' = [net EXCEPT !.policy = FALSE])
  <2>1. Kept
    BY <1>1, <1>5, Unnoticed DEF Kept, inputs, InputsInv, InputsTypeOK
  <2>2. /\ net' \in NetType /\ net'.trust = net.trust
        /\ net'.policy = TRUE => net.policy = TRUE
    BY <1>1, <1>5 DEF NetType
  <2>3. night' = night /\ (stale' <=> stale)
    BY <1>5 DEF inputs, stale
  <2>4. QED  BY <1>1, <1>2, <1>5, <2>1, <2>2, <2>3, OthersKeepNet DEF Hears
<1>6. CASE StrategiesHandle
  BY <1>2, <1>6, HandlingKeepsNet
<1>7. CASE Restart
  BY <1>2, <1>7, RestartKeepsNet
<1>8. QED  BY <1>3, <1>4, <1>5, <1>6, <1>7 DEF Next, ScreenOnResets, vars, netVars

(* The inductive invariant of the network strategy holds.                  *)
LEMMA NetInvHolds == Spec => []NetInv
BY NetInvInit, NetInvNext, PTL DEF Spec
-----------------------------------------------------------------------------
(* What the network strategy promises.                                     *)

(* When the device works and has said so, the idle policy is off, whatever *)
(* was lost with the readiness; without a loss nobody is trusted any more. *)
THEOREM AwakeNotLimitedHolds == Spec => []AwakeNotLimited
<1>1. NetInv => AwakeNotLimited
  <2> SUFFICES ASSUME NetInv, cur \in {"WORKING", "DARK", "NAP"}, ~ StatePending
               PROVE  ~ net.policy /\ (stale \/ net.trust = {})
    BY DEF AwakeNotLimited
  <2>1. PICK f : Chained(queue, f, cur) /\ NetTold(f[0])
    BY DEF NetInv
  <2>2. queue \in Seq(HandlerTask) /\ net.policy \in BOOLEAN
    BY DEF NetInv, InputsInv, InputsTypeOK, NetTypeOK
  <2>3. ~ ToldLater(queue, 0)
    BY <2>2 DEF ToldLater, StatePending
  <2>4. 0 \in 0..Len(queue)
    BY <2>2
  <2>5. f[0] = cur
    BY <2>1, <2>3, <2>4 DEF Chained
  <2>6. QED  BY <2>1, <2>2, <2>5 DEF NetTold, Asleep
<1>2. QED  BY <1>1, NetInvHolds, PTL

(* A running application that is exempt is trusted, once every message has *)
(* been handled: also one that started while the strategy was on.          *)
THEOREM AllowedIsTrustedHolds == Spec => []AllowedIsTrusted
<1>1. NetInv => AllowedIsTrusted
  <2> SUFFICES ASSUME NetInv, ns.enabled, heard, queue = <<>>, ~ stale,
                      NEW a \in App, IsRunning(a), "NETWORK" \in allowed[a]
               PROVE  a \in net.trust
    BY DEF AllowedIsTrusted
  <2>1. Hears /\ ns.enabled = TRUE
    BY DEF NetInv, NetTypeOK, Hears
  <2>2. \A T : ~ Waits(queue, T)
    BY DEF Waits
  <2>3. PICK p \in running : AppOf[p] = a
    BY DEF IsRunning
  <2>4. /\ ns.info[a].known = TRUE
        /\ Exempt(ns, a) => a \in net.trust
    BY <2>1, <2>2, <2>3 DEF NetInv, RunningAreKnown
  <2>5. Reasons(a, ns.info[a].flags, queue)
    BY <2>1, <2>4 DEF NetInv, FlagsHaveReasons
  <2>6. "EXEMPTION" \in ns.info[a].flags
    BY <2>2, <2>5 DEF Reasons
  <2>7. Exempt(ns, a)
    BY <2>4, <2>6 DEF Exempt, IsFlagExempted, IsExempted
  <2>8. QED  BY <2>4, <2>7
<1>2. QED  BY <1>1, NetInvHolds, PTL

(* The configuration restricts the network of such applications only whose *)
(* restriction no conditional flag hides and no exemption lifts.           *)
RestrictedUnmoved ==
  \A c \in ResourceConfig :
    c.resource = "NETWORK" /\ c.isAllow = FALSE => \A a \in c.apps : Unmoved(a)

(* Nobody stays on the trust list without a reason, if the configuration   *)
(* is such.  AddExemptionFlag clears RESTRICTED of a conditional           *)
(* application that the configuration restricts as well, and a lifted      *)
(* exemption does not bring it back: then the table forgets the reason.    *)
THEOREM TrustHasReasonHolds ==
  ASSUME RestrictedUnmoved PROVE Spec => []TrustHasReason
<1>1. NetInv => TrustHasReason
  <2> SUFFICES ASSUME NetInv, ns.enabled, heard, queue = <<>>, ~ stale, NEW a \in net.trust
               PROVE  IsFlagExempted(NetInitFlags(a))
    BY DEF TrustHasReason
  <2> DEFINE flags == ns.info[a].flags
             listed == ListedFlags(a, "NETWORK")
             front == Given(a \in ForegroundApp, "FOREGROUND_APP")
             work == {t \in tasks[a] : ExemptTask(t)}
             base == SystemFlags(a) \cup front \cup work \cup listed
             full == NetInitFlags(a)
  <2>1. Hears /\ a \in App /\ tasks \in [App -> SUBSET TaskFlag]
        /\ ns.info[a].flags \subseteq Flag
    BY DEF NetInv, NetTypeOK, NetInfo, Hears, InputsInv, InputsTypeOK
  <2>2. ns.info[a].known = TRUE /\ IsFlagExempted(flags)
    BY <2>1 DEF NetInv, TrustedAreExempt, Exempt
  <2>3. Reasons(a, flags, queue)
    BY <2>1, <2>2 DEF NetInv, FlagsHaveReasons
  <2>4. \A T : ~ Waits(queue, T)
    BY DEF Waits
  <2>5. /\ "EXEMPTION" \in listed <=> "NETWORK" \in allowed[a] \/ a \in Permitted
        /\ "RESTRICTED" \in listed => a \in Prohibited /\ a \notin Permitted
        /\ listed \subseteq {"EXEMPTION", "RESTRICTED"}
    BY <2>1 DEF ListedFlags, Given, GetAllowListInner, GetEligiableRestrictSet, Permitted, Prohibited
  <2>6. a \in Prohibited => Unmoved(a)
    BY DEF Prohibited, GetPersistAllowList, GetEligiblePersistAllowConfig, RestrictedUnmoved
  <2>7. /\ "UNRESTRICTED" \in SystemFlags(a) <=> a \in SystemApp
        /\ "FOREGROUND_APP" \in front <=> a \in ForegroundApp
        /\ SystemFlags(a) \subseteq {"UNRESTRICTED"} /\ front \subseteq {"FOREGROUND_APP"}
    BY DEF SystemFlags, Given
  <2>8. full = Conditional(a, base)
    BY DEF NetInitFlags
  <2>9. work \subseteq TaskFlag /\ \A t \in TaskFlag : t \in flags => t \in work
    BY <2>1, <2>3, <2>4 DEF Reasons
  <2> HIDE DEF flags, listed, front, work
  <2>10. \A f \in flags \ {"RESTRICTED"} : f \in base
    BY <2>1, <2>3, <2>4, <2>5, <2>7, <2>9 DEF Reasons, Flag, flags
  <2>11. base \subseteq full /\ full \subseteq base \cup {"RESTRICTED"}
    BY <2>8 DEF Conditional, Given
  <2>12. CASE "EXEMPTION" \in flags
    <3>1. "EXEMPTION" \in full
      BY <2>10, <2>11, <2>12
    <3>2. QED  BY <3>1 DEF IsFlagExempted, IsExempted
  <2>13. CASE "EXEMPTION" \notin flags
    <3>1. "RESTRICTED" \notin flags /\ flags # {} /\ (night => flags \ {"UNRESTRICTED"} # {})
      BY <2>2, <2>13 DEF IsFlagExempted, IsExempted
    <3>2. "RESTRICTED" \notin base
      BY <2>3, <2>5, <2>6, <2>7, <2>9, <3>1 DEF Reasons, TaskFlag
    <3>3. ~ (a \in ConditionalApp /\ base \subseteq {"UNRESTRICTED"})
      <4>1. a \in ConditionalApp => ~ (flags \subseteq {"UNRESTRICTED"})
        BY <2>3 DEF Reasons
      <4>2. QED  BY <2>10, <3>1, <4>1
    <3>4. full = base
      BY <2>8, <3>3 DEF Conditional, Given
    <3>5. "RESTRICTED" \notin full /\ full # {} /\ (night => full \ {"UNRESTRICTED"} # {})
      BY <2>10, <3>1, <3>2, <3>4
    <3> HIDE DEF full
    <3>6. QED  BY <3>5 DEF IsFlagExempted, IsExempted, full
  <2>14. QED  BY <2>12, <2>13
<1>2. QED  BY <1>1, NetInvHolds, PTL
=============================================================================
