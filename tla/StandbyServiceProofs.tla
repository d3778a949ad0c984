------------------------ MODULE StandbyServiceProofs ------------------------
(* What StandbyService promises, for every set of abilities and every      *)
(* bound.  A part of the invariant says of each promise what holds before  *)
(* the service has caught up: which notices and which tasks still come,    *)
(* and that they will mend what is not right yet.                          *)
EXTENDS StandbyService, FiniteSetTheorems, WellFoundedInduction, TLAPS

(* What is in a sequence, its last element, and the last one of a kind: x  *)
(* is in s, and none of xs comes after it.                                 *)
Has(s, x) == \E i \in DOMAIN s : s[i] = x
End(s) == s[Len(s)]
EndsIn(s, x, xs) ==
  \E i \in DOMAIN s : s[i] = x /\ \A j \in DOMAIN s : j > i => s[j] \notin xs

UninitWaits == Has(high, "uninit")
RemovalComes(a) == Has(notices[a], "removed")
Listener == [kind : {"lid", "bgtask"}, at : Nat]
LidAlive == \E l \in Listener : Has(listeners, l) /\ l.kind = "lid" /\ Alive(l)

(* One that runs has started.                                              *)
UpHasStarted == \A a \in up : life[a] > 0

(* samgr tells of each start and each death of what the service depends    *)
(* on, in turn: the first notice is news and the last one is the truth.    *)
InTurn(s) == \A i \in 1..(Len(s) - 1) : s[i] # s[i + 1]
NoticesTell(a) ==
  /\ InTurn(notices[a])
  /\ notices[a] = << >> => (a \in dependsReady <=> a \in up)
  /\ notices[a] # << >> => (notices[a][1] = "added" <=> a \notin dependsReady)
  /\ notices[a] # << >> => (End(notices[a]) = "added" <=> a \in up)
NoticesInTurn == \A a \in Depend : NoticesTell(a)

(* The last task of high priority is the one that dependsReady_ asks for.  *)
(* With none, a service that is not ready lacks an ability, or its Init    *)
(* met a time service that had died, whose death samgr has still to tell,  *)
(* or one that refused it a timer.                                         *)
TasksFollowDepends ==
  /\ high # << >> => (End(high) = "init" <=> dependsReady = Depend)
  /\ high = << >> /\ isServiceReady => dependsReady = Depend
  /\ high = << >> /\ ~isServiceReady /\ dependsReady = Depend =>
       notices[TIME] # << >> \/ initTask = "failed"

(* A task of init that has begun stays the first one until it ends, in a   *)
(* service that is not ready.                                              *)
InitUnderWay == Initializing => ~isServiceReady /\ high # << >> /\ high[1] = "init"

(* The state manager is there.                                             *)
Inited == isServiceReady \/ Initializing

(* An observer is there exactly while dependsReady_ has its ability, and   *)
(* is the current one unless its subscription failed.                      *)
ObserversFollowDepends ==
  \A a \in Observed :
    /\ observer[a].made <=> a \in dependsReady
    /\ ~observer[a].made => observer[a] = Nothing
    /\ notices[a] = << >> /\ a \in dependsReady => observer[a].at = life[a] \/ observer[a].deaf

(* The states' timers are lost only with a death that UnInit will follow.  *)
StateTimersKept ==
  Inited /\ ~UninitWaits /\ notices[TIME] = << >> => stateTimers = life[TIME]

(* A timer that cannot be used was of a time service whose death comes.    *)
TimerUsable == timer.made /\ ~Usable(timer) => RemovalComes(TIME)

(* A timer that can be used and is not armed has expired, and its task     *)
(* waits; there is a timer since the time service was added.               *)
TimerArmed ==
  ~registerFailed =>
    /\ Usable(timer) => timer.armed \/ Pending("day_night")
    /\ TIME \in dependsReady => timer.made

(* A ready service lists one lid listener, which the input service holds   *)
(* unless its death comes.                                                 *)
OneLid(s) ==
  \A i, j \in DOMAIN s : s[i].kind = "lid" /\ s[j].kind = "lid" => i = j
LidsListed ==
  /\ \A l \in Listener : Has(listeners, l) =>
       IF l.kind = "lid" THEN l.at <= life[INPUT] ELSE l = BgListener
  /\ Listed("lid") <=> isServiceReady
  /\ OneLid(listeners)
  /\ lidListeners = IF LidAlive THEN 1 ELSE 0
  /\ isServiceReady /\ ~UninitWaits /\ notices[INPUT] = << >> => LidAlive

(* While the background task manager runs, the last of what a ready        *)
(* service will hear of it is that it was added.                           *)
BgTasksComing ==
  /\ isServiceReady => watched
  /\ isServiceReady /\ BGTASK \in up =>
       IF notices[BGTASK] # << >> THEN End(notices[BGTASK]) = "added"
       ELSE \/ EndsIn(queue, "bgtask_added", {"bgtask_removed"})
            \/ (~Pending("bgtask_removed") /\ bgListening /\ Listed("bgtask"))

(* What the managers believe of the screen is true once the message under  *)
(* way is posted and those that wait are handled, unless a stray one is    *)
(* among them or the last change was missed.  The first message of a ready *)
(* service is never stray.                                                 *)
ScreenEvent == {"screen_on", "screen_off"}
ScreenSettles ==
  \/ manager.actual = "on" /\ EndsIn(queue, "screen_on", ScreenEvent)
  \/ manager.actual = "off" /\ EndsIn(queue, "screen_off", ScreenEvent)
  \/ /\ ~Pending("screen_on") /\ ~Pending("screen_off")
     /\ manager.screen = manager.actual
ScreenBelieved ==
  /\ Inited /\ ~manager.stray /\ ~manager.missed =>
       IF manager.dispatching # NoMessage THEN manager.dispatching = manager.actual
       ELSE ScreenSettles
  /\ Initializing /\ ~manager.stray => ~ScreenOnTheWay

(* A device that works although it believes its screen off will check it,  *)
(* unless an evaluation that nothing ends keeps it from going dark.        *)
ScreenChecked ==
  /\ manager.inited <=> Inited
  /\ ~Inited => Working(manager)
  /\ ~Working(manager) => manager.screen = "off"
  /\ Inited /\ Working(manager) /\ manager.screen = "off" /\ ~manager.evaluating =>
       Pending("check_screen")

ServiceInv ==
  /\ TypeOK
  /\ UpHasStarted
  /\ NoticesInTurn
  /\ TasksFollowDepends
  /\ InitUnderWay
  /\ ObserversFollowDepends
  /\ StateTimersKept
  /\ TimerUsable
  /\ TimerArmed
  /\ LidsListed
  /\ BgTasksComing
  /\ ScreenBelieved
  /\ ScreenChecked

-----------------------------------------------------------------------------
(* Induction, from the least counterexample: the intervals 0..k are well   *)
(* founded under inclusion.                                                *)

(* A set of natural numbers that is not empty has a least element.         *)
LEMMA LeastNumber ==
  ASSUME NEW T, T \subseteq Nat, T # {}
  PROVE  \E m \in T : \A n \in T : m <= n
<1> DEFINE F == {0..k : k \in T}
<1>1. F \subseteq FiniteSubsetsOf(Nat)
  <2>1. ASSUME NEW k \in T PROVE 0..k \in FiniteSubsetsOf(Nat)
    <3>1. IsFiniteSet(0..k) BY FS_Interval
    <3>2. 0..k \in SUBSET Nat OBVIOUS
    <3> QED BY <3>1, <3>2 DEF FiniteSubsetsOf
  <2> QED BY <2>1
<1>2. \E x \in F : \A y \in F : ~(<<y, x>> \in StrictSubsetOrdering(Nat))
  <2>1. F # {} OBVIOUS
  <2> HIDE DEF F
  <2>2. IsWellFoundedOn(StrictSubsetOrdering(Nat), FiniteSubsetsOf(Nat))
    BY FS_StrictSubsetOrderingWellFounded
  <2> QED BY <2>1, <2>2, <1>1, WFMin
<1>3. PICK m \in T : \A y \in F : ~(<<y, 0..m>> \in StrictSubsetOrdering(Nat))
  BY <1>2
<1>4. ASSUME NEW n \in T, n < m PROVE FALSE
  <2>1. 0..n \subseteq 0..m /\ 0..n # 0..m
    <3>1. m \in 0..m /\ m \notin 0..n BY <1>4
    <3> QED BY <3>1, <1>4
  <2>2. <<0..n, 0..m>> \in StrictSubsetOrdering(Nat)
    BY <2>1 DEF StrictSubsetOrdering
  <2> QED BY <2>2, <1>3
<1> QED BY <1>4

(* A set that has 0, and n + 1 with each n below N, has all of 0..N.       *)
LEMMA UpTo ==
  ASSUME NEW N \in Nat, NEW G, 0 \in G, \A n \in 0..N : n \in G /\ n < N => n + 1 \in G
  PROVE  0..N \subseteq G
<1> SUFFICES ASSUME (0..N) \ G # {} PROVE FALSE
  OBVIOUS
<1> DEFINE T == (0..N) \ G
<1>1. PICK m \in T : \A n \in T : m <= n
  <2>1. T \subseteq Nat /\ T # {} OBVIOUS
  <2> HIDE DEF T
  <2> QED BY <2>1, LeastNumber
<1>2. m # 0 /\ m - 1 \in 0..N /\ m - 1 < N /\ m - 1 \notin T
  BY <1>1
<1>3. (m - 1) + 1 = m
  BY <1>1
<1> QED BY <1>1, <1>2, <1>3

-----------------------------------------------------------------------------
(* Without takes out every occurrence and keeps the order of the others.   *)

KeptNext(s, e, old, n) == IF s[n] = e THEN old ELSE Append(old, s[n])
KeptTo(s, e, g, n) == [m \in 0..n |-> IF m = 0 THEN << >> ELSE KeptNext(s, e, g[m - 1], m)]

(* The function of the definition exists.                                  *)
LEMMA KeptExists ==
  ASSUME NEW S, NEW s \in Seq(S), NEW e
  PROVE  \E g : g = KeptTo(s, e, g, Len(s))
<1> DEFINE G == {n \in 0..Len(s) : \E g : g = KeptTo(s, e, g, n)}
<1>1. 0 \in G
  <2> DEFINE z == [m \in 0..0 |-> << >>]
  <2>1. z = KeptTo(s, e, z, 0)
    BY DEF KeptTo
  <2> QED BY <2>1
<1>2. ASSUME NEW n \in 0..Len(s), n \in G, n < Len(s)
      PROVE  n + 1 \in G
  <2>1. PICK g : g = KeptTo(s, e, g, n)
    BY <1>2
  <2> DEFINE h == [m \in 0..(n + 1) |-> IF m = n + 1 THEN KeptNext(s, e, g[n], n + 1) ELSE g[m]]
  <2>2. \A m \in 0..n : h[m] = g[m]
    OBVIOUS
  <2>3. h[n + 1] = KeptNext(s, e, g[n], n + 1)
    OBVIOUS
  <2>4. \A m \in 0..n : g[m] = IF m = 0 THEN << >> ELSE KeptNext(s, e, g[m - 1], m)
    BY <2>1 DEF KeptTo
  <2>5. \A m \in 0..(n + 1) : h[m] = IF m = 0 THEN << >> ELSE KeptNext(s, e, h[m - 1], m)
    <3> TAKE m \in 0..(n + 1)
    <3>1. CASE m = n + 1
      BY <3>1, <2>2, <2>3
    <3>2. CASE m # n + 1
      <4>1. m \in 0..n /\ (m # 0 => m - 1 \in 0..n)
        BY <3>2
      <4> QED BY <4>1, <2>2, <2>4
    <3> QED BY <3>1, <3>2
  <2>6. h = KeptTo(s, e, h, n + 1)
    <3>1. h = [m \in 0..(n + 1) |-> h[m]]
      OBVIOUS
    <3> HIDE DEF h
    <3> QED BY <2>5, <3>1 DEF KeptTo
  <2>7. n + 1 \in 0..Len(s)
    BY <1>2
  <2> QED BY <2>6, <2>7
<1>3. Len(s) \in G
  <2> HIDE DEF G
  <2>1. Len(s) \in Nat
    OBVIOUS
  <2>2. 0..Len(s) \subseteq G
    BY <1>1, <1>2, <2>1, UpTo
  <2> QED BY <2>1, <2>2
<1> QED BY <1>3

(* f gives the places in s of the elements of r: r is what the first n     *)
(* elements of s are without e, in order.                                  *)
PicksTo(f, r, s, e, n) ==
  /\ f \in [1..Len(r) -> 1..n]
  /\ \A j \in 1..Len(r) : r[j] = s[f[j]] /\ s[f[j]] # e
  /\ \A j, k \in 1..Len(r) : j < k => f[j] < f[k]
  /\ \A i \in 1..n : s[i] # e => \E j \in 1..Len(r) : f[j] = i

(* One more element of s, and it is e.                                     *)
LEMMA PicksSkip ==
  ASSUME NEW S, NEW s \in Seq(S), NEW e, NEW n \in Nat, n < Len(s), s[n + 1] = e,
         NEW r \in Seq(S), NEW f, PicksTo(f, r, s, e, n)
  PROVE  PicksTo(f, r, s, e, n + 1)
<1>1. \A i \in 1..(n + 1) : i \in 1..n \/ i = n + 1
  OBVIOUS
<1>2. f \in [1..Len(r) -> 1..(n + 1)]
  BY DEF PicksTo
<1>3. \A i \in 1..(n + 1) : s[i] # e => \E j \in 1..Len(r) : f[j] = i
  BY <1>1 DEF PicksTo
<1> QED BY <1>2, <1>3 DEF PicksTo

(* One more element of s, and it is kept.                                  *)
LEMMA PicksAppend ==
  ASSUME NEW S, NEW s \in Seq(S), NEW e, NEW n \in Nat, n < Len(s), s[n + 1] # e,
         NEW r \in Seq(S), NEW f, PicksTo(f, r, s, e, n)
  PROVE  \E g : PicksTo(g, Append(r, s[n + 1]), s, e, n + 1)
<1> DEFINE q == Append(r, s[n + 1])
           g == [j \in 1..Len(q) |-> IF j = Len(q) THEN n + 1 ELSE f[j]]
<1>1. n + 1 \in 1..Len(s) /\ s[n + 1] \in S
  OBVIOUS
<1>2. Len(q) = Len(r) + 1 /\ q[Len(q)] = s[n + 1] /\ \A j \in 1..Len(r) : q[j] = r[j]
  BY <1>1
<1>3. \A j \in 1..Len(q) : j = Len(q) \/ j \in 1..Len(r)
  BY <1>2
<1>4. g[Len(q)] = n + 1 /\ \A j \in 1..Len(r) : g[j] = f[j]
  BY <1>2
<1>5. g = [j \in 1..Len(q) |-> g[j]]
  OBVIOUS
<1>6. Len(r) \in Nat /\ Len(q) \in Nat
  BY <1>2
<1> HIDE DEF g, q
<1>0. \A j \in 1..Len(r) : f[j] \in 1..n /\ f[j] <= n
  BY DEF PicksTo
<1>7. g \in [1..Len(q) -> 1..(n + 1)]
  <2>1. \A j \in 1..Len(q) : g[j] \in 1..(n + 1)
    <3> TAKE j \in 1..Len(q)
    <3>1. CASE j = Len(q)
      BY <3>1, <1>4
    <3>2. CASE j \in 1..Len(r)
      BY <3>2, <1>4, <1>0
    <3> QED BY <3>1, <3>2, <1>3
  <2> QED BY <2>1, <1>5
<1>8. \A j \in 1..Len(q) : q[j] = s[g[j]] /\ s[g[j]] # e
  BY <1>2, <1>3, <1>4 DEF PicksTo
<1>9. \A j, k \in 1..Len(q) : j < k => g[j] < g[k]
  <2> SUFFICES ASSUME NEW j \in 1..Len(q), NEW k \in 1..Len(q), j < k PROVE g[j] < g[k]
    OBVIOUS
  <2>1. j \in 1..Len(r) /\ f[j] \in 1..n
    <3>1. j \in Nat /\ k \in Nat /\ 1 <= j /\ k <= Len(q)
      BY <1>6
    <3>2. j \in 1..Len(r)
      BY <3>1, <1>2, <1>6
    <3> QED BY <3>2, <1>0
  <2>2. CASE k = Len(q)
    BY <2>1, <2>2, <1>4
  <2>3. CASE k \in 1..Len(r)
    BY <2>1, <2>3, <1>4 DEF PicksTo
  <2> QED BY <2>2, <2>3, <1>3
<1>10. \A i \in 1..(n + 1) : s[i] # e => \E j \in 1..Len(q) : g[j] = i
  <2> SUFFICES ASSUME NEW i \in 1..(n + 1), s[i] # e PROVE \E j \in 1..Len(q) : g[j] = i
    OBVIOUS
  <2>1. CASE i = n + 1
    BY <2>1, <1>4, <1>2, <1>6
  <2>2. CASE i \in 1..n
    <3>1. PICK j \in 1..Len(r) : f[j] = i
      BY <2>2 DEF PicksTo
    <3> QED BY <3>1, <1>4, <1>2, <1>6
  <2> QED BY <2>1, <2>2
<1>11. PicksTo(g, q, s, e, n + 1)
  BY <1>7, <1>8, <1>9, <1>10 DEF PicksTo
<1> QED BY <1>11 DEF q

(* What Without returns.                                                   *)
LEMMA WithoutDoes ==
  ASSUME NEW S, NEW s \in Seq(S), NEW e
  PROVE  /\ Without(s, e) \in Seq(S)
         /\ \E f : PicksTo(f, Without(s, e), s, e, Len(s))
<1> DEFINE kept == CHOOSE g : g = KeptTo(s, e, g, Len(s))
<1>1. kept = KeptTo(s, e, kept, Len(s))
  BY KeptExists
<1>2. Without(s, e) = kept[Len(s)]
  BY DEF Without, KeptTo, KeptNext
<1> HIDE DEF kept
<1>3. \A m \in 0..Len(s) : kept[m] = IF m = 0 THEN << >> ELSE KeptNext(s, e, kept[m - 1], m)
  BY <1>1 DEF KeptTo
<1> DEFINE G == {n \in 0..Len(s) : kept[n] \in Seq(S) /\ \E f : PicksTo(f, kept[n], s, e, n)}
<1>4. Len(s) \in Nat
  OBVIOUS
<1>5. 0 \in G
  <2>1. kept[0] = << >>
    BY <1>3, <1>4
  <2> DEFINE z == [j \in 1..0 |-> 0]
  <2>2. PicksTo(z, << >>, s, e, 0)
    BY DEF PicksTo
  <2>3. \E f : PicksTo(f, kept[0], s, e, 0)
    BY <2>1, <2>2
  <2>4. kept[0] \in Seq(S)
    BY <2>1
  <2>5. 0 \in 0..Len(s)
    BY <1>4
  <2> QED BY <2>3, <2>4, <2>5
<1>6. ASSUME NEW n \in 0..Len(s), n \in G, n < Len(s)
      PROVE  n + 1 \in G
  <2>1. n + 1 \in 0..Len(s) /\ kept[n + 1] = KeptNext(s, e, kept[n], n + 1)
    BY <1>3, <1>4, <1>6
  <2>2. PICK f : PicksTo(f, kept[n], s, e, n)
    BY <1>6
  <2>3. kept[n] \in Seq(S) /\ n \in Nat
    BY <1>6
  <2>4. CASE s[n + 1] = e
    <3>1. kept[n + 1] = kept[n]
      BY <2>1, <2>4 DEF KeptNext
    <3>2. PicksTo(f, kept[n], s, e, n + 1)
      BY <2>2, <2>3, <2>4, <1>6, PicksSkip
    <3>3. kept[n + 1] \in Seq(S) /\ \E g : PicksTo(g, kept[n + 1], s, e, n + 1)
      BY <3>1, <3>2, <2>3
    <3> QED BY <3>3, <2>1
  <2>5. CASE s[n + 1] # e
    <3>1. kept[n + 1] = Append(kept[n], s[n + 1])
      BY <2>1, <2>5 DEF KeptNext
    <3>2. \E g : PicksTo(g, Append(kept[n], s[n + 1]), s, e, n + 1)
      BY <2>2, <2>3, <2>5, <1>6, PicksAppend
    <3>3. s[n + 1] \in S
      BY <2>3, <1>6
    <3>4. kept[n + 1] \in Seq(S)
      BY <3>1, <3>3, <2>3
    <3>5. \E g : PicksTo(g, kept[n + 1], s, e, n + 1)
      BY <3>1, <3>2
    <3> QED BY <3>4, <3>5, <2>1
  <2> QED BY <2>4, <2>5
<1>7. Len(s) \in G
  <2> HIDE DEF G
  <2>1. 0..Len(s) \subseteq G
    BY <1>4, <1>5, <1>6, UpTo
  <2> QED BY <2>1, <1>4
<1> QED BY <1>2, <1>7

-----------------------------------------------------------------------------
(* What the operations on queues do to what is in them.                    *)

(* What a sequence has after an element is appended,                       *)
LEMMA AppendHas ==
  ASSUME NEW S, NEW s \in Seq(S), NEW y \in S, NEW x
  PROVE  Has(Append(s, y), x) <=> Has(s, x) \/ y = x
<1>1. DOMAIN s = 1..Len(s) /\ DOMAIN Append(s, y) = 1..(Len(s) + 1) /\ Len(s) \in Nat
  OBVIOUS
<1>2. Append(s, y)[Len(s) + 1] = y /\ \A i \in 1..Len(s) : Append(s, y)[i] = s[i]
  OBVIOUS
<1>3. \A i \in 1..(Len(s) + 1) : i = Len(s) + 1 \/ i \in 1..Len(s)
  BY <1>1
<1>4. Len(s) + 1 \in 1..(Len(s) + 1) /\ \A i \in 1..Len(s) : i \in 1..(Len(s) + 1)
  BY <1>1
<1> QED BY <1>1, <1>2, <1>3, <1>4 DEF Has

(* what it has besides its first element,                                  *)
LEMMA TailHas ==
  ASSUME NEW S, NEW s \in Seq(S), s # << >>, NEW x
  PROVE  Has(s, x) <=> Head(s) = x \/ Has(Tail(s), x)
<1>1. /\ Len(s) \in Nat /\ Len(s) > 0 /\ DOMAIN s = 1..Len(s) /\ DOMAIN Tail(s) = 1..(Len(s) - 1)
      /\ Head(s) = s[1] /\ \A i \in 1..(Len(s) - 1) : Tail(s)[i] = s[i + 1]
  OBVIOUS
<1>2. ASSUME Has(s, x) PROVE Head(s) = x \/ Has(Tail(s), x)
  <2>1. PICK i \in 1..Len(s) : s[i] = x
    BY <1>1, <1>2 DEF Has
  <2>2. CASE i = 1
    BY <2>1, <2>2, <1>1
  <2>3. CASE i # 1
    <3>1. i - 1 \in 1..(Len(s) - 1) /\ (i - 1) + 1 = i
      BY <2>3, <1>1
    <3> QED BY <3>1, <2>1, <1>1 DEF Has
  <2> QED BY <2>2, <2>3
<1>3. ASSUME Has(Tail(s), x) PROVE Has(s, x)
  <2>1. PICK i \in 1..(Len(s) - 1) : Tail(s)[i] = x
    BY <1>1, <1>3 DEF Has
  <2>2. i + 1 \in 1..Len(s)
    BY <1>1
  <2> QED BY <2>1, <2>2, <1>1 DEF Has
<1>4. ASSUME Head(s) = x PROVE Has(s, x)
  <2>1. 1 \in 1..Len(s)
    BY <1>1
  <2> QED BY <2>1, <1>1, <1>4 DEF Has
<1> QED BY <1>2, <1>3, <1>4

(* and what it has after every occurrence of an element is taken out.      *)
LEMMA WithoutHas ==
  ASSUME NEW S, NEW s \in Seq(S), NEW e, NEW x
  PROVE  Has(Without(s, e), x) <=> x # e /\ Has(s, x)
<1> DEFINE r == Without(s, e)
<1>1. r \in Seq(S)
  BY WithoutDoes
<1>2. PICK f : PicksTo(f, r, s, e, Len(s))
  BY WithoutDoes
<1>3. DOMAIN r = 1..Len(r) /\ DOMAIN s = 1..Len(s)
  BY <1>1
<1> HIDE DEF r
<1>4. \A j \in 1..Len(r) : f[j] \in 1..Len(s)
  BY <1>2 DEF PicksTo
<1> QED BY <1>2, <1>3, <1>4 DEF PicksTo, Has, r

(* The last one of a kind is the new element, or the one before it stays   *)
(* the last.                                                               *)
LEMMA AppendEndsIn ==
  ASSUME NEW S, NEW s \in Seq(S), NEW y \in S, NEW x, NEW xs
  PROVE  /\ y = x => EndsIn(Append(s, y), x, xs)
         /\ y \notin xs /\ EndsIn(s, x, xs) => EndsIn(Append(s, y), x, xs)
<1>1. DOMAIN s = 1..Len(s) /\ DOMAIN Append(s, y) = 1..(Len(s) + 1) /\ Len(s) \in Nat
  OBVIOUS
<1>2. Append(s, y)[Len(s) + 1] = y /\ \A i \in 1..Len(s) : Append(s, y)[i] = s[i]
  OBVIOUS
<1> DEFINE q == Append(s, y)
           n == Len(s)
<1> HIDE DEF q, n
<1>3. ASSUME y = x PROVE EndsIn(q, x, xs)
  <2>1. n + 1 \in 1..(n + 1) /\ \A j \in 1..(n + 1) : ~(j > n + 1)
    BY <1>1 DEF n
  <2> QED BY <2>1, <1>1, <1>2, <1>3 DEF EndsIn, q, n
<1>4. ASSUME y \notin xs, EndsIn(s, x, xs) PROVE EndsIn(q, x, xs)
  <2>1. PICK i \in 1..n : s[i] = x /\ \A j \in 1..n : j > i => s[j] \notin xs
    BY <1>1, <1>4 DEF EndsIn, n
  <2>2. \A j \in 1..(n + 1) : j > i => q[j] \notin xs
    <3> TAKE j \in 1..(n + 1)
    <3>1. j = n + 1 \/ j \in 1..n
      BY <1>1 DEF n
    <3> QED BY <3>1, <2>1, <1>2, <1>4 DEF q, n
  <2>3. i \in 1..(n + 1) /\ q[i] = x
    BY <2>1, <1>1, <1>2 DEF q, n
  <2> QED BY <2>2, <2>3, <1>1 DEF EndsIn, q, n
<1> QED BY <1>3, <1>4 DEF q

(* The last one of a kind stays the last, unless it was the first element. *)
LEMMA TailEndsIn ==
  ASSUME NEW S, NEW s \in Seq(S), s # << >>, NEW x, NEW xs, EndsIn(s, x, xs)
  PROVE  \/ EndsIn(Tail(s), x, xs)
         \/ Head(s) = x /\ \A y \in xs : ~Has(Tail(s), y)
<1>1. /\ Len(s) \in Nat /\ Len(s) > 0 /\ DOMAIN s = 1..Len(s) /\ DOMAIN Tail(s) = 1..(Len(s) - 1)
      /\ Head(s) = s[1] /\ \A i \in 1..(Len(s) - 1) : Tail(s)[i] = s[i + 1]
  OBVIOUS
<1>2. PICK i \in 1..Len(s) : s[i] = x /\ \A j \in 1..Len(s) : j > i => s[j] \notin xs
  BY <1>1 DEF EndsIn
<1>3. \A j \in 1..(Len(s) - 1) : j + 1 > i => Tail(s)[j] \notin xs
  <2> SUFFICES ASSUME NEW j \in 1..(Len(s) - 1), j + 1 > i PROVE Tail(s)[j] \notin xs
    OBVIOUS
  <2>1. j + 1 \in 1..Len(s)
    BY <1>1
  <2> QED BY <2>1, <1>1, <1>2
<1>4. CASE i = 1
  <2>1. \A j \in 1..(Len(s) - 1) : Tail(s)[j] \notin xs
    BY <1>3, <1>4, <1>1
  <2>2. \A y \in xs : ~Has(Tail(s), y)
    BY <2>1, <1>1 DEF Has
  <2> QED BY <2>2, <1>4, <1>1, <1>2
<1>5. CASE i # 1
  <2>1. i - 1 \in 1..(Len(s) - 1) /\ (i - 1) + 1 = i
    BY <1>5, <1>1
  <2>2. Tail(s)[i - 1] = x
    BY <2>1, <1>1, <1>2
  <2>3. \A j \in 1..(Len(s) - 1) : j > i - 1 => Tail(s)[j] \notin xs
    BY <1>1, <1>3
  <2> QED BY <2>1, <2>2, <2>3, <1>1 DEF EndsIn
<1> QED BY <1>4, <1>5

(* The last one of a kind stays the last when other elements are taken     *)
(* out.                                                                    *)
LEMMA WithoutEndsIn ==
  ASSUME NEW S, NEW s \in Seq(S), NEW e, NEW x, NEW xs, x # e, EndsIn(s, x, xs)
  PROVE  EndsIn(Without(s, e), x, xs)
<1> DEFINE r == Without(s, e)
<1>1. r \in Seq(S)
  BY WithoutDoes
<1>2. PICK f : PicksTo(f, r, s, e, Len(s))
  BY WithoutDoes
<1>3. DOMAIN r = 1..Len(r) /\ DOMAIN s = 1..Len(s) /\ Len(r) \in Nat /\ Len(s) \in Nat
  BY <1>1
<1> HIDE DEF r
<1>4. \A j \in 1..Len(r) : f[j] \in 1..Len(s)
  BY <1>2 DEF PicksTo
<1>5. PICK i \in 1..Len(s) : s[i] = x /\ \A j \in 1..Len(s) : j > i => s[j] \notin xs
  BY <1>3 DEF EndsIn
<1>6. PICK k \in 1..Len(r) : f[k] = i
  BY <1>2, <1>5 DEF PicksTo
<1>7. r[k] = x
  BY <1>2, <1>5, <1>6 DEF PicksTo
<1>8. \A j \in 1..Len(r) : j > k => r[j] \notin xs
  <2> SUFFICES ASSUME NEW j \in 1..Len(r), j > k PROVE r[j] \notin xs
    OBVIOUS
  <2>1. k < j
    BY <1>3
  <2>2. f[j] > i
    BY <2>1, <1>2, <1>4, <1>6 DEF PicksTo
  <2>3. r[j] = s[f[j]]
    BY <1>2 DEF PicksTo
  <2> QED BY <2>2, <2>3, <1>4, <1>5
<1> QED BY <1>3, <1>7, <1>8 DEF EndsIn, r

(* The ends of a queue.                                                    *)
LEMMA Ends ==
  ASSUME NEW S, NEW s \in Seq(S)
  PROVE  /\ \A y \in S : End(Append(s, y)) = y /\ Append(s, y) # << >>
         /\ \A y \in S : s # << >> => Append(s, y)[1] = s[1]
         /\ \A y \in S : s = << >> => Append(s, y)[1] = y
         /\ s # << >> => Head(s) = s[1] /\ Head(s) \in S /\ Tail(s) \in Seq(S)
         /\ s # << >> /\ Tail(s) # << >> => End(Tail(s)) = End(s)
         /\ s # << >> /\ Tail(s) = << >> => End(s) = Head(s)
         /\ s # << >> => Has(s, End(s)) /\ End(s) \in S
  BY DEF End, Has

(* An element that differs from the last one continues the turns.          *)
LEMMA AppendInTurn ==
  ASSUME NEW S, NEW s \in Seq(S), NEW y \in S, InTurn(s), s # << >> => End(s) # y
  PROVE  InTurn(Append(s, y))
<1>1. Len(s) \in Nat /\ Len(Append(s, y)) = Len(s) + 1
  OBVIOUS
<1>2. Append(s, y)[Len(s) + 1] = y /\ \A i \in 1..Len(s) : Append(s, y)[i] = s[i]
  OBVIOUS
<1> DEFINE q == Append(s, y)
           n == Len(s)
<1> HIDE DEF q, n
<1>3. \A i \in 1..n : q[i] # q[i + 1]
  <2> TAKE i \in 1..n
  <2>1. CASE i = n
    <3>1. s # << >> /\ n \in 1..n /\ End(s) = s[n]
      BY <2>1, <1>1 DEF n, End
    <3> QED BY <3>1, <2>1, <1>2 DEF n, q
  <2>2. CASE i # n
    <3>1. i \in 1..(n - 1) /\ i + 1 \in 1..n
      BY <2>2, <1>1 DEF n
    <3> QED BY <3>1, <1>2 DEF n, q, InTurn
  <2> QED BY <2>1, <2>2
<1>4. (n + 1) - 1 = n /\ Len(q) = n + 1
  BY <1>1 DEF n, q
<1> QED BY <1>3, <1>4 DEF InTurn, q

(* The turns go on without the first element.                              *)
LEMMA TailInTurn ==
  ASSUME NEW S, NEW s \in Seq(S), s # << >>, InTurn(s)
  PROVE  /\ InTurn(Tail(s))
         /\ Tail(s) # << >> => Tail(s)[1] # s[1]
<1>1. /\ Len(s) \in Nat /\ Len(s) > 0 /\ Len(Tail(s)) = Len(s) - 1
      /\ \A i \in 1..(Len(s) - 1) : Tail(s)[i] = s[i + 1]
  OBVIOUS
<1>2. ASSUME NEW i \in 1..(Len(Tail(s)) - 1) PROVE Tail(s)[i] # Tail(s)[i + 1]
  <2>1. i \in 1..(Len(s) - 1) /\ i + 1 \in 1..(Len(s) - 1)
    BY <1>1
  <2> QED BY <2>1, <1>1 DEF InTurn
<1>3. ASSUME Tail(s) # << >> PROVE Tail(s)[1] # s[1]
  <2>1. 1 \in 1..(Len(s) - 1)
    BY <1>1, <1>3
  <2> QED BY <2>1, <1>1 DEF InTurn
<1> QED BY <1>2, <1>3 DEF InTurn

-----------------------------------------------------------------------------
(* Types, in parts.                                                        *)

CoreTypeOK ==
  /\ life \in [Ability -> Nat] /\ up \subseteq Ability /\ watched \in BOOLEAN
  /\ notices \in [Ability -> Seq(Notice)]
  /\ dependsReady \subseteq Depend /\ isServiceReady \in BOOLEAN
  /\ initTask \in {"idle", "begun", "failed"} /\ high \in Seq({"init", "uninit"})
ObserverTypeOK == observer \in [Observed -> [made : BOOLEAN, at : Nat, deaf : BOOLEAN]]
TimerTypeOK ==
  /\ timer \in [made : BOOLEAN, at : Nat, armed : BOOLEAN]
  /\ timer.at <= life[TIME] /\ (timer.armed => TIME \in up)
  /\ registerFailed \in BOOLEAN /\ failures \in Nat
ListenersTypeOK ==
  /\ listeners \in Seq(Listener)
  /\ lidListeners \in Nat /\ bgListening \in BOOLEAN
ManagerType ==
  [inited : BOOLEAN, state : {"WORKING", "STANDBY"}, screen : Screen, actual : Screen,
   isEvalution : BOOLEAN, evaluating : BOOLEAN, dispatching : Screen \cup {NoMessage},
   stray : BOOLEAN, missed : BOOLEAN]

(* The type invariant, by the components that the parts are about.         *)
LEMMA TypeParts ==
  TypeOK <=> /\ CoreTypeOK /\ ObserverTypeOK /\ TimerTypeOK /\ ListenersTypeOK
             /\ queue \in Seq(Task) /\ stateTimers \in 0..life[TIME] /\ manager \in ManagerType
  BY DEF TypeOK, CoreTypeOK, ObserverTypeOK, TimerTypeOK, ListenersTypeOK, Listener, ManagerType

(* The abilities that have a part of their own.                            *)
LEMMA Abilities ==
  /\ TIME \in Depend /\ INPUT \in Depend /\ BGTASK \notin Depend
  /\ Depend \subseteq Ability /\ BGTASK \in Ability /\ Observed \subseteq Depend
  /\ TIME # INPUT /\ TIME \notin Observed /\ INPUT \notin Observed
  /\ \A a \in Ability : a \in Depend \/ a = BGTASK
  BY DependAssumption DEF Ability, Observed, TIME, INPUT, BGTASK

-----------------------------------------------------------------------------
(* The abilities, what samgr tells of them, and readiness.                 *)

CoreInv == UpHasStarted /\ NoticesInTurn /\ TasksFollowDepends /\ InitUnderWay

(* An ability starts, and samgr has it to tell.                            *)
LEMMA CoreStarts ==
  ASSUME NEW a \in Ability
  PROVE  CoreTypeOK /\ CoreInv /\ AbilityStarts(a) => CoreTypeOK' /\ CoreInv'
<1> SUFFICES ASSUME CoreTypeOK, CoreInv, AbilityStarts(a) PROVE CoreTypeOK' /\ CoreInv'
  OBVIOUS
<1> USE Abilities
<1>1. notices[a] \in Seq(Notice) /\ "added" \in Notice
  BY DEF CoreTypeOK, Notice
<1>2. notices' \in [Ability -> Seq(Notice)]
  BY <1>1 DEF AbilityStarts, CoreTypeOK
<1>3. life' \in [Ability -> Nat] /\ up' \subseteq Ability
  BY DEF AbilityStarts, CoreTypeOK
<1>4. CoreTypeOK'
  BY <1>2, <1>3 DEF AbilityStarts, CoreTypeOK
<1>5. UpHasStarted'
  BY DEF AbilityStarts, CoreTypeOK, CoreInv, UpHasStarted
<1>6. \A b \in Ability : b # a => notices'[b] = notices[b] /\ (b \in up' <=> b \in up)
  BY DEF AbilityStarts, CoreTypeOK
<1>7. a \in Depend => notices'[a] = Append(notices[a], "added")
  BY DEF AbilityStarts, CoreTypeOK, Told
<1>8. \A b \in Ability : notices[b] # << >> => notices'[b] # << >>
  <2>1. Append(notices[a], "added") # << >>
    BY <1>1, Ends
  <2> QED BY <2>1, <1>6 DEF AbilityStarts, CoreTypeOK
<1>9. NoticesInTurn'
  <2> SUFFICES ASSUME NEW b \in Depend PROVE NoticesTell(b)'
    BY DEF NoticesInTurn
  <2>0. NoticesTell(b)
    BY DEF CoreInv, NoticesInTurn
  <2>1. CASE b # a
    BY <2>0, <2>1, <1>6 DEF NoticesTell, AbilityStarts
  <2>2. CASE b = a
    <3>1. a \notin up /\ a \in up'
      BY DEF AbilityStarts
    <3>2. notices[a] # << >> => End(notices[a]) # "added"
      BY <2>0, <2>2, <3>1 DEF NoticesTell
    <3>3. InTurn(notices'[a])
      BY <2>0, <2>2, <3>2, <1>1, <1>7, AppendInTurn DEF NoticesTell
    <3>4. End(notices'[a]) = "added" /\ notices'[a] # << >>
      <4>1. End(Append(notices[a], "added")) = "added" /\ Append(notices[a], "added") # << >>
        BY <1>1, Ends
      <4> QED BY <4>1, <2>2, <1>7
    <3>5. notices'[a][1] = "added" <=> a \notin dependsReady
      <4>1. notices[a] = << >> => notices'[a][1] = "added" /\ a \notin dependsReady
        BY <2>0, <2>2, <3>1, <1>1, <1>7, Ends DEF NoticesTell
      <4>2. notices[a] # << >> => notices'[a][1] = notices[a][1]
        BY <2>2, <1>1, <1>7, Ends
      <4> QED BY <4>1, <4>2, <2>0, <2>2 DEF NoticesTell
    <3> QED BY <2>2, <3>1, <3>3, <3>4, <3>5 DEF NoticesTell, AbilityStarts
  <2> QED BY <2>1, <2>2
<1>10. TasksFollowDepends'
  BY <1>8 DEF CoreInv, TasksFollowDepends, AbilityStarts
<1>11. InitUnderWay'
  BY DEF CoreInv, InitUnderWay, Initializing, AbilityStarts
<1> QED BY <1>4, <1>5, <1>9, <1>10, <1>11 DEF CoreInv

(* An ability dies, and samgr has it to tell.                              *)
LEMMA CoreDies ==
  ASSUME NEW a \in Ability
  PROVE  CoreTypeOK /\ CoreInv /\ AbilityDies(a) => CoreTypeOK' /\ CoreInv'
<1> SUFFICES ASSUME CoreTypeOK, CoreInv, AbilityDies(a) PROVE CoreTypeOK' /\ CoreInv'
  OBVIOUS
<1> USE Abilities
<1>1. notices[a] \in Seq(Notice) /\ "removed" \in Notice
  BY DEF CoreTypeOK, Notice
<1>2. notices' \in [Ability -> Seq(Notice)]
  BY <1>1 DEF AbilityDies, CoreTypeOK
<1>4. CoreTypeOK'
  BY <1>2 DEF AbilityDies, CoreTypeOK
<1>5. UpHasStarted'
  BY DEF AbilityDies, CoreTypeOK, CoreInv, UpHasStarted
<1>6. \A b \in Ability : b # a => notices'[b] = notices[b] /\ (b \in up' <=> b \in up)
  BY DEF AbilityDies, CoreTypeOK
<1>7. a \in Depend => notices'[a] = Append(notices[a], "removed")
  BY DEF AbilityDies, CoreTypeOK, Told
<1>8. \A b \in Ability : notices[b] # << >> => notices'[b] # << >>
  <2>1. Append(notices[a], "removed") # << >>
    BY <1>1, Ends
  <2> QED BY <2>1, <1>6 DEF AbilityDies, CoreTypeOK
<1>9. NoticesInTurn'
  <2> SUFFICES ASSUME NEW b \in Depend PROVE NoticesTell(b)'
    BY DEF NoticesInTurn
  <2>0. NoticesTell(b)
    BY DEF CoreInv, NoticesInTurn
  <2>1. CASE b # a
    BY <2>0, <2>1, <1>6 DEF NoticesTell, AbilityDies
  <2>2. CASE b = a
    <3>1. a \in up /\ a \notin up'
      BY DEF AbilityDies
    <3>2. notices[a] # << >> => End(notices[a]) # "removed"
      BY <2>0, <2>2, <3>1 DEF NoticesTell
    <3>3. InTurn(notices'[a])
      BY <2>0, <2>2, <3>2, <1>1, <1>7, AppendInTurn DEF NoticesTell
    <3>4. End(notices'[a]) = "removed" /\ notices'[a] # << >>
      <4>1. End(Append(notices[a], "removed")) = "removed" /\ Append(notices[a], "removed") # << >>
        BY <1>1, Ends
      <4> QED BY <4>1, <2>2, <1>7
    <3>5. notices'[a][1] = "added" <=> a \notin dependsReady
      <4>1. notices[a] = << >> => notices'[a][1] = "removed" /\ a \in dependsReady
        BY <2>0, <2>2, <3>1, <1>1, <1>7, Ends DEF NoticesTell
      <4>2. notices[a] # << >> => notices'[a][1] = notices[a][1]
        BY <2>2, <1>1, <1>7, Ends
      <4> QED BY <4>1, <4>2, <2>0, <2>2 DEF NoticesTell
    <3> QED BY <2>2, <3>1, <3>3, <3>4, <3>5 DEF NoticesTell, AbilityDies
  <2> QED BY <2>1, <2>2
<1>10. TasksFollowDepends'
  BY <1>8 DEF CoreInv, TasksFollowDepends, AbilityDies
<1>11. InitUnderWay'
  BY DEF CoreInv, InitUnderWay, Initializing, AbilityDies
<1> QED BY <1>4, <1>5, <1>9, <1>10, <1>11 DEF CoreInv

(* A notice of samgr is taken: what is left of them still tells.           *)
LEMMA NoticeTaken ==
  ASSUME NEW a \in Depend, NEW s \in Seq(Notice), s # << >>, InTurn(s)
  PROVE  /\ Tail(s) \in Seq(Notice) /\ InTurn(Tail(s)) /\ Head(s) = s[1]
         /\ Tail(s) = << >> => End(s) = Head(s)
         /\ Tail(s) # << >> => End(Tail(s)) = End(s)
         /\ Tail(s) # << >> /\ Head(s) = "added" => Tail(s)[1] = "removed"
         /\ Tail(s) # << >> /\ Head(s) = "removed" => Tail(s)[1] = "added"
<1>1. /\ Tail(s) \in Seq(Notice) /\ Head(s) = s[1]
      /\ Tail(s) = << >> => End(s) = Head(s)
      /\ Tail(s) # << >> => End(Tail(s)) = End(s)
  BY Ends
<1>2. InTurn(Tail(s)) /\ (Tail(s) # << >> => Tail(s)[1] # s[1])
  BY TailInTurn
<1>3. Tail(s) # << >> => Tail(s)[1] \in Notice
  BY <1>1
<1> QED BY <1>1, <1>2, <1>3 DEF Notice

(* samgr tells of a start: the last task is for init if nothing lacks.     *)
LEMMA CoreAdd ==
  ASSUME NEW a \in Ability
  PROVE  CoreTypeOK /\ CoreInv /\ OnAddSystemAbility(a) => CoreTypeOK' /\ CoreInv'
<1> SUFFICES ASSUME CoreTypeOK, CoreInv, OnAddSystemAbility(a) PROVE CoreTypeOK' /\ CoreInv'
  OBVIOUS
<1> USE Abilities
<1>1. /\ notices[a] \in Seq(Notice) /\ notices[a] # << >> /\ Head(notices[a]) = "added"
      /\ notices' = [notices EXCEPT ![a] = Tail(notices[a])]
      /\ dependsReady' = dependsReady \cup ({a} \cap Depend)
      /\ high' = IF dependsReady' = Depend THEN Append(high, "init") ELSE high
      /\ UNCHANGED <<life, up, watched, isServiceReady, initTask>>
  BY DEF CoreTypeOK, OnAddSystemAbility, UpdateSaDependValue
<1>2. Tail(notices[a]) \in Seq(Notice) /\ high \in Seq({"init", "uninit"})
  BY <1>1, Ends DEF CoreTypeOK
<1>3. notices' \in [Ability -> Seq(Notice)] /\ dependsReady' \subseteq Depend
  BY <1>1, <1>2 DEF CoreTypeOK
<1>4. high' \in Seq({"init", "uninit"})
  BY <1>1, <1>2
<1>5. CoreTypeOK'
  BY <1>1, <1>3, <1>4 DEF CoreTypeOK
<1>6. UpHasStarted'
  BY <1>1 DEF CoreInv, UpHasStarted
<1>7. \A b \in Ability : b # a => notices'[b] = notices[b] /\ (b \in dependsReady' <=> b \in dependsReady)
  BY <1>1 DEF CoreTypeOK
<1>8. notices'[a] = Tail(notices[a]) /\ (a \in Depend => a \in dependsReady')
  BY <1>1 DEF CoreTypeOK
<1>9. NoticesInTurn'
  <2> SUFFICES ASSUME NEW b \in Depend PROVE NoticesTell(b)'
    BY DEF NoticesInTurn
  <2>0. NoticesTell(b)
    BY DEF CoreInv, NoticesInTurn
  <2>1. CASE b # a
    BY <2>0, <2>1, <1>1, <1>7 DEF NoticesTell
  <2>2. CASE b = a
    <3>1. InTurn(notices[a]) /\ (End(notices[a]) = "added" <=> a \in up)
      BY <2>0, <2>2, <1>1 DEF NoticesTell
    <3> DEFINE s == notices[a]
    <3>2. /\ InTurn(Tail(s))
          /\ Tail(s) = << >> => End(s) = "added"
          /\ Tail(s) # << >> => End(Tail(s)) = End(s)
          /\ Tail(s) # << >> => Tail(s)[1] = "removed"
      <4>1. s \in Seq(Notice) /\ s # << >> /\ InTurn(s) /\ Head(s) = "added"
        BY <1>1, <3>1
      <4> HIDE DEF s
      <4> QED BY <4>1, <2>2, NoticeTaken
    <3> QED BY <2>2, <3>1, <3>2, <1>1, <1>8 DEF NoticesTell
  <2> QED BY <2>1, <2>2
<1>10. TasksFollowDepends'
  <2>1. a \in Depend => a \notin dependsReady
    <3> SUFFICES ASSUME a \in Depend PROVE a \notin dependsReady
      OBVIOUS
    <3>1. NoticesTell(a) /\ notices[a][1] = "added"
      BY <1>1, Ends DEF CoreInv, NoticesInTurn
    <3> QED BY <3>1, <1>1 DEF NoticesTell
  <2>2. CASE dependsReady' = Depend
    <3>1. high' # << >> /\ End(high') = "init"
      <4>1. End(Append(high, "init")) = "init" /\ Append(high, "init") # << >>
        BY <1>2, Ends
      <4> QED BY <4>1, <2>2, <1>1
    <3> QED BY <3>1, <2>2 DEF TasksFollowDepends
  <2>3. CASE dependsReady' # Depend
    <3>1. dependsReady # Depend
      BY <2>3, <1>1, <1>3
    <3>2. high' = high
      BY <2>3, <1>1
    <3> QED BY <3>1, <3>2, <2>3, <1>1 DEF CoreInv, TasksFollowDepends
  <2> QED BY <2>2, <2>3
<1>11. InitUnderWay'
  <2>1. high # << >> => Append(high, "init")[1] = high[1]
    BY <1>2, Ends
  <2>2. Append(high, "init") # << >>
    BY <1>2, Ends
  <2> QED BY <1>1, <2>1, <2>2 DEF CoreInv, InitUnderWay, Initializing
<1> QED BY <1>5, <1>6, <1>9, <1>10, <1>11 DEF CoreInv

(* samgr tells of a death: the last task is for uninit.                    *)
LEMMA CoreRemove ==
  ASSUME NEW a \in Ability
  PROVE  CoreTypeOK /\ CoreInv /\ OnRemoveSystemAbility(a) => CoreTypeOK' /\ CoreInv'
<1> SUFFICES ASSUME CoreTypeOK, CoreInv, OnRemoveSystemAbility(a) PROVE CoreTypeOK' /\ CoreInv'
  OBVIOUS
<1> USE Abilities
<1>1. /\ notices[a] \in Seq(Notice) /\ notices[a] # << >> /\ Head(notices[a]) = "removed"
      /\ notices' = [notices EXCEPT ![a] = Tail(notices[a])]
      /\ dependsReady' = dependsReady \ {a}
      /\ high' = IF dependsReady' # Depend THEN Append(high, "uninit") ELSE high
      /\ UNCHANGED <<life, up, watched, isServiceReady, initTask>>
  BY DEF CoreTypeOK, OnRemoveSystemAbility, UpdateSaDependValue
<1>2. Tail(notices[a]) \in Seq(Notice) /\ high \in Seq({"init", "uninit"})
  BY <1>1, Ends DEF CoreTypeOK
<1>3. notices' \in [Ability -> Seq(Notice)] /\ dependsReady' \subseteq Depend
  BY <1>1, <1>2 DEF CoreTypeOK
<1>4. high' \in Seq({"init", "uninit"})
  BY <1>1, <1>2
<1>5. CoreTypeOK'
  BY <1>1, <1>3, <1>4 DEF CoreTypeOK
<1>6. UpHasStarted'
  BY <1>1 DEF CoreInv, UpHasStarted
<1>7. \A b \in Ability : b # a => notices'[b] = notices[b] /\ (b \in dependsReady' <=> b \in dependsReady)
  BY <1>1 DEF CoreTypeOK
<1>8. notices'[a] = Tail(notices[a]) /\ a \notin dependsReady'
  BY <1>1 DEF CoreTypeOK
<1>9. NoticesInTurn'
  <2> SUFFICES ASSUME NEW b \in Depend PROVE NoticesTell(b)'
    BY DEF NoticesInTurn
  <2>0. NoticesTell(b)
    BY DEF CoreInv, NoticesInTurn
  <2>1. CASE b # a
    BY <2>0, <2>1, <1>1, <1>7 DEF NoticesTell
  <2>2. CASE b = a
    <3>1. InTurn(notices[a]) /\ (End(notices[a]) = "added" <=> a \in up)
      BY <2>0, <2>2, <1>1 DEF NoticesTell
    <3> DEFINE s == notices[a]
    <3>2. /\ InTurn(Tail(s))
          /\ Tail(s) = << >> => End(s) = "removed"
          /\ Tail(s) # << >> => End(Tail(s)) = End(s)
          /\ Tail(s) # << >> => Tail(s)[1] = "added"
      <4>1. s \in Seq(Notice) /\ s # << >> /\ InTurn(s) /\ Head(s) = "removed"
        BY <1>1, <3>1
      <4> HIDE DEF s
      <4> QED BY <4>1, <2>2, NoticeTaken
    <3> QED BY <2>2, <3>1, <3>2, <1>1, <1>8 DEF NoticesTell
  <2> QED BY <2>1, <2>2
<1>10. TasksFollowDepends'
  <2>1. CASE dependsReady' # Depend
    <3>1. high' # << >> /\ End(high') = "uninit"
      <4>1. End(Append(high, "uninit")) = "uninit" /\ Append(high, "uninit") # << >>
        BY <1>2, Ends
      <4> QED BY <4>1, <2>1, <1>1
    <3> QED BY <3>1, <2>1 DEF TasksFollowDepends
  <2>2. CASE dependsReady' = Depend
    <3>1. dependsReady = Depend /\ high' = high
      BY <2>2, <1>1, <1>3 DEF CoreTypeOK
    <3>2. a # TIME
      BY <2>2, <1>1
    <3> QED BY <3>1, <3>2, <2>2, <1>1, <1>7 DEF CoreInv, TasksFollowDepends
  <2> QED BY <2>1, <2>2
<1>11. InitUnderWay'
  <2>1. high # << >> => Append(high, "uninit")[1] = high[1]
    BY <1>2, Ends
  <2>2. Append(high, "uninit") # << >>
    BY <1>2, Ends
  <2> QED BY <1>1, <2>1, <2>2 DEF CoreInv, InitUnderWay, Initializing
<1> QED BY <1>5, <1>6, <1>9, <1>10, <1>11 DEF CoreInv

(* The task of init returns early: the service is ready, or the death of   *)
(* the time service is yet to be told, or it refused the states' timers.   *)
LEMMA CoreInitReturns ==
  CoreTypeOK /\ CoreInv /\ InitReturns => CoreTypeOK' /\ CoreInv'
<1> SUFFICES ASSUME CoreTypeOK, CoreInv, InitReturns PROVE CoreTypeOK' /\ CoreInv'
  OBVIOUS
<1> USE Abilities
<1>1. /\ high \in Seq({"init", "uninit"}) /\ high # << >> /\ Head(high) = "init"
      /\ high' = Tail(high)
      /\ UNCHANGED <<life, up, watched, notices, dependsReady, isServiceReady>>
      /\ initTask' \in {"idle", "failed"}
  BY DEF InitReturns, CoreTypeOK
<1>2. isServiceReady \/ TIME \notin up \/ initTask' = "failed"
  BY DEF InitReturns
<1>3. /\ Tail(high) \in Seq({"init", "uninit"})
      /\ Tail(high) # << >> => End(Tail(high)) = End(high)
      /\ Tail(high) = << >> => End(high) = "init"
  BY <1>1, Ends
<1>4. CoreTypeOK'
  BY <1>1, <1>3 DEF CoreTypeOK
<1>5. UpHasStarted' /\ NoticesInTurn'
  BY <1>1 DEF CoreInv, UpHasStarted, NoticesInTurn, NoticesTell
<1>6. TasksFollowDepends'
  <2>1. CASE high' # << >>
    BY <2>1, <1>1, <1>3 DEF CoreInv, TasksFollowDepends
  <2>2. CASE high' = << >>
    <3>1. dependsReady = Depend
      BY <2>2, <1>1, <1>3 DEF CoreInv, TasksFollowDepends
    <3>2. TIME \notin up => notices[TIME] # << >>
      BY <3>1 DEF CoreInv, NoticesInTurn, NoticesTell
    <3> QED BY <2>2, <3>1, <3>2, <1>1, <1>2 DEF TasksFollowDepends
  <2> QED BY <2>1, <2>2
<1>7. InitUnderWay'
  BY <1>1 DEF InitUnderWay, Initializing
<1> QED BY <1>4, <1>5, <1>6, <1>7 DEF CoreInv

(* The task of init begins.                                                *)
LEMMA CoreInitStateManager ==
  CoreTypeOK /\ CoreInv /\ InitStateManager => CoreTypeOK' /\ CoreInv'
<1> SUFFICES ASSUME CoreTypeOK, CoreInv, InitStateManager PROVE CoreTypeOK' /\ CoreInv'
  OBVIOUS
<1>1. /\ high \in Seq({"init", "uninit"}) /\ high # << >> /\ Head(high) = "init"
      /\ UNCHANGED <<life, up, watched, notices, dependsReady, isServiceReady, high>>
      /\ ~isServiceReady /\ initTask' = "begun"
  BY DEF InitStateManager, CoreTypeOK
<1>2. CoreTypeOK'
  BY <1>1 DEF CoreTypeOK
<1>3. UpHasStarted' /\ NoticesInTurn'
  BY <1>1 DEF CoreInv, UpHasStarted, NoticesInTurn, NoticesTell
<1>4. TasksFollowDepends'
  BY <1>1 DEF CoreInv, TasksFollowDepends
<1>5. InitUnderWay'
  BY <1>1 DEF InitUnderWay
<1> QED BY <1>2, <1>3, <1>4, <1>5 DEF CoreInv

(* The task of init ends: it is the first one, and the service is ready.   *)
LEMMA CoreInitReady ==
  CoreTypeOK /\ CoreInv /\ InitReadyState => CoreTypeOK' /\ CoreInv'
<1> SUFFICES ASSUME CoreTypeOK, CoreInv, InitReadyState PROVE CoreTypeOK' /\ CoreInv'
  OBVIOUS
<1> USE Abilities
<1>1. /\ high \in Seq({"init", "uninit"}) /\ high # << >> /\ high' = Tail(high)
      /\ UNCHANGED <<life, up, dependsReady>>
      /\ isServiceReady' = TRUE /\ initTask' = "idle" /\ WatchPlugins
  BY DEF InitReadyState, CoreTypeOK
<1>2. Head(high) = "init"
  <2>1. high[1] = "init"
    BY DEF InitReadyState, CoreInv, InitUnderWay
  <2>2. Head(high) = high[1]
    BY <1>1, Ends
  <2> QED BY <2>1, <2>2
<1>3. /\ Tail(high) \in Seq({"init", "uninit"})
      /\ Tail(high) # << >> => End(Tail(high)) = End(high)
      /\ Tail(high) = << >> => End(high) = "init"
  BY <1>1, <1>2, Ends
<1>4. Append(notices[BGTASK], "added") \in Seq(Notice)
  BY DEF CoreTypeOK, Notice
<1>5. notices' \in [Ability -> Seq(Notice)] /\ watched' \in BOOLEAN
  BY <1>1, <1>4 DEF WatchPlugins, CoreTypeOK
<1>6. \A b \in Depend : notices'[b] = notices[b]
  BY <1>1 DEF WatchPlugins, CoreTypeOK
<1>7. CoreTypeOK'
  BY <1>1, <1>3, <1>5 DEF CoreTypeOK
<1>8. UpHasStarted' /\ NoticesInTurn'
  BY <1>1, <1>6 DEF CoreInv, UpHasStarted, NoticesInTurn, NoticesTell
<1>9. TasksFollowDepends'
  <2>1. CASE high' # << >>
    BY <2>1, <1>1, <1>3 DEF CoreInv, TasksFollowDepends
  <2>2. CASE high' = << >>
    <3>1. dependsReady = Depend
      BY <2>2, <1>1, <1>3 DEF CoreInv, TasksFollowDepends
    <3> QED BY <2>2, <3>1, <1>1 DEF TasksFollowDepends
  <2> QED BY <2>1, <2>2
<1>10. InitUnderWay'
  BY <1>1 DEF InitUnderWay, Initializing
<1> QED BY <1>7, <1>8, <1>9, <1>10 DEF CoreInv

(* The task of uninit runs.                                                *)
LEMMA CoreUninitReady ==
  CoreTypeOK /\ CoreInv /\ UninitReadyState => CoreTypeOK' /\ CoreInv'
<1> SUFFICES ASSUME CoreTypeOK, CoreInv, UninitReadyState PROVE CoreTypeOK' /\ CoreInv'
  OBVIOUS
<1> USE Abilities
<1>1. /\ high \in Seq({"init", "uninit"}) /\ high # << >> /\ Head(high) = "uninit"
      /\ high' = Tail(high) /\ isServiceReady' = FALSE
      /\ UNCHANGED <<life, up, watched, notices, dependsReady, initTask>>
  BY DEF UninitReadyState, CoreTypeOK
<1>3. /\ Tail(high) \in Seq({"init", "uninit"})
      /\ Tail(high) # << >> => End(Tail(high)) = End(high)
      /\ Tail(high) = << >> => End(high) = "uninit"
  BY <1>1, Ends
<1>7. CoreTypeOK'
  BY <1>1, <1>3 DEF CoreTypeOK
<1>8. UpHasStarted' /\ NoticesInTurn'
  BY <1>1 DEF CoreInv, UpHasStarted, NoticesInTurn, NoticesTell
<1>9. TasksFollowDepends'
  <2>1. CASE high' # << >>
    BY <2>1, <1>1, <1>3 DEF CoreInv, TasksFollowDepends
  <2>2. CASE high' = << >>
    <3>1. dependsReady # Depend
      BY <2>2, <1>1, <1>3 DEF CoreInv, TasksFollowDepends
    <3> QED BY <2>2, <3>1, <1>1 DEF TasksFollowDepends
  <2> QED BY <2>1, <2>2
<1>10. InitUnderWay'
  <2>1. ~Initializing
    <3>1. Head(high) = high[1]
      BY <1>1, Ends
    <3> QED BY <1>1, <3>1 DEF CoreInv, InitUnderWay
  <2> QED BY <1>1, <2>1 DEF InitUnderWay, Initializing
<1> QED BY <1>7, <1>8, <1>9, <1>10 DEF CoreInv

(* The variables of this part.                                             *)
CoreVars == <<life, up, watched, notices, dependsReady, isServiceReady, initTask, high>>

(* The other steps change none of these variables.                         *)
LEMMA CoreStays ==
  CoreTypeOK /\ CoreInv /\ UNCHANGED CoreVars => CoreTypeOK' /\ CoreInv'
  BY DEF CoreVars, CoreTypeOK, CoreInv, UpHasStarted, NoticesInTurn, NoticesTell,
         TasksFollowDepends, InitUnderWay, Initializing

(* Every step keeps what is known of abilities, notices and tasks of high  *)
(* priority.                                                               *)
LEMMA CoreNext ==
  CoreTypeOK /\ CoreInv /\ [Next]_vars => CoreTypeOK' /\ CoreInv'
<1>1. ASSUME RunTask \/ TimerExpires \/ TimeChanges \/ UNCHANGED vars \/ PostScreen
             \/ \E s \in Screen : ScreenTurns(s)
      PROVE  UNCHANGED CoreVars
  BY <1>1 DEF RunTask, TimerExpires, TimeChanges, ScreenTurns, PostScreen, vars, CoreVars
<1> QED BY <1>1, CoreStays, CoreStarts, CoreDies, CoreAdd, CoreRemove, CoreInitReturns,
           CoreInitStateManager, CoreInitReady, CoreUninitReady DEF Next

(* samgr tells at once of what already runs.                               *)
LEMMA CoreInit ==
  Init => CoreTypeOK /\ CoreInv
<1> SUFFICES ASSUME Init PROVE CoreTypeOK /\ CoreInv
  OBVIOUS
<1> USE Abilities
<1>1. up \subseteq Ability /\ life = [a \in Ability |-> IF a \in up THEN 1 ELSE 0]
      /\ watched = FALSE /\ dependsReady = {} /\ isServiceReady = FALSE /\ initTask = "idle"
      /\ high = << >>
  BY DEF Init
<1>2. notices = [a \in Ability |-> IF a \in up \cap Depend THEN <<"added">> ELSE << >>]
  BY DEF Init
<1>3. <<"added">> \in Seq(Notice) /\ << >> \in Seq(Notice)
  BY DEF Notice
<1>4. CoreTypeOK
  <2>1. life \in [Ability -> Nat]
    BY <1>1
  <2>2. notices \in [Ability -> Seq(Notice)]
    BY <1>2, <1>3
  <2>3. high \in Seq({"init", "uninit"})
    BY <1>1
  <2>4. watched \in BOOLEAN /\ isServiceReady \in BOOLEAN /\ dependsReady \subseteq Depend
        /\ initTask \in {"idle", "begun", "failed"}
    BY <1>1
  <2> QED BY <2>1, <2>2, <2>3, <2>4, <1>1 DEF CoreTypeOK
<1>5. UpHasStarted
  BY <1>1 DEF UpHasStarted
<1>6. NoticesInTurn
  <2> SUFFICES ASSUME NEW a \in Depend PROVE NoticesTell(a)
    BY DEF NoticesInTurn
  <2>1. CASE a \in up
    <3>1. notices[a] = <<"added">>
      BY <2>1, <1>2
    <3>2. InTurn(<<"added">>) /\ <<"added">> # << >> /\ <<"added">>[1] = "added"
          /\ End(<<"added">>) = "added"
      BY DEF InTurn, End
    <3> QED BY <2>1, <3>1, <3>2, <1>1 DEF NoticesTell
  <2>2. CASE a \notin up
    <3>1. notices[a] = << >>
      BY <2>2, <1>2
    <3>2. InTurn(<< >>)
      BY DEF InTurn
    <3> QED BY <2>2, <3>1, <3>2, <1>1 DEF NoticesTell
  <2> QED BY <2>1, <2>2
<1>7. TasksFollowDepends
  BY <1>1 DEF TasksFollowDepends
<1>8. InitUnderWay
  BY <1>1 DEF InitUnderWay, Initializing
<1> QED BY <1>4, <1>5, <1>6, <1>7, <1>8 DEF CoreInv

(* Once the service has caught up it is ready if and only if everything it *)
(* depends on runs (standby_service.cpp OnAddSystemAbility,                *)
(* OnRemoveSystemAbility, standby_service_impl.cpp InitReadyState and      *)
(* UninitReadyState), unless the last Init was refused a timer.            *)
THEOREM ReadyFollowsDependsHolds == Spec => []ReadyFollowsDepends
<1>1. CoreTypeOK /\ CoreInv => ReadyFollowsDepends
  <2> SUFFICES ASSUME CoreTypeOK, CoreInv, Calm
               PROVE  /\ isServiceReady => Depend \subseteq up
                      /\ Depend \subseteq up => isServiceReady \/ initTask = "failed"
    BY DEF ReadyFollowsDepends
  <2>1. high = << >> /\ \A a \in Depend : notices[a] = << >>
    BY Abilities DEF Calm
  <2>2. \A a \in Depend : a \in dependsReady <=> a \in up
    BY <2>1 DEF CoreInv, NoticesInTurn, NoticesTell
  <2>3. /\ isServiceReady => dependsReady = Depend
        /\ dependsReady = Depend => isServiceReady \/ initTask = "failed"
    <3>1. notices[TIME] = << >>
      BY <2>1, Abilities
    <3> QED BY <2>1, <3>1 DEF CoreInv, TasksFollowDepends
  <2> QED BY <2>2, <2>3 DEF CoreTypeOK
<1> QED BY <1>1, CoreInit, CoreNext, PTL DEF Spec

-----------------------------------------------------------------------------
(* What an action does to the notices, for the parts that follow.          *)

(* The first notice is news, the last one the truth.                       *)
LEMMA NoticeIsNews ==
  CoreTypeOK /\ CoreInv =>
    \A a \in Depend : notices[a] # << >> =>
      /\ Head(notices[a]) = "added" => a \notin dependsReady /\ (Tail(notices[a]) = << >> => a \in up)
      /\ Head(notices[a]) = "removed" =>
           a \in dependsReady /\ (Tail(notices[a]) = << >> => a \notin up)
<1> SUFFICES ASSUME CoreTypeOK, CoreInv, NEW a \in Depend, notices[a] # << >>
             PROVE  /\ Head(notices[a]) = "added" =>
                         a \notin dependsReady /\ (Tail(notices[a]) = << >> => a \in up)
                    /\ Head(notices[a]) = "removed" =>
                         a \in dependsReady /\ (Tail(notices[a]) = << >> => a \notin up)
  OBVIOUS
<1>1. notices[a] \in Seq(Notice)
  BY Abilities DEF CoreTypeOK
<1>2. Head(notices[a]) = notices[a][1] /\ (Tail(notices[a]) = << >> => End(notices[a]) = Head(notices[a]))
  BY <1>1, Ends
<1>3. NoticesTell(a)
  BY DEF CoreInv, NoticesInTurn
<1> QED BY <1>2, <1>3 DEF NoticesTell

(* A start and a death leave a notice.                                     *)
LEMMA StartTold ==
  ASSUME NEW a \in Depend
  PROVE  CoreTypeOK /\ AbilityStarts(a) => notices'[a] # << >>
<1> SUFFICES ASSUME CoreTypeOK, AbilityStarts(a) PROVE notices'[a] # << >>
  OBVIOUS
<1>1. notices[a] \in Seq(Notice) /\ "added" \in Notice
  BY Abilities DEF CoreTypeOK, Notice
<1>2. Append(notices[a], "added") # << >>
  BY <1>1, Ends
<1> QED BY <1>2, Abilities DEF AbilityStarts, Told, CoreTypeOK

(* The death of an ability is told to a service that depends on it.        *)
LEMMA DeathTold ==
  ASSUME NEW a \in Depend
  PROVE  CoreTypeOK /\ AbilityDies(a) => notices'[a] = Append(notices[a], "removed") /\ notices'[a] # << >>
<1> SUFFICES ASSUME CoreTypeOK, AbilityDies(a)
             PROVE  notices'[a] = Append(notices[a], "removed") /\ notices'[a] # << >>
  OBVIOUS
<1>1. notices[a] \in Seq(Notice) /\ "removed" \in Notice
  BY Abilities DEF CoreTypeOK, Notice
<1>2. Append(notices[a], "removed") # << >>
  BY <1>1, Ends
<1> QED BY <1>2, Abilities DEF AbilityDies, Told, CoreTypeOK

(* InitReadyState adds notices of the background task manager only.        *)
LEMMA InitTold ==
  CoreTypeOK /\ (InitReturns \/ InitStateManager \/ InitReadyState) =>
    \A b \in Depend : notices'[b] = notices[b]
  BY Abilities DEF CoreTypeOK, InitReturns, InitStateManager, InitReadyState, WatchPlugins

-----------------------------------------------------------------------------
(* Observers.                                                              *)

ObserverVars == <<observer, dependsReady, notices, life>>

(* An ability is added, and with it its observer.                          *)
LEMMA ObserversAdd ==
  ASSUME NEW a \in Ability
  PROVE  CoreTypeOK /\ CoreInv /\ ObserverTypeOK /\ ObserversFollowDepends /\ OnAddSystemAbility(a) =>
           ObserverTypeOK' /\ ObserversFollowDepends'
<1> SUFFICES ASSUME CoreTypeOK, CoreInv, ObserverTypeOK, ObserversFollowDepends, OnAddSystemAbility(a)
             PROVE  ObserverTypeOK' /\ ObserversFollowDepends'
  OBVIOUS
<1> USE Abilities
<1>1. /\ notices[a] # << >> /\ Head(notices[a]) = "added"
      /\ notices' = [notices EXCEPT ![a] = Tail(notices[a])]
      /\ dependsReady' = dependsReady \cup ({a} \cap Depend) /\ UNCHANGED <<life, up>>
  BY DEF OnAddSystemAbility, UpdateSaDependValue
<1>2. \A b \in Ability : b # a => notices'[b] = notices[b] /\ (b \in dependsReady' <=> b \in dependsReady)
  BY <1>1 DEF CoreTypeOK
<1>3. CASE a \notin Observed
  <2>1. observer' = observer
    BY <1>3 DEF OnAddSystemAbility, RegisterFor, RegisterObserver
  <2> QED BY <2>1, <1>1, <1>2, <1>3 DEF ObserverTypeOK, ObserversFollowDepends
<1>4. CASE a \in Observed
  <2>1. a \notin dependsReady /\ (Tail(notices[a]) = << >> => a \in up)
    BY <1>1, <1>4, NoticeIsNews
  <2>2. ~observer[a].made
    BY <2>1, <1>4 DEF ObserversFollowDepends
  <2> DEFINE good == [made |-> TRUE, deaf |-> FALSE, at |-> IF a \in up THEN life[a] ELSE 0]
             bad == [made |-> TRUE, deaf |-> TRUE, at |-> 0]
  <2>3. \E new \in {good, bad} : observer' = [observer EXCEPT ![a] = new]
    <3>1. RegisterObserver(a)
      BY <1>4 DEF OnAddSystemAbility, RegisterFor
    <3> QED BY <2>2, <1>4, <3>1 DEF RegisterObserver
  <2>4. /\ good \in [made : BOOLEAN, at : Nat, deaf : BOOLEAN] /\ good.made = TRUE
        /\ a \in up => good.at = life[a]
    BY DEF CoreTypeOK
  <2>5. bad \in [made : BOOLEAN, at : Nat, deaf : BOOLEAN] /\ bad.made = TRUE /\ bad.deaf = TRUE
    OBVIOUS
  <2> HIDE DEF good, bad
  <2>6. PICK new \in {good, bad} : observer' = [observer EXCEPT ![a] = new]
    BY <2>3
  <2>7. new \in [made : BOOLEAN, at : Nat, deaf : BOOLEAN] /\ new.made = TRUE
    BY <2>4, <2>5
  <2>8. a \in up => new.at = life[a] \/ new.deaf = TRUE
    BY <2>4, <2>5
  <2>9. observer'[a] = new /\ \A b \in Observed : b # a => observer'[b] = observer[b]
    BY <2>6, <1>4 DEF ObserverTypeOK
  <2>10. a \in dependsReady' /\ notices'[a] = Tail(notices[a])
    BY <1>1, <1>4 DEF CoreTypeOK
  <2>11. ObserverTypeOK'
    BY <2>6, <2>7 DEF ObserverTypeOK
  <2>12. ObserversFollowDepends'
    <3> SUFFICES ASSUME NEW b \in Observed
                 PROVE  /\ observer'[b].made <=> b \in dependsReady'
                        /\ ~observer'[b].made => observer'[b] = Nothing
                        /\ notices'[b] = << >> /\ b \in dependsReady' =>
                             observer'[b].at = life'[b] \/ observer'[b].deaf
      BY DEF ObserversFollowDepends
    <3>1. CASE b = a
      BY <3>1, <2>1, <2>7, <2>8, <2>9, <2>10, <1>1
    <3>2. CASE b # a
      BY <3>2, <2>9, <1>1, <1>2 DEF ObserversFollowDepends
    <3> QED BY <3>1, <3>2
  <2> QED BY <2>11, <2>12
<1> QED BY <1>3, <1>4

(* An ability is removed, and with it its observer.                        *)
LEMMA ObserversRemove ==
  ASSUME NEW a \in Ability
  PROVE  CoreTypeOK /\ ObserverTypeOK /\ ObserversFollowDepends /\ OnRemoveSystemAbility(a) =>
           ObserverTypeOK' /\ ObserversFollowDepends'
<1> SUFFICES ASSUME CoreTypeOK, ObserverTypeOK, ObserversFollowDepends, OnRemoveSystemAbility(a)
             PROVE  ObserverTypeOK' /\ ObserversFollowDepends'
  OBVIOUS
<1> USE Abilities
<1>1. /\ notices' = [notices EXCEPT ![a] = Tail(notices[a])]
      /\ dependsReady' = dependsReady \ {a} /\ UNCHANGED <<life, up>>
      /\ observer' = IF a \in Observed THEN [observer EXCEPT ![a] = Nothing] ELSE observer
  BY DEF OnRemoveSystemAbility, UpdateSaDependValue, UnregisterObserver
<1>2. \A b \in Ability : b # a => notices'[b] = notices[b] /\ (b \in dependsReady' <=> b \in dependsReady)
  BY <1>1 DEF CoreTypeOK
<1>3. \A b \in Observed : b # a => observer'[b] = observer[b]
  BY <1>1 DEF ObserverTypeOK
<1>4. a \in Observed => observer'[a] = Nothing /\ a \notin dependsReady'
  BY <1>1 DEF ObserverTypeOK
<1>5. Nothing \in [made : BOOLEAN, at : Nat, deaf : BOOLEAN] /\ Nothing.made = FALSE
  BY DEF Nothing
<1>6. ObserverTypeOK'
  BY <1>1, <1>5 DEF ObserverTypeOK
<1>7. ObserversFollowDepends'
  <2> SUFFICES ASSUME NEW b \in Observed
               PROVE  /\ observer'[b].made <=> b \in dependsReady'
                      /\ ~observer'[b].made => observer'[b] = Nothing
                      /\ notices'[b] = << >> /\ b \in dependsReady' =>
                           observer'[b].at = life'[b] \/ observer'[b].deaf
    BY DEF ObserversFollowDepends
  <2>1. CASE b = a
    BY <2>1, <1>4, <1>5
  <2>2. CASE b # a
    BY <2>2, <1>1, <1>2, <1>3 DEF ObserversFollowDepends
  <2> QED BY <2>1, <2>2
<1> QED BY <1>6, <1>7

(* Every step keeps the observers in step with dependsReady_.              *)
LEMMA ObserversNext ==
  CoreTypeOK /\ CoreInv /\ ObserverTypeOK /\ ObserversFollowDepends /\ [Next]_vars =>
    ObserverTypeOK' /\ ObserversFollowDepends'
<1> SUFFICES ASSUME CoreTypeOK, CoreInv, ObserverTypeOK, ObserversFollowDepends, [Next]_vars
             PROVE  ObserverTypeOK' /\ ObserversFollowDepends'
  OBVIOUS
<1> USE Abilities
<1>1. ASSUME NEW a \in Ability, AbilityStarts(a) \/ AbilityDies(a)
      PROVE  ObserverTypeOK' /\ ObserversFollowDepends'
  <2>1. observer' = observer /\ dependsReady' = dependsReady
    BY <1>1 DEF AbilityStarts, AbilityDies, handles
  <2>2. \A b \in Ability : b # a => life'[b] = life[b] /\ notices'[b] = notices[b]
    BY <1>1 DEF AbilityStarts, AbilityDies, CoreTypeOK
  <2>3. a \in Depend => notices'[a] # << >>
    BY <1>1, StartTold, DeathTold
  <2> QED BY <2>1, <2>2, <2>3 DEF ObserverTypeOK, ObserversFollowDepends
<1>2. CASE InitReturns \/ InitStateManager \/ InitReadyState
  <2>1. UNCHANGED <<observer, dependsReady, life>>
    BY <1>2 DEF InitReturns, InitStateManager, InitReadyState
  <2> QED BY <2>1, <1>2, InitTold DEF ObserverTypeOK, ObserversFollowDepends
<1>3. ASSUME UninitReadyState \/ RunTask \/ TimerExpires \/ TimeChanges \/ UNCHANGED vars
             \/ PostScreen \/ \E s \in Screen : ScreenTurns(s)
      PROVE  ObserverTypeOK' /\ ObserversFollowDepends'
  <2>1. UNCHANGED ObserverVars
    BY <1>3 DEF UninitReadyState, RunTask, TimerExpires, TimeChanges, ScreenTurns, PostScreen, vars,
                handles, ObserverVars
  <2> QED BY <2>1 DEF ObserverVars, ObserverTypeOK, ObserversFollowDepends
<1> QED BY <1>1, <1>2, <1>3, ObserversAdd, ObserversRemove DEF Next

-----------------------------------------------------------------------------
(* The task of UninitReadyState.                                           *)

(* It waits while a service that is ready, or is becoming so, lacks        *)
(* something it depends on.                                                *)
LEMMA ReadyLacking ==
  CoreTypeOK /\ CoreInv /\ Inited /\ dependsReady # Depend => UninitWaits
<1> SUFFICES ASSUME CoreTypeOK, CoreInv, Inited, dependsReady # Depend PROVE UninitWaits
  OBVIOUS
<1>1. high # << >> /\ End(high) # "init"
  BY DEF CoreInv, TasksFollowDepends, InitUnderWay, Inited
<1>2. Has(high, End(high)) /\ End(high) \in {"init", "uninit"}
  BY <1>1, Ends DEF CoreTypeOK
<1>3. End(high) = "uninit"
  BY <1>1, <1>2
<1> QED BY <1>2, <1>3 DEF UninitWaits

(* A start posts no uninit,                                                *)
LEMMA UninitAdd ==
  ASSUME NEW a \in Ability
  PROVE  CoreTypeOK /\ OnAddSystemAbility(a) => (UninitWaits' <=> UninitWaits)
<1> SUFFICES ASSUME CoreTypeOK, OnAddSystemAbility(a) PROVE UninitWaits' <=> UninitWaits
  OBVIOUS
<1>1. high \in Seq({"init", "uninit"}) /\ (high' = high \/ high' = Append(high, "init"))
  BY DEF CoreTypeOK, OnAddSystemAbility
<1>2. Has(Append(high, "init"), "uninit") <=> Has(high, "uninit") \/ "init" = "uninit"
  <2>1. "init" \in {"init", "uninit"}
    OBVIOUS
  <2> QED BY <1>1, <2>1, AppendHas
<1> QED BY <1>1, <1>2 DEF UninitWaits

(* a death does,                                                           *)
LEMMA UninitRemove ==
  ASSUME NEW a \in Ability
  PROVE  CoreTypeOK /\ OnRemoveSystemAbility(a) =>
           /\ UninitWaits => UninitWaits'
           /\ a \in Depend => UninitWaits'
<1> SUFFICES ASSUME CoreTypeOK, OnRemoveSystemAbility(a)
             PROVE  (UninitWaits => UninitWaits') /\ (a \in Depend => UninitWaits')
  OBVIOUS
<1>1. /\ high \in Seq({"init", "uninit"})
      /\ high' = IF dependsReady' # Depend THEN Append(high, "uninit") ELSE high
      /\ dependsReady' = dependsReady \ {a}
  BY DEF CoreTypeOK, OnRemoveSystemAbility, UpdateSaDependValue
<1>2. Has(Append(high, "uninit"), "uninit")
  <2>1. "uninit" \in {"init", "uninit"}
    OBVIOUS
  <2> QED BY <1>1, <2>1, AppendHas
<1> QED BY <1>1, <1>2 DEF UninitWaits

(* and init takes none away.                                               *)
LEMMA UninitInit ==
  CoreTypeOK /\ CoreInv /\ (InitReturns \/ InitStateManager \/ InitReadyState) =>
    (UninitWaits' <=> UninitWaits)
<1> SUFFICES ASSUME CoreTypeOK, CoreInv, InitReturns \/ InitStateManager \/ InitReadyState
             PROVE  UninitWaits' <=> UninitWaits
  OBVIOUS
<1>1. CASE InitStateManager
  BY <1>1 DEF InitStateManager, UninitWaits
<1>2. CASE InitReturns \/ InitReadyState
  <2>1. high \in Seq({"init", "uninit"}) /\ high # << >> /\ high' = Tail(high)
    BY <1>2 DEF CoreTypeOK, InitReturns, InitReadyState
  <2>2. Head(high) = high[1]
    BY <2>1, Ends
  <2>3. Head(high) = "init"
    BY <1>2, <2>2 DEF InitReturns, InitReadyState, CoreInv, InitUnderWay
  <2>4. Has(high, "uninit") <=> Head(high) = "uninit" \/ Has(Tail(high), "uninit")
    BY <2>1, TailHas
  <2> QED BY <2>1, <2>3, <2>4 DEF UninitWaits
<1> QED BY <1>1, <1>2

-----------------------------------------------------------------------------
(* The states' timers.                                                     *)

StateTimersInv == stateTimers \in 0..life[TIME] /\ StateTimersKept
StateTimersVars == <<isServiceReady, initTask, high, notices, stateTimers, life>>

(* Every step keeps the timers of the states, or will be followed by       *)
(* UnInit.                                                                 *)
LEMMA StateTimersNext ==
  CoreTypeOK /\ CoreInv /\ StateTimersInv /\ [Next]_vars => StateTimersInv'
<1> SUFFICES ASSUME CoreTypeOK, CoreInv, StateTimersInv, [Next]_vars PROVE StateTimersInv'
  OBVIOUS
<1> USE Abilities
<1>0. life[TIME] \in Nat
  BY DEF CoreTypeOK
<1>1. ASSUME NEW a \in Ability, AbilityStarts(a) PROVE StateTimersInv'
  <2>1. UNCHANGED <<stateTimers, isServiceReady, initTask, high>> /\ life'[TIME] >= life[TIME]
        /\ life'[TIME] \in Nat
    BY <1>0, <1>1 DEF AbilityStarts, handles, CoreTypeOK
  <2>2. a # TIME => life'[TIME] = life[TIME] /\ notices'[TIME] = notices[TIME]
    BY <1>1 DEF AbilityStarts, CoreTypeOK
  <2>3. a = TIME => notices'[TIME] # << >>
    BY <1>1, StartTold
  <2> QED BY <1>0, <2>1, <2>2, <2>3 DEF StateTimersInv, StateTimersKept, UninitWaits, Inited, Initializing
<1>2. ASSUME NEW a \in Ability, AbilityDies(a) PROVE StateTimersInv'
  <2>1. UNCHANGED <<stateTimers, isServiceReady, initTask, high, life>>
    BY <1>2 DEF AbilityDies, handles
  <2>2. a # TIME => notices'[TIME] = notices[TIME]
    BY <1>2 DEF AbilityDies, CoreTypeOK
  <2>3. a = TIME => notices'[TIME] # << >>
    BY <1>2, DeathTold
  <2> QED BY <2>1, <2>2, <2>3 DEF StateTimersInv, StateTimersKept, UninitWaits, Inited, Initializing
<1>3. ASSUME NEW a \in Ability, OnAddSystemAbility(a) PROVE StateTimersInv'
  <2>1. UNCHANGED <<stateTimers, isServiceReady, initTask, life>>
    BY <1>3 DEF OnAddSystemAbility
  <2>2. UninitWaits' <=> UninitWaits
    BY <1>3, UninitAdd
  <2>3. CASE a # TIME
    <3>1. notices'[TIME] = notices[TIME]
      BY <1>3, <2>3 DEF OnAddSystemAbility, CoreTypeOK
    <3> QED BY <2>1, <2>2, <3>1 DEF StateTimersInv, StateTimersKept, Inited, Initializing
  <2>4. CASE a = TIME
    <3>1. TIME \notin dependsReady
      BY <1>3, <2>4, NoticeIsNews DEF OnAddSystemAbility
    <3>2. Inited => UninitWaits
      BY <3>1, ReadyLacking
    <3> QED BY <2>1, <2>2, <3>2 DEF StateTimersInv, StateTimersKept, Inited, Initializing
  <2> QED BY <2>3, <2>4
<1>4. ASSUME NEW a \in Ability, OnRemoveSystemAbility(a) PROVE StateTimersInv'
  <2>1. UNCHANGED <<stateTimers, isServiceReady, initTask, life>>
    BY <1>4 DEF OnRemoveSystemAbility
  <2>2. (UninitWaits => UninitWaits') /\ (a = TIME => UninitWaits')
    BY <1>4, UninitRemove
  <2>3. a # TIME => notices'[TIME] = notices[TIME]
    BY <1>4 DEF OnRemoveSystemAbility, CoreTypeOK
  <2> QED BY <2>1, <2>2, <2>3 DEF StateTimersInv, StateTimersKept, Inited, Initializing
<1>5. CASE InitReturns \/ InitStateManager \/ InitReadyState
  <2>1. life' = life /\ notices'[TIME] = notices[TIME] /\ (UninitWaits' <=> UninitWaits)
    BY <1>5, InitTold, UninitInit DEF InitReturns, InitStateManager, InitReadyState
  <2>2. CASE InitReturns
    <3>1. UNCHANGED <<stateTimers, isServiceReady>> /\ ~Initializing'
      BY <2>2 DEF InitReturns, Initializing
    <3> QED BY <1>0, <2>1, <3>1 DEF StateTimersInv, StateTimersKept, Inited
  <2>3. CASE InitStateManager
    <3>1. stateTimers' = life[TIME]
      BY <2>3 DEF InitStateManager
    <3> QED BY <1>0, <2>1, <3>1 DEF StateTimersInv, StateTimersKept
  <2>4. CASE InitReadyState
    <3>1. stateTimers' = stateTimers /\ Inited
      BY <2>4 DEF InitReadyState, Inited
    <3> QED BY <1>0, <2>1, <3>1 DEF StateTimersInv, StateTimersKept
  <2> QED BY <1>5, <2>2, <2>3, <2>4
<1>6. CASE UninitReadyState
  <2>1. life' = life /\ isServiceReady' = FALSE /\ initTask' = initTask
    BY <1>6 DEF UninitReadyState, CoreTypeOK
  <2>2. stateTimers' = 0 \/ stateTimers' = stateTimers
    BY <1>6 DEF UninitReadyState, handles
  <2>3. ~Initializing
    <3>1. high \in Seq({"init", "uninit"}) /\ high # << >> /\ Head(high) = "uninit"
      BY <1>6 DEF UninitReadyState, CoreTypeOK
    <3>2. Head(high) = high[1]
      BY <3>1, Ends
    <3> QED BY <3>1, <3>2 DEF CoreInv, InitUnderWay
  <2> QED BY <1>0, <2>1, <2>2, <2>3 DEF StateTimersInv, StateTimersKept, Inited, Initializing
<1>7. ASSUME RunTask \/ TimerExpires \/ TimeChanges \/ UNCHANGED vars
             \/ PostScreen \/ \E s \in Screen : ScreenTurns(s)
      PROVE  StateTimersInv'
  <2>1. UNCHANGED StateTimersVars
    BY <1>7 DEF RunTask, TimerExpires, TimeChanges, ScreenTurns, PostScreen, vars, handles,
                StateTimersVars
  <2> QED BY <2>1 DEF StateTimersVars, StateTimersInv, StateTimersKept, UninitWaits, Inited, Initializing
<1> QED BY <1>1, <1>2, <1>3, <1>4, <1>5, <1>6, <1>7 DEF Next

-----------------------------------------------------------------------------
(* The ordinary tasks.                                                     *)

(* BeginState of working may post its task, and EndState take it back.     *)
LEMMA RequeuedDoes ==
  ASSUME NEW old, NEW new
  PROVE  \/ Requeued(old, new) = Tail(queue)
         \/ Requeued(old, new) = Append(Tail(queue), "check_screen")
         \/ Requeued(old, new) = Without(Tail(queue), "check_screen")
  BY DEF Requeued

(* A step adds a task at the end, or runs the first one.                   *)
Posted(t) == queue' = queue \/ queue' = Append(queue, t)
(* What a step does to the ordinary tasks.                                 *)
LEMMA QueueDoes ==
  [Next]_vars =>
    \/ \E t \in Task : Posted(t)
    \/ queue' = Without(queue, "check_screen")
    \/ /\ RunTask /\ queue # << >>
       /\ \/ queue' = Tail(queue)
          \/ queue' = Append(Tail(queue), "check_screen")
          \/ queue' = Without(Tail(queue), "check_screen")
<1> SUFFICES ASSUME [Next]_vars, ~RunTask
             PROVE  (\E t \in Task : Posted(t)) \/ queue' = Without(queue, "check_screen")
  BY RequeuedDoes DEF RunTask
<1>1. ASSUME NEW a \in Ability, AbilityStarts(a) \/ AbilityDies(a) PROVE Posted("day_night")
  BY <1>1 DEF AbilityStarts, AbilityDies, Posted
<1>2. ASSUME NEW a \in Ability, OnAddSystemAbility(a) PROVE Posted("bgtask_added")
  BY <1>2 DEF OnAddSystemAbility, Dispatch, Posted
<1>3. ASSUME NEW a \in Ability, OnRemoveSystemAbility(a) PROVE Posted("bgtask_removed")
  BY <1>3 DEF OnRemoveSystemAbility, Dispatch, Posted
<1>4. ASSUME InitReturns \/ InitStateManager \/ InitReadyState PROVE Posted("check_screen")
  BY <1>4 DEF InitReturns, InitStateManager, InitReadyState, Posted
<1>5. ASSUME UninitReadyState PROVE queue' = Without(queue, "check_screen") \/ Posted("day_night")
  BY <1>5 DEF UninitReadyState, Posted
<1>6. ASSUME TimerExpires PROVE Posted("day_night")
  BY <1>6 DEF TimerExpires, Posted
<1>7. ASSUME TimeChanges PROVE Posted("reset_timer")
  BY <1>7 DEF TimeChanges, Posted
<1>8. ASSUME PostScreen \/ \E s \in Screen : ScreenTurns(s)
      PROVE  Posted("screen_on") \/ Posted("screen_off")
  BY <1>8 DEF ScreenTurns, PostScreen, Posted
<1>9. ASSUME UNCHANGED vars PROVE Posted("day_night")
  BY <1>9 DEF vars, Posted
<1>10. /\ "day_night" \in Task /\ "reset_timer" \in Task /\ "bgtask_added" \in Task
       /\ "bgtask_removed" \in Task /\ "screen_on" \in Task /\ "screen_off" \in Task
       /\ "check_screen" \in Task
  BY DEF Task
<1> QED BY <1>1, <1>2, <1>3, <1>4, <1>5, <1>6, <1>7, <1>8, <1>9, <1>10 DEF Next

(* The queue keeps its type, and only running a task removes it: only      *)
(* check_screen is ever taken back.                                        *)
LEMMA QueueKeeps ==
  queue \in Seq(Task) /\ [Next]_vars =>
    /\ queue' \in Seq(Task)
    /\ \A t \in Task : t # "check_screen" /\ Has(queue, t) =>
         Has(queue', t) \/ (RunTask /\ queue # << >> /\ Head(queue) = t)
<1> SUFFICES ASSUME queue \in Seq(Task), [Next]_vars
             PROVE  /\ queue' \in Seq(Task)
                    /\ \A t \in Task : t # "check_screen" /\ Has(queue, t) =>
                         Has(queue', t) \/ (RunTask /\ queue # << >> /\ Head(queue) = t)
  OBVIOUS
<1>0. "check_screen" \in Task
  BY DEF Task
<1>1. ASSUME NEW s \in Seq(Task), NEW t \in Task, t # "check_screen", Has(s, t)
      PROVE  Has(Append(s, "check_screen"), t) /\ Has(Without(s, "check_screen"), t)
  BY <1>0, <1>1, AppendHas, WithoutHas
<1>2. \A s \in Seq(Task) : Append(s, "check_screen") \in Seq(Task) /\ Without(s, "check_screen") \in Seq(Task)
  BY <1>0, WithoutDoes
<1>3. ASSUME NEW u \in Task, Posted(u)
      PROVE  queue' \in Seq(Task) /\ \A t \in Task : Has(queue, t) => Has(queue', t)
  <2>1. \A t \in Task : Has(queue, t) => Has(Append(queue, u), t)
    BY AppendHas
  <2>2. Append(queue, u) \in Seq(Task)
    OBVIOUS
  <2>3. CASE queue' = queue
    BY <2>3
  <2>4. CASE queue' = Append(queue, u)
    BY <2>1, <2>2, <2>4
  <2> QED BY <1>3, <2>3, <2>4 DEF Posted
<1>4. ASSUME queue # << >>
      PROVE  Tail(queue) \in Seq(Task) /\ \A t \in Task : Has(queue, t) => Head(queue) = t \/ Has(Tail(queue), t)
  BY <1>4, TailHas
<1> QED BY <1>1, <1>2, <1>3, <1>4, QueueDoes

-----------------------------------------------------------------------------
(* The day and night timer.                                                *)

Created == [made |-> TRUE, at |-> life[TIME], armed |-> FALSE]
Started == [Created EXCEPT !.armed = TRUE]

(* A registration with no timer made.                                      *)
Registered ==
  \/ TIME \in up /\ timer' = Started /\ registerFailed' = FALSE
  \/ registerFailed' = TRUE /\ (timer' = NoTimer \/ (TIME \in up /\ timer' = Created))

(* RegisterTimeObserver leaves a timer that has an id alone.               *)
LEMMA RegisterDoes ==
  ASSUME NEW t, NEW f \in Nat
  PROVE  RegisterTimeObserver(t, f) =>
           /\ failures' \in Nat
           /\ t.made => timer' = t /\ registerFailed' = registerFailed
           /\ ~t.made => Registered
<1> SUFFICES ASSUME RegisterTimeObserver(t, f)
             PROVE  /\ failures' \in Nat
                    /\ t.made => timer' = t /\ registerFailed' = registerFailed
                    /\ ~t.made => Registered
  OBVIOUS
<1>1. CASE t.made
  BY <1>1 DEF RegisterTimeObserver
<1>2. CASE ~t.made
  <2>1. \/ TIME \in up /\ timer' = Started /\ registerFailed' = FALSE /\ failures' = f
        \/ TIME \in up /\ timer' \in {NoTimer, Created} /\ registerFailed' = TRUE /\ failures' = f + 1
        \/ TIME \notin up /\ timer' = NoTimer /\ registerFailed' = TRUE /\ failures' = f
    BY <1>2, Zenon DEF RegisterTimeObserver, Started, Created
  <2>2. failures' \in Nat
    BY <2>1
  <2>3. Registered
    BY <2>1, Zenon DEF Registered
  <2> QED BY <1>2, <2>2, <2>3
<1> QED BY <1>1, <1>2

(* ResetTimeObserver always registers.                                     *)
LEMMA ResetDoes ==
  ASSUME NEW f \in Nat
  PROVE  ResetTimeObserver(f) => Registered /\ failures' \in Nat
<1>1. ~NoTimer.made
  BY DEF NoTimer
<1> QED BY <1>1, RegisterDoes DEF ResetTimeObserver

(* A timer that was just registered is usable, and armed unless that       *)
(* failed.                                                                 *)
LEMMA RegisteredGood ==
  CoreTypeOK /\ Registered /\ failures' \in Nat /\ life' = life /\ up' = up =>
    /\ TimerTypeOK'
    /\ timer'.made => Usable(timer)'
    /\ ~registerFailed' => timer'.made /\ timer'.armed
<1> SUFFICES ASSUME CoreTypeOK, Registered, failures' \in Nat, life' = life, up' = up
             PROVE  /\ TimerTypeOK'
                    /\ timer'.made => Usable(timer)'
                    /\ ~registerFailed' => timer'.made /\ timer'.armed
  OBVIOUS
<1>0. life[TIME] \in Nat
  BY Abilities DEF CoreTypeOK
<1>1. CASE TIME \in up /\ timer' = Started /\ registerFailed' = FALSE
  <2>1. timer' \in [made : BOOLEAN, at : Nat, armed : BOOLEAN]
    <3>1. Created \in [made : BOOLEAN, at : Nat, armed : BOOLEAN]
      BY <1>0 DEF Created
    <3> QED BY <3>1, <1>1 DEF Started
  <2>2. timer'.made = TRUE /\ timer'.at = life[TIME] /\ timer'.armed = TRUE
    <3>1. Created \in [made : BOOLEAN, at : Nat, armed : BOOLEAN]
      BY <1>0 DEF Created
    <3>2. Created.made = TRUE /\ Created.at = life[TIME]
      BY DEF Created
    <3> QED BY <3>1, <3>2, <1>1 DEF Started
  <2>3. registerFailed' \in BOOLEAN /\ TIME \in up' /\ life'[TIME] = life[TIME]
    BY <1>1
  <2>4. TimerTypeOK'
    BY <1>0, <2>1, <2>2, <2>3 DEF TimerTypeOK
  <2>5. Usable(timer)'
    BY <2>2, <2>3 DEF Usable
  <2> QED BY <2>2, <2>4, <2>5
<1>2. CASE registerFailed' = TRUE /\ timer' = NoTimer
  <2>1. timer' \in [made : BOOLEAN, at : Nat, armed : BOOLEAN]
    BY <1>2 DEF NoTimer
  <2>2. timer'.made = FALSE /\ timer'.at = 0 /\ timer'.armed = FALSE
    BY <1>2 DEF NoTimer
  <2> QED BY <1>0, <1>2, <2>1, <2>2 DEF TimerTypeOK, Usable
<1>3. CASE registerFailed' = TRUE /\ TIME \in up /\ timer' = Created
  <2>1. timer' \in [made : BOOLEAN, at : Nat, armed : BOOLEAN]
    BY <1>0, <1>3 DEF Created
  <2>2. timer'.made = TRUE /\ timer'.at = life[TIME] /\ timer'.armed = FALSE
    BY <1>3 DEF Created
  <2> QED BY <1>0, <1>3, <2>1, <2>2 DEF TimerTypeOK, Usable
<1> QED BY <1>1, <1>2, <1>3 DEF Registered

TimerInv == TimerTypeOK /\ TimerUsable /\ TimerArmed

(* A registration makes the invariant of the timer true.                   *)
LEMMA TimerRegistered ==
  CoreTypeOK /\ Registered /\ failures' \in Nat /\ life' = life /\ up' = up => TimerInv'
  BY RegisteredGood DEF TimerInv, TimerUsable, TimerArmed

(* The invariant of the timer, when a step leaves the timer alone.         *)
LEMMA TimerStays ==
  /\ TimerInv /\ timer' = timer /\ registerFailed' = registerFailed /\ failures' \in Nat
  /\ life' = life /\ up' = up
  /\ Pending("day_night") => Pending("day_night")'
  /\ RemovalComes(TIME) => RemovalComes(TIME)'
  /\ TIME \in dependsReady' => TIME \in dependsReady \/ timer.made
  => TimerInv'
  BY DEF TimerInv, TimerTypeOK, TimerUsable, TimerArmed, Usable

(* An ability starts: the timer of a dead time service stays unusable.     *)
LEMMA TimerStarted ==
  ASSUME NEW a \in Ability
  PROVE  CoreTypeOK /\ TimerInv /\ AbilityStarts(a) => TimerInv'
<1> SUFFICES ASSUME CoreTypeOK, TimerInv, AbilityStarts(a) PROVE TimerInv'
  OBVIOUS
<1> USE Abilities
<1>1. /\ a \notin up /\ up' = up \cup {a} /\ life' = [life EXCEPT ![a] = @ + 1]
      /\ UNCHANGED <<timer, registerFailed, failures, queue, dependsReady>>
  BY DEF AbilityStarts, handles
<1>2. CASE a # TIME
  <2>1. life'[TIME] = life[TIME] /\ (TIME \in up' <=> TIME \in up) /\ notices'[TIME] = notices[TIME]
    BY <1>1, <1>2 DEF AbilityStarts, CoreTypeOK
  <2> QED BY <1>1, <2>1 DEF TimerInv, TimerTypeOK, TimerUsable, TimerArmed, Usable, RemovalComes, Pending
<1>3. CASE a = TIME
  <2>1. life[TIME] \in Nat /\ life'[TIME] = life[TIME] + 1 /\ timer.at \in Nat /\ timer.at <= life[TIME]
    BY <1>1, <1>3 DEF CoreTypeOK, TimerInv, TimerTypeOK
  <2>2. ~Usable(timer) /\ ~Usable(timer)'
    BY <1>1, <1>3, <2>1 DEF Usable
  <2>3. RemovalComes(TIME) => RemovalComes(TIME)'
    <3>1. notices[TIME] \in Seq(Notice) /\ "added" \in Notice
      BY DEF CoreTypeOK, Notice
    <3>2. notices'[TIME] = Append(notices[TIME], "added")
      BY <1>3 DEF AbilityStarts, Told, CoreTypeOK
    <3>3. Has(Append(notices[TIME], "added"), "removed") <=> Has(notices[TIME], "removed") \/ "added" = "removed"
      BY <3>1, AppendHas
    <3> QED BY <3>2, <3>3 DEF RemovalComes
  <2>4. TimerTypeOK'
    BY <1>1, <1>3, <2>1 DEF TimerInv, TimerTypeOK
  <2>5. TimerUsable'
    BY <1>1, <2>2, <2>3 DEF TimerInv, TimerUsable
  <2>6. TimerArmed'
    BY <1>1, <2>2 DEF TimerInv, TimerArmed
  <2> QED BY <2>4, <2>5, <2>6 DEF TimerInv
<1> QED BY <1>2, <1>3

(* The time service dies, and samgr will tell of it.                       *)
LEMMA TimerDies ==
  ASSUME NEW a \in Ability
  PROVE  CoreTypeOK /\ TimerInv /\ AbilityDies(a) => TimerInv'
<1> SUFFICES ASSUME CoreTypeOK, TimerInv, AbilityDies(a) PROVE TimerInv'
  OBVIOUS
<1> USE Abilities
<1>1. /\ up' = up \ {a} /\ timer' = IF a = TIME THEN [timer EXCEPT !.armed = FALSE] ELSE timer
      /\ UNCHANGED <<life, registerFailed, failures, queue, dependsReady>>
  BY DEF AbilityDies
<1>2. CASE a # TIME
  <2>1. (TIME \in up' <=> TIME \in up) /\ notices'[TIME] = notices[TIME] /\ timer' = timer
    BY <1>1, <1>2 DEF AbilityDies, CoreTypeOK
  <2> QED BY <1>1, <2>1 DEF TimerInv, TimerTypeOK, TimerUsable, TimerArmed, Usable, RemovalComes, Pending
<1>3. CASE a = TIME
  <2>1. timer \in [made : BOOLEAN, at : Nat, armed : BOOLEAN] /\ timer' = [timer EXCEPT !.armed = FALSE]
    BY <1>1, <1>3 DEF TimerInv, TimerTypeOK
  <2>2. timer' \in [made : BOOLEAN, at : Nat, armed : BOOLEAN]
        /\ timer'.made = timer.made /\ timer'.at = timer.at /\ timer'.armed = FALSE
    BY <2>1
  <2>3. ~Usable(timer)'
    BY <1>1, <1>3 DEF Usable
  <2>4. RemovalComes(TIME)'
    <3>1. notices[TIME] \in Seq(Notice) /\ "removed" \in Notice
      BY DEF CoreTypeOK, Notice
    <3>2. notices'[TIME] = Append(notices[TIME], "removed")
      BY <1>3, DeathTold
    <3>3. Has(Append(notices[TIME], "removed"), "removed")
      BY <3>1, AppendHas
    <3> QED BY <3>2, <3>3 DEF RemovalComes
  <2>5. TimerTypeOK'
    BY <1>1, <2>2 DEF TimerInv, TimerTypeOK
  <2>6. TimerUsable'
    BY <2>4 DEF TimerUsable
  <2>7. TimerArmed'
    BY <1>1, <2>2, <2>3 DEF TimerInv, TimerArmed
  <2> QED BY <2>5, <2>6, <2>7 DEF TimerInv
<1> QED BY <1>2, <1>3

(* The time service is added, and a timer is registered if there is none.  *)
LEMMA TimerAdd ==
  ASSUME NEW a \in Ability
  PROVE  CoreTypeOK /\ TimerInv /\ queue \in Seq(Task) /\ OnAddSystemAbility(a) => TimerInv'
<1> SUFFICES ASSUME CoreTypeOK, TimerInv, queue \in Seq(Task), OnAddSystemAbility(a) PROVE TimerInv'
  OBVIOUS
<1> USE Abilities
<1>1. /\ notices[a] # << >> /\ Head(notices[a]) = "added"
      /\ notices' = [notices EXCEPT ![a] = Tail(notices[a])]
      /\ dependsReady' = dependsReady \cup ({a} \cap Depend) /\ UNCHANGED <<life, up>>
  BY DEF OnAddSystemAbility, UpdateSaDependValue
<1>2. RemovalComes(TIME) => RemovalComes(TIME)'
  <2>1. notices[a] \in Seq(Notice)
    BY DEF CoreTypeOK
  <2>2. Has(notices[a], "removed") <=> Head(notices[a]) = "removed" \/ Has(Tail(notices[a]), "removed")
    BY <1>1, <2>1, TailHas
  <2>3. a = TIME => notices'[TIME] = Tail(notices[a])
    BY <1>1 DEF CoreTypeOK
  <2>4. a # TIME => notices'[TIME] = notices[TIME]
    BY <1>1 DEF CoreTypeOK
  <2> QED BY <1>1, <2>2, <2>3, <2>4 DEF RemovalComes
<1>3. Pending("day_night") => Pending("day_night")'
  <2>1. queue' = queue \/ queue' = Append(queue, "bgtask_added")
    BY DEF OnAddSystemAbility, Dispatch
  <2>2. "bgtask_added" \in Task
    BY DEF Task
  <2>3. Has(queue, "day_night") => Has(Append(queue, "bgtask_added"), "day_night")
    BY <2>2, AppendHas
  <2> QED BY <2>1, <2>3 DEF Pending, Has
<1>4. failures \in Nat
  BY DEF TimerInv, TimerTypeOK
<1>5. CASE a # TIME
  <2>1. RegisterObserver(a) /\ UNCHANGED <<timer, registerFailed>>
    BY <1>5 DEF OnAddSystemAbility, RegisterFor
  <2>2. failures' \in Nat
    BY <1>4, <2>1 DEF RegisterObserver
  <2>3. TIME \in dependsReady' <=> TIME \in dependsReady
    BY <1>1, <1>5
  <2> QED BY <1>1, <1>2, <1>3, <2>1, <2>2, <2>3, TimerStays
<1>6. CASE a = TIME
  <2>1. RegisterTimeObserver(timer, failures)
    BY <1>6 DEF OnAddSystemAbility, RegisterFor
  <2>2. CASE timer.made
    <3>1. timer' = timer /\ registerFailed' = registerFailed /\ failures' \in Nat
      BY <1>4, <2>1, <2>2, RegisterDoes
    <3> QED BY <1>1, <1>2, <1>3, <2>2, <3>1, TimerStays
  <2>3. CASE ~timer.made
    <3>1. Registered /\ failures' \in Nat
      BY <1>4, <2>1, <2>3, RegisterDoes
    <3> QED BY <1>1, <3>1, TimerRegistered
  <2> QED BY <2>2, <2>3
<1> QED BY <1>5, <1>6

(* The time service is removed, and the timer is forgotten.                *)
LEMMA TimerRemove ==
  ASSUME NEW a \in Ability
  PROVE  CoreTypeOK /\ TimerInv /\ queue \in Seq(Task) /\ OnRemoveSystemAbility(a) => TimerInv'
<1> SUFFICES ASSUME CoreTypeOK, TimerInv, queue \in Seq(Task), OnRemoveSystemAbility(a) PROVE TimerInv'
  OBVIOUS
<1> USE Abilities
<1>1. /\ notices' = [notices EXCEPT ![a] = Tail(notices[a])] /\ dependsReady' = dependsReady \ {a}
      /\ timer' = IF a = TIME THEN NoTimer ELSE timer
      /\ UNCHANGED <<life, up, registerFailed, failures>>
  BY DEF OnRemoveSystemAbility, UpdateSaDependValue
<1>2. CASE a # TIME
  <2>1. notices'[TIME] = notices[TIME] /\ (TIME \in dependsReady' <=> TIME \in dependsReady)
    BY <1>1, <1>2 DEF CoreTypeOK
  <2>2. Pending("day_night") => Pending("day_night")'
    <3>1. queue' = queue \/ queue' = Append(queue, "bgtask_removed")
      BY DEF OnRemoveSystemAbility, Dispatch
    <3>2. "bgtask_removed" \in Task
      BY DEF Task
    <3>3. Has(queue, "day_night") => Has(Append(queue, "bgtask_removed"), "day_night")
      BY <3>2, AppendHas
    <3> QED BY <3>1, <3>3 DEF Pending, Has
  <2>3. timer' = timer /\ failures' \in Nat
    BY <1>1, <1>2 DEF TimerInv, TimerTypeOK
  <2>4. RemovalComes(TIME) => RemovalComes(TIME)'
    BY <2>1 DEF RemovalComes
  <2> QED BY <1>1, <2>1, <2>2, <2>3, <2>4, TimerStays
<1>3. CASE a = TIME
  <2>1. timer' = NoTimer /\ TIME \notin dependsReady'
    BY <1>1, <1>3
  <2>2. NoTimer \in [made : BOOLEAN, at : Nat, armed : BOOLEAN]
        /\ NoTimer.made = FALSE /\ NoTimer.at = 0 /\ NoTimer.armed = FALSE
    BY DEF NoTimer
  <2>3. life[TIME] \in Nat
    BY DEF CoreTypeOK
  <2>4. TimerTypeOK'
    BY <1>1, <2>1, <2>2, <2>3 DEF TimerInv, TimerTypeOK
  <2>5. TimerUsable' /\ TimerArmed'
    BY <2>1, <2>2 DEF TimerUsable, TimerArmed, Usable
  <2> QED BY <2>4, <2>5 DEF TimerInv
<1> QED BY <1>2, <1>3

(* Init registers a timer if there is none.                                *)
LEMMA TimerInitReady ==
  CoreTypeOK /\ TimerInv /\ queue \in Seq(Task)
  /\ (InitReturns \/ InitStateManager \/ InitReadyState) => TimerInv'
<1> SUFFICES ASSUME CoreTypeOK, TimerInv, queue \in Seq(Task),
                    InitReturns \/ InitStateManager \/ InitReadyState
             PROVE  TimerInv'
  OBVIOUS
<1> USE Abilities
<1>1. UNCHANGED <<life, up, dependsReady>>
  BY DEF InitReturns, InitStateManager, InitReadyState
<1>2. RemovalComes(TIME) => RemovalComes(TIME)'
  BY InitTold DEF RemovalComes
<1>3. Pending("day_night") => Pending("day_night")'
  <2>1. queue' = queue \/ queue' = Append(queue, "check_screen")
    BY DEF InitReturns, InitStateManager, InitReadyState
  <2>2. "check_screen" \in Task
    BY DEF Task
  <2>3. Has(queue, "day_night") => Has(Append(queue, "check_screen"), "day_night")
    BY <2>2, AppendHas
  <2> QED BY <2>1, <2>3 DEF Pending, Has
<1>4. failures \in Nat
  BY DEF TimerInv, TimerTypeOK
<1>5. \/ RegisterTimeObserver(timer, failures)
      \/ UNCHANGED <<timer, registerFailed>> /\ failures' \in {failures, failures + 1}
  BY DEF InitReturns, InitStateManager, InitReadyState
<1>6. CASE UNCHANGED <<timer, registerFailed>> /\ failures' \in {failures, failures + 1}
  <2>1. failures' \in Nat
    BY <1>4, <1>6
  <2> QED BY <1>1, <1>2, <1>3, <1>6, <2>1, TimerStays
<1>7. CASE RegisterTimeObserver(timer, failures)
  <2>2. CASE timer.made
    <3>1. timer' = timer /\ registerFailed' = registerFailed /\ failures' \in Nat
      BY <1>4, <1>7, <2>2, RegisterDoes
    <3> QED BY <1>1, <1>2, <1>3, <2>2, <3>1, TimerStays
  <2>3. CASE ~timer.made
    <3>1. Registered /\ failures' \in Nat
      BY <1>4, <1>7, <2>3, RegisterDoes
    <3> QED BY <1>1, <3>1, TimerRegistered
  <2> QED BY <2>2, <2>3
<1> QED BY <1>5, <1>6, <1>7

(* The timer's own task starts it, or makes a new one.                     *)
LEMMA TimerRuns ==
  CoreTypeOK /\ TimerInv /\ queue \in Seq(Task) /\ RunTask => TimerInv'
<1> SUFFICES ASSUME CoreTypeOK, TimerInv, queue \in Seq(Task), RunTask PROVE TimerInv'
  OBVIOUS
<1> USE Abilities
<1>1. UNCHANGED <<life, up, dependsReady, notices>>
  BY DEF RunTask
<1>2. RemovalComes(TIME) => RemovalComes(TIME)'
  BY <1>1 DEF RemovalComes
<1>3. failures \in Nat /\ timer \in [made : BOOLEAN, at : Nat, armed : BOOLEAN]
  BY DEF TimerInv, TimerTypeOK
<1>4. CASE Registered /\ failures' \in Nat
  BY <1>1, <1>4, TimerRegistered
<1>5. CASE TimerStarts
  <2>1. timer' = [timer EXCEPT !.armed = TRUE] /\ Usable(timer) /\ UNCHANGED <<registerFailed, failures>>
    BY <1>5 DEF TimerStarts
  <2>2. timer' \in [made : BOOLEAN, at : Nat, armed : BOOLEAN]
        /\ timer'.made = timer.made /\ timer'.at = timer.at /\ timer'.armed = TRUE
    BY <1>3, <2>1
  <2>3. TimerTypeOK'
    BY <1>1, <2>1, <2>2 DEF TimerInv, TimerTypeOK, Usable
  <2>4. TimerUsable' /\ TimerArmed'
    BY <1>1, <2>1, <2>2 DEF TimerInv, TimerUsable, TimerArmed, Usable
  <2> QED BY <2>3, <2>4 DEF TimerInv
<1>6. CASE UNCHANGED <<timer, registerFailed, failures>> /\ Head(queue) # "day_night"
  <2>1. "day_night" \in Task /\ "day_night" # "check_screen"
    BY DEF Task
  <2>2. Has(queue, "day_night") => Has(queue', "day_night")
    BY <1>6, <2>1, QueueKeeps DEF Next
  <2>3. Pending("day_night") => Pending("day_night")'
    BY <2>2 DEF Has, Pending
  <2> QED BY <1>1, <1>2, <1>3, <1>6, <2>3, TimerStays
<1>7. \/ Head(queue) = "day_night" /\ DayNightSwitchTask
      \/ Head(queue) = "reset_timer" /\ ResetTimeObserver(failures)
      \/ Head(queue) # "day_night" /\ UNCHANGED <<timer, registerFailed, failures>>
  BY DEF RunTask
<1>8. ASSUME NEW f \in Nat, ResetTimeObserver(f) PROVE Registered /\ failures' \in Nat
  BY <1>8, ResetDoes
<1>9. failures + 1 \in Nat
  BY <1>3
<1>10. DayNightSwitchTask => TimerStarts \/ (Registered /\ failures' \in Nat)
  BY <1>3, <1>8, <1>9 DEF DayNightSwitchTask
<1> QED BY <1>3, <1>4, <1>5, <1>6, <1>7, <1>8, <1>10

(* The timer expires and its task waits.                                   *)
LEMMA TimerExpired ==
  CoreTypeOK /\ TimerInv /\ queue \in Seq(Task) /\ TimerExpires => TimerInv'
<1> SUFFICES ASSUME CoreTypeOK, TimerInv, queue \in Seq(Task), TimerExpires PROVE TimerInv'
  OBVIOUS
<1>1. /\ timer' = [timer EXCEPT !.armed = FALSE] /\ Usable(timer)
      /\ queue' = Append(queue, "day_night")
      /\ UNCHANGED <<life, up, notices, dependsReady, registerFailed, failures>>
  BY DEF TimerExpires
<1>2. timer \in [made : BOOLEAN, at : Nat, armed : BOOLEAN]
  BY DEF TimerInv, TimerTypeOK
<1>3. timer' \in [made : BOOLEAN, at : Nat, armed : BOOLEAN]
      /\ timer'.made = timer.made /\ timer'.at = timer.at /\ timer'.armed = FALSE
  BY <1>1, <1>2
<1>4. Pending("day_night")'
  <2>1. "day_night" \in Task
    BY DEF Task
  <2>2. Has(Append(queue, "day_night"), "day_night")
    BY <2>1, AppendHas
  <2> QED BY <1>1, <2>2 DEF Has, Pending
<1>5. TimerTypeOK'
  BY <1>1, <1>3 DEF TimerInv, TimerTypeOK
<1>6. TimerUsable' /\ TimerArmed'
  BY <1>1, <1>3, <1>4 DEF TimerInv, TimerUsable, TimerArmed, Usable, RemovalComes
<1> QED BY <1>5, <1>6 DEF TimerInv

(* Every step keeps the invariant of the timer.                            *)
LEMMA TimerNext ==
  CoreTypeOK /\ TimerInv /\ queue \in Seq(Task) /\ [Next]_vars => TimerInv'
<1> SUFFICES ASSUME CoreTypeOK, TimerInv, queue \in Seq(Task), [Next]_vars PROVE TimerInv'
  OBVIOUS
<1>1. ASSUME UninitReadyState \/ TimeChanges \/ UNCHANGED vars \/ PostScreen
             \/ \E s \in Screen : ScreenTurns(s)
      PROVE  TimerInv'
  <2>1. UNCHANGED <<timer, registerFailed, failures, life, up, dependsReady, notices>>
    BY <1>1 DEF UninitReadyState, TimeChanges, ScreenTurns, PostScreen, vars, handles
  <2>2. RemovalComes(TIME) => RemovalComes(TIME)'
    BY <2>1 DEF RemovalComes
  <2>3. \/ \E t \in Task : Posted(t)
        \/ queue' = Without(queue, "check_screen")
    <3>1. CASE UninitReadyState
      BY <3>1 DEF UninitReadyState, Posted, Task
    <3>2. CASE TimeChanges
      BY <3>2 DEF TimeChanges, Posted, Task
    <3>3. CASE UNCHANGED vars
      BY <3>3 DEF vars, Posted, Task
    <3>4. CASE PostScreen \/ \E s \in Screen : ScreenTurns(s)
      BY <3>4 DEF ScreenTurns, PostScreen, Posted, Task
    <3> QED BY <1>1, <3>1, <3>2, <3>3, <3>4
  <2>4. Has(queue, "day_night") => Has(queue', "day_night")
    <3>1. ASSUME NEW t \in Task, Posted(t), Has(queue, "day_night") PROVE Has(queue', "day_night")
      <4>1. Has(Append(queue, t), "day_night")
        BY <3>1, AppendHas
      <4> QED BY <3>1, <4>1 DEF Posted
    <3>2. Has(Without(queue, "check_screen"), "day_night") <=>
            "day_night" # "check_screen" /\ Has(queue, "day_night")
      BY WithoutHas
    <3> QED BY <2>3, <3>1, <3>2
  <2>5. Pending("day_night") => Pending("day_night")'
    BY <2>4 DEF Has, Pending
  <2>6. failures' \in Nat
    BY <2>1 DEF TimerInv, TimerTypeOK
  <2> QED BY <2>1, <2>2, <2>5, <2>6, TimerStays
<1> QED BY <1>1, TimerStarted, TimerDies, TimerAdd, TimerRemove, TimerInitReady, TimerRuns,
           TimerExpired DEF Next

-----------------------------------------------------------------------------
(* The listeners.                                                          *)

LidsInv == ListenersTypeOK /\ LidsListed
ListenerVars == <<listeners, lidListeners, bgListening>>

(* What is listed, by the listeners and not by their places.               *)
ListedIn(s, kind) == \E l \in Listener : Has(s, l) /\ l.kind = kind

(* Some listener of a kind is in the list.                                 *)
LEMMA ListedHas ==
  ASSUME NEW kind
  PROVE  listeners \in Seq(Listener) => (Listed(kind) <=> ListedIn(listeners, kind))
<1> SUFFICES ASSUME listeners \in Seq(Listener) PROVE Listed(kind) <=> ListedIn(listeners, kind)
  OBVIOUS
<1>1. \A i \in DOMAIN listeners : listeners[i] \in Listener
  OBVIOUS
<1> QED BY <1>1 DEF Listed, ListedIn, Has

(* A lid listener that is added to none is the only one.                   *)
LEMMA AppendOneLid ==
  ASSUME NEW s \in Seq(Listener), NEW l \in Listener, OneLid(s),
         l.kind = "lid" => ~ListedIn(s, "lid")
  PROVE  OneLid(Append(s, l))
<1> DEFINE q == Append(s, l)
           n == Len(s)
<1>1. n \in Nat /\ DOMAIN s = 1..n /\ DOMAIN q = 1..(n + 1)
      /\ q[n + 1] = l /\ \A i \in 1..n : q[i] = s[i] /\ s[i] \in Listener
  OBVIOUS
<1> HIDE DEF q, n
<1>2. ASSUME NEW i \in 1..n, l.kind = "lid" PROVE s[i].kind # "lid"
  BY <1>1, <1>2 DEF ListedIn, Has
<1>3. \A i \in 1..(n + 1) : i = n + 1 \/ i \in 1..n
  BY <1>1
<1>4. \A i, j \in 1..(n + 1) : q[i].kind = "lid" /\ q[j].kind = "lid" => i = j
  BY <1>1, <1>2, <1>3 DEF OneLid
<1> QED BY <1>1, <1>4 DEF OneLid, q

(* There is still one lid listener at most when listeners are taken out.   *)
LEMMA WithoutOneLid ==
  ASSUME NEW s \in Seq(Listener), NEW e, OneLid(s)
  PROVE  OneLid(Without(s, e))
<1> DEFINE r == Without(s, e)
<1>1. r \in Seq(Listener)
  BY WithoutDoes
<1>2. PICK f : PicksTo(f, r, s, e, Len(s))
  BY WithoutDoes
<1>3. DOMAIN r = 1..Len(r) /\ DOMAIN s = 1..Len(s) /\ Len(r) \in Nat
  BY <1>1
<1> HIDE DEF r
<1>4. \A j \in 1..Len(r) : f[j] \in 1..Len(s) /\ r[j] = s[f[j]]
  BY <1>2 DEF PicksTo
<1>5. ASSUME NEW i \in 1..Len(r), NEW j \in 1..Len(r), r[i].kind = "lid", r[j].kind = "lid"
      PROVE  i = j
  <2>1. f[i] = f[j]
    BY <1>3, <1>4, <1>5 DEF OneLid
  <2>2. ~(i < j) /\ ~(j < i)
    BY <1>2, <1>4, <2>1 DEF PicksTo
  <2> QED BY <2>2, <1>3
<1> QED BY <1>3, <1>5 DEF OneLid, r

(* StopListeners takes back as many subscriptions as the input service     *)
(* holds.                                                                  *)
LEMMA LidsStopped ==
  LidsInv => lidListeners - Cardinality({i \in DOMAIN listeners :
                              listeners[i].kind = "lid" /\ Alive(listeners[i])}) = 0
<1> SUFFICES ASSUME LidsInv
             PROVE  lidListeners - Cardinality({i \in DOMAIN listeners :
                              listeners[i].kind = "lid" /\ Alive(listeners[i])}) = 0
  OBVIOUS
<1> DEFINE A == {i \in DOMAIN listeners : listeners[i].kind = "lid" /\ Alive(listeners[i])}
<1>1. \A i \in DOMAIN listeners : listeners[i] \in Listener
  BY DEF LidsInv, ListenersTypeOK
<1>2. CASE LidAlive
  <2>1. PICK i \in A : TRUE
    BY <1>2 DEF LidAlive, Has
  <2>2. A = {i}
    BY <2>1 DEF LidsInv, LidsListed, OneLid
  <2>3. Cardinality(A) = 1
    BY <2>2, FS_Singleton
  <2>4. lidListeners = 1
    BY <1>2 DEF LidsInv, LidsListed
  <2> QED BY <2>3, <2>4
<1>3. CASE ~LidAlive
  <2>1. A = {}
    BY <1>1, <1>3 DEF LidAlive, Has
  <2>2. Cardinality(A) = 0
    BY <2>1, FS_EmptySet
  <2>3. lidListeners = 0
    BY <1>3 DEF LidsInv, LidsListed
  <2> QED BY <2>2, <2>3
<1> QED BY <1>2, <1>3

(* The input service starts: a listener of an earlier life stays dead.     *)
LEMMA LidsStarts ==
  ASSUME NEW a \in Ability
  PROVE  CoreTypeOK /\ LidsInv /\ AbilityStarts(a) => LidsInv'
<1> SUFFICES ASSUME CoreTypeOK, LidsInv, AbilityStarts(a) PROVE LidsInv'
  OBVIOUS
<1> USE Abilities
<1>1. /\ a \notin up /\ up' = up \cup {a} /\ life' = [life EXCEPT ![a] = @ + 1]
      /\ UNCHANGED <<listeners, lidListeners, bgListening, isServiceReady, high>>
  BY DEF AbilityStarts, handles
<1>2. ListenersTypeOK'
  BY <1>1 DEF LidsInv, ListenersTypeOK
<1>3. CASE a # INPUT
  <2>1. life'[INPUT] = life[INPUT] /\ (INPUT \in up' <=> INPUT \in up) /\ notices'[INPUT] = notices[INPUT]
    BY <1>1, <1>3 DEF AbilityStarts, CoreTypeOK
  <2>2. LidAlive' <=> LidAlive
    BY <1>1, <2>1 DEF LidAlive, Alive
  <2> QED BY <1>1, <1>2, <2>1, <2>2 DEF LidsInv, LidsListed, UninitWaits, Listed
<1>4. CASE a = INPUT
  <2>1. life[INPUT] \in Nat /\ life'[INPUT] = life[INPUT] + 1 /\ notices'[INPUT] # << >>
    BY <1>1, <1>4, StartTold DEF CoreTypeOK
  <2>2. ~LidAlive
    BY <1>1, <1>4 DEF LidAlive, Alive
  <2>3. \A l \in Listener : Has(listeners, l) /\ l.kind = "lid" => l.at <= life[INPUT] /\ l.at \in Nat
    BY DEF LidsInv, LidsListed, Listener
  <2>4. ~LidAlive'
    BY <1>1, <2>1, <2>3 DEF LidAlive, Alive
  <2>5. \A l \in Listener : Has(listeners', l) =>
          IF l.kind = "lid" THEN l.at <= life'[INPUT] ELSE l = BgListener
    BY <1>1, <2>1, <2>3 DEF LidsInv, LidsListed
  <2>6. (Listed("lid") <=> isServiceReady)' /\ OneLid(listeners)' /\ lidListeners' = 0
    BY <1>1, <2>2 DEF LidsInv, LidsListed, Listed
  <2>7. BgListener' = BgListener
    BY DEF BgListener
  <2> QED BY <1>2, <2>1, <2>4, <2>5, <2>6, <2>7 DEF LidsInv, LidsListed
<1> QED BY <1>3, <1>4

(* The input service dies with the subscriptions it held.                  *)
LEMMA LidsDies ==
  ASSUME NEW a \in Ability
  PROVE  CoreTypeOK /\ LidsInv /\ AbilityDies(a) => LidsInv'
<1> SUFFICES ASSUME CoreTypeOK, LidsInv, AbilityDies(a) PROVE LidsInv'
  OBVIOUS
<1> USE Abilities
<1>1. /\ up' = up \ {a} /\ lidListeners' = (IF a = INPUT THEN 0 ELSE lidListeners)
      /\ bgListening' \in BOOLEAN
      /\ UNCHANGED <<listeners, isServiceReady, high, life>>
  BY DEF AbilityDies
<1>2. ListenersTypeOK'
  BY <1>1 DEF LidsInv, ListenersTypeOK
<1>3. /\ \A l \in Listener : Has(listeners', l) =>
           IF l.kind = "lid" THEN l.at <= life'[INPUT] ELSE l = BgListener'
      /\ (Listed("lid") <=> isServiceReady)' /\ OneLid(listeners)'
  BY <1>1 DEF LidsInv, LidsListed, Listed, BgListener
<1>4. CASE a # INPUT
  <2>1. (INPUT \in up' <=> INPUT \in up) /\ notices'[INPUT] = notices[INPUT] /\ lidListeners' = lidListeners
    BY <1>1, <1>4 DEF AbilityDies, CoreTypeOK
  <2>2. LidAlive' <=> LidAlive
    BY <1>1, <2>1 DEF LidAlive, Alive
  <2> QED BY <1>1, <1>2, <1>3, <2>1, <2>2 DEF LidsInv, LidsListed, UninitWaits
<1>5. CASE a = INPUT
  <2>1. notices'[INPUT] # << >> /\ INPUT \notin up' /\ lidListeners' = 0
    BY <1>1, <1>5, DeathTold
  <2>2. ~LidAlive'
    BY <2>1 DEF LidAlive, Alive
  <2> QED BY <1>2, <1>3, <2>1, <2>2 DEF LidsInv, LidsListed
<1> QED BY <1>4, <1>5

(* Nothing but the last clause depends on the notices and the tasks.       *)
LEMMA LidsStay ==
  /\ LidsInv /\ UNCHANGED ListenerVars /\ isServiceReady' = isServiceReady
  /\ life' = life /\ up' = up
  /\ isServiceReady /\ ~UninitWaits' /\ notices'[INPUT] = << >> =>
       ~UninitWaits /\ notices[INPUT] = << >>
  => LidsInv'
<1> SUFFICES ASSUME LidsInv, UNCHANGED ListenerVars, isServiceReady' = isServiceReady,
                    life' = life, up' = up,
                    isServiceReady /\ ~UninitWaits' /\ notices'[INPUT] = << >> =>
                      ~UninitWaits /\ notices[INPUT] = << >>
             PROVE  LidsInv'
  OBVIOUS
<1>1. LidAlive' <=> LidAlive
  BY DEF LidAlive, Alive, ListenerVars
<1>2. ListenersTypeOK'
  BY DEF LidsInv, ListenersTypeOK, ListenerVars
<1>3. /\ \A l \in Listener : Has(listeners', l) =>
           IF l.kind = "lid" THEN l.at <= life'[INPUT] ELSE l = BgListener'
      /\ (Listed("lid") <=> isServiceReady)' /\ OneLid(listeners)'
  BY DEF LidsInv, LidsListed, Listed, BgListener, ListenerVars
<1> QED BY <1>1, <1>2, <1>3 DEF LidsInv, LidsListed, ListenerVars

(* samgr tells of a start or a death: a ready service that misses its lid  *)
(* listener will be taken down.                                            *)
LEMMA LidsTold ==
  ASSUME NEW a \in Ability
  PROVE  /\ CoreTypeOK /\ CoreInv /\ LidsInv /\ OnAddSystemAbility(a) => LidsInv'
         /\ CoreTypeOK /\ CoreInv /\ LidsInv /\ OnRemoveSystemAbility(a) => LidsInv'
<1> USE Abilities
<1>1. ASSUME CoreTypeOK, CoreInv, LidsInv, OnAddSystemAbility(a) PROVE LidsInv'
  <2>1. UNCHANGED ListenerVars /\ UNCHANGED <<isServiceReady, life, up>>
    BY <1>1 DEF OnAddSystemAbility, ListenerVars
  <2>2. UninitWaits' <=> UninitWaits
    BY <1>1, UninitAdd
  <2>3. a # INPUT => notices'[INPUT] = notices[INPUT]
    BY <1>1 DEF OnAddSystemAbility, CoreTypeOK
  <2>4. a = INPUT => INPUT \notin dependsReady
    BY <1>1, NoticeIsNews DEF OnAddSystemAbility
  <2>5. a = INPUT /\ isServiceReady => UninitWaits
    BY <1>1, <2>4, ReadyLacking DEF Inited
  <2> QED BY <1>1, <2>1, <2>2, <2>3, <2>5, LidsStay
<1>2. ASSUME CoreTypeOK, CoreInv, LidsInv, OnRemoveSystemAbility(a) PROVE LidsInv'
  <2>1. UNCHANGED ListenerVars /\ UNCHANGED <<isServiceReady, life, up>>
    BY <1>2 DEF OnRemoveSystemAbility, ListenerVars
  <2>2. (UninitWaits => UninitWaits') /\ (a = INPUT => UninitWaits')
    BY <1>2, UninitRemove
  <2>3. a # INPUT => notices'[INPUT] = notices[INPUT]
    BY <1>2 DEF OnRemoveSystemAbility, CoreTypeOK
  <2> QED BY <1>2, <2>1, <2>2, <2>3, LidsStay
<1> QED BY <1>1, <1>2

(* StartListeners, when no lid listener is listed, ends the task of init.  *)
LEMMA LidsInitReady ==
  CoreTypeOK /\ CoreInv /\ LidsInv /\ InitReadyState => LidsInv'
<1> SUFFICES ASSUME CoreTypeOK, CoreInv, LidsInv, InitReadyState PROVE LidsInv'
  OBVIOUS
<1> USE Abilities
<1>1. /\ UNCHANGED <<life, up, dependsReady>> /\ notices'[INPUT] = notices[INPUT]
      /\ (UninitWaits' <=> UninitWaits) /\ life[INPUT] \in Nat
  BY InitTold, UninitInit DEF InitReadyState, CoreTypeOK
<1>2. StartListeners /\ ~isServiceReady /\ isServiceReady' = TRUE
  BY DEF InitReadyState, CoreInv, InitUnderWay
<1>11. /\ listeners' = Append(listeners, LidListener)
      /\ lidListeners' = (IF INPUT \in up THEN lidListeners + 1 ELSE lidListeners)
      /\ bgListening' \in BOOLEAN
  BY <1>2 DEF StartListeners
<1>12. /\ listeners \in Seq(Listener) /\ ~Listed("lid") /\ OneLid(listeners)
  BY <1>2 DEF LidsInv, ListenersTypeOK, LidsListed
<1>13. ~ListedIn(listeners, "lid")
  BY <1>12, ListedHas
<1>14. LidListener \in Listener /\ LidListener.kind = "lid"
      /\ LidListener.at = IF INPUT \in up THEN life[INPUT] ELSE 0
  BY <1>1 DEF LidListener, Listener
<1> DEFINE new == LidListener
<1> HIDE DEF new
<1>15. \A l \in Listener : Has(Append(listeners, new), l) <=> Has(listeners, l) \/ new = l
  BY <1>12, <1>14, AppendHas DEF new
<1>16. OneLid(listeners')
  BY <1>11, <1>12, <1>13, <1>14, AppendOneLid
<1>17. Has(listeners', new) /\ new \in Listener
  BY <1>11, <1>14, <1>15 DEF new
<1>18. listeners' \in Seq(Listener)
  BY <1>11, <1>12, <1>14
<1>19. Listed("lid")'
  <2>1. ListedIn(listeners', "lid")
    BY <1>14, <1>17 DEF ListedIn, new
  <2>2. \E i \in DOMAIN listeners' : listeners'[i].kind = "lid"
    BY <2>1 DEF ListedIn, Has
  <2> QED BY <2>2 DEF Listed
<1>20. ~LidAlive
  BY <1>13 DEF LidAlive, ListedIn
<1>21. LidAlive' <=> INPUT \in up
  <2>1. LidAlive' => Alive(new)
    <3>1. ASSUME NEW l \in Listener, Has(listeners', l), l.kind = "lid", Alive(l)' PROVE Alive(new)
      <4>1. Alive(l)
        BY <1>1, <3>1 DEF Alive
      <4>2. Has(listeners, l) \/ new = l
        BY <1>11, <1>15, <3>1 DEF new
      <4>3. ~Has(listeners, l)
        BY <1>20, <3>1, <4>1 DEF LidAlive
      <4> QED BY <4>1, <4>2, <4>3
    <3> QED BY <3>1 DEF LidAlive
  <2>2. Alive(new) => LidAlive'
    BY <1>1, <1>14, <1>17 DEF LidAlive, Alive, new
  <2>3. Alive(new) <=> INPUT \in up
    BY <1>14 DEF Alive, new
  <2> QED BY <2>1, <2>2, <2>3
<1>22. lidListeners = 0
  BY <1>20 DEF LidsInv, LidsListed
<1>23. \A l \in Listener : Has(listeners', l) =>
         IF l.kind = "lid" THEN l.at <= life'[INPUT] ELSE l = BgListener'
  <2>1. \A l \in Listener : Has(listeners, l) => l = BgListener
    BY <1>13 DEF LidsInv, LidsListed, ListedIn
  <2>2. BgListener' = BgListener /\ new.kind = "lid" /\ new.at <= life[INPUT]
    BY <1>1, <1>14 DEF BgListener, new
  <2>3. ASSUME NEW l \in Listener, Has(listeners', l)
        PROVE  IF l.kind = "lid" THEN l.at <= life'[INPUT] ELSE l = BgListener'
    <3>1. Has(listeners, l) \/ l = new
      BY <2>3, <1>11, <1>15 DEF new
    <3>2. Has(listeners, l) => l.kind # "lid"
      BY <1>13 DEF ListedIn
    <3> QED BY <1>1, <2>1, <2>2, <3>1, <3>2
  <2> QED BY <2>3
<1>24. ~UninitWaits /\ notices[INPUT] = << >> => INPUT \in up
  <2> SUFFICES ASSUME ~UninitWaits, notices[INPUT] = << >> PROVE INPUT \in up
    OBVIOUS
  <2>1. high \in Seq({"init", "uninit"}) /\ high # << >>
    BY DEF InitReadyState, CoreTypeOK
  <2>2. Has(high, End(high)) /\ End(high) \in {"init", "uninit"}
    BY <2>1, Ends
  <2>3. End(high) = "init"
    BY <2>2 DEF UninitWaits
  <2>4. INPUT \in dependsReady
    BY <2>1, <2>3 DEF CoreInv, TasksFollowDepends
  <2> QED BY <2>4 DEF CoreInv, NoticesInTurn, NoticesTell
<1>25. ListenersTypeOK'
  BY <1>11, <1>18, <1>22 DEF ListenersTypeOK
<1>26. LidsListed'
  BY <1>1, <1>2, <1>11, <1>16, <1>19, <1>21, <1>22, <1>23, <1>24 DEF LidsListed
<1> QED BY <1>25, <1>26 DEF LidsInv

(* UnInit stops every listener.                                            *)
LEMMA LidsUninitReady ==
  CoreTypeOK /\ LidsInv /\ UninitReadyState => LidsInv'
<1> SUFFICES ASSUME CoreTypeOK, LidsInv, UninitReadyState PROVE LidsInv'
  OBVIOUS
<1>1. UNCHANGED <<life, up, notices>> /\ isServiceReady' = FALSE
  BY DEF UninitReadyState, CoreTypeOK
<1>2. CASE UNCHANGED ListenerVars /\ isServiceReady = FALSE
  BY <1>1, <1>2, LidsStay
<1>3. CASE StopListeners
  <2>1. listeners' = << >> /\ lidListeners' = 0 /\ bgListening' \in BOOLEAN
    <3>1. listeners' = << >> /\ bgListening' \in BOOLEAN
          /\ lidListeners' = lidListeners - Cardinality({i \in DOMAIN listeners :
                               listeners[i].kind = "lid" /\ Alive(listeners[i])})
      BY <1>3 DEF StopListeners
    <3> QED BY <3>1, LidsStopped
  <2>2. \A l \in Listener : ~Has(listeners', l)
    BY <2>1 DEF Has
  <2>3. OneLid(listeners') /\ ~Listed("lid")'
    BY <2>1 DEF OneLid, Listed
  <2>4. ~LidAlive'
    BY <2>2 DEF LidAlive
  <2>5. ListenersTypeOK'
    <3>1. listeners' \in Seq(Listener)
      BY <2>1
    <3> QED BY <2>1, <3>1 DEF ListenersTypeOK
  <2> QED BY <1>1, <2>1, <2>2, <2>3, <2>4, <2>5 DEF LidsInv, LidsListed
<1> QED BY <1>2, <1>3 DEF UninitReadyState, handles, ListenerVars, CoreTypeOK

(* The listener of the background task manager comes and goes, and the lid *)
(* listener stays.                                                         *)
LEMMA LidsSame ==
  /\ LidsInv /\ life' = life /\ up' = up /\ UNCHANGED <<isServiceReady, high, notices, lidListeners>>
  /\ bgListening' \in BOOLEAN /\ listeners' \in Seq(Listener) /\ OneLid(listeners')
  /\ \A l \in Listener : l # BgListener => (Has(listeners', l) <=> Has(listeners, l))
  => LidsInv'
<1> SUFFICES ASSUME LidsInv, life' = life, up' = up,
                    UNCHANGED <<isServiceReady, high, notices, lidListeners>>,
                    bgListening' \in BOOLEAN, listeners' \in Seq(Listener), OneLid(listeners'),
                    \A l \in Listener : l # BgListener => (Has(listeners', l) <=> Has(listeners, l))
             PROVE  LidsInv'
  OBVIOUS
<1>1. BgListener.kind # "lid" /\ BgListener' = BgListener
  BY DEF BgListener
<1>2. \A l \in Listener : l.kind = "lid" => (Has(listeners', l) <=> Has(listeners, l))
  BY <1>1
<1>3. LidAlive' <=> LidAlive
  BY <1>2 DEF LidAlive, Alive
<1>4. ListenersTypeOK'
  BY DEF LidsInv, ListenersTypeOK
<1>5. Listed("lid")' <=> Listed("lid")
  <2>1. ListedIn(listeners', "lid") <=> ListedIn(listeners, "lid")
    BY <1>2 DEF ListedIn
  <2>2. Listed("lid") <=> ListedIn(listeners, "lid")
    BY ListedHas DEF LidsInv, ListenersTypeOK
  <2>3. Listed("lid")' <=> ListedIn(listeners', "lid")
    <3>1. \A i \in DOMAIN listeners' : listeners'[i] \in Listener
      OBVIOUS
    <3> QED BY <3>1 DEF Listed, ListedIn, Has
  <2> QED BY <2>1, <2>2, <2>3
<1>6. \A l \in Listener : Has(listeners', l) =>
        IF l.kind = "lid" THEN l.at <= life'[INPUT] ELSE l = BgListener'
  BY <1>1, <1>2 DEF LidsInv, LidsListed
<1> QED BY <1>3, <1>4, <1>5, <1>6 DEF LidsInv, LidsListed, UninitWaits

(* A task of the handler lists or removes the listener of the background   *)
(* tasks.                                                                  *)
LEMMA LidsRun ==
  CoreTypeOK /\ LidsInv /\ RunTask => LidsInv'
<1> SUFFICES ASSUME CoreTypeOK, LidsInv, RunTask PROVE LidsInv'
  OBVIOUS
<1>1. UNCHANGED <<life, up, isServiceReady, high, notices>>
  BY DEF RunTask
<1>2. listeners \in Seq(Listener) /\ OneLid(listeners) /\ lidListeners' = lidListeners /\ bgListening \in BOOLEAN
  BY DEF LidsInv, ListenersTypeOK, LidsListed, RunTask, AddSystemServiceListener,
         RemoveSystemServiceListener
<1>3. BgListener \in Listener /\ BgListener.kind # "lid"
  BY DEF BgListener, Listener
<1>4. CASE UNCHANGED <<listeners, bgListening>>
  BY <1>1, <1>2, <1>4, LidsSame
<1>5. CASE listeners' = Append(listeners, BgListener) /\ bgListening' \in BOOLEAN
  <2>1. OneLid(Append(listeners, BgListener))
    BY <1>2, <1>3, AppendOneLid
  <2>2. \A l \in Listener : Has(Append(listeners, BgListener), l) <=> Has(listeners, l) \/ BgListener = l
    BY <1>2, <1>3, AppendHas
  <2>3. Append(listeners, BgListener) \in Seq(Listener)
    BY <1>2, <1>3
  <2> QED BY <1>1, <1>2, <1>5, <2>1, <2>2, <2>3, LidsSame
<1>6. CASE listeners' = Without(listeners, BgListener) /\ bgListening' = bgListening
  <2>1. OneLid(Without(listeners, BgListener))
    BY <1>2, WithoutOneLid
  <2>2. \A l \in Listener : Has(Without(listeners, BgListener), l) <=> l # BgListener /\ Has(listeners, l)
    BY <1>2, WithoutHas
  <2>3. Without(listeners, BgListener) \in Seq(Listener)
    BY <1>2, WithoutDoes
  <2> QED BY <1>1, <1>2, <1>6, <2>1, <2>2, <2>3, LidsSame
<1>7. \/ AddSystemServiceListener
      \/ RemoveSystemServiceListener
      \/ UNCHANGED <<listeners, bgListening>>
  BY DEF RunTask
<1> QED BY <1>2, <1>4, <1>5, <1>6, <1>7 DEF AddSystemServiceListener, RemoveSystemServiceListener

(* Every step keeps the invariant of the lid listener.                     *)
LEMMA LidsNext ==
  CoreTypeOK /\ CoreInv /\ LidsInv /\ [Next]_vars => LidsInv'
<1> SUFFICES ASSUME CoreTypeOK, CoreInv, LidsInv, [Next]_vars PROVE LidsInv'
  OBVIOUS
<1>1. ASSUME TimerExpires \/ TimeChanges \/ UNCHANGED vars \/ PostScreen
             \/ \E s \in Screen : ScreenTurns(s)
      PROVE  LidsInv'
  <2>1. UNCHANGED ListenerVars /\ UNCHANGED <<life, up, isServiceReady, high, notices>>
    BY <1>1 DEF TimerExpires, TimeChanges, ScreenTurns, PostScreen, vars, handles, ListenerVars
  <2>2. UninitWaits' <=> UninitWaits
    BY <2>1 DEF UninitWaits
  <2> QED BY <2>1, <2>2, LidsStay
<1>2. CASE InitReturns \/ InitStateManager
  <2>1. UNCHANGED ListenerVars /\ UNCHANGED <<life, up, isServiceReady>>
    BY <1>2 DEF InitReturns, InitStateManager, ListenerVars
  <2>2. UninitWaits' <=> UninitWaits
    BY <1>2, UninitInit
  <2>3. notices'[INPUT] = notices[INPUT]
    BY <1>2, InitTold, Abilities
  <2> QED BY <2>1, <2>2, <2>3, LidsStay
<1> QED BY <1>1, <1>2, LidsStarts, LidsDies, LidsTold, LidsInitReady, LidsUninitReady, LidsRun DEF Next

-----------------------------------------------------------------------------
(* What is in the queue after a step.                                      *)

(* A task is posted behind the others.                                     *)
LEMMA PostedHas ==
  ASSUME NEW t \in Task, NEW x, NEW xs
  PROVE  queue \in Seq(Task) /\ Posted(t) =>
           /\ Has(queue, x) => Has(queue', x)
           /\ Has(queue', x) => Has(queue, x) \/ x = t
           /\ EndsIn(queue, x, xs) /\ t \notin xs => EndsIn(queue', x, xs)
<1> SUFFICES ASSUME queue \in Seq(Task), Posted(t)
             PROVE  /\ Has(queue, x) => Has(queue', x)
                    /\ Has(queue', x) => Has(queue, x) \/ x = t
                    /\ EndsIn(queue, x, xs) /\ t \notin xs => EndsIn(queue', x, xs)
  OBVIOUS
<1>1. Has(Append(queue, t), x) <=> Has(queue, x) \/ t = x
  BY AppendHas
<1>2. t \notin xs /\ EndsIn(queue, x, xs) => EndsIn(Append(queue, t), x, xs)
  BY AppendEndsIn
<1> QED BY <1>1, <1>2 DEF Posted

(* A task runs, and check_screen is posted or taken back.                  *)
LEMMA RanHas ==
  ASSUME NEW x, x # "check_screen", NEW xs
  PROVE  queue \in Seq(Task) /\ RunTask =>
           /\ Has(queue', x) <=> Has(Tail(queue), x)
           /\ Has(queue, x) <=> Head(queue) = x \/ Has(Tail(queue), x)
           /\ "check_screen" \notin xs /\ EndsIn(Tail(queue), x, xs) => EndsIn(queue', x, xs)
<1> SUFFICES ASSUME queue \in Seq(Task), RunTask
             PROVE  /\ Has(queue', x) <=> Has(Tail(queue), x)
                    /\ Has(queue, x) <=> Head(queue) = x \/ Has(Tail(queue), x)
                    /\ "check_screen" \notin xs /\ EndsIn(Tail(queue), x, xs) =>
                         EndsIn(queue', x, xs)
  OBVIOUS
<1>1. queue # << >> /\ queue' = Requeued(manager, manager') /\ "check_screen" \in Task
  BY DEF RunTask, Task
<1> DEFINE rest == Tail(queue)
<1>2. rest \in Seq(Task)
  BY <1>1
<1>3. \/ queue' = rest
      \/ queue' = Append(rest, "check_screen")
      \/ queue' = Without(rest, "check_screen")
  BY <1>1 DEF Requeued
<1>4. Has(queue, x) <=> Head(queue) = x \/ Has(rest, x)
  BY <1>1, TailHas
<1> HIDE DEF rest
<1>5. Has(Append(rest, "check_screen"), x) <=> Has(rest, x) \/ "check_screen" = x
  BY <1>1, <1>2, AppendHas
<1>6. Has(Without(rest, "check_screen"), x) <=> x # "check_screen" /\ Has(rest, x)
  BY <1>2, WithoutHas
<1>7. "check_screen" \notin xs /\ EndsIn(rest, x, xs) => EndsIn(Append(rest, "check_screen"), x, xs)
  BY <1>1, <1>2, AppendEndsIn
<1>8. EndsIn(rest, x, xs) => EndsIn(Without(rest, "check_screen"), x, xs)
  BY <1>2, WithoutEndsIn
<1>9. Has(queue', x) <=> Has(rest, x)
  BY <1>3, <1>5, <1>6
<1>10. "check_screen" \notin xs /\ EndsIn(rest, x, xs) => EndsIn(queue', x, xs)
  BY <1>3, <1>7, <1>8
<1> QED BY <1>4, <1>9, <1>10 DEF rest

(* The steps that leave the managers, the listeners and what samgr tells   *)
(* alone post one task, or none.                                           *)
LEMMA OthersPost ==
  TimerExpires \/ TimeChanges \/ UNCHANGED vars =>
    /\ Posted("day_night") \/ Posted("reset_timer")
    /\ UNCHANGED <<life, up, watched, notices, isServiceReady, high, listeners, lidListeners,
                   bgListening, manager>>
  BY DEF TimerExpires, TimeChanges, vars, handles, Posted

-----------------------------------------------------------------------------
(* The background task manager.                                            *)

(* What a ready service knows once samgr has told it all.                  *)
BgHeardSoon ==
  \/ EndsIn(queue, "bgtask_added", {"bgtask_removed"})
  \/ (~Pending("bgtask_removed") /\ bgListening /\ Listed("bgtask"))
BgWatched == <<up, watched, notices, isServiceReady>>

(* What a step must keep of it when samgr tells nothing.                   *)
LEMMA BgStays ==
  BgTasksComing /\ UNCHANGED BgWatched /\ (BGTASK \in up /\ isServiceReady /\ BgHeardSoon => BgHeardSoon')
    => BgTasksComing'
  BY DEF BgTasksComing, BgHeardSoon, BgWatched

(* The service is told when it watches, and it watches when it is ready.   *)
LEMMA BgStarts ==
  ASSUME NEW a \in Ability
  PROVE  CoreTypeOK /\ BgTasksComing /\ AbilityStarts(a) => BgTasksComing'
<1> SUFFICES ASSUME CoreTypeOK, BgTasksComing, AbilityStarts(a) PROVE BgTasksComing'
  OBVIOUS
<1>1. UNCHANGED <<watched, isServiceReady, queue, listeners, bgListening>> /\ up' = up \cup {a}
  BY DEF AbilityStarts, handles
<1>2. CASE a # BGTASK
  <2>1. notices'[BGTASK] = notices[BGTASK] /\ (BGTASK \in up' <=> BGTASK \in up)
    BY <1>1, <1>2, Abilities DEF AbilityStarts, CoreTypeOK
  <2> QED BY <1>1, <2>1 DEF BgTasksComing, Pending, Listed
<1>3. CASE a = BGTASK
  <2>1. isServiceReady => watched
    BY DEF BgTasksComing
  <2>2. ASSUME isServiceReady PROVE notices'[BGTASK] # << >> /\ End(notices'[BGTASK]) = "added"
    <3>1. notices'[BGTASK] = Append(notices[BGTASK], "added")
      BY <1>3, <2>1, <2>2 DEF AbilityStarts, Told, CoreTypeOK
    <3>2. notices[BGTASK] \in Seq(Notice) /\ "added" \in Notice
      BY Abilities DEF CoreTypeOK, Notice
    <3>3. End(Append(notices[BGTASK], "added")) = "added" /\ Append(notices[BGTASK], "added") # << >>
      BY <3>2, Ends
    <3> QED BY <3>1, <3>3
  <2> QED BY <1>1, <2>1, <2>2 DEF BgTasksComing
<1> QED BY <1>2, <1>3

(* The death of another ability leaves the subscription alone.             *)
LEMMA BgDies ==
  ASSUME NEW a \in Ability
  PROVE  CoreTypeOK /\ BgTasksComing /\ AbilityDies(a) => BgTasksComing'
<1> SUFFICES ASSUME CoreTypeOK, BgTasksComing, AbilityDies(a) PROVE BgTasksComing'
  OBVIOUS
<1>1. /\ UNCHANGED <<watched, isServiceReady, queue, listeners>> /\ up' = up \ {a}
      /\ bgListening' = (bgListening /\ a # BGTASK)
  BY DEF AbilityDies
<1>2. CASE a # BGTASK
  <2>1. notices'[BGTASK] = notices[BGTASK] /\ (BGTASK \in up' <=> BGTASK \in up)
    BY <1>1, <1>2, Abilities DEF AbilityDies, CoreTypeOK
  <2>2. bgListening => bgListening'
    BY <1>1, <1>2
  <2> QED BY <1>1, <2>1, <2>2 DEF BgTasksComing, Pending, Listed
<1>3. CASE a = BGTASK
  <2>1. BGTASK \notin up'
    BY <1>1, <1>3
  <2> QED BY <1>1, <2>1 DEF BgTasksComing
<1> QED BY <1>2, <1>3

(* samgr's last word was that it was added, and a task will say so.        *)
LEMMA BgTold ==
  ASSUME NEW a \in Ability
  PROVE  CoreTypeOK /\ BgTasksComing /\ queue \in Seq(Task)
         /\ (OnAddSystemAbility(a) \/ OnRemoveSystemAbility(a)) => BgTasksComing'
<1> SUFFICES ASSUME CoreTypeOK, BgTasksComing, queue \in Seq(Task),
                    OnAddSystemAbility(a) \/ OnRemoveSystemAbility(a)
             PROVE  BgTasksComing'
  OBVIOUS
<1>1. /\ UNCHANGED <<up, watched, isServiceReady, listeners, bgListening>>
      /\ notices' = [notices EXCEPT ![a] = Tail(@)] /\ notices[a] # << >>
  BY DEF OnAddSystemAbility, OnRemoveSystemAbility
<1>2. CASE a # BGTASK
  <2>1. queue' = queue
    BY <1>2, Abilities DEF OnAddSystemAbility, OnRemoveSystemAbility
  <2>2. notices'[BGTASK] = notices[BGTASK]
    BY <1>1, <1>2, Abilities DEF CoreTypeOK
  <2> QED BY <1>1, <2>1, <2>2 DEF BgTasksComing, Pending, Listed
<1>3. CASE a = BGTASK
  <2> DEFINE s == notices[BGTASK]
  <2>1. s \in Seq(Notice) /\ s # << >> /\ notices'[BGTASK] = Tail(s)
    BY <1>1, <1>3, Abilities DEF CoreTypeOK
  <2> HIDE DEF s
  <2>2. /\ Tail(s) # << >> => End(Tail(s)) = End(s)
        /\ Tail(s) = << >> => End(s) = Head(s)
    BY <2>1, Ends
  <2>3. SUFFICES ASSUME isServiceReady, BGTASK \in up, Tail(s) = << >>
                 PROVE  EndsIn(queue', "bgtask_added", {"bgtask_removed"})
    BY <1>1, <2>1, <2>2 DEF BgTasksComing, s
  <2>4. Head(s) = "added"
    BY <2>1, <2>2, <2>3 DEF BgTasksComing, s
  <2>5. queue' = Append(queue, "bgtask_added")
    BY <1>3, <2>3, <2>4, Abilities DEF OnAddSystemAbility, OnRemoveSystemAbility, Dispatch, s
  <2>6. "bgtask_added" \in Task
    BY DEF Task
  <2>7. EndsIn(Append(queue, "bgtask_added"), "bgtask_added", {"bgtask_removed"})
    BY <2>6, AppendEndsIn
  <2> QED BY <2>5, <2>7
<1> QED BY <1>2, <1>3

(* A service that becomes ready asks samgr, which tells it at once.        *)
LEMMA BgReady ==
  CoreTypeOK /\ CoreInv /\ BgTasksComing
  /\ (InitReturns \/ InitStateManager \/ InitReadyState \/ UninitReadyState) => BgTasksComing'
<1> SUFFICES ASSUME CoreTypeOK, CoreInv, BgTasksComing,
                    InitReturns \/ InitStateManager \/ InitReadyState \/ UninitReadyState
             PROVE  BgTasksComing'
  OBVIOUS
<1>1. CASE UNCHANGED <<up, watched, notices, isServiceReady, queue, listeners, bgListening>>
  BY <1>1 DEF BgTasksComing, Pending, Listed
<1>2. CASE WatchPlugins /\ up' = up
  <2>1. watched' = TRUE
    BY <1>2 DEF WatchPlugins
  <2>2. ASSUME BGTASK \in up' PROVE notices'[BGTASK] # << >> /\ End(notices'[BGTASK]) = "added"
    <3>1. notices'[BGTASK] = Append(notices[BGTASK], "added")
      BY <1>2, <2>2, Abilities DEF WatchPlugins, CoreTypeOK
    <3>2. notices[BGTASK] \in Seq(Notice) /\ "added" \in Notice
      BY Abilities DEF CoreTypeOK, Notice
    <3>3. End(Append(notices[BGTASK], "added")) = "added" /\ Append(notices[BGTASK], "added") # << >>
      BY <3>2, Ends
    <3> QED BY <3>1, <3>3
  <2> QED BY <2>1, <2>2 DEF BgTasksComing
<1>3. CASE isServiceReady' = FALSE
  BY <1>3 DEF BgTasksComing
<1>4. CASE InitStateManager
  BY <1>3, <1>4 DEF InitStateManager, CoreTypeOK
<1>5. CASE InitReturns
  BY <1>1, <1>5 DEF InitReturns
<1>6. CASE InitReadyState
  BY <1>2, <1>6 DEF InitReadyState
<1>7. CASE UninitReadyState
  BY <1>3, <1>7 DEF UninitReadyState, CoreTypeOK
<1> QED BY <1>4, <1>5, <1>6, <1>7

(* The last task that concerns it makes the service listen.                *)
LEMMA BgRuns ==
  BgTasksComing /\ ListenersTypeOK /\ queue \in Seq(Task) /\ RunTask => BgTasksComing'
<1> SUFFICES ASSUME BgTasksComing, ListenersTypeOK, queue \in Seq(Task), RunTask
             PROVE  BgTasksComing'
  OBVIOUS
<1>1. UNCHANGED BgWatched /\ queue # << >>
  BY DEF RunTask, BgWatched
<1> DEFINE xs == {"bgtask_removed"}
<1>2. /\ Has(queue', "bgtask_removed") <=> Has(Tail(queue), "bgtask_removed")
      /\ Has(queue, "bgtask_removed") <=>
           Head(queue) = "bgtask_removed" \/ Has(Tail(queue), "bgtask_removed")
  BY RanHas
<1>3. EndsIn(Tail(queue), "bgtask_added", xs) => EndsIn(queue', "bgtask_added", xs)
  BY RanHas
<1>4. SUFFICES ASSUME BGTASK \in up, BgHeardSoon PROVE BgHeardSoon'
  BY <1>1, BgStays
<1>5. CASE EndsIn(Tail(queue), "bgtask_added", xs)
  BY <1>3, <1>5 DEF BgHeardSoon
<1>6. CASE Head(queue) = "bgtask_added" /\ ~Has(Tail(queue), "bgtask_removed")
  <2>1. listeners' = Append(listeners, BgListener) /\ bgListening' = TRUE
    BY <1>4, <1>6 DEF RunTask, AddSystemServiceListener
  <2>2. listeners \in Seq(Listener) /\ BgListener \in Listener /\ BgListener.kind = "bgtask"
    BY DEF ListenersTypeOK, BgListener, Listener
  <2>3. Has(Append(listeners, BgListener), BgListener)
    BY <2>2, AppendHas
  <2>4. Listed("bgtask")'
    BY <2>1, <2>2, <2>3 DEF Has, Listed
  <2>5. ~Pending("bgtask_removed")'
    BY <1>2, <1>6 DEF Has, Pending
  <2> QED BY <2>1, <2>4, <2>5 DEF BgHeardSoon
<1>7. CASE ~Pending("bgtask_removed") /\ bgListening /\ Listed("bgtask")
  <2>1. ~Has(Tail(queue), "bgtask_removed") /\ Head(queue) # "bgtask_removed"
    BY <1>2, <1>7 DEF Has, Pending
  <2>2. CASE Head(queue) = "bgtask_added"
    BY <1>6, <2>1, <2>2
  <2>3. CASE Head(queue) # "bgtask_added"
    <3>1. UNCHANGED <<listeners, bgListening>>
      BY <2>1, <2>3 DEF RunTask
    <3>2. ~Pending("bgtask_removed")'
      BY <1>2, <2>1 DEF Has, Pending
    <3> QED BY <1>7, <3>1, <3>2 DEF BgHeardSoon, Listed
  <2> QED BY <2>2, <2>3
<1>8. EndsIn(queue, "bgtask_added", xs) =>
        \/ EndsIn(Tail(queue), "bgtask_added", xs)
        \/ Head(queue) = "bgtask_added" /\ \A y \in xs : ~Has(Tail(queue), y)
  <2> HIDE DEF xs
  <2> QED BY <1>1, TailEndsIn
<1> QED BY <1>4, <1>5, <1>6, <1>7, <1>8 DEF BgHeardSoon

(* Every step keeps what a ready service will hear of background tasks.    *)
LEMMA BgNext ==
  CoreTypeOK /\ CoreInv /\ BgTasksComing /\ ListenersTypeOK /\ queue \in Seq(Task) /\ [Next]_vars =>
    BgTasksComing'
<1> SUFFICES ASSUME CoreTypeOK, CoreInv, BgTasksComing, ListenersTypeOK, queue \in Seq(Task),
                    [Next]_vars
             PROVE  BgTasksComing'
  OBVIOUS
<1>1. ASSUME NEW t \in Task, t # "bgtask_removed", Posted(t),
             UNCHANGED <<up, watched, notices, isServiceReady, listeners, bgListening>>
      PROVE  BgTasksComing'
  <2>1. Has(queue', "bgtask_removed") => Has(queue, "bgtask_removed")
    BY <1>1, PostedHas
  <2>2. EndsIn(queue, "bgtask_added", {"bgtask_removed"}) =>
          EndsIn(queue', "bgtask_added", {"bgtask_removed"})
    BY <1>1, PostedHas
  <2>3. BgHeardSoon => BgHeardSoon'
    BY <1>1, <2>1, <2>2 DEF BgHeardSoon, Has, Pending, Listed
  <2> QED BY <1>1, <2>3, BgStays DEF BgWatched
<1>2. CASE TimerExpires \/ TimeChanges \/ UNCHANGED vars
  BY <1>1, <1>2, OthersPost DEF Task
<1>3. ASSUME PostScreen \/ \E s \in Screen : ScreenTurns(s) PROVE BgTasksComing'
  <2>1. Posted("screen_on") \/ Posted("screen_off")
    BY <1>3 DEF ScreenTurns, PostScreen, Posted
  <2>2. UNCHANGED <<up, watched, notices, isServiceReady, listeners, bgListening>>
    BY <1>3 DEF ScreenTurns, PostScreen, handles
  <2> QED BY <1>1, <2>1, <2>2 DEF Task
<1> QED BY <1>2, <1>3, BgStarts, BgDies, BgTold, BgReady, BgRuns DEF Next

-----------------------------------------------------------------------------
(* The screen and the managers.                                            *)

ManagerInv == manager \in ManagerType /\ ScreenBelieved /\ ScreenChecked

(* A task changes what the managers believe and do, not what is true.      *)
SameScreen(m, n) ==
  /\ n.actual = m.actual /\ n.dispatching = m.dispatching
  /\ n.inited = m.inited /\ n.stray = m.stray /\ n.missed = m.missed

(* A field of the managers, whatever the operator does with the others.    *)
LEMMA GoDarkDoes ==
  ASSUME NEW m \in ManagerType
  PROVE  /\ GoDark(m) \in ManagerType
         /\ GoDark(m).screen = m.screen /\ SameScreen(m, GoDark(m))
         /\ m.evaluating => GoDark(m).evaluating /\ GoDark(m).state = m.state
         /\ ~m.evaluating /\ m.inited => GoDark(m).state = "STANDBY"
         /\ ~m.evaluating /\ ~m.inited => GoDark(m).state = m.state
<1>1. CASE m.evaluating
  <2> DEFINE n == [m EXCEPT !.isEvalution = TRUE]
  <2>1. GoDark(m) = n
    BY <1>1 DEF GoDark
  <2>2. n \in ManagerType
    BY DEF ManagerType
  <2>3. n.screen = m.screen /\ n.actual = m.actual /\ n.state = m.state
    BY DEF ManagerType
  <2>4. n.inited = m.inited /\ n.stray = m.stray /\ n.evaluating = m.evaluating
    BY DEF ManagerType
  <2>5. n.dispatching = m.dispatching /\ n.missed = m.missed
    BY DEF ManagerType
  <2> QED BY <1>1, <2>1, <2>2, <2>3, <2>4, <2>5 DEF SameScreen
<1>2. CASE ~m.evaluating /\ m.inited
  <2> DEFINE n == [m EXCEPT !.state = "STANDBY", !.isEvalution = FALSE]
  <2>1. GoDark(m) = n
    BY <1>2 DEF GoDark
  <2>2. n \in ManagerType
    BY DEF ManagerType
  <2>3. n.screen = m.screen /\ n.actual = m.actual /\ n.state = "STANDBY"
    BY DEF ManagerType
  <2>4. n.inited = m.inited /\ n.stray = m.stray
    BY DEF ManagerType
  <2>5. n.dispatching = m.dispatching /\ n.missed = m.missed
    BY DEF ManagerType
  <2> QED BY <1>2, <2>1, <2>2, <2>3, <2>4, <2>5 DEF SameScreen
<1>3. CASE ~m.evaluating /\ ~m.inited
  <2> DEFINE n == [m EXCEPT !.isEvalution = TRUE, !.evaluating = TRUE]
  <2>1. GoDark(m) = n
    BY <1>3 DEF GoDark
  <2>2. n \in ManagerType
    BY DEF ManagerType
  <2>3. n.screen = m.screen /\ n.actual = m.actual /\ n.state = m.state
    BY DEF ManagerType
  <2>4. n.inited = m.inited /\ n.stray = m.stray
    BY DEF ManagerType
  <2>5. n.dispatching = m.dispatching /\ n.missed = m.missed
    BY DEF ManagerType
  <2> QED BY <1>3, <2>1, <2>2, <2>3, <2>4, <2>5 DEF SameScreen
<1> QED BY <1>1, <1>2, <1>3

(* What a check of the screen does.                                        *)
Checked(m, n) ==
  /\ n \in ManagerType
  /\ n.screen = m.screen /\ SameScreen(m, n)
  /\ ~(Working(m) /\ m.screen = "off") => n = m
  /\ ~m.inited => n.state = m.state
  /\ m.inited /\ Working(n) /\ n.screen = "off" => n.evaluating

(* checkScreenStatus goes dark only from working with the screen off.      *)
LEMMA CheckScreenDoes ==
  ASSUME NEW m \in ManagerType
  PROVE  Checked(m, CheckScreen(m))
<1>1. CASE Working(m) /\ m.screen = "off"
  <2> DEFINE n == GoDark(m)
  <2>1. CheckScreen(m) = n
    BY <1>1 DEF CheckScreen
  <2>2. /\ n \in ManagerType /\ n.screen = m.screen /\ SameScreen(m, n)
        /\ m.evaluating => n.evaluating /\ n.state = m.state
        /\ ~m.evaluating /\ m.inited => n.state = "STANDBY"
        /\ ~m.evaluating /\ ~m.inited => n.state = m.state
    BY GoDarkDoes
  <2> HIDE DEF n
  <2>3. ~m.inited => n.state = m.state
    BY <2>2
  <2>4. m.inited /\ Working(n) => n.evaluating
    BY <2>2 DEF Working
  <2> QED BY <1>1, <2>1, <2>2, <2>3, <2>4 DEF Checked
<1>2. CASE ~(Working(m) /\ m.screen = "off")
  BY <1>2 DEF CheckScreen, Checked, SameScreen
<1> QED BY <1>1, <1>2

(* A screen that goes off leaves the device in standby, or an evaluation   *)
(* open.                                                                   *)
LEMMA ScreenOffDoes ==
  ASSUME NEW m \in ManagerType
  PROVE  /\ ScreenOff(m) \in ManagerType
         /\ ScreenOff(m).screen = "off" /\ SameScreen(m, ScreenOff(m))
         /\ ~m.inited => ScreenOff(m).state = m.state
         /\ m.inited /\ Working(ScreenOff(m)) => ScreenOff(m).evaluating
<1> DEFINE off == [m EXCEPT !.screen = "off"]
<1>1. off \in ManagerType /\ off.screen = "off" /\ off.actual = m.actual /\ off.state = m.state
  BY DEF ManagerType, Screen
<1>2. off.inited = m.inited /\ off.stray = m.stray
  BY DEF ManagerType
<1>5. off.dispatching = m.dispatching /\ off.missed = m.missed
  BY DEF ManagerType
<1>3. ScreenOff(m) = CheckScreen(off)
  BY DEF ScreenOff
<1> HIDE DEF off
<1>4. Checked(off, CheckScreen(off))
  BY <1>1, CheckScreenDoes
<1> QED BY <1>1, <1>2, <1>3, <1>4, <1>5 DEF Checked, SameScreen

(* A screen that goes on leaves the device working.                        *)
LEMMA ScreenOnDoes ==
  ASSUME NEW m \in ManagerType
  PROVE  /\ ScreenOn(m) \in ManagerType
         /\ ScreenOn(m).screen = "on" /\ SameScreen(m, ScreenOn(m))
         /\ Working(ScreenOn(m))
<1>1. CASE Working(m)
  <2> DEFINE n == [m EXCEPT !.screen = "on"]
  <2>1. ScreenOn(m) = n
    BY <1>1 DEF ScreenOn
  <2>2. n \in ManagerType /\ n.screen = "on" /\ n.actual = m.actual /\ n.state = m.state
    BY DEF ManagerType, Screen
  <2>3. n.inited = m.inited /\ n.stray = m.stray
    BY DEF ManagerType
  <2>4. n.dispatching = m.dispatching /\ n.missed = m.missed
    BY DEF ManagerType
  <2> QED BY <1>1, <2>1, <2>2, <2>3, <2>4 DEF Working, SameScreen
<1>2. CASE ~Working(m)
  <2> DEFINE b == m.evaluating /\ ~m.isEvalution
             n == [m EXCEPT !.screen = "on", !.state = "WORKING", !.isEvalution = FALSE,
                            !.evaluating = b]
  <2>1. ScreenOn(m) = n
    BY <1>2 DEF ScreenOn
  <2>2. b \in BOOLEAN
    OBVIOUS
  <2> HIDE DEF b
  <2>3. n \in ManagerType /\ n.screen = "on" /\ n.actual = m.actual /\ n.state = "WORKING"
    BY <2>2 DEF ManagerType, Screen
  <2>4. n.inited = m.inited /\ n.stray = m.stray
    BY DEF ManagerType
  <2>5. n.dispatching = m.dispatching /\ n.missed = m.missed
    BY DEF ManagerType
  <2> QED BY <2>1, <2>3, <2>4, <2>5 DEF Working, SameScreen
<1> QED BY <1>1, <1>2

(* What the manager is made of by the tasks.                               *)
LEMMA ManagerHandled ==
  manager \in ManagerType /\ queue \in Seq(Task) /\ RunTask =>
    /\ manager' \in ManagerType /\ SameScreen(manager, manager')
    /\ Head(queue) = "screen_on" => manager'.screen = "on"
    /\ Head(queue) = "screen_off" => manager'.screen = "off"
    /\ Head(queue) \notin ScreenEvent => manager'.screen = manager.screen
<1> SUFFICES ASSUME manager \in ManagerType, queue \in Seq(Task), RunTask
             PROVE  /\ manager' \in ManagerType /\ SameScreen(manager, manager')
                    /\ Head(queue) = "screen_on" => manager'.screen = "on"
                    /\ Head(queue) = "screen_off" => manager'.screen = "off"
                    /\ Head(queue) \notin ScreenEvent => manager'.screen = manager.screen
  OBVIOUS
<1>1. manager' = ManagerHandles(Head(queue))
  BY DEF RunTask
<1>2. CASE Head(queue) = "screen_on"
  <2>1. manager' = ScreenOn(manager)
    BY <1>1, <1>2 DEF ManagerHandles
  <2> QED BY <1>2, <2>1, ScreenOnDoes DEF ScreenEvent
<1>3. CASE Head(queue) = "screen_off"
  <2>1. manager' = ScreenOff(manager)
    BY <1>1, <1>3 DEF ManagerHandles
  <2> QED BY <1>3, <2>1, ScreenOffDoes DEF ScreenEvent
<1>4. CASE Head(queue) = "check_screen"
  <2>1. manager' = CheckScreen(manager)
    BY <1>1, <1>4 DEF ManagerHandles
  <2>2. Checked(manager, CheckScreen(manager))
    BY CheckScreenDoes
  <2> QED BY <1>4, <2>1, <2>2 DEF Checked, ScreenEvent
<1>5. CASE Head(queue) \notin {"screen_on", "screen_off", "check_screen"}
  <2>1. manager' = manager
    BY <1>1, <1>5 DEF ManagerHandles
  <2> QED BY <1>5, <2>1 DEF SameScreen
<1> QED BY <1>2, <1>3, <1>4, <1>5

(* The last message of the screen makes the belief true.                   *)
LEMMA BelievedRuns ==
  CoreInv /\ ManagerInv /\ queue \in Seq(Task) /\ RunTask => ScreenBelieved'
<1> SUFFICES ASSUME CoreInv, ManagerInv, queue \in Seq(Task), RunTask PROVE ScreenBelieved'
  OBVIOUS
<1>0. manager'.actual = manager.actual /\ manager'.stray = manager.stray
      /\ manager'.dispatching = manager.dispatching /\ manager'.missed = manager.missed
      /\ isServiceReady' = isServiceReady
  BY ManagerHandled DEF ManagerInv, RunTask, SameScreen
<1>9. ~Initializing /\ ~Initializing'
  BY DEF CoreInv, InitUnderWay, Initializing, RunTask
<1>10. CASE manager.dispatching # NoMessage
  BY <1>0, <1>9, <1>10 DEF ManagerInv, ScreenBelieved, Inited
<1> SUFFICES ASSUME isServiceReady, ~manager.stray, ~manager.missed,
                    manager.dispatching = NoMessage
             PROVE  \/ manager.actual = "on" /\ EndsIn(queue', "screen_on", ScreenEvent)
                    \/ manager.actual = "off" /\ EndsIn(queue', "screen_off", ScreenEvent)
                    \/ /\ ~Has(queue', "screen_on") /\ ~Has(queue', "screen_off")
                       /\ manager'.screen = manager.actual
  BY <1>0, <1>9, <1>10 DEF ScreenBelieved, ScreenSettles, Inited, Pending, Has
<1>1. queue # << >> /\ "check_screen" \notin ScreenEvent
  BY DEF RunTask, ScreenEvent
<1>2. /\ Head(queue) = "screen_on" => manager'.screen = "on"
      /\ Head(queue) = "screen_off" => manager'.screen = "off"
      /\ Head(queue) \notin ScreenEvent => manager'.screen = manager.screen
  BY ManagerHandled DEF ManagerInv
<1>3. /\ Has(queue', "screen_on") <=> Has(Tail(queue), "screen_on")
      /\ Has(queue, "screen_on") <=> Head(queue) = "screen_on" \/ Has(Tail(queue), "screen_on")
      /\ EndsIn(Tail(queue), "screen_on", ScreenEvent) => EndsIn(queue', "screen_on", ScreenEvent)
  BY <1>1, RanHas
<1>4. /\ Has(queue', "screen_off") <=> Has(Tail(queue), "screen_off")
      /\ Has(queue, "screen_off") <=> Head(queue) = "screen_off" \/ Has(Tail(queue), "screen_off")
      /\ EndsIn(Tail(queue), "screen_off", ScreenEvent) => EndsIn(queue', "screen_off", ScreenEvent)
  BY <1>1, RanHas
<1>5. ASSUME NEW x \in ScreenEvent, EndsIn(queue, x, ScreenEvent)
      PROVE  \/ EndsIn(Tail(queue), x, ScreenEvent)
             \/ Head(queue) = x /\ \A y \in ScreenEvent : ~Has(Tail(queue), y)
  BY <1>1, <1>5, TailEndsIn
<1>6. CASE manager.actual = "on" /\ EndsIn(queue, "screen_on", ScreenEvent)
  <2>1. CASE EndsIn(Tail(queue), "screen_on", ScreenEvent)
    BY <1>3, <1>6, <2>1
  <2>2. CASE Head(queue) = "screen_on" /\ \A y \in ScreenEvent : ~Has(Tail(queue), y)
    BY <1>2, <1>3, <1>4, <1>6, <2>2 DEF ScreenEvent
  <2> QED BY <1>5, <1>6, <2>1, <2>2 DEF ScreenEvent
<1>7. CASE manager.actual = "off" /\ EndsIn(queue, "screen_off", ScreenEvent)
  <2>1. CASE EndsIn(Tail(queue), "screen_off", ScreenEvent)
    BY <1>4, <1>7, <2>1
  <2>2. CASE Head(queue) = "screen_off" /\ \A y \in ScreenEvent : ~Has(Tail(queue), y)
    BY <1>2, <1>3, <1>4, <1>7, <2>2 DEF ScreenEvent
  <2> QED BY <1>5, <1>7, <2>1, <2>2 DEF ScreenEvent
<1>8. CASE ~Has(queue, "screen_on") /\ ~Has(queue, "screen_off") /\ manager.screen = manager.actual
  BY <1>2, <1>3, <1>4, <1>8 DEF ScreenEvent
<1>11. ScreenSettles
  BY DEF ManagerInv, ScreenBelieved, Inited
<1> QED BY <1>6, <1>7, <1>8, <1>11 DEF ScreenSettles, Pending, Has

(* A device that works with its screen off has just been checked, or the   *)
(* check still waits.                                                      *)
LEMMA CheckedRuns ==
  ManagerInv /\ queue \in Seq(Task) /\ RunTask => ScreenChecked'
<1> SUFFICES ASSUME ManagerInv, queue \in Seq(Task), RunTask PROVE ScreenChecked'
  OBVIOUS
<1>0. queue # << >> /\ (Inited' <=> Inited) /\ manager \in ManagerType
      /\ manager' = ManagerHandles(Head(queue)) /\ queue' = Requeued(manager, manager')
  BY DEF RunTask, ManagerInv, Inited, Initializing
<1>1. /\ manager.inited <=> Inited
      /\ ~Inited => Working(manager)
      /\ ~Working(manager) => manager.screen = "off"
      /\ Inited /\ Working(manager) /\ manager.screen = "off" /\ ~manager.evaluating =>
           Pending("check_screen")
  BY DEF ManagerInv, ScreenChecked
<1>2. manager'.inited = manager.inited
  BY <1>0, ManagerHandled DEF SameScreen
<1>3. CASE Head(queue) = "screen_on"
  <2>1. manager' = ScreenOn(manager)
    BY <1>0, <1>3 DEF ManagerHandles
  <2>2. manager'.screen = "on" /\ Working(manager')
    BY <1>0, <2>1, ScreenOnDoes
  <2> QED BY <1>0, <1>1, <1>2, <2>2 DEF ScreenChecked, Working
<1>4. CASE Head(queue) = "screen_off"
  <2>1. manager' = ScreenOff(manager)
    BY <1>0, <1>4 DEF ManagerHandles
  <2>2. /\ manager'.screen = "off"
        /\ ~manager.inited => manager'.state = manager.state
        /\ manager.inited /\ Working(manager') => manager'.evaluating
    BY <1>0, <2>1, ScreenOffDoes
  <2> QED BY <1>0, <1>1, <1>2, <2>2 DEF ScreenChecked, Working
<1>5. CASE Head(queue) = "check_screen"
  <2>1. manager' = CheckScreen(manager)
    BY <1>0, <1>5 DEF ManagerHandles
  <2>2. Checked(manager, manager')
    BY <1>0, <2>1, CheckScreenDoes
  <2>3. /\ manager'.screen = manager.screen
        /\ ~(Working(manager) /\ manager.screen = "off") => manager' = manager
        /\ ~manager.inited => manager'.state = manager.state
        /\ manager.inited /\ Working(manager') /\ manager'.screen = "off" => manager'.evaluating
    BY <2>2 DEF Checked
  <2>4. ~Working(manager') => manager'.screen = "off"
    BY <1>1, <2>3 DEF Working
  <2> QED BY <1>0, <1>1, <1>2, <2>3, <2>4 DEF ScreenChecked, Working
<1>6. CASE Head(queue) \notin {"screen_on", "screen_off", "check_screen"}
  <2>1. manager' = manager
    BY <1>0, <1>6 DEF ManagerHandles
  <2>2. queue' = Tail(queue)
    BY <1>0, <2>1 DEF Requeued
  <2>3. Has(queue, "check_screen") <=> Head(queue) = "check_screen" \/ Has(Tail(queue), "check_screen")
    BY <1>0, TailHas
  <2>4. Pending("check_screen") => Pending("check_screen")'
    BY <1>6, <2>2, <2>3 DEF Pending, Has
  <2> QED BY <1>0, <1>1, <2>1, <2>4 DEF ScreenChecked, Working
<1> QED BY <1>3, <1>4, <1>5, <1>6

(* InitReadyState leaves the belief alone, at whichever return it ends.    *)
LEMMA ManagerInitEnds ==
  CoreInv /\ ManagerInv /\ (InitReturns \/ InitReadyState) => ManagerInv'
<1> SUFFICES ASSUME CoreInv, ManagerInv, InitReturns \/ InitReadyState PROVE ManagerInv'
  OBVIOUS
<1>1. UNCHANGED <<queue, manager>> /\ ~Initializing'
  BY DEF InitReturns, InitReadyState, Initializing
<1>2. Inited' <=> Inited
  BY DEF InitReturns, InitReadyState, Inited, Initializing
<1> QED BY <1>1, <1>2 DEF ManagerInv, ScreenBelieved, ScreenSettles, ScreenChecked, Pending, Working

(* Init asks for the screen and posts the check.                           *)
LEMMA ManagerInitReady ==
  ManagerInv /\ queue \in Seq(Task) /\ InitStateManager => ManagerInv'
<1> SUFFICES ASSUME ManagerInv, queue \in Seq(Task), InitStateManager PROVE ManagerInv'
  OBVIOUS
<1> DEFINE m == InitManagers(manager, manager.actual)
           waits == ScreenOnTheWay
<1>1. /\ manager' = [m EXCEPT !.stray = waits, !.missed = FALSE]
      /\ queue' = Append(queue, "check_screen") /\ Inited' /\ Initializing'
  BY DEF InitStateManager, Inited, Initializing
<1>2. manager \in ManagerType /\ manager.actual \in Screen
  BY DEF ManagerInv, ManagerType
<1>3. m \in ManagerType /\ m.state = "WORKING" /\ m.screen = manager.actual
      /\ m.actual = manager.actual
  BY <1>2 DEF InitManagers, ManagerType
<1>4. m.inited = TRUE /\ m.dispatching = manager.dispatching
  BY <1>2 DEF InitManagers, ManagerType
<1>5. waits \in BOOLEAN
  BY DEF ScreenOnTheWay, Pending
<1> HIDE DEF m, waits
<1>6. manager' \in ManagerType /\ manager'.state = "WORKING"
      /\ manager'.screen = manager.actual /\ manager'.actual = manager.actual
  BY <1>1, <1>3, <1>5 DEF ManagerType
<1>7. manager'.inited = TRUE /\ manager'.dispatching = manager.dispatching
  BY <1>1, <1>3, <1>4 DEF ManagerType
<1>8. manager'.stray = waits
  BY <1>1, <1>3 DEF ManagerType
<1>9. "check_screen" \in Task
  BY DEF Task
<1>10. Has(Append(queue, "check_screen"), "check_screen")
  BY <1>9, AppendHas
<1>11. /\ Has(Append(queue, "check_screen"), "screen_on") <=>
            Has(queue, "screen_on") \/ "check_screen" = "screen_on"
       /\ Has(Append(queue, "check_screen"), "screen_off") <=>
            Has(queue, "screen_off") \/ "check_screen" = "screen_off"
  BY <1>9, AppendHas
<1>12. Pending("check_screen")'
  BY <1>1, <1>10 DEF Pending, Has
<1>13. ~manager'.stray => /\ ~Has(queue', "screen_on") /\ ~Has(queue', "screen_off")
                         /\ manager'.dispatching = NoMessage
  BY <1>1, <1>7, <1>8, <1>11 DEF waits, ScreenOnTheWay, Pending, Has
<1>14. ScreenBelieved'
  BY <1>6, <1>13 DEF ScreenBelieved, ScreenSettles, ScreenOnTheWay, Pending, Has
<1>15. ScreenChecked'
  BY <1>1, <1>6, <1>7, <1>12 DEF ScreenChecked, Working
<1> QED BY <1>6, <1>14, <1>15 DEF ManagerInv

(* UnInit leaves the managers working.                                     *)
LEMMA ManagerUninitReady ==
  CoreInv /\ ManagerInv /\ UninitReadyState => ManagerInv'
<1> SUFFICES ASSUME CoreInv, ManagerInv, UninitReadyState PROVE ManagerInv'
  OBVIOUS
<1>3. ~Initializing /\ ~Initializing'
  BY DEF CoreInv, InitUnderWay, Initializing, UninitReadyState
<1>1. CASE UNCHANGED <<isServiceReady, queue, manager>>
  BY <1>1, <1>3 DEF ManagerInv, ScreenBelieved, ScreenSettles, ScreenChecked, Inited, Pending, Working
<1> DEFINE m == UnInitConstraintManager(manager)
           b == m.isEvalution /\ Working(m)
<1>2. CASE manager' = [UnInitStateManager(m) EXCEPT !.stray = FALSE, !.missed = FALSE]
           /\ isServiceReady' = FALSE
  <2>1. m \in ManagerType
    BY DEF ManagerInv, UnInitConstraintManager, ManagerType
  <2>2. manager' = [[m EXCEPT !.inited = FALSE, !.state = "WORKING", !.isEvalution = b]
                      EXCEPT !.stray = FALSE, !.missed = FALSE]
    BY <1>2 DEF UnInitStateManager
  <2>3. b \in BOOLEAN
    BY <2>1 DEF ManagerType
  <2> HIDE DEF m, b
  <2>4. manager' \in ManagerType /\ manager'.state = "WORKING"
    BY <2>1, <2>2, <2>3 DEF ManagerType
  <2>5. manager'.inited = FALSE
    BY <2>1, <2>2 DEF ManagerType
  <2>6. ScreenBelieved' /\ ScreenChecked'
    BY <1>2, <1>3, <2>4, <2>5 DEF ScreenBelieved, ScreenChecked, Inited, Working
  <2> QED BY <2>4, <2>6 DEF ManagerInv
<1> QED BY <1>1, <1>2 DEF UninitReadyState

(* DispatchEvent of a ready service takes the change of the screen on; one *)
(* that comes while Init is under way is missed if it is news.             *)
LEMMA ManagerTurns ==
  ASSUME NEW s \in Screen
  PROVE  CoreInv /\ ManagerInv /\ ScreenTurns(s) => ManagerInv'
<1> SUFFICES ASSUME CoreInv, ManagerInv, ScreenTurns(s) PROVE ManagerInv'
  OBVIOUS
<1> DEFINE d == IF isServiceReady THEN s ELSE NoMessage
           b == manager.stray /\ ~isServiceReady
           c == Initializing /\ s # manager.screen
<1>1. /\ UNCHANGED <<isServiceReady, initTask, queue>> /\ manager \in ManagerType
      /\ manager' = [manager EXCEPT !.actual = s, !.dispatching = d, !.stray = b, !.missed = c]
  BY DEF ScreenTurns, ManagerInv
<1>2. d \in Screen \cup {NoMessage} /\ b \in BOOLEAN /\ c \in BOOLEAN
  BY <1>1 DEF ManagerType
<1>3. isServiceReady => d = s /\ s # NoMessage /\ ~Initializing
  BY DEF CoreInv, InitUnderWay, Screen, NoMessage
<1>4. ~isServiceReady => d = NoMessage /\ (b <=> manager.stray)
  BY <1>1 DEF ManagerType
<1>5. ~c /\ Initializing => s = manager.screen
  OBVIOUS
<1> HIDE DEF d, b, c
<1>6. manager' \in ManagerType /\ manager'.actual = s
      /\ manager'.screen = manager.screen /\ manager'.state = manager.state
  BY <1>1, <1>2 DEF ManagerType
<1>7. manager'.inited = manager.inited /\ manager'.evaluating = manager.evaluating
  BY <1>1, <1>2 DEF ManagerType
<1>8. manager'.dispatching = d /\ (manager'.stray <=> b) /\ (manager'.missed <=> c)
  BY <1>1, <1>2 DEF ManagerType
<1>9. ScreenChecked'
  BY <1>1, <1>6, <1>7 DEF ManagerInv, ScreenChecked, Inited, Initializing, Working, Pending
<1>10. ScreenBelieved'
  <2>1. (Initializing' <=> Initializing) /\ (Inited' <=> Inited)
    BY <1>1 DEF Inited, Initializing
  <2>2. CASE isServiceReady
    BY <1>3, <1>6, <1>8, <2>1, <2>2 DEF ScreenBelieved
  <2>3. CASE ~isServiceReady /\ Initializing
    <3>1. SUFFICES ASSUME ~manager.stray PROVE ScreenBelieved'
      BY <1>4, <1>8, <2>1, <2>3 DEF ScreenBelieved
    <3>2. ~Pending("screen_on") /\ ~Pending("screen_off")
      BY <2>3, <3>1 DEF ManagerInv, ScreenBelieved, ScreenOnTheWay
    <3>3. ~Pending("screen_on")' /\ ~Pending("screen_off")' /\ manager'.dispatching = NoMessage
      BY <1>1, <1>4, <1>8, <2>3, <3>2 DEF Pending
    <3>4. ~manager'.missed => manager'.screen = manager'.actual
      BY <1>5, <1>6, <1>8, <2>3
    <3> QED BY <3>3, <3>4 DEF ScreenBelieved, ScreenSettles, ScreenOnTheWay
  <2>4. CASE ~isServiceReady /\ ~Initializing
    BY <2>1, <2>4 DEF ScreenBelieved, Inited
  <2> QED BY <2>2, <2>3, <2>4
<1> QED BY <1>6, <1>9, <1>10 DEF ManagerInv

(* ... and posts the last message of the screen.                           *)
LEMMA ManagerPosts ==
  ManagerInv /\ queue \in Seq(Task) /\ PostScreen => ManagerInv'
<1> SUFFICES ASSUME ManagerInv, queue \in Seq(Task), PostScreen PROVE ManagerInv'
  OBVIOUS
<1> DEFINE t == IF manager.dispatching = "on" THEN "screen_on" ELSE "screen_off"
<1>1. /\ UNCHANGED <<isServiceReady, initTask>> /\ manager \in ManagerType
      /\ manager.dispatching # NoMessage
      /\ manager' = [manager EXCEPT !.dispatching = NoMessage]
      /\ queue' = Append(queue, t)
  BY DEF PostScreen, ManagerInv
<1>2. t \in Task /\ t # "check_screen" /\ t \in ScreenEvent
  BY DEF Task, ScreenEvent
<1>3. manager.dispatching \in {"on", "off"}
  BY <1>1 DEF ManagerType, Screen
<1>4. /\ manager.dispatching = "on" => t = "screen_on"
      /\ manager.dispatching = "off" => t = "screen_off"
  OBVIOUS
<1> HIDE DEF t
<1>5. manager' \in ManagerType /\ manager'.actual = manager.actual
      /\ manager'.screen = manager.screen /\ manager'.state = manager.state
  BY <1>1 DEF ManagerType
<1>6. manager'.inited = manager.inited /\ manager'.evaluating = manager.evaluating
  BY <1>1 DEF ManagerType
<1>7. manager'.dispatching = NoMessage /\ manager'.stray = manager.stray
      /\ manager'.missed = manager.missed
  BY <1>1 DEF ManagerType
<1>8. Has(queue, "check_screen") => Has(queue', "check_screen")
  <2>1. Has(Append(queue, t), "check_screen") <=> Has(queue, "check_screen") \/ t = "check_screen"
    BY <1>2, AppendHas
  <2> QED BY <1>1, <2>1
<1>9. ScreenChecked'
  BY <1>1, <1>5, <1>6, <1>8 DEF ManagerInv, ScreenChecked, Inited, Initializing, Working, Pending, Has
<1>10. EndsIn(queue', t, ScreenEvent)
  <2>1. EndsIn(Append(queue, t), t, ScreenEvent)
    BY <1>2, AppendEndsIn
  <2> QED BY <1>1, <2>1
<1>11. ScreenBelieved'
  <2>1. (Initializing' <=> Initializing) /\ (Inited' <=> Inited)
    BY <1>1 DEF Inited, Initializing
  <2>2. ~(Initializing /\ ~manager.stray)
    BY <1>1 DEF ManagerInv, ScreenBelieved, ScreenOnTheWay
  <2>3. Inited /\ ~manager.stray /\ ~manager.missed => manager.dispatching = manager.actual
    BY <1>1 DEF ManagerInv, ScreenBelieved
  <2>4. manager.dispatching = manager.actual => ScreenSettles'
    BY <1>3, <1>4, <1>5, <1>10 DEF ScreenSettles
  <2> QED BY <1>7, <2>1, <2>2, <2>3, <2>4 DEF ScreenBelieved
<1> QED BY <1>5, <1>9, <1>11 DEF ManagerInv

(* Every step keeps what the managers believe of the screen.               *)
LEMMA ManagerNext ==
  CoreTypeOK /\ CoreInv /\ ManagerInv /\ queue \in Seq(Task) /\ [Next]_vars => ManagerInv'
<1> SUFFICES ASSUME CoreTypeOK, CoreInv, ManagerInv, queue \in Seq(Task), [Next]_vars
             PROVE  ManagerInv'
  OBVIOUS
<1>0. UNCHANGED <<isServiceReady, initTask>> =>
        (Inited' <=> Inited) /\ (Initializing' <=> Initializing)
  BY DEF Inited, Initializing
<1>1. ASSUME UNCHANGED <<isServiceReady, initTask, queue, manager>> PROVE ManagerInv'
  BY <1>0, <1>1 DEF ManagerInv, ScreenBelieved, ScreenSettles, ScreenOnTheWay, ScreenChecked,
                    Pending, Working
<1>2. ASSUME NEW t \in Task, t \notin ScreenEvent, Posted(t),
             UNCHANGED <<isServiceReady, initTask, manager>>
      PROVE  ManagerInv'
  <2>1. /\ Has(queue', "screen_on") => Has(queue, "screen_on")
        /\ EndsIn(queue, "screen_on", ScreenEvent) => EndsIn(queue', "screen_on", ScreenEvent)
    BY <1>2, PostedHas DEF ScreenEvent
  <2>2. /\ Has(queue', "screen_off") => Has(queue, "screen_off")
        /\ EndsIn(queue, "screen_off", ScreenEvent) => EndsIn(queue', "screen_off", ScreenEvent)
    BY <1>2, PostedHas DEF ScreenEvent
  <2>3. Has(queue, "check_screen") => Has(queue', "check_screen")
    BY <1>2, PostedHas
  <2>4. ScreenSettles => ScreenSettles'
    BY <1>2, <2>1, <2>2 DEF ScreenSettles, Pending, Has
  <2>5. ScreenOnTheWay' => ScreenOnTheWay
    BY <1>2, <2>1, <2>2 DEF ScreenOnTheWay, Pending, Has
  <2>6. ScreenBelieved'
    BY <1>0, <1>2, <2>4, <2>5 DEF ManagerInv, ScreenBelieved
  <2>7. ScreenChecked'
    BY <1>0, <1>2, <2>3 DEF ManagerInv, ScreenChecked, Pending, Has, Working
  <2> QED BY <1>2, <2>6, <2>7 DEF ManagerInv
<1>3. ASSUME NEW a \in Ability, AbilityStarts(a) \/ AbilityDies(a) PROVE ManagerInv'
  BY <1>1, <1>3 DEF AbilityStarts, AbilityDies
<1>4. ASSUME NEW a \in Ability, OnAddSystemAbility(a) \/ OnRemoveSystemAbility(a) PROVE ManagerInv'
  <2>1. Posted("bgtask_added") \/ Posted("bgtask_removed")
    BY <1>4 DEF OnAddSystemAbility, OnRemoveSystemAbility, Dispatch, Posted
  <2>2. UNCHANGED <<isServiceReady, initTask, manager>>
    BY <1>4 DEF OnAddSystemAbility, OnRemoveSystemAbility
  <2> QED BY <1>2, <2>1, <2>2 DEF Task, ScreenEvent
<1>5. CASE RunTask
  BY <1>5, ManagerHandled, BelievedRuns, CheckedRuns DEF ManagerInv
<1>6. CASE TimerExpires \/ TimeChanges \/ UNCHANGED vars
  <2>1. initTask' = initTask
    BY <1>6 DEF TimerExpires, TimeChanges, vars
  <2> QED BY <1>2, <1>6, <2>1, OthersPost DEF Task, ScreenEvent
<1> QED BY <1>3, <1>4, <1>5, <1>6, ManagerInitEnds, ManagerInitReady, ManagerUninitReady,
           ManagerTurns, ManagerPosts DEF Next

-----------------------------------------------------------------------------
(* The invariant of the service.                                           *)

ServiceParts ==
  /\ CoreTypeOK /\ CoreInv
  /\ ObserverTypeOK /\ ObserversFollowDepends
  /\ queue \in Seq(Task)
  /\ StateTimersInv
  /\ TimerInv
  /\ LidsInv
  /\ BgTasksComing
  /\ ManagerInv

(* The invariant, by the parts that a lemma each keeps.                    *)
LEMMA ServiceInvParts ==
  ServiceInv <=> ServiceParts
BY TypeParts DEF ServiceInv, ServiceParts, CoreInv, StateTimersInv, TimerInv, LidsInv, ManagerInv

(* Every part holds at first.                                              *)
LEMMA ServiceInit ==
  Init => ServiceParts
<1> SUFFICES ASSUME Init PROVE ServiceParts
  OBVIOUS
<1>1. CoreTypeOK /\ CoreInv
  BY CoreInit
<1>2. /\ high = << >> /\ queue = << >> /\ isServiceReady = FALSE /\ dependsReady = {}
      /\ observer = [a \in Observed |-> Nothing] /\ timer = NoTimer
      /\ registerFailed = FALSE /\ failures = 0 /\ stateTimers = 0
      /\ listeners = << >> /\ lidListeners = 0 /\ bgListening = FALSE
  BY DEF Init
<1>3. life[TIME] \in Nat /\ life[INPUT] \in Nat
  BY <1>1, Abilities DEF CoreTypeOK
<1>4. ObserverTypeOK /\ ObserversFollowDepends
  <2>1. Nothing \in [made : BOOLEAN, at : Nat, deaf : BOOLEAN]
    BY DEF Nothing
  <2>2. ~Nothing.made
    BY DEF Nothing
  <2> QED BY <1>2, <2>1, <2>2 DEF ObserverTypeOK, ObserversFollowDepends
<1>10. ~Inited
  BY DEF Init, Inited, Initializing
<1>5. queue \in Seq(Task) /\ StateTimersInv
  BY <1>2, <1>3, <1>10 DEF StateTimersInv, StateTimersKept
<1>6. TimerInv
  <2>1. timer \in [made : BOOLEAN, at : Nat, armed : BOOLEAN]
    BY <1>2 DEF NoTimer
  <2>2. ~timer.made
    BY <1>2 DEF NoTimer
  <2>3. ~timer.armed
    BY <1>2 DEF NoTimer
  <2>4. timer.at = 0
    BY <1>2 DEF NoTimer
  <2>5. TimerTypeOK
    <3>1. registerFailed \in BOOLEAN /\ failures \in Nat
      BY <1>2
    <3>2. timer.at <= life[TIME]
      BY <1>3, <2>4
    <3> QED BY <2>1, <2>3, <3>1, <3>2 DEF TimerTypeOK
  <2>6. ~Usable(timer)
    BY <2>2 DEF Usable
  <2>9. TIME \notin dependsReady
    BY <1>2
  <2>7. TimerUsable
    BY <2>2 DEF TimerUsable
  <2>8. TimerArmed
    BY <2>6, <2>9 DEF TimerArmed
  <2> QED BY <2>5, <2>7, <2>8 DEF TimerInv
<1>7. LidsInv
  <2>1. \A l \in Listener : ~Has(listeners, l)
    BY <1>2 DEF Has
  <2>2. OneLid(listeners) /\ ~Listed("lid") /\ ~LidAlive
    BY <1>2, <2>1 DEF OneLid, Listed, LidAlive
  <2>3. listeners \in Seq(Listener)
    BY <1>2
  <2> QED BY <1>2, <2>1, <2>2, <2>3 DEF LidsInv, ListenersTypeOK, LidsListed
<1>8. BgTasksComing
  BY <1>2 DEF BgTasksComing
<1>9. ManagerInv
  <2>1. manager = [inited |-> FALSE, state |-> "WORKING", screen |-> "on", actual |-> "on",
                   isEvalution |-> FALSE, evaluating |-> FALSE, dispatching |-> NoMessage,
                   stray |-> FALSE, missed |-> FALSE]
    BY DEF Init
  <2>2. manager \in ManagerType
    BY <2>1 DEF ManagerType, Screen
  <2>3. manager.state = "WORKING"
    BY <2>1
  <2>4. ~manager.inited
    BY <2>1
  <2> QED BY <1>10, <2>2, <2>3, <2>4 DEF ManagerInv, ScreenBelieved, ScreenChecked, Inited, Working
<1> QED BY <1>1, <1>4, <1>5, <1>6, <1>7, <1>8, <1>9 DEF ServiceParts

(* Every part is kept by every step.                                       *)
LEMMA ServiceNext ==
  ServiceParts /\ [Next]_vars => ServiceParts'
<1> SUFFICES ASSUME ServiceParts, [Next]_vars PROVE ServiceParts'
  OBVIOUS
<1>1. CoreTypeOK' /\ CoreInv'
  BY CoreNext DEF ServiceParts
<1>2. ObserverTypeOK' /\ ObserversFollowDepends'
  BY ObserversNext DEF ServiceParts
<1>3. queue' \in Seq(Task)
  BY QueueKeeps DEF ServiceParts
<1>4. StateTimersInv'
  BY StateTimersNext DEF ServiceParts
<1>5. TimerInv'
  BY TimerNext DEF ServiceParts
<1>6. LidsInv'
  BY LidsNext DEF ServiceParts
<1>7. BgTasksComing'
  BY BgNext DEF ServiceParts, LidsInv
<1>8. ManagerInv'
  BY ManagerNext DEF ServiceParts
<1> QED BY <1>1, <1>2, <1>3, <1>4, <1>5, <1>6, <1>7, <1>8 DEF ServiceParts

(* The inductive invariant: every part of it, in every state that the      *)
(* service, samgr and the abilities it depends on can reach.               *)
THEOREM ServiceInvHolds == Spec => []ServiceInv
<1>1. Spec => []ServiceParts
  BY ServiceInit, ServiceNext, PTL DEF Spec
<1> QED BY <1>1, ServiceInvParts, PTL

(* OnAddSystemAbility, OnRemoveSystemAbility and the tasks of the handler  *)
(* keep every variable in its set; no timer is armed while the time        *)
(* service is down, and no handle is of a life that never was.             *)
THEOREM ServiceTypeCorrect == Spec => []TypeOK
BY ServiceInvHolds, PTL DEF ServiceInv

(* After samgr has told OnAddSystemAbility and OnRemoveSystemAbility all,  *)
(* the observers, the states' timers, the day and night timer and the lid  *)
(* listener are those of the processes that run now, although the service  *)
(* may have seen any number of deaths and restarts on the way.             *)
THEOREM HandlesAreCurrentHolds == Spec => []HandlesAreCurrent
<1>1. ServiceInv => HandlesAreCurrent
  <2> SUFFICES ASSUME ServiceInv, Calm PROVE HandlesAreCurrent!2
    BY DEF HandlesAreCurrent
  <2> USE Abilities
  <2>1. ~UninitWaits /\ \A a \in Ability : notices[a] = << >> /\ ~RemovalComes(a)
    BY DEF Calm, UninitWaits, RemovalComes, Has
  <2>2. \A a \in Depend : a \in dependsReady <=> a \in up
    BY <2>1 DEF ServiceInv, NoticesInTurn, NoticesTell
  <2>3. ASSUME NEW a \in Observed \cap up
        PROVE  observer[a].made /\ (observer[a].at = life[a] \/ observer[a].deaf)
    <3>1. a \in dependsReady /\ notices[a] = << >>
      BY <2>1, <2>2
    <3> QED BY <3>1 DEF ServiceInv, ObserversFollowDepends
  <2>4. \A a \in Observed \ up : observer[a] = Nothing
    BY <2>2 DEF ServiceInv, ObserversFollowDepends
  <2>5. isServiceReady => stateTimers = life[TIME]
    BY <2>1 DEF ServiceInv, StateTimersKept, Inited
  <2>6. timer.made => Usable(timer)
    BY <2>1 DEF ServiceInv, TimerUsable
  <2>7. LidAlive <=> isServiceReady
    <3>1. isServiceReady => LidAlive
      BY <2>1 DEF ServiceInv, LidsListed
    <3>2. listeners \in Seq(Listener) /\ (Listed("lid") <=> isServiceReady)
      BY DEF ServiceInv, TypeOK, LidsListed, Listener
    <3>3. LidAlive => Listed("lid")
      BY <3>2, ListedHas DEF LidAlive, ListedIn
    <3> QED BY <3>1, <3>2, <3>3
  <2>8. lidListeners = IF isServiceReady THEN 1 ELSE 0
    BY <2>7 DEF ServiceInv, LidsListed
  <2> QED BY <2>3, <2>4, <2>5, <2>6, <2>8
<1> QED BY <1>1, ServiceInvHolds, PTL

(* The task of DayNightSwitchCallback and RegisterTimeObserver keep the    *)
(* switch of day and night coming while the service is ready: only a       *)
(* registration that failed leaves it without a timer.                     *)
THEOREM DayNightArmedHolds == Spec => []DayNightArmed
<1>1. ServiceInv => DayNightArmed
  <2> SUFFICES ASSUME ServiceInv, Calm, isServiceReady, ~registerFailed
               PROVE  timer.armed \/ Pending("day_night")
    BY DEF DayNightArmed
  <2>1. ~RemovalComes(TIME)
    BY Abilities DEF Calm, RemovalComes, Has
  <2>2. TIME \in dependsReady
    BY Abilities DEF Calm, ServiceInv, TasksFollowDepends
  <2>3. timer.made
    BY <2>2 DEF ServiceInv, TimerArmed
  <2>4. Usable(timer)
    BY <2>1, <2>3 DEF ServiceInv, TimerUsable
  <2> QED BY <2>4 DEF ServiceInv, TimerArmed
<1> QED BY <1>1, ServiceInvHolds, PTL

(* AddSystemServiceListener and the watch that Init asks samgr for let a   *)
(* ready service hear of background tasks whenever their manager runs.     *)
THEOREM BgTasksHeardHolds == Spec => []BgTasksHeard
<1>1. ServiceInv => BgTasksHeard
  <2> SUFFICES ASSUME ServiceInv, Calm, queue = << >>, isServiceReady, BGTASK \in up
               PROVE  bgListening /\ Listed("bgtask")
    BY DEF BgTasksHeard
  <2>1. notices[BGTASK] = << >>
    BY Abilities DEF Calm
  <2>2. ~EndsIn(queue, "bgtask_added", {"bgtask_removed"})
    BY DEF EndsIn
  <2> QED BY <2>1, <2>2 DEF ServiceInv, BgTasksComing
<1> QED BY <1>1, ServiceInvHolds, PTL

(* With its tasks done, a ready service works if and only if it believes   *)
(* the screen on, and it believes what is true but for a stray message and *)
(* a change that Init missed, whatever Init, UnInit and the messages of    *)
(* the screen did in what order.  An evaluation that nothing ends keeps it *)
(* working.                                                                *)
THEOREM StateFollowsScreenHolds == Spec => []StateFollowsScreen
<1>1. ServiceInv => StateFollowsScreen
  <2> SUFFICES ASSUME ServiceInv, Calm, queue = << >>, isServiceReady, ~manager.evaluating
               PROVE  /\ Working(manager) <=> manager.screen = "on"
                      /\ manager.dispatching = NoMessage /\ ~manager.stray /\ ~manager.missed =>
                           manager.screen = manager.actual
    BY DEF StateFollowsScreen
  <2>1. /\ ~EndsIn(queue, "screen_on", ScreenEvent) /\ ~EndsIn(queue, "screen_off", ScreenEvent)
        /\ ~Pending("check_screen")
    BY DEF EndsIn, Pending
  <2>2. manager.dispatching = NoMessage /\ ~manager.stray /\ ~manager.missed =>
          manager.screen = manager.actual
    BY <2>1 DEF ServiceInv, ScreenBelieved, ScreenSettles, Inited
  <2>3. manager.screen \in {"on", "off"}
    BY DEF ServiceInv, TypeOK, Screen
  <2>4. ~Working(manager) => manager.screen = "off"
    BY DEF ServiceInv, ScreenChecked
  <2>5. Working(manager) => manager.screen # "off"
    BY <2>1 DEF ServiceInv, ScreenChecked, Inited
  <2> QED BY <2>2, <2>3, <2>4, <2>5
<1> QED BY <1>1, ServiceInvHolds, PTL
=============================================================================
