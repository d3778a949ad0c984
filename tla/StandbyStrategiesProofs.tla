----------------------- MODULE StandbyStrategiesProofs -----------------------
(***************************************************************************)
(* The running-lock strategy keeps its promises for any applications,      *)
(* processes, tasks and configuration, and any length of the queue.        *)
(***************************************************************************)
EXTENDS StandbyStrategies, TLAPS

-----------------------------------------------------------------------------
(* What the queue says.                                                    *)

(* A message of T is waiting.                                              *)
Waits(q, T) == \E j \in 1..Len(q) : q[j] \in T

(* A message of S is true, or one of T follows it.                         *)
Owes(q, S, T, true) ==
  \A i \in 1..Len(q) : q[i] \in S => true \/ \E j \in 1..Len(q) : j > i /\ q[j] \in T

(* The strategies, told of state s, are told of t by m.  Conditions and    *)
(* the phases of sleep are reported in sleep only.                         *)
Tells(m, s, t) ==
  /\ m.type = "STATE_TRANSIT" => m.pre = s /\ m.cur = t
  /\ m.type # "STATE_TRANSIT" => t = s
  /\ m.type = "RES_CTRL_CONDITION_CHANGED" => s = "SLEEP"
  /\ m.type = "PHASE_TRANSIT" /\ m.cur = "SLEEP" => s = "SLEEP"

(* After i messages of q a transition is still to be told.                 *)
ToldLater(q, i) == \E j \in 1..Len(q) : j > i /\ q[j].type = "STATE_TRANSIT"

(* f[i] is the state the strategies know when i messages of q are handled; *)
(* in the end they know the state c of the device.                         *)
Chained(q, f, c) ==
  /\ f \in [0..Len(q) -> State]
  /\ f[Len(q)] = c
  /\ \A i \in 1..Len(q) : Tells(q[i], f[i - 1], f[i])
  /\ \A i \in 0..Len(q) : f[i] = c \/ ToldLater(q, i)

Asleep == {"SLEEP", "MAINTENANCE"}

(* The device was awake in between.                                        *)
FromAwake == {m \in HandlerTask : m.type = "STATE_TRANSIT" /\ m.pre \notin Asleep}

TaskStarted(a, t) ==
  {m \in HandlerTask : m.type = "BG_TASK_STATUS_CHANGE" /\ m.app = a /\ m.task = t
                         /\ m.started = TRUE}
TaskNews(a, t) ==
  {m \in HandlerTask : \/ m.type = "BG_TASK_STATUS_CHANGE" /\ m.app = a /\ m.task = t
                       \/ m.type = "SYS_ABILITY_STATUS_CHANGED" /\ m.sa = t
                            /\ t # "CONTINUOUS_TASK"}

ProcessTasks(p) == {m \in HandlerTask : m.type = "PROCESS_TASK" /\ m.pid = p}
ProcessNews(p) == {m \in HandlerTask : m.type = "PROCESS_STATE_CHANGED" /\ m.pid = p}
Saying(S, b) == {m \in S : m.isCreated = b}

AllowNews(a) ==
  {m \in HandlerTask : m.type = "ALLOW_LIST_CHANGED" /\ m.app = a /\ "NETWORK" \in m.allowType}
AllowSaying(a, b) == {m \in AllowNews(a) : m.added = b}

(* The last news of a task, a process and an exemption are true.  What the *)
(* service lost with its readiness the strategies learn anew from sleep.   *)
TasksTrue(q, ts) ==
  \A a \in App, t \in TaskFlag : Owes(q, TaskStarted(a, t), TaskNews(a, t), t \in ts[a])

ProcessTasksTrue(q, run) ==
  \A p \in Pid, b \in BOOLEAN :
    Owes(q, Saying(ProcessTasks(p), b), ProcessTasks(p), b = (p \in run))

ProcessNewsTrue(q, run, c) ==
  \A p \in Pid, b \in BOOLEAN :
    Owes(q, Saying(ProcessNews(p), b), ProcessNews(p) \cup FromAwake,
         b = (p \in run) \/ Waits(q, ProcessTasks(p)) \/ c \notin Asleep)

AllowTrue(q, al) ==
  \A a \in App, b \in BOOLEAN :
    Owes(q, AllowSaying(a, b), AllowNews(a), b = ("NETWORK" \in al[a]))

News(q, c, run, ts, al) ==
  TasksTrue(q, ts) /\ ProcessTasksTrue(q, run) /\ ProcessNewsTrue(q, run, c) /\ AllowTrue(q, al)

(* What holds of the device and the queue.                                 *)
InputsInv ==
  /\ InputsTypeOK
  /\ cur = "MAINTENANCE" => opener # "none"
  /\ News(queue, cur, running, tasks, allowed)

-----------------------------------------------------------------------------
(* What the running-lock strategy knows, told of state s.                  *)

LockTold(s) ==
  /\ rl.isProxied = TRUE => s \in Asleep
  /\ rl.isProxied = FALSE => rl.isIdle = FALSE
  /\ ~ stale /\ ~ stray /\ rl.isProxied = FALSE => rl.info = NoInfos

(* A process is recorded for its own application.                          *)
OwnPids == \A a \in App : \A p \in rl.info[a].pids : AppOf[p] = a

KnowsProcesses ==
  rl.isProxied = TRUE => \A p \in Pid :
    \/ AppOf[p] \in missed
    \/ Waits(queue, ProcessNews(p) \cup ProcessTasks(p) \cup FromAwake)
    \/ cur \notin Asleep
    \/ p \in rl.info[AppOf[p]].pids <=> p \in running

KnowsTasks ==
  rl.isProxied = TRUE => \A a \in App, t \in TaskFlag :
    \/ a \in missed
    \/ Waits(queue, TaskNews(a, t))
    \/ t \in rl.info[a].flags => t \in tasks[a]

LockInv ==
  /\ InputsInv /\ LockTypeOK
  /\ OwnPids /\ ProxiedMatchesTable /\ KnowsProcesses /\ KnowsTasks
  /\ \E f \in [0..Len(queue) -> State] : Chained(queue, f, cur) /\ LockTold(f[0])
-----------------------------------------------------------------------------
(* Sequences.                                                              *)

(* Append adds one message behind the others.                              *)
LEMMA AppendHas ==
  ASSUME NEW q \in Seq(HandlerTask), NEW m \in HandlerTask
  PROVE  LET r == Append(q, m)
         IN  /\ r \in Seq(HandlerTask) /\ Len(r) = Len(q) + 1 /\ Len(q) \in Nat
             /\ \A i \in 1..Len(q) : r[i] = q[i]
             /\ r[Len(q) + 1] = m
OBVIOUS

(* Tail drops the first message.                                           *)
LEMMA TailHas ==
  ASSUME NEW q \in Seq(HandlerTask), q # <<>>
  PROVE  /\ Tail(q) \in Seq(HandlerTask) /\ Len(Tail(q)) = Len(q) - 1
         /\ Len(q) \in Nat \ {0} /\ Head(q) = q[1] /\ q[1] \in HandlerTask
         /\ \A i \in 1..(Len(q) - 1) : Tail(q)[i] = q[i + 1]
OBVIOUS

(* A suffix keeps the last messages.                                       *)
LEMMA SuffixHas ==
  ASSUME NEW q \in Seq(HandlerTask), NEW n \in 0..Len(q)
  PROVE  LET r == SubSeq(q, n + 1, Len(q))
         IN  /\ r \in Seq(HandlerTask) /\ Len(r) = Len(q) - n /\ Len(q) \in Nat
             /\ \A i \in 1..(Len(q) - n) : r[i] = q[i + n]
<1>1. Len(q) \in Nat /\ \A i \in 1..Len(q) : q[i] \in HandlerTask
  OBVIOUS
<1>2. \A i \in (n + 1)..Len(q) : q[i] \in HandlerTask
  BY <1>1
<1>3. SubSeq(q, n + 1, Len(q)) \in Seq(HandlerTask)
  BY <1>1, <1>2
<1>4. Len(SubSeq(q, n + 1, Len(q))) = Len(q) - n
  BY <1>1
<1>5. \A i \in 1..(Len(q) - n) : SubSeq(q, n + 1, Len(q))[i] = q[i + n]
  BY <1>1
<1>6. QED  BY <1>1, <1>3, <1>4, <1>5

(* What waits goes on waiting behind, unless it is the first.              *)
LEMMA WaitsAppend ==
  ASSUME NEW q \in Seq(HandlerTask), NEW m \in HandlerTask, NEW T
  PROVE  Waits(Append(q, m), T) <=> Waits(q, T) \/ m \in T
<1> DEFINE r == Append(q, m)
<1>1. /\ Len(r) = Len(q) + 1 /\ Len(q) \in Nat
      /\ \A i \in 1..Len(q) : r[i] = q[i]
      /\ r[Len(q) + 1] = m
  BY AppendHas
<1> HIDE DEF r
<1>2. QED  BY <1>1 DEF Waits, r

(* A message that waits is the first one or waits behind it.               *)
LEMMA WaitsTail ==
  ASSUME NEW q \in Seq(HandlerTask), q # <<>>, NEW T
  PROVE  Waits(q, T) <=> Waits(Tail(q), T) \/ Head(q) \in T
<1> DEFINE r == Tail(q)
<1>1. /\ Len(r) = Len(q) - 1 /\ Len(q) \in Nat \ {0} /\ Head(q) = q[1]
      /\ \A i \in 1..(Len(q) - 1) : r[i] = q[i + 1]
  BY TailHas
<1> HIDE DEF r
<1>2. ASSUME Waits(q, T), Head(q) \notin T PROVE Waits(r, T)
  <2>1. PICK j \in 1..Len(q) : q[j] \in T
    BY <1>2 DEF Waits
  <2>2. j - 1 \in 1..Len(r) /\ r[j - 1] = q[j]
    BY <1>1, <1>2, <2>1
  <2>3. QED  BY <2>1, <2>2 DEF Waits
<1>3. ASSUME Waits(r, T) PROVE Waits(q, T)
  <2>1. PICK j \in 1..Len(r) : r[j] \in T
    BY <1>3 DEF Waits
  <2>2. j + 1 \in 1..Len(q) /\ q[j + 1] = r[j]
    BY <1>1, <2>1
  <2>3. QED  BY <2>1, <2>2 DEF Waits
<1>4. ASSUME Head(q) \in T PROVE Waits(q, T)
  BY <1>1, <1>4 DEF Waits
<1>5. QED  BY <1>2, <1>3, <1>4 DEF r

(* What is owed stays owed behind a message that may replace what was true.*)
LEMMA OwesAppend ==
  ASSUME NEW q \in Seq(HandlerTask), NEW m \in HandlerTask, NEW S, NEW T,
         NEW x \in BOOLEAN, NEW y \in BOOLEAN,
         Owes(q, S, T, x), m \in S => y, x => y \/ m \in T
  PROVE  Owes(Append(q, m), S, T, y)
<1> DEFINE r == Append(q, m)
<1>1. /\ Len(r) = Len(q) + 1 /\ Len(q) \in Nat
      /\ \A i \in 1..Len(q) : r[i] = q[i]
      /\ r[Len(q) + 1] = m
  BY AppendHas
<1> HIDE DEF r
<1>2. ASSUME NEW i \in 1..Len(r), r[i] \in S, ~ y
      PROVE  \E j \in 1..Len(r) : j > i /\ r[j] \in T
  <2>1. i \in 1..Len(q) /\ q[i] \in S
    BY <1>1, <1>2
  <2>2. x \/ \E j \in 1..Len(q) : j > i /\ q[j] \in T
    BY <2>1 DEF Owes
  <2>3. CASE x
    BY <1>1, <1>2, <2>1, <2>3
  <2>4. CASE \E j \in 1..Len(q) : j > i /\ q[j] \in T
    BY <1>1, <2>4
  <2>5. QED  BY <2>2, <2>3, <2>4
<1>3. QED  BY <1>2 DEF Owes, r

(* The messages behind the first one owe as much; if the first one is of   *)
(* S, x holds or one of T waits behind it.                                 *)
LEMMA OwesTail ==
  ASSUME NEW q \in Seq(HandlerTask), q # <<>>, NEW S, NEW T, NEW x, Owes(q, S, T, x)
  PROVE  /\ Owes(Tail(q), S, T, x)
         /\ Head(q) \in S => x \/ Waits(Tail(q), T)
<1> DEFINE r == Tail(q)
<1>1. /\ Len(r) = Len(q) - 1 /\ Len(q) \in Nat \ {0} /\ Head(q) = q[1]
      /\ \A i \in 1..(Len(q) - 1) : r[i] = q[i + 1]
  BY TailHas
<1> HIDE DEF r
<1>2. ASSUME NEW i \in 1..Len(q), q[i] \in S, ~ x
      PROVE  \E j \in 1..Len(r) : j > i - 1 /\ r[j] \in T
  <2>1. PICK j \in 1..Len(q) : j > i /\ q[j] \in T
    BY <1>2 DEF Owes
  <2>2. j - 1 \in 1..Len(r) /\ r[j - 1] = q[j] /\ j - 1 > i - 1
    BY <1>1, <2>1
  <2>3. QED  BY <2>1, <2>2
<1>3. Owes(r, S, T, x)
  <2> SUFFICES ASSUME NEW i \in 1..Len(r), r[i] \in S, ~ x
               PROVE  \E j \in 1..Len(r) : j > i /\ r[j] \in T
    BY DEF Owes
  <2>1. i + 1 \in 1..Len(q) /\ q[i + 1] \in S /\ (i + 1) - 1 = i
    BY <1>1
  <2>2. QED  BY <1>2, <2>1
<1>4. ASSUME Head(q) \in S, ~ x PROVE Waits(r, T)
  <2>1. 1 \in 1..Len(q) /\ q[1] \in S
    BY <1>1, <1>4
  <2>2. \E j \in 1..Len(r) : j > 1 - 1 /\ r[j] \in T
    BY <1>2, <1>4, <2>1
  <2>3. QED  BY <2>2 DEF Waits
<1>5. QED  BY <1>3, <1>4 DEF r

(* A suffix of the messages owes what the whole owes.                      *)
LEMMA OwesSuffix ==
  ASSUME NEW q \in Seq(HandlerTask), NEW n \in 0..Len(q), NEW S, NEW T, NEW x, Owes(q, S, T, x)
  PROVE  Owes(SubSeq(q, n + 1, Len(q)), S, T, x)
<1> DEFINE r == SubSeq(q, n + 1, Len(q))
<1>1. /\ Len(r) = Len(q) - n /\ Len(q) \in Nat
      /\ \A i \in 1..(Len(q) - n) : r[i] = q[i + n]
  BY SuffixHas
<1> HIDE DEF r
<1>2. ASSUME NEW i \in 1..Len(r), r[i] \in S, ~ x
      PROVE  \E j \in 1..Len(r) : j > i /\ r[j] \in T
  <2>1. i + n \in 1..Len(q) /\ q[i + n] \in S
    BY <1>1, <1>2
  <2>2. PICK j \in 1..Len(q) : j > i + n /\ q[j] \in T
    BY <1>2, <2>1 DEF Owes
  <2>3. j - n \in 1..Len(r) /\ r[j - n] = q[j] /\ j - n > i
    BY <1>1, <2>1, <2>2
  <2>4. QED  BY <2>2, <2>3
<1>3. QED  BY <1>2 DEF Owes, r

-----------------------------------------------------------------------------
(* What the strategies are told.                                           *)

(* A message that continues the chain of phases is appended.               *)
LEMMA ChainAppend ==
  ASSUME NEW q \in Seq(HandlerTask), NEW m \in HandlerTask, NEW c, NEW d \in State,
         NEW f, Chained(q, f, c), Tells(m, c, d)
  PROVE  \E g : Chained(Append(q, m), g, d) /\ g[0] = f[0]
<1> DEFINE r == Append(q, m)
           g == [i \in 0..(Len(q) + 1) |-> IF i <= Len(q) THEN f[i] ELSE d]
<1>1. /\ Len(r) = Len(q) + 1 /\ Len(q) \in Nat
      /\ \A i \in 1..Len(q) : r[i] = q[i]
      /\ r[Len(q) + 1] = m
  BY AppendHas
<1> HIDE DEF r
<1>2. /\ f \in [0..Len(q) -> State] /\ f[Len(q)] = c
      /\ \A i \in 1..Len(q) : Tells(q[i], f[i - 1], f[i])
      /\ \A i \in 0..Len(q) : f[i] = c \/ ToldLater(q, i)
  BY DEF Chained
<1>3. \A i \in 0..Len(q) : g[i] = f[i]
  BY <1>1
<1>4. g[Len(q) + 1] = d
  BY <1>1
<1>5. g \in [0..Len(r) -> State]
  BY <1>1, <1>2
<1> HIDE DEF g
<1>6. ASSUME NEW i \in 1..Len(r) PROVE Tells(r[i], g[i - 1], g[i])
  <2>1. CASE i \in 1..Len(q)
    <3>1. r[i] = q[i] /\ g[i] = f[i] /\ g[i - 1] = f[i - 1]
      BY <1>1, <1>3, <2>1
    <3>2. QED  BY <1>2, <2>1, <3>1
  <2>2. CASE i = Len(q) + 1
    <3>1. r[i] = m /\ g[i] = d /\ g[i - 1] = c
      BY <1>1, <1>2, <1>3, <1>4, <2>2
    <3>2. QED  BY <3>1
  <2>3. QED  BY <1>1, <2>1, <2>2
<1>7. g[Len(r)] = d /\ g[0] = f[0]
  BY <1>1, <1>3, <1>4
<1>8. ASSUME NEW i \in 0..Len(r), g[i] # d PROVE ToldLater(r, i)
  <2>1. i \in 0..Len(q) /\ g[i] = f[i]
    BY <1>1, <1>3, <1>4, <1>8
  <2>2. CASE f[i] = c
    <3>1. m.type = "STATE_TRANSIT"
      BY <1>8, <2>1, <2>2 DEF Tells
    <3>2. Len(q) + 1 \in 1..Len(r) /\ Len(q) + 1 > i
      BY <1>1, <2>1
    <3>3. QED  BY <1>1, <3>1, <3>2 DEF ToldLater
  <2>3. CASE ToldLater(q, i)
    <3>1. PICK j \in 1..Len(q) : j > i /\ q[j].type = "STATE_TRANSIT"
      BY <2>3 DEF ToldLater
    <3>2. j \in 1..Len(r) /\ r[j] = q[j]
      BY <1>1
    <3>3. QED  BY <3>1, <3>2 DEF ToldLater
  <2>4. QED  BY <1>2, <2>1, <2>2, <2>3
<1>9. QED  BY <1>5, <1>6, <1>7, <1>8 DEF Chained, r

(* Without its first message the chain begins at the state which that      *)
(* message told of.                                                        *)
LEMMA ChainTail ==
  ASSUME NEW q \in Seq(HandlerTask), q # <<>>, NEW c, NEW f, Chained(q, f, c)
  PROVE  \E g : Chained(Tail(q), g, c) /\ Tells(Head(q), f[0], g[0])
<1> DEFINE r == Tail(q)
           g == [i \in 0..(Len(q) - 1) |-> f[i + 1]]
<1>1. /\ Len(r) = Len(q) - 1 /\ Len(q) \in Nat \ {0} /\ Head(q) = q[1]
      /\ \A i \in 1..(Len(q) - 1) : r[i] = q[i + 1]
  BY TailHas
<1> HIDE DEF r
<1>2. /\ f \in [0..Len(q) -> State] /\ f[Len(q)] = c
      /\ \A i \in 1..Len(q) : Tells(q[i], f[i - 1], f[i])
      /\ \A i \in 0..Len(q) : f[i] = c \/ ToldLater(q, i)
  BY DEF Chained
<1>3. \A i \in 0..(Len(q) - 1) : g[i] = f[i + 1]
  OBVIOUS
<1>4. g \in [0..Len(r) -> State]
  BY <1>1, <1>2
<1> HIDE DEF g
<1>5. ASSUME NEW i \in 1..Len(r) PROVE Tells(r[i], g[i - 1], g[i])
  <2>1. i + 1 \in 1..Len(q) /\ r[i] = q[i + 1] /\ g[i] = f[i + 1] /\ g[i - 1] = f[i]
        /\ (i + 1) - 1 = i
    BY <1>1, <1>3
  <2>2. Tells(q[i + 1], f[(i + 1) - 1], f[i + 1])
    BY <1>2, <2>1
  <2>3. QED  BY <2>1, <2>2
<1>6. g[Len(r)] = c
  BY <1>1, <1>2, <1>3
<1>7. Tells(q[1], f[1 - 1], f[1])
  BY <1>1, <1>2
<1>8. g[0] = f[1] /\ f[1 - 1] = f[0]
  BY <1>1, <1>3
<1>9. Tells(Head(q), f[0], g[0])
  BY <1>1, <1>7, <1>8
<1>10. ASSUME NEW i \in 0..Len(r), g[i] # c PROVE ToldLater(r, i)
  <2>1. i + 1 \in 0..Len(q) /\ g[i] = f[i + 1]
    BY <1>1, <1>3
  <2>2. ToldLater(q, i + 1)
    BY <1>2, <1>10, <2>1
  <2>3. PICK j \in 1..Len(q) : j > i + 1 /\ q[j].type = "STATE_TRANSIT"
    BY <2>2 DEF ToldLater
  <2>4. j - 1 \in 1..Len(r) /\ j - 1 > i /\ r[j - 1] = q[j]
    BY <1>1, <2>3
  <2>5. QED  BY <2>3, <2>4 DEF ToldLater
<1>11. QED  BY <1>4, <1>5, <1>6, <1>9, <1>10 DEF Chained, r

(* Every suffix of a chain is a chain.                                     *)
LEMMA ChainSuffix ==
  ASSUME NEW q \in Seq(HandlerTask), NEW n \in 0..Len(q), NEW c, NEW f, Chained(q, f, c)
  PROVE  \E g : Chained(SubSeq(q, n + 1, Len(q)), g, c)
<1> DEFINE r == SubSeq(q, n + 1, Len(q))
           g == [i \in 0..(Len(q) - n) |-> f[i + n]]
<1>1. /\ Len(r) = Len(q) - n /\ Len(q) \in Nat /\ n \in Nat /\ n <= Len(q)
      /\ \A i \in 1..(Len(q) - n) : r[i] = q[i + n]
  BY SuffixHas
<1> HIDE DEF r
<1>2. /\ f \in [0..Len(q) -> State] /\ f[Len(q)] = c
      /\ \A i \in 1..Len(q) : Tells(q[i], f[i - 1], f[i])
      /\ \A i \in 0..Len(q) : f[i] = c \/ ToldLater(q, i)
  BY DEF Chained
<1>3. \A i \in 0..(Len(q) - n) : g[i] = f[i + n]
  OBVIOUS
<1>4. g \in [0..Len(r) -> State]
  BY <1>1, <1>2
<1> HIDE DEF g
<1>5. ASSUME NEW i \in 1..Len(r) PROVE Tells(r[i], g[i - 1], g[i])
  <2>1. /\ i + n \in 1..Len(q) /\ r[i] = q[i + n]
        /\ i \in 0..(Len(q) - n) /\ i - 1 \in 0..(Len(q) - n) /\ (i - 1) + n = (i + n) - 1
    BY <1>1
  <2>2. g[i] = f[i + n] /\ g[i - 1] = f[(i + n) - 1]
    BY <1>3, <2>1
  <2>3. QED  BY <1>2, <2>1, <2>2
<1>6. g[Len(r)] = c
  BY <1>1, <1>2, <1>3
<1>7. ASSUME NEW i \in 0..Len(r), g[i] # c PROVE ToldLater(r, i)
  <2>1. i + n \in 0..Len(q) /\ g[i] = f[i + n]
    BY <1>1, <1>3
  <2>2. ToldLater(q, i + n)
    BY <1>2, <1>7, <2>1
  <2>3. PICK j \in 1..Len(q) : j > i + n /\ q[j].type = "STATE_TRANSIT"
    BY <2>2 DEF ToldLater
  <2>4. j - n \in 1..Len(r) /\ j - n > i /\ r[j - n] = q[j]
    BY <1>1, <2>1, <2>3
  <2>5. QED  BY <2>3, <2>4 DEF ToldLater
<1>8. QED  BY <1>4, <1>5, <1>6, <1>7 DEF Chained, r
-----------------------------------------------------------------------------
(* Types.                                                                  *)

(* The messages that are made are tasks of the handler.                    *)
LEMMA Made ==
  /\ \A s \in State, t \in State : StateTransit(s, t) \in HandlerTask
  /\ \A s \in {"NAP", "SLEEP"}, n \in {AppResDeep, EndPhase} : PhaseTransit(s, n) \in HandlerTask
  /\ \A a \in App, rs \in SUBSET Resource, b \in BOOLEAN :
       AllowListChanged(a, rs, b) \in HandlerTask
  /\ \A a \in App, t \in TaskFlag, b \in BOOLEAN : BgTaskStatusChange(a, t, b) \in HandlerTask
  /\ \A p \in Pid, b \in BOOLEAN :
       ProcessStateChanged(p, b) \in HandlerTask /\ ProcessTask(p, b) \in HandlerTask
  /\ \A sa \in TaskFlag : SysAbilityStatusChanged(sa) \in HandlerTask
  /\ ResCtrlConditionChanged \in HandlerTask
<1>1. Message \subseteq HandlerTask
  BY DEF HandlerTask
<1>2. \A s \in State, t \in State : StateTransit(s, t) \in Message
  BY DEF Message
<1>3. \A s \in {"NAP", "SLEEP"}, n \in {AppResDeep, EndPhase} : PhaseTransit(s, n) \in Message
  BY DEF Message
<1>4. \A a \in App, rs \in SUBSET Resource, b \in BOOLEAN : AllowListChanged(a, rs, b) \in Message
  BY DEF Message
<1>5. \A a \in App, t \in TaskFlag, b \in BOOLEAN : BgTaskStatusChange(a, t, b) \in Message
  BY DEF Message
<1>6. \A p \in Pid, b \in BOOLEAN : ProcessStateChanged(p, b) \in Message
  BY DEF Message
<1>7. \A p \in Pid, b \in BOOLEAN : ProcessTask(p, b) \in HandlerTask
  BY DEF HandlerTask
<1>8. \A sa \in TaskFlag : SysAbilityStatusChanged(sa) \in Message
  BY DEF Message
<1>9. ResCtrlConditionChanged \in Message
  BY DEF Message
<1>10. QED  BY <1>1, <1>2, <1>3, <1>4, <1>5, <1>6, <1>7, <1>8, <1>9

(* The fields of a message, by its type.                                   *)
LEMMA Fields ==
  ASSUME NEW m \in HandlerTask
  PROVE  /\ m.type \in {"STATE_TRANSIT", "PHASE_TRANSIT", "ALLOW_LIST_CHANGED",
                        "BG_TASK_STATUS_CHANGE", "PROCESS_STATE_CHANGED", "PROCESS_TASK",
                        "SYS_ABILITY_STATUS_CHANGED", "RES_CTRL_CONDITION_CHANGED"}
         /\ m.type = "STATE_TRANSIT" => m.pre \in State /\ m.cur \in State
         /\ m.type = "ALLOW_LIST_CHANGED" =>
              m.app \in App /\ m.allowType \subseteq Resource /\ m.added \in BOOLEAN
         /\ m.type = "BG_TASK_STATUS_CHANGE" =>
              m.app \in App /\ m.task \in TaskFlag /\ m.started \in BOOLEAN
         /\ m.type \in {"PROCESS_STATE_CHANGED", "PROCESS_TASK"} =>
              m.pid \in Pid /\ m.isCreated \in BOOLEAN
         /\ m.type = "SYS_ABILITY_STATUS_CHANGED" => m.sa \in TaskFlag
<1>1. CASE \E s \in State, t \in State : m = StateTransit(s, t)
  BY <1>1 DEF StateTransit
<1>2. CASE \E s \in {"NAP", "SLEEP"}, n \in {AppResDeep, EndPhase} : m = PhaseTransit(s, n)
  BY <1>2 DEF PhaseTransit
<1>3. CASE \E a \in App, rs \in SUBSET Resource, b \in BOOLEAN : m = AllowListChanged(a, rs, b)
  BY <1>3 DEF AllowListChanged
<1>4. CASE \E a \in App, t \in TaskFlag, b \in BOOLEAN : m = BgTaskStatusChange(a, t, b)
  BY <1>4 DEF BgTaskStatusChange
<1>5. CASE \E p \in Pid, b \in BOOLEAN : m = ProcessStateChanged(p, b)
  BY <1>5 DEF ProcessStateChanged
<1>6. CASE \E p \in Pid, b \in BOOLEAN : m = ProcessTask(p, b)
  BY <1>6 DEF ProcessTask
<1>7. CASE \E sa \in TaskFlag : m = SysAbilityStatusChanged(sa)
  BY <1>7 DEF SysAbilityStatusChanged
<1>8. CASE m = ResCtrlConditionChanged
  BY <1>8 DEF ResCtrlConditionChanged
<1>9. QED
  BY <1>1, <1>2, <1>3, <1>4, <1>5, <1>6, <1>7, <1>8 DEF HandlerTask, Message
-----------------------------------------------------------------------------
(* News.                                                                   *)

(* A message of the other threads is true when it is posted, and reports   *)
(* what has changed.                                                       *)
Reports(m, c, run, ts, al, d, run2, ts2, al2) ==
  /\ m.type # "PROCESS_STATE_CHANGED"
  /\ \A a \in App, t \in TaskFlag :
       /\ m \in TaskStarted(a, t) => t \in ts2[a]
       /\ t \in ts[a] => t \in ts2[a] \/ m \in TaskNews(a, t)
  /\ \A p \in Pid :
       /\ m \in ProcessTasks(p) => m.isCreated = (p \in run2)
       /\ (p \in run <=> p \in run2) \/ m \in ProcessTasks(p)
  /\ \A a \in App :
       /\ m \in AllowNews(a) => m.added = ("NETWORK" \in al2[a])
       /\ ("NETWORK" \in al[a] <=> "NETWORK" \in al2[a]) \/ m \in AllowNews(a)
  /\ c \notin Asleep => d \notin Asleep \/ m \in FromAwake

(* A message is appended to what the strategies have still to hear.        *)
LEMMA NewsAppend ==
  ASSUME NEW q \in Seq(HandlerTask), NEW m \in HandlerTask,
         NEW c, NEW d, NEW run, NEW run2, NEW ts, NEW ts2, NEW al, NEW al2,
         News(q, c, run, ts, al), Reports(m, c, run, ts, al, d, run2, ts2, al2)
  PROVE  News(Append(q, m), d, run2, ts2, al2)
<1> DEFINE r == Append(q, m)
<1>1. TasksTrue(r, ts2)
  <2> SUFFICES ASSUME NEW a \in App, NEW t \in TaskFlag
               PROVE  Owes(r, TaskStarted(a, t), TaskNews(a, t), t \in ts2[a])
    BY DEF TasksTrue
  <2> DEFINE x == t \in ts[a]
             y == t \in ts2[a]
  <2>1. Owes(q, TaskStarted(a, t), TaskNews(a, t), x) /\ x \in BOOLEAN /\ y \in BOOLEAN
    BY DEF News, TasksTrue
  <2>2. (m \in TaskStarted(a, t) => y) /\ (x => y \/ m \in TaskNews(a, t))
    BY DEF Reports
  <2> HIDE DEF x, y
  <2>3. Owes(r, TaskStarted(a, t), TaskNews(a, t), y)
    BY <2>1, <2>2, OwesAppend
  <2>4. QED  BY <2>3 DEF y
<1>2. ProcessTasksTrue(r, run2)
  <2> SUFFICES ASSUME NEW p \in Pid, NEW b \in BOOLEAN
               PROVE  Owes(r, Saying(ProcessTasks(p), b), ProcessTasks(p), b = (p \in run2))
    BY DEF ProcessTasksTrue
  <2>1. Owes(q, Saying(ProcessTasks(p), b), ProcessTasks(p), b = (p \in run))
    BY DEF News, ProcessTasksTrue
  <2>2. m \in Saying(ProcessTasks(p), b) => b = (p \in run2)
    BY DEF Reports, Saying
  <2>3. b = (p \in run) => b = (p \in run2) \/ m \in ProcessTasks(p)
    BY DEF Reports
  <2>4. QED  BY <2>1, <2>2, <2>3, OwesAppend
<1>3. ProcessNewsTrue(r, run2, d)
  <2> SUFFICES ASSUME NEW p \in Pid, NEW b \in BOOLEAN
               PROVE  Owes(r, Saying(ProcessNews(p), b), ProcessNews(p) \cup FromAwake,
                           b = (p \in run2) \/ Waits(r, ProcessTasks(p)) \/ d \notin Asleep)
    BY DEF ProcessNewsTrue
  <2> DEFINE x == b = (p \in run) \/ Waits(q, ProcessTasks(p)) \/ c \notin Asleep
             y == b = (p \in run2) \/ Waits(r, ProcessTasks(p)) \/ d \notin Asleep
  <2>1. Owes(q, Saying(ProcessNews(p), b), ProcessNews(p) \cup FromAwake, x)
    BY DEF News, ProcessNewsTrue
  <2>2. m \notin Saying(ProcessNews(p), b)
    BY DEF Reports, Saying, ProcessNews
  <2>3. Waits(r, ProcessTasks(p)) <=> Waits(q, ProcessTasks(p)) \/ m \in ProcessTasks(p)
    BY WaitsAppend
  <2>4. x => y \/ m \in ProcessNews(p) \cup FromAwake
    BY <2>3 DEF Reports
  <2>5. x \in BOOLEAN /\ y \in BOOLEAN
    OBVIOUS
  <2> HIDE DEF x, y
  <2>6. Owes(r, Saying(ProcessNews(p), b), ProcessNews(p) \cup FromAwake, y)
    BY <2>1, <2>2, <2>4, <2>5, OwesAppend
  <2>7. QED  BY <2>6 DEF y
<1>4. AllowTrue(r, al2)
  <2> SUFFICES ASSUME NEW a \in App, NEW b \in BOOLEAN
               PROVE  Owes(r, AllowSaying(a, b), AllowNews(a), b = ("NETWORK" \in al2[a]))
    BY DEF AllowTrue
  <2>1. Owes(q, AllowSaying(a, b), AllowNews(a), b = ("NETWORK" \in al[a]))
    BY DEF News, AllowTrue
  <2>2. m \in AllowSaying(a, b) => b = ("NETWORK" \in al2[a])
    BY DEF Reports, AllowSaying
  <2>3. b = ("NETWORK" \in al[a]) => b = ("NETWORK" \in al2[a]) \/ m \in AllowNews(a)
    BY DEF Reports
  <2>4. QED  BY <2>1, <2>2, <2>3, OwesAppend
<1>5. QED  BY <1>1, <1>2, <1>3, <1>4 DEF News

(* Nothing false is left when the first message is handled.                *)
LEMMA NewsTail ==
  ASSUME NEW q \in Seq(HandlerTask), q # <<>>, Head(q).type # "PROCESS_TASK",
         NEW c, NEW run, NEW ts, NEW al, News(q, c, run, ts, al)
  PROVE  News(Tail(q), c, run, ts, al)
<1> DEFINE r == Tail(q)
<1>1. TasksTrue(r, ts)
  BY OwesTail DEF News, TasksTrue
<1>2. ProcessTasksTrue(r, run)
  BY OwesTail DEF News, ProcessTasksTrue
<1>3. ProcessNewsTrue(r, run, c)
  <2> SUFFICES ASSUME NEW p \in Pid, NEW b \in BOOLEAN
               PROVE  Owes(r, Saying(ProcessNews(p), b), ProcessNews(p) \cup FromAwake,
                           b = (p \in run) \/ Waits(r, ProcessTasks(p)) \/ c \notin Asleep)
    BY DEF ProcessNewsTrue
  <2>1. Waits(q, ProcessTasks(p)) <=> Waits(r, ProcessTasks(p))
    BY WaitsTail DEF ProcessTasks
  <2>2. Owes(q, Saying(ProcessNews(p), b), ProcessNews(p) \cup FromAwake,
             b = (p \in run) \/ Waits(q, ProcessTasks(p)) \/ c \notin Asleep)
    BY DEF News, ProcessNewsTrue
  <2>3. Owes(q, Saying(ProcessNews(p), b), ProcessNews(p) \cup FromAwake,
             b = (p \in run) \/ Waits(r, ProcessTasks(p)) \/ c \notin Asleep)
    BY <2>1, <2>2
  <2> HIDE DEF r
  <2>4. QED  BY <2>3, OwesTail DEF r
<1>4. AllowTrue(r, al)
  BY OwesTail DEF News, AllowTrue
<1>5. QED  BY <1>1, <1>2, <1>3, <1>4 DEF News

(* A suffix of true news is true to a device that works.                   *)
LEMMA NewsSuffix ==
  ASSUME NEW q \in Seq(HandlerTask), NEW n \in 0..Len(q),
         NEW c, NEW run, NEW ts, NEW al, News(q, c, run, ts, al)
  PROVE  News(SubSeq(q, n + 1, Len(q)), "WORKING", run, ts, al)
<1> DEFINE r == SubSeq(q, n + 1, Len(q))
<1>1. TasksTrue(r, ts)
  BY OwesSuffix DEF News, TasksTrue
<1>2. ProcessTasksTrue(r, run)
  BY OwesSuffix DEF News, ProcessTasksTrue
<1>3. ProcessNewsTrue(r, run, "WORKING")
  BY DEF ProcessNewsTrue, Owes, Asleep
<1>4. AllowTrue(r, al)
  BY OwesSuffix DEF News, AllowTrue
<1>5. QED  BY <1>1, <1>2, <1>3, <1>4 DEF News

(* The task of the observer becomes the message behind all others.         *)
LEMMA NewsMoved ==
  ASSUME NEW q \in Seq(HandlerTask), q # <<>>, Head(q).type = "PROCESS_TASK",
         NEW c, NEW run, NEW ts, NEW al, News(q, c, run, ts, al)
  PROVE  News(Append(Tail(q), ProcessStateChanged(Head(q).pid, Head(q).isCreated)),
              c, run, ts, al)
<1> DEFINE u == Tail(q)
           h == Head(q)
           m == ProcessStateChanged(h.pid, h.isCreated)
           r == Append(u, m)
<1>1. u \in Seq(HandlerTask) /\ h \in HandlerTask
  BY TailHas
<1>2. h.pid \in Pid /\ h.isCreated \in BOOLEAN
  BY <1>1, Fields
<1>3. m \in HandlerTask /\ m.type = "PROCESS_STATE_CHANGED" /\ m.pid = h.pid
      /\ m.isCreated = h.isCreated
  BY <1>2, Made DEF ProcessStateChanged
<1>4. TasksTrue(r, ts)
  <2>1. TasksTrue(u, ts)
    BY OwesTail DEF News, TasksTrue
  <2>2. \A a \in App, t \in TaskFlag : m \notin TaskStarted(a, t)
    BY <1>3 DEF TaskStarted
  <2> HIDE DEF u, m
  <2>3. ASSUME NEW a \in App, NEW t \in TaskFlag
        PROVE  Owes(r, TaskStarted(a, t), TaskNews(a, t), t \in ts[a])
    <3> DEFINE x == t \in ts[a]
    <3>1. Owes(u, TaskStarted(a, t), TaskNews(a, t), x) /\ x \in BOOLEAN
      BY <2>1 DEF TasksTrue
    <3> HIDE DEF x
    <3>2. Owes(r, TaskStarted(a, t), TaskNews(a, t), x)
      BY <1>1, <1>3, <2>2, <3>1, OwesAppend
    <3>3. QED  BY <3>2 DEF x
  <2>4. QED  BY <2>3 DEF TasksTrue
<1>5. ProcessTasksTrue(r, run)
  <2>1. ProcessTasksTrue(u, run)
    BY OwesTail DEF News, ProcessTasksTrue
  <2>2. \A p \in Pid, b \in BOOLEAN : m \notin Saying(ProcessTasks(p), b)
    BY <1>3 DEF Saying, ProcessTasks
  <2> HIDE DEF u, m
  <2>3. QED  BY <1>1, <1>3, <2>1, <2>2, OwesAppend DEF ProcessTasksTrue
<1>6. AllowTrue(r, al)
  <2>1. AllowTrue(u, al)
    BY OwesTail DEF News, AllowTrue
  <2>2. \A a \in App, b \in BOOLEAN : m \notin AllowSaying(a, b)
    BY <1>3 DEF AllowSaying, AllowNews
  <2> HIDE DEF u, m
  <2>3. QED  BY <1>1, <1>3, <2>1, <2>2, OwesAppend DEF AllowTrue
<1>7. ProcessNewsTrue(r, run, c)
  <2> SUFFICES ASSUME NEW p \in Pid, NEW b \in BOOLEAN
               PROVE  Owes(r, Saying(ProcessNews(p), b), ProcessNews(p) \cup FromAwake,
                           b = (p \in run) \/ Waits(r, ProcessTasks(p)) \/ c \notin Asleep)
    BY DEF ProcessNewsTrue
  <2> DEFINE x == b = (p \in run) \/ Waits(q, ProcessTasks(p)) \/ c \notin Asleep
             y == b = (p \in run) \/ Waits(r, ProcessTasks(p)) \/ c \notin Asleep
             S == Saying(ProcessNews(p), b)
             T == ProcessNews(p) \cup FromAwake
  <2>1. x \in BOOLEAN /\ y \in BOOLEAN
    OBVIOUS
  <2>2. Owes(q, S, T, x)
    BY DEF News, ProcessNewsTrue
  <2>3. Owes(u, S, T, x)
    <3> HIDE DEF x, y, S, T
    <3>1. QED  BY <2>2, OwesTail
  <2>4. Waits(u, ProcessTasks(p)) => Waits(r, ProcessTasks(p))
    <3> HIDE DEF u, m
    <3>1. QED  BY <1>1, <1>3, WaitsAppend
  <2>5. CASE p = h.pid
    <3>1. m \in T
      BY <1>3, <2>5 DEF ProcessNews
    <3>2. h \in Saying(ProcessTasks(p), h.isCreated)
      BY <1>1, <2>5 DEF Saying, ProcessTasks
    <3>3. Owes(q, Saying(ProcessTasks(p), h.isCreated), ProcessTasks(p), h.isCreated = (p \in run))
      BY <1>2 DEF News, ProcessTasksTrue
    <3>4. h.isCreated = (p \in run) \/ Waits(u, ProcessTasks(p))
      BY <3>2, <3>3, OwesTail
    <3>5. m \in S => y
      BY <1>3, <2>4, <3>4 DEF Saying
    <3> HIDE DEF x, y, S, T, u, m
    <3>6. Owes(r, S, T, y)
      BY <1>1, <1>3, <2>1, <2>3, <3>1, <3>5, OwesAppend
    <3>7. QED  BY <3>6 DEF y, S, T
  <2>6. CASE p # h.pid
    <3>1. m \notin S
      BY <1>3, <2>6 DEF Saying, ProcessNews
    <3>2. h \notin ProcessTasks(p)
      BY <2>6 DEF ProcessTasks
    <3>3. Waits(q, ProcessTasks(p)) => Waits(u, ProcessTasks(p))
      BY <3>2, WaitsTail
    <3>4. x => y
      BY <2>4, <3>3
    <3> HIDE DEF x, y, S, T, u, m
    <3>5. Owes(r, S, T, y)
      BY <1>1, <1>3, <2>1, <2>3, <3>1, <3>4, OwesAppend
    <3>6. QED  BY <3>5 DEF y, S, T
  <2>7. QED  BY <2>5, <2>6
<1>8. QED  BY <1>4, <1>5, <1>6, <1>7 DEF News
-----------------------------------------------------------------------------
(* The steps of the device, the applications and the handler.              *)

(* Messages that still wait, if the task of the observer may stand for its *)
(* message, and the news of what has changed.                              *)
Patient(T) ==
  \A m \in T : m.type = "PROCESS_TASK" => ProcessStateChanged(m.pid, m.isCreated) \in T

Noticed ==
  /\ \A T : Patient(T) /\ Waits(queue, T) => Waits(queue', T)
  /\ \A a \in App, t \in TaskFlag :
       t \in tasks[a] => t \in tasks'[a] \/ Waits(queue', TaskNews(a, t))
  /\ \A p \in Pid :
       (p \in running <=> p \in running') \/ Waits(queue', Saying(ProcessTasks(p), p \in running'))
  /\ \A a \in App :
       ("NETWORK" \in allowed[a] <=> "NETWORK" \in allowed'[a]) \/ Waits(queue', AllowNews(a))
  /\ cur \notin Asleep => cur' \notin Asleep \/ Waits(queue', FromAwake)

(* A message of another thread is noticed.                                 *)
LEMMA Posted ==
  ASSUME InputsInv, NEW m \in HandlerTask, queue' = Append(queue, m),
         Reports(m, cur, running, tasks, allowed, cur', running', tasks', allowed')
  PROVE  /\ queue' \in Seq(HandlerTask)
         /\ News(queue', cur', running', tasks', allowed') /\ Noticed
<1>1. queue \in Seq(HandlerTask)
  BY DEF InputsInv, InputsTypeOK
<1>2. queue' \in Seq(HandlerTask)
  BY <1>1, AppendHas
<1>3. News(queue', cur', running', tasks', allowed')
  BY <1>1, NewsAppend DEF InputsInv
<1>4. \A T : Waits(queue', T) <=> Waits(queue, T) \/ m \in T
  BY <1>1, WaitsAppend
<1>5. \A a \in App, t \in TaskFlag :
        t \in tasks[a] => t \in tasks'[a] \/ Waits(queue', TaskNews(a, t))
  BY <1>4 DEF Reports
<1>6. \A p \in Pid :
        (p \in running <=> p \in running') \/ Waits(queue', Saying(ProcessTasks(p), p \in running'))
  BY <1>4 DEF Reports, Saying
<1>7. \A a \in App :
        ("NETWORK" \in allowed[a] <=> "NETWORK" \in allowed'[a]) \/ Waits(queue', AllowNews(a))
  BY <1>4 DEF Reports
<1>8. cur \notin Asleep => cur' \notin Asleep \/ Waits(queue', FromAwake)
  BY <1>4 DEF Reports
<1>9. QED  BY <1>2, <1>3, <1>4, <1>5, <1>6, <1>7, <1>8 DEF Noticed

(* Nothing of interest happens.                                            *)
LEMMA Unnoticed ==
  ASSUME queue' = queue, running' = running, tasks' = tasks, allowed' = allowed, cur' = cur
  PROVE  Noticed
BY DEF Noticed

(* A message about other things than the applications reports truly.       *)
LEMMA OtherReports ==
  ASSUME NEW m \in HandlerTask, m.type \in {"STATE_TRANSIT", "PHASE_TRANSIT",
           "RES_CTRL_CONDITION_CHANGED"},
         NEW c, NEW d, NEW run, NEW ts, NEW al,
         c \notin Asleep => d \notin Asleep \/ (m.type = "STATE_TRANSIT" /\ m.pre = c)
  PROVE  Reports(m, c, run, ts, al, d, run, ts, al)
BY DEF Reports, TaskStarted, TaskNews, ProcessTasks, AllowNews, FromAwake

(* The states that the device passes through, and what it says of them.    *)
LEMMA DeviceMoves ==
  ASSUME InputsInv,
         \/ Device!Wake \/ Device!GoDark \/ Device!Settle \/ Device!OpenMaintenance
         \/ Device!CloseMaintenance \/ Device!ForceSleep
  PROVE  /\ cur' \in State /\ opener' \in {"NAP", "SLEEP", "none"}
         /\ cur' = "MAINTENANCE" => opener' # "none"
<1> USE DEF InputsInv, InputsTypeOK, State
<1>1. CASE Device!Wake
  BY <1>1 DEF Device!Wake
<1>2. CASE Device!GoDark
  BY <1>2 DEF Device!GoDark
<1>3. CASE Device!Settle
  BY <1>3 DEF Device!Settle
<1>4. CASE Device!OpenMaintenance
  BY <1>4 DEF Device!OpenMaintenance
<1>5. CASE Device!CloseMaintenance
  BY <1>5 DEF Device!CloseMaintenance
<1>6. CASE Device!ForceSleep
  BY <1>6 DEF Device!ForceSleep
<1>7. QED  BY <1>1, <1>2, <1>3, <1>4, <1>5, <1>6

(* A step of the inputs that no strategy takes part in.                    *)
Kept ==
  /\ InputsInv' /\ Noticed /\ losses' = losses
  /\ \A f : Chained(queue, f, cur) => \E g : Chained(queue', g, cur') /\ g[0] = f[0]

(* A transition of the device posts its message and keeps the inputs in    *)
(* order.                                                                  *)
LEMMA DeviceTransitsKept == ASSUME InputsInv, DeviceTransits PROVE Kept
<1>1. /\ queue \in Seq(HandlerTask) /\ cur \in State
      /\ News(queue, cur, running, tasks, allowed)
  BY DEF InputsInv, InputsTypeOK
<1>2. /\ cur' \in State /\ opener' \in {"NAP", "SLEEP", "none"}
      /\ cur' = "MAINTENANCE" => opener' # "none"
  BY DeviceMoves DEF DeviceTransits
<1>3. /\ running' = running /\ tasks' = tasks /\ allowed' = allowed /\ night' = night
      /\ switching' = switching /\ losses' = losses /\ phaseDue' \in {0, AppResDeep}
      /\ queue' = queue \o Transits(cur, cur')
  BY DEF DeviceTransits
<1>4. ASSUME queue' \in Seq(HandlerTask), News(queue', cur', running', tasks', allowed')
      PROVE  InputsInv'
  BY <1>2, <1>3, <1>4 DEF InputsInv, InputsTypeOK
<1>5. CASE ~ (cur' = "DARK" /\ cur # "WORKING")
  <2> DEFINE m == StateTransit(cur, cur')
  <2>1. m \in HandlerTask /\ m.type = "STATE_TRANSIT" /\ m.pre = cur /\ m.cur = cur'
    BY <1>1, <1>2, Made DEF StateTransit
  <2>2. queue' = Append(queue, m)
    BY <1>1, <1>3, <1>5 DEF Transits
  <2> HIDE DEF m
  <2>3. Reports(m, cur, running, tasks, allowed, cur', running', tasks', allowed')
    BY <1>3, <2>1, OtherReports
  <2>4. queue' \in Seq(HandlerTask) /\ News(queue', cur', running', tasks', allowed') /\ Noticed
    BY <2>1, <2>2, <2>3, Posted
  <2>5. Tells(m, cur, cur')
    BY <2>1 DEF Tells
  <2>6. \A f : Chained(queue, f, cur) => \E g : Chained(queue', g, cur') /\ g[0] = f[0]
    BY <1>1, <1>2, <2>1, <2>2, <2>5, ChainAppend
  <2>7. QED  BY <1>3, <1>4, <2>4, <2>6 DEF Kept
<1>6. CASE cur' = "DARK" /\ cur # "WORKING"
  <2> DEFINE m == StateTransit(cur, "WORKING")
             k == StateTransit("WORKING", "DARK")
             u == Append(queue, m)
  <2>1. "WORKING" \in State /\ "DARK" \in State
    BY DEF State
  <2>2. m \in HandlerTask /\ m.type = "STATE_TRANSIT" /\ m.pre = cur /\ m.cur = "WORKING"
    BY <1>1, <2>1, Made DEF StateTransit
  <2>3. k \in HandlerTask /\ k.type = "STATE_TRANSIT" /\ k.pre = "WORKING" /\ k.cur = "DARK"
    BY <2>1, Made DEF StateTransit
  <2>4. queue' = Append(u, k)
    BY <1>1, <1>3, <1>6 DEF Transits
  <2>5. u \in Seq(HandlerTask)
    BY <1>1, <2>2, AppendHas
  <2> HIDE DEF m, k
  <2>6. Reports(m, cur, running, tasks, allowed, "WORKING", running, tasks, allowed)
    BY <2>2, OtherReports DEF Asleep
  <2>7. Reports(k, "WORKING", running, tasks, allowed, cur', running', tasks', allowed')
    BY <1>3, <1>6, <2>3, OtherReports DEF Asleep
  <2>8. News(u, "WORKING", running, tasks, allowed)
    BY <1>1, <2>2, <2>6, NewsAppend
  <2> HIDE DEF u
  <2>9. News(queue', cur', running', tasks', allowed')
    BY <2>3, <2>4, <2>5, <2>7, <2>8, NewsAppend
  <2>10. queue' \in Seq(HandlerTask)
    BY <2>3, <2>4, <2>5, AppendHas
  <2>11. \A T : Waits(queue, T) => Waits(queue', T)
    BY <1>1, <2>2, <2>3, <2>4, <2>5, WaitsAppend DEF u
  <2>12. Noticed
    BY <1>3, <1>6, <2>11 DEF Noticed, Asleep
  <2>13. Tells(m, cur, "WORKING") /\ Tells(k, "WORKING", cur')
    BY <1>6, <2>2, <2>3 DEF Tells
  <2>14. ASSUME NEW f, Chained(queue, f, cur)
         PROVE  \E g : Chained(queue', g, cur') /\ g[0] = f[0]
    <3>1. PICK h : Chained(u, h, "WORKING") /\ h[0] = f[0]
      BY <1>1, <2>1, <2>2, <2>13, <2>14, ChainAppend DEF u
    <3>2. PICK g : Chained(queue', g, cur') /\ g[0] = h[0]
      BY <1>2, <2>3, <2>4, <2>5, <2>13, <3>1, ChainAppend
    <3>3. QED  BY <3>1, <3>2
  <2>15. QED  BY <1>3, <1>4, <2>9, <2>10, <2>12, <2>14 DEF Kept
<1>7. QED  BY <1>5, <1>6

(* One message is posted, and the device does not move.                    *)
LEMMA PostKept ==
  ASSUME InputsInv, NEW m \in HandlerTask, queue' = Append(queue, m),
         cur' = cur, opener' = opener, losses' = losses,
         Reports(m, cur, running, tasks, allowed, cur', running', tasks', allowed'),
         Tells(m, cur, cur'),
         phaseDue' \in {0, AppResDeep, EndPhase}, running' \subseteq Pid,
         tasks' \in [App -> SUBSET TaskFlag], allowed' \in [App -> SUBSET Resource],
         night' \in BOOLEAN, switching' \in BOOLEAN
  PROVE  Kept
<1>1. queue' \in Seq(HandlerTask) /\ News(queue', cur', running', tasks', allowed') /\ Noticed
  BY Posted
<1>2. InputsInv'
  BY <1>1 DEF InputsInv, InputsTypeOK
<1>3. queue \in Seq(HandlerTask) /\ cur' \in State
  BY DEF InputsInv, InputsTypeOK
<1>4. \A f : Chained(queue, f, cur) => \E g : Chained(queue', g, cur') /\ g[0] = f[0]
  BY <1>3, ChainAppend
<1>5. QED  BY <1>1, <1>2, <1>4 DEF Kept

(* The queue and what it is about do not change.                           *)
LEMMA QuietKept ==
  ASSUME InputsInv, UNCHANGED <<cur, opener, queue, running, tasks, allowed, losses>>,
         phaseDue' \in {0, AppResDeep, EndPhase}, night' \in BOOLEAN, switching' \in BOOLEAN
  PROVE  Kept
<1>1. Noticed
  BY Unnoticed
<1>2. InputsInv'
  BY DEF InputsInv, InputsTypeOK
<1>3. \A f : Chained(queue, f, cur) => \E g : Chained(queue', g, cur') /\ g[0] = f[0]
  OBVIOUS
<1>4. QED  BY <1>1, <1>2, <1>3 DEF Kept

(* So does a phase of sleep,                                               *)
LEMMA SleepPhaseKept == ASSUME InputsInv, SleepPhase PROVE Kept
<1> DEFINE m == PhaseTransit("SLEEP", phaseDue)
<1>1. phaseDue' \in {0, EndPhase}
  BY DEF SleepPhase
<1>2. CASE queue' = queue
  BY <1>1, <1>2, QuietKept DEF SleepPhase, InputsInv, InputsTypeOK
<1>3. CASE queue' = Append(queue, m)
  <2>1. m \in HandlerTask /\ m.type = "PHASE_TRANSIT" /\ m.cur = "SLEEP"
    BY Made DEF SleepPhase, InputsInv, InputsTypeOK, PhaseTransit
  <2> HIDE DEF m
  <2>2. Reports(m, cur, running, tasks, allowed, cur', running', tasks', allowed')
    BY <2>1, OtherReports DEF SleepPhase
  <2>3. Tells(m, cur, cur')
    BY <2>1 DEF Tells, SleepPhase
  <2>4. QED  BY <1>1, <1>3, <2>1, <2>2, <2>3, PostKept DEF SleepPhase, InputsInv, InputsTypeOK
<1>4. QED  BY <1>2, <1>3 DEF SleepPhase

(* a phase of nap,                                                         *)
LEMMA NapPhaseKept == ASSUME InputsInv, NapPhase PROVE Kept
<1> DEFINE m == PhaseTransit("NAP", AppResDeep)
<1>1. m \in HandlerTask /\ m.type = "PHASE_TRANSIT" /\ m.cur = "NAP"
  BY Made DEF PhaseTransit
<1>2. queue' = Append(queue, m)
  BY DEF NapPhase
<1> HIDE DEF m
<1>3. Reports(m, cur, running, tasks, allowed, cur', running', tasks', allowed')
  BY <1>1, OtherReports DEF NapPhase
<1>4. Tells(m, cur, cur')
  BY <1>1 DEF Tells, NapPhase
<1>5. QED  BY <1>1, <1>2, <1>3, <1>4, PostKept DEF NapPhase, InputsInv, InputsTypeOK

(* a sleep state that begins again,                                        *)
LEMMA SleepBeginsAgainKept == ASSUME InputsInv, SleepBeginsAgain PROVE Kept
BY QuietKept DEF SleepBeginsAgain, InputsInv, InputsTypeOK

(* the task of the day and night timer,                                    *)
LEMMA DayNightSwitchKept == ASSUME InputsInv, DayNightSwitch PROVE Kept
<1> DEFINE m == ResCtrlConditionChanged
<1>1. CASE cur # "SLEEP"
  BY <1>1, QuietKept DEF DayNightSwitch, InputsInv, InputsTypeOK
<1>2. CASE cur = "SLEEP"
  <2>1. m \in HandlerTask /\ m.type = "RES_CTRL_CONDITION_CHANGED"
    BY Made DEF ResCtrlConditionChanged
  <2>2. queue' = Append(queue, m)
    BY <1>2 DEF DayNightSwitch
  <2> HIDE DEF m
  <2>3. Reports(m, cur, running, tasks, allowed, cur', running', tasks', allowed')
    BY <2>1, OtherReports DEF DayNightSwitch
  <2>4. Tells(m, cur, cur')
    BY <1>2, <2>1 DEF Tells, DayNightSwitch
  <2>5. QED  BY <2>1, <2>2, <2>3, <2>4, PostKept DEF DayNightSwitch, InputsInv, InputsTypeOK
<1>3. QED  BY <1>1, <1>2

(* the switch of the clock itself,                                         *)
LEMMA ConditionSwitchesKept == ASSUME InputsInv, ConditionSwitches PROVE Kept
BY QuietKept DEF ConditionSwitches, InputsInv, InputsTypeOK

(* a process that starts or ends,                                          *)
LEMMA ProcessChangesKept == ASSUME InputsInv, NEW p \in Pid, ProcessChanges(p) PROVE Kept
<1> DEFINE b == p \notin running
           m == ProcessTask(p, b)
<1>1. m \in HandlerTask /\ m.type = "PROCESS_TASK" /\ m.pid = p /\ m.isCreated = b
  BY Made DEF ProcessTask
<1>2. queue' = Append(queue, m) /\ b = (p \in running') /\ running' \subseteq Pid
  BY DEF ProcessChanges, InputsInv, InputsTypeOK
<1>3. \A x \in Pid : x # p => (x \in running <=> x \in running')
  BY DEF ProcessChanges
<1> HIDE DEF b, m
<1>4. \A x \in Pid : m \in ProcessTasks(x) <=> x = p
  BY <1>1 DEF ProcessTasks
<1>5. Reports(m, cur, running, tasks, allowed, cur', running', tasks', allowed')
  BY <1>1, <1>2, <1>3, <1>4 DEF ProcessChanges, Reports, TaskStarted, TaskNews, AllowNews
<1>6. Tells(m, cur, cur')
  BY <1>1 DEF Tells, ProcessChanges
<1>7. QED  BY <1>1, <1>2, <1>5, <1>6, PostKept DEF ProcessChanges, InputsInv, InputsTypeOK

(* a task that begins or ends,                                             *)
LEMMA TaskChangesKept ==
  ASSUME InputsInv, NEW a \in App, NEW t \in TasksOf[a], TaskChanges(a, t) PROVE Kept
<1> DEFINE b == t \notin tasks[a]
           m == BgTaskStatusChange(a, t, b)
<1>1. t \in TaskFlag /\ tasks \in [App -> SUBSET TaskFlag]
  BY AppAssumption DEF InputsInv, InputsTypeOK
<1>2. m \in HandlerTask /\ m.type = "BG_TASK_STATUS_CHANGE" /\ m.app = a /\ m.task = t
      /\ m.started = b
  BY <1>1, Made DEF BgTaskStatusChange
<1>3. /\ queue' = Append(queue, m) /\ tasks' \in [App -> SUBSET TaskFlag]
      /\ b = (t \in tasks'[a])
  BY <1>1 DEF TaskChanges
<1>4. \A x \in App, y \in TaskFlag : <<x, y>> # <<a, t>> => (y \in tasks[x] <=> y \in tasks'[x])
  BY <1>1 DEF TaskChanges
<1> HIDE DEF b, m
<1>5. m \in TaskNews(a, t)
  BY <1>2 DEF TaskNews
<1>6. \A x \in App, y \in TaskFlag : m \in TaskStarted(x, y) => x = a /\ y = t /\ b = TRUE
  BY <1>2 DEF TaskStarted
<1>7. Reports(m, cur, running, tasks, allowed, cur', running', tasks', allowed')
  BY <1>2, <1>3, <1>4, <1>5, <1>6 DEF TaskChanges, Reports, ProcessTasks, AllowNews
<1>8. Tells(m, cur, cur')
  BY <1>2 DEF Tells, TaskChanges
<1>9. QED  BY <1>2, <1>3, <1>7, <1>8, PostKept DEF TaskChanges, InputsInv, InputsTypeOK

(* an exemption that begins or ends,                                       *)
LEMMA AllowChangesKept ==
  ASSUME InputsInv, NEW a \in App, NEW rs \in AllowsOf[a], NEW b \in BOOLEAN,
         AllowChanges(a, rs, b)
  PROVE  Kept
<1> DEFINE m == AllowListChanged(a, rs, b)
<1>1. rs \in SUBSET Resource /\ allowed \in [App -> SUBSET Resource]
  BY AppAssumption DEF InputsInv, InputsTypeOK
<1>2. m \in HandlerTask /\ m.type = "ALLOW_LIST_CHANGED" /\ m.app = a /\ m.allowType = rs
      /\ m.added = b
  BY <1>1, Made DEF AllowListChanged
<1>3. /\ queue' = Append(queue, m) /\ allowed' \in [App -> SUBSET Resource]
      /\ "NETWORK" \in rs => b = ("NETWORK" \in allowed'[a])
      /\ "NETWORK" \notin rs => ("NETWORK" \in allowed[a] <=> "NETWORK" \in allowed'[a])
  BY <1>1 DEF AllowChanges
<1>4. \A x \in App : x # a => allowed'[x] = allowed[x]
  BY <1>1 DEF AllowChanges
<1> HIDE DEF m
<1>5. \A x \in App : m \in AllowNews(x) <=> x = a /\ "NETWORK" \in rs
  BY <1>2 DEF AllowNews
<1>6. Reports(m, cur, running, tasks, allowed, cur', running', tasks', allowed')
  BY <1>2, <1>3, <1>4, <1>5 DEF AllowChanges, Reports, ProcessTasks, TaskNews, TaskStarted
<1>7. Tells(m, cur, cur')
  BY <1>2 DEF Tells, AllowChanges
<1>8. QED  BY <1>2, <1>3, <1>6, <1>7, PostKept DEF AllowChanges, InputsInv, InputsTypeOK

(* and a task service that crashes.                                        *)
LEMMA ServiceCrashesKept ==
  ASSUME InputsInv, NEW t \in TaskService, ServiceCrashes(t) PROVE Kept
<1> DEFINE m == SysAbilityStatusChanged(t)
<1>1. t \in TaskFlag /\ t # "CONTINUOUS_TASK" /\ tasks \in [App -> SUBSET TaskFlag]
  BY AppAssumption DEF InputsInv, InputsTypeOK, TaskFlag
<1>2. m \in HandlerTask /\ m.type = "SYS_ABILITY_STATUS_CHANGED" /\ m.sa = t
  BY <1>1, Made DEF SysAbilityStatusChanged
<1>3. /\ queue' = Append(queue, m) /\ tasks' \in [App -> SUBSET TaskFlag]
      /\ \A x \in App, y \in TaskFlag : y # t => (y \in tasks[x] <=> y \in tasks'[x])
  BY <1>1 DEF ServiceCrashes
<1> HIDE DEF m
<1>4. \A x \in App : m \in TaskNews(x, t)
  BY <1>1, <1>2 DEF TaskNews
<1>5. \A x \in App, y \in TaskFlag : m \notin TaskStarted(x, y)
  BY <1>2 DEF TaskStarted
<1>6. Reports(m, cur, running, tasks, allowed, cur', running', tasks', allowed')
  BY <1>2, <1>3, <1>4, <1>5 DEF ServiceCrashes, Reports, ProcessTasks, AllowNews
<1>7. Tells(m, cur, cur')
  BY <1>2 DEF Tells, ServiceCrashes
<1>8. QED  BY <1>2, <1>3, <1>6, <1>7, PostKept DEF ServiceCrashes, InputsInv, InputsTypeOK

(* The handler runs the task of the observer.                              *)
LEMMA OnProcessStatusChangedKept == ASSUME InputsInv, OnProcessStatusChanged PROVE Kept
<1> DEFINE h == Head(queue)
           u == Tail(queue)
           m == ProcessStateChanged(h.pid, h.isCreated)
<1>1. /\ queue \in Seq(HandlerTask) /\ queue # <<>> /\ h.type = "PROCESS_TASK" /\ cur \in State
      /\ News(queue, cur, running, tasks, allowed)
  BY DEF OnProcessStatusChanged, InputsInv, InputsTypeOK
<1>2. u \in Seq(HandlerTask) /\ h \in HandlerTask
  BY <1>1, TailHas
<1>3. h.pid \in Pid /\ h.isCreated \in BOOLEAN
  BY <1>1, <1>2, Fields
<1>4. m \in HandlerTask /\ m.type = "PROCESS_STATE_CHANGED"
  BY <1>3, Made DEF ProcessStateChanged
<1>5. /\ queue' = Append(u, m) /\ cur' = cur /\ running' = running /\ tasks' = tasks
      /\ allowed' = allowed /\ losses' = losses
  BY DEF OnProcessStatusChanged
<1>6. News(queue', cur', running', tasks', allowed')
  BY <1>1, <1>5, NewsMoved
<1>7. queue' \in Seq(HandlerTask)
  BY <1>2, <1>4, <1>5, AppendHas
<1>8. InputsInv'
  BY <1>6, <1>7 DEF OnProcessStatusChanged, InputsInv, InputsTypeOK
<1>9. ASSUME NEW T, Patient(T), Waits(queue, T) PROVE Waits(queue', T)
  <2>1. Waits(u, T) \/ h \in T
    BY <1>1, <1>9, WaitsTail
  <2>2. h \in T => m \in T
    BY <1>1, <1>9 DEF Patient
  <2> HIDE DEF u, h, m
  <2>3. QED  BY <1>2, <1>4, <1>5, <2>1, <2>2, WaitsAppend
<1>10. Noticed
  BY <1>5, <1>9 DEF Noticed
<1>11. ASSUME NEW f, Chained(queue, f, cur)
       PROVE  \E g : Chained(queue', g, cur') /\ g[0] = f[0]
  <2>1. PICK k : Chained(u, k, cur) /\ Tells(h, f[0], k[0])
    BY <1>1, <1>11, ChainTail
  <2>2. k[0] = f[0] /\ Tells(m, cur, cur)
    BY <1>1, <1>4, <2>1 DEF Tells
  <2> HIDE DEF u, m
  <2>3. QED  BY <1>1, <1>2, <1>4, <1>5, <2>1, <2>2, ChainAppend
<1>12. QED  BY <1>5, <1>8, <1>10, <1>11 DEF Kept

(* Every step around the strategies keeps what the queue owes.             *)
LEMMA AroundKept == ASSUME InputsInv, Around \/ ConditionSwitches PROVE Kept
<1>1. CASE \E p \in Pid : ProcessChanges(p)
  BY <1>1, ProcessChangesKept
<1>2. CASE \E a \in App : \E t \in TasksOf[a] : TaskChanges(a, t)
  BY <1>2, TaskChangesKept
<1>3. CASE \E a \in App : \E rs \in AllowsOf[a], added \in BOOLEAN : AllowChanges(a, rs, added)
  BY <1>3, AllowChangesKept
<1>4. CASE \E t \in TaskService : ServiceCrashes(t)
  BY <1>4, ServiceCrashesKept
<1>5. QED
  BY <1>1, <1>2, <1>3, <1>4, DeviceTransitsKept, SleepPhaseKept, NapPhaseKept,
     SleepBeginsAgainKept, DayNightSwitchKept, ConditionSwitchesKept,
     OnProcessStatusChangedKept DEF Around

(* The handler takes the first message out of the queue.                   *)
LEMMA DispatchedDoes ==
  ASSUME InputsInv, Dispatched
  PROVE  /\ InputsInv' /\ queue' = Tail(queue) /\ queue # <<>>
         /\ queue \in Seq(HandlerTask) /\ Head(queue) \in HandlerTask
         /\ Head(queue).type # "PROCESS_TASK"
         /\ \A f : Chained(queue, f, cur) =>
              \E g : Chained(queue', g, cur') /\ Tells(Head(queue), f[0], g[0])
<1>1. /\ queue \in Seq(HandlerTask) /\ queue # <<>> /\ Head(queue).type # "PROCESS_TASK"
      /\ queue' = Tail(queue) /\ cur' = cur /\ News(queue, cur, running, tasks, allowed)
      /\ running' = running /\ tasks' = tasks /\ allowed' = allowed
  BY DEF Dispatched, InputsInv, InputsTypeOK
<1>2. Tail(queue) \in Seq(HandlerTask) /\ Head(queue) \in HandlerTask
  BY <1>1, TailHas
<1>3. News(queue', cur', running', tasks', allowed')
  BY <1>1, NewsTail
<1>4. InputsInv'
  BY <1>1, <1>2, <1>3 DEF Dispatched, InputsInv, InputsTypeOK
<1>5. ASSUME NEW f, Chained(queue, f, cur)
      PROVE  \E g : Chained(queue', g, cur') /\ Tells(Head(queue), f[0], g[0])
  BY <1>1, <1>5, ChainTail
<1>6. QED  BY <1>1, <1>2, <1>4, <1>5

(* A loss of readiness keeps a suffix of the queue, which still tells of   *)
(* the device up to its work.                                              *)
LEMMA ReadinessLostDoes ==
  ASSUME InputsInv, ReadinessLost, NEW f, Chained(queue, f, cur)
  PROVE  InputsInv' /\ stale' /\ \E g : Chained(queue', g, cur')
<1> DEFINE m == StateTransit(cur, "WORKING")
           late == IF cur = "WORKING" THEN queue ELSE Append(queue, m)
<1>1. /\ queue \in Seq(HandlerTask) /\ cur \in State /\ "WORKING" \in State
      /\ News(queue, cur, running, tasks, allowed) /\ losses \in 0..MaxLosses /\ MaxLosses \in Nat
  BY AppAssumption DEF InputsInv, InputsTypeOK, State
<1>2. /\ m \in HandlerTask /\ m.type = "STATE_TRANSIT" /\ m.pre = cur /\ m.cur = "WORKING"
  BY <1>1, Made DEF StateTransit
<1>3. PICK n \in 0..Len(late) : queue' = SubSeq(late, n + 1, Len(late))
  BY DEF ReadinessLost
<1>4. /\ cur' = "WORKING" /\ opener' = "none" /\ phaseDue' = 0 /\ losses' = losses + 1
      /\ losses < MaxLosses
      /\ running' = running /\ tasks' = tasks /\ allowed' = allowed
      /\ night' = night /\ switching' = switching
  BY DEF ReadinessLost
<1> HIDE DEF m
<1>5. Reports(m, cur, running, tasks, allowed, "WORKING", running, tasks, allowed)
  BY <1>2, OtherReports DEF Asleep
<1>6. Tells(m, cur, "WORKING")
  BY <1>2 DEF Tells
<1>7. late \in Seq(HandlerTask)
  BY <1>1, <1>2, AppendHas
<1>8. News(late, "WORKING", running, tasks, allowed)
  BY <1>1, <1>2, <1>5, NewsAppend
<1>9. \E g : Chained(late, g, "WORKING")
  BY <1>1, <1>2, <1>6, ChainAppend
<1> HIDE DEF late
<1>10. queue' \in Seq(HandlerTask)
  BY <1>3, <1>7, SuffixHas
<1>11. News(queue', cur', running', tasks', allowed')
  BY <1>3, <1>4, <1>7, <1>8, NewsSuffix
<1>12. \E g : Chained(queue', g, cur')
  BY <1>3, <1>4, <1>7, <1>9, ChainSuffix
<1>13. losses' \in 0..MaxLosses /\ stale'
  BY <1>1, <1>4 DEF stale
<1>14. InputsInv'
  BY <1>1, <1>4, <1>10, <1>11, <1>13 DEF InputsInv, InputsTypeOK
<1>15. QED  BY <1>12, <1>13, <1>14

-----------------------------------------------------------------------------
(* The table of the running-lock strategy.                                 *)

LockType == [isProxied : BOOLEAN, isIdle : BOOLEAN, info : [App -> Info]]

Own(info) == \A a \in App : \A p \in info[a].pids : AppOf[p] = a

(* Without losses: the proxied locks are those of the table, and there is  *)
(* no table without a proxy.                                               *)
Regular(s, locks) ==
  /\ locks = IF s.isProxied = TRUE /\ s.isIdle = FALSE THEN Unexempted(s.info) ELSE {}
  /\ s.isProxied = FALSE => s.info = NoInfos

Typed(s, locks) ==
  /\ s \in LockType /\ Own(s.info) /\ locks \subseteq Pid
  /\ s.isProxied = FALSE => s.isIdle = FALSE

(* What a handler makes of the strategy s with these locks.                *)
Sound(s, locks, r) ==
  /\ Typed(r.rl, r.proxied)
  /\ Regular(s, locks) => Regular(r.rl, r.proxied)

(* The processes without exemption, one by one.                            *)
LEMMA UnexemptedHas ==
  ASSUME NEW info \in [App -> Info], Own(info)
  PROVE  Unexempted(info) =
           {p \in Pid : p \in info[AppOf[p]].pids /\ ~ IsExempted(info[AppOf[p]].flags)}
<1>1. \A a \in App : info[a].pids \subseteq Pid
  BY DEF Info
<1>2. \A p \in Pid : AppOf[p] \in App
  BY AppAssumption
<1>3. ASSUME NEW p \in Unexempted(info)
      PROVE  p \in Pid /\ p \in info[AppOf[p]].pids /\ ~ IsExempted(info[AppOf[p]].flags)
  <2>1. PICK a \in App : ~ IsExempted(info[a].flags) /\ p \in info[a].pids
    BY <1>3 DEF Unexempted
  <2>2. AppOf[p] = a
    BY <2>1 DEF Own
  <2>3. QED  BY <1>1, <2>1, <2>2
<1>4. ASSUME NEW p \in Pid, p \in info[AppOf[p]].pids, ~ IsExempted(info[AppOf[p]].flags)
      PROVE  p \in Unexempted(info)
  <2>1. AppOf[p] \in {b \in App : ~ IsExempted(info[b].flags)}
    BY <1>2, <1>4
  <2>2. QED  BY <1>4, <2>1 DEF Unexempted
<1>5. QED  BY <1>3, <1>4

(* Changing one application's record.                                      *)
LEMMA OneRecord ==
  ASSUME NEW s, NEW locks, Typed(s, locks), NEW a \in App, NEW x \in Info,
         \A p \in x.pids : AppOf[p] = a
  PROVE  LET r == [s EXCEPT !.info[a] = x]
         IN  /\ r \in LockType /\ Own(r.info) /\ r.isProxied = s.isProxied /\ r.isIdle = s.isIdle
             /\ r.info[a] = x /\ \A b \in App \ {a} : r.info[b] = s.info[b]
<1> DEFINE r == [s EXCEPT !.info[a] = x]
<1>1. s \in LockType /\ Own(s.info)
  BY DEF Typed
<1>2. r \in LockType /\ r.isProxied = s.isProxied /\ r.isIdle = s.isIdle
      /\ r.info[a] = x /\ \A b \in App \ {a} : r.info[b] = s.info[b]
  BY <1>1 DEF LockType
<1>3. Own(r.info)
  BY <1>1, <1>2 DEF Own
<1>4. QED  BY <1>2, <1>3

(* Adding a flag that exempts, or removing one.                            *)
LEMMA Exemptions ==
  ASSUME NEW flags \in SUBSET Flag, NEW f, f # "RESTRICTED",
         NEW gone, "RESTRICTED" \notin gone
  PROVE  /\ IsExempted(flags) => IsExempted(flags \cup {f})
         /\ IsExempted(flags \ gone) => IsExempted(flags)
BY DEF IsExempted

(* The empty table is a table, and has no process whose lock it would      *)
(* proxy.                                                                  *)
LEMMA NoInfosHas ==
  /\ NoInfos \in [App -> Info] /\ Own(NoInfos) /\ Unexempted(NoInfos) = {}
  /\ Stopped \in LockType /\ NoInfo \in Info
<1>1. NoInfo \in Info /\ NoInfo.pids = {}
  BY DEF NoInfo, Info
<1>2. NoInfos \in [App -> Info] /\ \A a \in App : NoInfos[a] = NoInfo
  BY <1>1 DEF NoInfos
<1>3. Own(NoInfos)
  BY <1>1, <1>2 DEF Own
<1>4. Unexempted(NoInfos) = {}
  BY <1>1, <1>2 DEF Unexempted
<1>5. Stopped \in LockType
  BY <1>2 DEF Stopped, LockType
<1>6. QED  BY <1>1, <1>2, <1>3, <1>4, <1>5

(* The calls to the power manager, which a window holds back.              *)
Proxying(s, pids, locks) == IF s.isIdle = TRUE THEN locks ELSE locks \cup pids
Unproxying(s, pids, locks) == IF s.isIdle = TRUE THEN locks ELSE locks \ pids

(* The records with other flags for one application.                       *)
Flagged(s, a, new) == [s EXCEPT !.info[a] = [s.info[a] EXCEPT !.flags = new]]

(* The locks k follow from them.                                           *)
Follow(s, a, new, locks, k) ==
  /\ s.isProxied = TRUE \/ s.info[a] # NoInfo
  /\ \/ k = locks /\ (IsExempted(s.info[a].flags) <=> IsExempted(new))
     \/ k = Unproxying(s, s.info[a].pids, locks)
        /\ ~ IsExempted(s.info[a].flags) /\ IsExempted(new)
     \/ k = Proxying(s, s.info[a].pids, locks)
        /\ IsExempted(s.info[a].flags) /\ ~ IsExempted(new)

(* The records and the locks after one application's exemption changed.    *)
LEMMA FlagsChanged ==
  ASSUME NEW s, NEW locks, Typed(s, locks), NEW a \in App, NEW new \in SUBSET Flag, NEW k,
         Follow(s, a, new, locks, k)
  PROVE  LET r == Flagged(s, a, new)
         IN  /\ Sound(s, locks, With(r, k))
             /\ r.isProxied = s.isProxied /\ r.isIdle = s.isIdle
             /\ \A b \in App : r.info[b].pids = s.info[b].pids
             /\ \A b \in App : r.info[b].flags = IF b = a THEN new ELSE s.info[b].flags
<1> USE DEF Follow
<1> DEFINE x == [s.info[a] EXCEPT !.flags = new]
           r == [s EXCEPT !.info[a] = x]
<1>1. s \in LockType /\ Own(s.info) /\ s.info \in [App -> Info] /\ locks \subseteq Pid
      /\ s.isProxied \in BOOLEAN /\ s.isIdle \in BOOLEAN
  BY DEF Typed, LockType
<1>2. x \in Info /\ x.pids = s.info[a].pids /\ x.flags = new /\ x.pids \subseteq Pid
  BY <1>1 DEF Info
<1> HIDE DEF x
<1>3. \A p \in x.pids : AppOf[p] = a
  BY <1>1, <1>2 DEF Own
<1>4. /\ r \in LockType /\ Own(r.info) /\ r.isProxied = s.isProxied /\ r.isIdle = s.isIdle
      /\ r.info[a] = x /\ \A b \in App \ {a} : r.info[b] = s.info[b]
  BY <1>2, <1>3, OneRecord
<1>5. With(r, k).rl = r /\ With(r, k).proxied = k
  BY DEF With
<1> HIDE DEF r
<1>6. Typed(r, k)
  BY <1>1, <1>2, <1>4 DEF Typed, Proxying, Unproxying
<1>7. ASSUME Regular(s, locks) PROVE Regular(r, k)
  <2>1. s.isProxied = TRUE
    BY <1>1, <1>7 DEF Regular, NoInfos
  <2>2. CASE s.isIdle = TRUE
    <3>1. locks = {} /\ k = locks
      BY <1>1, <1>7, <2>1, <2>2 DEF Regular, Proxying, Unproxying
    <3>2. QED  BY <1>4, <2>1, <2>2, <3>1 DEF Regular
  <2>3. CASE s.isIdle = FALSE
    <3>1. locks = {p \in Pid : p \in s.info[AppOf[p]].pids /\ ~ IsExempted(s.info[AppOf[p]].flags)}
      BY <1>1, <1>7, <2>1, <2>3, UnexemptedHas DEF Regular
    <3>2. Unexempted(r.info) =
            {p \in Pid : p \in r.info[AppOf[p]].pids /\ ~ IsExempted(r.info[AppOf[p]].flags)}
      BY <1>4, UnexemptedHas DEF LockType
    <3>3. \A p \in Pid : AppOf[p] \in App
      BY AppAssumption
    <3>4. \A p \in Pid : AppOf[p] # a => r.info[AppOf[p]] = s.info[AppOf[p]]
      BY <1>4, <3>3
    <3>5. ASSUME NEW p \in Pid
          PROVE  p \in k <=> p \in r.info[AppOf[p]].pids /\ ~ IsExempted(r.info[AppOf[p]].flags)
      <4>1. p \in locks <=> p \in s.info[AppOf[p]].pids /\ ~ IsExempted(s.info[AppOf[p]].flags)
        BY <3>1
      <4>2. CASE AppOf[p] = a
        <5>1. /\ p \in r.info[AppOf[p]].pids <=> p \in s.info[a].pids
              /\ IsExempted(r.info[AppOf[p]].flags) <=> IsExempted(new)
          BY <1>2, <1>4, <4>2
        <5>2. QED  BY <2>3, <4>1, <4>2, <5>1 DEF Proxying, Unproxying
      <4>3. CASE AppOf[p] # a
        <5>1. p \notin s.info[a].pids
          BY <1>2, <1>3, <4>3
        <5>2. p \in k <=> p \in locks
          BY <2>3, <5>1 DEF Proxying, Unproxying
        <5>3. QED  BY <3>4, <4>1, <4>3, <5>2
      <4>4. QED  BY <4>2, <4>3
    <3>6. k = Unexempted(r.info)
      <4>1. k \subseteq Pid
        BY <1>6 DEF Typed
      <4>2. QED  BY <3>2, <3>5, <4>1
    <3>7. QED  BY <1>4, <2>1, <2>3, <3>6 DEF Regular
  <2>4. QED  BY <1>1, <2>2, <2>3
<1>8. Sound(s, locks, With(r, k))
  BY <1>5, <1>6, <1>7 DEF Sound
<1>9. \A b \in App : r.info[b].pids = s.info[b].pids
  BY <1>2, <1>4
<1>10. \A b \in App : r.info[b].flags = IF b = a THEN new ELSE s.info[b].flags
  BY <1>2, <1>4
<1>11. QED  BY <1>4, <1>8, <1>9, <1>10 DEF r, x, Flagged

-----------------------------------------------------------------------------
(* The handlers of the running-lock strategy.                              *)

(* Neither the processes of the table nor the proxy change.                *)
OnlyFlags(s, r) ==
  /\ r.isProxied = s.isProxied /\ r.isIdle = s.isIdle
  /\ \A b \in App : r.info[b].pids = s.info[b].pids

(* Nothing at all happens.                                                 *)
LEMMA NothingDone ==
  ASSUME NEW s, NEW locks, Typed(s, locks)
  PROVE  Sound(s, locks, With(s, locks))
BY DEF Sound, With

(* An exemption begins.                                                    *)
LEMMA AddExemptionFlagDoes ==
  ASSUME NEW s, NEW locks, Typed(s, locks), NEW a \in App, NEW f \in Flag, f # "RESTRICTED"
  PROVE  LET r == AddExemptionFlag(s, a, f, locks)
         IN  /\ Sound(s, locks, r) /\ OnlyFlags(s, r.rl)
             /\ \A b \in App : \A t \in r.rl.info[b].flags : t \in s.info[b].flags \/ (b = a /\ t = f)
<1> DEFINE old == s.info[a]
           new == old.flags \cup {f}
           x == [old EXCEPT !.flags = new]
           k == IF ~ IsExempted(old.flags) /\ IsExempted(x.flags)
                THEN ProxyRunningLockList(s, FALSE, x.pids, locks) ELSE locks
           next == [s EXCEPT !.info[a] = x]
           r == AddExemptionFlag(s, a, f, locks)
<1> SUFFICES /\ Sound(s, locks, r) /\ OnlyFlags(s, r.rl)
             /\ \A b \in App : \A t \in r.rl.info[b].flags : t \in s.info[b].flags \/ (b = a /\ t = f)
  OBVIOUS
<1>1. s \in LockType /\ old \in Info /\ s.isIdle \in BOOLEAN /\ s.isProxied \in BOOLEAN
  BY DEF Typed, LockType
<1>2. new \in SUBSET Flag /\ x.flags = new /\ x.pids = old.pids
  BY <1>1 DEF Info
<1>3. [old EXCEPT !.flags = @ \cup {f}] = x
  BY <1>1 DEF Info
<1>4. CASE s.isProxied = FALSE \/ old = NoInfo
  <2>1. r = With(s, locks)
    BY <1>1, <1>4 DEF AddExemptionFlag
  <2>2. r.rl = s
    BY <2>1 DEF With
  <2> HIDE DEF r
  <2>3. QED  BY <2>1, <2>2, NothingDone DEF OnlyFlags
<1>5. CASE s.isProxied = TRUE /\ old # NoInfo
  <2>1. r = With(next, k)
    BY <1>1, <1>3, <1>5 DEF AddExemptionFlag
  <2>2. \/ k = locks /\ (IsExempted(old.flags) <=> IsExempted(new))
        \/ k = Unproxying(s, old.pids, locks)
           /\ ~ IsExempted(old.flags) /\ IsExempted(new)
    <3>1. IsExempted(old.flags) => IsExempted(new)
      BY <1>1 DEF IsExempted
    <3>2. ProxyRunningLockList(s, FALSE, x.pids, locks) = Unproxying(s, old.pids, locks)
      <4> HIDE DEF x, old, new, k, next, r
      <4>1. QED  BY <1>1, <1>2 DEF ProxyRunningLockList, Unproxying
    <3> HIDE DEF x, new, r, old
    <3>3. QED  BY <1>2, <3>1, <3>2
  <2> HIDE DEF k, new, r
  <2>3. /\ Sound(s, locks, With(next, k))
        /\ next.isProxied = s.isProxied /\ next.isIdle = s.isIdle
        /\ \A b \in App : next.info[b].pids = s.info[b].pids
        /\ \A b \in App : next.info[b].flags = IF b = a THEN new ELSE s.info[b].flags
    <3>1. s.isProxied = TRUE \/ s.info[a] # NoInfo
      BY <1>5
    <3>2. new \in SUBSET Flag
      BY <1>2
    <3> HIDE DEF old
    <3>3. next = Flagged(s, a, new)
      BY DEF Flagged, old
    <3>4. Follow(s, a, new, locks, k)
      BY <2>2, <3>1 DEF Follow, old
    <3>5. LET z == Flagged(s, a, new)
          IN  /\ Sound(s, locks, With(z, k))
              /\ z.isProxied = s.isProxied /\ z.isIdle = s.isIdle
              /\ \A b \in App : z.info[b].pids = s.info[b].pids
              /\ \A b \in App : z.info[b].flags = IF b = a THEN new ELSE s.info[b].flags
      <4> HIDE DEF next
      <4>1. QED  BY <3>2, <3>4, FlagsChanged
    <3>6. QED  BY <3>3, <3>5, Zenon
  <2>4. r.rl = next
    BY <2>1 DEF With
  <2> HIDE DEF next, old, x
  <2>5. QED  BY <2>1, <2>3, <2>4 DEF OnlyFlags, new, old
<1> HIDE DEF r, old
<1>6. QED  BY <1>1, <1>4, <1>5

(* Exemptions end.                                                         *)
LEMMA RemoveExemptionFlagDoes ==
  ASSUME NEW s, NEW locks, Typed(s, locks), NEW a \in App, NEW fs, "RESTRICTED" \notin fs
  PROVE  LET r == RemoveExemptionFlag(s, a, fs, locks)
         IN  /\ Sound(s, locks, r) /\ OnlyFlags(s, r.rl)
             /\ \A b \in App : \A t \in r.rl.info[b].flags : t \in s.info[b].flags /\ ~ (b = a /\ t \in fs)
<1> DEFINE old == s.info[a]
           new == old.flags \ fs
           x == [old EXCEPT !.flags = new]
           k == IF IsExempted(old.flags) /\ ~ IsExempted(x.flags)
                THEN ProxyRunningLockList(s, TRUE, x.pids, locks) ELSE locks
           next == [s EXCEPT !.info[a] = x]
           r == RemoveExemptionFlag(s, a, fs, locks)
<1> SUFFICES /\ Sound(s, locks, r) /\ OnlyFlags(s, r.rl)
             /\ \A b \in App : \A t \in r.rl.info[b].flags : t \in s.info[b].flags /\ ~ (b = a /\ t \in fs)
  OBVIOUS
<1>1. s \in LockType /\ old \in Info /\ s.isIdle \in BOOLEAN /\ s.isProxied \in BOOLEAN
  BY DEF Typed, LockType
<1>2. new \in SUBSET Flag /\ x.flags = new /\ x.pids = old.pids
  BY <1>1 DEF Info
<1>3. [old EXCEPT !.flags = @ \ fs] = x
  BY <1>1 DEF Info
<1>4. CASE old = NoInfo
  <2>1. r = With(s, locks)
    BY <1>4 DEF RemoveExemptionFlag
  <2>2. r.rl = s /\ s.info[a].flags = {}
    BY <1>4, <2>1 DEF With, NoInfo
  <2> HIDE DEF r
  <2>3. QED  BY <2>1, <2>2, NothingDone DEF OnlyFlags
<1>5. CASE old # NoInfo
  <2>1. r = With(next, k)
    BY <1>1, <1>3, <1>5 DEF RemoveExemptionFlag
  <2>2. \/ k = locks /\ (IsExempted(old.flags) <=> IsExempted(new))
        \/ k = Proxying(s, old.pids, locks)
           /\ IsExempted(old.flags) /\ ~ IsExempted(new)
    <3>1. IsExempted(new) => IsExempted(old.flags)
      BY <1>1 DEF IsExempted
    <3>2. ProxyRunningLockList(s, TRUE, x.pids, locks) = Proxying(s, old.pids, locks)
      <4> HIDE DEF x, old, new, k, next, r
      <4>1. QED  BY <1>1, <1>2 DEF ProxyRunningLockList, Proxying
    <3> HIDE DEF x, new, r, old
    <3>3. QED  BY <1>2, <3>1, <3>2
  <2> HIDE DEF k, new, r
  <2>3. /\ Sound(s, locks, With(next, k))
        /\ next.isProxied = s.isProxied /\ next.isIdle = s.isIdle
        /\ \A b \in App : next.info[b].pids = s.info[b].pids
        /\ \A b \in App : next.info[b].flags = IF b = a THEN new ELSE s.info[b].flags
    <3>1. s.isProxied = TRUE \/ s.info[a] # NoInfo
      BY <1>5
    <3>2. new \in SUBSET Flag
      BY <1>2
    <3> HIDE DEF old
    <3>3. next = Flagged(s, a, new)
      BY DEF Flagged, old
    <3>4. Follow(s, a, new, locks, k)
      BY <2>2, <3>1 DEF Follow, old
    <3>5. LET z == Flagged(s, a, new)
          IN  /\ Sound(s, locks, With(z, k))
              /\ z.isProxied = s.isProxied /\ z.isIdle = s.isIdle
              /\ \A b \in App : z.info[b].pids = s.info[b].pids
              /\ \A b \in App : z.info[b].flags = IF b = a THEN new ELSE s.info[b].flags
      <4> HIDE DEF next
      <4>1. QED  BY <3>2, <3>4, FlagsChanged
    <3>6. QED  BY <3>3, <3>5, Zenon
  <2>4. r.rl = next
    BY <2>1 DEF With
  <2> HIDE DEF next, old, x
  <2>5. QED  BY <2>1, <2>3, <2>4 DEF OnlyFlags, new, old
<1> HIDE DEF r, old
<1>6. QED  BY <1>4, <1>5

(* The table, when it is built, says what is the case.                     *)
LEMMA InitProxiedAppInfoHas ==
  ASSUME InputsTypeOK
  PROVE  /\ InitProxiedAppInfo \in [App -> Info] /\ Own(InitProxiedAppInfo)
         /\ \A p \in Pid : p \in InitProxiedAppInfo[AppOf[p]].pids <=> p \in running
         /\ \A a \in App, t \in TaskFlag : t \in InitProxiedAppInfo[a].flags => t \in tasks[a]
<1> DEFINE info == InitProxiedAppInfo
<1>1. running \subseteq Pid /\ tasks \in [App -> SUBSET TaskFlag]
  BY DEF InputsTypeOK
<1>2. ASSUME NEW a \in App PROVE InitFlags(a) \subseteq Flag
  BY <1>1, <1>2 DEF InitFlags, SystemFlags, Given, ListedFlags, Flag
<1>3. ASSUME NEW a \in App, NEW t \in TaskFlag PROVE t \in InitFlags(a) => t \in tasks[a]
  BY <1>3 DEF InitFlags, SystemFlags, Given, ListedFlags, TaskFlag
<1>4. \A a \in App : PidsOf(a) \subseteq Pid /\ \A p \in PidsOf(a) : AppOf[p] = a
  BY <1>1 DEF PidsOf
<1>5. \A a \in App : info[a] = IF IsRunning(a) THEN [pids |-> PidsOf(a), flags |-> InitFlags(a)]
                               ELSE NoInfo
  BY DEF InitProxiedAppInfo
<1>6. NoInfo.pids = {} /\ NoInfo.flags = {} /\ NoInfo \in Info
  BY DEF NoInfo, Info
<1>7. \A a \in App : [pids |-> PidsOf(a), flags |-> InitFlags(a)] \in Info
  BY <1>2, <1>4 DEF Info
<1> DEFINE asked(a) == [pids |-> PidsOf(a), flags |-> InitFlags(a)]
<1>8. \A a \in App : asked(a).pids = PidsOf(a) /\ asked(a).flags = InitFlags(a)
  OBVIOUS
<1> HIDE DEF asked
<1>9. \A a \in App : info[a] = IF IsRunning(a) THEN asked(a) ELSE NoInfo
  BY <1>5 DEF asked
<1>10. \A a \in App : info[a] \in Info
  BY <1>6, <1>7, <1>9 DEF asked
<1>11. info \in [App -> Info]
  BY <1>10 DEF InitProxiedAppInfo
<1> HIDE DEF info
<1>12. Own(info)
  BY <1>4, <1>6, <1>8, <1>9 DEF Own
<1>13. ASSUME NEW p \in Pid PROVE p \in info[AppOf[p]].pids <=> p \in running
  <2>1. AppOf[p] \in App
    BY AppAssumption
  <2>2. p \in running => IsRunning(AppOf[p])
    BY DEF IsRunning
  <2>3. p \in PidsOf(AppOf[p]) <=> p \in running
    BY DEF PidsOf
  <2>4. QED  BY <1>6, <1>8, <1>9, <2>1, <2>2, <2>3
<1>14. ASSUME NEW a \in App, NEW t \in TaskFlag PROVE t \in info[a].flags => t \in tasks[a]
  BY <1>3, <1>6, <1>14, <1>8, <1>9
<1>15. QED  BY <1>11, <1>12, <1>13, <1>14 DEF info

(* The processes of the table without exemption are proxied or given back, *)
(* with a table of one's choice.                                           *)
Tabled(s, info) == [s EXCEPT !.info = info]

(* A record that is given another table keeps its flags.                   *)
LEMMA TabledHas ==
  ASSUME NEW s \in LockType, NEW info \in [App -> Info]
  PROVE  /\ Tabled(s, info) \in LockType /\ Tabled(s, info).info = info
         /\ Tabled(s, info).isProxied = s.isProxied /\ Tabled(s, info).isIdle = s.isIdle
BY DEF Tabled, LockType

(* The locks of a table are in Pid.                                        *)
LEMMA UnexemptedType == ASSUME NEW info \in [App -> Info] PROVE Unexempted(info) \subseteq Pid
BY DEF Unexempted, Info

(* The calls to the power manager proxy processes.                         *)
LEMMA CallsType ==
  ASSUME NEW s, NEW locks \in SUBSET Pid, NEW pids
  PROVE  /\ Unproxying(s, pids, locks) \subseteq Pid
         /\ pids \subseteq Pid => Proxying(s, pids, locks) \subseteq Pid
BY DEF Proxying, Unproxying

(* Ending the proxy gives back what the table says.                        *)
LEMMA StopProxyInnerDoes ==
  ASSUME NEW s, NEW locks, Typed(s, locks)
  PROVE  /\ StopProxyInner(s, locks).rl = Tabled(s, NoInfos)
         /\ StopProxyInner(s, locks).proxied = Unproxying(s, Unexempted(s.info), locks)
<1>1. s \in LockType /\ s.isIdle \in BOOLEAN
  BY DEF Typed, LockType
<1>2. ProxyRunningLockList(s, FALSE, Unexempted(s.info), locks)
        = Unproxying(s, Unexempted(s.info), locks)
  BY <1>1 DEF ProxyRunningLockList, Unproxying
<1>3. ProxyAppAndProcess(s, FALSE, locks) = With(s, Unproxying(s, Unexempted(s.info), locks))
  BY <1>2 DEF ProxyAppAndProcess
<1> DEFINE w == With(s, Unproxying(s, Unexempted(s.info), locks))
<1>4. w.rl = s /\ w.proxied = Unproxying(s, Unexempted(s.info), locks)
  BY DEF With
<1>5. w = [rl |-> s, proxied |-> w.proxied]
  BY DEF With
<1> HIDE DEF w
<1>6. StopProxyInner(s, locks) = [w EXCEPT !.rl.info = NoInfos]
  BY <1>3 DEF StopProxyInner, w
<1>7. StopProxyInner(s, locks) = [rl |-> Tabled(s, NoInfos), proxied |-> w.proxied]
  BY <1>5, <1>6 DEF Tabled
<1>8. QED  BY <1>4, <1>7

(* The conditions changed: the proxy, if it is on, begins anew.            *)
LEMMA UpdateResourceConfigDoes ==
  ASSUME InputsTypeOK, NEW s, NEW locks, Typed(s, locks), NEW answers \in BOOLEAN
  PROVE  LET r == UpdateResourceConfig(s, answers, locks)
         IN  /\ Typed(r.rl, r.proxied)
             /\ r.rl = Tabled(s, IF answers = TRUE THEN InitProxiedAppInfo ELSE NoInfos)
             /\ s.isProxied = TRUE /\ Regular(s, locks) => Regular(r.rl, r.proxied)
<1> DEFINE u == Tabled(s, NoInfos)
           k == Unproxying(s, Unexempted(s.info), locks)
           v == Tabled(s, InitProxiedAppInfo)
           n == Proxying(s, Unexempted(InitProxiedAppInfo), k)
           r == UpdateResourceConfig(s, answers, locks)
<1> SUFFICES /\ Typed(r.rl, r.proxied)
             /\ r.rl = Tabled(s, IF answers = TRUE THEN InitProxiedAppInfo ELSE NoInfos)
             /\ s.isProxied = TRUE /\ Regular(s, locks) => Regular(r.rl, r.proxied)
  OBVIOUS
<1>1. /\ s \in LockType /\ s.isIdle \in BOOLEAN /\ s.isProxied \in BOOLEAN /\ Own(s.info)
      /\ s.info \in [App -> Info] /\ locks \in SUBSET Pid
      /\ (s.isProxied = FALSE => s.isIdle = FALSE)
  BY DEF Typed, LockType
<1>2. /\ InitProxiedAppInfo \in [App -> Info] /\ Own(InitProxiedAppInfo)
      /\ NoInfos \in [App -> Info] /\ Own(NoInfos) /\ Unexempted(NoInfos) = {}
  BY InitProxiedAppInfoHas, NoInfosHas
<1>3. /\ u \in LockType /\ u.info = NoInfos /\ u.isProxied = s.isProxied /\ u.isIdle = s.isIdle
      /\ v \in LockType /\ v.info = InitProxiedAppInfo
      /\ v.isProxied = s.isProxied /\ v.isIdle = s.isIdle
  BY <1>1, <1>2, TabledHas
<1>4. Unexempted(InitProxiedAppInfo) \subseteq Pid
  BY <1>2, UnexemptedType
<1>5. k \subseteq Pid /\ n \subseteq Pid
  <2>1. k \in SUBSET Pid
    BY <1>1, CallsType
  <2> HIDE DEF k
  <2>2. QED  BY <1>4, <2>1, CallsType
<1>6. Typed(u, k) /\ Typed(v, n)
  <2> HIDE DEF u, v, k, n
  <2>1. QED  BY <1>1, <1>2, <1>3, <1>5 DEF Typed
<1>7. ASSUME s.isProxied = TRUE, Regular(s, locks) PROVE Regular(u, k) /\ Regular(v, n)
  <2>1. locks = IF s.isIdle = FALSE THEN Unexempted(s.info) ELSE {}
    BY <1>7 DEF Regular
  <2>2. k = {}
    BY <1>1, <2>1 DEF Unproxying
  <2>3. n = IF s.isIdle = FALSE THEN Unexempted(InitProxiedAppInfo) ELSE {}
    BY <1>1, <2>2 DEF Proxying
  <2> HIDE DEF u, v, k, n
  <2>4. QED  BY <1>1, <1>2, <1>3, <1>7, <2>2, <2>3 DEF Regular
<1>8. StopProxyInner(s, locks).rl = u /\ StopProxyInner(s, locks).proxied = k
  BY StopProxyInnerDoes
<1>9. CASE answers = TRUE
  <2>1. [u EXCEPT !.info = InitProxiedAppInfo] = v
    BY DEF Tabled
  <2>2. ProxyRunningLockList(v, TRUE, Unexempted(v.info), k) = n
    <3>1. ProxyRunningLockList(v, TRUE, Unexempted(v.info), k)
            = Proxying(v, Unexempted(v.info), k)
      <4> HIDE DEF v, k, n
      <4>1. QED  BY <1>1, <1>3 DEF ProxyRunningLockList, Proxying
    <3>2. QED  BY <1>3, <3>1 DEF Proxying
  <2> HIDE DEF u, v, k, n
  <2>3. r = With(v, n)
    BY <1>8, <1>9, <2>1, <2>2 DEF UpdateResourceConfig, StartProxyInner, ProxyAppAndProcess
  <2>4. r.rl = v /\ r.proxied = n
    BY <2>3 DEF With
  <2> HIDE DEF r
  <2>5. QED  BY <1>6, <1>7, <1>9, <2>4 DEF v
<1>10. CASE answers = FALSE
  <2>1. [u EXCEPT !.info = NoInfos] = u
    BY DEF Tabled
  <2> HIDE DEF u, v, k, n
  <2>2. r = With(u, k)
    BY <1>8, <1>10, <2>1 DEF UpdateResourceConfig, StartProxyInner
  <2>3. r.rl = u /\ r.proxied = k
    BY <2>2 DEF With
  <2> HIDE DEF r
  <2>4. QED  BY <1>6, <1>7, <1>10, <2>3 DEF u
<1>11. QED  BY <1>9, <1>10

(* The proxy is as it was, or could not be started, or is.                 *)
Started(s, m, r) ==
  \/ r = s
  \/ s.isProxied = FALSE /\ r.isProxied = FALSE /\ r.info = NoInfos
  \/ /\ s.isProxied = FALSE /\ m.cur = "SLEEP"
     /\ r.isProxied = TRUE /\ r.isIdle = FALSE /\ r.info = InitProxiedAppInfo

(* The proxy begins in the deep phase of sleep, with a new table.          *)
LEMMA StartProxyDoes ==
  ASSUME InputsTypeOK, NEW s, NEW locks, Typed(s, locks), NEW m, NEW answers \in BOOLEAN
  PROVE  LET r == StartProxy(s, m, answers, locks)
         IN  /\ Sound(s, locks, r)
             /\ Started(s, m, r.rl)
<1> DEFINE u == Tabled(s, NoInfos)
           v == Tabled(s, InitProxiedAppInfo)
           k == Proxying(s, Unexempted(InitProxiedAppInfo), locks)
           n == [[v EXCEPT !.isProxied = TRUE] EXCEPT !.isIdle = FALSE]
           r == StartProxy(s, m, answers, locks)
           start == StartProxyInner(s, answers, locks)
<1> SUFFICES /\ Sound(s, locks, r)
             /\ \/ r.rl = s
                \/ s.isProxied = FALSE /\ r.rl.isProxied = FALSE /\ r.rl.info = NoInfos
                \/ /\ s.isProxied = FALSE /\ m.cur = "SLEEP"
                   /\ r.rl.isProxied = TRUE /\ r.rl.isIdle = FALSE
                   /\ r.rl.info = InitProxiedAppInfo
  BY DEF Started
<1>1. /\ s \in LockType /\ s.isIdle \in BOOLEAN /\ s.isProxied \in BOOLEAN /\ Own(s.info)
      /\ s.info \in [App -> Info] /\ locks \in SUBSET Pid
      /\ (s.isProxied = FALSE => s.isIdle = FALSE)
  BY DEF Typed, LockType
<1>2. /\ InitProxiedAppInfo \in [App -> Info] /\ Own(InitProxiedAppInfo)
      /\ NoInfos \in [App -> Info] /\ Own(NoInfos) /\ Unexempted(NoInfos) = {}
  BY InitProxiedAppInfoHas, NoInfosHas
<1>3. /\ u \in LockType /\ u.info = NoInfos /\ u.isProxied = s.isProxied /\ u.isIdle = s.isIdle
      /\ v \in LockType /\ v.info = InitProxiedAppInfo
      /\ v.isProxied = s.isProxied /\ v.isIdle = s.isIdle
  BY <1>1, <1>2, TabledHas
<1>4. Unexempted(InitProxiedAppInfo) \subseteq Pid
  BY <1>2, UnexemptedType
<1>5. k \in SUBSET Pid
  BY <1>1, <1>4, CallsType
<1>6. /\ n \in LockType /\ n.isProxied = TRUE /\ n.isIdle = FALSE /\ n.info = InitProxiedAppInfo
  <2> HIDE DEF v
  <2>1. QED  BY <1>3 DEF LockType
<1>7. CASE s.isProxied = TRUE \/ m.cur # "SLEEP" \/ m.phase # AppResDeep
  <2>1. r = With(s, locks) /\ With(s, locks).rl = s
    BY <1>1, <1>7 DEF StartProxy, With
  <2> HIDE DEF r
  <2>2. QED  BY <2>1, NothingDone
<1>8. CASE s.isProxied = FALSE /\ m.cur = "SLEEP" /\ m.phase = AppResDeep
  <2>1. CASE answers = TRUE
    <3>1. ProxyRunningLockList(v, TRUE, Unexempted(v.info), locks) = k
      <4>1. ProxyRunningLockList(v, TRUE, Unexempted(v.info), locks)
              = Proxying(v, Unexempted(v.info), locks)
        <5> HIDE DEF v, k, n
        <5>1. QED  BY <1>1, <1>3 DEF ProxyRunningLockList, Proxying
      <4>2. QED  BY <1>3, <4>1 DEF Proxying
    <3>2. start.ok = TRUE /\ start.is = With(v, k)
      <4>1. start = [ok |-> TRUE, is |-> With(v, k)]
        <5>1. [s EXCEPT !.info = InitProxiedAppInfo] = v
          BY DEF Tabled
        <5> HIDE DEF k, n, v
        <5>2. QED  BY <2>1, <3>1, <5>1 DEF StartProxyInner, ProxyAppAndProcess
      <4>2. QED  BY <4>1
    <3>3. r = [start.is EXCEPT !.rl.isProxied = TRUE, !.rl.isIdle = FALSE]
      BY <1>1, <1>8, <3>2 DEF StartProxy
    <3>4. r.rl = n /\ r.proxied = k
      <4> HIDE DEF v, k, r, start
      <4>1. QED  BY <3>2, <3>3 DEF With
    <3> HIDE DEF n, v, k, r, start
    <3>5. Typed(n, k)
      BY <1>2, <1>5, <1>6 DEF Typed
    <3>6. ASSUME Regular(s, locks) PROVE Regular(n, k)
      <4>1. locks = {}
        BY <1>1, <1>8, <3>6 DEF Regular
      <4>2. k = Unexempted(InitProxiedAppInfo)
        BY <1>1, <1>8, <4>1 DEF k, Proxying
      <4>3. QED  BY <1>6, <4>2 DEF Regular
    <3>7. QED  BY <1>6, <1>8, <3>4, <3>5, <3>6 DEF Sound
  <2>2. CASE answers = FALSE
    <3>1. start.ok = FALSE /\ start.is = With(u, locks)
      <4>1. start = [ok |-> FALSE, is |-> With(u, locks)]
        BY <2>2 DEF StartProxyInner, Tabled
      <4>2. QED  BY <4>1
    <3>2. r = With(u, locks)
      BY <1>1, <1>8, <3>1 DEF StartProxy
    <3> HIDE DEF u, r
    <3>3. r.rl = u /\ r.proxied = locks
      BY <3>2 DEF With
    <3>4. Typed(u, locks)
      BY <1>1, <1>2, <1>3 DEF Typed
    <3>5. ASSUME Regular(s, locks) PROVE Regular(u, locks)
      BY <1>1, <1>3, <1>8, <3>5 DEF Regular
    <3>6. QED  BY <1>3, <1>8, <3>3, <3>4, <3>5 DEF Sound
  <2>3. QED  BY <2>1, <2>2
<1>9. QED  BY <1>1, <1>7, <1>8

(* A window gives the locks back, and takes them again; waking ends it.    *)
LEMMA StopProxyDoes ==
  ASSUME NEW s, NEW locks, Typed(s, locks), NEW m, m.pre \in State, m.cur \in State
  PROVE  LET r == StopProxy(s, m, locks)
         IN  /\ Sound(s, locks, r)
             /\ \/ r.rl = s /\ (s.isProxied = TRUE => m.pre \notin Asleep)
                \/ r.rl = Stopped
                \/ /\ r.rl.isProxied = TRUE /\ m.cur \in Asleep /\ m.pre \in Asleep
                   /\ s.isProxied = TRUE /\ r.rl.info = s.info
<1> DEFINE u == Unproxying(s, Unexempted(s.info), locks)
           k == locks \cup Unexempted(s.info)
           i == [s EXCEPT !.isIdle = TRUE]
           w == [s EXCEPT !.isIdle = FALSE]
           r == StopProxy(s, m, locks)
<1> SUFFICES /\ Sound(s, locks, r)
             /\ \/ r.rl = s /\ (s.isProxied = TRUE => m.pre \notin Asleep)
                \/ r.rl = Stopped
                \/ /\ r.rl.isProxied = TRUE /\ m.cur \in Asleep /\ m.pre \in Asleep
                   /\ s.isProxied = TRUE /\ r.rl.info = s.info
  OBVIOUS
<1>1. /\ s \in LockType /\ s.isIdle \in BOOLEAN /\ s.isProxied \in BOOLEAN /\ Own(s.info)
      /\ s.info \in [App -> Info] /\ locks \in SUBSET Pid
      /\ (s.isProxied = FALSE => s.isIdle = FALSE)
  BY DEF Typed, LockType
<1>2. Unexempted(s.info) \subseteq Pid
  BY <1>1, UnexemptedType
<1>3. u \in SUBSET Pid /\ k \in SUBSET Pid
  BY <1>1, <1>2, CallsType
<1>4. /\ i \in LockType /\ i.isIdle = TRUE /\ i.isProxied = s.isProxied /\ i.info = s.info
      /\ w \in LockType /\ w.isIdle = FALSE /\ w.isProxied = s.isProxied /\ w.info = s.info
  BY <1>1 DEF LockType
<1>5. ASSUME Regular(s, locks) PROVE u = {} /\ (s.isProxied = TRUE => k = Unexempted(s.info))
  BY <1>1, <1>5 DEF Regular, Unproxying
<1>6. ProxyAppAndProcess(s, FALSE, locks) = With(s, u)
  BY <1>1 DEF ProxyAppAndProcess, ProxyRunningLockList, Unproxying
<1>7. ProxyAppAndProcess(w, TRUE, locks) = With(w, k)
  <2> HIDE DEF w
  <2>1. QED  BY <1>4 DEF ProxyAppAndProcess, ProxyRunningLockList
<1>8. StopProxyInner(s, locks).proxied = u
  BY StopProxyInnerDoes
<1> HIDE DEF u, k
<1>9. CASE s.isProxied = FALSE \/ m.pre \notin Asleep
  <2>1. r = With(s, locks) /\ With(s, locks).rl = s
    BY <1>1, <1>9 DEF StopProxy, With, Asleep
  <2> HIDE DEF r
  <2>2. QED  BY <1>9, <2>1, NothingDone
<1>10. CASE s.isProxied = TRUE /\ m.pre = "SLEEP" /\ m.cur = "MAINTENANCE"
  <2>1. r = [With(s, u) EXCEPT !.rl.isIdle = TRUE]
    BY <1>6, <1>10 DEF StopProxy
  <2>2. r.rl = i /\ r.proxied = u
    BY <2>1 DEF With
  <2> HIDE DEF r, i
  <2>3. Typed(i, u)
    BY <1>1, <1>3, <1>4, <1>10 DEF Typed
  <2>4. ASSUME Regular(s, locks) PROVE Regular(i, u)
    BY <1>4, <1>5, <1>10, <2>4 DEF Regular
  <2>5. QED  BY <1>4, <1>10, <2>2, <2>3, <2>4 DEF Sound, Asleep
<1>11. CASE s.isProxied = TRUE /\ m.pre = "MAINTENANCE" /\ m.cur = "SLEEP"
  <2>1. r = With(w, k)
    BY <1>7, <1>11 DEF StopProxy
  <2>2. r.rl = w /\ r.proxied = k
    BY <2>1 DEF With
  <2> HIDE DEF r, w
  <2>3. Typed(w, k)
    BY <1>1, <1>3, <1>4, <1>11 DEF Typed
  <2>4. ASSUME Regular(s, locks) PROVE Regular(w, k)
    BY <1>4, <1>5, <1>11, <2>4 DEF Regular
  <2>5. QED  BY <1>4, <1>11, <2>2, <2>3, <2>4 DEF Sound, Asleep
<1>12. CASE /\ s.isProxied = TRUE /\ m.pre \in Asleep
            /\ ~ (m.pre = "SLEEP" /\ m.cur = "MAINTENANCE")
            /\ ~ (m.pre = "MAINTENANCE" /\ m.cur = "SLEEP")
  <2>1. r = With(Stopped, u)
    BY <1>8, <1>12 DEF StopProxy, Asleep
  <2>2. r.rl = Stopped /\ r.proxied = u
    BY <2>1 DEF With
  <2> HIDE DEF r
  <2>3. /\ Stopped \in LockType /\ Stopped.info = NoInfos /\ Stopped.isProxied = FALSE
        /\ Stopped.isIdle = FALSE /\ Own(NoInfos)
    BY NoInfosHas DEF Stopped
  <2>4. Typed(Stopped, u)
    BY <1>3, <2>3 DEF Typed
  <2>5. ASSUME Regular(s, locks) PROVE Regular(Stopped, u)
    BY <1>5, <2>3, <2>5 DEF Regular
  <2>6. QED  BY <2>2, <2>4, <2>5 DEF Sound
<1>13. QED  BY <1>1, <1>9, <1>10, <1>11, <1>12

(* Flags may be taken from every record at once.                           *)
Stripped(info, gone) == [a \in App |-> [info[a] EXCEPT !.flags = @ \ gone]]

(* What is in a table after the exemptions of a crashed service are taken  *)
(* out.                                                                    *)
LEMMA StrippedHas ==
  ASSUME NEW info \in [App -> Info], NEW gone
  PROVE  /\ Stripped(info, gone) \in [App -> Info]
         /\ \A a \in App : /\ Stripped(info, gone)[a].pids = info[a].pids
                           /\ Stripped(info, gone)[a].flags = info[a].flags \ gone
<1>1. ASSUME NEW a \in App
      PROVE  /\ [info[a] EXCEPT !.flags = @ \ gone] \in Info
             /\ [info[a] EXCEPT !.flags = @ \ gone].pids = info[a].pids
             /\ [info[a] EXCEPT !.flags = @ \ gone].flags = info[a].flags \ gone
  <2>1. info[a] \in Info
    OBVIOUS
  <2>2. QED  BY <2>1 DEF Info
<1>2. QED  BY <1>1 DEF Stripped

(* A task service crashed: its tasks exempt nobody any more.               *)
LEMMA ResetProxyStatusDoes ==
  ASSUME NEW s, NEW locks, Typed(s, locks)
  PROVE  LET r == ResetProxyStatus(s, locks)
         IN  /\ Sound(s, locks, r) /\ OnlyFlags(s, r.rl)
             /\ \A b \in App : \A t \in r.rl.info[b].flags :
                  /\ t \in s.info[b].flags
                  /\ s.isProxied = TRUE /\ s.isIdle = FALSE =>
                       t \notin {"TRANSIENT_TASK", "WORK_SCHEDULER"}
<1> DEFINE gone == {"TRANSIENT_TASK", "WORK_SCHEDULER"}
           info == Stripped(s.info, gone)
           lost == {a \in App : IsExempted(s.info[a].flags) /\ ~ IsExempted(info[a].flags)}
           k == locks \cup UNION {info[a].pids : a \in lost}
           v == Tabled(s, info)
           r == ResetProxyStatus(s, locks)
<1> SUFFICES /\ Sound(s, locks, r) /\ OnlyFlags(s, r.rl)
             /\ \A b \in App : \A t \in r.rl.info[b].flags :
                  /\ t \in s.info[b].flags
                  /\ s.isProxied = TRUE /\ s.isIdle = FALSE => t \notin gone
  OBVIOUS
<1>1. /\ s \in LockType /\ s.isIdle \in BOOLEAN /\ s.isProxied \in BOOLEAN /\ Own(s.info)
      /\ s.info \in [App -> Info] /\ locks \in SUBSET Pid
      /\ (s.isProxied = FALSE => s.isIdle = FALSE)
  BY DEF Typed, LockType
<1>2. "RESTRICTED" \notin gone
  OBVIOUS
<1> HIDE DEF gone
<1>3. /\ info \in [App -> Info]
      /\ \A a \in App : info[a].pids = s.info[a].pids /\ info[a].flags = s.info[a].flags \ gone
  BY <1>1, StrippedHas
<1>4. CASE s.isProxied = FALSE \/ s.isIdle = TRUE
  <2>1. r = With(s, locks) /\ With(s, locks).rl = s
    BY <1>1, <1>4 DEF ResetProxyStatus, With
  <2> HIDE DEF r
  <2>2. QED  BY <1>4, <2>1, NothingDone DEF OnlyFlags
<1>5. CASE s.isProxied = TRUE /\ s.isIdle = FALSE
  <2>1. r = With(v, k)
    BY <1>1, <1>5 DEF ResetProxyStatus, Stripped, Tabled, gone
  <2>2. r.rl = v /\ r.proxied = k
    BY <2>1 DEF With
  <2> HIDE DEF r, info
  <2>3. v \in LockType /\ v.info = info /\ v.isProxied = TRUE /\ v.isIdle = FALSE
    BY <1>1, <1>3, <1>5, TabledHas
  <2> HIDE DEF v
  <2>4. Own(info)
    BY <1>1, <1>3 DEF Own
  <2>5. \A a \in App : IsExempted(info[a].flags) => IsExempted(s.info[a].flags)
    BY <1>2, <1>3 DEF IsExempted
  <2>6. \A p \in Pid : AppOf[p] \in App
    BY AppAssumption
  <2>7. \A p : p \in k <=> p \in locks \/ \E a \in lost : p \in info[a].pids
    OBVIOUS
  <2>8. k \subseteq Pid
    BY <1>1, <1>3, <2>7 DEF Info
  <2>9. \A p \in Pid : p \in k <=>
          \/ p \in locks
          \/ /\ p \in s.info[AppOf[p]].pids
             /\ IsExempted(s.info[AppOf[p]].flags) /\ ~ IsExempted(info[AppOf[p]].flags)
    BY <1>3, <2>4, <2>6, <2>7 DEF Own
  <2> HIDE DEF k, lost
  <2>10. Typed(v, k)
    BY <2>3, <2>4, <2>8 DEF Typed
  <2>11. ASSUME Regular(s, locks) PROVE Regular(v, k)
    <3>1. locks = {p \in Pid : p \in s.info[AppOf[p]].pids /\ ~ IsExempted(s.info[AppOf[p]].flags)}
      BY <1>1, <1>5, <2>11, UnexemptedHas DEF Regular
    <3>2. Unexempted(info) =
            {p \in Pid : p \in info[AppOf[p]].pids /\ ~ IsExempted(info[AppOf[p]].flags)}
      BY <1>3, <2>4, UnexemptedHas
    <3>3. \A p \in Pid : p \in k <=> p \in s.info[AppOf[p]].pids /\ ~ IsExempted(info[AppOf[p]].flags)
      BY <2>5, <2>6, <2>9, <3>1
    <3>4. \A p \in Pid : s.info[AppOf[p]].pids = info[AppOf[p]].pids
      BY <1>3, <2>6
    <3>5. k = Unexempted(info)
      BY <2>8, <3>2, <3>3, <3>4
    <3>6. QED  BY <2>3, <3>5 DEF Regular
  <2>12. QED  BY <1>3, <1>5, <2>2, <2>3, <2>10, <2>11 DEF Sound, OnlyFlags
<1>6. QED  BY <1>1, <1>4, <1>5

(* The record x of the application of a process, and the flags that decide *)
(* about its locks.                                                        *)
Recorded(s, m, x, flags, locks, k) ==
  LET old == s.info[AppOf[m.pid]]
  IN  /\ x \in Info
      /\ x.pids = IF m.isCreated = TRUE THEN old.pids \cup {m.pid} ELSE old.pids \ {m.pid}
      /\ \A t \in TaskFlag : t \in x.flags => t \in old.flags
      /\ flags = x.flags \/ x.pids = {}
      /\ old.pids # {} => flags = old.flags
      /\ k = IF IsExempted(flags) THEN locks
             ELSE IF m.isCreated = TRUE THEN Proxying(s, {m.pid}, locks)
             ELSE Unproxying(s, {m.pid}, locks)

(* A process was created, or died.                                         *)
LEMMA HandleProcessStatusChangedDoes ==
  ASSUME InputsTypeOK, NEW s, NEW locks, Typed(s, locks),
         NEW m, m.pid \in Pid, m.isCreated \in BOOLEAN
  PROVE  LET r == HandleProcessStatusChanged(s, m, locks)
         IN  /\ Sound(s, locks, r)
             /\ r.rl.isProxied = s.isProxied /\ r.rl.isIdle = s.isIdle
             /\ s.isProxied = TRUE => \A p \in Pid :
                  p \in r.rl.info[AppOf[p]].pids <=>
                    IF p = m.pid THEN m.isCreated = TRUE ELSE p \in s.info[AppOf[p]].pids
             /\ \A b \in App, t \in TaskFlag : t \in r.rl.info[b].flags => t \in s.info[b].flags
<1> DEFINE a == AppOf[m.pid]
           r == HandleProcessStatusChanged(s, m, locks)
           Goal == /\ Sound(s, locks, r)
                   /\ r.rl.isProxied = s.isProxied /\ r.rl.isIdle = s.isIdle
                   /\ s.isProxied = TRUE => \A p \in Pid :
                        p \in r.rl.info[AppOf[p]].pids <=>
                          IF p = m.pid THEN m.isCreated = TRUE ELSE p \in s.info[AppOf[p]].pids
                   /\ \A b \in App, t \in TaskFlag :
                        t \in r.rl.info[b].flags => t \in s.info[b].flags
<1> SUFFICES Goal
  OBVIOUS
<1>1. /\ s \in LockType /\ s.isIdle \in BOOLEAN /\ s.isProxied \in BOOLEAN /\ Own(s.info)
      /\ s.info \in [App -> Info] /\ locks \in SUBSET Pid
      /\ (s.isProxied = FALSE => s.isIdle = FALSE)
  BY DEF Typed, LockType
<1>2. a \in App /\ \A p \in Pid : AppOf[p] \in App
  BY AppAssumption
<1>3. s.info[a] \in Info /\ s.info[a].pids \subseteq Pid /\ s.info[a].flags \subseteq Flag
      /\ \A p \in s.info[a].pids : AppOf[p] = a
  BY <1>1, <1>2 DEF Info, Own
<1>4. CASE s.isProxied = FALSE
  <2>1. r = With(s, locks) /\ With(s, locks).rl = s
    BY <1>1, <1>4 DEF HandleProcessStatusChanged, With
  <2> HIDE DEF r
  <2>2. QED  BY <1>4, <2>1, NothingDone
<1>5. CASE s.isProxied = TRUE /\ m.isCreated = FALSE /\ s.info[a] = NoInfo
  <2>1. r = With(s, locks) /\ With(s, locks).rl = s
    BY <1>1, <1>5 DEF HandleProcessStatusChanged, With
  <2>2. m.pid \notin s.info[a].pids
    BY <1>5 DEF NoInfo
  <2> HIDE DEF r
  <2>3. QED  BY <1>5, <2>1, <2>2, NothingDone
<1>6. ASSUME s.isProxied = TRUE,
             NEW x, NEW flags, NEW k, Recorded(s, m, x, flags, locks, k),
             r = With([s EXCEPT !.info[a] = x], k)
      PROVE  Goal
  <2> USE DEF Recorded
  <2> DEFINE v == [s EXCEPT !.info[a] = x]
  <2>1. \A p \in x.pids : AppOf[p] = a
    BY <1>3, <1>6
  <2>2. /\ v \in LockType /\ Own(v.info) /\ v.isProxied = s.isProxied /\ v.isIdle = s.isIdle
        /\ v.info[a] = x /\ \A b \in App \ {a} : v.info[b] = s.info[b]
    <3> HIDE DEF a
    <3>1. x \in Info
      BY <1>6
    <3>2. QED  BY <1>2, <2>1, <3>1, OneRecord
  <2>3. r.rl = v /\ r.proxied = k
    BY <1>6 DEF With
  <2> HIDE DEF r, v
  <2>4. k \in SUBSET Pid
    <3>1. {m.pid} \subseteq Pid
      OBVIOUS
    <3>2. Proxying(s, {m.pid}, locks) \in SUBSET Pid /\ Unproxying(s, {m.pid}, locks) \in SUBSET Pid
      BY <1>1, <3>1, CallsType
    <3>3. QED  BY <1>1, <1>6, <3>2
  <2>5. Typed(v, k)
    BY <1>1, <2>2, <2>4 DEF Typed
  <2>6. \A p \in Pid : AppOf[p] # a => v.info[AppOf[p]] = s.info[AppOf[p]] /\ p \notin s.info[a].pids
    BY <1>2, <1>3, <2>2
  <2>7. ASSUME Regular(s, locks) PROVE Regular(v, k)
    <3>1. CASE s.isIdle = TRUE
      <4>1. locks = {} /\ k = {}
        BY <1>1, <1>6, <2>7, <3>1 DEF Regular, Proxying, Unproxying
      <4>2. QED  BY <1>6, <2>2, <3>1, <4>1 DEF Regular
    <3>2. CASE s.isIdle = FALSE
      <4>1. locks = {p \in Pid : p \in s.info[AppOf[p]].pids /\ ~ IsExempted(s.info[AppOf[p]].flags)}
        BY <1>1, <1>6, <2>7, <3>2, UnexemptedHas DEF Regular
      <4>2. Unexempted(v.info) =
              {p \in Pid : p \in v.info[AppOf[p]].pids /\ ~ IsExempted(v.info[AppOf[p]].flags)}
        BY <2>2, UnexemptedHas DEF LockType
      <4>3. k = IF IsExempted(flags) THEN locks
                ELSE IF m.isCreated = TRUE THEN locks \cup {m.pid} ELSE locks \ {m.pid}
        BY <1>6, <3>2 DEF Proxying, Unproxying
      <4>4. ASSUME NEW p \in Pid
            PROVE  p \in k <=> p \in v.info[AppOf[p]].pids /\ ~ IsExempted(v.info[AppOf[p]].flags)
        <5>1. p \in locks <=> p \in s.info[AppOf[p]].pids /\ ~ IsExempted(s.info[AppOf[p]].flags)
          BY <4>1
        <5>2. CASE AppOf[p] # a
          <6>1. p # m.pid
            BY <5>2
          <6>2. QED  BY <2>6, <4>3, <5>1, <5>2, <6>1
        <5>3. CASE AppOf[p] = a
          <6>1. v.info[AppOf[p]] = x /\ s.info[AppOf[p]] = s.info[a]
            BY <2>2, <5>3
          <6>2. p \in s.info[a].pids => flags = s.info[a].flags
            BY <1>6
          <6>3. p \in x.pids => flags = x.flags
            BY <1>6
          <6>4. QED  BY <1>6, <4>3, <5>1, <6>1, <6>2, <6>3
        <5>4. QED  BY <5>2, <5>3
      <4>5. k = Unexempted(v.info)
        BY <2>4, <4>2, <4>4
      <4>6. QED  BY <1>6, <2>2, <3>2, <4>5 DEF Regular
    <3>3. QED  BY <1>1, <3>1, <3>2
  <2>8. ASSUME NEW p \in Pid
        PROVE  p \in v.info[AppOf[p]].pids <=>
                 IF p = m.pid THEN m.isCreated = TRUE ELSE p \in s.info[AppOf[p]].pids
    <3>1. CASE AppOf[p] # a
      BY <2>6, <3>1
    <3>2. CASE AppOf[p] = a
      <4>1. v.info[AppOf[p]] = x /\ s.info[AppOf[p]] = s.info[a]
        BY <2>2, <3>2
      <4>2. QED  BY <1>6, <4>1
    <3>3. QED  BY <3>1, <3>2
  <2>9. \A b \in App, t \in TaskFlag : t \in v.info[b].flags => t \in s.info[b].flags
    BY <1>6, <2>2
  <2>10. QED  BY <2>2, <2>3, <2>5, <2>7, <2>8, <2>9 DEF Sound
<1>7. CASE s.isProxied = TRUE /\ m.isCreated = TRUE
  <2> DEFINE created == GetAndCreateAppInfo(s.info, m.pid)
             x == IF s.info[a] # NoInfo THEN [s.info[a] EXCEPT !.pids = @ \cup {m.pid}]
                  ELSE [pids |-> {m.pid}, flags |-> CreatedFlags(a)]
             k == IF IsExempted(x.flags) THEN locks
                  ELSE ProxyRunningLockList(s, TRUE, {m.pid}, locks)
  <2>1. /\ x \in Info /\ x.pids = s.info[a].pids \cup {m.pid}
        /\ s.info[a].pids # {} => x.flags = s.info[a].flags
        /\ \A t \in TaskFlag : t \in x.flags => t \in s.info[a].flags
    <3>1. CASE s.info[a] # NoInfo
      <4>1. x = [s.info[a] EXCEPT !.pids = @ \cup {m.pid}]
        BY <3>1
      <4>2. x \in Info /\ x.pids = s.info[a].pids \cup {m.pid} /\ x.flags = s.info[a].flags
        BY <1>3, <4>1 DEF Info
      <4>3. QED  BY <4>2
    <3>2. CASE s.info[a] = NoInfo
      <4>1. CreatedFlags(a) \subseteq Flag /\ \A t \in TaskFlag : t \notin CreatedFlags(a)
        BY DEF CreatedFlags, SystemFlags, ListedFlags, Given, Flag, TaskFlag
      <4>2. x = [pids |-> {m.pid}, flags |-> CreatedFlags(a)]
        BY <3>2
      <4>3. x \in Info /\ x.pids = {m.pid} /\ x.flags = CreatedFlags(a)
        BY <4>1, <4>2 DEF Info
      <4>4. s.info[a].pids = {}
        BY <3>2 DEF NoInfo
      <4> HIDE DEF x
      <4>5. QED  BY <4>1, <4>3, <4>4
    <3>3. QED  BY <3>1, <3>2
  <2>2. created = [s.info EXCEPT ![a] = x]
    BY DEF GetAndCreateAppInfo
  <2>3. ProxyRunningLockList(s, TRUE, {m.pid}, locks) = Proxying(s, {m.pid}, locks)
    <3> HIDE DEF x
    <3>1. QED  BY <1>1 DEF ProxyRunningLockList, Proxying
  <2> HIDE DEF x
  <2>4. created[a] = x /\ [s EXCEPT !.info = created] = [s EXCEPT !.info[a] = x]
    BY <1>1, <1>2, <2>2
  <2>5. r = With([s EXCEPT !.info[a] = x], k)
    <3> HIDE DEF created
    <3>1. r = With([s EXCEPT !.info = created], k)
      BY <1>1, <1>7, <2>4 DEF HandleProcessStatusChanged, created
    <3>2. QED  BY <2>4, <3>1
  <2>6. Recorded(s, m, x, x.flags, locks, k)
    BY <1>7, <2>1, <2>3 DEF Recorded
  <2> HIDE DEF k, Goal, r
  <2>7. QED  BY <1>6, <1>7, <2>5, <2>6
<1>8. CASE s.isProxied = TRUE /\ m.isCreated = FALSE /\ s.info[a] # NoInfo
  <2> DEFINE left == s.info[a].pids \ {m.pid}
             x == IF left = {} THEN NoInfo ELSE [s.info[a] EXCEPT !.pids = left]
             died == [s.info EXCEPT ![a] = x]
             k == IF IsExempted(s.info[a].flags) THEN locks
                  ELSE ProxyRunningLockList(s, FALSE, {m.pid}, locks)
  <2>1. /\ x \in Info /\ x.pids = left /\ (x.flags = s.info[a].flags \/ x.pids = {})
        /\ \A t \in TaskFlag : t \in x.flags => t \in s.info[a].flags
    <3>1. CASE left = {}
      <4>1. x = NoInfo
        BY <3>1
      <4>2. x \in Info /\ x.pids = {} /\ x.flags = {}
        BY <4>1, NoInfosHas DEF NoInfo
      <4> HIDE DEF x
      <4>3. QED  BY <3>1, <4>2
    <3>2. CASE left # {}
      <4>1. x = [s.info[a] EXCEPT !.pids = left]
        BY <3>2
      <4>2. x \in Info /\ x.pids = left /\ x.flags = s.info[a].flags
        BY <1>3, <4>1 DEF Info
      <4> HIDE DEF x
      <4>3. QED  BY <4>2
    <3>3. QED  BY <3>1, <3>2
  <2>2. ProxyRunningLockList(s, FALSE, {m.pid}, locks) = Unproxying(s, {m.pid}, locks)
    <3> HIDE DEF x
    <3>1. QED  BY <1>1 DEF ProxyRunningLockList, Unproxying
  <2>3. r = With([s EXCEPT !.info = died], k)
    BY <1>1, <1>8 DEF HandleProcessStatusChanged
  <2> HIDE DEF x
  <2>4. r = With([s EXCEPT !.info[a] = x], k)
    BY <1>1, <1>2, <2>3
  <2>5. Recorded(s, m, x, s.info[a].flags, locks, k)
    BY <1>8, <2>1, <2>2 DEF Recorded
  <2> HIDE DEF k, Goal, r
  <2>6. QED  BY <1>6, <1>8, <2>4, <2>5
<1>9. QED  BY <1>1, <1>4, <1>5, <1>7, <1>8

-----------------------------------------------------------------------------
(* What the table knows after the first message of the queue.              *)

ProcessStep ==
  LET m == Head(queue) IN
  rl'.isProxied = TRUE => \A p \in Pid :
    \/ AppOf[p] \in missed'
    \/ p \in rl'.info[AppOf[p]].pids <=> p \in running
    \/ /\ rl.isProxied = TRUE /\ (AppOf[p] \in missed => AppOf[p] \in missed')
       /\ m \notin FromAwake
       /\ p \in rl'.info[AppOf[p]].pids <=>
            IF m \in ProcessNews(p) THEN m.isCreated = TRUE ELSE p \in rl.info[AppOf[p]].pids

TaskStep ==
  LET m == Head(queue) IN
  rl'.isProxied = TRUE => \A a \in App, t \in TaskFlag :
    \/ a \in missed'
    \/ t \in rl'.info[a].flags => t \in tasks[a]
    \/ m \in TaskStarted(a, t)
    \/ /\ rl.isProxied = TRUE /\ (a \in missed => a \in missed')
       /\ m \notin TaskNews(a, t) /\ t \in rl.info[a].flags

(* A handler that treats the processes of the table as ProcessStep says    *)
(* keeps them in step with those that run.                                 *)
LEMMA ProcessesKnown ==
  ASSUME InputsInv, Dispatched, KnowsProcesses, ProcessStep PROVE KnowsProcesses'
<1> DEFINE m == Head(queue)
<1>1. /\ queue' = Tail(queue) /\ queue # <<>> /\ queue \in Seq(HandlerTask)
      /\ m \in HandlerTask /\ m.type # "PROCESS_TASK" /\ cur' = cur /\ running' = running
  BY DispatchedDoes DEF Dispatched
<1>2. ProcessNewsTrue(queue, running, cur)
  BY DEF InputsInv, News
<1> SUFFICES ASSUME rl'.isProxied = TRUE, NEW p \in Pid
             PROVE  \/ AppOf[p] \in missed'
                    \/ Waits(queue', ProcessNews(p) \cup ProcessTasks(p) \cup FromAwake)
                    \/ cur \notin Asleep
                    \/ p \in rl'.info[AppOf[p]].pids <=> p \in running
  BY <1>1 DEF KnowsProcesses
<1> DEFINE W == ProcessNews(p) \cup ProcessTasks(p) \cup FromAwake
<1>3. m \notin ProcessTasks(p)
  BY <1>1 DEF ProcessTasks
<1>4. Waits(queue', W) \/ (Waits(queue, W) => m \in W)
  BY <1>1, WaitsTail
<1>5. Waits(queue, ProcessTasks(p)) => Waits(queue', W)
  <2>1. Waits(queue, ProcessTasks(p)) => Waits(queue', ProcessTasks(p))
    BY <1>1, <1>3, WaitsTail
  <2>2. QED  BY <2>1 DEF Waits
<1>6. ASSUME m \in ProcessNews(p)
      PROVE  \/ m.isCreated = (p \in running)
             \/ cur \notin Asleep
             \/ Waits(queue', W)
  <2>1. m.isCreated \in BOOLEAN
    BY <1>1, <1>6, Fields DEF ProcessNews
  <2> DEFINE x == m.isCreated = (p \in running) \/ Waits(queue, ProcessTasks(p)) \/ cur \notin Asleep
  <2>2. m \in Saying(ProcessNews(p), m.isCreated)
    BY <1>6 DEF Saying
  <2>3. Owes(queue, Saying(ProcessNews(p), m.isCreated), ProcessNews(p) \cup FromAwake, x)
    BY <1>2, <2>1 DEF ProcessNewsTrue
  <2> HIDE DEF x
  <2>4. x \/ Waits(queue', ProcessNews(p) \cup FromAwake)
    BY <1>1, <2>2, <2>3, OwesTail
  <2>5. Waits(queue', ProcessNews(p) \cup FromAwake) => Waits(queue', W)
    BY DEF Waits
  <2>6. QED  BY <1>5, <2>4, <2>5 DEF x
<1>7. QED
  <2>1. CASE AppOf[p] \in missed' \/ (p \in rl'.info[AppOf[p]].pids <=> p \in running)
    BY <2>1
  <2>2. CASE /\ rl.isProxied = TRUE /\ (AppOf[p] \in missed => AppOf[p] \in missed')
             /\ m \notin FromAwake
             /\ p \in rl'.info[AppOf[p]].pids <=>
                  IF m \in ProcessNews(p) THEN m.isCreated = TRUE ELSE p \in rl.info[AppOf[p]].pids
    <3>1. \/ AppOf[p] \in missed \/ Waits(queue, W) \/ cur \notin Asleep
          \/ p \in rl.info[AppOf[p]].pids <=> p \in running
      BY <2>2 DEF KnowsProcesses
    <3>2. CASE m \in ProcessNews(p)
      BY <1>6, <2>2, <3>2
    <3>3. CASE m \notin ProcessNews(p)
      BY <1>3, <1>4, <2>2, <3>1, <3>3
    <3>4. QED  BY <3>2, <3>3
  <2>3. QED  BY <2>1, <2>2 DEF ProcessStep

(* A handler that treats the flags of tasks as TaskStep says keeps them in *)
(* step with the tasks that run.                                           *)
LEMMA TasksKnown == ASSUME InputsInv, Dispatched, KnowsTasks, TaskStep PROVE KnowsTasks'
<1> DEFINE m == Head(queue)
<1>1. /\ queue' = Tail(queue) /\ queue # <<>> /\ queue \in Seq(HandlerTask)
      /\ m \in HandlerTask /\ tasks' = tasks
  BY DispatchedDoes DEF Dispatched
<1>2. TasksTrue(queue, tasks)
  BY DEF InputsInv, News
<1> SUFFICES ASSUME rl'.isProxied = TRUE, NEW a \in App, NEW t \in TaskFlag
             PROVE  \/ a \in missed'
                    \/ Waits(queue', TaskNews(a, t))
                    \/ t \in rl'.info[a].flags => t \in tasks[a]
  BY <1>1 DEF KnowsTasks
<1>3. Waits(queue, TaskNews(a, t)) => Waits(queue', TaskNews(a, t)) \/ m \in TaskNews(a, t)
  BY <1>1, WaitsTail
<1>4. ASSUME m \in TaskStarted(a, t) PROVE t \in tasks[a] \/ Waits(queue', TaskNews(a, t))
  <2> DEFINE x == t \in tasks[a]
  <2>1. Owes(queue, TaskStarted(a, t), TaskNews(a, t), x)
    BY <1>2 DEF TasksTrue
  <2> HIDE DEF x
  <2>2. x \/ Waits(queue', TaskNews(a, t))
    BY <1>1, <1>4, <2>1, OwesTail
  <2>3. QED  BY <2>2 DEF x
<1>5. QED
  <2>1. CASE \/ a \in missed' \/ (t \in rl'.info[a].flags => t \in tasks[a])
             \/ m \in TaskStarted(a, t)
    BY <1>4, <2>1
  <2>2. CASE /\ rl.isProxied = TRUE /\ (a \in missed => a \in missed')
             /\ m \notin TaskNews(a, t) /\ t \in rl.info[a].flags
    <3>1. a \in missed \/ Waits(queue, TaskNews(a, t)) \/ t \in tasks[a]
      BY <2>2 DEF KnowsTasks
    <3>2. QED  BY <1>3, <2>2, <3>1
  <2>3. QED  BY <2>1, <2>2 DEF TaskStep

-----------------------------------------------------------------------------
(* The messages, one by one.                                               *)

(* What a message makes of the strategy, which is then told of state t.    *)
LockStep(t) ==
  /\ Typed(rl', proxied')
  /\ ~ stray' /\ Regular(rl, proxied) => Regular(rl', proxied')
  /\ ProcessStep /\ TaskStep /\ LockTold(t)'

(* The strategy, told of s, is told of t by the first message.             *)
Handling(answers, s, t) ==
  /\ InputsInv /\ Typed(rl, proxied) /\ LockTold(s) /\ Dispatched
  /\ ~ stray /\ ~ stale => Regular(rl, proxied)
  /\ stray \in BOOLEAN /\ missed \subseteq App /\ answers \in Answers(Head(queue))
  /\ Head(queue) \in HandlerTask /\ Head(queue).type # "PROCESS_TASK"
  /\ RunningLockHandles(Head(queue), answers) /\ Tells(Head(queue), s, t)

(* A message about exemptions or tasks leaves the proxy alone.             *)
LEMMA FlagsHandled ==
  ASSUME NEW answers, NEW s, NEW t, Handling(answers, s, t),
         OnlyFlags(rl, rl'), Sound(rl, proxied, With(rl', proxied')),
         Head(queue).type \notin {"STATE_TRANSIT", "PROCESS_STATE_CHANGED",
                                  "RES_CTRL_CONDITION_CHANGED", "PHASE_TRANSIT"},
         \A a \in App : a \in missed => a \in missed',
         rl.isProxied = TRUE => TaskStep
  PROVE  LockStep(t)
<1> DEFINE m == Head(queue)
<1>1. t = s
  BY DEF Handling, Tells
<1>2. \A p \in Pid : m \notin ProcessNews(p) /\ m \notin FromAwake
  BY DEF ProcessNews, FromAwake
<1>3. /\ rl'.isProxied = rl.isProxied /\ rl'.isIdle = rl.isIdle
      /\ \A p \in Pid : AppOf[p] \in App /\ rl'.info[AppOf[p]].pids = rl.info[AppOf[p]].pids
  BY AppAssumption DEF OnlyFlags
<1>4. ProcessStep
  BY <1>2, <1>3 DEF ProcessStep
<1>5. TaskStep
  BY <1>3 DEF TaskStep
<1>6. Typed(rl', proxied') /\ (Regular(rl, proxied) => Regular(rl', proxied'))
  BY DEF Sound, With
<1>7. ~ stray' => ~ stray
  BY DEF Handling, RunningLockHandles
<1>8. losses' = losses
  BY DEF Handling, Dispatched
<1>9. LockTold(t)'
  <2>1. ASSUME ~ stale, ~ stray, rl.isProxied = FALSE PROVE rl'.info = NoInfos
    <3>1. Regular(rl, proxied)
      BY <2>1 DEF Handling
    <3>2. QED  BY <1>3, <1>6, <2>1, <3>1 DEF Regular
  <2>2. QED  BY <1>1, <1>3, <1>7, <1>8, <2>1 DEF Handling, LockTold, stale
<1>10. QED  BY <1>4, <1>5, <1>6, <1>9 DEF LockStep

(* A message about an exemption is handled.                                *)
LEMMA AllowHandled ==
  ASSUME NEW answers, NEW s, NEW t, Handling(answers, s, t),
         Head(queue).type = "ALLOW_LIST_CHANGED"
  PROVE  LockStep(t)
<1> DEFINE m == Head(queue)
           r == UpdateExemptionList(rl, m, proxied)
<1>1. m.app \in App /\ m.added \in BOOLEAN /\ Typed(rl, proxied) /\ rl.isProxied \in BOOLEAN
  BY Fields DEF Handling, Typed, LockType
<1>2. rl' = r.rl /\ proxied' = r.proxied /\ missed' = missed
  BY DEF Handling, RunningLockHandles, HandleEvent, MissedAfter
<1>3. /\ Sound(rl, proxied, r) /\ OnlyFlags(rl, r.rl)
      /\ \A b \in App : \A x \in r.rl.info[b].flags : x \in rl.info[b].flags \/ x = "EXEMPTION"
  <2>1. CASE "RUNNING_LOCK" \notin m.allowType \/ rl.isProxied = FALSE
    <3>1. r = With(rl, proxied) /\ With(rl, proxied).rl = rl
      BY <1>1, <2>1 DEF UpdateExemptionList, With
    <3> HIDE DEF r
    <3>2. QED  BY <1>1, <3>1, NothingDone DEF OnlyFlags
  <2>2. CASE "RUNNING_LOCK" \in m.allowType /\ rl.isProxied = TRUE /\ m.added = TRUE
    <3>1. r = AddExemptionFlag(rl, m.app, "EXEMPTION", proxied)
      BY <2>2 DEF UpdateExemptionList
    <3>2. "EXEMPTION" \in Flag /\ "EXEMPTION" # "RESTRICTED"
      BY DEF Flag
    <3> HIDE DEF r, m
    <3>3. QED  BY <1>1, <3>1, <3>2, AddExemptionFlagDoes
  <2>3. CASE "RUNNING_LOCK" \in m.allowType /\ rl.isProxied = TRUE /\ m.added = FALSE
    <3>1. r = RemoveExemptionFlag(rl, m.app, {"EXEMPTION"}, proxied)
      BY <2>3 DEF UpdateExemptionList
    <3>2. "RESTRICTED" \notin {"EXEMPTION"}
      OBVIOUS
    <3> HIDE DEF r, m
    <3>3. QED  BY <1>1, <3>1, <3>2, RemoveExemptionFlagDoes
  <2>4. QED  BY <1>1, <2>1, <2>2, <2>3
<1>4. \A a \in App, x \in TaskFlag : m \notin TaskNews(a, x) /\ x # "EXEMPTION"
  BY DEF TaskNews, TaskFlag
<1> HIDE DEF r
<1>5. rl.isProxied = TRUE => TaskStep
  BY <1>2, <1>3, <1>4 DEF TaskStep
<1>6. OnlyFlags(rl, rl') /\ Sound(rl, proxied, With(rl', proxied'))
  BY <1>2, <1>3 DEF Sound, With
<1>7. QED  BY <1>2, <1>5, <1>6, FlagsHandled

(* A message about a task is handled.                                      *)
LEMMA TaskHandled ==
  ASSUME NEW answers, NEW s, NEW t, Handling(answers, s, t),
         Head(queue).type = "BG_TASK_STATUS_CHANGE"
  PROVE  LockStep(t)
<1> DEFINE m == Head(queue)
           r == UpdateBgTaskAppStatus(rl, m, proxied)
<1>1. /\ m.app \in App /\ m.started \in BOOLEAN /\ Typed(rl, proxied) /\ m.task \in TaskFlag
      /\ m \in HandlerTask
  BY Fields DEF Handling
<1>2. rl' = r.rl /\ proxied' = r.proxied /\ missed' = missed
  BY DEF Handling, RunningLockHandles, HandleEvent, MissedAfter
<1>3. m.task \in Flag /\ m.task # "RESTRICTED"
  BY <1>1 DEF Flag, TaskFlag
<1>4. /\ Sound(rl, proxied, r) /\ OnlyFlags(rl, r.rl)
      /\ \A b \in App : \A x \in r.rl.info[b].flags :
           \/ b = m.app /\ x = m.task /\ m.started = TRUE
           \/ x \in rl.info[b].flags /\ ~ (b = m.app /\ x = m.task)
  <2>1. CASE m.started = TRUE
    <3>1. r = AddExemptionFlag(rl, m.app, m.task, proxied)
      BY <2>1 DEF UpdateBgTaskAppStatus
    <3> HIDE DEF r, m
    <3>2. /\ Sound(rl, proxied, r) /\ OnlyFlags(rl, r.rl)
          /\ \A b \in App : \A x \in r.rl.info[b].flags :
               x \in rl.info[b].flags \/ (b = m.app /\ x = m.task)
      BY <1>1, <1>3, <3>1, AddExemptionFlagDoes
    <3>3. QED  BY <2>1, <3>2
  <2>2. CASE m.started = FALSE
    <3>1. r = RemoveExemptionFlag(rl, m.app, {m.task}, proxied)
      BY <2>2 DEF UpdateBgTaskAppStatus
    <3>2. "RESTRICTED" \notin {m.task}
      BY <1>3
    <3> HIDE DEF r, m
    <3>3. /\ Sound(rl, proxied, r) /\ OnlyFlags(rl, r.rl)
          /\ \A b \in App : \A x \in r.rl.info[b].flags :
               x \in rl.info[b].flags /\ ~ (b = m.app /\ x \in {m.task})
      BY <1>1, <3>1, <3>2, RemoveExemptionFlagDoes
    <3>4. QED  BY <3>3
  <2>3. QED  BY <1>1, <2>1, <2>2
<1>5. ASSUME NEW a \in App, NEW x \in TaskFlag
      PROVE  /\ m \in TaskNews(a, x) => a = m.app /\ x = m.task
             /\ m.app = a /\ m.task = x /\ m.started = TRUE => m \in TaskStarted(a, x)
  BY <1>1 DEF TaskNews, TaskStarted
<1> HIDE DEF r
<1>6. rl.isProxied = TRUE => TaskStep
  BY <1>2, <1>4, <1>5 DEF TaskStep
<1>7. OnlyFlags(rl, rl') /\ Sound(rl, proxied, With(rl', proxied'))
  BY <1>2, <1>4 DEF Sound, With
<1>8. QED  BY <1>2, <1>6, <1>7, FlagsHandled

(* A message about a crashed service is handled.                           *)
LEMMA CrashHandled ==
  ASSUME NEW answers, NEW s, NEW t, Handling(answers, s, t),
         Head(queue).type = "SYS_ABILITY_STATUS_CHANGED"
  PROVE  LockStep(t)
<1> DEFINE m == Head(queue)
           r == ResetProxyStatus(rl, proxied)
<1>1. Typed(rl, proxied) /\ rl.isIdle \in BOOLEAN /\ missed \subseteq App
  BY DEF Handling, Typed, LockType
<1>2. rl' = r.rl /\ proxied' = r.proxied /\ missed' = IF rl.isIdle THEN App ELSE missed
  BY DEF Handling, RunningLockHandles, HandleEvent, MissedAfter
<1>3. /\ Sound(rl, proxied, r) /\ OnlyFlags(rl, r.rl)
      /\ \A b \in App : \A x \in r.rl.info[b].flags :
           /\ x \in rl.info[b].flags
           /\ rl.isProxied = TRUE /\ rl.isIdle = FALSE =>
                x \notin {"TRANSIENT_TASK", "WORK_SCHEDULER"}
  BY <1>1, ResetProxyStatusDoes
<1>4. \A a \in App : a \in missed => a \in missed'
  BY <1>1, <1>2
<1>5. ASSUME NEW a \in App, NEW x \in TaskFlag, m \in TaskNews(a, x)
      PROVE  x \in {"TRANSIENT_TASK", "WORK_SCHEDULER"}
  BY <1>5 DEF TaskNews, TaskFlag
<1> HIDE DEF r
<1>6. ASSUME rl.isProxied = TRUE PROVE TaskStep
  <2>1. CASE rl.isIdle = TRUE
    BY <1>2, <2>1 DEF TaskStep
  <2>2. CASE rl.isIdle = FALSE
    BY <1>2, <1>3, <1>4, <1>5, <1>6, <2>2 DEF TaskStep
  <2>3. QED  BY <1>1, <2>1, <2>2
<1>7. OnlyFlags(rl, rl') /\ Sound(rl, proxied, With(rl', proxied'))
  BY <1>2, <1>3 DEF Sound, With
<1>8. QED  BY <1>4, <1>6, <1>7, FlagsHandled

(* A message about a process is handled.                                   *)
LEMMA ProcessHandled ==
  ASSUME NEW answers, NEW s, NEW t, Handling(answers, s, t),
         Head(queue).type = "PROCESS_STATE_CHANGED"
  PROVE  LockStep(t)
<1> DEFINE m == Head(queue)
           r == HandleProcessStatusChanged(rl, m, proxied)
<1>1. /\ m.pid \in Pid /\ m.isCreated \in BOOLEAN /\ Typed(rl, proxied) /\ InputsTypeOK
      /\ m \in HandlerTask /\ rl \in LockType
  BY Fields DEF Handling, InputsInv, Typed
<1>2. rl' = r.rl /\ proxied' = r.proxied /\ missed' = missed /\ (~ stray' => ~ stray)
  BY DEF Handling, RunningLockHandles, HandleEvent, MissedAfter
<1>3. t = s /\ losses' = losses
  BY DEF Handling, Tells, Dispatched
<1>4. /\ Sound(rl, proxied, r)
      /\ r.rl.isProxied = rl.isProxied /\ r.rl.isIdle = rl.isIdle
      /\ rl.isProxied = TRUE => \A p \in Pid :
           p \in r.rl.info[AppOf[p]].pids <=>
             IF p = m.pid THEN m.isCreated = TRUE ELSE p \in rl.info[AppOf[p]].pids
      /\ \A b \in App, x \in TaskFlag : x \in r.rl.info[b].flags => x \in rl.info[b].flags
  <2> HIDE DEF m
  <2>1. QED  BY <1>1, HandleProcessStatusChangedDoes
<1>5. /\ \A a \in App, x \in TaskFlag : m \notin TaskNews(a, x)
      /\ m \notin FromAwake
      /\ \A p \in Pid : m \in ProcessNews(p) <=> p = m.pid
  BY <1>1 DEF TaskNews, FromAwake, ProcessNews
<1> HIDE DEF r
<1>6. ProcessStep
  BY <1>2, <1>4, <1>5 DEF ProcessStep
<1>7. TaskStep
  BY <1>2, <1>4, <1>5 DEF TaskStep
<1>8. Typed(rl', proxied') /\ (Regular(rl, proxied) => Regular(rl', proxied'))
  BY <1>2, <1>4 DEF Sound
<1>9. LockTold(t)'
  <2>1. ASSUME ~ stale, ~ stray', rl'.isProxied = FALSE PROVE rl'.info = NoInfos
    <3>1. Regular(rl', proxied')
      BY <1>2, <1>8, <2>1 DEF Handling
    <3>2. QED  BY <2>1, <3>1 DEF Regular
  <2>2. QED  BY <1>2, <1>3, <1>4, <2>1 DEF Handling, LockTold, stale
<1>10. QED  BY <1>6, <1>7, <1>8, <1>9 DEF LockStep

(* A message about day and night is handled.                               *)
LEMMA ConditionHandled ==
  ASSUME NEW answers, NEW s, NEW t, Handling(answers, s, t),
         Head(queue).type = "RES_CTRL_CONDITION_CHANGED"
  PROVE  LockStep(t)
<1> DEFINE m == Head(queue)
           x == answers = "all"
           r == UpdateResourceConfig(rl, x, proxied)
<1>1. /\ Typed(rl, proxied) /\ InputsTypeOK /\ rl \in LockType /\ x \in BOOLEAN
      /\ rl.isProxied \in BOOLEAN /\ stray \in BOOLEAN
  BY DEF Handling, InputsInv, Typed, LockType
<1>2. /\ rl' = r.rl /\ proxied' = r.proxied /\ missed' = (IF x THEN {} ELSE App)
      /\ stray' = (stray \/ ~ rl.isProxied)
  BY DEF Handling, RunningLockHandles, HandleEvent, MissedAfter
<1>3. t = s /\ losses' = losses
  BY DEF Handling, Tells, Dispatched
<1> HIDE DEF x
<1>4. /\ Typed(r.rl, r.proxied)
      /\ r.rl = Tabled(rl, IF x = TRUE THEN InitProxiedAppInfo ELSE NoInfos)
      /\ rl.isProxied = TRUE /\ Regular(rl, proxied) => Regular(r.rl, r.proxied)
  BY <1>1, UpdateResourceConfigDoes
<1>5. /\ InitProxiedAppInfo \in [App -> Info]
      /\ \A p \in Pid : p \in InitProxiedAppInfo[AppOf[p]].pids <=> p \in running
      /\ \A a \in App, f \in TaskFlag : f \in InitProxiedAppInfo[a].flags => f \in tasks[a]
  BY <1>1, InitProxiedAppInfoHas
<1> HIDE DEF r
<1>6. /\ rl'.isProxied = rl.isProxied /\ rl'.isIdle = rl.isIdle
      /\ rl'.info = IF x = TRUE THEN InitProxiedAppInfo ELSE NoInfos
  BY <1>1, <1>2, <1>4, <1>5, TabledHas, NoInfosHas
<1>7. ProcessStep
  <2>1. x = FALSE => \A p \in Pid : AppOf[p] \in missed'
    BY <1>2, AppAssumption
  <2>2. QED  BY <1>1, <1>5, <1>6, <2>1 DEF ProcessStep
<1>8. TaskStep
  BY <1>1, <1>2, <1>5, <1>6 DEF TaskStep
<1>9. ~ stray' /\ Regular(rl, proxied) => Regular(rl', proxied')
  BY <1>1, <1>2, <1>4
<1>10. LockTold(t)'
  BY <1>1, <1>2, <1>3, <1>6 DEF Handling, LockTold, stale
<1>11. QED  BY <1>2, <1>4, <1>7, <1>8, <1>9, <1>10 DEF LockStep

(* A message about a phase is handled.                                     *)
LEMMA PhaseHandled ==
  ASSUME NEW answers, NEW s, NEW t, Handling(answers, s, t),
         Head(queue).type = "PHASE_TRANSIT"
  PROVE  LockStep(t)
<1> DEFINE m == Head(queue)
           x == answers = "all"
           r == StartProxy(rl, m, x, proxied)
<1>1. /\ Typed(rl, proxied) /\ InputsTypeOK /\ rl \in LockType /\ x \in BOOLEAN
      /\ rl.isProxied \in BOOLEAN /\ missed \subseteq App
  BY DEF Handling, InputsInv, Typed, LockType
<1>2. /\ rl' = r.rl /\ proxied' = r.proxied /\ (~ stray' => ~ stray)
      /\ missed' = (IF ~ rl.isProxied THEN {} ELSE missed)
  BY DEF Handling, RunningLockHandles, HandleEvent, MissedAfter
<1>3. t = s /\ losses' = losses /\ (m.cur = "SLEEP" => s = "SLEEP")
  BY DEF Handling, Tells, Dispatched
<1> HIDE DEF x
<1>4. /\ Sound(rl, proxied, r)
      /\ \/ r.rl = rl
         \/ rl.isProxied = FALSE /\ r.rl.isProxied = FALSE /\ r.rl.info = NoInfos
         \/ /\ rl.isProxied = FALSE /\ m.cur = "SLEEP"
            /\ r.rl.isProxied = TRUE /\ r.rl.isIdle = FALSE
            /\ r.rl.info = InitProxiedAppInfo
  <2>1. Sound(rl, proxied, r) /\ Started(rl, m, r.rl)
    <3> HIDE DEF m
    <3>1. QED  BY <1>1, StartProxyDoes
  <2> HIDE DEF r
  <2>2. QED  BY <2>1 DEF Started
<1>5. /\ \A p \in Pid : p \in InitProxiedAppInfo[AppOf[p]].pids <=> p \in running
      /\ \A a \in App, f \in TaskFlag : f \in InitProxiedAppInfo[a].flags => f \in tasks[a]
  BY <1>1, InitProxiedAppInfoHas
<1>6. /\ \A a \in App, f \in TaskFlag : m \notin TaskNews(a, f)
      /\ m \notin FromAwake /\ \A p \in Pid : m \notin ProcessNews(p)
  BY DEF TaskNews, FromAwake, ProcessNews
<1> HIDE DEF r
<1>7. ProcessStep
  <2>1. CASE rl' = rl
    BY <1>2, <1>6, <2>1 DEF ProcessStep
  <2>2. CASE rl' # rl
    BY <1>2, <1>4, <1>5, <2>2 DEF ProcessStep
  <2>3. QED  BY <2>1, <2>2
<1>8. TaskStep
  <2>1. CASE rl' = rl
    BY <1>2, <1>6, <2>1 DEF TaskStep
  <2>2. CASE rl' # rl
    BY <1>2, <1>4, <1>5, <2>2 DEF TaskStep
  <2>3. QED  BY <2>1, <2>2
<1>9. Typed(rl', proxied') /\ (Regular(rl, proxied) => Regular(rl', proxied'))
  BY <1>2, <1>4 DEF Sound
<1>10. LockTold(t)'
  <2>1. rl'.isProxied = TRUE => t \in Asleep
    BY <1>2, <1>3, <1>4 DEF Handling, LockTold, Asleep
  <2>2. rl'.isProxied = FALSE => rl'.isIdle = FALSE
    BY <1>9 DEF Typed
  <2>3. ASSUME ~ stale, ~ stray', rl'.isProxied = FALSE PROVE rl'.info = NoInfos
    BY <1>2, <1>4, <2>3 DEF Handling, LockTold
  <2>4. QED  BY <1>3, <2>1, <2>2, <2>3 DEF LockTold, stale
<1>11. QED  BY <1>7, <1>8, <1>9, <1>10 DEF LockStep

(* A message about a state is handled.                                     *)
LEMMA StateHandled ==
  ASSUME NEW answers, NEW s, NEW t, Handling(answers, s, t),
         Head(queue).type = "STATE_TRANSIT"
  PROVE  LockStep(t)
<1> DEFINE m == Head(queue)
           r == StopProxy(rl, m, proxied)
<1>1. /\ Typed(rl, proxied) /\ m.pre \in State /\ m.cur \in State /\ m.pre = s /\ m.cur = t
      /\ rl.isProxied \in BOOLEAN /\ rl \in LockType
  BY Fields DEF Handling, Typed, LockType, Tells
<1>2. rl' = r.rl /\ proxied' = r.proxied /\ missed' = missed /\ (~ stray' => ~ stray)
  BY DEF Handling, RunningLockHandles, HandleEvent, MissedAfter
<1>3. losses' = losses
  BY DEF Handling, Dispatched
<1>4. /\ Sound(rl, proxied, r)
      /\ \/ r.rl = rl /\ (rl.isProxied = TRUE => m.pre \notin Asleep)
         \/ r.rl = Stopped
         \/ /\ r.rl.isProxied = TRUE /\ m.cur \in Asleep /\ m.pre \in Asleep
            /\ rl.isProxied = TRUE /\ r.rl.info = rl.info
  <2> HIDE DEF m
  <2>1. QED  BY <1>1, StopProxyDoes
<1>5. rl.isProxied = TRUE => m.pre \in Asleep
  BY <1>1 DEF Handling, LockTold
<1>6. \/ rl' = rl /\ rl.isProxied = FALSE
      \/ rl'.isProxied = FALSE /\ rl'.info = NoInfos
      \/ /\ rl'.isProxied = TRUE /\ t \in Asleep /\ m.pre \in Asleep
         /\ rl.isProxied = TRUE /\ rl'.info = rl.info
  <2>1. Stopped.isProxied = FALSE /\ Stopped.info = NoInfos
    BY DEF Stopped
  <2> HIDE DEF r
  <2>2. QED  BY <1>1, <1>2, <1>4, <1>5, <2>1
<1>7. /\ \A a \in App, f \in TaskFlag : m \notin TaskNews(a, f)
      /\ m.pre \in Asleep => m \notin FromAwake
      /\ \A p \in Pid : m \notin ProcessNews(p)
  BY DEF TaskNews, FromAwake, ProcessNews
<1> HIDE DEF r
<1>8. ProcessStep
  BY <1>2, <1>6, <1>7 DEF ProcessStep
<1>9. TaskStep
  BY <1>2, <1>6, <1>7 DEF TaskStep
<1>10. Typed(rl', proxied') /\ (Regular(rl, proxied) => Regular(rl', proxied'))
  BY <1>2, <1>4 DEF Sound
<1>11. LockTold(t)'
  <2>1. rl'.isProxied = TRUE => t \in Asleep
    BY <1>6
  <2>2. rl'.isProxied = FALSE => rl'.isIdle = FALSE
    BY <1>10 DEF Typed
  <2>3. ASSUME ~ stale, ~ stray', rl'.isProxied = FALSE PROVE rl'.info = NoInfos
    BY <1>2, <1>6, <2>3 DEF Handling, LockTold
  <2>4. QED  BY <1>3, <2>1, <2>2, <2>3 DEF LockTold, stale
<1>12. QED  BY <1>8, <1>9, <1>10, <1>11 DEF LockStep

(* Every message is one of those.                                          *)
LEMMA MessageHandled ==
  ASSUME NEW answers, NEW s, NEW t, Handling(answers, s, t) PROVE LockStep(t)
<1>1. Head(queue).type \in {"STATE_TRANSIT", "PHASE_TRANSIT", "ALLOW_LIST_CHANGED",
        "BG_TASK_STATUS_CHANGE", "PROCESS_STATE_CHANGED",
        "SYS_ABILITY_STATUS_CHANGED", "RES_CTRL_CONDITION_CHANGED"}
  BY Fields DEF Handling
<1>2. QED
  BY <1>1, AllowHandled, TaskHandled, CrashHandled, ProcessHandled, ConditionHandled,
     PhaseHandled, StateHandled

-----------------------------------------------------------------------------
(* The invariant is inductive.                                             *)

(* Without losses the proxied locks are those of the table.                *)
LEMMA LockInvSound ==
  ASSUME LockInv
  PROVE  /\ Typed(rl, proxied) /\ (~ stray /\ ~ stale => Regular(rl, proxied))
         /\ stray \in BOOLEAN /\ missed \subseteq App
<1>1. PICK f : Chained(queue, f, cur) /\ LockTold(f[0])
  BY DEF LockInv
<1>2. rl \in LockType /\ proxied \subseteq Pid /\ stray \in BOOLEAN /\ missed \subseteq App
  BY DEF LockInv, LockTypeOK, LockType
<1>3. rl.isProxied \in BOOLEAN /\ rl.isIdle \in BOOLEAN
  BY <1>2 DEF LockType
<1>4. Typed(rl, proxied)
  BY <1>1, <1>2 DEF Typed, LockInv, OwnPids, Own, LockTold
<1>5. ASSUME ~ stray, ~ stale PROVE Regular(rl, proxied)
  BY <1>1, <1>3, <1>5 DEF Regular, LockInv, ProxiedMatchesTable, LockTold
<1>6. QED  BY <1>2, <1>4, <1>5

(* The parts of the invariant the other way round, to be shown after a step. *)
LockSound ==
  /\ InputsInv /\ Typed(rl, proxied) /\ (~ stray /\ ~ stale => Regular(rl, proxied))
  /\ stray \in BOOLEAN /\ missed \subseteq App /\ KnowsProcesses /\ KnowsTasks
  /\ \E f : Chained(queue, f, cur) /\ LockTold(f[0])

(* They give the invariant.                                                *)
LEMMA SoundLockInv == LockSound => LockInv
<1> SUFFICES ASSUME LockSound PROVE LockInv
  OBVIOUS
<1>1. LockTypeOK /\ OwnPids
  BY DEF LockTypeOK, OwnPids, Typed, LockType, Own, LockSound
<1>2. rl.isProxied \in BOOLEAN /\ rl.isIdle \in BOOLEAN
  BY DEF Typed, LockType, LockSound
<1>3. ProxiedMatchesTable
  BY <1>2 DEF ProxiedMatchesTable, Regular, LockSound
<1>4. \A f : Chained(queue, f, cur) => f \in [0..Len(queue) -> State]
  BY DEF Chained
<1>5. QED  BY <1>1, <1>3, <1>4 DEF LockInv, LockSound

(* The device works, and everything is empty.                              *)
LEMMA InputsInitKeeps == ASSUME InputsInit PROVE InputsInv
<1>1. queue = <<>> /\ cur = "WORKING" /\ opener = "none" /\ losses = 0 /\ MaxLosses \in Nat
  BY AppAssumption DEF InputsInit, Device!Init
<1>2. InputsTypeOK
  <2>1. queue \in Seq(HandlerTask)
    BY <1>1
  <2>2. running \subseteq Pid /\ tasks \in [App -> SUBSET TaskFlag]
        /\ allowed \in [App -> SUBSET Resource] /\ night \in BOOLEAN /\ switching \in BOOLEAN
        /\ phaseDue = 0
    BY DEF InputsInit
  <2>3. QED  BY <1>1, <2>1, <2>2 DEF InputsTypeOK, State
<1>3. \A S, T, x : Owes(queue, S, T, x)
  BY <1>1 DEF Owes
<1>4. News(queue, cur, running, tasks, allowed)
  BY <1>3 DEF News, TasksTrue, ProcessTasksTrue, ProcessNewsTrue, AllowTrue
<1>5. QED  BY <1>1, <1>2, <1>4 DEF InputsInv

(* In the beginning the strategies are told of the device that works.      *)
LEMMA InputsInitTold ==
  ASSUME InputsInit PROVE \E f : Chained(queue, f, cur) /\ f[0] = cur
<1> DEFINE f == [i \in 0..0 |-> cur]
<1>1. Len(queue) = 0 /\ cur \in State
  BY DEF InputsInit, Device!Init, State
<1>2. f[0] = cur /\ f \in [0..Len(queue) -> State]
  BY <1>1
<1>3. Chained(queue, f, cur)
  BY <1>1, <1>2 DEF Chained
<1>4. QED  BY <1>2, <1>3

(* Nothing is proxied at first and the table is empty.                     *)
LEMMA LockInvInit == Init => LockInv
<1> SUFFICES ASSUME Init PROVE LockInv
  OBVIOUS
<1>1. InputsInit /\ rl = Stopped /\ proxied = {} /\ stray = FALSE /\ missed = {}
  BY DEF Init, LockInit
<1>2. Stopped.isProxied = FALSE /\ Stopped.isIdle = FALSE /\ Stopped.info = NoInfos
  BY DEF Stopped
<1>3. Typed(rl, proxied) /\ Regular(rl, proxied)
  BY <1>1, <1>2, NoInfosHas DEF Typed, Regular
<1>4. KnowsProcesses /\ KnowsTasks /\ \A s : LockTold(s)
  BY <1>1, <1>2 DEF KnowsProcesses, KnowsTasks, LockTold
<1>5. \E f : Chained(queue, f, cur) /\ LockTold(f[0])
  BY <1>1, <1>4, InputsInitTold
<1>6. QED  BY <1>1, <1>3, <1>4, <1>5, InputsInitKeeps, SoundLockInv DEF LockSound

(* What the table knows stays known while nothing is handled.              *)
LEMMA NoticedKnown ==
  ASSUME Noticed, UNCHANGED lockVars, KnowsProcesses, KnowsTasks
  PROVE  KnowsProcesses' /\ KnowsTasks'
<1>1. rl' = rl /\ missed' = missed
  BY DEF lockVars
<1>2. ASSUME rl.isProxied = TRUE, NEW p \in Pid
      PROVE  \/ AppOf[p] \in missed
             \/ Waits(queue', ProcessNews(p) \cup ProcessTasks(p) \cup FromAwake)
             \/ cur' \notin Asleep
             \/ p \in rl.info[AppOf[p]].pids <=> p \in running'
  <2> DEFINE W == ProcessNews(p) \cup ProcessTasks(p) \cup FromAwake
  <2>1. Patient(W)
    <3>1. ASSUME NEW m \in W, m.type = "PROCESS_TASK"
          PROVE  ProcessStateChanged(m.pid, m.isCreated) \in W
      <4>1. m \in ProcessTasks(p)
        BY <3>1 DEF ProcessNews, FromAwake
      <4>2. m \in HandlerTask /\ m.pid = p /\ m.isCreated \in BOOLEAN
        BY <3>1, <4>1, Fields DEF ProcessTasks
      <4>3. ProcessStateChanged(m.pid, m.isCreated) \in HandlerTask
        BY <4>2, Made
      <4>4. QED  BY <4>2, <4>3 DEF ProcessNews, ProcessStateChanged
    <3>2. QED  BY <3>1 DEF Patient
  <2>2. Waits(queue, W) => Waits(queue', W)
    BY <2>1 DEF Noticed
  <2>3. (p \in running <=> p \in running') \/ Waits(queue', W)
    BY DEF Noticed, Waits, Saying
  <2>4. cur \notin Asleep => cur' \notin Asleep \/ Waits(queue', W)
    BY DEF Noticed, Waits
  <2>5. \/ AppOf[p] \in missed \/ Waits(queue, W) \/ cur \notin Asleep
        \/ p \in rl.info[AppOf[p]].pids <=> p \in running
    BY <1>2 DEF KnowsProcesses
  <2> HIDE DEF W
  <2>6. QED  BY <2>2, <2>3, <2>4, <2>5 DEF W
<1>3. ASSUME rl.isProxied = TRUE, NEW a \in App, NEW t \in TaskFlag
      PROVE  \/ a \in missed
             \/ Waits(queue', TaskNews(a, t))
             \/ t \in rl.info[a].flags => t \in tasks'[a]
  <2>1. Patient(TaskNews(a, t))
    BY DEF Patient, TaskNews
  <2>2. Waits(queue, TaskNews(a, t)) => Waits(queue', TaskNews(a, t))
    BY <2>1 DEF Noticed
  <2>3. t \in tasks[a] => t \in tasks'[a] \/ Waits(queue', TaskNews(a, t))
    BY DEF Noticed
  <2>4. QED  BY <1>3, <2>2, <2>3 DEF KnowsTasks
<1>4. KnowsProcesses'
  BY <1>1, <1>2 DEF KnowsProcesses
<1>5. KnowsTasks'
  BY <1>1, <1>3 DEF KnowsTasks
<1>6. QED  BY <1>4, <1>5

(* The steps of the others.                                                *)
LEMMA OthersKeepLock == ASSUME LockInv, Kept, UNCHANGED lockVars PROVE LockInv'
<1>1. /\ Typed(rl, proxied) /\ (~ stray /\ ~ stale => Regular(rl, proxied))
      /\ stray \in BOOLEAN /\ missed \subseteq App
  BY LockInvSound
<1>2. /\ rl' = rl /\ proxied' = proxied /\ stray' = stray /\ missed' = missed
      /\ InputsInv' /\ losses' = losses /\ Noticed
  BY DEF lockVars, Kept
<1>3. KnowsProcesses' /\ KnowsTasks'
  BY <1>2, NoticedKnown DEF LockInv
<1>4. \E g : Chained(queue', g, cur') /\ LockTold(g[0])'
  <2>1. PICK f : Chained(queue, f, cur) /\ LockTold(f[0])
    BY DEF LockInv
  <2>2. PICK g : Chained(queue', g, cur') /\ g[0] = f[0]
    BY <2>1 DEF Kept
  <2>3. LockTold(g[0])'
    BY <1>2, <2>1, <2>2 DEF LockTold, stale
  <2>4. QED  BY <2>2, <2>3
<1>5. (~ stray' /\ ~ stale' => Regular(rl', proxied')) /\ Typed(rl', proxied')
  BY <1>1, <1>2 DEF stale
<1>6. QED
  <2>1. (\E g : Chained(queue, g, cur) /\ LockTold(g[0]))'
    BY <1>4
  <2>2. (InputsInv /\ Typed(rl, proxied) /\ (~ stray /\ ~ stale => Regular(rl, proxied))
         /\ stray \in BOOLEAN /\ missed \subseteq App /\ KnowsProcesses /\ KnowsTasks)'
    BY <1>1, <1>2, <1>3, <1>5
  <2>3. LockSound'
    BY <2>1, <2>2 DEF LockSound
  <2>4. QED  BY <2>3, SoundLockInv, PTL

(* A message is handled.                                                   *)
LEMMA HandlingKeepsLock == ASSUME LockInv, StrategiesHandle PROVE LockInv'
<1>1. PICK answers \in Answers(Head(queue)) : RunningLockHandles(Head(queue), answers)
  BY DEF StrategiesHandle
<1>2. InputsInv /\ Dispatched
  BY DEF LockInv, StrategiesHandle
<1>3. /\ InputsInv' /\ Head(queue) \in HandlerTask /\ Head(queue).type # "PROCESS_TASK"
      /\ \A f : Chained(queue, f, cur) =>
           \E g : Chained(queue', g, cur') /\ Tells(Head(queue), f[0], g[0])
  BY <1>2, DispatchedDoes
<1>4. PICK f : Chained(queue, f, cur) /\ LockTold(f[0])
  BY DEF LockInv
<1>5. PICK g : Chained(queue', g, cur') /\ Tells(Head(queue), f[0], g[0])
  BY <1>3, <1>4
<1>6. /\ Typed(rl, proxied) /\ (~ stray /\ ~ stale => Regular(rl, proxied))
      /\ stray \in BOOLEAN /\ missed \subseteq App
  BY LockInvSound
<1>7. Handling(answers, f[0], g[0])
  BY <1>1, <1>2, <1>3, <1>4, <1>5, <1>6 DEF Handling
<1>8. LockStep(g[0])
  BY <1>7, MessageHandled
<1>9. KnowsProcesses' /\ KnowsTasks'
  BY <1>2, <1>8, ProcessesKnown, TasksKnown DEF LockInv, LockStep
<1>10. stray' \in BOOLEAN /\ missed' \subseteq App /\ (~ stray' => ~ stray)
  BY <1>6, <1>1 DEF RunningLockHandles, MissedAfter
<1>11. Typed(rl', proxied') /\ (~ stray' /\ ~ stale' => Regular(rl', proxied'))
  BY <1>2, <1>6, <1>8, <1>10 DEF LockStep, Dispatched, stale
<1>12. (\E h : Chained(queue, h, cur) /\ LockTold(h[0]))'
  BY <1>5, <1>8 DEF LockStep
<1>13. LockSound'
  BY <1>3, <1>9, <1>10, <1>11, <1>12 DEF LockSound
<1>14. QED  BY <1>13, SoundLockInv, PTL

(* The strategies begin anew, and the device works.                        *)
LEMMA RestartKeepsLock == ASSUME LockInv, Restart PROVE LockInv'
<1>1. ReadinessLost /\ RunningLockRestarts /\ InputsInv
  BY DEF Restart, LockInv
<1>2. PICK f : Chained(queue, f, cur)
  BY DEF LockInv
<1>3. InputsInv' /\ stale' /\ \E g : Chained(queue', g, cur')
  BY <1>1, <1>2, ReadinessLostDoes
<1>4. Typed(rl, proxied) /\ stray \in BOOLEAN /\ missed \subseteq App
  BY LockInvSound
<1>5. /\ rl' = [rl EXCEPT !.isProxied = FALSE, !.isIdle = FALSE] /\ proxied' = {}
      /\ stray' = stray /\ missed' = missed
  BY <1>1 DEF RunningLockRestarts
<1>6. rl' \in LockType /\ rl'.isProxied = FALSE /\ rl'.isIdle = FALSE /\ rl'.info = rl.info
  BY <1>4, <1>5 DEF Typed, LockType
<1>7. Typed(rl', proxied')
  BY <1>4, <1>5, <1>6 DEF Typed
<1>8. KnowsProcesses' /\ KnowsTasks'
  BY <1>6 DEF KnowsProcesses, KnowsTasks
<1>9. \A s : LockTold(s)'
  BY <1>3, <1>6 DEF LockTold
<1>10. (\E h : Chained(queue, h, cur) /\ LockTold(h[0]))'
  BY <1>3, <1>9
<1>11. LockSound'
  BY <1>3, <1>4, <1>5, <1>7, <1>8, <1>10 DEF LockSound
<1>12. QED  BY <1>11, SoundLockInv, PTL

(* Every step keeps the invariant: the inputs move, or a message is        *)
(* handled.                                                                *)
LEMMA LockInvNext == LockInv /\ [Next]_vars => LockInv'
<1> SUFFICES ASSUME LockInv, [Next]_vars PROVE LockInv'
  OBVIOUS
<1>1. CASE Around /\ UNCHANGED <<lockVars, netVars>>
  BY <1>1, AroundKept, OthersKeepLock DEF LockInv
<1>2. CASE Elapse
  BY <1>2, AroundKept, OthersKeepLock DEF LockInv, Elapse
<1>3. CASE UNCHANGED <<inputs, lockVars>>
  <2>1. Kept
    BY <1>3, Unnoticed DEF Kept, inputs, LockInv, InputsInv, InputsTypeOK
  <2>2. QED  BY <1>3, <2>1, OthersKeepLock
<1>4. CASE StrategiesHandle
  BY <1>4, HandlingKeepsLock
<1>5. CASE Restart
  BY <1>5, RestartKeepsLock
<1>6. QED  BY <1>1, <1>2, <1>3, <1>4, <1>5 DEF Next, ScreenOnResets, vars

(* The inductive invariant of the running-lock strategy holds.             *)
LEMMA LockInvHolds == Spec => []LockInv
BY LockInvInit, LockInvNext, PTL DEF Spec

-----------------------------------------------------------------------------
(* What the running-lock strategy promises.                                *)

(* The calls made message by message add up to what the table says.        *)
THEOREM ProxiedMatchesTableHolds == Spec => []ProxiedMatchesTable
<1>1. LockInv => ProxiedMatchesTable
  BY DEF LockInv
<1>2. QED  BY <1>1, LockInvHolds, PTL

(* When the device works and has said so, no running lock is proxied.      *)
THEOREM AwakeNotProxiedHolds == Spec => []AwakeNotProxied
<1>1. LockInv => AwakeNotProxied
  <2> SUFFICES ASSUME LockInv, cur \in {"WORKING", "DARK", "NAP"}, ~ StatePending,
                      ~ stray, ~ stale
               PROVE  proxied = {}
    BY DEF AwakeNotProxied
  <2>1. PICK f : Chained(queue, f, cur) /\ LockTold(f[0])
    BY DEF LockInv
  <2>2. queue \in Seq(HandlerTask)
    BY DEF LockInv, InputsInv, InputsTypeOK
  <2>3. ~ ToldLater(queue, 0)
    BY <2>2 DEF ToldLater, StatePending
  <2>4. 0 \in 0..Len(queue)
    BY <2>2
  <2>5. f[0] = cur
    BY <2>1, <2>3, <2>4 DEF Chained
  <2>6. rl.isProxied # TRUE
    BY <2>1, <2>5 DEF LockTold, Asleep
  <2>7. Regular(rl, proxied)
    BY LockInvSound
  <2>8. QED  BY <2>6, <2>7 DEF Regular
<1>2. QED  BY <1>1, LockInvHolds, PTL

(* While the proxy is on, the table has every process that lives and none  *)
(* that died, once every message has been handled.                         *)
THEOREM TableKnowsProcessesHolds == Spec => []TableKnowsProcesses
<1>1. LockInv => TableKnowsProcesses
  <2> SUFFICES ASSUME LockInv, rl.isProxied, queue = <<>>, NEW a \in App \ missed
               PROVE  rl.info[a].pids = PidsOf(a)
    BY DEF TableKnowsProcesses
  <2>1. PICK f : Chained(queue, f, cur) /\ LockTold(f[0])
    BY DEF LockInv
  <2>2. f[0] = cur
    BY <2>1 DEF Chained
  <2>3. rl.isProxied = TRUE /\ rl.info[a] \in Info /\ running \subseteq Pid
    BY DEF LockInv, LockTypeOK, InputsInv, InputsTypeOK
  <2>4. cur \in Asleep
    BY <2>1, <2>2, <2>3 DEF LockTold
  <2>5. \A T : ~ Waits(queue, T)
    BY DEF Waits
  <2>6. \A p \in Pid : AppOf[p] = a => (p \in rl.info[a].pids <=> p \in running)
    BY <2>3, <2>4, <2>5 DEF LockInv, KnowsProcesses
  <2>7. \A p \in rl.info[a].pids : p \in Pid /\ AppOf[p] = a
    BY <2>3 DEF LockInv, OwnPids, Info
  <2>8. QED  BY <2>3, <2>6, <2>7 DEF PidsOf
<1>2. QED  BY <1>1, LockInvHolds, PTL

(* No exemption outlives the task it was given for, once every message has *)
(* been handled.                                                           *)
THEOREM ExemptionEndsWithTaskHolds == Spec => []ExemptionEndsWithTask
<1>1. LockInv => ExemptionEndsWithTask
  <2> SUFFICES ASSUME LockInv, rl.isProxied, queue = <<>>, NEW a \in App \ missed,
                      NEW t \in TaskFlag, t \in rl.info[a].flags
               PROVE  t \in tasks[a]
    BY DEF ExemptionEndsWithTask
  <2>1. rl.isProxied = TRUE
    BY DEF LockInv, LockTypeOK
  <2>2. ~ Waits(queue, TaskNews(a, t))
    BY DEF Waits
  <2>3. QED  BY <2>1, <2>2 DEF LockInv, KnowsTasks
<1>2. QED  BY <1>1, LockInvHolds, PTL
=============================================================================
