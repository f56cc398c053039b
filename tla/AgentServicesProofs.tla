------------------------ MODULE AgentServicesProofs ------------------------
(***************************************************************************)
(* Proofs about what serves an agent: its background tasks and the         *)
(* processes of external agents.                                           *)
(*                                                                         *)
(* BackgroundTasks: for any number of tasks and waiters, a task that has   *)
(* ended keeps its outcome, nobody sleeps on after the end, and every      *)
(* message for a subagent is promoted or was killed.                       *)
(*                                                                         *)
(* The argument for the queue: one goroutine at a time serves the subagent *)
(* (its runner, or the task that promotes the next one), and it alone      *)
(* knows the message that has left the queue but has not started.          *)
(*                                                                         *)
(* AgentProcesses: for any number of leases, drains and generations, at    *)
(* most one process serves, leases are counted right, a process in use is  *)
(* closed by a drain or a shutdown only, and while a drain holds there is  *)
(* no process.                                                             *)
(*                                                                         *)
(* The counter of a generation is compared with the set of its users, so   *)
(* every step that moves a lease is first reduced to what it does to that  *)
(* set (LeaseMoves).  A drain is right because the key stays blocked from  *)
(* the moment it has listed the generations (DrainsBlock).                 *)
(***************************************************************************)
EXTENDS BackgroundTasks, AgentProcesses, SequenceTheorems, FiniteSetTheorems,
        WellFoundedInduction, TLAPS

-----------------------------------------------------------------------------
(* BackgroundTasks.                                                        *)

DriverPcs == {"no", "admit", "run", "release", "complete", "finish", "promote"}
AtWork == {"admit", "run", "release", "complete"}
Statuses == {"none", "queued", "running", "removed"} \cup Ended
Drivers == [pc: DriverPcs, res: Ended \cup {"none"}, next: BgTasks \cup {NoTask}]
Waits == [pc: {"idle", "read", "sleep", "done"}, t: BgTasks \cup {NoTask},
          gen: 0..2, out: Ended \cup {"none", "stalled"}]

BgTyped ==
    /\ bst \in [BgTasks -> Statuses]
    /\ bstop \in [BgTasks -> BOOLEAN] /\ bgen \in [BgTasks -> Nat]
    /\ bdrv \in [BgTasks -> Drivers]
    /\ bstall \in [BgTasks -> {"no", "watch", "mark", "stalled"}]
    /\ bagent \in [running: AgentTasks \cup {NoTask}, queue: Seq(AgentTasks)]
    /\ bslot \in AgentTasks \cup {NoTask, "user"}
    /\ bwait \in [TaskWaiters -> Waits]

\* How often the channel of a task can have been replaced: by its start when it was queued,
\* or by the stall of a command, and by its end.
Counted(t, st, g, ws) ==
    /\ st \in {"none", "queued"} => g = 0 /\ ws = "no"
    /\ st = "queued" => t \in AgentTasks
    /\ t \in AgentTasks => ws = "no" /\ (st = "running" => g =< 1) /\ g =< 2
    /\ t \notin AgentTasks /\ ws # "stalled" => (st = "running" => g = 0) /\ g =< 1
    /\ t \notin AgentTasks /\ ws = "stalled" => (st = "running" => g =< 1) /\ g =< 2
SignalsCounted == \A t \in BgTasks : Counted(t, bst[t], bgen[t], bstall[t])

\* What the goroutine of a task says about its record.
DriverOk(t, row, st) ==
    /\ row.pc \in AtWork => st = "running" \/ (t \in ExecTasks /\ st \in {"killed", "removed"})
    /\ row.pc \in {"release", "complete"} => row.res \in Ended
    /\ row.pc \in {"admit", "release", "finish", "promote"} => t \in AgentTasks
    /\ row.pc \in {"finish", "promote"} => st \in Ended \cup {"removed"}
DriversMatch == \A t \in BgTasks : DriverOk(t, bdrv[t], bst[t])

\* One task of the subagent has a goroutine, and the coordinator knows of it.
OneAtWork ==
    /\ \A t, u \in AgentTasks : bdrv[t].pc # "no" /\ bdrv[u].pc # "no" => t = u
    /\ bagent.running # NoTask <=> \E t \in AgentTasks : bdrv[t].pc # "no"
    /\ \A t \in AgentTasks : bdrv[t].pc \in AtWork => bagent.running = t

\* It has the run of the thread while it executes.
SlotMatches == \A t \in AgentTasks : bslot = t <=> bdrv[t].pc \in {"run", "release"}

Distinct(q) == \A i, j \in DOMAIN q : i # j => q[i] # q[j]
Holds(q, t) == \E i \in DOMAIN q : q[i] = t

\* A message that has not started; it may have been killed meanwhile.
Waiting(t) == bst[t] \in {"queued", "killed", "removed"} /\ bdrv[t].pc = "no"

\* The message that has left the queue and not started is known to the one that promotes it.
QueueMatches ==
    /\ Distinct(bagent.queue)
    /\ \A t \in AgentTasks : Holds(bagent.queue, t) => Waiting(t)
    /\ bagent.running = NoTask => bagent.queue = <<>>
    /\ \A t \in AgentTasks : bdrv[t].pc = "promote" =>
         /\ bdrv[t].next \in AgentTasks /\ bagent.running = bdrv[t].next
         /\ Waiting(bdrv[t].next) /\ ~Holds(bagent.queue, bdrv[t].next)
    /\ \A t \in AgentTasks : bst[t] = "queued" =>
         \/ Holds(bagent.queue, t)
         \/ \E u \in AgentTasks : bdrv[u].pc = "promote" /\ bdrv[u].next = t

\* A waiter that sleeps has read the task before it ended.
WaitsMatch ==
    \A w \in TaskWaiters :
        /\ bwait[w].pc \in {"read", "sleep"} => bwait[w].t \in BgTasks
        /\ bwait[w].pc = "sleep" =>
             /\ bwait[w].gen =< bgen[bwait[w].t]
             /\ bst[bwait[w].t] \in Ended => bwait[w].gen < bgen[bwait[w].t]

BgIInv ==
    /\ BgTyped /\ SignalsCounted /\ DriversMatch /\ OneAtWork /\ SlotMatches /\ QueueMatches
    /\ WaitsMatch
-----------------------------------------------------------------------------
(* The queue.                                                              *)

\* A set of numbers has a least one.
LEMMA LeastNumber ==
    ASSUME NEW S, S \subseteq Nat, S # {}
    PROVE  \E i \in S : \A j \in S : i =< j
<1> DEFINE R == {ss \in Nat \X Nat : ss[1] < ss[2]}
<1>1. IsWellFoundedOn(R, Nat)
  BY NatLessThanWellFounded DEF OpToRel
<1> HIDE DEF R
<1>2. PICK i \in S : \A j \in S : ~ (<<j, i>> \in R)
  BY <1>1, WFMin
<1>3. \A j \in S : ~ (j < i)
  BY <1>2 DEF R
<1> QED
  BY <1>3

\* What finishAgentRequest goes on with is the end of the queue; what it passes over was
\* killed.
LEMMA PromotableFacts ==
    ASSUME NEW q \in Seq(AgentTasks), Distinct(q)
    PROVE  /\ Promotable(q) \in Seq(AgentTasks) /\ Distinct(Promotable(q))
           /\ \A t \in AgentTasks : Holds(Promotable(q), t) => Holds(q, t)
           /\ \A t \in AgentTasks : Holds(q, t) /\ ~Holds(Promotable(q), t) => bst[t] = "killed"
<1> DEFINE alive == {i \in DOMAIN q : bst[q[i]] # "killed"}
           p == Promotable(q)
<1>0. /\ Len(q) \in Nat /\ DOMAIN q = 1..Len(q) /\ \A i \in 1..Len(q) : q[i] \in AgentTasks
  OBVIOUS
<1>1. CASE alive = {}
  <2>1. p = <<>>
    BY <1>1 DEF Promotable
  <2> HIDE DEF p
  <2>2. p \in Seq(AgentTasks) /\ DOMAIN p = {}
    BY <2>1
  <2> QED
    BY <1>1, <2>2 DEF Distinct, Holds, p
<1>2. CASE alive # {}
  <2> DEFINE k == CHOOSE i \in alive : \A j \in alive : i <= j
  <2>1. k \in alive /\ \A j \in alive : k <= j
    <3>1. alive \subseteq Nat
      BY <1>0
    <3> HIDE DEF alive
    <3>2. \E i \in alive : \A j \in alive : i =< j
      BY <1>2, <3>1, LeastNumber
    <3> QED
      BY <3>2
  <2>2. p = SubSeq(q, k, Len(q))
    BY <1>2 DEF Promotable
  <2> HIDE DEF k, p
  <2>3. k \in 1..Len(q)
    BY <1>0, <2>1
  <2>4. \A i \in 1..Len(q) : i < k => bst[q[i]] = "killed"
    BY <1>0, <2>1, <2>3
  <2>5. /\ p \in Seq(AgentTasks) /\ Len(p) = Len(q) - k + 1
        /\ \A i \in 1..(Len(q) - k + 1) : p[i] = q[k + i - 1]
    BY <1>0, <2>2, <2>3, SubSeqProperties
  <2>6. DOMAIN p = 1..(Len(q) - k + 1)
    BY <2>5
  <2>7. Distinct(p)
    <3> SUFFICES ASSUME NEW i \in DOMAIN p, NEW j \in DOMAIN p, i # j PROVE p[i] # p[j]
      BY DEF Distinct
    <3>1. k + i - 1 \in 1..Len(q) /\ k + j - 1 \in 1..Len(q) /\ k + i - 1 # k + j - 1
      BY <1>0, <2>3, <2>6
    <3>2. p[i] = q[k + i - 1] /\ p[j] = q[k + j - 1]
      BY <2>5, <2>6
    <3> QED
      BY <1>0, <3>1, <3>2 DEF Distinct
  <2>8. ASSUME NEW t \in AgentTasks, Holds(p, t) PROVE Holds(q, t)
    <3>1. PICK i \in 1..(Len(q) - k + 1) : p[i] = t
      BY <2>6, <2>8 DEF Holds
    <3>2. k + i - 1 \in 1..Len(q)
      BY <1>0, <2>3
    <3>3. q[k + i - 1] = t
      BY <2>5, <3>1
    <3> QED
      BY <1>0, <3>2, <3>3 DEF Holds
  <2>9. ASSUME NEW t \in AgentTasks, Holds(q, t), ~Holds(p, t) PROVE bst[t] = "killed"
    <3>1. PICK i \in 1..Len(q) : q[i] = t
      BY <1>0, <2>9 DEF Holds
    <3>2. CASE i < k
      BY <2>4, <3>1, <3>2
    <3>3. CASE i >= k
      <4>1. i - k + 1 \in 1..(Len(q) - k + 1)
        BY <1>0, <2>3, <3>3
      <4>2. p[i - k + 1] = q[k + (i - k + 1) - 1] /\ k + (i - k + 1) - 1 = i
        BY <1>0, <2>3, <2>5, <4>1
      <4> QED
        BY <2>6, <2>9, <3>1, <4>1, <4>2 DEF Holds
    <3> QED
      BY <1>0, <2>3, <3>2, <3>3
  <2> QED
    BY <2>5, <2>7, <2>8, <2>9 DEF p
<1> QED
  BY <1>1, <1>2

\* The head of a queue without repetitions is not behind itself.
LEMMA HeadTailFacts ==
    ASSUME NEW q \in Seq(AgentTasks), q # <<>>, Distinct(q)
    PROVE  /\ Head(q) \in AgentTasks /\ Tail(q) \in Seq(AgentTasks) /\ Distinct(Tail(q))
           /\ Holds(q, Head(q)) /\ ~Holds(Tail(q), Head(q))
           /\ \A t \in AgentTasks : Holds(Tail(q), t) => Holds(q, t)
           /\ \A t \in AgentTasks : Holds(q, t) => t = Head(q) \/ Holds(Tail(q), t)
<1> DEFINE n == Len(q)
           r == Tail(q)
<1>1. /\ n \in Nat /\ n >= 1 /\ DOMAIN q = 1..n /\ Head(q) = q[1]
      /\ \A i \in 1..n : q[i] \in AgentTasks
  OBVIOUS
<1>2. /\ r \in Seq(AgentTasks) /\ Len(r) = n - 1 /\ \A i \in 1..(n - 1) : r[i] = q[i + 1]
  BY HeadTailProperties
<1>3. DOMAIN r = 1..(n - 1)
  BY <1>2
<1> HIDE DEF n, r
<1>4. Distinct(r)
  <2> SUFFICES ASSUME NEW i \in DOMAIN r, NEW j \in DOMAIN r, i # j PROVE r[i] # r[j]
    BY DEF Distinct
  <2>1. i + 1 \in 1..n /\ j + 1 \in 1..n /\ i + 1 # j + 1 /\ r[i] = q[i + 1] /\ r[j] = q[j + 1]
    BY <1>1, <1>2, <1>3
  <2> QED
    BY <1>1, <2>1 DEF Distinct
<1>5. Head(q) \in AgentTasks /\ Holds(q, Head(q))
  BY <1>1 DEF Holds
<1>6. ~Holds(r, Head(q))
  BY <1>1, <1>2, <1>3 DEF Holds, Distinct
<1>7. \A t \in AgentTasks : Holds(r, t) => Holds(q, t)
  <2>1. \A i \in DOMAIN r : i + 1 \in DOMAIN q /\ r[i] = q[i + 1]
    BY <1>1, <1>2, <1>3
  <2> QED
    BY <2>1 DEF Holds
<1>8. ASSUME NEW t \in AgentTasks, Holds(q, t) PROVE t = Head(q) \/ Holds(r, t)
  <2>1. PICK i \in 1..n : q[i] = t
    BY <1>1, <1>8 DEF Holds
  <2>2. CASE i = 1
    BY <1>1, <2>1, <2>2
  <2>3. CASE i # 1
    <3>1. i - 1 \in 1..(n - 1) /\ (i - 1) + 1 = i
      BY <1>1, <2>3
    <3>2. r[i - 1] = t
      BY <1>2, <2>1, <3>1
    <3> QED
      BY <1>3, <3>1, <3>2 DEF Holds
  <2> QED
    BY <2>2, <2>3
<1> QED
  BY <1>2, <1>4, <1>5, <1>6, <1>7, <1>8 DEF r

\* A message is queued behind the others.
LEMMA AppendFacts ==
    ASSUME NEW q \in Seq(AgentTasks), NEW x \in AgentTasks, Distinct(q), ~Holds(q, x)
    PROVE  /\ Append(q, x) \in Seq(AgentTasks) /\ Distinct(Append(q, x))
           /\ \A t \in AgentTasks : Holds(Append(q, x), t) <=> t = x \/ Holds(q, t)
<1> DEFINE n == Len(q)
           r == Append(q, x)
<1>1. n \in Nat /\ DOMAIN q = 1..n
  OBVIOUS
<1>2. /\ r \in Seq(AgentTasks) /\ Len(r) = n + 1 /\ (\A i \in 1..n : r[i] = q[i]) /\ r[n + 1] = x
  BY AppendProperties
<1>3. DOMAIN r = 1..(n + 1)
  BY <1>2
<1> HIDE DEF n, r
<1>4. Distinct(r)
  BY <1>1, <1>2, <1>3 DEF Distinct, Holds
<1>5. \A t \in AgentTasks : Holds(r, t) <=> t = x \/ Holds(q, t)
  BY <1>1, <1>2, <1>3 DEF Holds
<1> QED
  BY <1>2, <1>4, <1>5 DEF r

-----------------------------------------------------------------------------
(* The invariant.                                                          *)

\* The invariant contains the checked ones.
LEMMA BgIInvImplies == BgIInv => TaskInv /\ MessagesAreServed
<1> SUFFICES ASSUME BgIInv PROVE TaskInv /\ MessagesAreServed
  OBVIOUS
<1> USE DEF BgIInv
<1>1. BackgroundTypeOK
  <2>1. bgen \in [BgTasks -> 0..2]
    <3>1. \A t \in BgTasks : bgen[t] \in 0..2
      <4>1. \A t \in BgTasks : bgen[t] \in Nat /\ Counted(t, bst[t], bgen[t], bstall[t])
        BY DEF BgTyped, SignalsCounted
      <4> QED
        BY <4>1 DEF Counted
    <3> QED
      BY <3>1 DEF BgTyped
  <2>2. bagent.running \in AgentTasks \cup {NoTask}
    BY DEF BgTyped
  <2>3. \A i, j \in DOMAIN bagent.queue : i # j => bagent.queue[i] # bagent.queue[j]
    BY DEF QueueMatches, Distinct
  <2> QED
    BY <2>1, <2>2, <2>3 DEF BackgroundTypeOK, BgTyped, Statuses, Drivers, DriverPcs, Waits
<1>2. OnlyRunningTaskRuns
  BY BackgroundAssumption DEF OnlyRunningTaskRuns, DriversMatch, DriverOk, OneAtWork, AtWork, BgTasks
<1>3. WaitersHearTheEnd
  <2>1. \A w \in TaskWaiters : bwait[w].pc = "sleep" => bwait[w].t \in BgTasks /\ bwait[w].gen \in Nat
    BY DEF WaitsMatch, BgTyped, Waits
  <2>2. \A t \in BgTasks : bgen[t] \in Nat
    BY DEF BgTyped
  <2> QED
    BY <2>1, <2>2 DEF WaitersHearTheEnd, WaitsMatch
<1>4. SuccessorIsNotRefused
  BY DEF SuccessorIsNotRefused, SlotMatches, OneAtWork, BgTyped
<1>5. NoMessageIsStranded
  BY DEF NoMessageIsStranded, OneAtWork, QueueMatches, Holds
<1> QED
  BY <1>1, <1>2, <1>3, <1>4, <1>5 DEF TaskInv, MessagesAreServed

\* At first there is no task.
LEMMA InitBgIInv == BackgroundInit => BgIInv
<1> SUFFICES ASSUME BackgroundInit PROVE BgIInv
  OBVIOUS
<1> USE DEF BackgroundInit
<1>1. NoDriver \in Drivers /\ NoDriver.pc = "no"
  BY DEF NoDriver, Drivers, DriverPcs
<1>2. bagent \in [running: AgentTasks \cup {NoTask}, queue: Seq(AgentTasks)]
  OBVIOUS
<1>3. \A t \in BgTasks : bdrv[t].pc = "no"
  BY <1>1
<1>4. AgentTasks \subseteq BgTasks
  BY DEF BgTasks
<1>5. bagent.running = NoTask /\ bagent.queue = <<>>
  OBVIOUS
<1>6. BgTyped
  BY <1>1, <1>2 DEF BgTyped, Statuses, Waits, Ended
<1>7. SignalsCounted
  BY DEF SignalsCounted, Counted
<1>8. DriversMatch
  BY <1>3 DEF DriversMatch, DriverOk, AtWork
<1>9. OneAtWork /\ SlotMatches
  BY <1>3, <1>4, <1>5, BackgroundAssumption DEF OneAtWork, SlotMatches, AtWork
<1>10. QueueMatches
  BY <1>3, <1>4, <1>5 DEF QueueMatches, Distinct, Holds
<1>11. WaitsMatch
  BY DEF WaitsMatch
<1> QED
  BY <1>6, <1>7, <1>8, <1>9, <1>10, <1>11 DEF BgIInv

\* Signals only wake: what the waiters know stays true when a task ends with a signal.
LEMMA WaitsKept ==
    ASSUME BgTyped, WaitsMatch, bwait' = bwait, bgen' \in [BgTasks -> Nat],
           \A t \in BgTasks : bgen[t] =< bgen'[t],
           \A t \in BgTasks : bst'[t] \in Ended => bst[t] \in Ended \/ bgen[t] < bgen'[t]
    PROVE  WaitsMatch'
<1> SUFFICES ASSUME NEW w \in TaskWaiters
             PROVE  /\ bwait[w].pc \in {"read", "sleep"} => bwait[w].t \in BgTasks
                    /\ bwait[w].pc = "sleep" =>
                         /\ bwait[w].gen =< bgen'[bwait[w].t]
                         /\ bst'[bwait[w].t] \in Ended => bwait[w].gen < bgen'[bwait[w].t]
  BY DEF WaitsMatch
<1>1. bwait[w].pc \in {"read", "sleep"} => bwait[w].t \in BgTasks
  BY DEF WaitsMatch
<1>2. CASE bwait[w].pc = "sleep"
  <2> DEFINE t == bwait[w].t
             g == bwait[w].gen
  <2>1. t \in BgTasks /\ g \in Nat
    <3>1. bwait[w] \in Waits
      BY DEF BgTyped
    <3>2. g \in Nat
      BY <3>1 DEF Waits
    <3> QED
      BY <1>1, <1>2, <3>2
  <2>2. g =< bgen[t] /\ (bst[t] \in Ended => g < bgen[t])
    BY <1>2 DEF WaitsMatch
  <2>3. bgen[t] \in Nat /\ bgen'[t] \in Nat
    BY <2>1 DEF BgTyped
  <2> HIDE DEF t, g
  <2>4. g =< bgen'[t] /\ (bst'[t] \in Ended => g < bgen'[t])
    BY <2>1, <2>2, <2>3
  <2> QED
    BY <1>1, <2>4 DEF t, g
<1> QED
  BY <1>1, <1>2

\* A step that writes the record of the task t, and what it may do besides.
Writes(t, st, g, ws) ==
    /\ bst' = [bst EXCEPT ![t] = st] /\ bgen' = [bgen EXCEPT ![t] = g]
    /\ bstall' = [bstall EXCEPT ![t] = ws]
Besides ==
    /\ bstop' \in [BgTasks -> BOOLEAN] /\ bdrv' \in [BgTasks -> Drivers]
    /\ bagent' \in [running: AgentTasks \cup {NoTask}, queue: Seq(AgentTasks)]
    /\ bslot' \in AgentTasks \cup {NoTask, "user"} /\ bwait' = bwait

\* A step that writes the record of one task t.
LEMMA RecordKept ==
    ASSUME BgIInv, NEW t \in BgTasks, NEW st \in Statuses, NEW g \in Nat,
           NEW ws \in {"no", "watch", "mark", "stalled"}, Writes(t, st, g, ws), Besides,
           bgen[t] =< g, st \in Ended => bst[t] \in Ended \/ bgen[t] < g,
           Counted(t, st, g, ws)
    PROVE  BgTyped' /\ SignalsCounted' /\ WaitsMatch'
<1>0. /\ BgTyped /\ bst'[t] = st /\ bgen'[t] = g /\ bstall'[t] = ws
      /\ \A u \in BgTasks : u # t => bst'[u] = bst[u] /\ bgen'[u] = bgen[u] /\ bstall'[u] = bstall[u]
  BY DEF BgIInv, BgTyped, Writes
<1>1. BgTyped'
  BY DEF BgIInv, BgTyped, Writes, Besides
<1>2. SignalsCounted'
  BY <1>0 DEF BgIInv, SignalsCounted
<1>3. WaitsMatch'
  <2>1. bgen' \in [BgTasks -> Nat] /\ \A u \in BgTasks : bgen[u] \in Nat
    BY <1>0, <1>1 DEF BgTyped
  <2>2. \A u \in BgTasks : bgen[u] =< bgen'[u]
    BY <1>0, <2>1
  <2>3. \A u \in BgTasks : bst'[u] \in Ended => bst[u] \in Ended \/ bgen[u] < bgen'[u]
    BY <1>0
  <2>4. bwait' = bwait
    BY DEF Besides
  <2> QED
    BY <2>1, <2>2, <2>3, <2>4, WaitsKept DEF BgIInv
<1> QED
  BY <1>1, <1>2, <1>3

\* A step that writes no record.
LEMMA DriverStepKept ==
    ASSUME BgIInv, bst' = bst, bgen' = bgen, bstall' = bstall,
           bstop' \in [BgTasks -> BOOLEAN], bdrv' \in [BgTasks -> Drivers],
           bagent' \in [running: AgentTasks \cup {NoTask}, queue: Seq(AgentTasks)],
           bslot' \in AgentTasks \cup {NoTask, "user"}, bwait' = bwait
    PROVE  BgTyped' /\ SignalsCounted' /\ WaitsMatch'
BY DEF BgIInv, BgTyped, SignalsCounted, WaitsMatch

\* A step that leaves the subagent's tasks and its thread alone.
LEMMA AgentsKept ==
    ASSUME OneAtWork, SlotMatches, QueueMatches, bagent' = bagent, bslot' = bslot,
           \A t \in AgentTasks : bst'[t] = bst[t] /\ bdrv'[t] = bdrv[t]
    PROVE  OneAtWork' /\ SlotMatches' /\ QueueMatches'
<1>1. OneAtWork'
  BY DEF OneAtWork
<1>2. SlotMatches'
  BY DEF SlotMatches
<1>3. QueueMatches'
  BY DEF QueueMatches, Waiting
<1> QED
  BY <1>1, <1>2, <1>3
-----------------------------------------------------------------------------
(* The steps of the waiters.                                               *)

\* A wait_until call moves: only its own row changes.
LEMMA WaitRowKeeps ==
    ASSUME BgIInv, NEW w \in TaskWaiters, NEW row \in Waits, bwait' = [bwait EXCEPT ![w] = row],
           UNCHANGED <<bst, bstop, bgen, bdrv, bstall, bagent, bslot>>,
           row.pc \in {"read", "sleep"} => row.t \in BgTasks,
           row.pc = "sleep" => row.gen =< bgen[row.t] /\ (bst[row.t] \in Ended => row.gen < bgen[row.t])
    PROVE  BgIInv'
<1>1. BgTyped'
  BY DEF BgIInv, BgTyped
<1>2. SignalsCounted' /\ DriversMatch'
  BY DEF BgIInv, SignalsCounted, DriversMatch
<1>3. OneAtWork' /\ SlotMatches' /\ QueueMatches'
  BY AgentsKept DEF BgIInv
<1>4. WaitsMatch'
  BY DEF BgIInv, WaitsMatch, BgTyped
<1> QED
  BY <1>1, <1>2, <1>3, <1>4 DEF BgIInv

\* A wait begins, reads the task, wakes or gives up.
LEMMA WaiterKeeps ==
    ASSUME BgIInv, NEW w \in TaskWaiters, Waiter(w)
    PROVE  BgIInv'
<1> DEFINE wt == bwait[w]
<1>0. wt \in Waits /\ (\A t \in BgTasks : bgen[t] \in 0..2 /\ bst[t] \in Statuses)
  <2>1. \A t \in BgTasks : bgen[t] \in 0..2
    BY DEF BgIInv, BgTyped, SignalsCounted, Counted
  <2> QED
    BY <2>1 DEF BgIInv, BgTyped
<1>1. ASSUME NEW t \in BgTasks, WaitUntil(w, t) PROVE BgIInv'
  <2> DEFINE row == [wt EXCEPT !.pc = "read", !.t = t]
  <2>1. row \in Waits /\ row.pc = "read" /\ row.t = t
    BY <1>0 DEF Waits
  <2>2. /\ bwait' = [bwait EXCEPT ![w] = row]
        /\ UNCHANGED <<bst, bstop, bgen, bdrv, bstall, bagent, bslot>>
    BY <1>1 DEF WaitUntil
  <2> HIDE DEF row
  <2> QED
    BY <2>1, <2>2, WaitRowKeeps
<1>2. ASSUME WaiterReads(w) PROVE BgIInv'
  <2> DEFINE t == wt.t
  <2>1. t \in BgTasks /\ wt.pc = "read"
    BY <1>2 DEF WaiterReads, BgIInv, WaitsMatch
  <2>2. UNCHANGED <<bst, bstop, bgen, bdrv, bstall, bagent, bslot>>
    BY <1>2 DEF WaiterReads
  <2>3. CASE bst[t] \in Ended
    <3> DEFINE row == [wt EXCEPT !.pc = "done", !.out = bst[t]]
    <3>1. row \in Waits /\ row.pc = "done"
      BY <1>0, <2>3 DEF Waits
    <3>2. bwait' = [bwait EXCEPT ![w] = row]
      BY <1>2, <2>3 DEF WaiterReads
    <3> HIDE DEF row
    <3> QED
      BY <2>2, <3>1, <3>2, WaitRowKeeps
  <2>4. CASE bst[t] \notin Ended /\ bstall[t] = "stalled" /\ bst[t] = "running"
    <3> DEFINE row == [wt EXCEPT !.pc = "done", !.out = "stalled"]
    <3>1. row \in Waits /\ row.pc = "done"
      BY <1>0 DEF Waits
    <3>2. bwait' = [bwait EXCEPT ![w] = row]
      BY <1>2, <2>4 DEF WaiterReads
    <3> HIDE DEF row
    <3> QED
      BY <2>2, <3>1, <3>2, WaitRowKeeps
  <2>5. CASE bst[t] \notin Ended /\ ~(bstall[t] = "stalled" /\ bst[t] = "running")
    <3> DEFINE row == [wt EXCEPT !.pc = "sleep", !.gen = bgen[t]]
    <3>1. bgen[t] \in 0..2
      BY <1>0, <2>1
    <3>2. bwait' = [bwait EXCEPT ![w] = row]
      BY <1>2, <2>5 DEF WaiterReads, ChannelOf
    <3>3. row \in Waits /\ row.pc = "sleep" /\ row.gen = bgen[t] /\ row.t = t
      BY <1>0, <3>1 DEF Waits
    <3> HIDE DEF row
    <3>4. row.t \in BgTasks /\ row.gen =< bgen[row.t] /\ bst[row.t] \notin Ended
      BY <2>1, <2>5, <3>1, <3>3
    <3> QED
      BY <2>2, <3>2, <3>3, <3>4, WaitRowKeeps
  <2> QED
    BY <2>3, <2>4, <2>5
<1>3. ASSUME WaiterWakes(w) PROVE BgIInv'
  <2> DEFINE row == [wt EXCEPT !.pc = "read"]
  <2>1. wt.t \in BgTasks
    BY <1>3 DEF WaiterWakes, BgIInv, WaitsMatch
  <2>2. row \in Waits /\ row.pc = "read" /\ row.t = wt.t
    BY <1>0 DEF Waits
  <2>3. /\ bwait' = [bwait EXCEPT ![w] = row]
        /\ UNCHANGED <<bst, bstop, bgen, bdrv, bstall, bagent, bslot>>
    BY <1>3 DEF WaiterWakes
  <2> HIDE DEF row
  <2> QED
    BY <2>1, <2>2, <2>3, WaitRowKeeps
<1>4. ASSUME WaiterLeaves(w) PROVE BgIInv'
  <2> DEFINE row == [wt EXCEPT !.pc = "done"]
  <2>1. row \in Waits /\ row.pc = "done"
    BY <1>0 DEF Waits
  <2>2. /\ bwait' = [bwait EXCEPT ![w] = row]
        /\ UNCHANGED <<bst, bstop, bgen, bdrv, bstall, bagent, bslot>>
    BY <1>4 DEF WaiterLeaves
  <2> HIDE DEF row
  <2> QED
    BY <2>1, <2>2, WaitRowKeeps
<1> QED
  BY <1>1, <1>2, <1>3, <1>4 DEF Waiter
-----------------------------------------------------------------------------
(* The steps of commands and installs.                                     *)

\* A step of task t, not one of the subagent's.
LEMMA PlainStepKeeps ==
    ASSUME BgIInv, NEW t \in BgTasks \ AgentTasks,
           NEW st \in Statuses, bst' = [bst EXCEPT ![t] = st],
           NEW row \in Drivers, bdrv' = [bdrv EXCEPT ![t] = row],
           NEW g \in Nat, bgen' = [bgen EXCEPT ![t] = g],
           NEW ws \in {"no", "watch", "mark", "stalled"}, bstall' = [bstall EXCEPT ![t] = ws],
           bstop' \in [BgTasks -> BOOLEAN], bagent' = bagent, bslot' = bslot, bwait' = bwait,
           bgen[t] =< g, st \in Ended => bst[t] \in Ended \/ bgen[t] < g,
           Counted(t, st, g, ws), DriverOk(t, row, st)
    PROVE  BgIInv'
<1>0. /\ BgTyped /\ bst'[t] = st /\ bdrv'[t] = row /\ bdrv' \in [BgTasks -> Drivers]
      /\ \A u \in BgTasks : u # t => bst'[u] = bst[u] /\ bdrv'[u] = bdrv[u]
      /\ bagent' \in [running: AgentTasks \cup {NoTask}, queue: Seq(AgentTasks)]
      /\ bslot' \in AgentTasks \cup {NoTask, "user"}
  BY DEF BgIInv, BgTyped
<1>1. BgTyped' /\ SignalsCounted' /\ WaitsMatch'
  <2>1. Writes(t, st, g, ws) /\ Besides /\ t \in BgTasks
    BY <1>0 DEF Writes, Besides
  <2> QED
    BY <2>1, RecordKept
<1>2. DriversMatch'
  BY <1>0 DEF BgIInv, DriversMatch
<1>3. OneAtWork' /\ SlotMatches' /\ QueueMatches'
  <2>1. \A u \in AgentTasks : bst'[u] = bst[u] /\ bdrv'[u] = bdrv[u]
    BY <1>0 DEF BgTasks
  <2> QED
    BY <2>1, AgentsKept DEF BgIInv
<1> QED
  BY <1>1, <1>2, <1>3 DEF BgIInv

\* What the invariant says of one task.
LEMMA TaskFacts ==
    ASSUME BgIInv, NEW t \in BgTasks
    PROVE  /\ bst[t] \in Statuses /\ bdrv[t] \in Drivers /\ bgen[t] \in Nat
           /\ bstall[t] \in {"no", "watch", "mark", "stalled"}
           /\ bst = [bst EXCEPT ![t] = bst[t]] /\ bdrv = [bdrv EXCEPT ![t] = bdrv[t]]
           /\ bgen = [bgen EXCEPT ![t] = bgen[t]] /\ bstall = [bstall EXCEPT ![t] = bstall[t]]
           /\ bstop \in [BgTasks -> BOOLEAN]
           /\ Counted(t, bst[t], bgen[t], bstall[t]) /\ DriverOk(t, bdrv[t], bst[t])
<1>1. /\ bst[t] \in Statuses /\ bdrv[t] \in Drivers /\ bgen[t] \in Nat
      /\ bstall[t] \in {"no", "watch", "mark", "stalled"} /\ bstop \in [BgTasks -> BOOLEAN]
  BY DEF BgIInv, BgTyped
<1>2. /\ bst = [bst EXCEPT ![t] = bst[t]] /\ bdrv = [bdrv EXCEPT ![t] = bdrv[t]]
      /\ bgen = [bgen EXCEPT ![t] = bgen[t]] /\ bstall = [bstall EXCEPT ![t] = bstall[t]]
  BY DEF BgIInv, BgTyped
<1>3. Counted(t, bst[t], bgen[t], bstall[t]) /\ DriverOk(t, bdrv[t], bst[t])
  BY DEF BgIInv, SignalsCounted, DriversMatch
<1> QED
  BY <1>1, <1>2, <1>3

\* A command or an install starts, or its result is there.
LEMMA PlainRunKeeps ==
    ASSUME BgIInv, NEW t \in BgTasks, StartTask(t) \/ \E res \in Ended : TaskResult(t, res)
    PROVE  BgIInv'
<1> DEFINE row0 == bdrv[t]
<1>0. /\ bst[t] \in Statuses /\ bdrv[t] \in Drivers /\ bgen[t] \in Nat
      /\ bstall[t] \in {"no", "watch", "mark", "stalled"}
      /\ bst = [bst EXCEPT ![t] = bst[t]] /\ bgen = [bgen EXCEPT ![t] = bgen[t]]
      /\ bstall = [bstall EXCEPT ![t] = bstall[t]]
      /\ bstop \in [BgTasks -> BOOLEAN]
      /\ Counted(t, bst[t], bgen[t], bstall[t]) /\ DriverOk(t, bdrv[t], bst[t])
  BY TaskFacts
<1>1. CASE StartTask(t)
  <2> DEFINE ws == IF t \in ExecTasks THEN "watch" ELSE "no"
             row == [row0 EXCEPT !.pc = "run"]
  <2>1. /\ bst[t] = "none" /\ t \notin AgentTasks /\ bst' = [bst EXCEPT ![t] = "running"]
        /\ bdrv' = [bdrv EXCEPT ![t] = row] /\ bstall' = [bstall EXCEPT ![t] = ws]
        /\ UNCHANGED <<bstop, bgen, bagent, bslot, bwait>>
    BY <1>1, BackgroundAssumption DEF StartTask, DriverAt
  <2>2. ws \in {"no", "watch", "mark", "stalled"} /\ ws # "stalled"
    OBVIOUS
  <2>3. row \in Drivers /\ row.pc = "run"
    BY <1>0 DEF Drivers, DriverPcs
  <2> HIDE DEF ws, row
  <2>4. Counted(t, "running", bgen[t], ws) /\ DriverOk(t, row, "running")
    BY <1>0, <2>1, <2>2, <2>3 DEF Counted, DriverOk
  <2>5. "running" \in Statuses /\ "running" \notin Ended /\ t \in BgTasks \ AgentTasks
    BY <2>1 DEF Statuses, Ended
  <2>6. bgen' = [bgen EXCEPT ![t] = bgen[t]] /\ bstop' \in [BgTasks -> BOOLEAN]
        /\ bagent' = bagent /\ bslot' = bslot /\ bwait' = bwait /\ bgen[t] =< bgen[t]
    BY <1>0, <2>1
  <2> QED
    BY <1>0, <2>1, <2>2, <2>3, <2>4, <2>5, <2>6, PlainStepKeeps
<1>2. ASSUME NEW res \in Ended, TaskResult(t, res) PROVE BgIInv'
  <2> DEFINE row == [row0 EXCEPT !.pc = "complete", !.res = res]
  <2>1. /\ row0.pc = "run" /\ t \notin AgentTasks /\ bdrv' = [bdrv EXCEPT ![t] = row]
        /\ UNCHANGED <<bst, bstop, bgen, bstall, bagent, bslot, bwait>>
    BY <1>2 DEF TaskResult
  <2>2. row \in Drivers /\ row.pc = "complete" /\ row.res = res
    BY <1>0 DEF Drivers, DriverPcs
  <2> HIDE DEF row
  <2>3. DriverOk(t, row, bst[t])
    BY <1>0, <2>1, <2>2 DEF DriverOk, AtWork
  <2>4. /\ bst' = [bst EXCEPT ![t] = bst[t]] /\ bgen' = [bgen EXCEPT ![t] = bgen[t]]
        /\ bstall' = [bstall EXCEPT ![t] = bstall[t]] /\ bstop' \in [BgTasks -> BOOLEAN]
        /\ bagent' = bagent /\ bslot' = bslot /\ bwait' = bwait /\ bgen[t] =< bgen[t]
        /\ t \in BgTasks \ AgentTasks
    BY <1>0, <2>1
  <2> QED
    BY <1>0, <2>1, <2>2, <2>3, <2>4, PlainStepKeeps
<1> QED
  BY <1>1, <1>2

\* The stall watchdog reads the status, and sets the flag later.
LEMMA WatchdogKeeps ==
    ASSUME BgIInv, NEW t \in BgTasks, WatchdogReads(t) \/ MarkStalled(t)
    PROVE  BgIInv'
<1>0. /\ bst[t] \in Statuses /\ bdrv[t] \in Drivers /\ bgen[t] \in Nat
      /\ bst = [bst EXCEPT ![t] = bst[t]] /\ bgen = [bgen EXCEPT ![t] = bgen[t]]
      /\ bdrv = [bdrv EXCEPT ![t] = bdrv[t]] /\ bstop \in [BgTasks -> BOOLEAN]
      /\ Counted(t, bst[t], bgen[t], bstall[t]) /\ DriverOk(t, bdrv[t], bst[t])
  BY TaskFacts
<1>1. /\ bstall[t] \in {"watch", "mark"} /\ UNCHANGED <<bst, bstop, bdrv, bagent, bslot, bwait>>
  BY DEF WatchdogReads, MarkStalled
<1>2. /\ bst' = [bst EXCEPT ![t] = bst[t]] /\ bdrv' = [bdrv EXCEPT ![t] = bdrv[t]]
      /\ bstop' \in [BgTasks -> BOOLEAN] /\ t \in BgTasks \ AgentTasks
      /\ bagent' = bagent /\ bslot' = bslot /\ bwait' = bwait /\ bgen[t] =< bgen[t]
      /\ bgen[t] =< bgen[t] + 1 /\ bgen[t] + 1 \in Nat
  BY <1>0, <1>1 DEF Counted
<1>3. CASE WatchdogReads(t)
  <2> DEFINE ws == IF bst[t] = "running" THEN "mark" ELSE "no"
  <2>1. bstall' = [bstall EXCEPT ![t] = ws] /\ bgen' = bgen
    BY <1>3 DEF WatchdogReads
  <2>2. ws \in {"no", "watch", "mark", "stalled"} /\ ws # "stalled"
    OBVIOUS
  <2> HIDE DEF ws
  <2>3. Counted(t, bst[t], bgen[t], ws) /\ bgen' = [bgen EXCEPT ![t] = bgen[t]]
    BY <1>0, <1>1, <2>1, <2>2 DEF Counted
  <2> QED
    BY <1>0, <1>2, <2>1, <2>2, <2>3, PlainStepKeeps
<1>4. CASE MarkStalled(t)
  <2>1. /\ bstall' = [bstall EXCEPT ![t] = "stalled"] /\ bstall[t] = "mark"
        /\ bgen' = [bgen EXCEPT ![t] = bgen[t] + 1]
    BY <1>4 DEF MarkStalled, Signal
  <2>2. Counted(t, bst[t], bgen[t] + 1, "stalled")
    BY <1>0, <1>1, <1>2, <2>1 DEF Counted
  <2>3. "stalled" \in {"no", "watch", "mark", "stalled"}
    OBVIOUS
  <2> QED
    BY <1>0, <1>2, <2>1, <2>2, <2>3, PlainStepKeeps
<1> QED
  BY <1>3, <1>4
-----------------------------------------------------------------------------
(* The steps of the subagent's tasks.                                      *)

\* A user's run takes or leaves the thread.
LEMMA UserRunKeeps ==
    ASSUME BgIInv, UserRun
    PROVE  BgIInv'
<1>1. /\ bslot \in {NoTask, "user"} /\ bslot' \in {NoTask, "user"}
      /\ UNCHANGED <<bst, bstop, bgen, bdrv, bstall, bagent, bwait>>
  BY DEF UserRun
<1>2. \A t \in AgentTasks : bslot # t /\ bslot' # t
  BY <1>1, BackgroundAssumption DEF BgTasks
<1>3. BgTyped'
  BY <1>1 DEF BgIInv, BgTyped
<1>4. SignalsCounted' /\ DriversMatch' /\ WaitsMatch'
  BY <1>1 DEF BgIInv, SignalsCounted, DriversMatch, WaitsMatch
<1>5. OneAtWork' /\ QueueMatches'
  BY <1>1 DEF BgIInv, OneAtWork, QueueMatches, Waiting
<1>6. SlotMatches'
  BY <1>1, <1>2 DEF BgIInv, SlotMatches
<1> QED
  BY <1>3, <1>4, <1>5, <1>6 DEF BgIInv

\* While task t serves, no other task of the subagent has a goroutine or the thread.
LEMMA ServerFacts ==
    ASSUME BgIInv, NEW t \in AgentTasks, bdrv[t].pc # "no"
    PROVE  \A u \in AgentTasks : u # t => bdrv[u].pc = "no" /\ bslot # u
BY DEF BgIInv, OneAtWork, SlotMatches

\* A step of the task that serves, within its run.
LEMMA AgentRowKeeps ==
    ASSUME BgIInv, NEW t \in AgentTasks, bdrv[t].pc \in AtWork,
           NEW row \in Drivers, row.pc \in AtWork, bdrv' = [bdrv EXCEPT ![t] = row],
           DriverOk(t, row, bst[t]),
           UNCHANGED <<bst, bstop, bgen, bstall, bagent, bwait>>,
           bslot' \in AgentTasks \cup {NoTask, "user"},
           bslot' = t <=> row.pc \in {"run", "release"},
           \A u \in AgentTasks : u # t => bslot' # u
    PROVE  BgIInv'
<1>0. /\ BgTyped /\ bdrv'[t] = row /\ bdrv' \in [BgTasks -> Drivers] /\ t \in BgTasks
      /\ \A u \in BgTasks : u # t => bdrv'[u] = bdrv[u]
      /\ bagent' \in [running: AgentTasks \cup {NoTask}, queue: Seq(AgentTasks)]
      /\ bstop' \in [BgTasks -> BOOLEAN]
  BY DEF BgIInv, BgTyped, BgTasks
<1>1. bdrv[t].pc # "no" /\ row.pc # "no" /\ bdrv[t].pc # "promote" /\ row.pc # "promote"
  BY DEF AtWork
<1>2. \A u \in AgentTasks : u # t => bdrv[u].pc = "no" /\ bdrv'[u] = bdrv[u]
  BY <1>0, <1>1, ServerFacts DEF BgTasks
<1>3. BgTyped' /\ SignalsCounted' /\ WaitsMatch'
  BY <1>0, DriverStepKept
<1>4. DriversMatch'
  BY <1>0 DEF BgIInv, DriversMatch
<1>5. OneAtWork'
  BY <1>0, <1>1, <1>2 DEF BgIInv, OneAtWork, AtWork
<1>6. SlotMatches'
  BY <1>0, <1>2 DEF SlotMatches
<1>7. QueueMatches'
  <2>1. \A u \in AgentTasks : Waiting(u) => Waiting(u)'
    BY <1>1, <1>2 DEF Waiting
  <2>2. \A u \in AgentTasks : bdrv[u].pc # "promote" /\ bdrv'[u].pc # "promote"
    BY <1>0, <1>1, <1>2
  <2> QED
    BY <2>1, <2>2 DEF BgIInv, QueueMatches
<1> QED
  BY <1>3, <1>4, <1>5, <1>6, <1>7 DEF BgIInv

\* The run is admitted or refused, ends, and leaves the thread.
LEMMA AgentRunKeeps ==
    ASSUME BgIInv, NEW t \in BgTasks,
           \/ AdmitAgentRun(t) \/ ReleaseSlot(t)
           \/ \E res \in {"completed", "failed", "killed"} : AgentRunEnds(t, res)
    PROVE  BgIInv'
<1>0. /\ bdrv[t] \in Drivers /\ DriverOk(t, bdrv[t], bst[t])
      /\ bslot \in AgentTasks \cup {NoTask, "user"}
  BY TaskFacts DEF BgIInv, BgTyped
<1>1. NoTask \notin AgentTasks
  BY BackgroundAssumption DEF BgTasks
<1>2. CASE AdmitAgentRun(t)
  <2>1. bdrv[t].pc = "admit" /\ UNCHANGED <<bst, bstop, bgen, bstall, bagent, bwait>>
    BY <1>2 DEF AdmitAgentRun
  <2>2. t \in AgentTasks /\ bdrv[t].pc \in AtWork /\ bdrv[t].pc # "no"
    BY <1>0, <2>1 DEF DriverOk, AtWork
  <2>3. bslot # t /\ \A u \in AgentTasks : u # t => bslot # u
    BY <2>1, <2>2, ServerFacts DEF BgIInv, SlotMatches
  <2>4. CASE bslot = NoTask
    <3> DEFINE row == [bdrv[t] EXCEPT !.pc = "run"]
    <3>1. bdrv' = [bdrv EXCEPT ![t] = row] /\ bslot' = t
      BY <1>2, <2>4 DEF AdmitAgentRun, DriverAt
    <3>2. row \in Drivers /\ row.pc = "run"
      BY <1>0 DEF Drivers, DriverPcs
    <3> HIDE DEF row
    <3>3. DriverOk(t, row, bst[t]) /\ row.pc \in AtWork
      BY <1>0, <2>1, <3>2 DEF DriverOk, AtWork
    <3> QED
      BY <2>1, <2>2, <3>1, <3>2, <3>3, AgentRowKeeps
  <2>5. CASE bslot # NoTask
    <3> DEFINE row == [bdrv[t] EXCEPT !.pc = "complete", !.res = "failed"]
    <3>1. bdrv' = [bdrv EXCEPT ![t] = row] /\ bslot' = bslot
      BY <1>2, <2>5 DEF AdmitAgentRun
    <3>2. row \in Drivers /\ row.pc = "complete" /\ row.res = "failed"
      BY <1>0 DEF Drivers, DriverPcs, Ended
    <3> HIDE DEF row
    <3>3. DriverOk(t, row, bst[t]) /\ row.pc \in AtWork
      BY <1>0, <2>1, <3>2 DEF DriverOk, AtWork, Ended
    <3> QED
      BY <1>0, <2>1, <2>2, <2>3, <3>1, <3>2, <3>3, AgentRowKeeps
  <2> QED
    BY <2>4, <2>5
<1>3. CASE ReleaseSlot(t)
  <2> DEFINE row == [bdrv[t] EXCEPT !.pc = "complete"]
  <2>1. /\ bdrv[t].pc = "release" /\ bslot' = NoTask /\ bdrv' = [bdrv EXCEPT ![t] = row]
        /\ UNCHANGED <<bst, bstop, bgen, bstall, bagent, bwait>>
    BY <1>3 DEF ReleaseSlot, DriverAt
  <2>2. row \in Drivers /\ row.pc = "complete" /\ row.res = bdrv[t].res
    BY <1>0 DEF Drivers, DriverPcs
  <2> HIDE DEF row
  <2>3. /\ t \in AgentTasks /\ bdrv[t].pc \in AtWork /\ row.pc \in AtWork
        /\ DriverOk(t, row, bst[t])
    BY <1>0, <2>1, <2>2 DEF DriverOk, AtWork
  <2>4. \A u \in AgentTasks : bslot' # u
    BY <1>1, <2>1
  <2> QED
    BY <2>1, <2>2, <2>3, <2>4, AgentRowKeeps
<1>4. ASSUME NEW res \in {"completed", "failed", "killed"}, AgentRunEnds(t, res) PROVE BgIInv'
  <2> DEFINE row == [bdrv[t] EXCEPT !.pc = "release", !.res = res]
  <2>1. /\ bdrv[t].pc = "run" /\ t \in AgentTasks /\ bslot' = bslot
        /\ bdrv' = [bdrv EXCEPT ![t] = row]
        /\ UNCHANGED <<bst, bstop, bgen, bstall, bagent, bwait>>
    BY <1>4 DEF AgentRunEnds
  <2>2. row \in Drivers /\ row.pc = "release" /\ row.res = res
    BY <1>0 DEF Drivers, DriverPcs, Ended
  <2> HIDE DEF row
  <2>3. bdrv[t].pc \in AtWork /\ row.pc \in AtWork /\ DriverOk(t, row, bst[t])
    BY <1>0, <2>1, <2>2 DEF DriverOk, AtWork, Ended
  <2>4. bslot = t /\ \A u \in AgentTasks : u # t => bslot # u
    BY <2>1 DEF BgIInv, SlotMatches
  <2> QED
    BY <1>0, <2>1, <2>2, <2>3, <2>4, AgentRowKeeps
<1> QED
  BY <1>2, <1>3, <1>4

\* The record of a subagent's task changes, and nothing starts.
LEMMA AgentRecordKeeps ==
    ASSUME BgIInv, NEW t \in AgentTasks,
           NEW st \in Statuses, bst' = [bst EXCEPT ![t] = st],
           NEW g \in Nat, bgen' = [bgen EXCEPT ![t] = g],
           bstall' = bstall, bdrv' = bdrv, bagent' = bagent, bslot' = bslot, bwait' = bwait,
           bstop' \in [BgTasks -> BOOLEAN],
           bgen[t] =< g, st \in Ended => bst[t] \in Ended \/ bgen[t] < g,
           Counted(t, st, g, bstall[t]), DriverOk(t, bdrv[t], st), st # "queued",
           bst[t] \in {"queued", "killed", "removed"} => st \in {"killed", "removed"}
    PROVE  BgIInv'
<1>0. t \in BgTasks
  BY DEF BgTasks
<1>1. /\ bstall[t] \in {"no", "watch", "mark", "stalled"}
      /\ bstall = [bstall EXCEPT ![t] = bstall[t]]
  BY <1>0, TaskFacts
<1>2. /\ BgTyped /\ bst'[t] = st /\ \A u \in BgTasks : u # t => bst'[u] = bst[u]
      /\ bdrv' \in [BgTasks -> Drivers]
      /\ bagent' \in [running: AgentTasks \cup {NoTask}, queue: Seq(AgentTasks)]
      /\ bslot' \in AgentTasks \cup {NoTask, "user"}
      /\ bstall' = [bstall EXCEPT ![t] = bstall[t]]
  BY <1>0, <1>1 DEF BgIInv, BgTyped
<1>3. BgTyped' /\ SignalsCounted' /\ WaitsMatch'
  <2>1. Writes(t, st, g, bstall[t]) /\ Besides
    BY <1>2 DEF Writes, Besides
  <2> QED
    BY <1>0, <1>1, <2>1, RecordKept
<1>4. DriversMatch'
  BY <1>2 DEF BgIInv, DriversMatch
<1>5. OneAtWork' /\ SlotMatches'
  BY DEF BgIInv, OneAtWork, SlotMatches
<1>6. QueueMatches'
  <2>1. \A u \in AgentTasks : bst'[u] = IF u = t THEN st ELSE bst[u]
    BY <1>2 DEF BgTasks
  <2>2. \A u \in AgentTasks : Waiting(u) => Waiting(u)'
    BY <2>1 DEF Waiting
  <2>3. \A u \in AgentTasks : bst'[u] = "queued" => bst[u] = "queued"
    BY <2>1
  <2> QED
    BY <2>2, <2>3 DEF BgIInv, QueueMatches
<1> QED
  BY <1>3, <1>4, <1>5, <1>6 DEF BgIInv

\* A task is killed, or asked to stop.
LEMMA KillKeeps ==
    ASSUME BgIInv, NEW t \in BgTasks, Kill(t)
    PROVE  BgIInv'
<1>0. /\ bst[t] \in Statuses /\ bdrv[t] \in Drivers /\ bgen[t] \in Nat
      /\ bstall[t] \in {"no", "watch", "mark", "stalled"}
      /\ bst = [bst EXCEPT ![t] = bst[t]] /\ bdrv = [bdrv EXCEPT ![t] = bdrv[t]]
      /\ bgen = [bgen EXCEPT ![t] = bgen[t]] /\ bstall = [bstall EXCEPT ![t] = bstall[t]]
      /\ bstop \in [BgTasks -> BOOLEAN]
      /\ Counted(t, bst[t], bgen[t], bstall[t]) /\ DriverOk(t, bdrv[t], bst[t])
  BY TaskFacts
<1>1. bst[t] \in {"running", "queued"} /\ UNCHANGED <<bdrv, bstall, bagent, bslot, bwait>>
  BY DEF Kill
<1>2. CASE bstop' = [bstop EXCEPT ![t] = TRUE] /\ bst' = bst /\ bgen' = bgen
  <2>1. bstop' \in [BgTasks -> BOOLEAN]
    BY <1>0, <1>2
  <2>2. BgTyped' /\ SignalsCounted' /\ WaitsMatch'
    BY <1>1, <1>2, <2>1, DriverStepKept DEF BgIInv, BgTyped
  <2>3. DriversMatch'
    BY <1>1, <1>2 DEF BgIInv, DriversMatch
  <2>4. OneAtWork' /\ SlotMatches' /\ QueueMatches'
    BY <1>1, <1>2, AgentsKept DEF BgIInv
  <2> QED
    BY <2>2, <2>3, <2>4 DEF BgIInv
<1>3. CASE /\ ~(bst[t] = "running" /\ t \in AgentTasks \cup DepTasks)
           /\ bst' = [bst EXCEPT ![t] = "killed"] /\ Signal(t) /\ bstop' = bstop
  <2> DEFINE g == bgen[t] + 1
  <2>1. g \in Nat /\ bgen[t] =< g /\ bgen[t] < g /\ bgen' = [bgen EXCEPT ![t] = g]
    BY <1>0, <1>3 DEF Signal
  <2>2. Counted(t, "killed", g, bstall[t])
    BY <1>0, <1>1, <1>3 DEF Counted
  <2> HIDE DEF g
  <2>3. DriverOk(t, bdrv[t], "killed")
    <3>1. CASE t \in AgentTasks
      BY <1>0, <1>1, <1>3, <3>1 DEF DriverOk, Ended
    <3>2. CASE t \notin AgentTasks
      BY <1>0, <1>1, <1>3, <3>2 DEF DriverOk, BgTasks
    <3> QED
      BY <3>1, <3>2
  <2>4. "killed" \in Statuses /\ bstop' \in [BgTasks -> BOOLEAN]
    BY <1>0, <1>3 DEF Statuses, Ended
  <2>5. CASE t \in AgentTasks
    BY <1>0, <1>1, <1>3, <2>1, <2>2, <2>3, <2>4, <2>5, AgentRecordKeeps
  <2>6. CASE t \notin AgentTasks
    <3>1. /\ bdrv' = [bdrv EXCEPT ![t] = bdrv[t]] /\ bstall' = [bstall EXCEPT ![t] = bstall[t]]
          /\ t \in BgTasks \ AgentTasks /\ bagent' = bagent /\ bslot' = bslot /\ bwait' = bwait
      BY <1>0, <1>1, <2>6
    <3> QED
      BY <1>0, <1>3, <2>1, <2>2, <2>3, <2>4, <3>1, PlainStepKeeps
  <2> QED
    BY <2>5, <2>6
<1> QED
  BY <1>2, <1>3 DEF Kill

\* The record of a task that ended is removed.
LEMMA CleanupKeeps ==
    ASSUME BgIInv, NEW t \in BgTasks, Cleanup(t)
    PROVE  BgIInv'
<1>0. /\ bst[t] \in Statuses /\ bdrv[t] \in Drivers /\ bgen[t] \in Nat
      /\ bstall[t] \in {"no", "watch", "mark", "stalled"}
      /\ bdrv = [bdrv EXCEPT ![t] = bdrv[t]]
      /\ bgen = [bgen EXCEPT ![t] = bgen[t]] /\ bstall = [bstall EXCEPT ![t] = bstall[t]]
      /\ bstop \in [BgTasks -> BOOLEAN]
      /\ Counted(t, bst[t], bgen[t], bstall[t]) /\ DriverOk(t, bdrv[t], bst[t])
  BY TaskFacts
<1>1. /\ bst[t] \in Ended /\ bst' = [bst EXCEPT ![t] = "removed"]
      /\ UNCHANGED <<bstop, bgen, bdrv, bstall, bagent, bslot, bwait>>
  BY DEF Cleanup
<1>2. Counted(t, "removed", bgen[t], bstall[t]) /\ DriverOk(t, bdrv[t], "removed")
  BY <1>0, <1>1 DEF Counted, DriverOk, Ended
<1>3. /\ "removed" \in Statuses /\ "removed" \notin Ended /\ "removed" # "queued"
      /\ bstop' \in [BgTasks -> BOOLEAN] /\ bgen[t] =< bgen[t]
      /\ bgen' = [bgen EXCEPT ![t] = bgen[t]]
  BY <1>0, <1>1 DEF Statuses, Ended
<1>4. CASE t \in AgentTasks
  BY <1>0, <1>1, <1>2, <1>3, <1>4, AgentRecordKeeps
<1>5. CASE t \notin AgentTasks
  <2>1. /\ bdrv' = [bdrv EXCEPT ![t] = bdrv[t]] /\ bstall' = [bstall EXCEPT ![t] = bstall[t]]
        /\ t \in BgTasks \ AgentTasks /\ bagent' = bagent /\ bslot' = bslot /\ bwait' = bwait
    BY <1>0, <1>1, <1>5
  <2> QED
    BY <1>0, <1>1, <1>2, <1>3, <2>1, PlainStepKeeps
<1> QED
  BY <1>4, <1>5

\* A message for the subagent runs at once, or waits behind the others.
LEMMA SubmitKeeps ==
    ASSUME BgIInv, NEW t \in BgTasks, SubmitAgentTask(t)
    PROVE  BgIInv'
<1>0. /\ bst[t] \in Statuses /\ bdrv[t] \in Drivers /\ bgen[t] \in Nat
      /\ bstall[t] \in {"no", "watch", "mark", "stalled"}
      /\ bgen = [bgen EXCEPT ![t] = bgen[t]] /\ bstall = [bstall EXCEPT ![t] = bstall[t]]
      /\ bstop \in [BgTasks -> BOOLEAN]
      /\ Counted(t, bst[t], bgen[t], bstall[t]) /\ DriverOk(t, bdrv[t], bst[t])
  BY TaskFacts
<1>1. /\ t \in AgentTasks /\ bst[t] = "none"
      /\ UNCHANGED <<bstop, bgen, bstall, bslot, bwait>>
  BY DEF SubmitAgentTask
<1>2. /\ BgTyped /\ bdrv[t].pc = "no"
      /\ bagent.running \in AgentTasks \cup {NoTask} /\ bagent.queue \in Seq(AgentTasks)
      /\ ~Waiting(t) /\ NoTask \notin AgentTasks
  <2>1. bdrv[t].pc = "no"
    BY <1>0, <1>1 DEF DriverOk, AtWork, Drivers, DriverPcs, Ended
  <2> QED
    BY <1>1, <2>1, BackgroundAssumption DEF BgIInv, BgTyped, Waiting, BgTasks
<1>3. /\ bgen' = [bgen EXCEPT ![t] = bgen[t]] /\ bstall' = [bstall EXCEPT ![t] = bstall[t]]
      /\ bstop' \in [BgTasks -> BOOLEAN] /\ bslot' \in AgentTasks \cup {NoTask, "user"}
      /\ bgen[t] =< bgen[t] /\ bwait' = bwait
  BY <1>0, <1>1, <1>2 DEF BgTyped
<1>4. CASE AgentBusy
  <2> DEFINE q == bagent.queue
  <2>1. /\ bst' = [bst EXCEPT ![t] = "queued"] /\ bdrv' = bdrv
        /\ bagent' = [bagent EXCEPT !.queue = Append(q, t)]
    BY <1>4 DEF SubmitAgentTask
  <2>2. Distinct(q) /\ ~Holds(q, t)
    BY <1>1, <1>2 DEF BgIInv, QueueMatches
  <2> HIDE DEF q
  <2>3. /\ Append(q, t) \in Seq(AgentTasks) /\ Distinct(Append(q, t))
        /\ \A u \in AgentTasks : Holds(Append(q, t), u) <=> u = t \/ Holds(q, u)
    BY <1>1, <1>2, <2>2, AppendFacts DEF q
  <2>4. /\ bagent' \in [running: AgentTasks \cup {NoTask}, queue: Seq(AgentTasks)]
        /\ bagent'.running = bagent.running /\ bagent'.queue = Append(q, t)
        /\ bagent.running # NoTask
    <3>1. bagent.running # NoTask
      BY <1>4 DEF AgentBusy
    <3> QED
      BY <1>2, <2>1, <2>3, <3>1 DEF BgTyped
  <2>5. /\ bst'[t] = "queued" /\ bdrv' \in [BgTasks -> Drivers]
        /\ \A u \in BgTasks : u # t => bst'[u] = bst[u]
    BY <1>2, <2>1 DEF BgTyped
  <2>6. /\ "queued" \in Statuses /\ "queued" \notin Ended
        /\ Counted(t, "queued", bgen[t], bstall[t]) /\ DriverOk(t, bdrv[t], "queued")
    BY <1>0, <1>1, <1>2 DEF Statuses, Ended, Counted, DriverOk, AtWork
  <2>7. BgTyped' /\ SignalsCounted' /\ WaitsMatch'
    <3>1. /\ bst' = [bst EXCEPT ![t] = "queued"] /\ bgen[t] \in Nat
          /\ bstall[t] \in {"no", "watch", "mark", "stalled"}
      BY <1>0, <2>1
    <3>2. Writes(t, "queued", bgen[t], bstall[t]) /\ Besides /\ bgen[t] =< bgen[t]
      BY <1>3, <2>4, <2>5, <3>1 DEF Writes, Besides
    <3> QED
      BY <1>3, <2>6, <3>1, <3>2, RecordKept
  <2>8. DriversMatch'
    BY <2>1, <2>5, <2>6 DEF BgIInv, DriversMatch
  <2>9. OneAtWork' /\ SlotMatches'
    BY <1>1, <2>1, <2>4 DEF BgIInv, OneAtWork, SlotMatches
  <2>10. QueueMatches'
    <3>1. \A u \in AgentTasks : u # t => bst'[u] = bst[u]
      BY <2>5 DEF BgTasks
    <3>2. \A u \in AgentTasks : (Waiting(u) => Waiting(u)') /\ Waiting(t)'
      BY <1>2, <2>1, <2>5, <3>1 DEF Waiting
    <3>3. \A u \in AgentTasks : Holds(bagent'.queue, u) <=> u = t \/ Holds(q, u)
      BY <2>3, <2>4
    <3>4. \A u \in AgentTasks : Holds(bagent'.queue, u) => Waiting(u)'
      BY <3>2, <3>3 DEF BgIInv, QueueMatches, q
    <3>5. ASSUME NEW u \in AgentTasks, bdrv'[u].pc = "promote"
          PROVE  /\ bdrv'[u].next \in AgentTasks /\ bagent'.running = bdrv'[u].next
                 /\ Waiting(bdrv[u].next)' /\ ~Holds(bagent'.queue, bdrv'[u].next)
      <4>1. /\ bdrv[u].next \in AgentTasks /\ bagent.running = bdrv[u].next
            /\ Waiting(bdrv[u].next) /\ ~Holds(q, bdrv[u].next)
        BY <2>1, <3>5 DEF BgIInv, QueueMatches, q
      <4>2. bdrv[u].next # t
        BY <1>2, <4>1
      <4>3. bst'[bdrv[u].next] = bst[bdrv[u].next]
        BY <3>1, <4>1, <4>2
      <4> QED
        BY <2>1, <2>4, <3>3, <4>1, <4>2, <4>3 DEF Waiting
    <3>6. \A u \in AgentTasks : bst'[u] = "queued" =>
            \/ Holds(bagent'.queue, u)
            \/ \E v \in AgentTasks : bdrv'[v].pc = "promote" /\ bdrv'[v].next = u
      BY <2>1, <3>1, <3>3 DEF BgIInv, QueueMatches, q
    <3>7. Distinct(bagent'.queue) /\ bagent'.running # NoTask
      BY <2>3, <2>4
    <3> QED
      BY <2>1, <3>4, <3>5, <3>6, <3>7 DEF QueueMatches
  <2> QED
    BY <2>7, <2>8, <2>9, <2>10 DEF BgIInv
<1>5. CASE ~AgentBusy
  <2> DEFINE row == [bdrv[t] EXCEPT !.pc = "admit"]
  <2>1. /\ bst' = [bst EXCEPT ![t] = "running"] /\ bdrv' = [bdrv EXCEPT ![t] = row]
        /\ bagent' = [bagent EXCEPT !.running = t]
    BY <1>5 DEF SubmitAgentTask, DriverAt
  <2>2. row \in Drivers /\ row.pc = "admit"
    BY <1>0 DEF Drivers, DriverPcs
  <2> HIDE DEF row
  <2>3. bagent.running = NoTask /\ bagent.queue = <<>> /\ \A u \in AgentTasks : bdrv[u].pc = "no"
    BY <1>5 DEF AgentBusy, BgIInv, OneAtWork, QueueMatches
  <2>4. /\ bagent' \in [running: AgentTasks \cup {NoTask}, queue: Seq(AgentTasks)]
        /\ bagent'.running = t /\ bagent'.queue = <<>>
    BY <1>1, <1>2, <2>1, <2>3 DEF BgTyped
  <2>5. /\ bst'[t] = "running" /\ bdrv' \in [BgTasks -> Drivers] /\ bdrv'[t] = row
        /\ \A u \in BgTasks : u # t => bst'[u] = bst[u] /\ bdrv'[u] = bdrv[u]
    BY <1>2, <2>1, <2>2 DEF BgTyped
  <2>6. /\ "running" \in Statuses /\ "running" \notin Ended
        /\ Counted(t, "running", bgen[t], bstall[t]) /\ DriverOk(t, row, "running")
    BY <1>0, <1>1, <2>2 DEF Statuses, Ended, Counted, DriverOk, AtWork
  <2>7. BgTyped' /\ SignalsCounted' /\ WaitsMatch'
    <3>1. /\ bst' = [bst EXCEPT ![t] = "running"] /\ bgen[t] \in Nat
          /\ bstall[t] \in {"no", "watch", "mark", "stalled"}
      BY <1>0, <2>1
    <3>2. Writes(t, "running", bgen[t], bstall[t]) /\ Besides /\ bgen[t] =< bgen[t]
      BY <1>3, <2>4, <2>5, <3>1 DEF Writes, Besides
    <3> QED
      BY <1>3, <2>6, <3>1, <3>2, RecordKept
  <2>8. DriversMatch'
    BY <2>5, <2>6 DEF BgIInv, DriversMatch
  <2>9. \A u \in AgentTasks : u # t => bst'[u] = bst[u] /\ bdrv'[u].pc = "no"
    BY <2>3, <2>5 DEF BgTasks
  <2>10. OneAtWork' /\ SlotMatches'
    <3>1. OneAtWork'
      BY <1>1, <1>2, <2>2, <2>4, <2>5, <2>9 DEF OneAtWork, AtWork
    <3>2. SlotMatches'
      BY <1>1, <2>2, <2>3, <2>5, <2>9 DEF BgIInv, SlotMatches
    <3> QED
      BY <3>1, <3>2
  <2>11. QueueMatches'
    <3>1. \A u \in AgentTasks : bst[u] # "queued" /\ ~Holds(<<>>, u)
      BY <2>3 DEF BgIInv, QueueMatches, Holds
    <3>2. \A u \in AgentTasks : bst'[u] # "queued" /\ bdrv'[u].pc # "promote"
      BY <2>2, <2>5, <2>9, <3>1
    <3>3. Distinct(<<>>)
      BY DEF Distinct
    <3> QED
      BY <1>1, <1>2, <2>4, <3>1, <3>2, <3>3 DEF QueueMatches
  <2> QED
    BY <2>7, <2>8, <2>10, <2>11 DEF BgIInv
<1> QED
  BY <1>4, <1>5

\* The outcome of a task is recorded, unless it was killed.
LEMMA CompleteKeeps ==
    ASSUME BgIInv, NEW t \in BgTasks, CompleteTask(t)
    PROVE  BgIInv'
<1> DEFINE over == bst[t] = "killed" \/ bst[t] = "removed"
           st == IF over THEN bst[t] ELSE bdrv[t].res
           g == IF over THEN bgen[t] ELSE bgen[t] + 1
           ws == IF bstall[t] = "watch" THEN "no" ELSE bstall[t]
           pc == IF t \in AgentTasks THEN "finish" ELSE "no"
           row == [bdrv[t] EXCEPT !.pc = pc]
<1>0. /\ bst[t] \in Statuses /\ bdrv[t] \in Drivers /\ bgen[t] \in Nat
      /\ bstall[t] \in {"no", "watch", "mark", "stalled"}
      /\ bst = [bst EXCEPT ![t] = bst[t]] /\ bgen = [bgen EXCEPT ![t] = bgen[t]]
      /\ bstop \in [BgTasks -> BOOLEAN]
      /\ Counted(t, bst[t], bgen[t], bstall[t]) /\ DriverOk(t, bdrv[t], bst[t])
  BY TaskFacts
<1>1. /\ bdrv[t].pc = "complete" /\ bdrv' = [bdrv EXCEPT ![t] = row]
      /\ bstall' = [bstall EXCEPT ![t] = ws] /\ UNCHANGED <<bstop, bagent, bslot, bwait>>
  BY DEF CompleteTask, DriverAt
<1>2. bst' = [bst EXCEPT ![t] = st] /\ bgen' = [bgen EXCEPT ![t] = g]
  <2>1. CASE over
    BY <1>0, <2>1 DEF CompleteTask, OutcomeRecorded
  <2>2. CASE ~over
    BY <2>2 DEF CompleteTask, OutcomeRecorded, Signal
  <2> QED
    BY <2>1, <2>2
<1>3. /\ bdrv[t].res \in Ended
      /\ bst[t] = "running" \/ (t \in ExecTasks /\ over)
      /\ over => t \notin AgentTasks
  BY <1>0, <1>1, BackgroundAssumption DEF DriverOk, AtWork
<1>4. row \in Drivers /\ row.pc = pc /\ (pc = IF t \in AgentTasks THEN "finish" ELSE "no")
  <2>1. pc \in DriverPcs
    BY DEF DriverPcs
  <2> HIDE DEF pc
  <2>2. row \in Drivers /\ row.pc = pc
    BY <1>0, <2>1 DEF Drivers
  <2> QED
    BY <2>2 DEF pc
<1> HIDE DEF row, pc
<1>5. /\ st \in Ended \cup {"removed"} /\ st \in Statuses /\ g \in Nat /\ bgen[t] =< g
      /\ st \in Ended => bst[t] \in Ended \/ bgen[t] < g
      /\ ws \in {"no", "watch", "mark", "stalled"}
  BY <1>0, <1>3 DEF Statuses, Ended
<1>6. Counted(t, st, g, ws)
  <2>1. st \notin {"none", "queued", "running"}
    BY <1>5 DEF Ended
  <2>2. /\ t \in AgentTasks => ws = "no" /\ g =< 2
        /\ t \notin AgentTasks /\ ws # "stalled" => g =< 1
        /\ t \notin AgentTasks /\ ws = "stalled" => g =< 2
    BY <1>0, <1>3 DEF Counted
  <2> HIDE DEF st, g, ws
  <2> QED
    BY <2>1, <2>2 DEF Counted
<1>7. DriverOk(t, row, st)
  BY <1>4, <1>5 DEF DriverOk, AtWork
<1> HIDE DEF st, g, ws
<1>8. CASE t \notin AgentTasks
  <2>1. /\ t \in BgTasks \ AgentTasks /\ bstop' \in [BgTasks -> BOOLEAN]
        /\ bagent' = bagent /\ bslot' = bslot /\ bwait' = bwait
    BY <1>0, <1>1, <1>8
  <2> QED
    BY <1>1, <1>2, <1>4, <1>5, <1>6, <1>7, <2>1, PlainStepKeeps
<1>9. CASE t \in AgentTasks
  <2>1. /\ BgTyped /\ bst'[t] = st /\ bdrv'[t] = row /\ bdrv' \in [BgTasks -> Drivers]
        /\ \A u \in BgTasks : u # t => bst'[u] = bst[u] /\ bdrv'[u] = bdrv[u]
        /\ bagent' \in [running: AgentTasks \cup {NoTask}, queue: Seq(AgentTasks)]
        /\ bslot' \in AgentTasks \cup {NoTask, "user"} /\ bstop' \in [BgTasks -> BOOLEAN]
        /\ bwait' = bwait /\ bstall' = [bstall EXCEPT ![t] = ws]
    BY <1>1, <1>2, <1>4 DEF BgIInv, BgTyped
  <2>2. BgTyped' /\ SignalsCounted' /\ WaitsMatch'
    <3>1. Writes(t, st, g, ws) /\ Besides
      BY <1>2, <2>1 DEF Writes, Besides
    <3> QED
      BY <1>2, <1>5, <1>6, <3>1, RecordKept
  <2>3. DriversMatch'
    BY <1>7, <2>1 DEF BgIInv, DriversMatch
  <2>4. row.pc = "finish" /\ st # "queued"
    BY <1>4, <1>5, <1>9 DEF Ended
  <2>5. \A u \in AgentTasks : u # t => /\ bst'[u] = bst[u] /\ bdrv'[u] = bdrv[u]
                                       /\ bdrv[u].pc = "no" /\ bslot # u
    BY <1>1, <1>9, <2>1, ServerFacts DEF BgTasks
  <2>6. OneAtWork'
    BY <1>1, <1>9, <2>1, <2>4, <2>5 DEF BgIInv, OneAtWork, AtWork
  <2>7. SlotMatches'
    BY <1>1, <1>9, <2>1, <2>4, <2>5 DEF BgIInv, SlotMatches
  <2>8. QueueMatches'
    <3>1. \A u \in AgentTasks : Waiting(u) => Waiting(u)'
      BY <1>1, <2>5 DEF Waiting
    <3>2. \A u \in AgentTasks : bdrv[u].pc # "promote" /\ bdrv'[u].pc # "promote"
      BY <1>1, <2>1, <2>4, <2>5
    <3>3. \A u \in AgentTasks : bst'[u] = "queued" => bst[u] = "queued"
      BY <2>1, <2>4, <2>5
    <3> QED
      BY <1>1, <3>1, <3>2, <3>3 DEF BgIInv, QueueMatches
  <2> QED
    BY <2>2, <2>3, <2>6, <2>7, <2>8 DEF BgIInv
<1> QED
  BY <1>8, <1>9

\* The task that ended gives the turn to the next message, or nobody has it.
LEMMA FinishKeeps ==
    ASSUME BgIInv, NEW t \in BgTasks, FinishAgentRequest(t)
    PROVE  BgIInv'
<1> DEFINE old == bagent.queue
           q == Promotable(old)
<1>0. /\ bdrv[t] \in Drivers /\ DriverOk(t, bdrv[t], bst[t]) /\ bstop \in [BgTasks -> BOOLEAN]
      /\ BgTyped /\ old \in Seq(AgentTasks) /\ Distinct(old)
  BY TaskFacts DEF BgIInv, BgTyped, QueueMatches
<1>1. bdrv[t].pc = "finish" /\ UNCHANGED <<bst, bstop, bgen, bstall, bslot, bwait>>
  BY DEF FinishAgentRequest
<1>2. t \in AgentTasks /\ bst[t] \in Ended \cup {"removed"} /\ NoTask \notin AgentTasks
  BY <1>0, <1>1, BackgroundAssumption DEF DriverOk, BgTasks
<1>3. /\ bst' = bst /\ bgen' = bgen /\ bstall' = bstall /\ bwait' = bwait /\ bslot' = bslot
      /\ bstop' \in [BgTasks -> BOOLEAN] /\ bslot' \in AgentTasks \cup {NoTask, "user"}
  BY <1>0, <1>1 DEF BgTyped
<1>4. /\ q \in Seq(AgentTasks) /\ Distinct(q)
      /\ \A u \in AgentTasks : Holds(q, u) => Holds(old, u)
      /\ \A u \in AgentTasks : Holds(old, u) /\ ~Holds(q, u) => bst[u] = "killed"
  <2> HIDE DEF old
  <2> QED
    BY <1>0, PromotableFacts
<1>5. \A u \in AgentTasks : u # t => bdrv[u].pc = "no" /\ bslot # u
  BY <1>1, <1>2, ServerFacts
<1>6. \A u \in AgentTasks : Holds(old, u) => Waiting(u) /\ u # t
  BY <1>1 DEF BgIInv, QueueMatches, Waiting
<1>7. \A u \in AgentTasks : bst[u] = "queued" => Holds(q, u)
  <2>1. \A u \in AgentTasks : bdrv[u].pc # "promote"
    BY <1>1, <1>5
  <2>2. \A u \in AgentTasks : bst[u] = "queued" => Holds(old, u)
    BY <2>1 DEF BgIInv, QueueMatches
  <2> QED
    BY <1>4, <2>2
<1>8. bslot # t
  BY <1>1, <1>2 DEF BgIInv, SlotMatches
<1>9. CASE q = <<>>
  <2>1. bagent' = [running |-> NoTask, queue |-> <<>>] /\ bdrv' = [bdrv EXCEPT ![t] = NoDriver]
    BY <1>9 DEF FinishAgentRequest
  <2>2. NoDriver \in Drivers /\ NoDriver.pc = "no"
    BY DEF NoDriver, Drivers, DriverPcs
  <2>3. /\ bagent' \in [running: AgentTasks \cup {NoTask}, queue: Seq(AgentTasks)]
        /\ bagent'.running = NoTask /\ bagent'.queue = <<>>
    BY <2>1
  <2>4. /\ bdrv' \in [BgTasks -> Drivers] /\ bdrv'[t] = NoDriver
        /\ \A u \in BgTasks : u # t => bdrv'[u] = bdrv[u]
    BY <1>0, <2>1, <2>2 DEF BgTyped
  <2>5. BgTyped' /\ SignalsCounted' /\ WaitsMatch'
    BY <1>3, <2>3, <2>4, DriverStepKept
  <2>6. DriversMatch'
    <3>1. DriverOk(t, NoDriver, bst[t])
      BY <2>2 DEF DriverOk, AtWork
    <3> QED
      BY <1>3, <2>4, <3>1 DEF BgIInv, DriversMatch
  <2>7. \A u \in AgentTasks : bdrv'[u].pc = "no" /\ bst[u] # "queued"
    BY <1>5, <1>7, <1>9, <2>2, <2>4 DEF BgTasks, Holds
  <2>8. OneAtWork'
    BY <2>3, <2>7 DEF OneAtWork, AtWork
  <2>9. SlotMatches'
    BY <1>3, <1>5, <1>8, <2>7 DEF SlotMatches
  <2>10. QueueMatches'
    BY <1>3, <2>3, <2>7 DEF QueueMatches, Distinct, Holds
  <2> QED
    BY <2>5, <2>6, <2>8, <2>9, <2>10 DEF BgIInv
<1>10. CASE q # <<>>
  <2> HIDE DEF q
  <2> DEFINE n == Head(q)
             row == [bdrv[t] EXCEPT !.pc = "promote", !.next = n]
  <2>1. bagent' = [running |-> n, queue |-> Tail(q)] /\ bdrv' = [bdrv EXCEPT ![t] = row]
    BY <1>10 DEF FinishAgentRequest, q
  <2>2. /\ n \in AgentTasks /\ Tail(q) \in Seq(AgentTasks) /\ Distinct(Tail(q))
        /\ Holds(q, n) /\ ~Holds(Tail(q), n)
        /\ \A u \in AgentTasks : Holds(Tail(q), u) => Holds(q, u)
        /\ \A u \in AgentTasks : Holds(q, u) => u = n \/ Holds(Tail(q), u)
    BY <1>4, <1>10, HeadTailFacts
  <2> HIDE DEF n
  <2>3. row \in Drivers /\ row.pc = "promote" /\ row.next = n
    BY <1>0, <2>2 DEF Drivers, DriverPcs, BgTasks
  <2> HIDE DEF row
  <2>4. /\ bagent' \in [running: AgentTasks \cup {NoTask}, queue: Seq(AgentTasks)]
        /\ bagent'.running = n /\ bagent'.queue = Tail(q)
    BY <2>1, <2>2
  <2>5. /\ bdrv' \in [BgTasks -> Drivers] /\ bdrv'[t] = row
        /\ \A u \in BgTasks : u # t => bdrv'[u] = bdrv[u]
    BY <1>0, <2>1, <2>3 DEF BgTyped
  <2>6. BgTyped' /\ SignalsCounted' /\ WaitsMatch'
    BY <1>3, <2>4, <2>5, DriverStepKept
  <2>7. DriversMatch'
    <3>1. DriverOk(t, row, bst[t])
      BY <1>2, <2>3 DEF DriverOk, AtWork
    <3> QED
      BY <1>3, <2>5, <3>1 DEF BgIInv, DriversMatch
  <2>8. \A u \in AgentTasks : u # t => bdrv'[u].pc = "no" /\ bdrv'[u] = bdrv[u]
    BY <1>5, <2>5 DEF BgTasks
  <2>9. OneAtWork'
    BY <1>2, <2>2, <2>3, <2>4, <2>5, <2>8 DEF OneAtWork, AtWork
  <2>10. SlotMatches'
    BY <1>3, <1>5, <1>8, <2>3, <2>5, <2>8 DEF SlotMatches
  <2>11. QueueMatches'
    <3>1. \A u \in AgentTasks : Holds(old, u) => Waiting(u)'
      BY <1>3, <1>6, <2>8 DEF Waiting
    <3>2. \A u \in AgentTasks : Holds(bagent'.queue, u) => Waiting(u)'
      BY <1>4, <2>2, <2>4, <3>1
    <3>3. bst'[n] \in {"queued", "killed", "removed"} /\ bdrv'[n].pc = "no" /\ ~Holds(bagent'.queue, n)
      BY <1>3, <1>4, <1>6, <2>2, <2>4, <2>8 DEF Waiting
    <3>4. \A u \in AgentTasks : bdrv'[u].pc = "promote" => bdrv'[u].next = n
      BY <2>3, <2>5, <2>8
    <3>5. \A u \in AgentTasks : bst'[u] = "queued" =>
            \/ Holds(bagent'.queue, u)
            \/ \E v \in AgentTasks : bdrv'[v].pc = "promote" /\ bdrv'[v].next = u
      BY <1>2, <1>3, <1>7, <2>2, <2>3, <2>4, <2>5
    <3>6. Distinct(bagent'.queue) /\ bagent'.running # NoTask
      BY <1>2, <2>2, <2>4
    <3>7. ASSUME NEW u \in AgentTasks, bdrv'[u].pc = "promote"
          PROVE  /\ bdrv'[u].next \in AgentTasks /\ bagent'.running = bdrv'[u].next
                 /\ bst'[bdrv'[u].next] \in {"queued", "killed", "removed"}
                 /\ bdrv'[bdrv'[u].next].pc = "no" /\ ~Holds(bagent'.queue, bdrv'[u].next)
      <4>1. bdrv'[u].next = n
        BY <3>4, <3>7
      <4> QED
        BY <2>2, <2>4, <3>3, <4>1
    <3> QED
      BY <3>2, <3>5, <3>6, <3>7 DEF QueueMatches, Waiting
  <2> QED
    BY <2>6, <2>7, <2>9, <2>10, <2>11 DEF BgIInv
<1> QED
  BY <1>9, <1>10

\* The next message starts, or was killed meanwhile and is passed over.
LEMMA PromoteKeeps ==
    ASSUME BgIInv, NEW t \in BgTasks, MarkAgentTaskRunning(t)
    PROVE  BgIInv'
<1> DEFINE n == bdrv[t].next
           q == bagent.queue
<1>0. /\ bdrv[t] \in Drivers /\ DriverOk(t, bdrv[t], bst[t]) /\ bstop \in [BgTasks -> BOOLEAN]
      /\ BgTyped
  BY TaskFacts DEF BgIInv
<1>1. bdrv[t].pc = "promote" /\ UNCHANGED <<bstop, bstall, bagent, bslot, bwait>>
  BY DEF MarkAgentTaskRunning
<1>2. t \in AgentTasks /\ bst[t] \in Ended \cup {"removed"} /\ NoTask \notin AgentTasks
  BY <1>0, <1>1, BackgroundAssumption DEF DriverOk, BgTasks
<1>3. /\ n \in AgentTasks /\ bagent.running = n /\ Waiting(n) /\ ~Holds(q, n) /\ n # t
      /\ n \in BgTasks
  BY <1>1, <1>2 DEF BgIInv, QueueMatches, Waiting, BgTasks
<1>4. \A u \in AgentTasks : u # t => bdrv[u].pc = "no" /\ bslot # u
  BY <1>1, <1>2, ServerFacts
<1>5. /\ bstall' = bstall /\ bwait' = bwait /\ bslot' = bslot /\ bagent' = bagent
      /\ bstop' \in [BgTasks -> BOOLEAN] /\ bslot' \in AgentTasks \cup {NoTask, "user"}
      /\ bagent' \in [running: AgentTasks \cup {NoTask}, queue: Seq(AgentTasks)]
  BY <1>0, <1>1 DEF BgTyped
<1>6. bslot # t
  BY <1>1, <1>2 DEF BgIInv, SlotMatches
<1>7. \A u \in AgentTasks : bst[u] = "queued" => u = n \/ Holds(q, u)
  BY <1>1, <1>4 DEF BgIInv, QueueMatches
<1>8. \A u \in AgentTasks : Holds(q, u) => Waiting(u) /\ u # t /\ u # n
  BY <1>1, <1>3 DEF BgIInv, QueueMatches, Waiting
<1>9. Distinct(q) /\ bagent.running # NoTask
  BY <1>2, <1>3 DEF BgIInv, QueueMatches
<1> HIDE DEF n
<1>10. CASE MayStart(n)
  <2> DEFINE new == [NoDriver EXCEPT !.pc = "admit"]
             g == bgen[n] + 1
  <2>1. /\ bst[n] = "queued" /\ bst' = [bst EXCEPT ![n] = "running"]
        /\ bgen' = [bgen EXCEPT ![n] = g]
        /\ bdrv' = [bdrv EXCEPT ![t] = NoDriver, ![n] = new]
    BY <1>10 DEF MarkAgentTaskRunning, MayStart, Signal, n
  <2>2. /\ NoDriver \in Drivers /\ NoDriver.pc = "no" /\ new \in Drivers /\ new.pc = "admit"
    BY DEF NoDriver, Drivers, DriverPcs
  <2>3. /\ bgen[n] \in Nat /\ bstall[n] \in {"no", "watch", "mark", "stalled"}
        /\ bstall = [bstall EXCEPT ![n] = bstall[n]]
        /\ Counted(n, bst[n], bgen[n], bstall[n])
    BY <1>3, TaskFacts
  <2>4. g \in Nat /\ bgen[n] =< g /\ Counted(n, "running", g, bstall[n])
    BY <1>3, <2>1, <2>3 DEF Counted
  <2> HIDE DEF new, g
  <2>5. /\ bdrv' \in [BgTasks -> Drivers] /\ bdrv'[t] = NoDriver /\ bdrv'[n] = new
        /\ \A u \in BgTasks : u # t /\ u # n => bdrv'[u] = bdrv[u]
        /\ bst'[n] = "running" /\ \A u \in BgTasks : u # n => bst'[u] = bst[u]
    BY <1>0, <1>3, <2>1, <2>2 DEF BgTyped
  <2>6. "running" \in Statuses /\ "running" \notin Ended /\ bstall' = [bstall EXCEPT ![n] = bstall[n]]
    BY <1>5, <2>3 DEF Statuses, Ended
  <2>7. BgTyped' /\ SignalsCounted' /\ WaitsMatch'
    <3>1. /\ n \in BgTasks /\ bst' = [bst EXCEPT ![n] = "running"] /\ bgen' = [bgen EXCEPT ![n] = g]
          /\ "running" \in Ended => bst[n] \in Ended \/ bgen[n] < g
      BY <1>3, <2>1, <2>6
    <3>2. "running" \in Statuses /\ bstall' = [bstall EXCEPT ![n] = bstall[n]]
      BY <2>6
    <3>3. bstall[n] \in {"no", "watch", "mark", "stalled"}
      BY <2>3
    <3>4. bdrv' \in [BgTasks -> Drivers]
      BY <2>5
    <3> QED
      <4>1. Writes(n, "running", g, bstall[n]) /\ Besides
        BY <1>5, <3>1, <3>2, <3>4 DEF Writes, Besides
      <4> QED
        BY <2>4, <3>1, <3>2, <3>3, <4>1, RecordKept
  <2>8. DriversMatch'
    <3>1. DriverOk(t, NoDriver, bst[t]) /\ DriverOk(n, new, "running")
      BY <1>3, <2>2 DEF DriverOk, AtWork
    <3> QED
      BY <1>3, <2>5, <3>1 DEF BgIInv, DriversMatch
  <2>9. \A u \in AgentTasks : u # n => bdrv'[u].pc = "no" /\ bst'[u] = bst[u]
    BY <1>4, <2>2, <2>5 DEF BgTasks
  <2>10. OneAtWork'
    BY <1>2, <1>3, <1>5, <2>2, <2>5, <2>9 DEF OneAtWork, AtWork
  <2>11. SlotMatches'
    BY <1>3, <1>4, <1>5, <1>6, <2>2, <2>5, <2>9 DEF SlotMatches
  <2>12. QueueMatches'
    <3>1. \A u \in AgentTasks : bdrv'[u].pc # "promote"
      BY <2>2, <2>5, <2>9
    <3>2. \A u \in AgentTasks : Holds(q, u) => Waiting(u)'
      BY <1>8, <2>9 DEF Waiting
    <3>3. \A u \in AgentTasks : bst'[u] = "queued" => Holds(q, u)
      BY <1>7, <2>5, <2>9
    <3> QED
      BY <1>5, <1>9, <3>1, <3>2, <3>3 DEF QueueMatches
  <2> QED
    BY <2>7, <2>8, <2>10, <2>11, <2>12 DEF BgIInv
<1>11. CASE ~MayStart(n)
  <2> DEFINE row == [bdrv[t] EXCEPT !.pc = "finish", !.next = NoTask]
  <2>1. bst[n] # "queued" /\ bst' = bst /\ bgen' = bgen /\ bdrv' = [bdrv EXCEPT ![t] = row]
    BY <1>11 DEF MarkAgentTaskRunning, MayStart, n
  <2>2. row \in Drivers /\ row.pc = "finish"
    BY <1>0 DEF Drivers, DriverPcs
  <2> HIDE DEF row
  <2>3. /\ bdrv' \in [BgTasks -> Drivers] /\ bdrv'[t] = row
        /\ \A u \in BgTasks : u # t => bdrv'[u] = bdrv[u]
    BY <1>0, <2>1, <2>2 DEF BgTyped
  <2>4. BgTyped' /\ SignalsCounted' /\ WaitsMatch'
    BY <1>5, <2>1, <2>3, DriverStepKept
  <2>5. DriversMatch'
    <3>1. DriverOk(t, row, bst[t])
      BY <1>2, <2>2 DEF DriverOk, AtWork
    <3> QED
      BY <2>1, <2>3, <3>1 DEF BgIInv, DriversMatch
  <2>6. \A u \in AgentTasks : u # t => bdrv'[u].pc = "no" /\ bdrv'[u] = bdrv[u]
    BY <1>4, <2>3 DEF BgTasks
  <2>7. OneAtWork'
    BY <1>2, <1>3, <1>5, <1>9, <2>2, <2>3, <2>6 DEF OneAtWork, AtWork
  <2>8. SlotMatches'
    BY <1>4, <1>5, <1>6, <2>2, <2>3, <2>6 DEF SlotMatches
  <2>9. QueueMatches'
    <3>1. \A u \in AgentTasks : bdrv'[u].pc # "promote"
      BY <2>2, <2>3, <2>6
    <3>2. \A u \in AgentTasks : Holds(q, u) => Waiting(u)'
      BY <1>8, <2>1, <2>6 DEF Waiting
    <3>3. \A u \in AgentTasks : bst'[u] = "queued" => Holds(q, u)
      BY <1>7, <2>1
    <3> QED
      BY <1>5, <1>9, <3>1, <3>2, <3>3 DEF QueueMatches
  <2> QED
    BY <2>4, <2>5, <2>7, <2>8, <2>9 DEF BgIInv
<1> QED
  BY <1>10, <1>11
-----------------------------------------------------------------------------
(* The theorems.                                                           *)

\* Every step keeps the invariant.
LEMMA NextBgIInv == BgIInv /\ [BackgroundNext]_bvars => BgIInv'
<1> SUFFICES ASSUME BgIInv, [BackgroundNext]_bvars PROVE BgIInv'
  OBVIOUS
<1>1. CASE UNCHANGED bvars
  BY <1>1 DEF bvars, BgIInv, BgTyped, SignalsCounted, DriversMatch, OneAtWork, SlotMatches,
              QueueMatches, Waiting, WaitsMatch
<1>2. ASSUME NEW t \in BgTasks, AgentDriver(t) PROVE BgIInv'
  BY <1>2, SubmitKeeps, AgentRunKeeps, FinishKeeps, PromoteKeeps DEF AgentDriver
<1>3. ASSUME NEW t \in BgTasks, PlainDriver(t) PROVE BgIInv'
  BY <1>3, PlainRunKeeps, WatchdogKeeps DEF PlainDriver
<1>4. ASSUME NEW t \in BgTasks, CompleteTask(t) \/ Kill(t) \/ Cleanup(t) PROVE BgIInv'
  BY <1>4, CompleteKeeps, KillKeeps, CleanupKeeps
<1>5. CASE UserRun
  BY <1>5, UserRunKeeps
<1>6. ASSUME NEW w \in TaskWaiters, Waiter(w) PROVE BgIInv'
  BY <1>6, WaiterKeeps
<1> QED
  BY <1>1, <1>2, <1>3, <1>4, <1>5, <1>6 DEF BackgroundNext

\* A step takes no outcome back.
LEMMA NextEndsOnce ==
    ASSUME BgIInv, [BackgroundNext]_bvars
    PROVE  \A t \in BgTasks : bst[t] \in Ended => bst'[t] \in {bst[t], "removed"}
<1> SUFFICES ASSUME NEW u \in BgTasks, bst[u] \in Ended PROVE bst'[u] \in {bst[u], "removed"}
  OBVIOUS
<1>0. \A t \in BgTasks : bst = [bst EXCEPT ![t] = bst[t]] /\ DriverOk(t, bdrv[t], bst[t])
  BY TaskFacts
<1>1. bst[u] \notin {"none", "queued", "running"} /\ DOMAIN bst = BgTasks
  BY DEF Ended, BgIInv, BgTyped
<1>2. ASSUME NEW t \in BgTasks, NEW st, bst' = [bst EXCEPT ![t] = st],
             bst[t] \in {"none", "queued", "running"} \/ st = "removed"
      PROVE  bst'[u] \in {bst[u], "removed"}
  BY <1>1, <1>2
<1>3. CASE bst' = bst
  BY <1>3
<1>4. ASSUME NEW t \in BgTasks, AgentDriver(t) PROVE bst'[u] \in {bst[u], "removed"}
  <2>1. CASE SubmitAgentTask(t)
    BY <1>2, <2>1 DEF SubmitAgentTask
  <2>2. CASE MarkAgentTaskRunning(t)
    <3>1. CASE bst' = bst
      BY <1>3, <3>1
    <3>2. CASE /\ bst[bdrv[t].next] = "queued" /\ bst' = [bst EXCEPT ![bdrv[t].next] = "running"]
      <4>1. bdrv[t].next # u
        BY <1>1, <3>2
      <4> QED
        BY <1>1, <3>2, <4>1
    <3> QED
      BY <2>2, <3>1, <3>2 DEF MarkAgentTaskRunning, MayStart
  <2>3. CASE \/ AdmitAgentRun(t) \/ ReleaseSlot(t) \/ FinishAgentRequest(t)
             \/ \E res \in {"completed", "failed", "killed"} : AgentRunEnds(t, res)
    BY <1>3, <2>3 DEF AdmitAgentRun, ReleaseSlot, FinishAgentRequest, AgentRunEnds
  <2> QED
    BY <1>4, <2>1, <2>2, <2>3 DEF AgentDriver
<1>5. ASSUME NEW t \in BgTasks, PlainDriver(t) PROVE bst'[u] \in {bst[u], "removed"}
  <2>1. CASE StartTask(t)
    BY <1>2, <2>1 DEF StartTask
  <2>2. CASE WatchdogReads(t) \/ MarkStalled(t) \/ \E res \in Ended : TaskResult(t, res)
    BY <1>3, <2>2 DEF WatchdogReads, MarkStalled, TaskResult
  <2> QED
    BY <1>5, <2>1, <2>2 DEF PlainDriver
<1>6. ASSUME NEW t \in BgTasks, CompleteTask(t) PROVE bst'[u] \in {bst[u], "removed"}
  <2>1. CASE bst[t] = "killed" \/ bst[t] = "removed"
    BY <1>3, <1>6, <2>1 DEF CompleteTask, OutcomeRecorded
  <2>2. CASE ~(bst[t] = "killed" \/ bst[t] = "removed")
    <3>1. bst[t] = "running"
      BY <1>0, <1>6, <2>2 DEF CompleteTask, DriverOk, AtWork
    <3>2. bst' = [bst EXCEPT ![t] = bdrv[t].res]
      BY <1>6, <2>2 DEF CompleteTask, OutcomeRecorded
    <3> QED
      BY <1>2, <3>1, <3>2
  <2> QED
    BY <2>1, <2>2
<1>7. ASSUME NEW t \in BgTasks, Kill(t) PROVE bst'[u] \in {bst[u], "removed"}
  BY <1>2, <1>3, <1>7 DEF Kill
<1>8. ASSUME NEW t \in BgTasks, Cleanup(t) PROVE bst'[u] \in {bst[u], "removed"}
  <2>1. bst' = [bst EXCEPT ![t] = "removed"]
    BY <1>8 DEF Cleanup
  <2> QED
    BY <1>1, <2>1
<1>9. CASE UserRun \/ \E w \in TaskWaiters : Waiter(w)
  <2>1. bst' = bst
    BY <1>9 DEF UserRun, Waiter, WaitUntil, WaiterReads, WaiterWakes, WaiterLeaves
  <2> QED
    BY <1>3, <2>1
<1>10. CASE UNCHANGED bvars
  BY <1>3, <1>10 DEF bvars
<1> QED
  BY <1>4, <1>5, <1>6, <1>7, <1>8, <1>9, <1>10 DEF BackgroundNext

\* manager.go, WaitForSessionTask, and subagent.go, MarkAgentTaskRunning: for any number of
\* tasks and waiters, only the task whose record runs executes, and no waiter sleeps on
\* after the end of its task.
THEOREM TaskTheorem == BackgroundSpec => []TaskInv
<1>1. BackgroundSpec => []BgIInv
  BY InitBgIInv, NextBgIInv, PTL DEF BackgroundSpec
<1> QED
  BY <1>1, BgIInvImplies, PTL

\* subagent.go, finishAgentRequest and runAgentRequest: for any number of messages no task of
\* the subagent is refused because of another one, and none is left in the queue.
THEOREM ServedTheorem == BackgroundSpec => []MessagesAreServed
<1>1. BackgroundSpec => []BgIInv
  BY InitBgIInv, NextBgIInv, PTL DEF BackgroundSpec
<1> QED
  BY <1>1, BgIInvImplies, PTL

\* manager.go, Kill ("its runtime outcome is the single authority"): a task that has ended
\* keeps its outcome, whatever races.
THEOREM EndsOnceTheorem == BackgroundSpec => TaskEndsOnce
<1>1. BackgroundSpec => []BgIInv
  BY InitBgIInv, NextBgIInv, PTL DEF BackgroundSpec
<1>2. BgIInv /\ [BackgroundNext]_bvars =>
        [\A t \in BgTasks : bst[t] \in Ended => bst'[t] \in {bst[t], "removed"}]_bvars
  BY NextEndsOnce
<1> QED
  BY <1>1, <1>2, PTL DEF BackgroundSpec, TaskEndsOnce

-----------------------------------------------------------------------------
(* AgentProcesses.                                                         *)

GenStates == {"none", "starting", "live", "retired", "closing", "gone"}
LeasePcs == {"idle", "try", "block", "ready", "start", "held", "end"}
LeaseRows == [pc: LeasePcs, fp: Prints \cup {"none"}, gen: Gens \cup {0}]
DrainRows == [pc: {"idle", "wait", "holding", "end"}, gens: SUBSET Gens]

ProcTyped ==
    /\ gst \in [Gens -> GenStates]
    /\ gproc \in [Gens -> {"none", "alive", "dead"}]
    /\ gfp \in [Gens -> SUBSET Prints]
    /\ grefs \in [Gens -> Nat]
    /\ gerr \in [Gens -> BOOLEAN] /\ gstop \in [Gens -> BOOLEAN]
    /\ gcur \in Gens \cup {0} /\ gidle \in Gens \cup {0} /\ gslot \in BOOLEAN
    /\ gblock \in SUBSET Drainers /\ gdown \in {"no", "closing", "returned", "cut"}
    /\ glease \in [Leasers -> LeaseRows]
    /\ gdrain \in [Drainers -> DrainRows]

\* A lease that has, or starts, a generation is of one that exists; a starting
\* generation has the call that starts it as its only user.
LeasesPlaced ==
    /\ \A l \in Leasers :
         /\ glease[l].pc \in {"start", "held", "ready"} => glease[l].gen \in Gens
         /\ glease[l].pc = "start" => gst[glease[l].gen] = "starting"
         /\ glease[l].pc = "held" => gst[glease[l].gen] \notin {"none", "starting"}
         /\ glease[l].fp = "none" \/ glease[l].fp \in Prints
         /\ glease[l].pc # "idle" => glease[l].fp \in Prints
    /\ \A l, m \in Leasers :
         (glease[l].pc = "start" /\ glease[m].pc = "start" /\ glease[l].gen = glease[m].gen)
            => l = m

\* Every lease is counted once.
LeasesCounted == \A g \in Gens : grefs[g] = Cardinality(Users(g))

\* A process runs only for a generation that was started and is not gone.
AliveIsListed ==
    \A g \in Gens : gproc[g] = "alive" => gst[g] \in {"live", "retired", "closing"}

RetiredHasUser == \A g \in Gens : gst[g] = "retired" => grefs[g] # 0

\* A drain that waits blocks the key, and knows every generation there is.
DrainsBlock ==
    \A d \in Drainers :
        /\ d \in gblock <=> gdrain[d].pc \in {"wait", "holding"}
        /\ gdrain[d].pc = "wait" => Remaining \subseteq gdrain[d].gens
        /\ gdrain[d].pc = "holding" => Remaining = {}

ShutIsGone == gdown = "returned" => Remaining = {}

\* Once Close has begun, what is left is being closed or will be when its start ends.
LeftIsEnding ==
    gdown # "no" =>
        \A g \in Gens : /\ gst[g] \notin {"live", "retired"}
                        /\ gst[g] = "starting" => gstop[g]

ProcIInv ==
    /\ ProcTyped /\ LeasesPlaced /\ LeasesCounted /\ AliveIsListed /\ RetiredHasUser
    /\ OneServes /\ DrainsBlock /\ ShutIsGone /\ LeftIsEnding

-----------------------------------------------------------------------------
\* The users of a generation are finitely many, and no user means no lease counted.
LEMMA UsersFinite ==
    ASSUME NEW g \in Gens
    PROVE  /\ IsFiniteSet(Users(g)) /\ Cardinality(Users(g)) \in 0..Cardinality(Leasers)
           /\ Cardinality(Users(g)) = 0 <=> Users(g) = {}
<1>1. Users(g) \subseteq Leasers /\ IsFiniteSet(Leasers)
  BY AgentProcessAssumption DEF Users
<1>2. /\ IsFiniteSet(Users(g)) /\ Cardinality(Users(g)) =< Cardinality(Leasers)
      /\ Cardinality(Users(g)) \in Nat /\ Cardinality(Leasers) \in Nat
  BY <1>1, FS_Subset, FS_CardinalityType
<1>3. Cardinality(Users(g)) = 0 <=> Users(g) = {}
  BY <1>2, FS_EmptySet
<1> QED
  BY <1>2, <1>3

\* The invariant contains the checked one.
LEMMA ProcIInvImpliesInv == ProcIInv => ProcessInv
<1> SUFFICES ASSUME ProcIInv PROVE ProcessInv
  OBVIOUS
<1>1. AgentProcTypeOK
  <2>1. \A g \in Gens : grefs[g] \in 0..Cardinality(Leasers)
    BY UsersFinite DEF ProcIInv, LeasesCounted
  <2> QED
    BY <2>1 DEF ProcIInv, ProcTyped, AgentProcTypeOK, GenStates, LeaseRows, LeasePcs, DrainRows
<1>2. RetiredIsUsed
  BY UsersFinite DEF ProcIInv, RetiredHasUser, LeasesCounted, RetiredIsUsed
<1>3. DrainedMeansGone
  <2> SUFFICES ASSUME gdown = "returned" \/ \E d \in Drainers : gdrain[d].pc = "holding",
                      NEW g \in Gens
               PROVE  gst[g] \in {"none", "gone"} /\ gproc[g] # "alive"
    BY DEF DrainedMeansGone
  <2>1. Remaining = {}
    BY DEF ProcIInv, DrainsBlock, ShutIsGone
  <2> QED
    BY <2>1 DEF Remaining, ProcIInv, AliveIsListed
<1>4. ClosedIsEnding
  BY DEF ProcIInv, AliveIsListed, LeftIsEnding, ClosedIsEnding
<1> QED
  BY <1>1, <1>2, <1>3, <1>4 DEF ProcIInv, ProcessInv

\* Nothing is started, leased or drained at first.
LEMMA InitProcIInv == AgentProcInit => ProcIInv
<1> SUFFICES ASSUME AgentProcInit PROVE ProcIInv
  OBVIOUS
<1> USE DEF AgentProcInit
<1>1. ProcTyped
  BY DEF ProcTyped, GenStates, LeaseRows, LeasePcs, DrainRows
<1>2. LeasesPlaced
  BY DEF LeasesPlaced
<1>3. LeasesCounted
  <2>1. \A g \in Gens : Users(g) = {}
    BY DEF Users
  <2> QED
    BY <2>1, FS_EmptySet DEF LeasesCounted
<1>4. AliveIsListed /\ RetiredHasUser /\ OneServes
  BY DEF AliveIsListed, RetiredHasUser, OneServes
<1>5. DrainsBlock /\ ShutIsGone /\ LeftIsEnding
  BY DEF DrainsBlock, ShutIsGone, LeftIsEnding
<1> QED
  BY <1>1, <1>2, <1>3, <1>4, <1>5 DEF ProcIInv

\* Moving a lease adds it to the users of one generation or takes it from all.
LEMMA LeaseMoves ==
    ASSUME glease \in [Leasers -> LeaseRows], NEW l \in Leasers, NEW pc \in LeasePcs,
           NEW n \in Gens \cup {0}, LeaseAt(l, pc, n)
    PROVE  /\ glease' \in [Leasers -> LeaseRows]
           /\ glease'[l].pc = pc /\ glease'[l].gen = n /\ glease'[l].fp = glease[l].fp
           /\ \A m \in Leasers : m # l => glease'[m] = glease[m]
           /\ \A g \in Gens : (Users(g))' = IF pc \in {"start", "held"} /\ n = g
                                            THEN Users(g) \cup {l} ELSE Users(g) \ {l}
<1>1. /\ glease' = [glease EXCEPT ![l] = [glease[l] EXCEPT !.pc = pc, !.gen = n]]
      /\ glease[l] \in LeaseRows
  BY DEF LeaseAt
<1>2. /\ glease' \in [Leasers -> LeaseRows]
      /\ glease'[l].pc = pc /\ glease'[l].gen = n /\ glease'[l].fp = glease[l].fp
      /\ \A m \in Leasers : m # l => glease'[m] = glease[m]
  BY <1>1 DEF LeaseRows
<1> QED
  BY <1>2 DEF Users

-----------------------------------------------------------------------------
(* Steps that leave the leases alone.                                      *)

\* How a generation that nobody starts goes on.
GenAdvances(g) ==
    \/ gst'[g] = gst[g]
    \/ gst[g] = "live" /\ gst'[g] = "retired" /\ grefs[g] # 0
    \/ gst[g] \in {"live", "retired"} /\ gst'[g] = "closing"
    \/ gst[g] = "closing" /\ gst'[g] = "gone"

\* Then leases stay placed and counted, and no generation comes back.
LEMMA AdvancesKeep ==
    ASSUME ProcIInv, gst' \in [Gens -> GenStates], UNCHANGED <<glease, grefs>>,
           \A g \in Gens : GenAdvances(g)
    PROVE  /\ LeasesPlaced' /\ LeasesCounted' /\ RetiredHasUser'
           /\ Remaining' \subseteq Remaining
<1>1. LeasesPlaced'
  <2> USE DEF ProcIInv, LeasesPlaced
  <2>1. ASSUME NEW l \in Leasers
        PROVE  /\ glease[l].pc = "start" => gst'[glease[l].gen] = "starting"
               /\ glease[l].pc = "held" => gst'[glease[l].gen] \notin {"none", "starting"}
    BY DEF GenAdvances
  <2> QED
    BY <2>1
<1>2. LeasesCounted'
  BY DEF ProcIInv, LeasesCounted, Users
<1>3. RetiredHasUser'
  BY DEF ProcIInv, RetiredHasUser, GenAdvances
<1>4. Remaining' \subseteq Remaining
  BY DEF Remaining, GenAdvances
<1> QED
  BY <1>1, <1>2, <1>3, <1>4

\* closeLocked lets every generation advance.
LEMMA CloseGensAdvances ==
    ASSUME ProcIInv, NEW G \in SUBSET Gens, CloseGens(G)
    PROVE  /\ gst' \in [Gens -> GenStates] /\ gstop' \in [Gens -> BOOLEAN]
           /\ gcur' \in Gens \cup {0}
           /\ \A g \in Gens : /\ gst[g] \in GenStates /\ GenAdvances(g)
                              /\ gst'[g] # gst[g] => gst'[g] = "closing"
                              /\ g \in G => gst'[g] \notin {"live", "retired"}
                              /\ gst'[g] = "starting" => gst[g] = "starting"
                                    /\ gstop'[g] = (gstop[g] \/ g \in G)
           /\ \A g \in Gens : gst'[g] = "live" => gst[g] = "live" /\ gcur' = gcur
<1>1. /\ gst \in [Gens -> GenStates] /\ gstop \in [Gens -> BOOLEAN] /\ gcur \in Gens \cup {0}
      /\ gst' = [g \in Gens |-> IF g \in G /\ gst[g] \in {"live", "retired"}
                                THEN "closing" ELSE gst[g]]
      /\ gstop' = [g \in Gens |-> gstop[g] \/ (g \in G /\ gst[g] = "starting")]
      /\ gcur' = IF gcur \in G THEN 0 ELSE gcur
  BY DEF ProcIInv, ProcTyped, CloseGens, ClosedState, ClosedStop
<1>2. gst' \in [Gens -> GenStates] /\ gcur' \in Gens \cup {0}
  BY <1>1 DEF GenStates
<1>3. gstop' \in [Gens -> BOOLEAN]
  BY <1>1
<1>4. \A g \in Gens : /\ gst[g] \in GenStates /\ GenAdvances(g)
                      /\ gst'[g] # gst[g] => gst'[g] = "closing"
                      /\ g \in G => gst'[g] \notin {"live", "retired"}
                      /\ gst'[g] = "starting" => gst[g] = "starting"
                            /\ gstop'[g] = (gstop[g] \/ g \in G)
  BY <1>1 DEF GenAdvances
<1>5. \A g \in Gens : gst'[g] = "live" => gst[g] = "live" /\ gcur' = gcur
  BY <1>1 DEF ProcIInv, OneServes
<1> QED
  BY <1>2, <1>3, <1>4, <1>5

\* retireLocked does too.
LEMMA RetireAdvances ==
    ASSUME ProcIInv, NEW c \in Gens
    PROVE  /\ RetiredState(c) \in [Gens -> GenStates]
           /\ \A g \in Gens : g # c => RetiredState(c)[g] = gst[g]
           /\ RetiredState(c)[c] # "live"
           /\ \/ RetiredState(c)[c] = gst[c]
              \/ gst[c] = "live" /\ RetiredState(c)[c] = "retired" /\ grefs[c] # 0
              \/ gst[c] = "live" /\ RetiredState(c)[c] = "closing" /\ grefs[c] = 0
BY DEF ProcIInv, ProcTyped, GenStates, RetiredState

\* A generation is closed under the lock by reconcile, a drain or Close.
LEMMA ClosersKeep ==
    ASSUME ProcIInv,
           \/ Reconcile \/ (\E busy \in BOOLEAN : CloseIdle(busy)) \/ CloseAll
           \/ \E d \in Drainers : DrainBegins(d)
    PROVE  ProcIInv'
<1>1. ProcTyped /\ UNCHANGED <<glease, grefs, gproc, gfp, gerr>>
  BY DEF ProcIInv, Reconcile, CloseIdle, CloseAll, DrainBegins
<1>2. (\E G \in SUBSET Gens : CloseGens(G)) \/ UNCHANGED <<gst, gstop, gcur>>
  <2>1. Remaining \in SUBSET Gens
    BY DEF Remaining
  <2>2. CASE Reconcile
    BY <2>2 DEF Reconcile
  <2>3. CASE \E busy \in BOOLEAN : CloseIdle(busy)
    <3>1. gidle \in Gens \/ UNCHANGED <<gst, gstop, gcur>>
      BY <1>1, <2>3 DEF CloseIdle, ProcTyped
    <3>2. CloseGens({gidle}) \/ UNCHANGED <<gst, gstop, gcur>>
      BY <2>3 DEF CloseIdle
    <3> QED
      BY <3>1, <3>2
  <2>4. CASE CloseAll \/ \E d \in Drainers : DrainBegins(d)
    BY <2>1, <2>4 DEF CloseAll, DrainBegins
  <2> QED
    BY <2>2, <2>3, <2>4
<1>3. /\ gst' \in [Gens -> GenStates] /\ gstop' \in [Gens -> BOOLEAN]
      /\ gcur' \in Gens \cup {0}
      /\ \A g \in Gens : /\ gst[g] \in GenStates /\ GenAdvances(g)
                         /\ gst'[g] # gst[g] => gst'[g] = "closing"
                         /\ gstop[g] => gstop'[g] \/ gst'[g] # "starting"
      /\ \A g \in Gens : gst'[g] = "live" => gst[g] = "live" /\ gcur' = gcur
  <2>1. CASE \E G \in SUBSET Gens : CloseGens(G)
    BY <2>1, CloseGensAdvances
  <2>2. CASE UNCHANGED <<gst, gstop, gcur>>
    BY <1>1, <2>2 DEF ProcTyped, GenAdvances
  <2> QED
    BY <1>2, <2>1, <2>2
<1>4. /\ LeasesPlaced' /\ LeasesCounted' /\ RetiredHasUser'
      /\ Remaining' \subseteq Remaining
  BY <1>1, <1>3, AdvancesKeep
<1>5. AliveIsListed'
  BY <1>1, <1>3 DEF ProcIInv, AliveIsListed
<1>6. CASE (Reconcile \/ \E busy \in BOOLEAN : CloseIdle(busy))
  <2>1. /\ UNCHANGED <<gblock, gdown, gdrain>>
        /\ gidle' \in Gens \cup {0} /\ gslot' \in BOOLEAN
    BY <1>1, <1>6 DEF ProcTyped, Reconcile, CloseIdle
  <2>2. ProcTyped'
    BY <1>1, <1>3, <2>1 DEF ProcTyped
  <2>3. OneServes'
    BY <1>3, <2>1 DEF ProcIInv, OneServes
  <2>4. DrainsBlock' /\ ShutIsGone'
    BY <1>4, <2>1 DEF ProcIInv, DrainsBlock, ShutIsGone
  <2>5. LeftIsEnding'
    BY <1>3, <2>1 DEF ProcIInv, LeftIsEnding
  <2> QED
    BY <1>4, <1>5, <2>2, <2>3, <2>4, <2>5 DEF ProcIInv
<1>7. CASE CloseAll
  <2>1. /\ UNCHANGED <<gblock, gdrain, gidle, gslot>> /\ gdown' = "closing"
        /\ CloseGens(Remaining)
    BY <1>7 DEF CloseAll
  <2>2. ProcTyped'
    BY <1>1, <1>3, <2>1 DEF ProcTyped
  <2>3. OneServes'
    <3>1. Remaining \in SUBSET Gens
      BY DEF Remaining
    <3>2. \A g \in Gens : g \in Remaining => gst'[g] # "live"
      BY <2>1, <3>1, CloseGensAdvances
    <3> QED
      BY <1>3, <3>2 DEF OneServes, Remaining
  <2>4. DrainsBlock' /\ ShutIsGone'
    BY <1>4, <2>1 DEF ProcIInv, DrainsBlock, ShutIsGone
  <2>5. LeftIsEnding'
    <3>1. Remaining \in SUBSET Gens
      BY DEF Remaining
    <3>2. \A g \in Gens : /\ gst'[g] # gst[g] => gst'[g] = "closing"
                          /\ g \in Remaining => gst'[g] \notin {"live", "retired"}
                          /\ gst'[g] = "starting" => gst[g] = "starting"
                                /\ gstop'[g] = (gstop[g] \/ g \in Remaining)
      BY <2>1, <3>1, CloseGensAdvances
    <3>3. \A g \in Gens : gst[g] \in {"live", "retired", "starting"} => g \in Remaining
      BY DEF Remaining
    <3> QED
      BY <3>2, <3>3 DEF LeftIsEnding
  <2> QED
    BY <1>4, <1>5, <2>2, <2>3, <2>4, <2>5 DEF ProcIInv
<1>8. ASSUME NEW d \in Drainers, DrainBegins(d) PROVE ProcIInv'
  <2>1. /\ UNCHANGED <<gdown, gidle, gslot>> /\ gblock' = gblock \cup {d}
        /\ gdrain' = [gdrain EXCEPT ![d] = [pc |-> "wait", gens |-> Remaining]]
    BY <1>8 DEF DrainBegins
  <2>2. /\ gdrain' \in [Drainers -> DrainRows]
        /\ gdrain'[d].pc = "wait" /\ gdrain'[d].gens = Remaining
        /\ \A e \in Drainers : e # d => gdrain'[e] = gdrain[e]
    BY <1>1, <2>1 DEF ProcTyped, DrainRows, Remaining
  <2>3. ProcTyped'
    BY <1>1, <1>3, <2>1, <2>2 DEF ProcTyped
  <2>4. OneServes'
    BY <1>3, <2>1 DEF ProcIInv, OneServes
  <2>5. DrainsBlock' /\ ShutIsGone'
    BY <1>4, <2>1, <2>2 DEF ProcIInv, DrainsBlock, ShutIsGone
  <2>6. LeftIsEnding'
    BY <1>3, <2>1 DEF ProcIInv, LeftIsEnding
  <2> QED
    BY <1>4, <1>5, <2>3, <2>4, <2>5, <2>6 DEF ProcIInv
<1> QED
  BY <1>6, <1>7, <1>8

\* A process exits, its Close returns, or its key is retired.
LEMMA GenStepsKeep ==
    ASSUME ProcIInv, Retire \/ \E g \in Gens : ProcessDies(g) \/ CloseReturns(g)
    PROVE  ProcIInv'
<1>1. /\ ProcTyped /\ UNCHANGED <<glease, grefs, gfp, gerr, gslot, gblock, gdown, gdrain, gidle>>
      /\ 0 \notin Gens
  BY DEF ProcIInv, Retire, ProcessDies, CloseReturns, callVars, Gens
<1>2. ASSUME gst' \in [Gens -> GenStates], gproc' \in [Gens -> {"none", "alive", "dead"}],
             gstop' \in [Gens -> BOOLEAN], gcur' \in Gens \cup {0},
             \A g \in Gens : gstop[g] => gstop'[g],
             \A g \in Gens : GenAdvances(g), AliveIsListed', OneServes'
      PROVE  ProcIInv'
  <2>1. /\ LeasesPlaced' /\ LeasesCounted' /\ RetiredHasUser'
        /\ Remaining' \subseteq Remaining
    BY <1>1, <1>2, AdvancesKeep
  <2>2. ProcTyped'
    BY <1>1, <1>2 DEF ProcTyped
  <2>3. DrainsBlock' /\ ShutIsGone'
    BY <1>1, <2>1 DEF ProcIInv, DrainsBlock, ShutIsGone
  <2>4. LeftIsEnding'
    BY <1>1, <1>2 DEF ProcIInv, LeftIsEnding, GenAdvances
  <2> QED
    BY <1>2, <2>1, <2>2, <2>3, <2>4 DEF ProcIInv
<1>3. CASE Retire
  <2>1. /\ gcur \in Gens /\ gst' = RetiredState(gcur) /\ gcur' = 0 /\ gproc' = gproc
        /\ gstop' = [gstop EXCEPT ![gcur] = @ \/ gst[gcur] = "starting"]
    BY <1>1, <1>3 DEF ProcTyped, Retire
  <2>2. /\ gst' \in [Gens -> GenStates]
        /\ \A g \in Gens : g # gcur => gst'[g] = gst[g]
        /\ gst'[gcur] # "live" /\ GenAdvances(gcur)
        /\ gst'[gcur] = gst[gcur] \/ gst'[gcur] \in {"retired", "closing"}
    BY <2>1, RetireAdvances DEF GenAdvances
  <2>3. gstop' \in [Gens -> BOOLEAN] /\ \A g \in Gens : gstop[g] => gstop'[g]
    BY <1>1, <2>1 DEF ProcTyped
  <2>4. \A g \in Gens : GenAdvances(g)
    BY <2>2 DEF GenAdvances
  <2>5. AliveIsListed' /\ OneServes'
    BY <1>1, <2>1, <2>2 DEF ProcIInv, AliveIsListed, OneServes
  <2>6. gproc' \in [Gens -> {"none", "alive", "dead"}]
    BY <1>1, <2>1 DEF ProcTyped
  <2> QED
    BY <1>2, <2>1, <2>2, <2>3, <2>4, <2>5, <2>6
<1>4. ASSUME NEW g \in Gens, ProcessDies(g) PROVE ProcIInv'
  <2>1. gproc' = [gproc EXCEPT ![g] = "dead"] /\ UNCHANGED <<gst, gstop, gcur>>
    BY <1>4 DEF ProcessDies
  <2>2. AliveIsListed' /\ OneServes'
    BY <1>1, <2>1 DEF ProcIInv, ProcTyped, AliveIsListed, OneServes
  <2> QED
    BY <1>1, <1>2, <2>1, <2>2 DEF ProcTyped, GenAdvances
<1>5. ASSUME NEW g \in Gens, CloseReturns(g) PROVE ProcIInv'
  <2>1. /\ gproc' = [gproc EXCEPT ![g] = "dead"] /\ gst' = [gst EXCEPT ![g] = "gone"]
        /\ gst[g] = "closing" /\ UNCHANGED <<gstop, gcur>>
    BY <1>5 DEF CloseReturns
  <2>2. /\ gst' \in [Gens -> GenStates] /\ gproc' \in [Gens -> {"none", "alive", "dead"}]
        /\ \A h \in Gens : GenAdvances(h)
    BY <1>1, <2>1 DEF ProcTyped, GenStates, GenAdvances
  <2>3. AliveIsListed' /\ OneServes'
    BY <1>1, <2>1 DEF ProcIInv, ProcTyped, AliveIsListed, OneServes
  <2> QED
    BY <1>1, <1>2, <2>1, <2>2, <2>3 DEF ProcTyped
<1> QED
  BY <1>3, <1>4, <1>5
\* A drain ends its wait, lets the key go, or Close returns.
LEMMA DrainEndsKeep ==
    ASSUME ProcIInv,
           \/ CloseAllReturns \/ CloseAllGivesUp
           \/ \E d \in Drainers : DrainReturns(d) \/ Unblock(d)
    PROVE  ProcIInv'
<1>1. ProcTyped /\ UNCHANGED <<genVars, glease, gidle>>
  BY DEF ProcIInv, CloseAllReturns, CloseAllGivesUp, DrainReturns, Unblock
<1>2. /\ (LeasesPlaced /\ LeasesCounted /\ AliveIsListed /\ RetiredHasUser)'
      /\ Remaining' = Remaining
  BY <1>1 DEF genVars, ProcIInv, LeasesPlaced, LeasesCounted, Users, AliveIsListed,
              RetiredHasUser, Remaining
<1>3. CASE CloseAllReturns \/ CloseAllGivesUp
  <2>1. /\ gdown = "closing" /\ gdown' \in {"returned", "cut"}
        /\ gdown' = "returned" => Remaining = {}
        /\ UNCHANGED <<gblock, gdrain>>
    BY <1>3 DEF CloseAllReturns, CloseAllGivesUp
  <2>2. ProcTyped'
    BY <1>1, <2>1 DEF ProcTyped, genVars
  <2>3. (OneServes /\ DrainsBlock /\ ShutIsGone /\ LeftIsEnding)'
    BY <1>1, <1>2, <2>1 DEF ProcIInv, genVars, OneServes, DrainsBlock, ShutIsGone, LeftIsEnding
  <2> QED
    BY <1>2, <2>2, <2>3 DEF ProcIInv
<1>4. ASSUME NEW d \in Drainers, NEW row \in DrainRows, gdrain' = [gdrain EXCEPT ![d] = row],
             UNCHANGED gdown, gblock' \in SUBSET Drainers,
             \A e \in Drainers : e # d => (e \in gblock' <=> e \in gblock),
             d \in gblock' <=> row.pc = "holding", row.pc # "wait",
             row.pc = "holding" => Remaining = {}
      PROVE  ProcIInv'
  <2>1. /\ gdrain' \in [Drainers -> DrainRows] /\ gdrain'[d] = row
        /\ \A e \in Drainers : e # d => gdrain'[e] = gdrain[e]
    BY <1>1, <1>4 DEF ProcTyped
  <2>2. ProcTyped'
    BY <1>1, <1>4, <2>1 DEF ProcTyped, genVars
  <2>3. (OneServes /\ ShutIsGone /\ LeftIsEnding)'
    BY <1>1, <1>2, <1>4 DEF ProcIInv, genVars, OneServes, ShutIsGone, LeftIsEnding
  <2>4. DrainsBlock'
    <3> SUFFICES ASSUME NEW e \in Drainers
                 PROVE  /\ e \in gblock' <=> gdrain'[e].pc \in {"wait", "holding"}
                        /\ gdrain'[e].pc = "wait" => Remaining \subseteq gdrain'[e].gens
                        /\ gdrain'[e].pc = "holding" => Remaining = {}
      BY <1>2 DEF DrainsBlock
    <3>1. CASE e = d
      BY <1>4, <2>1, <3>1
    <3>2. CASE e # d
      BY <1>4, <2>1, <3>2 DEF ProcIInv, DrainsBlock
    <3> QED
      BY <3>1, <3>2
  <2> QED
    BY <1>2, <2>2, <2>3, <2>4 DEF ProcIInv
<1>5. ASSUME NEW d \in Drainers, DrainReturns(d) PROVE ProcIInv'
  <2> DEFINE row == [gdrain[d] EXCEPT !.pc = "holding"]
  <2>1. /\ gdrain[d].pc = "wait" /\ \A g \in gdrain[d].gens : gst[g] = "gone"
        /\ gdrain' = [gdrain EXCEPT ![d] = row] /\ UNCHANGED <<gblock, gdown>>
    BY <1>5 DEF DrainReturns
  <2>2. row \in DrainRows /\ row.pc = "holding"
    BY <1>1 DEF ProcTyped, DrainRows
  <2>3. d \in gblock /\ gblock \in SUBSET Drainers /\ Remaining = {}
    BY <1>1, <2>1 DEF ProcIInv, ProcTyped, DrainsBlock, Remaining
  <2> HIDE DEF row
  <2> QED
    BY <1>4, <2>1, <2>2, <2>3
<1>6. ASSUME NEW d \in Drainers, Unblock(d) PROVE ProcIInv'
  <2> DEFINE row == [pc |-> "end", gens |-> {}]
  <2>1. /\ gdrain' = [gdrain EXCEPT ![d] = row] /\ gblock' = gblock \ {d} /\ UNCHANGED gdown
    BY <1>6 DEF Unblock
  <2>2. row \in DrainRows /\ row.pc = "end"
    BY DEF DrainRows
  <2>3. gblock' \in SUBSET Drainers
    BY <1>1, <2>1 DEF ProcTyped
  <2> HIDE DEF row
  <2> QED
    BY <1>4, <2>1, <2>2, <2>3
<1> QED
  BY <1>3, <1>5, <1>6

-----------------------------------------------------------------------------
(* Leases.                                                                 *)

\* A call that has no generation and gets none.
LEMMA IdleLeaseKeeps ==
    ASSUME ProcIInv, NEW l \in Leasers,
           (\E f \in Prints : LeaseBegin(l, f)) \/ LeaseRefused(l) \/ LeaseWaits(l)
    PROVE  ProcIInv'
<1>1. /\ ProcTyped /\ glease[l] \in LeaseRows /\ 0 \in Gens \cup {0}
      /\ UNCHANGED <<gst, gproc, gfp, grefs, gerr, gstop, gcur, gblock, gdown, gdrain, gidle>>
  BY DEF ProcIInv, ProcTyped, LeaseBegin, LeaseRefused, LeaseWaits, genVars
<1>2. gslot' \in BOOLEAN
  BY <1>1 DEF ProcTyped, LeaseBegin, LeaseRefused, LeaseWaits, genVars
<1> DEFINE WithoutGen ==
             /\ glease' \in [Leasers -> LeaseRows]
             /\ \A m \in Leasers : m # l => glease'[m] = glease[m]
             /\ glease[l].pc \notin {"start", "held"}
             /\ glease'[l].pc \notin {"start", "held"}
             /\ glease'[l].pc = "ready" => glease'[l].gen \in Gens
             /\ glease'[l].fp \in Prints
<1>3. WithoutGen
  <2>1. ASSUME NEW f \in Prints, LeaseBegin(l, f)
        PROVE  WithoutGen
    <3>1. /\ glease' = [glease EXCEPT ![l] = [glease[l] EXCEPT !.pc = "try", !.fp = f]]
          /\ glease[l].pc = "idle"
      BY <2>1 DEF LeaseBegin
    <3> QED
      BY <1>1, <3>1 DEF ProcTyped, LeaseRows, LeasePcs
  <2>2. ASSUME NEW pc \in LeasePcs \ {"start", "held"}, NEW n \in Gens \cup {0},
               LeaseAt(l, pc, n), pc = "ready" => n \in Gens,
               glease[l].pc \in {"try", "block", "ready"}
        PROVE  WithoutGen
    <3>1. glease[l].fp \in Prints
      BY <2>2 DEF ProcIInv, LeasesPlaced
    <3> QED
      BY <1>1, <2>2, <3>1, LeaseMoves DEF ProcTyped
  <2>3. CASE LeaseRefused(l)
    <3>1. /\ glease[l].pc = "try"
          /\ \/ LeaseAt(l, "end", 0) \/ LeaseAt(l, "block", 0)
             \/ gcur # 0 /\ LeaseAt(l, "ready", gcur)
      BY <2>3 DEF LeaseRefused
    <3>2. "end" \in LeasePcs /\ "block" \in LeasePcs /\ "ready" \in LeasePcs
      BY DEF LeasePcs
    <3>3. gcur \in Gens \cup {0}
      BY <1>1 DEF ProcTyped
    <3> QED
      BY <1>1, <2>2, <3>1, <3>2, <3>3
  <2>4. CASE LeaseWaits(l)
    <3>1. /\ glease[l].pc \in {"block", "ready"}
          /\ LeaseAt(l, "end", 0) \/ LeaseAt(l, "try", 0)
      BY <2>4 DEF LeaseWaits
    <3>2. "end" \in LeasePcs /\ "try" \in LeasePcs
      BY DEF LeasePcs
    <3> QED
      BY <1>1, <2>2, <3>1, <3>2
  <2> QED
    BY <2>1, <2>3, <2>4
<1>4. \A g \in Gens : (Users(g))' = Users(g)
  BY <1>3 DEF Users
<1>5. ProcTyped'
  BY <1>1, <1>2, <1>3 DEF ProcTyped
<1>6. LeasesPlaced'
  BY <1>1, <1>3 DEF ProcIInv, LeasesPlaced
<1>7. /\ (LeasesCounted /\ AliveIsListed /\ RetiredHasUser /\ OneServes)'
      /\ (DrainsBlock /\ ShutIsGone /\ LeftIsEnding)'
  BY <1>1, <1>4 DEF ProcIInv, LeasesCounted, AliveIsListed, RetiredHasUser, OneServes,
                    DrainsBlock, ShutIsGone, LeftIsEnding, Remaining
<1> QED
  BY <1>5, <1>6, <1>7 DEF ProcIInv
\* Counting a user in and out.
LEMMA CountOne ==
    ASSUME NEW l \in Leasers, NEW n \in Gens
    PROVE  /\ l \notin Users(n) => Cardinality(Users(n) \cup {l}) = Cardinality(Users(n)) + 1
           /\ l \in Users(n) => Cardinality(Users(n) \ {l}) = Cardinality(Users(n)) - 1
<1>1. IsFiniteSet(Users(n)) /\ Cardinality(Users(n)) \in Nat
  BY UsersFinite, FS_CardinalityType
<1> QED
  BY <1>1, FS_AddElement, FS_RemoveElement

\* A lease shares the current generation.
LEMMA LeaseSharedKeeps ==
    ASSUME ProcIInv, NEW l \in Leasers, LeaseShared(l)
    PROVE  ProcIInv'
<1>1. /\ ProcTyped /\ glease[l].pc = "try" /\ gcur \in Gens /\ gst[gcur] = "live"
      /\ grefs' = [grefs EXCEPT ![gcur] = @ + 1] /\ LeaseAt(l, "held", gcur)
      /\ UNCHANGED <<gst, gproc, gfp, gerr, gstop, gcur, gslot, gblock, gdown, gdrain, gidle>>
      /\ "held" \in LeasePcs
  BY DEF ProcIInv, ProcTyped, LeaseShared, Serving, LeasePcs
<1>2. /\ glease' \in [Leasers -> LeaseRows]
      /\ glease'[l].pc = "held" /\ glease'[l].gen = gcur /\ glease'[l].fp = glease[l].fp
      /\ \A m \in Leasers : m # l => glease'[m] = glease[m]
      /\ \A g \in Gens : (Users(g))' = IF gcur = g THEN Users(g) \cup {l} ELSE Users(g) \ {l}
  BY <1>1, LeaseMoves DEF ProcTyped
<1>3. \A g \in Gens : l \notin Users(g)
  BY <1>1 DEF Users
<1>4. /\ grefs' \in [Gens -> Nat] /\ grefs'[gcur] = grefs[gcur] + 1
      /\ \A g \in Gens : grefs[g] \in Nat /\ (g # gcur => grefs'[g] = grefs[g])
  BY <1>1 DEF ProcTyped
<1>5. ProcTyped'
  BY <1>1, <1>2, <1>4 DEF ProcTyped
<1>6. LeasesPlaced'
  BY <1>1, <1>2 DEF ProcIInv, LeasesPlaced
<1>7. LeasesCounted'
  <2> SUFFICES ASSUME NEW g \in Gens PROVE grefs'[g] = Cardinality((Users(g))')
    BY DEF LeasesCounted
  <2>1. CASE g = gcur
    BY <1>2, <1>3, <1>4, <2>1, CountOne DEF ProcIInv, LeasesCounted
  <2>2. CASE g # gcur
    <3>1. (Users(g))' = Users(g)
      BY <1>2, <1>3, <2>2
    <3> QED
      BY <1>4, <2>2, <3>1 DEF ProcIInv, LeasesCounted
  <2> QED
    BY <2>1, <2>2
<1>8. RetiredHasUser'
  BY <1>1, <1>4 DEF ProcIInv, RetiredHasUser
<1>9. (AliveIsListed /\ OneServes /\ DrainsBlock /\ ShutIsGone /\ LeftIsEnding)'
  BY <1>1 DEF ProcIInv, AliveIsListed, OneServes, DrainsBlock, ShutIsGone, LeftIsEnding, Remaining
<1> QED
  BY <1>5, <1>6, <1>7, <1>8, <1>9 DEF ProcIInv

\* A lease starts a generation: the key is not blocked, so no drain waits.
LEMMA LeaseStartsKeeps ==
    ASSUME ProcIInv, NEW l \in Leasers, NEW n \in Gens, LeaseStarts(l, n)
    PROVE  ProcIInv'
<1> DEFINE retired == IF gcur = 0 THEN gst ELSE RetiredState(gcur)
<1>1. /\ ProcTyped /\ glease[l].pc = "try" /\ gdown = "no" /\ gblock = {} /\ gst[n] = "none"
      /\ gst' = [retired EXCEPT ![n] = "starting"]
      /\ gfp' = [gfp EXCEPT ![n] = {glease[l].fp}]
      /\ grefs' = [grefs EXCEPT ![n] = 1]
      /\ gcur' = n /\ gslot' = TRUE /\ LeaseAt(l, "start", n)
      /\ UNCHANGED <<gproc, gerr, gstop, gblock, gdown, gdrain, gidle>>
      /\ "start" \in LeasePcs
  BY DEF ProcIInv, LeaseStarts, Blocked, LeasePcs
<1>2. /\ retired \in [Gens -> GenStates]
      /\ \A g \in Gens : /\ retired[g] = gst[g] \/ retired[g] \in {"retired", "closing"}
                         /\ retired[g] = "retired" => grefs[g] # 0
                         /\ retired[g] # gst[g] => gst[g] = "live"
                         /\ retired[g] # "live"
  <2>1. CASE gcur = 0
    BY <1>1, <2>1 DEF ProcIInv, ProcTyped, OneServes, RetiredHasUser, Gens
  <2>2. CASE gcur # 0
    <3>1. gcur \in Gens /\ retired = RetiredState(gcur)
      BY <1>1, <2>2 DEF ProcTyped
    <3>2. /\ retired \in [Gens -> GenStates]
          /\ \A g \in Gens : g # gcur => retired[g] = gst[g]
          /\ retired[gcur] # "live"
          /\ \/ retired[gcur] = gst[gcur]
             \/ gst[gcur] = "live" /\ retired[gcur] = "retired" /\ grefs[gcur] # 0
             \/ gst[gcur] = "live" /\ retired[gcur] = "closing" /\ grefs[gcur] = 0
      BY <3>1, RetireAdvances
    <3> HIDE DEF retired
    <3> QED
      BY <3>2 DEF ProcIInv, OneServes, RetiredHasUser
  <2> QED
    BY <2>1, <2>2
<1> HIDE DEF retired
<1>3. /\ gst' \in [Gens -> GenStates] /\ gst'[n] = "starting"
      /\ \A g \in Gens : g # n => gst'[g] = retired[g]
  BY <1>1, <1>2 DEF GenStates
<1>4. /\ grefs' \in [Gens -> Nat] /\ grefs'[n] = 1
      /\ \A g \in Gens : grefs[g] \in Nat /\ (g # n => grefs'[g] = grefs[g])
  BY <1>1 DEF ProcTyped
<1>5. /\ glease' \in [Leasers -> LeaseRows]
      /\ glease'[l].pc = "start" /\ glease'[l].gen = n /\ glease'[l].fp = glease[l].fp
      /\ \A m \in Leasers : m # l => glease'[m] = glease[m]
      /\ \A g \in Gens : (Users(g))' = IF n = g THEN Users(g) \cup {l} ELSE Users(g) \ {l}
  BY <1>1, LeaseMoves DEF ProcTyped
<1>6. Users(n) = {} /\ \A g \in Gens : l \notin Users(g)
  BY <1>1 DEF ProcIInv, LeasesPlaced, Users
<1>7. ProcTyped'
  <2>1. glease[l].fp \in Prints
    BY <1>1 DEF ProcIInv, LeasesPlaced
  <2>2. gfp' \in [Gens -> SUBSET Prints]
    BY <1>1, <2>1 DEF ProcTyped
  <2> QED
    BY <1>1, <1>3, <1>4, <1>5, <2>2 DEF ProcTyped
<1>8. LeasesPlaced'
  <2>1. ASSUME NEW m \in Leasers, m # l
        PROVE  /\ glease[m].pc \in {"start", "held"} => glease[m].gen \in Gens /\ glease[m].gen # n
               /\ glease[m].pc = "start" => gst'[glease[m].gen] = "starting"
               /\ glease[m].pc = "held" => gst'[glease[m].gen] \notin {"none", "starting"}
    <3>1. glease[m].pc \in {"start", "held"} => glease[m].gen \in Gens /\ glease[m].gen # n
      BY <1>1 DEF ProcIInv, LeasesPlaced
    <3> QED
      BY <1>2, <1>3, <3>1 DEF ProcIInv, LeasesPlaced
  <2>2. ASSUME NEW m \in Leasers
        PROVE  /\ glease'[m].pc \in {"start", "held", "ready"} => glease'[m].gen \in Gens
               /\ glease'[m].pc = "start" => gst'[glease'[m].gen] = "starting"
               /\ glease'[m].pc = "held" => gst'[glease'[m].gen] \notin {"none", "starting"}
               /\ glease'[m].fp = "none" \/ glease'[m].fp \in Prints
               /\ glease'[m].pc # "idle" => glease'[m].fp \in Prints
    <3>1. CASE m = l
      BY <1>1, <1>3, <1>5, <3>1 DEF ProcIInv, LeasesPlaced
    <3>2. CASE m # l
      BY <1>5, <2>1, <3>2 DEF ProcIInv, LeasesPlaced
    <3> QED
      BY <3>1, <3>2
  <2>3. ASSUME NEW k \in Leasers, NEW m \in Leasers, glease'[k].pc = "start",
               glease'[m].pc = "start", glease'[k].gen = glease'[m].gen
        PROVE  k = m
    BY <1>5, <2>1, <2>3 DEF ProcIInv, LeasesPlaced
  <2> QED
    BY <2>2, <2>3 DEF LeasesPlaced
<1>9. LeasesCounted'
  <2> SUFFICES ASSUME NEW g \in Gens PROVE grefs'[g] = Cardinality((Users(g))')
    BY DEF LeasesCounted
  <2>1. CASE g = n
    <3>1. Cardinality(Users(n) \cup {l}) = 0 + 1
      BY <1>6, CountOne, UsersFinite
    <3> QED
      BY <1>4, <1>5, <2>1, <3>1
  <2>2. CASE g # n
    <3>1. (Users(g))' = Users(g)
      BY <1>5, <1>6, <2>2
    <3> QED
      BY <1>4, <2>2, <3>1 DEF ProcIInv, LeasesCounted
  <2> QED
    BY <2>1, <2>2
<1>10. (AliveIsListed /\ RetiredHasUser /\ OneServes)'
  BY <1>1, <1>2, <1>3, <1>4 DEF ProcIInv, AliveIsListed, RetiredHasUser, OneServes
<1>11. (DrainsBlock /\ ShutIsGone /\ LeftIsEnding)'
  BY <1>1 DEF ProcIInv, DrainsBlock, ShutIsGone, LeftIsEnding
<1> QED
  BY <1>7, <1>8, <1>9, <1>10, <1>11 DEF ProcIInv
\* A call gives its generation up, or keeps it when the start succeeds; the counter and
\* the users lose the same lease.
LEMMA LeaseLeaves ==
    ASSUME ProcIInv, NEW l \in Leasers, NEW g \in Gens, glease[l].gen = g,
           glease[l].pc \in {"start", "held"},
           NEW pc \in {"try", "end"}, LeaseAt(l, pc, 0),
           gst' \in [Gens -> GenStates], \A h \in Gens : h # g => gst'[h] = gst[h],
           gst'[g] \notin {"none", "starting"},
           grefs' = [grefs EXCEPT ![g] = grefs[g] - 1]
    PROVE  /\ glease' \in [Leasers -> LeaseRows] /\ grefs' \in [Gens -> Nat]
           /\ LeasesPlaced' /\ LeasesCounted'
           /\ (Users(g))' = Users(g) \ {l} /\ Cardinality((Users(g))') = grefs[g] - 1
<1>1. ProcTyped /\ pc \in LeasePcs /\ glease[l].fp \in Prints
  BY DEF ProcIInv, LeasesPlaced, LeasePcs
<1>2. /\ glease' \in [Leasers -> LeaseRows]
      /\ glease'[l].pc = pc /\ glease'[l].gen = 0 /\ glease'[l].fp = glease[l].fp
      /\ \A m \in Leasers : m # l => glease'[m] = glease[m]
      /\ \A h \in Gens : (Users(h))' = Users(h) \ {l}
  BY <1>1, LeaseMoves DEF ProcTyped
<1>3. l \in Users(g) /\ \A h \in Gens : h # g => l \notin Users(h)
  BY DEF Users
<1>4. /\ grefs[g] = Cardinality(Users(g)) /\ Cardinality(Users(g)) \in Nat
      /\ Cardinality(Users(g)) # 0
      /\ Cardinality(Users(g) \ {l}) = Cardinality(Users(g)) - 1
  BY <1>3, UsersFinite, CountOne DEF ProcIInv, LeasesCounted
<1>5. /\ grefs' \in [Gens -> Nat] /\ grefs'[g] = grefs[g] - 1
      /\ \A h \in Gens : h # g => grefs'[h] = grefs[h]
  BY <1>1, <1>4 DEF ProcTyped
<1>6. LeasesCounted'
  <2> SUFFICES ASSUME NEW h \in Gens PROVE grefs'[h] = Cardinality((Users(h))')
    BY DEF LeasesCounted
  <2>1. CASE h = g
    BY <1>2, <1>4, <1>5, <2>1
  <2>2. CASE h # g
    <3>1. (Users(h))' = Users(h) \ {l} /\ l \notin Users(h)
      BY <1>2, <1>3, <2>2
    <3>2. (Users(h))' = Users(h)
      BY <3>1
    <3> QED
      BY <1>5, <2>2, <3>2 DEF ProcIInv, LeasesCounted
  <2> QED
    BY <2>1, <2>2
<1>7. LeasesPlaced'
  <2>1. ASSUME NEW m \in Leasers, m # l
        PROVE  /\ glease[m].pc = "start" => gst'[glease[m].gen] = "starting"
               /\ glease[m].pc = "held" => gst'[glease[m].gen] \notin {"none", "starting"}
    <3>1. glease[m].pc = "start" =>
              glease[m].gen \in Gens /\ glease[m].gen # g
      BY <2>1 DEF ProcIInv, LeasesPlaced
    <3> QED
      BY <3>1 DEF ProcIInv, LeasesPlaced
  <2> QED
    BY <1>1, <1>2, <2>1 DEF ProcIInv, LeasesPlaced
<1> QED
  BY <1>2, <1>4, <1>5, <1>6, <1>7

\* The only user of a starting generation is the call that starts it.
LEMMA StarterIsAlone ==
    ASSUME ProcIInv, NEW l \in Leasers, glease[l].pc = "start"
    PROVE  /\ glease[l].gen \in Gens /\ gst[glease[l].gen] = "starting"
           /\ Users(glease[l].gen) = {l} /\ grefs[glease[l].gen] = 1
<1>1. glease[l].gen \in Gens /\ gst[glease[l].gen] = "starting"
  BY DEF ProcIInv, LeasesPlaced
<1>2. Users(glease[l].gen) = {l}
  BY <1>1 DEF ProcIInv, LeasesPlaced, Users
<1> QED
  BY <1>1, <1>2, FS_Singleton DEF ProcIInv, LeasesCounted

\* The start ends or fails.
LEMMA StartEndsKeeps ==
    ASSUME ProcIInv, NEW l \in Leasers,
           LeaseStartFails(l) \/ \E f \in Prints : LeaseStarted(l, f)
    PROVE  ProcIInv'
<1> DEFINE g == glease[l].gen
<1>1. /\ ProcTyped /\ glease[l].pc = "start" /\ g \in Gens /\ gst[g] = "starting"
      /\ Users(g) = {l} /\ grefs[g] = 1
      /\ UNCHANGED <<gstop, gslot, gblock, gdown, gdrain, gidle>>
  BY StarterIsAlone DEF ProcIInv, LeaseStartFails, LeaseStarted
<1>2. /\ gfp' \in [Gens -> SUBSET Prints] /\ gerr' \in [Gens -> BOOLEAN]
      /\ gproc' \in [Gens -> {"none", "alive", "dead"}]
      /\ \A h \in Gens : h # g => gproc'[h] = gproc[h]
  <2>1. CASE LeaseStartFails(l)
    BY <1>1, <2>1 DEF ProcTyped, LeaseStartFails
  <2>2. ASSUME NEW f \in Prints, LeaseStarted(l, f)
        PROVE  /\ gproc' = [gproc EXCEPT ![g] = "alive"]
               /\ gfp' = [gfp EXCEPT ![g] = @ \cup {f}] /\ gerr' = gerr
    BY <2>2 DEF LeaseStarted
  <2> QED
    BY <1>1, <2>1, <2>2 DEF ProcTyped
<1> HIDE DEF g
<1>3. ASSUME gst' = [gst EXCEPT ![g] = "closing"] \/
             (gst' = [gst EXCEPT ![g] = "gone"] /\ gproc' = gproc),
             grefs' = [grefs EXCEPT ![g] = 0], gcur' = IF gcur = g THEN 0 ELSE gcur,
             LeaseAt(l, "try", 0) \/ LeaseAt(l, "end", 0)
      PROVE  ProcIInv'
  <2>1. /\ gst' \in [Gens -> GenStates] /\ \A h \in Gens : h # g => gst'[h] = gst[h]
        /\ gst'[g] \in {"closing", "gone"}
    BY <1>1, <1>3 DEF ProcTyped, GenStates
  <2>2. grefs' = [grefs EXCEPT ![g] = grefs[g] - 1]
    BY <1>1, <1>3
  <2>3. /\ glease' \in [Leasers -> LeaseRows] /\ grefs' \in [Gens -> Nat]
        /\ LeasesPlaced' /\ LeasesCounted'
    BY <1>1, <1>3, <2>1, <2>2, LeaseLeaves DEF g
  <2>4. ProcTyped'
    BY <1>1, <1>2, <1>3, <2>1, <2>3 DEF ProcTyped
  <2>5. AliveIsListed'
    <3> SUFFICES ASSUME NEW h \in Gens, gproc'[h] = "alive"
                 PROVE  gst'[h] \in {"live", "retired", "closing"}
      BY DEF AliveIsListed
    <3>1. CASE h = g
      <4>1. gproc[g] # "alive"
        BY <1>1 DEF ProcIInv, AliveIsListed
      <4> QED
        BY <1>1, <1>3, <2>1, <3>1, <4>1 DEF ProcTyped
    <3>2. CASE h # g
      BY <1>2, <2>1, <3>2 DEF ProcIInv, AliveIsListed
    <3> QED
      BY <3>1, <3>2
  <2>6. RetiredHasUser' /\ OneServes'
    BY <1>1, <1>3, <2>1 DEF ProcIInv, ProcTyped, RetiredHasUser, OneServes
  <2>7. (DrainsBlock /\ ShutIsGone /\ LeftIsEnding)'
    <3>1. Remaining' \subseteq Remaining
      BY <1>1, <2>1 DEF Remaining
    <3>2. LeftIsEnding'
      BY <1>1, <2>1 DEF ProcIInv, LeftIsEnding
    <3> QED
      BY <1>1, <3>1, <3>2 DEF ProcIInv, DrainsBlock, ShutIsGone
  <2> QED
    BY <2>3, <2>4, <2>5, <2>6, <2>7 DEF ProcIInv
<1>4. CASE LeaseStartFails(l)
  BY <1>3, <1>4 DEF LeaseStartFails, g
<1>5. ASSUME NEW f \in Prints, LeaseStarted(l, f), Superseded(g) PROVE ProcIInv'
  BY <1>3, <1>5 DEF LeaseStarted, g
<1>6. ASSUME NEW f \in Prints, LeaseStarted(l, f), ~Superseded(g) PROVE ProcIInv'
  <2>1. /\ gst' = [gst EXCEPT ![g] = "live"] /\ LeaseAt(l, "held", g)
        /\ UNCHANGED <<grefs, gcur>> /\ gcur = g /\ gdown = "no" /\ "held" \in LeasePcs
    BY <1>6 DEF LeaseStarted, Superseded, g, LeasePcs
  <2>2. /\ gst' \in [Gens -> GenStates] /\ \A h \in Gens : h # g => gst'[h] = gst[h]
        /\ gst'[g] = "live"
    BY <1>1, <2>1 DEF ProcTyped, GenStates
  <2>3. /\ glease' \in [Leasers -> LeaseRows]
        /\ glease'[l].pc = "held" /\ glease'[l].gen = g /\ glease'[l].fp = glease[l].fp
        /\ \A m \in Leasers : m # l => glease'[m] = glease[m]
        /\ \A h \in Gens : (Users(h))' = IF g = h THEN Users(h) \cup {l} ELSE Users(h) \ {l}
    BY <1>1, <2>1, LeaseMoves DEF ProcTyped
  <2>4. \A h \in Gens : (Users(h))' = Users(h)
    <3> SUFFICES ASSUME NEW h \in Gens PROVE (Users(h))' = Users(h)
      OBVIOUS
    <3>1. h # g => l \notin Users(h)
      BY DEF Users, g
    <3>2. (Users(h))' = IF g = h THEN Users(h) \cup {l} ELSE Users(h) \ {l}
      BY <2>3
    <3> QED
      BY <1>1, <3>1, <3>2
  <2>5. ProcTyped'
    BY <1>1, <1>2, <2>1, <2>2, <2>3 DEF ProcTyped
  <2>6. LeasesPlaced'
    <3>1. ASSUME NEW m \in Leasers, m # l
          PROVE  /\ glease[m].pc = "start" => gst'[glease[m].gen] = "starting"
                 /\ glease[m].pc = "held" => gst'[glease[m].gen] \notin {"none", "starting"}
      <4>1. glease[m].pc = "start" => glease[m].gen \in Gens /\ glease[m].gen # g
        BY <1>1, <3>1 DEF ProcIInv, LeasesPlaced, g
      <4> QED
        BY <2>2, <4>1 DEF ProcIInv, LeasesPlaced
    <3> QED
      BY <1>1, <2>2, <2>3, <3>1 DEF ProcIInv, LeasesPlaced
  <2>7. LeasesCounted'
    BY <2>1, <2>4 DEF ProcIInv, LeasesCounted
  <2>8. (AliveIsListed /\ RetiredHasUser /\ OneServes)'
    BY <1>1, <1>2, <2>1, <2>2 DEF ProcIInv, AliveIsListed, RetiredHasUser, OneServes
  <2>9. (DrainsBlock /\ ShutIsGone /\ LeftIsEnding)'
    <3>1. Remaining' \subseteq Remaining
      BY <1>1, <2>2 DEF Remaining
    <3>2. LeftIsEnding'
      BY <1>1, <2>1 DEF LeftIsEnding
    <3> QED
      BY <1>1, <3>1, <3>2 DEF ProcIInv, DrainsBlock, ShutIsGone
  <2> QED
    BY <2>5, <2>6, <2>7, <2>8, <2>9 DEF ProcIInv
<1> QED
  BY <1>4, <1>5, <1>6

\* A lease is released; the last one of a retired generation closes it.
LEMMA ReleaseKeeps ==
    ASSUME ProcIInv, NEW l \in Leasers, Release(l)
    PROVE  ProcIInv'
<1> DEFINE g == glease[l].gen
           last == grefs[g] = 1 /\ gst[g] = "retired"
<1>1. /\ ProcTyped /\ glease[l].pc = "held" /\ g \in Gens
      /\ gst[g] \notin {"none", "starting"}
      /\ grefs' = [grefs EXCEPT ![g] = grefs[g] - 1]
      /\ gst' = IF last THEN ClosedState({g}) ELSE gst
      /\ LeaseAt(l, "end", 0)
      /\ UNCHANGED <<gproc, gfp, gerr, gstop, gcur, gslot, gblock, gdown, gdrain, gidle>>
  BY DEF ProcIInv, LeasesPlaced, Release
<1>2. /\ gst' \in [Gens -> GenStates] /\ \A h \in Gens : h # g => gst'[h] = gst[h]
      /\ gst'[g] = IF last THEN "closing" ELSE gst[g]
  BY <1>1 DEF ClosedState, ProcTyped, GenStates
<1>3. /\ glease' \in [Leasers -> LeaseRows] /\ grefs' \in [Gens -> Nat]
      /\ LeasesPlaced' /\ LeasesCounted'
  BY <1>1, <1>2, LeaseLeaves
<1>4. /\ grefs'[g] = grefs[g] - 1 /\ grefs[g] \in Nat
      /\ \A h \in Gens : h # g => grefs'[h] = grefs[h]
  BY <1>1 DEF ProcTyped
<1> HIDE DEF g
<1>5. ProcTyped'
  BY <1>1, <1>2, <1>3 DEF ProcTyped
<1>6. RetiredHasUser'
  <2> SUFFICES ASSUME NEW h \in Gens, gst'[h] = "retired" PROVE grefs'[h] # 0
    BY DEF RetiredHasUser
  <2>1. gst[h] = "retired" /\ grefs[h] # 0
    BY <1>2 DEF ProcIInv, RetiredHasUser
  <2> QED
    BY <1>2, <1>4, <2>1
<1>7. AliveIsListed' /\ OneServes'
  BY <1>1, <1>2 DEF ProcIInv, AliveIsListed, OneServes
<1>8. (DrainsBlock /\ ShutIsGone /\ LeftIsEnding)'
  <2>1. Remaining' \subseteq Remaining
    BY <1>1, <1>2 DEF Remaining
  <2>2. LeftIsEnding'
    BY <1>1, <1>2 DEF ProcIInv, LeftIsEnding
  <2> QED
    BY <1>1, <2>1, <2>2 DEF ProcIInv, DrainsBlock, ShutIsGone
<1> QED
  BY <1>3, <1>5, <1>6, <1>7, <1>8 DEF ProcIInv
\* Every step keeps the invariant.
LEMMA NextProcIInv == ProcIInv /\ [AgentProcNext]_gvars => ProcIInv'
<1> SUFFICES ASSUME ProcIInv, [AgentProcNext]_gvars PROVE ProcIInv'
  OBVIOUS
<1>1. CASE UNCHANGED gvars
  BY <1>1 DEF gvars, ProcIInv, ProcTyped, LeasesPlaced, LeasesCounted, Users, AliveIsListed,
              RetiredHasUser, OneServes, DrainsBlock, ShutIsGone, LeftIsEnding, Remaining
<1>2. ASSUME NEW l \in Leasers,
             \/ \E f \in Prints : LeaseBegin(l, f) \/ LeaseStarted(l, f)
             \/ LeaseRefused(l) \/ LeaseShared(l) \/ \E n \in Gens : LeaseStarts(l, n)
             \/ LeaseStartFails(l) \/ LeaseWaits(l) \/ Release(l)
      PROVE  ProcIInv'
  BY <1>2, IdleLeaseKeeps, LeaseSharedKeeps, LeaseStartsKeeps, StartEndsKeeps, ReleaseKeeps
<1>3. CASE Retire \/ \E g \in Gens : ProcessDies(g) \/ CloseReturns(g)
  BY <1>3, GenStepsKeep
<1>4. CASE \/ Reconcile \/ (\E busy \in BOOLEAN : CloseIdle(busy)) \/ CloseAll
           \/ \E d \in Drainers : DrainBegins(d)
  BY <1>4, ClosersKeep
<1>5. CASE \/ CloseAllReturns \/ CloseAllGivesUp
           \/ \E d \in Drainers : DrainReturns(d) \/ Unblock(d)
  BY <1>5, DrainEndsKeep
<1> QED
  BY <1>1, <1>2, <1>3, <1>4, <1>5 DEF AgentProcNext, LeaseNext

\* The invariant of the supervisor, for any number of calls and generations.
LEMMA ProcIInvariant == AgentProcSpec => []ProcIInv
<1>1. AgentProcInit => ProcIInv
  BY InitProcIInv
<1>2. ProcIInv /\ [AgentProcNext]_gvars => ProcIInv'
  BY NextProcIInv
<1> QED
  BY <1>1, <1>2, PTL DEF AgentProcSpec

\* At most one process of the key serves, every lease is counted once, a retired process
\* has a lease that will close it, and nothing runs while a drain holds the key, nor after a
\* Close that waited for everything; when its ctx ended first, whatever is left is being
\* closed (supervisor.go: startedLocked, retireLocked, releaseFunc, Drain, Close).
THEOREM ProcessTheorem == AgentProcSpec => []ProcessInv
<1>1. ProcIInv => ProcessInv
  BY ProcIInvImpliesInv
<1> QED
  BY <1>1, ProcIInvariant, PTL

-----------------------------------------------------------------------------
(* A process in use is kept.                                               *)

\* What LeasedIsKept says of one step.
KeptInUse ==
    \A g \in Gens :
        Users(g) # {} /\ gproc[g] = "alive" /\ gst[g] # "closing" /\ gst'[g] = "closing"
            => gblock' # gblock \/ gdown' # gdown \/ Users(g)' = {}

\* A step closes a generation that is unused or whose process is dead, or it is a drain,
\* Close, or the last release.
LEMMA NextKeepsInUse == ProcIInv /\ AgentProcNext => KeptInUse
<1> SUFFICES ASSUME ProcIInv, AgentProcNext, NEW g \in Gens, Users(g) # {}, gproc[g] = "alive",
                    gst[g] # "closing", gst'[g] = "closing",
                    gblock' = gblock, gdown' = gdown
             PROVE  (Users(g))' = {}
  BY DEF KeptInUse
<1>1. /\ ProcTyped /\ grefs[g] # 0 /\ grefs[g] = Cardinality(Users(g))
      /\ gst[g] \in {"live", "retired"}
  BY UsersFinite DEF ProcIInv, LeasesCounted, AliveIsListed
<1>2. ASSUME NEW G \in SUBSET Gens, CloseGens(G), g \notin G PROVE FALSE
  BY <1>1, <1>2 DEF CloseGens, ClosedState
<1>3. ASSUME NEW l \in Leasers,
             \/ \E f \in Prints : LeaseBegin(l, f)
             \/ LeaseRefused(l) \/ LeaseShared(l) \/ LeaseWaits(l)
      PROVE  FALSE
  BY <1>3 DEF LeaseBegin, LeaseRefused, LeaseShared, LeaseWaits, genVars
<1>4. ASSUME NEW l \in Leasers, NEW n \in Gens, LeaseStarts(l, n) PROVE FALSE
  <2>1. /\ gst[n] = "none"
        /\ gst' = [(IF gcur = 0 THEN gst ELSE RetiredState(gcur)) EXCEPT ![n] = "starting"]
    BY <1>4 DEF LeaseStarts
  <2>2. g # n
    BY <1>1, <2>1
  <2>3. CASE gcur = 0
    BY <1>1, <2>1, <2>2, <2>3 DEF ProcTyped
  <2>4. CASE gcur # 0
    <3>1. gcur \in Gens
      BY <1>1, <2>4 DEF ProcTyped
    <3>2. RetiredState(gcur)[g] # "closing"
      BY <1>1, <3>1, RetireAdvances
    <3>3. RetiredState(gcur) \in [Gens -> GenStates]
      BY <3>1, RetireAdvances
    <3>4. gst' = [RetiredState(gcur) EXCEPT ![n] = "starting"]
      BY <2>1, <2>4
    <3>5. gst'[g] = RetiredState(gcur)[g]
      BY <2>2, <3>3, <3>4
    <3> QED
      BY <3>2, <3>5
  <2> QED
    BY <2>3, <2>4
<1>5. ASSUME NEW l \in Leasers, LeaseStartFails(l) \/ \E f \in Prints : LeaseStarted(l, f)
      PROVE  FALSE
  <2>1. glease[l].gen \in Gens /\ gst[glease[l].gen] = "starting"
    BY <1>5, StarterIsAlone DEF LeaseStartFails, LeaseStarted
  <2>2. \/ gst' = [gst EXCEPT ![glease[l].gen] = "gone"]
        \/ gst' = [gst EXCEPT ![glease[l].gen] = "closing"]
        \/ gst' = [gst EXCEPT ![glease[l].gen] = "live"]
    BY <1>5 DEF LeaseStartFails, LeaseStarted
  <2> QED
    BY <1>1, <2>1, <2>2 DEF ProcTyped
<1>6. ASSUME NEW l \in Leasers, Release(l) PROVE (Users(g))' = {}
  <2>1. /\ glease[l].pc = "held" /\ glease[l].gen \in Gens /\ LeaseAt(l, "end", 0)
        /\ "end" \in LeasePcs /\ 0 \in Gens \cup {0}
        /\ gst' = IF grefs[glease[l].gen] = 1 /\ gst[glease[l].gen] = "retired"
                  THEN ClosedState({glease[l].gen}) ELSE gst
    BY <1>6 DEF Release, ProcIInv, LeasesPlaced, LeasePcs
  <2>2. glease[l].gen = g /\ grefs[g] = 1
    BY <1>1, <2>1 DEF ClosedState
  <2>3. (Users(g))' = Users(g) \ {l}
    BY <1>1, <2>1, LeaseMoves DEF ProcTyped
  <2>4. l \in Users(g)
    BY <2>1, <2>2 DEF Users
  <2>5. Cardinality(Users(g) \ {l}) = 0 /\ IsFiniteSet(Users(g) \ {l})
    <3>1. IsFiniteSet(Users(g)) /\ Cardinality(Users(g)) = 1
      BY <1>1, <2>2, UsersFinite
    <3> QED
      BY <2>4, <3>1, FS_RemoveElement
  <2> QED
    BY <2>3, <2>5, FS_EmptySet
<1>7. ASSUME NEW h \in Gens, ProcessDies(h) \/ CloseReturns(h) PROVE FALSE
  BY <1>1, <1>7 DEF ProcessDies, CloseReturns, ProcTyped
<1>8. CASE Retire
  <2>1. gcur \in Gens /\ gst' = RetiredState(gcur)
    BY <1>1, <1>8 DEF Retire, ProcTyped
  <2> QED
    BY <1>1, <2>1, RetireAdvances
<1>9. CASE Reconcile
  <2>1. CloseGens({h \in Gens : \/ gst[h] = "retired" /\ (grefs[h] = 0 \/ gproc[h] = "dead")
                                \/ gst[h] = "live" /\ gproc[h] = "dead"})
    BY <1>9 DEF Reconcile
  <2> QED
    BY <1>1, <1>2, <2>1
<1>10. ASSUME NEW busy \in BOOLEAN, CloseIdle(busy) PROVE FALSE
  <2>1. gidle \in Gens /\ (UNCHANGED gst \/ (grefs[gidle] = 0 /\ CloseGens({gidle})))
    BY <1>1, <1>10 DEF CloseIdle, StillIdle, ProcTyped
  <2> QED
    BY <1>1, <1>2, <2>1
<1>11. ASSUME NEW d \in Drainers, DrainBegins(d) PROVE FALSE
  BY <1>11 DEF DrainBegins, ProcIInv, DrainsBlock
<1>12. ASSUME \/ CloseAll \/ CloseAllReturns \/ CloseAllGivesUp
              \/ \E d \in Drainers : DrainReturns(d) \/ Unblock(d)
       PROVE  FALSE
  BY <1>12 DEF CloseAll, CloseAllReturns, CloseAllGivesUp, DrainReturns, Unblock, genVars
<1> QED
  BY <1>3, <1>4, <1>5, <1>6, <1>7, <1>8, <1>9, <1>10, <1>11, <1>12 DEF AgentProcNext, LeaseNext

\* "A leased process is never closed for idleness": only a drain or Close closes a working
\* process under a lease (supervisor.go, reconcile).
THEOREM LeasedIsKeptTheorem == AgentProcSpec => LeasedIsKept
<1>1. ProcIInv /\ [AgentProcNext]_gvars => [KeptInUse]_gvars
  BY NextKeepsInUse
<1> QED
  BY <1>1, ProcIInvariant, PTL DEF AgentProcSpec, LeasedIsKept, KeptInUse
=============================================================================
