-------------------------- MODULE BackgroundTasks --------------------------
(***************************************************************************)
(* Background tasks and the queue of a subagent.  The manager keeps a      *)
(* record per task; the goroutine that drives the task ends the record, a  *)
(* user may kill it, tools wait for it.  Messages to a busy subagent are   *)
(* queued by the coordinator and promoted one after the other.             *)
(*   internal/agent/background (manager.go, spawn_task.go, video_task.go,  *)
(*   managed_task.go, types.go), internal/agent/tool/subagent.go,          *)
(*   subagent_admission.go                                                 *)
(*                                                                         *)
(* Abstractions.  The tasks of one subagent, commands (videos are killed   *)
(* and completed the same way) and dependency installs.  The channel that  *)
(* is closed and replaced to wake waiters is a generation number.          *)
(***************************************************************************)
EXTENDS Naturals, Sequences, FiniteSets

CONSTANTS AgentTasks,  \* tasks of the subagent
          ExecTasks,   \* adopted commands
          DepTasks,    \* dependency installs
          TaskWaiters, \* wait_until calls
          NoTask       \* no task

BgTasks == AgentTasks \cup ExecTasks \cup DepTasks
Ended == {"completed", "failed", "killed", "unknown"}

ASSUME BackgroundAssumption ==
    /\ NoTask \notin BgTasks /\ "user" \notin BgTasks \cup {NoTask}
    /\ AgentTasks \cap ExecTasks = {} /\ AgentTasks \cap DepTasks = {} /\ ExecTasks \cap DepTasks = {}

VARIABLES
    bst,     \* bst[t]: Task.Status, "none" before the task and "removed" after Cleanup
    bstop,   \* bstop[t]: stopRequested
    bgen,    \* bgen[t]: generation of the changed channel
    bdrv,    \* bdrv[t]: where the goroutine of t is, its result, the task it promotes
    bstall,  \* bstall[t]: the stall watchdog and the stalled flag
    bagent,  \* the coordinator's state: runningTaskID, queue
    bslot,   \* who has the run of the subagent's thread
    bwait    \* bwait[w]: a wait_until call

bvars == <<bst, bstop, bgen, bdrv, bstall, bagent, bslot, bwait>>

BackgroundTypeOK ==
    /\ bst \in [BgTasks -> {"none", "queued", "running", "removed"} \cup Ended]
    /\ bstop \in [BgTasks -> BOOLEAN] /\ bgen \in [BgTasks -> 0..2]
    /\ bdrv \in [BgTasks -> [pc: {"no", "admit", "run", "release", "complete", "finish", "promote"},
                             res: Ended \cup {"none"}, next: BgTasks \cup {NoTask}]]
    /\ bstall \in [BgTasks -> {"no", "watch", "mark", "stalled"}]
    /\ bagent.running \in AgentTasks \cup {NoTask}
    /\ \A i, j \in DOMAIN bagent.queue : i # j => bagent.queue[i] # bagent.queue[j]
    /\ bslot \in AgentTasks \cup {NoTask, "user"}
    /\ bwait \in [TaskWaiters -> [pc: {"idle", "read", "sleep", "done"}, t: BgTasks \cup {NoTask},
                                  gen: 0..2, out: Ended \cup {"none", "stalled"}]]

NoDriver == [pc |-> "no", res |-> "none", next |-> NoTask]

BackgroundInit ==
    /\ bst = [t \in BgTasks |-> "none"] /\ bstop = [t \in BgTasks |-> FALSE]
    /\ bgen = [t \in BgTasks |-> 0]
    /\ bdrv = [t \in BgTasks |-> NoDriver]
    /\ bstall = [t \in BgTasks |-> "no"]
    /\ bagent = [running |-> NoTask, queue |-> <<>>]
    /\ bslot = NoTask
    /\ bwait = [w \in TaskWaiters |-> [pc |-> "idle", t |-> NoTask, gen |-> 0, out |-> "none"]]

DriverAt(t, pc) == bdrv' = [bdrv EXCEPT ![t].pc = pc]
\* signalChangedLocked
Signal(t) == bgen' = [bgen EXCEPT ![t] = @ + 1]
-----------------------------------------------------------------------------
(* The driver of a subagent's task *)

\* Mutant: a message counts as the first when the thread has no run yet.
AgentBusyBySlot == bslot # NoTask

\* submitAgentTask: state.runningTaskID
AgentBusy == bagent.running # NoTask

\* submitAgentTask, under the coordinator's lock: the task runs at once or is queued.
SubmitAgentTask(t) ==
    /\ t \in AgentTasks /\ bst[t] = "none"
    /\ IF AgentBusy
       THEN /\ bst' = [bst EXCEPT ![t] = "queued"]
            /\ bagent' = [bagent EXCEPT !.queue = Append(@, t)]
            /\ UNCHANGED bdrv
       ELSE /\ bst' = [bst EXCEPT ![t] = "running"]
            /\ bagent' = [bagent EXCEPT !.running = t]
            /\ DriverAt(t, "admit")
    /\ UNCHANGED <<bstop, bgen, bstall, bslot, bwait>>

\* A user writes to the subagent's own thread, and that run ends.
UserRun ==
    /\ bslot \in {NoTask, "user"}
    /\ bslot' = IF bslot = NoTask THEN "user" ELSE NoTask
    /\ UNCHANGED <<bst, bstop, bgen, bdrv, bstall, bagent, bwait>>

\* admitAgentRun: a busy thread refuses, and the record is closed all the same.
AdmitAgentRun(t) ==
    /\ bdrv[t].pc = "admit"
    /\ IF bslot = NoTask
       THEN bslot' = t /\ DriverAt(t, "run")
       ELSE bdrv' = [bdrv EXCEPT ![t].pc = "complete", ![t].res = "failed"] /\ UNCHANGED bslot
    /\ UNCHANGED <<bst, bstop, bgen, bstall, bagent, bwait>>

\* runSubagentTask ends; a run that was cut short by a stop counts as killed.
AgentRunEnds(t, res) ==
    /\ bdrv[t].pc = "run" /\ t \in AgentTasks
    /\ bdrv' = [bdrv EXCEPT ![t].pc = "release", ![t].res = res]
    /\ UNCHANGED <<bst, bstop, bgen, bstall, bagent, bslot, bwait>>

\* Mutant: the slot is not released here.
ReleaseSlotLater(t) ==
    /\ bdrv[t].pc = "release"
    /\ DriverAt(t, "complete")
    /\ UNCHANGED <<bst, bstop, bgen, bstall, bagent, bslot, bwait>>

\* finishRun, before the record is closed.
ReleaseSlot(t) ==
    /\ bdrv[t].pc = "release"
    /\ bslot' = NoTask
    /\ DriverAt(t, "complete")
    /\ UNCHANGED <<bst, bstop, bgen, bstall, bagent, bwait>>

\* Mutant: the outcome is recorded whatever the record says.
OutcomeRecordedBlind(t) == bst' = [bst EXCEPT ![t] = bdrv[t].res] /\ Signal(t)

\* completeTask, CompleteAgentTask, CompleteVideoTask, completeManaged: a killed task
\* stays killed.
OutcomeRecorded(t) ==
    IF bst[t] = "killed" \/ bst[t] = "removed" THEN UNCHANGED <<bst, bgen>>
    ELSE bst' = [bst EXCEPT ![t] = bdrv[t].res] /\ Signal(t)

CompleteTask(t) ==
    /\ bdrv[t].pc = "complete"
    /\ OutcomeRecorded(t)
    /\ DriverAt(t, IF t \in AgentTasks THEN "finish" ELSE "no")
    /\ bstall' = [bstall EXCEPT ![t] = IF @ = "watch" THEN "no" ELSE @]
    /\ UNCHANGED <<bstop, bagent, bslot, bwait>>

\* Mutant: a message that was killed in the queue ends the promotion.
PromotableFirst(q) == IF q # <<>> /\ bst[Head(q)] = "killed" THEN <<>> ELSE q

\* The queue from the first message that was not killed.
Promotable(q) ==
    LET alive == {i \in DOMAIN q : bst[q[i]] # "killed"} IN
    IF alive = {} THEN <<>>
    ELSE SubSeq(q, CHOOSE i \in alive : \A j \in alive : i <= j, Len(q))

\* finishAgentRequest, under the coordinator's lock.
FinishAgentRequest(t) ==
    LET q == Promotable(bagent.queue) IN
    /\ bdrv[t].pc = "finish"
    /\ IF q = <<>>
       THEN /\ bagent' = [running |-> NoTask, queue |-> <<>>]
            /\ bdrv' = [bdrv EXCEPT ![t] = NoDriver]
       ELSE /\ bagent' = [running |-> Head(q), queue |-> Tail(q)]
            /\ bdrv' = [bdrv EXCEPT ![t].pc = "promote", ![t].next = Head(q)]
    /\ UNCHANGED <<bst, bstop, bgen, bstall, bslot, bwait>>

\* MarkAgentTaskRunning looks at the record again: only a queued task starts.
MayStart(n) == bst[n] = "queued"

\* A task that was killed (or removed) meanwhile hands on to the one behind it.
MarkAgentTaskRunning(t) ==
    LET n == bdrv[t].next IN
    /\ bdrv[t].pc = "promote"
    /\ IF MayStart(n)
       THEN /\ bst' = [bst EXCEPT ![n] = "running"] /\ Signal(n)
            /\ bdrv' = [bdrv EXCEPT ![t] = NoDriver, ![n] = [NoDriver EXCEPT !.pc = "admit"]]
       ELSE /\ bdrv' = [bdrv EXCEPT ![t].pc = "finish", ![t].next = NoTask]
            /\ UNCHANGED <<bst, bgen>>
    /\ UNCHANGED <<bstop, bstall, bagent, bslot, bwait>>
-----------------------------------------------------------------------------
(* Commands and installs *)

\* SpawnAdopt, SpawnManaged
StartTask(t) ==
    /\ t \in ExecTasks \cup DepTasks /\ bst[t] = "none"
    /\ bst' = [bst EXCEPT ![t] = "running"]
    /\ DriverAt(t, "run")
    /\ bstall' = [bstall EXCEPT ![t] = IF t \in ExecTasks THEN "watch" ELSE "no"]
    /\ UNCHANGED <<bstop, bgen, bagent, bslot, bwait>>

\* The command ends, its deadline passes, or its stream breaks; a stopped install was
\* killed only if it says that it was cancelled.
TaskResult(t, res) ==
    /\ bdrv[t].pc = "run" /\ t \notin AgentTasks
    /\ res = "killed" => t \in DepTasks /\ bstop[t]
    /\ bdrv' = [bdrv EXCEPT ![t].pc = "complete", ![t].res = res]
    /\ UNCHANGED <<bst, bstop, bgen, bstall, bagent, bslot, bwait>>

\* stallWatchdog: the status is read, and the flag set in another critical section.
WatchdogReads(t) ==
    /\ bstall[t] = "watch"
    /\ bstall' = [bstall EXCEPT ![t] = IF bst[t] = "running" THEN "mark" ELSE "no"]
    /\ UNCHANGED <<bst, bstop, bgen, bdrv, bagent, bslot, bwait>>

MarkStalled(t) ==
    /\ bstall[t] = "mark"
    /\ bstall' = [bstall EXCEPT ![t] = "stalled"]
    /\ Signal(t)
    /\ UNCHANGED <<bst, bstop, bdrv, bagent, bslot, bwait>>
-----------------------------------------------------------------------------
(* Kill, Cleanup, WaitForSessionTask *)

\* Kill: a running subagent or install is asked to stop, everything else is killed now.
Kill(t) ==
    /\ bst[t] \in {"running", "queued"}
    /\ IF bst[t] = "running" /\ t \in AgentTasks \cup DepTasks
       THEN /\ ~bstop[t]
            /\ bstop' = [bstop EXCEPT ![t] = TRUE]
            /\ UNCHANGED <<bst, bgen>>
       ELSE /\ bst' = [bst EXCEPT ![t] = "killed"]
            /\ Signal(t)
            /\ UNCHANGED bstop
    /\ UNCHANGED <<bdrv, bstall, bagent, bslot, bwait>>

\* Cleanup of records that ended a day ago; a wait is limited to minutes.
Cleanup(t) ==
    /\ bst[t] \in Ended
    /\ \A w \in TaskWaiters : bwait[w].t = t => bwait[w].pc = "done"
    /\ bst' = [bst EXCEPT ![t] = "removed"]
    /\ UNCHANGED <<bstop, bgen, bdrv, bstall, bagent, bslot, bwait>>

WaitUntil(w, t) ==
    /\ bwait[w].pc = "idle" /\ bst[t] \notin {"none", "removed"}
    /\ bwait' = [bwait EXCEPT ![w].pc = "read", ![w].t = t]
    /\ UNCHANGED <<bst, bstop, bgen, bdrv, bstall, bagent, bslot>>

\* Mutant: the channel is read after the lock is released, so its successor may be.
ChannelLate(t) == bgen[t] + (IF bst[t] = "running" THEN 1 ELSE 0)

\* changeChanLocked, in the critical section that reads the status.
ChannelOf(t) == bgen[t]

WaiterReads(w) ==
    LET t == bwait[w].t
        stalled == bstall[t] = "stalled" /\ bst[t] = "running" IN
    /\ bwait[w].pc = "read"
    /\ bwait' = [bwait EXCEPT ![w] =
         IF bst[t] \in Ended THEN [@ EXCEPT !.pc = "done", !.out = bst[t]]
         ELSE IF stalled THEN [@ EXCEPT !.pc = "done", !.out = "stalled"]
         ELSE [@ EXCEPT !.pc = "sleep", !.gen = ChannelOf(t)]]
    /\ UNCHANGED <<bst, bstop, bgen, bdrv, bstall, bagent, bslot>>

WaiterWakes(w) ==
    /\ bwait[w].pc = "sleep" /\ bgen[bwait[w].t] > bwait[w].gen
    /\ bwait' = [bwait EXCEPT ![w].pc = "read"]
    /\ UNCHANGED <<bst, bstop, bgen, bdrv, bstall, bagent, bslot>>

\* The wait budget ends.
WaiterLeaves(w) ==
    /\ bwait[w].pc = "sleep"
    /\ bwait' = [bwait EXCEPT ![w].pc = "done"]
    /\ UNCHANGED <<bst, bstop, bgen, bdrv, bstall, bagent, bslot>>

AgentDriver(t) ==
    \/ SubmitAgentTask(t) \/ AdmitAgentRun(t) \/ ReleaseSlot(t)
    \/ \E res \in {"completed", "failed", "killed"} : AgentRunEnds(t, res)
    \/ FinishAgentRequest(t) \/ MarkAgentTaskRunning(t)
PlainDriver(t) ==
    \/ StartTask(t) \/ WatchdogReads(t) \/ MarkStalled(t)
    \/ \E res \in Ended : TaskResult(t, res)
Waiter(w) ==
    \/ \E t \in BgTasks : WaitUntil(w, t)
    \/ WaiterReads(w) \/ WaiterWakes(w) \/ WaiterLeaves(w)

BackgroundNext ==
    \/ \E t \in BgTasks : AgentDriver(t) \/ PlainDriver(t) \/ CompleteTask(t) \/ Kill(t) \/ Cleanup(t)
    \/ UserRun
    \/ \E w \in TaskWaiters : Waiter(w)

BackgroundSpec == BackgroundInit /\ [][BackgroundNext]_bvars
-----------------------------------------------------------------------------
(* Properties *)

\* manager.go, Kill ("its runtime outcome is the single authority"): however a kill, a
\* result, a stall and a promotion race, a task that has ended keeps its outcome.
TaskEndsOnce ==
    [][\A t \in BgTasks : bst[t] \in Ended => bst'[t] \in {bst[t], "removed"}]_bvars

\* WaitForSessionTask: a tool that waits for a task never sleeps on after its end.
WaitersHearTheEnd ==
    \A w \in TaskWaiters :
        (bwait[w].pc = "sleep" /\ bst[bwait[w].t] \in Ended) => bgen[bwait[w].t] > bwait[w].gen

\* subagent.go, finishAgentRequest and MarkAgentTaskRunning: only a task whose record is
\* running, and which the coordinator counts as running, executes; a message that was
\* killed in the queue never does.
OnlyRunningTaskRuns ==
    \A t \in AgentTasks : bdrv[t].pc \in {"admit", "run"} => bst[t] = "running" /\ bagent.running = t

\* subagent.go, runAgentRequest ("Release the thread's slot before the queue promotes the
\* next message, or the successor's admission finds this run still active"): a task of
\* the subagent is never refused because of another one.
SuccessorIsNotRefused ==
    \A t \in AgentTasks : bdrv[t].pc = "admit" => bslot \in {NoTask, "user"}

\* subagent.go, finishAgentRequest: a message that waits in the queue has a task that
\* will promote it; when nothing runs, nothing waits.
NoMessageIsStranded ==
    (\A t \in AgentTasks : bdrv[t].pc = "no") =>
        bagent.running = NoTask /\ \A t \in AgentTasks : bst[t] # "queued"

\* The records of the manager agree with what its goroutines and waiters do.
TaskInv == BackgroundTypeOK /\ OnlyRunningTaskRuns /\ WaitersHearTheEnd

\* Every message for a subagent is run or killed: it is not refused because of its
\* predecessor and not left in the queue.
MessagesAreServed == SuccessorIsNotRefused /\ NoMessageIsStranded
=============================================================================
