# Memoh: specifications and proofs of its session runtime and services

Memoh answers chat turns with agents. A turn becomes a *run*: it is admitted
durably, owned by one server process, may stop for a user's decision, may be
steered while it works, and ends exactly once, also when processes, Redis or the
database fail half way. Around the runs stand services with concurrency of their
own: background tasks, channel connections, agent processes, bot workspaces. This
directory specifies both, model-checks them with TLC on small instances, and proves
with TLAPS what the ledger, the processes that work on it, history resets, decisions
and the services promise, for instances of any size.

Paths below are relative to `src/internal/agent/` unless they start with `db/`,
`docs/` or `internal/`.

## 1. The system

### Parts that carry the logic

| Part | State | Operations | Correct when |
| --- | --- | --- | --- |
| Run ledger (`runtime/session/ledger`, `db/postgres/queries/session_runs.sql`) | rows of `session_runs`; per session the turn counter, fencing token, reset lease; the token sequence | admit, draw token, claim, wait, resume, request abort, prepare, finalize, reset lease, orphan and stale-generation queries | one active run per session and it is the newest turn; one run per invocation; the first durable proposal is the outcome |
| Persistence fence (`internal/runtimefence`, `internal/chat/message/step_commit.go`) | the session's token, the message history | activate, reclaim a waiting run, commit a step | the history follows the turn order however late a fenced-out owner writes |
| Runtime manager (`runtime/session/manager.go`, `admit.go`, `finalize.go`, `control.go`, `commands.go`) | a local control per run, its lease renewal | admit, reserve, execute, park, resume, abort, finish, lose ownership, shut down | the live view never contradicts the ledger; a run that was told to stop stops |
| Redis live backend (`redis.go`, `redis_liveness.go`) | live view, run reference (lease), lease index, incarnation marker | start, update, renew, release, list expired leases | an owner is always findable by the reaper |
| Reaper and recovery (`reaper.go`, `recovery.go`) | the position of a pass | expired leases, stale incarnations, orphaned admissions, recovery of waiting runs | what a vanished process left ends or finds a new owner; live owners are spared |
| Input queues (`live_queue*.go`, `redis_live_queue.go`, `application/queue_*.go`) | two Redis documents per session; a pending claim per executor; a starter per process | enqueue, promote, cancel, claim, apply, release, reject, close, kick, start a follow-up | typed input enters the history at most once, not after it was withdrawn, and is not forgotten |
| History reset (`reset.go`, `internal/runtimefence/reset.go`, `db/postgres/queries/messages.sql`) | a tokenised lease per session and per bot, the runs to drain | begin, renew, drain, fence and finalize orphans, delete, release | nothing of the old history writes into, or is shown with, the new one |
| Routed commands (`commands.go`) | published commands and replies, the executions of a process, stored results | dispatch, resend, execute, answer, time out | a command takes effect at most once, and its caller is told what happened |
| Decisions (`decision`, `application/runtime_decision*.go`, `service_tool_approval.go`) | request rows, continuation checkpoints | resolve, commit an answer, run the tool, continue, cancel, recover | one answer, one run of the tool, no answer left without a continuation |
| Output of a continuation (`decision_output.go`) | a log in Redis, its marker, one reader | append, close, claim, read | one channel gets the whole output, in order |
| Live view (`manager.go` Subscribe, `state.go`) | document with epoch and sequence, buffers per subscriber | commit, publish, forward, read again | a client never shows a torn view and catches up |
| Background tasks (`background`, `tool/subagent*.go`) | task records, queue of a subagent, thread slot | start, kill, complete, promote, wait | a task ends once, its waiters hear it, queued messages are served |
| Channel connections (`internal/channel`) | stored configuration, connection table | refresh, upsert, status, delete, stop | every running connection is in the table; the table follows the configuration |
| Agent processes (`runtime/external/agentproc`) | generations of a process, leases, drains | lease, start, release, retire, idle close, drain, shut down | a leased process is kept, a drained key has none |
| Bot workspaces (`internal/botworkspace`) | desired and observed state, row lease, bot status | set intent, claim, drive, observe, cancel a removal | one server drives, for the current intent; "absent" means removed |

### How they interact

`Manager.Admit` writes the ledger, draws a token, claims the run with it, makes
the token the session's fence and only then reserves the run in Redis. The owner
renews its lease and commits steps under the fence. A decision parks the run; its
answer resumes it. At the end the outcome is first *proposed* and *finalized* in
the ledger, then shown in the live view, then released; the terminal observer
closes the steer queue and starts a follow-up. A leader process ticks the reaper,
which looks for expired leases, rows of an older Redis incarnation and admissions
nobody claimed. The answer to a decision is given to any server, routed to the
owner, committed under its token and continued there; what it says is read back
through a log. A history reset keeps new runs out by its lease, waits for the
active ones, deletes and moves the fence of the session. In the ledger and the
queues everything but PostgreSQL is volatile. The services below the line (tasks,
channels, agent processes, workspaces) share no state with one another.

### What is hard

Every arrow above is a step between two stores, so a process may die, be
overtaken or be answered too late at each. Leases expire under slow owners;
several processes may believe to be the reaper; Redis may be replaced; the queue
documents are written against a live view that is read but not watched; one
trigger may reach two processes; replies are lost after the effect; the services
call platforms, backends and processes outside their locks. `PROJECT.json` lists each of these hazards at
its line with the properties aimed at it.

### Parts around it

Channel adapters, HTTP handlers, clients, providers, storage, container engines,
network, accounts, memory and backup either are I/O, CRUD or data transformation,
or reach the state above only through it. They are listed in `PROJECT.json` with
the reason why they have no model (see also section 7).

## 2. The modules

```
RunOutcome            what users are promised about runs (abstract)
  ^ implemented by
SessionLedger         the durable ledger, arbitrary callers (and HistoryReset)
  ^ extended by       ^ extended by        ^ extended by
RunLifecycle          HistoryReset         SessionLedgerProofs
  the processes         clearing history     its theorems
                        ^ extended by        ^ extended by
                      HistoryResetProofs, which adds the resets to the ledger's proof
  ^ extended by
RunLifecycleProofs, which adds the processes to the ledger's proof

LiveQueue             the input queues; runs as RunLifecycle presents them
Decisions             answers to a parked run, routed commands, continuations
DecisionOutput        what a continuation streams back
LiveView              how clients follow the live view
BackgroundTasks, ChannelConnections, AgentProcesses, BotWorkspace

LiveQueueProofs, DecisionsProofs
                      the theorems of the module each is named after
StreamProofs          those of LiveView and DecisionOutput
AgentServicesProofs   those of BackgroundTasks and AgentProcesses
ReconcilersProofs     those of ChannelConnections and BotWorkspace

MCSessionLedger, MCRunLifecycle, MCLiveQueue, MCDecisions    instances
MCLifeScenarios, MCSessionScenarios, MCServices              several instances
```

Definitions whose comment starts with "Mutant:" are plausible mistakes in the
definition that follows them; they are used to see that a property notices, and
no specification refers to them. Where a property is a conjunction (`LifeInv`,
`QueueInv`, `TaskInv`, ...), `PROJECT.json` lists one mutant for it and the modules
keep the ones that were found to break its other conjuncts.

### SessionLedger

One action per PostgreSQL transaction; guards are the `WHERE` clauses and the
early returns around them. `runs[r]` is the row, `hist[s]` the order in which
runs persisted steps. Callers are arbitrary: any process may present any token
ever drawn, so every stale or duplicated call is covered. `RunOutcome` is the
same thing without owners, tokens and processes: a turn opens, writes, may be
sealed with a verdict and closes with it; the history of a session may be deleted
while none of its turns is live. `ImplementsRunOutcome` maps a durable proposal to
"sealed" and a terminal state to "closed".

### RunLifecycle

Extends the ledger with the processes. `ctl[p][r]` is the position of process `p`
in the code for run `r`, `rp[p]` the position of its reaper pass; `view`, `ref`,
`index` and `livegen` are Redis. Every action is one transaction of one store or
one local step. The names are those of the code (`ClaimRun`, `ActivateFence`,
`AbandonClaim`, `LoseOwnership`, `HandOff`, `Reclaim`, `Rereserve`, ...). Time is
the nondeterministic `LeaseExpire`; a "partition" lets a lease expire under an
owner that is still working. `LedgerSteps` states that every step is a step of
`SessionLedger`, which is how the theorems carry over.

Left out: grace periods and batch sizes (they only delay a pass), the memory
backend (no leases), history reset (`HistoryReset`), the transport of an abort to
another process; an abort that finds a run claimed and not yet reserved is a
failed reservation. `LifeInv` is the conjunction of the invariants of the module.

### LiveQueue

One session. `steers`/`closed` and `follows`/`trigger` are the two Redis
documents, each written by one `WATCH`/`MULTI` transaction and so one action,
except admissions: they read the live view unwatched, so `ReadForSteer` and
`ReadForFollowUp` read, and a later action commits unless the document was
written in between (`SteersWritten`, `FollowsWritten`). `exec[t]` is the step
coordinator of the executor that drew token `t` (persist, apply, claim the
next), `start[p]` the follow-up starter of a process, with its one slot for a
trigger that arrives meanwhile. Runs are abstracted to what `RunLifecycle`
promises: one at a time, one token at a time, a new token when a waiting run is
recovered. The executor of an ended run goes on until a store refuses it.
`entered` counts how often an input became part of the history.

Left out: payload edits, positions (users may reorder, so a claim takes any
accepted item), replay of a repeated enqueue, compaction of ended items, steering
of external drivers, failure of `CloseSteerRun` itself, death of a process with a
starter in it (the queues are documented to be volatile).

### HistoryReset

Extends the ledger by the callers of `beginHistoryReset`. `lease[k]` is the lease of
a session or of the bot with its token and whether it has expired; `resetting` of the
ledger is derived from it, so admissions and claims see it. A reset reads the active
runs, tells their owners (who are the ledger's arbitrary callers) or finalizes those
nobody owns, reads again, deletes under the validated lease and releases by token.
`gone[s]` is the turn at which the history of `s` was last deleted; `hid` are the rows
marked `history_reset`, which with the fence decide what `GetLatestSessionRun`
reports. Left out: the live mirror of the lease ("never a correctness signal"), the
restart of projections, resume intents, and the closing of agent processes.

### Decisions

One parked run and its requests. `row[d]` and `run` are PostgreSQL, `ref` and `res[i]`
Redis, `net` the Pub/Sub messages in flight, `adm[p]` and `exec[p]` the command loop
of a process with its limit and its deduplication, `call[c]` a response at the server
that received it, `cont[p][d]` the continuation. A response is answered from the
stored result, resolved against the rows, sent, sent again, or executed locally;
the owner commits the answer and the run's state in one transaction
(`session_runs.sql:265`), marks the approved tool before it is invoked, and continues
or ends the run. Faults: crash, expired lease, abort, time-out of the caller, a
result that cannot be stored, a commit whose outcome stays unknown.

### DecisionOutput and LiveView

The two ways in which Redis feeds readers. In `DecisionOutput` one writer appends
numbered events, a failure event and a closing mark to a list with limits and an
expiry; readers claim, read from a cursor, sleep and look at the snapshot. In
`LiveView` an update is committed to the document and published afterwards;
publications are lost, overtake each other and overflow a bounded channel, whose
sender replaces the oldest event by a "dropped" mark in two steps. A subscription
that reads the view again reads two stores one after the other (`ReadDocument`,
`ReadLedger`), and either may have changed in between or fail. A document that cannot
be read leaves the client as it is; a ledger that cannot be read is only logged
(`manager.go:2233`), and the client is sent the document as if the session had no
run (`LedgerAnswers`). `vsync` records which of the two a subscription has read since
they last changed, and `ReconciledIsCurrent` says what its client then shows.

### BackgroundTasks, ChannelConnections, AgentProcesses, BotWorkspace

Each splits an operation where the code leaves a lock or waits for I/O, and nowhere
else. `BackgroundTasks` has a record per task, its driving goroutine, the subagent's
coordinator and the generation of the channel that wakes waiters.
`ChannelConnections` runs refreshes and user operations on one configuration.
`AgentProcesses` has the generations of one key, counted leases, drains and
shutdown. `Close` returns when everything is gone (`CloseAllReturns`) or when its
context ends (`CloseAllGivesUp`): then processes may still be closing or starting,
and what holds is that each of them is on its way out (`ClosedIsEnding`).
`BotWorkspace` has the row, the passes and `Observe` calls of the servers,
a `CancelRemoval` and the container, which users start and stop. It assumes, as the
code's constants do (steps of 15 seconds, a lease of 2 minutes that is renewed while
the backend works), that the lease of a live pass does not expire.

## 3. What TLC checks

| Run | Instance | Shows |
| --- | --- | --- |
| `ledger` | two scenarios: the bare ledger with 2 runs, 2 invocations, 3 tokens, 2 incarnations; 2 history resets of session and bot over the same runs, expiring leases | the ledger's invariant and its parts, ownership only moves forward; a reset that may delete has no active run, and what it deleted is not written, taken up or reported again; both implement `RunOutcome` |
| `life_faults` | 1 run, 2 tokens, 2 incarnations of Redis; abort, park, shutdown; crashes, failing stores | every step is a ledger step, a live outcome is the durable one, a recorded abort is honoured |
| `life_guard` | three scenarios: leases expire under the owners of 2 runs; abort against shutdown and failing stores; two overlapping reapers that may die, 3 tokens | an observable run is fenced, whatever the view shows as active is indexed, a parked or ending run stays findable, only a claim that was never reserved can be stranded, live owners are not declared lost |
| `life_ends` | fair; abort, crash, expiring leases | admitted runs are picked up, reserved and stopped runs end, ended runs leave the view |
| `session` | three scenarios: steers of 2 runs under failing stores and a takeover; 2 processes share 2 follow-ups, one of which cannot start; 1 process with steers and a follow-up | claims are never in doubt, applied means persisted, no steer outlives its run, input enters once but for two named exceptions; served by one process, it enters once without exception, never after withdrawal, and a session at rest has nothing queued |
| `decisions` | 2 servers, 2 requests, 2 control ids, 2 responses, 2 tokens, one kind of fault per behaviour | "applied" is durable, the tool runs at most once, an answered run is carried out |
| `services` | the six service modules, one at a time | the promises of section 2's last two headings |
| `life_stranded`, `life_abort_parked`, `queue_withdrawn`, `workspace_shared`, `workspace_stranded` | | the findings below |

Scenarios. A run that names scenarios or services has one initial state for each and
a variable that never changes, so that each behaviour stays in one of them; the state
spaces add up and every one is explored completely. A scenario is the same
module instantiated with a part of the constants; what does not take part stays in its
initial state, and the `VIEW` of `services` leaves it out of the fingerprint for that
reason.

Restrictions beyond the constants, all of them over steps that would only rename what
is alike or repeat what another instance shows: things that are alike begin in a fixed
order (`PairInOrder`, `TasksInOrder`, `OpsInOrder`);
responses to different requests are only sent under one control id and without faults
(`ResponsesMeet`); one `Observe` or `CancelRemoval` at a time in `services`
(`OneOnlooker`; `workspace_shared` has no such limit); at most one bot-wide reset,
and owners end their runs in one way while histories are reset (`ResetRestriction`).

Why the bounds are enough. The protocol is per session and per run, so one
session is modelled; two runs are needed only where an earlier run's owner meets
a later one (`ledger`, the takeover scenario, the queues, the resets). Two processes
give an owner and a successor, and three tokens an owner, a successor and a second
recovery, which is the longest chain in which a late party can be two owners behind.
One persisted step per run suffices for the order of the history; two incarnations
suffice for "an older one". Two resets are enough for one whose lease expired to meet
its successor, in either scope. Two responses meet each other on a request; a second
control id tells a retry from a rival. One event more than the buffer holds makes it
overflow (`ViewBuffer = 1`). A continuation emits as many events as its log takes
(`OutEvents = OutMaxEvents`), so that complete outputs occur; what exceeds the log
here is the failure event, and `OutputTheorem` and `CompleteTheorem` cover an output that
is itself too long; three messages to a subagent give one that runs, one that
is promoted and one that waits; three channel operations give two that race and one
that observes the damage. Deadlock is not checked: the system rests once its
runs, calls, resets and operations have ended and the bounds are used up, and that it
does not rest earlier is what `life_ends`, `AloneServes` and `MessagesAreServed` say.

Fairness (`life_ends`, `life_abort_parked`): a step a live process is ready to
take is taken (it is straight-line code), an execution returns, a lease nobody
renews expires and its late owner notices (timers), and the reaper ticks. Nothing
is assumed about users, about the order of processes, or that a crash does not
happen; at least one process stays up.

## 4. What is proved

The theorems hold for every value of the constants that satisfies the named
assumptions: any number of sessions, runs, processes, requests, responses, tasks,
operations, generations and faults. TLC evaluates the assumptions in the runs and
has checked every inductive invariant below on the instances of section 3.

| Module | Theorems | Assumes |
| --- | --- | --- |
| `SessionLedgerProofs` | `LedgerInvariant`, `ActiveRunTheorem`, `HistoryTheorem`, `ProposalTheorem`, `OwnershipTheorem`, `LedgerImplementsRunOutcome` | `NoneAssumption`: the null value is not an identity; `BoundAssumption`: the bounds are naturals |
| `HistoryResetProofs` | `ResetTheorem`, `ForgottenTheorem`, `ResetImplementsRunOutcome` | the same, and that the scopes resets are asked for are sessions or the bot (`ResetScopes \subseteq Scopes`) |
| `RunLifecycleProofs` | `LedgerStepsTheorem`, `LifeImplementsRunOutcome`, `DurableTheorem`, `AbortTheorem`, `FenceTheorem`, `ShownTheorem`, `LifeTheorem`, `IndexedTheorem`, `SparesTheorem` | the same as the ledger and `LifeAssumption`: there is a first incarnation of the live backend and the bound counts incarnations; the last three theorems also that it is not replaced (`"flush" \notin Faults`), since a replacement breaks them (section 5) |
| `LiveQueueProofs` | `QueueTheorem`, `AppliedTheorem`, `NoDeadSteerTheorem`, `SettledTheorem`, `ConsumedOnceTheorem`, `AloneWithdrawnTheorem`, `AloneEntersOnceTheorem`, `AloneDrainsTheorem` | `QueueAssumption`: the null value is not an identity, steers and follow-ups are not the same items, natural bounds; the last three also one process, since a second one breaks them (run `queue_withdrawn`, section 5), `AloneEntersOnceTheorem` also no takeover of a waiting run, and `AloneDrainsTheorem` one follow-up and a live backend that refuses no call |
| `DecisionsProofs` | `DecisionsTheorem`, `ToolTheorem`, `CarriedOutTheorem` | `DecisionsAssumption`: natural bounds, at least one process, a run that is parked on at least one request, a null value that is none of the others |
| `StreamProofs` | `ViewTheorem`, `CatchesUpTheorem`, `OutputTheorem`, `CompleteTheorem` | `ViewAssumption`, `OutputAssumption`: buffers have room for an event, bounds are naturals, faults are among those listed |
| `AgentServicesProofs` | `TaskTheorem`, `ServedTheorem`, `EndsOnceTheorem`, `ProcessTheorem`, `LeasedIsKeptTheorem` | `BackgroundAssumption`: the three kinds of tasks are disjoint; `AgentProcessAssumption`: finitely many leases |
| `ReconcilersProofs` | `ConnectionTheorem`, `SettlesTheorem`, `IntentTheorem`, `DrivesTheorem`, `WorkspaceTheorem` | `ChannelAssumption`, `WorkspaceAssumption`: natural bounds, "no connection" and "no server" are not one; the last two also that only the loops observe (`"observe" \notin WsUsers`), since an `Observe` for a user breaks them (run `workspace_shared`) |

### SessionLedger

None of the invariants is inductive alone. `ActiveRunIsNewestTurn` needs
`RowsNumbered` (positions in use are below the counter, so a new turn is the
newest); `HistoryInTurnOrder` needs `HistoryOfSession` and `ActiveRunIsNewestTurn`
(the writer is active, so nothing later was written); `ProposalDecides` needs
`ProposalEndsWork` (a row with a proposal never goes back to work); tokens need
`TokensDrawn`. `LedgerInv` is their conjunction. Most operations rewrite one
active row and leave its identity alone: `RowStep` is that shape,
`RowStepKeepsStructure` shows once that it keeps the structural half, and one
lemma per group of operations shows that they have the shape.

`OwnershipAdvances` follows step by step from the same invariant (`Advance`).
The refinement is proved along the mapping of `ImplementsRunOutcome`: an admission
opens a turn, a persisted step writes, and every other operation on a row has the
shape `Outward`, which seals or closes the turn or is not seen. That the sealed
verdict is the one a turn closes with is `ProposalDecides`; that the turn that writes
is the newest is `ActiveRunIsNewestTurn`; that no other is live when one opens is the
guard of the admission.

### RunLifecycle

Five invariants, each resting on the ones before:

- *Rows and what is said of them* (`LocalInv`). Every control of an owner, pass of a
  reaper, view and index entry is about one row and says something of it that stays
  true while the row grows: its token does not fall, a claimed run is not
  "accepted" again, an ended run keeps its outcome (`RowGrows`). So a step has to be
  looked at only where it writes. It also shows that every step is one operation of
  the ledger or none (`Move`), which is `LedgerSteps`, and that no view shows an
  outcome the ledger does not have.
- *The fence* (`FenceInv`). Whatever acts under the token of an active run was let
  through the fence with it (`Fenced`); the difficult party is a claim whose run was
  ended before it reached the fence and that now presents an old token beside a newer
  run. `ClaimsBehind` says that its token is behind every later one. The reservation
  of a run stays indexed through renewal and recovery (`RefIndexed`).
- *What the view shows* (`ShownInv`). An entry of the lease index goes for two reasons
  only: its pass has taken the run off the view or moved it to a new token. That a token
  which is shown keeps its entry (`ShownIsIndexed`) therefore needs that a token somebody
  may still reserve with is new: it is in no entry, no pass has picked it up from one
  (`FreshBids`), and nobody else will reserve with it (`BidsApart`). It also needs that the
  lease of a run that is shown is the one shown (`RefShown`), so that a pass which finds no
  lease reconciles the right token before it drops the entry (`ReleasesApart`).
- *Parked and ending runs* (`ParkedInv`). Who holds a run has its index entry, a run
  that is parked or whose end was prepared has one, and a pass that is about to take an
  entry of a run that is not over leaves a newer one (`ReleaseLeaves`): this is what
  overlapping recoveries could break. `IndexedTheorem` says it of the step: a run that
  was once reserved is found until it has ended. So the finding `life_stranded` is the
  whole of what can be stranded (`OnlyClaimsStrand`): a run whose claimer died before
  the reservation. `StaysIndexed` is not among the properties of a run; TLC has checked
  it on the three scenarios of `life_guard`.
- *Owners* (`OwnerInv`). Who presents the row's token is the row's owner, a recovery
  that moved the token is the only one with it (`RecoveryApart`), and a pass that is
  about to declare a running run lost found no lease under its token, and nobody can
  get one under it any more (`MarkSpares`).

The steps that move neither the ownership of a run nor its view are `Quiet` and are
treated at once; `Moves` lists the others (`NextMoves`).

The first three hold under any faults, the other two as long as Redis keeps its
incarnation. This is a limit of the code, not of the proof: TLC has the
counterexamples. That every step is one of the ledger carries the refinement over:
`LifeImplementsRunOutcome` says that owners, callers and reapers together implement
`RunOutcome`.

### HistoryReset

A step of the ledger keeps `LedgerInv` by the theorem above, so only the resets are
left. `ResetIInv` adds that the sessions under reset are those of unexpired leases,
that those leases are apart, and `PastEnded`: a run from before a deletion has ended
and is marked or behind the fence. That last fact is why `ClearedIsForgotten` holds
whatever a late owner presents. `DrainedStaysDrained`, part of `ResetInv`, is what
makes a deletion a step of `RunOutcome`: no turn it clears is live.

### LiveQueue

`QueueIInv` makes the queue invariants inductive without counting anything:

- *Admissions* (`SteersOk`). What an admission read of the view may be old, but while
  it is pending no document it read has been written, and the end of a run is observed by
  such a write. So the run it read has not been seen to end, and the
  follow-up it promotes is still accepted. That is why `NoDeadSteer` holds however
  late an admission commits.
- *Claims* (`OneClaimPerRun`, `FollowsOk`, `StartersOk`). A trigger names the item that
  was claimed for it, and a claimed item its trigger; a release needs the number of the
  claim, so a starter that comes late frees nothing that was claimed again.
- *Steps* (`RunsOk`, `ExecsOk`). The view shows a live run under the token of its
  executor, and what an executor has persisted is in the history, so what it shows as
  applied afterwards is, too.

That an item which has ended is not edited again (`SettledStays`) follows from the
same invariant, step by step. No run checks it; TLC has on the scenarios of `session`.

`EntersIInv` is the second layer, for any number of processes and any faults. It says
which inputs have not entered the history, or have entered it once by a steer
(`Fresh`, `Single`), and needs three facts to stay true: a claimed steer of the run in
the view is in the hands of its executor or of one that has failed, and what the executor
has not persisted is fresh (`Handed`); no two steers carry one input, as a promotion
cancels the follow-up in the same transaction (`InputsApart`); and tokens are drawn in
order (`InOrder`). All of it is said of runs that were not taken over while they
waited. What remains are the two exceptions of `EntersOnce`, and TLC reaches both: the
new owner of such a run injects the claim of the old one again, and a follow-up that one
process had started and another has released can be promoted.

`ClaimsHeld` is the third layer, for one process: a claimed follow-up is in the starter's
hands and has not been started twice. It yields `WithdrawnStaysOut` and, without takeovers,
that the exceptions of `EntersOnce` do not occur.

`Draining` is the fourth, for one process and one follow-up. A pending item has
something ahead that will try it again: a live run, an end that is still to be observed,
the recheck after its admission, or the starter; and a starter that is about to give its
item back has a run ahead or a trigger waiting. The starter only gives up because the
session is busy, which is where a refused call breaks it.

### Decisions

Three layers, each resting on the ones before:

- *Records* (`RecordsInv`). A request that is decided never changes (`RowsGrow`), so
  whatever has seen the decision agrees with the row for good: a stored result, a
  reply on its way, an execution about to store, a call that has returned. An
  execution belongs to a command its worker still has or to a call that waits for
  it (`ExecOk`); that makes the reply it ends with go to the right caller
  (`ConcludeKeeps`).
- *Tools* (`ToolsInv`). The checkpoint of a request leaves "accepted" once, in the
  transaction before the tool is invoked, and one continuation at most stands
  between that transaction and the invocation.
- *Owners* (`OwnersInv`). Whoever acts under the run's token owns the run or acts
  after its end (`OwnersMatch`), there is one such process, and while it lives a
  running run has its continuation or is being finished by it, and a waiting one
  has an open request (`CarriedOut`).

Most steps only exchange words; `Still` is what they have in common, and the last two
layers treat them at once. The exception that the code leaves open, a commit whose
outcome the owner did not learn, is an exception of the theorem too.

### LiveView and DecisionOutput

What a client of the view has got, what is on the way to it and where its subscription
stands are one chain (`Chained`): each event may be applied after the one before, and
the last leads to the cursor of the subscription. An update reaches a client through
that chain or not at all, so `ViewInv` needs no count of what was lost. That a client
catches up is a second fact (`Arriving`): as long as a subscription is not at the
latest update, that update is still published, buffered or being read, a dropped
event in the buffer says that something is missing, or the update was lost. A reading
under way (`Reads`) has a document at least as new as the event that called for it, which
is why no subscription is closed for being behind. What the client shows when it rests
follows the reading it has had since the last change (`Synced`): after a whole one it
shows what both stores hold; after one that missed the ledger, the document alone.

A log of a continuation numbers its events (`LogOk`), and a reader has the beginning
of the log, or the log was emptied and will not grow past what the reader has
(`Follows`). That a log which was closed is whole (`ClosedIsWhole`) is a fact about its
writer: while nothing went wrong the log is as long as the writer's count, and an
accounting of faults (`WriterOk`) shows that a failure that is missing from the log
cost two faults or an append that took effect unseen, which is `FailureLost`.
`CleanMeansComplete` then rests on there being one reader (`ReadersOk`): it alone may
empty the log, and only when it stops.

### Services

- `BackgroundTasks`: one goroutine at a time serves a subagent, its runner or the
  task that promotes the next message (`OneAtWork`), and only it knows the message
  that has left the queue and has not started (`QueueMatches`). The generation of
  the channel counts the signals (`SignalsCounted`), so a waiter that read before
  the end sleeps on a closed channel (`WaitsMatch`).
- `ChannelConnections`: `LastOperationSettles` speaks of an operation that is over;
  its invariant follows the operation while it is alone (`Placed`): what it read of
  the configuration is current, and the table is as its own steps left it.
- `AgentProcesses`: the counter of a generation is the number of its users
  (`LeasesCounted`), and a drain is right because the key stays blocked from the
  moment the drain has listed the generations (`DrainsBlock`). Once `Close` has begun,
  what is left closes or is marked to be closed when its start ends (`LeftIsEnding`),
  whether or not `Close` waited for it.
- `BotWorkspace`: a pass whose version is the row's is the only one and decided on the
  row as it is (`DecidedOnRow`), which is all `IntentIsCurrent` needs. For the other
  two, whoever works holds the lease (`LeaseHeld`), what was observed under a claim
  that still counts was observed beside no pass (`ObserversApart`), whoever is about
  to write that the container is gone is right (`BoxGone`), and once a removal is
  answered nobody works (`AnsweredRests`, which strengthens `AbsentMeansGone` from the
  call of the backend to the whole pass).

### Only model-checked

All liveness (the four properties of `life_ends`), since fairness and `ENABLED` are out of
the prover's reach; that a run shown as active is always within reach of a pass, which
`EndedRunLeavesView` rests on, is `ShownTheorem`. `AloneServes` and `AloneWithdrawnStaysOut` speak of one scenario of
the run `session`; what they say of it is proved of `LiveQueue`, in the three theorems
named `Alone...`, for any number of runs, steers and tokens. `QuietMeansDrained` has no
proof for several follow-ups because it can fail there (section 5).

## 5. Findings

- **A claimed run nobody can find** (`life_stranded`, `admit.go:307`). The ledger
  claim precedes the live reservation. A process that dies in between leaves an
  owned row of the current incarnation without a lease index member; none of the
  three passes selects it and the session stays busy. The comments at
  `admit.go:370` and `reaper.go:388` promise the reaper covers this.
- **An abort overwritten by a decision** (`life_abort_parked`, `manager.go:1993`).
  A decision request that arrives after an acknowledged abort shows the run as
  waiting again; it parks, its lease is renewed, and the stop the caller was told of
  does not come: no fair behaviour of the processes alone ends the run.
- **A withdrawn follow-up is started** (`queue_withdrawn`,
  `queue_continuation.go:259`). A repeated trigger is answered with the existing
  claim, so two processes can hold it. One gives up and releases, the user cancels
  (or promotes) the item, the other starts the turn: the claim is only checked
  after `StartTurn`.
- **Two servers drive one workspace** (`workspace_shared`,
  `internal/botworkspace/service.go:319`). `Observe` gives its lease back when it
  writes the observation, and once more when it returns, then by owner alone. If the
  loop of the same server has claimed the row in between, that pass loses its lease
  while it drives the workspace, and another server joins it. The comment at `:852`
  says this never happens.
- **A bot stays "creating"** (`workspace_stranded`,
  `internal/botworkspace/service.go:908`). The row is written first, the status of the
  bot second. A server that dies in between leaves a settled row nobody selects again;
  `types.go:5` says a crashed server never strands a bot.

Observations, met while choosing the instances above; where constants are named,
changing them reproduces the behaviour:

- `recoverLostBackendGeneration` confirms the incarnation and then queries. With
  `Faults = {"flush"}` and two incarnations `LostSparesLiveOwner` fails: a run
  claimed under the new incarnation in between is marked lost (`reaper.go:310`).
- With `"flush"` and either `"error"` or `"crash"`, `ParkedIsFindable` fails: a parked
  run found by the sweep has no index member to fall back on. When its reservation and
  then its end fail, or the process dies after moving the token to the new incarnation and
  before reserving the run (`recovery.go:90`), no pass selects it again.
- Two overlapping passes can leave a run that is "lost" shown as "waiting": one declares
  it lost while the other, which has moved its token, reserves it again without
  another look at the ledger (`recovery.go:186`). If the first has reconciled the
  view before, or dies before it does, the parked control renews the lease and the session
  takes no new turn until someone answers or aborts.
- With `"takeover"`, `NoClaimAcrossDecision` and `InputEntersOnce` fail (and
  `ClaimsConsumedOnce` needs its first exception): the run is
  waiting, hence recoverable, before its step is committed; an owner that dies
  between persisting the step and `ApplySteer` leaves the claim, and its
  successor injects the text again (`queue_step_coordinator.go:120`;
  `docs/design/session-input-queues.md:91` says no claim waits across a decision).
- `QuietMeansDrained` holds for one process and one item. With two processes a starter
  may release its item after the run it lost against was observed
  (`queue_continuation.go:275`); with two items a late trigger may take the place of a
  newer one (`:193`), or the recheck after an admission repeats the trigger of a run
  that has had its item and claims nothing (`live_queue_transitions.go:46`); with
  `"refused"` the release has no later boundary. In each the item waits for an unrelated
  run.
- `ClosedRunID` is one field: a late `CloseSteerRun` of an older run forgets the
  seal of the newer one, and a steer is accepted that can only be rejected
  (`live_queue.go:334`). `NoDeadSteer` holds nevertheless: such a steer is rejected,
  not left pending, so no property covers the lost seal itself.
- `release` does not count, so a queue can hold more accepted items than
  `MaxPendingQueueItems` (`live_queue_transitions.go:114`).
- Decisions: a commit whose outcome the owner did not learn is not continued by
  anyone; the run stays "running" until its owner goes (`"unsure"`, excepted in
  `AnsweredRunIsCarriedOut`).
- DecisionOutput: when an append and the append of its failure event both fail and
  closing succeeds, a reader ends without an error and without the rest
  (`FailureLost`).
- BackgroundTasks: the watchdog may set "stalled" on a task that has just ended.
- ChannelConnections: a failed listing makes a refresh stop all connections of that
  type until the next one; `rollbackUpsert` may restore an enabled configuration over
  a concurrent disable; a failed `Stop` leaves a connection outside the table.
- LiveView: after a reading that missed the ledger a client shows no run until a later
  reading succeeds, although the ledger has one. The comment at `manager.go:2225` says
  that a run whose owner is gone "must report `lost`, not appear never to have existed".
- AgentProcesses: a `Retire` during a start lets a second start of the key run beside
  it; a second `Drain` is admitted when the key has no slot.
- BotWorkspace: between the read and the claim of `Observe` a failed removal can be
  recorded as running; a delayed status write can overwrite a newer one.
- History reset: a slow owner between activating its token and reserving its run can
  show the run in the live view again after the reset was released; its steps are
  refused.
- `admitFastPath` answers "busy" to a repeated invocation that has ended while
  another run is active; `docs/design/session-runtime-requirements.md:68` asks for
  the same admission result (`ledger/postgres.go:552`).

## 6. Plan

1. The projections a reset restarts, composed with `RunLifecycle`, and what is proved of
   the two together.
2. Routed aborts and steers over the transport of `Decisions`.

## 7. Not modelled

The map names about 3 % of the implementation's lines. The rest has no state
machine to check: generated queries, platform adapters and their formats, HTTP
handlers, web and desktop clients, provider bindings, container engines, backup,
import and export. Some parts with state were read and left out:

- schedules (`internal/schedule/service.go`): a table of cron entries behind one lock.
  Concurrent updates of one schedule can leave an entry behind, and overlapping fires
  can exceed `max_calls`; both need only two steps and no model.
- the webhook tunnel (`internal/webhooktunnel/manager.go`): one process and its
  address; a fetch in flight can report it ready after it has stopped.
- compaction and memory providers: sequential transformations of a history, guarded by
  the fence that `SessionLedger` models.
