---------------------------- MODULE RunLifecycle ----------------------------
(***************************************************************************)
(* The life of a session run across server processes: admission, claim,    *)
(* live reservation, execution, parking on a user decision, abort, finish, *)
(* shutdown, and the reaper that picks up what a vanished owner left       *)
(* (internal/agent/runtime/session: admit.go, manager.go, finalize.go,     *)
(* commands.go, control.go, reaper.go, recovery.go, redis.go).             *)
(*                                                                         *)
(* The durable half is SessionLedger, whose operations are the database    *)
(* transactions of this module.  The live half is Redis: one view and one  *)
(* run reference (the lease) per run, and the lease index the reaper scans.*)
(* Every action is one transaction of one store or one local step, so a    *)
(* process may be overtaken, or die, between any two.                      *)
(*                                                                         *)
(* Abstractions: a reservation is identified by its fencing token (the     *)
(* random generation of a reservation and its token are drawn together);   *)
(* time is the nondeterministic LeaseExpire; grace periods only delay the  *)
(* reaper and are left out; a pass does not recheck leadership, so the     *)
(* passes of the processes in Reapers may overlap.  Redis deployments      *)
(* only: the memory backend has no leases.                                 *)
(***************************************************************************)
EXTENDS SessionLedger

CONSTANTS
    Reapers,    \* the processes that hold, or still believe they hold, the
                \* reaper's leader lease
    Uses,       \* which of "abort", "park", "shutdown" users ask for
    Faults,     \* which of "crash", "partition", "error", "flush" happen
    MaxGen      \* bound: incarnations of the live backend

ASSUME LifeAssumption == MaxGen \in Nat \ {0} /\ 1..MaxGen \subseteq Gens

VARIABLES
    livegen,    \* the live backend's incarnation marker
    view,       \* view[s]: Snapshot.CurrentRunView of session s
    ref,        \* ref[r]: token of the unexpired run reference, 0 if none
    index,      \* the lease index: members <<r, token>>
    stat,       \* stat[p]: "up", "closing" or "down"
    ctl,        \* ctl[p][r]: what process p is doing with run r
    rp          \* rp[p]: where the reaper pass of process p stands

live == <<livegen, view, ref, index>>
vars == <<lvars, live, stat, ctl, rp>>

NoView == [run |-> None, token |-> 0, status |-> "none"]
Idle == [pc |-> "idle", token |-> 0, gen |-> 0, lost |-> FALSE,
         stop |-> FALSE, seen |-> "none", out |-> "none"]
AtRest == [pc |-> "idle", kind |-> "none", run |-> None, cand |-> 0,
           token |-> 0, expected |-> {}, new |-> 0, gen |-> 0]

LiveStatuses == {"admitting", "running", "waiting", "aborting", "finishing"}
EventAccepting == {"running", "waiting", "aborting"}
Abortable == EventAccepting \cup {"admitting"}

\* The local phases in which a process holds a reservation and renews it.
Holding == {"reserved", "canceled", "running", "parking", "parked",
            "resuming", "ending", "prepared", "finalized"}

Init ==
    /\ LedgerInit
    /\ livegen = 1
    /\ view = [s \in Sessions |-> NoView]
    /\ ref = [r \in Runs |-> 0]
    /\ index = {}
    /\ stat = [p \in Owners |-> "up"]
    /\ ctl = [p \in Owners |-> [r \in Runs |-> Idle]]
    /\ rp = [p \in Owners |-> AtRest]

At(p, r, pcs) == stat[p] # "down" /\ ctl[p][r].pc \in pcs
Goto(p, r, pc) == ctl' = [ctl EXCEPT ![p][r].pc = pc]
Forget(p, r) == ctl' = [ctl EXCEPT ![p][r] = Idle]
Tok(p, r) == ctl[p][r].token
ViewOf(r) == view[runs[r].session]

\* runMatchesHandle: the session's view shows r under token t.
Shows(r, t) == ViewOf(r).run = r /\ ViewOf(r).token = t

\* What UpdateActiveRun and ReleaseRun require of their caller.
Held(r, t) == ref[r] = t /\ Shows(r, t) /\ ViewOf(r).status \in LiveStatuses

Show(r, status) == view' = [view EXCEPT ![runs[r].session].status = status]

-----------------------------------------------------------------------------
(* Admission: Manager.Admit and claimAndStart.                             *)

Submit(p, r, s, i) ==
    /\ stat[p] = "up"
    /\ Admit(r, s, i)
    /\ Goto(p, r, "admitted")
    /\ UNCHANGED <<live, stat, rp>>

\* A retry of the invocation finds its own orphan and adopts it.
Resubmit(p, r) ==
    /\ stat[p] = "up"
    /\ ctl[p][r].pc = "idle"
    /\ runs[r].state # "none"
    /\ AdmitAnswer(runs[r].session, runs[r].inv) = "replay"
    /\ runs[r].state = "accepted" /\ runs[r].owner = None
    /\ Goto(p, r, "admitted")
    /\ UNCHANGED <<lvars, live, stat, rp>>

\* Mutant: the next token is guessed, not drawn.
DrawUndrawn(p, r) ==
    /\ At(p, r, {"admitted"})
    /\ seq < MaxToken
    /\ ctl' = [ctl EXCEPT ![p][r].pc = "drawn", ![p][r].token = seq + 1,
                          ![p][r].gen = livegen]
    /\ UNCHANGED <<lvars, live, stat, rp>>

\* Nobody sees a token before it is claimed with, so drawing it and reading
\* the live generation are one step.
Draw(p, r) ==
    /\ At(p, r, {"admitted"})
    /\ NextFencingToken
    /\ ctl' = [ctl EXCEPT ![p][r].pc = "drawn", ![p][r].token = seq + 1,
                          ![p][r].gen = livegen]
    /\ UNCHANGED <<live, stat, rp>>

ClaimRun(p, r) ==
    /\ At(p, r, {"drawn"})
    /\ IF CanClaim(r, Tok(p, r))
       THEN Claim(r, p, Tok(p, r), ctl[p][r].gen) /\ Goto(p, r, "claimed")
       ELSE UNCHANGED lvars /\ Forget(p, r)
    /\ UNCHANGED <<live, stat, rp>>

ActivateFence(p, r) ==
    /\ At(p, r, {"claimed"})
    /\ IF CanActivate(runs[r].session, Tok(p, r))
       THEN Activate(runs[r].session, Tok(p, r)) /\ Goto(p, r, "fenced")
       ELSE UNCHANGED lvars /\ Goto(p, r, "abandoning")
    /\ UNCHANGED <<live, stat, rp>>

\* The database refuses to answer.
ActivateFails(p, r) ==
    /\ "error" \in Faults
    /\ At(p, r, {"claimed"})
    /\ Goto(p, r, "abandoning")
    /\ UNCHANGED <<lvars, live, stat, rp>>

\* RedisBackend.StartRun with the caller's claim: the run has no reference and
\* the view is free, already this run's, or left by a run whose lease is gone.
CanReserve(r) ==
    /\ ref[r] = 0
    /\ (ViewOf(r).status \in LiveStatuses /\ ViewOf(r).run # r)
            => ref[ViewOf(r).run] = 0

\* Mutant: the reservation is not entered in the lease index.
StartLiveUnindexed(r, t, status) ==
    /\ view' = [view EXCEPT ![runs[r].session] =
                    [run |-> r, token |-> t, status |-> status]]
    /\ ref' = [ref EXCEPT ![r] = t]
    /\ UNCHANGED <<livegen, index>>

StartLive(r, t, status) ==
    /\ view' = [view EXCEPT ![runs[r].session] =
                    [run |-> r, token |-> t, status |-> status]]
    /\ ref' = [ref EXCEPT ![r] = t]
    /\ index' = index \cup {<<r, t>>}
    /\ UNCHANGED livegen

Reserve(p, r) ==
    /\ At(p, r, {"fenced"})
    /\ IF stat[p] = "up" /\ CanReserve(r)
       THEN StartLive(r, Tok(p, r), "admitting") /\ Goto(p, r, "reserved")
       ELSE UNCHANGED live /\ Goto(p, r, "abandoning")
    /\ UNCHANGED <<lvars, stat, rp>>

\* The reservation is refused, or lands and its reply is lost.
ReserveFails(p, r) ==
    /\ "error" \in Faults
    /\ At(p, r, {"fenced"})
    /\ UNCHANGED live \/ (CanReserve(r) /\ StartLive(r, Tok(p, r), "admitting"))
    /\ Goto(p, r, "abandoning")
    /\ UNCHANGED <<lvars, stat, rp>>

\* The end of startRun: the view leaves "admitting".  Without the lease, or in
\* a closing process, the caller abandons its claim; a builder that fails
\* finishes the run.
Begin(p, r) ==
    /\ At(p, r, {"reserved"})
    /\ \/ /\ stat[p] = "up" /\ Held(r, Tok(p, r))
          /\ ViewOf(r).status = "admitting"
          /\ Show(r, "running")
          /\ Goto(p, r, "running")
       \/ /\ stat[p] # "up" \/ ~Held(r, Tok(p, r))
          /\ Goto(p, r, "abandoning")
          /\ UNCHANGED view
       \/ /\ ctl' = [ctl EXCEPT ![p][r].pc = "ending", ![p][r].out = "failed"]
          /\ UNCHANGED view
    /\ UNCHANGED <<lvars, livegen, ref, index, stat, rp>>

\* A failing Finalize leaves the run to the reaper.
AbandonClaim(p, r) ==
    /\ At(p, r, {"abandoning"})
    /\ \/ IF CanFinalize(r, Tok(p, r), ActiveStates)
          THEN Finalize(r, Tok(p, r), "failed", ActiveStates)
          ELSE UNCHANGED lvars
       \/ "error" \in Faults /\ UNCHANGED lvars
    /\ Forget(p, r)
    /\ UNCHANGED <<live, stat, rp>>

-----------------------------------------------------------------------------
(* Execution.                                                              *)

\* A step in flight is committed whether or not the process knows that it
\* lost the run: the database decides.
CommitStep(p, r) ==
    /\ At(p, r, {"running", "parking"})
    /\ \E interrupted \in {FALSE, ctl[p][r].stop} :
           PersistAgentStep(r, Tok(p, r), interrupted)
    /\ UNCHANGED <<live, stat, ctl, rp>>

\* A pending decision event: first the ledger, then the view.
Park(p, r) ==
    /\ "park" \in Uses
    /\ At(p, r, {"running"})
    /\ SetWaitingDecision(r, Tok(p, r))
    /\ Goto(p, r, "parking")
    /\ UNCHANGED <<live, stat, rp>>

ShowWaiting(p, r) ==
    /\ At(p, r, {"parking"})
    /\ IF Held(r, Tok(p, r)) /\ ViewOf(r).status \in EventAccepting
       THEN Show(r, "waiting") ELSE UNCHANGED view
    /\ Goto(p, r, "running")
    /\ UNCHANGED <<lvars, livegen, ref, index, stat, rp>>

\* The user answered and the run is re-entered: ledger, then view.  A control
\* that was stopped takes no more commands.
Answer(p, r) ==
    /\ At(p, r, {"parked"}) /\ ~ctl[p][r].lost /\ ~ctl[p][r].stop
    /\ Held(r, Tok(p, r)) /\ ViewOf(r).status = "waiting"
    /\ IF Owned(r, Tok(p, r), {"running", "waiting"})
       THEN Resume(r, Tok(p, r)) /\ Goto(p, r, "resuming")
       ELSE /\ UNCHANGED lvars
            /\ ctl' = [ctl EXCEPT ![p][r].pc = "ending", ![p][r].out = "failed"]
    /\ UNCHANGED <<live, stat, rp>>

ShowResumed(p, r) ==
    /\ At(p, r, {"resuming"})
    /\ IF Held(r, Tok(p, r)) /\ ViewOf(r).status = "waiting"
       THEN Show(r, "running") ELSE UNCHANGED view
    /\ Goto(p, r, "running")
    /\ UNCHANGED <<lvars, livegen, ref, index, stat, rp>>

\* recordAbortIntent, by the process the user happens to talk to.
AbortIntent(r) ==
    /\ "abort" \in Uses
    /\ ~runs[r].abort
    /\ RequestAbort(r)
    /\ UNCHANGED <<live, stat, ctl, rp>>

\* abortLocal at the owner first reads whether the run waits for a decision...
AbortRead(p, r) ==
    /\ "abort" \in Uses
    /\ At(p, r, {"reserved", "running", "parking", "parked", "resuming"})
    /\ ~ctl[p][r].lost /\ ctl[p][r].seen = "none"
    /\ ctl' = [ctl EXCEPT ![p][r].seen =
                  IF Shows(r, Tok(p, r)) /\ ViewOf(r).status = "waiting"
                  THEN "waiting" ELSE "other"]
    /\ UNCHANGED <<lvars, live, stat, rp>>

\* ...and then requests the stop.  A run still in admission is finished by the
\* aborter while startRun unwinds; one that was seen waiting is finished here;
\* any other is told to stop.
AbortLive(p, r) ==
    /\ At(p, r, {"reserved", "running", "parking", "parked", "resuming"})
    /\ ctl[p][r].seen # "none"
    /\ LET stopped == ~ctl[p][r].lost /\ Held(r, Tok(p, r))
                         /\ ViewOf(r).status \in Abortable \ {"aborting"} IN
       /\ IF stopped THEN Show(r, "aborting") ELSE UNCHANGED view
       /\ ctl' = [ctl EXCEPT ![p][r] =
             IF ~stopped THEN [@ EXCEPT !.seen = "none"]
             ELSE IF @.pc = "reserved"
                  THEN [@ EXCEPT !.seen = "none", !.pc = "canceled", !.out = "aborted"]
             ELSE IF @.seen = "waiting"
                  THEN [@ EXCEPT !.seen = "none", !.stop = TRUE,
                                 !.pc = "ending", !.out = "aborted"]
                  ELSE [@ EXCEPT !.seen = "none", !.stop = TRUE]]
    /\ UNCHANGED <<lvars, livegen, ref, index, stat, rp>>

\* startRun returns canceled while the aborter finishes the run: its caller's
\* abandonClaim comes first, or comes too late to matter.
Unwind(p, r) ==
    /\ At(p, r, {"canceled"})
    /\ \/ /\ CanFinalize(r, Tok(p, r), ActiveStates)
          /\ Finalize(r, Tok(p, r), "failed", ActiveStates)
       \/ UNCHANGED lvars
    /\ Goto(p, r, "ending")
    /\ UNCHANGED <<live, stat, rp>>

-----------------------------------------------------------------------------
(* finishRun: ledger proposal, ledger terminal state, live release.        *)

\* The outcomes an owner reports: a failure, a stop it was told of, or none
\* of its own, which resolveTerminalStatus reads off the view.
Outcomes(p, r) ==
    {"failed"}
    \cup (IF ctl[p][r].stop THEN {"aborted"} ELSE {})
    \cup (IF Shows(r, Tok(p, r)) /\ ViewOf(r).status = "waiting" THEN {}
          ELSE IF Shows(r, Tok(p, r)) /\ ViewOf(r).status = "aborting"
               THEN {"aborted"} ELSE {"completed"})

\* An owner that was told it lost the run leaves it to the reaper.  A run that
\* shows a pending decision is kept for its answer.
EndExecution(p, r) ==
    /\ At(p, r, {"running"})
    /\ IF ~ctl[p][r].lost
       THEN \/ \E o \in Outcomes(p, r) :
                  ctl' = [ctl EXCEPT ![p][r].pc = "ending", ![p][r].out = o]
            \/ /\ Shows(r, Tok(p, r)) /\ ViewOf(r).status = "waiting"
               /\ Goto(p, r, "parked")
       ELSE Forget(p, r)
    /\ UNCHANGED <<lvars, live, stat, rp>>

\* Mutant: the lease must still be alive.
CanReconcileLeased(r) == ref[r] # 0 /\ Shows(r, ref[r])

\* releaseRun on behalf of a run that is durably over.
CanReconcile(r) == Shows(r, ViewOf(r).token) /\ ViewOf(r).token =< runs[r].token

ReconcileLive(r) ==
    IF CanReconcile(r)
    THEN /\ view' = [view EXCEPT ![runs[r].session] =
                        [run |-> r, token |-> runs[r].token, status |-> runs[r].state]]
         /\ ref' = [ref EXCEPT ![r] = 0]
         /\ index' = index \ {<<r, ViewOf(r).token>>}
         /\ UNCHANGED livegen
    ELSE UNCHANGED live

\* Mutant: the live state is released with no durable proposal.
PrepareSkipped(p, r) ==
    /\ At(p, r, {"ending"})
    /\ Goto(p, r, "finalized")
    /\ UNCHANGED <<lvars, live, stat, rp>>

Prepare(p, r) ==
    /\ At(p, r, {"ending"})
    /\ LET t == Tok(p, r) IN
       IF CanPrepare(r, t)
       THEN /\ PrepareFinish(r, t, ctl[p][r].out)
            /\ ctl' = [ctl EXCEPT ![p][r].pc = "prepared",
                                  ![p][r].out = Proposal(runs[r], ctl[p][r].out)]
            /\ UNCHANGED live
       ELSE /\ UNCHANGED lvars
            /\ IF runs[r].token = t /\ Terminal(r)
               THEN /\ ctl' = [ctl EXCEPT ![p][r].pc = "prepared",
                                          ![p][r].out = runs[r].state]
                    /\ UNCHANGED live
               ELSE /\ Forget(p, r)
                    /\ IF Terminal(r) THEN ReconcileLive(r) ELSE UNCHANGED live
    /\ UNCHANGED <<stat, rp>>

\* The terminal event of the stream shows the proposal.
ShowFinishing(p, r) ==
    /\ At(p, r, {"prepared"})
    /\ Held(r, Tok(p, r)) /\ ViewOf(r).status \in EventAccepting
    /\ Show(r, "finishing")
    /\ UNCHANGED <<lvars, livegen, ref, index, stat, ctl, rp>>

FinalizeRun(p, r) ==
    /\ At(p, r, {"prepared"})
    /\ LET t == Tok(p, r) IN
       IF CanFinalize(r, t, ActiveStates)
       THEN Finalize(r, t, ctl[p][r].out, ActiveStates)
       ELSE UNCHANGED lvars
    /\ ctl' = [ctl EXCEPT ![p][r].pc = "finalized", ![p][r].out = runs'[r].state]
    /\ UNCHANGED <<live, stat, rp>>

Release(p, r) ==
    /\ At(p, r, {"finalized"})
    /\ IF Held(r, Tok(p, r))
       THEN /\ Show(r, ctl[p][r].out)
            /\ ref' = [ref EXCEPT ![r] = 0]
            /\ index' = index \ {<<r, Tok(p, r)>>}
            /\ UNCHANGED livegen
       ELSE UNCHANGED live
    /\ Forget(p, r)
    /\ UNCHANGED <<lvars, stat, rp>>

\* The database stays away beyond the retry budget, or a retry finds that the
\* run was lost: the reaper takes over.
GiveUp(p, r) ==
    /\ At(p, r, {"ending", "prepared"})
    /\ "error" \in Faults \/ ctl[p][r].lost
    /\ Forget(p, r)
    /\ UNCHANGED <<lvars, live, stat, rp>>

-----------------------------------------------------------------------------
(* Leases, processes and the live backend.                                 *)

Renewing(p, r) ==
    At(p, r, Holding) /\ Tok(p, r) = ref[r] /\ ~ctl[p][r].lost

Unheld(r) == \A p \in Owners : ~Renewing(p, r)

LeaseExpire(r) ==
    /\ ref[r] # 0
    /\ Unheld(r) \/ "partition" \in Faults
    /\ ref' = [ref EXCEPT ![r] = 0]
    /\ UNCHANGED <<lvars, livegen, view, index, stat, ctl, rp>>

\* cancelRunControl: a renewal is refused, or the local deadline passes first.
LoseOwnership(p, r) ==
    /\ At(p, r, Holding \ {"canceled", "finalized"})
    /\ ~ctl[p][r].lost
    /\ ref[r] # Tok(p, r) \/ "partition" \in Faults
    /\ ctl' = [ctl EXCEPT ![p][r].lost = TRUE]
    /\ UNCHANGED <<lvars, live, stat, rp>>

\* Other processes keep the service, and the reaper, running.
Down(p) ==
    /\ \E q \in Reapers \ {p} : stat[q] = "up"
    /\ stat' = [stat EXCEPT ![p] = "down"]
    /\ ctl' = [ctl EXCEPT ![p] = [r \in DOMAIN @ |-> Idle]]
    /\ rp' = [rp EXCEPT ![p] = AtRest]
    /\ UNCHANGED <<lvars, live>>

Crash(p) == "crash" \in Faults /\ stat[p] # "down" /\ Down(p)

\* The live backend comes back empty, with a new incarnation marker.
Flush ==
    /\ "flush" \in Faults
    /\ livegen < MaxGen
    /\ livegen' = livegen + 1
    /\ view' = [s \in Sessions |-> NoView]
    /\ ref' = [r \in DOMAIN ref |-> 0]
    /\ index' = {}
    /\ UNCHANGED <<lvars, stat, ctl, rp>>

Close(p) ==
    /\ "shutdown" \in Uses
    /\ stat[p] = "up"
    /\ \E q \in Reapers \ {p} : stat[q] = "up"
    /\ stat' = [stat EXCEPT ![p] = "closing"]
    /\ UNCHANGED <<lvars, live, ctl, rp>>

\* releaseLocalRunOnShutdown of work that is not handed over.
ReleaseOnShutdown(p, r) ==
    /\ stat[p] = "closing"
    /\ At(p, r, Holding)
    /\ IF CanFinalize(r, Tok(p, r), ActiveStates)
       THEN Finalize(r, Tok(p, r), "lost", {runs[r].state}) ELSE UNCHANGED lvars
    /\ Goto(p, r, "shut")
    /\ UNCHANGED <<live, stat, rp>>

\* A terminal row, whoever wrote it, is shown before the process goes.
ReconcileOnShutdown(p, r) ==
    /\ At(p, r, {"shut"})
    /\ IF Terminal(r) THEN ReconcileLive(r) ELSE UNCHANGED live
    /\ Forget(p, r)
    /\ UNCHANGED <<lvars, stat, rp>>

\* Mutant: the owner cleans up after itself.
HandOffReleasing(p, r) ==
    /\ stat[p] = "closing"
    /\ rp[p].pc = "idle"
    /\ At(p, r, {"parked"})
    /\ runs[r].token = Tok(p, r) /\ runs[r].state = "waiting" /\ ~runs[r].abort
    /\ NextFencingToken
    /\ rp' = [rp EXCEPT ![p] = [AtRest EXCEPT !.pc = "reclaim", !.kind = "handoff",
                  !.run = r, !.token = runs[r].token, !.new = seq + 1,
                  !.gen = runs[r].gen]]
    /\ index' = index \ {<<r, Tok(p, r)>>}
    /\ UNCHANGED <<livegen, view, ref, stat, ctl>>

\* handoffWaitingDecisionOnShutdown: the parked run gets a token nobody holds;
\* its lease and index member stay for the successor to find.
HandOff(p, r) ==
    /\ stat[p] = "closing"
    /\ rp[p].pc = "idle"
    /\ At(p, r, {"parked"})
    /\ runs[r].token = Tok(p, r) /\ runs[r].state = "waiting" /\ ~runs[r].abort
    /\ NextFencingToken
    /\ rp' = [rp EXCEPT ![p] = [AtRest EXCEPT !.pc = "reclaim", !.kind = "handoff",
                  !.run = r, !.token = runs[r].token, !.new = seq + 1,
                  !.gen = runs[r].gen]]
    /\ UNCHANGED <<live, stat, ctl>>

\* Whatever could not be released is left to the reaper.
Exit(p) == stat[p] = "closing" /\ Down(p)

-----------------------------------------------------------------------------
(* The reaper.                                                             *)

Working(p, pc) == stat[p] # "down" /\ rp[p].pc = pc
Step(p, pc) == rp' = [rp EXCEPT ![p].pc = pc]
Rest(p) == rp' = [rp EXCEPT ![p] = AtRest]

\* recoverWaitingDecision up to the new token.  A local control of the run is
\* canceled and forgotten first.
StartRecovery(p, r, kind, cand) ==
    /\ NextFencingToken
    /\ rp' = [rp EXCEPT ![p] = [AtRest EXCEPT !.pc = "reclaim", !.kind = kind,
                  !.run = r, !.cand = cand, !.token = runs[r].token,
                  !.new = seq + 1, !.gen = livegen]]
    /\ Forget(p, r)

StartMark(p, r, kind, cand, expected) ==
    /\ rp' = [rp EXCEPT ![p] = [AtRest EXCEPT !.pc = "mark", !.kind = kind,
                  !.run = r, !.cand = cand, !.token = runs[r].token,
                  !.expected = expected]]
    /\ UNCHANGED <<lvars, ctl>>

Consume(p, r, cand) ==
    /\ rp' = [rp EXCEPT ![p] = [AtRest EXCEPT !.pc = "release", !.kind = "lease",
                                              !.run = r, !.cand = cand]]
    /\ UNCHANGED <<lvars, ctl>>

Recoverable(r) == runs[r].state = "waiting" /\ ~runs[r].abort

\* One expired candidate of reapExpiredLeases.  Whether the run's decisions can
\* be carried on is the decision store's answer.  An entry older than the run's
\* token is dropped while a live owner has the run; otherwise the run is ended
\* under the token and state just read.
ReapPick(p, r, t) ==
    /\ p \in Reapers /\ stat[p] = "up" /\ rp[p].pc = "idle"
    /\ <<r, t>> \in index /\ ref[r] # t
    /\ \/ /\ Recoverable(r)
          /\ IF ref[r] = runs[r].token
             THEN Consume(p, r, t)
             ELSE StartRecovery(p, r, "lease", t)
       \/ /\ IF Active(r) /\ runs[r].state # "finishing"
             THEN IF ref[r] # 0 /\ ref[r] >= runs[r].token
                  THEN t < runs[r].token /\ Consume(p, r, t)
                  ELSE t =< runs[r].token /\ StartMark(p, r, "lease", t, {runs[r].state})
             ELSE StartMark(p, r, "lease", t, {runs[r].state})
    /\ UNCHANGED <<live, stat>>

\* refreshGeneration, then the sweep over rows of other incarnations.
SweepRead(p) ==
    /\ "flush" \in Faults
    /\ p \in Reapers /\ stat[p] = "up" /\ rp[p].pc = "idle"
    /\ rp' = [rp EXCEPT ![p] = [AtRest EXCEPT !.pc = "sweep", !.gen = livegen]]
    /\ UNCHANGED <<lvars, live, stat, ctl>>

SweepPick(p, r) ==
    /\ Working(p, "sweep")
    /\ r \in StaleGenerationRuns(rp[p].gen)
    /\ \/ Recoverable(r) /\ ref[r] # runs[r].token /\ StartRecovery(p, r, "sweep", 0)
       \/ StartMark(p, r, "sweep", 0, ActiveStates)
    /\ UNCHANGED <<live, stat>>

SweepDone(p) ==
    /\ Working(p, "sweep")
    /\ Rest(p)
    /\ UNCHANGED <<lvars, live, stat, ctl>>

\* repairOrphanedAdmissions.
OrphanPick(p, r) ==
    /\ p \in Reapers /\ stat[p] = "up" /\ rp[p].pc = "idle"
    /\ r \in OrphanedRuns
    /\ StartMark(p, r, "orphan", 0, ActiveStates)
    /\ UNCHANGED <<live, stat>>

\* markLost: what the row says afterwards, if it is terminal, is shown live.
Mark(p) ==
    /\ Working(p, "mark")
    /\ LET r == rp[p].run IN
       /\ IF CanFinalize(r, rp[p].token, rp[p].expected)
          THEN Finalize(r, rp[p].token, "lost", rp[p].expected) ELSE UNCHANGED lvars
       /\ IF runs'[r].state \in TerminalStates THEN Step(p, "reconcile") ELSE Rest(p)
    /\ UNCHANGED <<live, stat, ctl>>

\* reconcileTerminalLive; a row that was never owned has nothing live.
Reconcile(p) ==
    /\ Working(p, "reconcile")
    /\ LET r == rp[p].run IN
       IF runs[r].token > 0
       THEN /\ ReconcileLive(r)
            /\ IF CanReconcile(r) /\ Tok(p, r) = ViewOf(r).token
               THEN Forget(p, r) ELSE UNCHANGED ctl
       ELSE UNCHANGED <<live, ctl>>
    /\ IF rp[p].kind = "lease" THEN Step(p, "release") ELSE Rest(p)
    /\ UNCHANGED <<lvars, stat>>

\* The token is part of the member, so a newer entry survives.
Entries(r, t) == {<<r, t>>}

ReleaseMember(p) ==
    /\ Working(p, "release")
    /\ index' = index \ Entries(rp[p].run, rp[p].cand)
    /\ Rest(p)
    /\ UNCHANGED <<lvars, livegen, view, ref, stat, ctl>>

\* ReclaimWaitingDecision for the reaper and for the shutdown handoff, which
\* lets go of the run either way.
Reclaim(p) ==
    /\ Working(p, "reclaim")
    /\ LET r == rp[p].run IN
       IF CanReclaim(r, rp[p].token, rp[p].new)
       THEN /\ ReclaimWaitingDecision(r, p, rp[p].token, rp[p].new, rp[p].gen)
            /\ IF rp[p].kind = "handoff" THEN Rest(p) ELSE Step(p, "rereserve")
       ELSE UNCHANGED lvars /\ Rest(p)
    /\ IF rp[p].kind = "handoff" THEN Forget(p, rp[p].run) ELSE UNCHANGED ctl
    /\ UNCHANGED <<live, stat>>

\* reserveRecoveredWaitingDecision.
CanRereserve(p, r) ==
    /\ stat[p] = "up"
    /\ ctl[p][r].pc = "idle"
    /\ ref[r] = 0
    /\ ViewOf(r).run = r \/ ViewOf(r).status \notin LiveStatuses

Rereserve(p) ==
    /\ Working(p, "rereserve")
    /\ LET r == rp[p].run IN
       /\ CanRereserve(p, r)
       /\ StartLive(r, rp[p].new, "waiting")
       /\ ctl' = [ctl EXCEPT ![p][r] = [Idle EXCEPT !.pc = "parked", !.token = rp[p].new]]
       /\ IF rp[p].kind = "lease" THEN Step(p, "release") ELSE Rest(p)
    /\ UNCHANGED <<lvars, stat>>

\* The old index member is the retry pointer of a lease candidate; a run found
\* by the sweep has none and is ended.
RereserveFails(p) ==
    /\ Working(p, "rereserve")
    /\ ~CanRereserve(p, rp[p].run) \/ "error" \in Faults
    /\ IF rp[p].kind = "lease" THEN Rest(p)
       ELSE rp' = [rp EXCEPT ![p].pc = "mark", ![p].token = rp[p].new,
                             ![p].expected = {"waiting"}]
    /\ UNCHANGED <<lvars, live, stat, ctl>>

\* Any store refuses: the pass moves on and the entry stays.
PassFails(p) ==
    /\ "error" \in Faults
    /\ stat[p] # "down"
    /\ rp[p].pc \in {"mark", "reconcile", "release", "reclaim"}
    /\ Rest(p)
    /\ UNCHANGED <<lvars, live, stat, ctl>>

-----------------------------------------------------------------------------
\* What a process does with a run of its own, in the order of the code.
Own(p, r) ==
    \/ Draw(p, r) \/ ClaimRun(p, r) \/ ActivateFence(p, r) \/ Reserve(p, r)
    \/ Begin(p, r) \/ AbandonClaim(p, r) \/ Unwind(p, r)
    \/ ShowWaiting(p, r) \/ ShowResumed(p, r)
    \/ EndExecution(p, r) \/ Prepare(p, r) \/ FinalizeRun(p, r) \/ Release(p, r)

\* One pass of the reaper.
Reap(p) ==
    \/ \E r \in Runs : OrphanPick(p, r) \/ SweepPick(p, r)
    \/ \E e \in index : ReapPick(p, e[1], e[2])
    \/ SweepRead(p) \/ SweepDone(p) \/ Mark(p) \/ Reconcile(p)
    \/ ReleaseMember(p) \/ Reclaim(p) \/ Rereserve(p) \/ RereserveFails(p)

LifeNext ==
    \/ Flush
    \/ \E r \in Runs : AbortIntent(r) \/ LeaseExpire(r)
    \/ \E p \in Owners : Reap(p) \/ PassFails(p) \/ Crash(p) \/ Close(p) \/ Exit(p)
    \/ \E p \in Owners, r \in Runs :
        \/ \E s \in Sessions, i \in Invs : Submit(p, r, s, i)
        \/ Resubmit(p, r) \/ Own(p, r)
        \/ ActivateFails(p, r) \/ ReserveFails(p, r) \/ ShowFinishing(p, r) \/ GiveUp(p, r)
        \/ CommitStep(p, r) \/ Park(p, r) \/ Answer(p, r)
        \/ AbortRead(p, r) \/ AbortLive(p, r) \/ LoseOwnership(p, r)
        \/ ReleaseOnShutdown(p, r) \/ ReconcileOnShutdown(p, r) \/ HandOff(p, r)

LifeSpec == Init /\ [][LifeNext]_vars
\* The service keeps serving (at least one process is up); a step that is ready
\* is taken; an execution returns; a lease nobody renews expires and its late
\* owner notices; the reaper ticks.
Fairness ==
    /\ \A p \in Owners : WF_vars(Reap(p))
    /\ \A p \in Owners, r \in Runs :
          /\ WF_vars(Own(p, r))
          /\ WF_vars(ref[r] # Tok(p, r) /\ LoseOwnership(p, r))
    /\ \A r \in Runs : WF_vars(Unheld(r) /\ LeaseExpire(r))

FairLifeSpec == LifeSpec /\ Fairness

-----------------------------------------------------------------------------
(* Properties.                                                             *)

Controls == [pc : {"idle", "admitted", "drawn", "claimed", "fenced", "abandoning", "shut"}
                    \cup Holding,
             token : Nat, gen : 0..MaxGen, lost : BOOLEAN, stop : BOOLEAN,
             seen : {"none", "waiting", "other"}, out : TerminalStates \cup {"none"}]

Passes == [pc : {"idle", "sweep", "mark", "reconcile", "release", "reclaim", "rereserve"},
           kind : {"none", "lease", "sweep", "orphan", "handoff"},
           run : Runs \cup {None}, cand : Nat, token : Nat,
           expected : SUBSET (ActiveStates \cup TerminalStates), new : Nat,
           gen : 0..MaxGen]

\* Type invariant.
LifeTypeOK ==
    /\ TypeOK
    /\ livegen \in 1..MaxGen
    /\ view \in [Sessions -> [run : Runs \cup {None}, token : Nat,
                              status : LiveStatuses \cup TerminalStates \cup {"none"}]]
    /\ ref \in [Runs -> Nat]
    /\ index \in SUBSET (Runs \X Nat)
    /\ stat \in [Owners -> {"up", "closing", "down"}]
    /\ ctl \in [Owners -> [Runs -> Controls]]
    /\ rp \in [Owners -> Passes]

\* Every step of every process is one ledger operation or none, with tokens
\* that were drawn: what is proved of SessionLedger for arbitrary callers holds
\* of this system.
LedgerSteps == Spec

\* Reserved(r): the live view shows r as active under the row's token.
Reserved(r) ==
    Active(r) /\ runs[r].token > 0 /\ Shows(r, runs[r].token)
        /\ ViewOf(r).status \in LiveStatuses

\* redis.go, StartRun: "there is no window in which an owner holds a run that no
\* reaper can find".  Whatever the live view shows as active, a run that is over or
\* was recovered under another token included, is in the lease index under the token
\* that is shown: through renewal, overlapping reapers, handoff and the flush.  Some
\* pass will come to end it, recover it or take it off the view.
ShownIsIndexed ==
    \A s \in Sessions : view[s].status \in LiveStatuses
        => <<view[s].run, view[s].token>> \in index

\* claimAndStart: by the time a run is observable, the writer that can persist
\* it is the one that owns it.
ReservedIsFenced ==
    \A r \in Runs : Reserved(r) => fence[runs[r].session] = runs[r].token

\* SR-DUR-002: a live view that shows an outcome shows the durable one.  Owner,
\* reaper and shutdown write the ledger first and the view second.
LiveOutcomeIsDurable ==
    \A s \in Sessions : view[s].status \in TerminalStates =>
        runs[view[s].run].state = view[s].status

\* AbortControl: once the intent to stop a run is durable, the run does not end
\* as completed nor as lost, whoever ends it and however late.
AbortIsHonoured ==
    \A r \in Runs : (Terminal(r) /\ runs[r].abort)
        => runs[r].state \in {"aborted", "failed"}

\* reapExpiredLeases, and the sweep for older incarnations while there is none: a
\* running run of the current incarnation is not declared lost while its lease is
\* alive, unless its own process is shutting down.  (When the live backend is
\* replaced, recoverLostBackendGeneration may do it: it confirms, then queries.)
LostSparesLiveOwner ==
    [][\A r \in Runs :
        (runs[r].state = "running" /\ runs'[r].state = "lost" /\ runs[r].gen = livegen)
            => ref[r] # runs[r].token \/ stat[runs[r].owner] = "closing"]_vars

\* finalizeLedgerRun: a run that was ever reserved ends, whatever its owner and
\* the reapers go through.
ReservedRunEnds == \A r \in Runs : (ref[r] # 0) ~> Terminal(r)

\* reconcileTerminalLive: once a run has ended the live view stops showing it
\* as active, so that the session can be reserved again.
EndedRunLeavesView ==
    \A r \in Runs : (Terminal(r) /\ ViewOf(r).run = r)
        ~> (Terminal(r) /\ (ViewOf(r).run # r \/ ViewOf(r).status \notin LiveStatuses))

\* repairOrphanedAdmissions: an admission nobody picks up is not kept forever.
AdmittedIsPickedUp ==
    \A r \in Runs : (runs[r].state = "accepted") ~> (runs[r].state # "accepted")

\* SR-CTL-001 with AbortControl: a run whose abort is durable and whose owner
\* acknowledged it comes to an end.
StoppedRunEnds ==
    \A p \in Owners, r \in Runs : (ctl[p][r].stop /\ runs[r].abort) ~> Terminal(r)

\* A process that is still up and can bring r to an end.
Attended(r) ==
    \E p \in Owners : stat[p] # "down" /\ (ctl[p][r].pc # "idle" \/ rp[p].run = r)

Findable(r) ==
    \/ r \in OrphanedRuns
    \/ r \in StaleGenerationRuns(livegen)
    \/ \E e \in index : e[1] = r

\* recoverWaitingDecision and handoffWaitingDecisionOnShutdown: a parked run is
\* never without the pointer a successor finds it by, not even when a process
\* dies between moving its token and reserving it again.
ParkedIsFindable ==
    \A r \in Runs : (runs[r].state = "waiting" /\ ~Attended(r)) => Findable(r)

\* claimAndStart: the only runs that no process works on and no pass finds are those
\* whose claimer died before StartRun.  An admission, a reservation, a decision and
\* an end that was prepared are always found.
OnlyClaimsStrand ==
    \A r \in Runs : (Active(r) /\ ~Attended(r) /\ ~Findable(r))
        => runs[r].state = "running" /\ ~Reserved(r)

\* A run that is observable or parked belongs to a writer that can persist it and
\* stays in reach of the reapers, whatever dies between two steps of admission,
\* renewal, recovery, handoff and the end of a run.
LifeInv ==
    /\ LifeTypeOK /\ LiveOutcomeIsDurable
    /\ ReservedIsFenced /\ ShownIsIndexed /\ ParkedIsFindable /\ OnlyClaimsStrand

\* ReleaseLeaseMember: no pass takes the last entry of a run that is not over, so
\* a run that was once reserved is found until it has ended.
StaysIndexed ==
    [][\A r \in Runs : ((\E e \in index : e[1] = r) /\ Active(r)')
            => \E e \in index' : e[1] = r]_vars

\* reaper.go, repairOrphanedAdmissions, and admit.go, abandonClaim ("the reaper
\* will finish it"): an active run that no process works on is found by one of
\* the reaper's three passes.
UnattendedIsFindable ==
    \A r \in Runs : (Active(r) /\ ~Attended(r)) => Findable(r)
=============================================================================
