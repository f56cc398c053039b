----------------------------- MODULE LiveQueue -----------------------------
(***************************************************************************)
(* The input queues of one session (session/live_queue*.go,                *)
(* redis_live_queue.go, application/queue_continuation.go and              *)
(* queue_step_coordinator.go).                                             *)
(*                                                                         *)
(* A steer joins the run that is active when it is typed: the run's owner  *)
(* claims it at a step boundary, the next step persists its text, and only *)
(* then is it applied.  A follow-up waits for a run to end: the observer   *)
(* of the end claims it and starts a turn of its own.                      *)
(*                                                                         *)
(* Each queue is one Redis document and each operation one WATCH/MULTI     *)
(* transaction on it, so one action.  The session's live view is read in   *)
(* the transaction but not watched: an admission reads the view in one     *)
(* action and commits in a later one unless the document was written in    *)
(* between.  Runs are what RunLifecycle promises: one at a time, one owner *)
(* token at a time, a new token when a waiting run is recovered; an ended  *)
(* run has left the view when its end is observed.                         *)
(*                                                                         *)
(* Abstractions: payloads are the items themselves; users can reorder a    *)
(* queue at will, so a claim may take any accepted item; ended items are   *)
(* not compacted away.                                                     *)
(***************************************************************************)
EXTENDS Integers, FiniteSets

CONSTANTS
    Runs,       \* run identities
    Steerable,  \* runs whose execution takes steers (QueueSteerEnabled)
    Steers,     \* identities of steer items
    Follows,    \* identities of follow-up items
    Procs,      \* server processes
    Unstartable,\* follow-ups whose stored command cannot be replayed, or whose
                \* team no process serves
    None,       \* no run, item or process
    MaxPending, \* MaxPendingQueueItems
    MaxToken,   \* bound: owner tokens drawn
    MaxClaims,  \* bound: claims of one follow-up
    MaxObs,     \* bound: observations of one run's end
    Faults      \* which happen: "takeover" of a waiting run, "error" of a store
                \* during a step, "refused" start of a turn

ASSUME QueueAssumption ==
    /\ None \notin Runs \cup Steers \cup Follows \cup Procs
    /\ Steers \cap Follows = {}
    /\ Steerable \subseteq Runs
    /\ Unstartable \subseteq Follows
    /\ MaxPending \in Nat /\ MaxToken \in Nat /\ MaxClaims \in Nat /\ MaxObs \in Nat

VARIABLES
    phase,      \* phase[r]: "new", "live" or "over"
    source,     \* source[r]: the follow-up that r was started from
    view,       \* the live view: active run, owner token, steerable, waiting
    exec,       \* exec[t]: the executor that drew token t
    steers,     \* steers[x]: the steer items
    closed,     \* ClosedRunID
    follows,    \* follows[f]: the follow-up items
    trigger,    \* TerminalClaims: the item claimed at the end of a run
    seen,       \* seen[x]: the view read by the admission of steer x
    fseen,      \* fseen[f]: the run read by the admission of follow-up f
    kick,       \* kick[f]: the process about to recheck the view for f
    start,      \* start[p]: the follow-up starter of process p
    obs,        \* obs[r]: how often the end of r was observed
    entered     \* entered[i]: how often input i entered the history

runvars == <<phase, source, view>>
steerdoc == <<steers, closed>>
followdoc == <<follows, trigger>>
vars == <<runvars, exec, steerdoc, followdoc, seen, fseen, kick, start, obs, entered>>

Inputs == Steers \cup Follows

NoView == [run |-> None, token |-> 0, on |-> FALSE, waiting |-> FALSE]
NoExec == [run |-> None, pc |-> "none", kind |-> "none", pending |-> None]
NoSteer == [status |-> "none", run |-> None, token |-> 0, input |-> None]
NoFollow == [status |-> "none", during |-> None, trig |-> None, claim |-> 0]
Unread == [run |-> None, of |-> None]
AtRest == [pc |-> "idle", trig |-> None, item |-> None, claim |-> 0, next |-> None]

Init ==
    /\ phase = [r \in Runs |-> "new"]
    /\ source = [r \in Runs |-> None]
    /\ view = NoView
    /\ exec = [t \in 1..MaxToken |-> NoExec]
    /\ steers = [x \in Steers |-> NoSteer]
    /\ closed = None
    /\ follows = [f \in Follows |-> NoFollow]
    /\ trigger = [r \in Runs |-> None]
    /\ seen = [x \in Steers |-> Unread]
    /\ fseen = [f \in Follows |-> None]
    /\ kick = [f \in Follows |-> None]
    /\ start = [p \in Procs |-> AtRest]
    /\ obs = [r \in Runs |-> 0]
    /\ entered = [i \in Inputs |-> 0]

Drawn == Cardinality({t \in 1..MaxToken : exec[t].run # None})

\* A write of a document fails the admissions that are watching it.
SteersWritten == seen' = [x \in DOMAIN seen |-> Unread]
FollowsWritten ==
    /\ fseen' = [f \in DOMAIN fseen |-> None]
    /\ seen' = [x \in DOMAIN seen |-> IF seen[x].of = None THEN seen[x] ELSE Unread]

-----------------------------------------------------------------------------
(* Runs, as the session runtime presents them.                             *)

Begin(r, f) ==
    /\ phase[r] = "new"
    /\ view.run = None
    /\ Drawn < MaxToken
    /\ phase' = [phase EXCEPT ![r] = "live"]
    /\ source' = [source EXCEPT ![r] = f]
    /\ view' = [NoView EXCEPT !.run = r, !.token = Drawn + 1]
    /\ exec' = [exec EXCEPT ![Drawn + 1] = 
                    [NoExec EXCEPT !.run = r, !.pc = IF r \in Steerable THEN "model" ELSE "none"]]

UserTurn(r) ==
    /\ Begin(r, None)
    /\ UNCHANGED <<steerdoc, followdoc, seen, fseen, kick, start, obs, entered>>

Owns(t) == view.token = t /\ view.run = exec[t].run /\ view.run # None

\* EnableSteer at the start of an execution; DisableSteer, or an abort, later.
SetSteer(t) ==
    /\ Owns(t) /\ view.run \in Steerable
    /\ view' = [view EXCEPT !.on = ~@]
    /\ UNCHANGED <<phase, source, exec, steerdoc, followdoc, seen, fseen, kick,
                   start, obs, entered>>

\* A tool call asks for a decision: the run is waiting before its step is
\* committed.
AskDecision(t) ==
    /\ Owns(t) /\ exec[t].pc = "model"
    /\ view' = [view EXCEPT !.waiting = TRUE]
    /\ exec' = [exec EXCEPT ![t].pc = "asking"]
    /\ UNCHANGED <<phase, source, steerdoc, followdoc, seen, fseen, kick, start,
                   obs, entered>>

Answer(t) ==
    /\ Owns(t) /\ exec[t].pc = "parked"
    /\ view' = [view EXCEPT !.waiting = FALSE]
    /\ exec' = [exec EXCEPT ![t].pc = "model", ![t].kind = "none"]
    /\ UNCHANGED <<phase, source, steerdoc, followdoc, seen, fseen, kick, start,
                   obs, entered>>

\* A waiting run whose owner vanished is reserved under a new token.
Takeover ==
    /\ "takeover" \in Faults
    /\ view.waiting
    /\ Drawn < MaxToken
    /\ view' = [view EXCEPT !.token = Drawn + 1, !.on = FALSE]
    /\ exec' = [exec EXCEPT ![Drawn + 1] =
                    [NoExec EXCEPT !.run = view.run, !.pc = "parked"]]
    /\ UNCHANGED <<phase, source, steerdoc, followdoc, seen, fseen, kick, start,
                   obs, entered>>

\* Completed, failed, aborted or lost: durable, and out of the view.  The
\* executor may not know yet.
EndRun ==
    /\ view.run # None
    /\ phase' = [phase EXCEPT ![view.run] = "over"]
    /\ view' = NoView
    /\ UNCHANGED <<source, exec, steerdoc, followdoc, seen, fseen, kick, start, obs,
                   entered>>

-----------------------------------------------------------------------------
(* Users.                                                                  *)

Pending(items) == {i \in DOMAIN items : items[i].status = "accepted"}

\* EnqueueSteer, or PromoteFollowUpToSteer of a follow-up, reads the view...
ReadForSteer(x, of) ==
    /\ steers[x].status = "none"
    /\ of # None => follows[of].status = "accepted"
    /\ view.run # None /\ closed # view.run /\ view.on
    /\ Cardinality(Pending(steers)) < MaxPending
    /\ seen' = [seen EXCEPT ![x] = [run |-> view.run, of |-> of]]
    /\ UNCHANGED <<runvars, exec, steerdoc, followdoc, fseen, kick, start, obs, entered>>

\* ...and commits.  A promotion writes both documents in one transaction.
EnqueueSteer(x) ==
    /\ seen[x].run # None
    /\ steers' = [steers EXCEPT ![x] = [status |-> "accepted", run |-> seen[x].run,
            token |-> 0, input |-> IF seen[x].of = None THEN x ELSE seen[x].of]]
    /\ IF seen[x].of = None
       THEN UNCHANGED <<follows, fseen>> /\ closed' = None
       ELSE /\ follows' = [follows EXCEPT ![seen[x].of].status = "canceled"]
            /\ fseen' = [f \in DOMAIN fseen |-> None]
            /\ UNCHANGED closed
    /\ SteersWritten
    /\ UNCHANGED <<runvars, exec, trigger, kick, start, obs, entered>>

ReadForFollowUp(f) ==
    /\ follows[f].status = "none"
    /\ view.run # None
    /\ Cardinality(Pending(follows)) < MaxPending
    /\ fseen' = [fseen EXCEPT ![f] = view.run]
    /\ UNCHANGED <<runvars, exec, steerdoc, followdoc, seen, kick, start, obs, entered>>

EnqueueFollowUp(p, f) ==
    /\ fseen[f] # None
    /\ follows' = [follows EXCEPT ![f] = [NoFollow EXCEPT !.status = "accepted",
                                                          !.during = fseen[f]]]
    /\ FollowsWritten
    /\ kick' = [kick EXCEPT ![f] = p]
    /\ UNCHANGED <<runvars, exec, steerdoc, trigger, start, obs, entered>>

CancelSteer(x) ==
    /\ steers[x].status = "accepted"
    /\ steers' = [steers EXCEPT ![x].status = "canceled"]
    /\ SteersWritten
    /\ UNCHANGED <<runvars, exec, closed, followdoc, fseen, kick, start, obs, entered>>

\* Mutant: an item can be withdrawn while its turn is being started.
CancelFollowUpClaimed(f) ==
    /\ follows[f].status \in {"accepted", "claimed"}
    /\ follows' = [follows EXCEPT ![f].status = "canceled"]
    /\ FollowsWritten
    /\ UNCHANGED <<runvars, exec, steerdoc, trigger, kick, start, obs, entered>>

CancelFollowUp(f) ==
    /\ follows[f].status = "accepted"
    /\ follows' = [follows EXCEPT ![f].status = "canceled"]
    /\ FollowsWritten
    /\ UNCHANGED <<runvars, exec, steerdoc, trigger, kick, start, obs, entered>>

-----------------------------------------------------------------------------
(* The step coordinator of an executor: persist, apply, claim the next.    *)

\* The claim the executor holds is the one in the document.
HoldsClaim(t) ==
    LET x == exec[t].pending IN
    /\ Owns(t)
    /\ steers[x].status = "claimed" /\ steers[x].run = view.run /\ steers[x].token = t

\* The step in flight, with the injected text if there is a claim, is
\* committed under the owner's fence.
Persist(t, kind) ==
    /\ Owns(t)
    /\ IF kind = "deferred" THEN exec[t].pc = "asking" ELSE exec[t].pc = "model"
    /\ exec' = [exec EXCEPT ![t].pc = "persisted", ![t].kind = kind]
    /\ entered' = IF exec[t].pending = None THEN entered
                  ELSE [entered EXCEPT ![steers[exec[t].pending].input] = @ + 1]
    /\ UNCHANGED <<runvars, steerdoc, followdoc, seen, fseen, kick, start, obs>>

\* Mutant: the error is swallowed.
PersistFailsIgnored(t) ==
    /\ exec[t].pc \in {"model", "asking"}
    /\ ~Owns(t) \/ "error" \in Faults
    /\ exec' = [exec EXCEPT ![t].pc = "persisted"]
    /\ UNCHANGED <<runvars, steerdoc, followdoc, seen, fseen, kick, start, obs, entered>>

\* Fenced out, or the database fails: the claim goes back, the run fails.
PersistFails(t) ==
    /\ exec[t].pc \in {"model", "asking"}
    /\ ~Owns(t) \/ "error" \in Faults
    /\ exec' = [exec EXCEPT ![t] = [@ EXCEPT !.pc = "failed", !.kind = "none", !.pending = None]]
    /\ IF exec[t].pending # None /\ HoldsClaim(t)
       THEN /\ steers' = [steers EXCEPT ![exec[t].pending].status = "accepted",
                                        ![exec[t].pending].token = 0]
            /\ SteersWritten
       ELSE UNCHANGED <<steers, seen>>
    /\ UNCHANGED <<runvars, closed, followdoc, fseen, kick, start, obs, entered>>

ApplySteer(t) ==
    /\ exec[t].pc = "persisted"
    /\ exec[t].pending # None => HoldsClaim(t)
    /\ exec' = [exec EXCEPT ![t].pc = "applied", ![t].pending = None]
    /\ IF exec[t].pending = None THEN UNCHANGED <<steers, seen>>
       ELSE /\ steers' = [steers EXCEPT ![exec[t].pending].status = "applied"]
            /\ SteersWritten
    /\ UNCHANGED <<runvars, closed, followdoc, fseen, kick, start, obs, entered>>

\* Mutant: the failure does not fail the step.
ApplyFailsIgnored(t) ==
    /\ exec[t].pc = "persisted" /\ exec[t].pending # None
    /\ ~HoldsClaim(t) \/ "error" \in Faults
    /\ exec' = [exec EXCEPT ![t].pc = "applied", ![t].pending = None]
    /\ UNCHANGED <<runvars, steerdoc, followdoc, seen, fseen, kick, start, obs, entered>>

\* The text is in the history: the claim is kept and the run fails.
ApplyFails(t) ==
    /\ exec[t].pc = "persisted" /\ exec[t].pending # None
    /\ ~HoldsClaim(t) \/ "error" \in Faults
    /\ exec' = [exec EXCEPT ![t] = [@ EXCEPT !.pc = "failed", !.kind = "none", !.pending = None]]
    /\ UNCHANGED <<runvars, steerdoc, followdoc, seen, fseen, kick, start, obs, entered>>

\* Mutant: unapplied claims of the run are passed over.
CandidatesFresh(t) == {x \in Pending(steers) : steers[x].run = exec[t].run}

\* What ClaimNextSteer picks from: the run's unapplied claim, else what is
\* accepted for it.
Candidates(t) ==
    LET held == {x \in Steers : steers[x].status = "claimed"
                                  /\ steers[x].run = exec[t].run}
    IN IF held # {} THEN held
       ELSE {x \in Pending(steers) : steers[x].run = exec[t].run}

\* Mutant: a step that parks the run claims like any other.
ClaimsNextAlways(t) == TRUE

\* A step that parks the run claims nothing.
ClaimsNext(t) == exec[t].kind # "deferred"

\* The run parks, has said its last word, or goes on with what was claimed.
After(t, x) ==
    [exec EXCEPT ![t] = [@ EXCEPT !.pending = x, !.kind = "none",
        !.pc = CASE exec[t].kind = "deferred" -> "parked"
                 [] exec[t].kind = "final" /\ x = None -> "done"
                 [] OTHER -> "model"]]

\* A final step that finds no steer seals the run.
ClaimNextSteer(t) ==
    /\ exec[t].pc = "applied" /\ ClaimsNext(t)
    /\ Owns(t) /\ view.on
    /\ \/ \E x \in Candidates(t) :
            /\ steers' = [steers EXCEPT ![x].status = "claimed", ![x].token = t]
            /\ exec' = After(t, x)
            /\ UNCHANGED closed
       \/ /\ Candidates(t) = {}
          /\ closed' = IF exec[t].kind = "final" THEN exec[t].run ELSE closed
          /\ exec' = After(t, None)
          /\ UNCHANGED steers
    /\ SteersWritten
    /\ UNCHANGED <<runvars, followdoc, fseen, kick, start, obs, entered>>

\* The run parks; or the run is not steerable any more, which fails the step.
NoClaim(t) ==
    /\ exec[t].pc = "applied"
    /\ \/ /\ ~ClaimsNext(t)
          /\ exec' = After(t, None)
       \/ /\ ClaimsNext(t) /\ ~(Owns(t) /\ view.on)
          /\ exec' = [exec EXCEPT ![t].pc = "failed", ![t].kind = "none"]
    /\ UNCHANGED <<runvars, steerdoc, followdoc, seen, fseen, kick, start, obs, entered>>

-----------------------------------------------------------------------------
(* The end of a run is observed, and follow-ups are started.               *)

\* Mutant: a terminal that arrives while the starter works is dropped.
NotifyDropping(p, r) ==
    start' = [start EXCEPT ![p] =
        IF @.pc = "idle" THEN [AtRest EXCEPT !.pc = "claim", !.trig = r] ELSE @]

\* One starter per process and session; the latest trigger waits for it.
Notify(p, r) ==
    start' = [start EXCEPT ![p] =
        IF @.pc = "idle" THEN [AtRest EXCEPT !.pc = "claim", !.trig = r]
        ELSE [@ EXCEPT !.next = r]]

\* Mutant: a steer in an executor's hands is left alone.
ClosableAccepted(r) == {x \in Steers : steers[x].run = r /\ steers[x].status = "accepted"}

Closable(r) ==
    {x \in Steers : steers[x].run = r /\ steers[x].status \in {"accepted", "claimed"}}

\* The terminal observer, at the owner or at a reaper: CloseSteerRun, then
\* the follow-up starter.
Observe(p, r) ==
    /\ phase[r] = "over"
    /\ obs[r] < MaxObs
    /\ obs' = [obs EXCEPT ![r] = @ + 1]
    /\ steers' = [x \in DOMAIN steers |->
          IF x \in Closable(r) THEN [steers[x] EXCEPT !.status = "rejected", !.token = 0]
          ELSE steers[x]]
    /\ closed' = r
    /\ SteersWritten
    /\ Notify(p, r)
    /\ UNCHANGED <<runvars, exec, followdoc, fseen, kick, entered>>

\* kickFollowUpIfIdle.
Kick(f) ==
    /\ kick[f] # None
    /\ kick' = [kick EXCEPT ![f] = None]
    /\ IF view.run = None THEN Notify(kick[f], follows[f].during) ELSE UNCHANGED start
    /\ UNCHANGED <<runvars, exec, steerdoc, followdoc, seen, fseen, obs, entered>>

\* The starter turns to the trigger that came in meanwhile, or rests.
Proceed(st) ==
    IF st.next = None THEN AtRest ELSE [AtRest EXCEPT !.pc = "claim", !.trig = st.next]

\* The item an earlier ClaimNextFollowUp took for this trigger.
ClaimedFor(r) == trigger[r]

ClaimNextFollowUp(p) ==
    /\ start[p].pc = "claim"
    /\ LET r == start[p].trig
           f == ClaimedFor(r)
           take(g, n) == start' = [start EXCEPT ![p] =
                            [@ EXCEPT !.pc = "start", !.item = g, !.claim = n]] IN
       \/ /\ f # None
          /\ IF follows[f].status = "claimed" THEN take(f, follows[f].claim)
             ELSE start' = [start EXCEPT ![p] = Proceed(@)]
          /\ UNCHANGED followdoc
       \/ /\ f = None
          /\ \E g \in Pending(follows) :
               /\ follows[g].claim < MaxClaims
               /\ follows' = [follows EXCEPT ![g].status = "claimed", ![g].trig = r,
                                             ![g].claim = @ + 1]
               /\ trigger' = [trigger EXCEPT ![r] = g]
               /\ take(g, follows[g].claim + 1)
       \/ /\ f = None /\ Pending(follows) = {}
          /\ start' = [start EXCEPT ![p] = Proceed(@)]
          /\ UNCHANGED followdoc
    /\ FollowsWritten
    /\ UNCHANGED <<runvars, exec, steerdoc, kick, obs, entered>>

\* The claim in the starter's hands is the one in the document.
Matches(p) ==
    LET f == start[p].item IN
    follows[f].status = "claimed" /\ follows[f].claim = start[p].claim

\* Mutant: the trigger stays used after the claim was given up.
SettleKeeping(p, status, then) ==
    /\ IF Matches(p)
       THEN follows' = [follows EXCEPT ![start[p].item].status = status] /\ FollowsWritten
       ELSE UNCHANGED <<follows, fseen, seen>>
    /\ start' = [start EXCEPT ![p] = then]
    /\ UNCHANGED <<steerdoc, trigger, kick, obs>>

\* Settle(p, status, then): the claim ends in status if it still stands.
Settle(p, status, then) ==
    LET f == start[p].item IN
    /\ IF Matches(p)
       THEN /\ follows' = [follows EXCEPT ![f].status = status]
            /\ trigger' = IF status = "applied" THEN trigger
                          ELSE [trigger EXCEPT ![follows[f].trig] = None]
            /\ FollowsWritten
       ELSE UNCHANGED <<followdoc, fseen, seen>>
    /\ start' = [start EXCEPT ![p] = then]
    /\ UNCHANGED <<steerdoc, kick, obs>>

\* A command that cannot be replayed is rejected and the next item tried; a
\* rejection that finds no claim stops.  One that StartTurn refuses because no
\* process serves its team is rejected too, and nothing else is tried.
RejectFollowUp(p) ==
    /\ start[p].pc = "start" /\ start[p].item \in Unstartable
    /\ \E unreadable \in BOOLEAN :
          Settle(p, "rejected",
              IF unreadable /\ Matches(p)
              THEN [start[p] EXCEPT !.pc = "claim", !.item = None, !.claim = 0]
              ELSE Proceed(start[p]))
    /\ UNCHANGED <<runvars, exec, entered>>

Startable(p) == start[p].pc = "start" /\ start[p].item \notin Unstartable
Started(f) == \E r \in Runs : source[r] = f

\* The session is taken by another turn.
BusyFor(f) == IF view.run = None THEN FALSE ELSE source[view.run] # f

\* StartTurn under the item's own invocation.
StartFollowUp(p, r) ==
    LET f == start[p].item IN
    /\ Startable(p)
    /\ ~Started(f)
    /\ Begin(r, f)
    /\ entered' = [entered EXCEPT ![f] = @ + 1]
    /\ start' = [start EXCEPT ![p].pc = "apply"]
    /\ UNCHANGED <<steerdoc, followdoc, seen, fseen, kick, obs>>

\* The invocation was admitted before: nothing to start.
DuplicateFollowUp(p) ==
    LET f == start[p].item IN
    /\ Startable(p)
    /\ Started(f)
    /\ ~BusyFor(f)
    /\ start' = [start EXCEPT ![p].pc = "apply"]
    /\ UNCHANGED <<runvars, exec, steerdoc, followdoc, seen, fseen, kick, obs, entered>>

ApplyFollowUp(p) ==
    /\ start[p].pc = "apply"
    /\ Settle(p, "applied", Proceed(start[p]))
    /\ UNCHANGED <<runvars, exec, entered>>

\* Mutant: a busy session is taken for an earlier admission of the item.
GiveUpApplied(p) ==
    /\ Startable(p)
    /\ BusyFor(start[p].item)
    /\ start' = [start EXCEPT ![p].pc = "apply"]
    /\ UNCHANGED <<runvars, exec, steerdoc, followdoc, seen, fseen, kick, obs, entered>>

\* The retries are used up, the last one with a busy session (or StartTurn
\* failed otherwise)...
GiveUp(p) ==
    LET f == start[p].item IN
    /\ Startable(p)
    /\ BusyFor(f) \/ "refused" \in Faults
    /\ start' = [start EXCEPT ![p].pc = "release"]
    /\ UNCHANGED <<runvars, exec, steerdoc, followdoc, seen, fseen, kick, obs, entered>>

\* ...and the item is released for the next terminal boundary.
ReleaseFollowUp(p) ==
    /\ start[p].pc = "release"
    /\ Settle(p, "accepted", Proceed(start[p]))
    /\ UNCHANGED <<runvars, exec, entered>>

-----------------------------------------------------------------------------
Starter(p) ==
    \/ ClaimNextFollowUp(p) \/ RejectFollowUp(p) \/ DuplicateFollowUp(p)
    \/ ApplyFollowUp(p) \/ GiveUp(p) \/ ReleaseFollowUp(p)
    \/ \E r \in Runs : StartFollowUp(p, r)

Executor(t) ==
    \/ AskDecision(t) \/ Answer(t) \/ SetSteer(t)
    \/ \E kind \in {"tool", "final", "deferred"} : Persist(t, kind)
    \/ PersistFails(t) \/ ApplySteer(t) \/ ApplyFails(t)
    \/ ClaimNextSteer(t) \/ NoClaim(t)

Next ==
    \/ EndRun \/ Takeover
    \/ \E r \in Runs : UserTurn(r)
    \/ \E t \in 1..MaxToken : Executor(t)
    \/ \E x \in Steers :
         \/ \E of \in Follows \cup {None} : ReadForSteer(x, of)
         \/ EnqueueSteer(x) \/ CancelSteer(x)
    \/ \E f \in Follows :
         \/ ReadForFollowUp(f) \/ CancelFollowUp(f) \/ Kick(f)
         \/ \E p \in Procs : EnqueueFollowUp(p, f)
    \/ \E p \in Procs : Starter(p) \/ \E r \in Runs : Observe(p, r)

Spec == Init /\ [][Next]_vars

-----------------------------------------------------------------------------
(* Properties.                                                             *)

\* Type invariant.
QueueTypeOK ==
    /\ phase \in [Runs -> {"new", "live", "over"}]
    /\ source \in [Runs -> Follows \cup {None}]
    /\ view \in [run : Runs \cup {None}, token : 0..MaxToken, on : BOOLEAN,
                  waiting : BOOLEAN]
    /\ exec \in [1..MaxToken ->
          [run : Runs \cup {None},
           pc : {"none", "model", "asking", "persisted", "applied", "parked", "done",
                 "failed"},
           kind : {"none", "tool", "final", "deferred"},
           pending : Steers \cup {None}]]
    /\ steers \in [Steers ->
          [status : {"none", "accepted", "claimed", "applied", "rejected", "canceled"},
           run : Runs \cup {None}, token : 0..MaxToken, input : Inputs \cup {None}]]
    /\ closed \in Runs \cup {None}
    /\ follows \in [Follows ->
          [status : {"none", "accepted", "claimed", "applied", "rejected", "canceled"},
           during : Runs \cup {None}, trig : Runs \cup {None}, claim : 0..MaxClaims]]
    /\ trigger \in [Runs -> Follows \cup {None}]
    /\ seen \in [Steers -> [run : Runs \cup {None}, of : Follows \cup {None}]]
    /\ fseen \in [Follows -> Runs \cup {None}]
    /\ kick \in [Follows -> Procs \cup {None}]
    /\ start \in [Procs ->
          [pc : {"idle", "claim", "start", "apply", "release"}, trig : Runs \cup {None},
           item : Follows \cup {None}, claim : 0..MaxClaims, next : Runs \cup {None}]]
    /\ obs \in [Runs -> 0..MaxObs]
    /\ entered \in [Inputs -> Nat]

\* TerminalClaims is the only way back to a claimed follow-up, and it names
\* nothing that users can still edit or withdraw.
ClaimIndexed ==
    /\ \A f \in Follows : follows[f].status = "claimed" => trigger[follows[f].trig] = f
    /\ \A r \in Runs : trigger[r] # None =>
          follows[trigger[r]].status \in {"claimed", "applied"}

\* ClaimNextSteer: a run consumes its steers one at a time.
OneClaimPerRun ==
    \A x, y \in Steers :
        (steers[x].status = "claimed" /\ steers[y].status = "claimed"
            /\ steers[x].run = steers[y].run) => x = y

\* advanceSteerClaim: what the current owner is about to inject is claimed for
\* it in the document.
PendingIsHeld ==
    \A t \in 1..MaxToken :
        (Owns(t) /\ exec[t].pending # None) => HoldsClaim(t)

\* The queue documents and the consumers agree on who holds what, through
\* every interleaving of admissions, claims, releases, promotions and ends.
QueueInv == QueueTypeOK /\ ClaimIndexed /\ OneClaimPerRun /\ PendingIsHeld

\* queueStepCoordinator.commit: "Releasing the claim here would let the next
\* commit inject it a second time".  No input enters the history twice, be it
\* steered, promoted or started as a turn.
InputEntersOnce == \A i \in Inputs : entered[i] =< 1

\* Item lifecycle: applied means "the item entered a model step whose history
\* commit succeeded (steer), or started its continuation run (follow-up)".
AppliedIsInHistory ==
    /\ \A x \in Steers : steers[x].status = "applied" => entered[steers[x].input] > 0
    /\ \A f \in Follows : follows[f].status = "applied" => Started(f)

\* The waiting runs that were reserved under a second owner token.
TakenOver ==
    {r \in Runs : \E t, u \in 1..MaxToken : t # u /\ exec[t].run = r /\ exec[u].run = r}

\* The steers that carry the text of input i: its own, or the promoted follow-up's.
SteeredAs(i) == {x \in Steers : steers[x].status # "none" /\ steers[x].input = i}

\* The same promise for any number of processes and any fault, with its only two
\* exceptions.  A claim whose owner was taken over after the commit, and before the
\* apply, is injected again by the next owner; and a follow-up that was released by one
\* process while another had started it can be promoted to a steer.
EntersOnce ==
    \A i \in Inputs : entered[i] > 1 =>
        \/ \E x \in SteeredAs(i) : steers[x].run \in TakenOver
        \/ Started(i) /\ SteeredAs(i) # {}

\* advanceSteerClaim: a run that parks for a decision has no claim in flight, unless a
\* takeover brought it the claim of an owner that vanished.
ParkedHoldsNoClaim ==
    \A t \in 1..MaxToken, x \in Steers :
        (Owns(t) /\ exec[t].pc = "parked" /\ exec[t].run \notin TakenOver
            /\ steers[x].run = exec[t].run) => steers[x].status # "claimed"

\* What a step does with a claim, whoever else edits, promotes, starts or takes over.
ClaimsConsumedOnce == EntersOnce /\ ParkedHoldsNoClaim

\* closeSteerQueueForRun: once the end of a run was observed, no steer for it
\* is left pending or in flight, also none admitted against a stale view.
NoDeadSteer ==
    \A x \in Steers : steers[x].status \in {"accepted", "claimed"}
        => obs[steers[x].run] = 0

\* session-input-queues.md, Steer: "The resumed invocation claims at its next
\* committed step or interruption checkpoint, so no claim waits unapplied
\* across the decision."
NoClaimAcrossDecision ==
    \A t \in 1..MaxToken, x \in Steers :
        (Owns(t) /\ exec[t].pc = "parked" /\ steers[x].run = exec[t].run)
            => steers[x].status # "claimed"

\* Nothing is under way that could start a follow-up.
Quiet ==
    /\ view.run = None
    /\ \A p \in Procs : start[p].pc = "idle"
    /\ \A f \in Follows : kick[f] = None
    /\ \A r \in Runs : phase[r] = "over" => obs[r] > 0

\* session-input-queues.md, Follow-up: "so an item cannot wait for an unrelated
\* later run".  A session at rest has no pending follow-up.
QuietMeansDrained == Quiet => Pending(follows) = {}

\* session-input-queues.md, Item lifecycle: "canceled: the caller withdrew a
\* pending item.  Promoting a follow-up to a steer cancels the follow-up".  An
\* item that was withdrawn does not start a turn.
NoWithdrawnStarts ==
    \A f \in Follows : (follows[f].status = "canceled" /\ ~Started(f)) => ~Started(f)'
WithdrawnStaysOut == [][NoWithdrawnStarts]_vars

\* session-input-queues.md, Item lifecycle: "applied", "rejected" and "canceled" are
\* the ends of an item.  No late executor, admission, starter or observer of any
\* process edits an item again that has one.
Settled == {"applied", "rejected", "canceled"}
SettledStays ==
    [][/\ \A x \in Steers : steers[x].status \in Settled => steers'[x] = steers[x]
       /\ \A f \in Follows : follows[f].status \in Settled => follows'[f] = follows[f]]_vars
=============================================================================
