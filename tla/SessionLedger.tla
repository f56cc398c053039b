--------------------------- MODULE SessionLedger ---------------------------
(***************************************************************************)
(* The durable ledger of session runs: table session_runs, the session's   *)
(* turn counter, history reset lease and persistence fence, and the        *)
(* sequence fencing tokens are drawn from (db/postgres/queries/            *)
(* session_runs.sql, session/ledger/postgres.go, runtimefence/postgres.go, *)
(* chat/message/step_commit.go).                                           *)
(*                                                                         *)
(* Every operation is one PostgreSQL transaction, so one atomic action.    *)
(* The caller is arbitrary here: any process may present any token that    *)
(* was ever drawn, however stale.  RunLifecycle says who the callers are.  *)
(*                                                                         *)
(* Abstractions: one team and one bot; rows are never deleted; error codes *)
(* and messages follow the state they are written with and are left out; a *)
(* persisted step is the identity of the run that wrote it; the decision   *)
(* requests and compaction logs that Activate and a reclaim supersede or   *)
(* carry over are other components' tables, which nothing here reads.      *)
(***************************************************************************)
EXTENDS Integers, Sequences, FiniteSets

CONSTANTS
    Sessions,   \* bot_sessions.id
    Runs,       \* session_runs.run_id
    Invs,       \* session_runs.invocation_id
    Owners,     \* session_runs.owner_id
    Gens,       \* session_runs.live_generation
    None,       \* SQL NULL
    MaxToken,   \* bound: fencing tokens drawn
    MaxSteps    \* bound: steps persisted per session

ASSUME NoneAssumption ==
    None \notin Sessions \cup Runs \cup Invs \cup Owners \cup Gens

ASSUME BoundAssumption == MaxToken \in Nat /\ MaxSteps \in Nat

VARIABLES
    runs,       \* runs[r]: the row of r; state "none" when there is no row
    nextPos,    \* bot_sessions.next_turn_position
    fence,      \* bot_sessions.runtime_fencing_token
    resetting,  \* sessions with an unexpired history reset lease
    seq,        \* last value of session_runtime_fencing_token_seq
    hist        \* hist[s]: the runs that persisted a step, oldest first

lvars == <<runs, nextPos, fence, resetting, seq, hist>>

ActiveStates == {"accepted", "running", "waiting", "finishing"}
TerminalStates == {"completed", "aborted", "failed", "lost"}
\* What an owner may propose: lost is a conclusion of the reaper only.
OwnerStates == TerminalStates \ {"lost"}

Rows == [state    : ActiveStates \cup TerminalStates \cup {"none"},
         session  : Sessions \cup {None},
         inv      : Invs \cup {None},
         pos      : Nat,
         owner    : Owners \cup {None},
         token    : Nat,
         gen      : Gens \cup {None},
         abort    : BOOLEAN,
         proposed : OwnerStates \cup {"none"}]

NoRow == [state |-> "none", session |-> None, inv |-> None, pos |-> 0,
          owner |-> None, token |-> 0, gen |-> None, abort |-> FALSE,
          proposed |-> "none"]

Active(r) == runs[r].state \in ActiveStates
Terminal(r) == runs[r].state \in TerminalStates
ActiveIn(s) == {r \in Runs : runs[r].session = s /\ Active(r)}
Admitted(s, i) == {r \in Runs : runs[r].session = s /\ runs[r].inv = i}

LedgerInit ==
    /\ runs = [r \in Runs |-> NoRow]
    /\ nextPos = [s \in Sessions |-> 1]
    /\ fence = [s \in Sessions |-> 0]
    /\ resetting = {}
    /\ seq = 0
    /\ hist = [s \in Sessions |-> <<>>]

-----------------------------------------------------------------------------
(* Admission.                                                              *)

\* Mutant: a run that is finishing no longer holds the session's slot.
AdmitAnswerPastFinishing(s, i) ==
    IF s \in resetting THEN "reset"
    ELSE IF \E r \in ActiveIn(s) : runs[r].state # "finishing" THEN "busy"
         ELSE IF Admitted(s, i) # {} THEN "replay" ELSE "new"

\* Mutant: no lookup of an earlier admission of the invocation.
AdmitAnswerForgetful(s, i) ==
    IF s \in resetting THEN "reset"
    ELSE IF ActiveIn(s) # {} THEN "busy" ELSE "new"

\* The answer to (s, i): the fast path's unlocked read first, then what the
\* insert finds.  "replay" is an existing row, "new" inserts one.
AdmitAnswer(s, i) ==
    IF s \in resetting THEN "reset"
    ELSE IF ActiveIn(s) # {}
         THEN IF ActiveIn(s) \cap Admitted(s, i) # {} THEN "replay" ELSE "busy"
         ELSE IF Admitted(s, i) # {} THEN "replay" ELSE "new"

Admit(r, s, i) ==
    /\ runs[r].state = "none"
    /\ AdmitAnswer(s, i) = "new"
    /\ runs' = [runs EXCEPT ![r] = [NoRow EXCEPT
                    !.state = "accepted", !.session = s, !.inv = i,
                    !.pos = nextPos[s]]]
    /\ nextPos' = [nextPos EXCEPT ![s] = @ + 1]
    /\ UNCHANGED <<fence, resetting, seq, hist>>

-----------------------------------------------------------------------------
(* Ownership: draw a token, claim the run with it, promote it to the fence *)

NextFencingToken ==
    /\ seq < MaxToken
    /\ seq' = seq + 1
    /\ UNCHANGED <<runs, nextPos, fence, resetting, hist>>

CanClaim(r, t) ==
    /\ runs[r].state = "accepted"
    /\ runs[r].session \notin resetting
    /\ runs[r].token < t

Claim(r, o, t, g) ==
    /\ CanClaim(r, t)
    /\ runs' = [runs EXCEPT ![r] = [@ EXCEPT !.state = "running", !.owner = o,
                                             !.token = t, !.gen = g]]
    /\ UNCHANGED <<nextPos, fence, resetting, seq, hist>>

\* Mutant: any token is promoted.
CanActivateAny(s, t) == TRUE

\* A token at or above the fence takes over the session's persistence.
CanActivate(s, t) == fence[s] =< t

Activate(s, t) ==
    /\ CanActivate(s, t)
    /\ fence' = [fence EXCEPT ![s] = t]
    /\ UNCHANGED <<runs, nextPos, resetting, seq, hist>>

\* Recovery takes over a run parked on a user decision: ownership, fence and
\* live generation move together in one transaction.
CanReclaim(r, prev, t) ==
    /\ runs[r].state = "waiting"
    /\ ~runs[r].abort
    /\ runs[r].token = prev
    /\ prev < t
    /\ fence[runs[r].session] = prev
    /\ runs[r].session \notin resetting

ReclaimWaitingDecision(r, o, prev, t, g) ==
    /\ CanReclaim(r, prev, t)
    /\ runs' = [runs EXCEPT ![r] = [@ EXCEPT !.owner = o, !.token = t, !.gen = g]]
    /\ fence' = [fence EXCEPT ![runs[r].session] = t]
    /\ UNCHANGED <<nextPos, resetting, seq, hist>>

-----------------------------------------------------------------------------
(* Work under a token.                                                     *)

Owned(r, t, states) == runs[r].token = t /\ runs[r].state \in states

SetWaitingDecision(r, t) ==
    /\ Owned(r, t, {"running", "waiting"})
    /\ runs' = [runs EXCEPT ![r].state = "waiting"]
    /\ UNCHANGED <<nextPos, fence, resetting, seq, hist>>

Resume(r, t) ==
    /\ Owned(r, t, {"running", "waiting"})
    /\ runs' = [runs EXCEPT ![r].state = "running"]
    /\ UNCHANGED <<nextPos, fence, resetting, seq, hist>>

\* Mutant: only the session's fence is checked, not the run.
CanPersistByFence(r, t, interrupted) == runs[r].session # None /\ fence[runs[r].session] = t

\* One step's messages: the token must be the session's fence and the run's
\* owner token.  A complete step must also precede any abort intent.
CanPersist(r, t, interrupted) ==
    /\ Owned(r, t, {"running", "waiting"})
    /\ fence[runs[r].session] = t
    /\ interrupted \/ ~runs[r].abort

PersistAgentStep(r, t, interrupted) ==
    /\ CanPersist(r, t, interrupted)
    /\ Len(hist[runs[r].session]) < MaxSteps
    /\ hist' = [hist EXCEPT ![runs[r].session] = Append(@, r)]
    /\ UNCHANGED <<runs, nextPos, fence, resetting, seq>>

\* Not fenced: any process may record the user's intent to stop.
CanAbort(r) == runs[r].state \in {"accepted", "running", "waiting"}

RequestAbort(r) ==
    /\ CanAbort(r)
    /\ runs' = [runs EXCEPT ![r].abort = TRUE]
    /\ UNCHANGED <<nextPos, fence, resetting, seq, hist>>

-----------------------------------------------------------------------------
(* Ending a run: an owner proposes, then anyone with the token finalizes.  *)

\* A caller that does not allow a waiting run to be ended leaves it as it is.
CanPrepare(r, t) == Owned(r, t, {"running", "waiting", "finishing"})

\* Mutant: an owner that is being stopped proposes lost itself.
ProposalLost(row, st) ==
    IF row.proposed # "none" THEN row.proposed
    ELSE IF row.abort THEN "lost" ELSE st

\* Mutant: the proposal at hand overrides what was recorded.
ProposalLatest(row, st) == st

\* The first proposal is kept; a recorded abort intent beats a new one.
Proposal(row, st) ==
    IF row.proposed # "none" THEN row.proposed
    ELSE IF row.abort THEN "aborted" ELSE st

PrepareFinish(r, t, st) ==
    /\ CanPrepare(r, t)
    /\ runs' = [runs EXCEPT ![r] = [@ EXCEPT !.state = "finishing",
                                             !.proposed = Proposal(runs[r], st)]]
    /\ UNCHANGED <<nextPos, fence, resetting, seq, hist>>

\* expected: the states the caller saw the run in (any active one if the
\* caller names none).
CanFinalize(r, t, expected) == Owned(r, t, ActiveStates \cap expected)

\* Mutant: the finalizer's verdict stands.
VerdictGiven(row, st) == IF st = "lost" /\ row.abort THEN "aborted" ELSE st

\* Mutant: an owner that vanishes takes the abort intent with it.
VerdictDeaf(row, st) == IF row.state = "finishing" THEN row.proposed ELSE st

\* A durable proposal wins over any other verdict; lost yields to an abort.
Verdict(row, st) ==
    IF row.state = "finishing" THEN row.proposed
    ELSE IF st = "lost" /\ row.abort THEN "aborted" ELSE st

Finalize(r, t, st, expected) ==
    /\ CanFinalize(r, t, expected)
    /\ runs' = [runs EXCEPT ![r].state = Verdict(runs[r], st)]
    /\ UNCHANGED <<nextPos, fence, resetting, seq, hist>>

-----------------------------------------------------------------------------
(* History reset: a lease that blocks admission and claims, under which    *)
(* the run that is in the way is fenced out and aborted.                   *)

AcquireReset(s) ==
    /\ s \notin resetting
    /\ resetting' = resetting \cup {s}
    /\ UNCHANGED <<runs, nextPos, fence, seq, hist>>

\* Released by its holder, or expired.
EndReset(s) ==
    /\ s \in resetting
    /\ resetting' = resetting \ {s}
    /\ UNCHANGED <<runs, nextPos, fence, seq, hist>>

\* t: the token the holder read with the run.  An owned run's session gets a
\* token of its own, drawn in the same transaction, so that the owner can
\* persist nothing any more.
FenceAndFinalizeOrphan(r, t) ==
    /\ runs[r].session \in resetting
    /\ CanFinalize(r, t, ActiveStates)
    /\ runs' = [runs EXCEPT ![r].state = Verdict(runs[r], "aborted")]
    /\ IF runs[r].owner # None
       THEN /\ seq < MaxToken
            /\ seq' = seq + 1
            /\ fence' = [fence EXCEPT ![runs[r].session] = seq + 1]
       ELSE UNCHANGED <<seq, fence>>
    /\ UNCHANGED <<nextPos, resetting, hist>>

-----------------------------------------------------------------------------
(* What the reaper reads.                                                  *)

StaleGenerationRuns(g) ==
    {r \in Runs : Active(r) /\ runs[r].gen # None /\ runs[r].gen # g}

\* Mutant: the owner is expected to have claimed the run.
OrphanedRunsOwned == {r \in Runs : runs[r].state = "accepted" /\ runs[r].owner # None}

\* Mutant: a claimed run counts as orphaned too.
OrphanedRunsClaimed == {r \in Runs : runs[r].state \in {"accepted", "running"}}

OrphanedRuns == {r \in Runs : runs[r].state = "accepted" /\ runs[r].owner = None}

-----------------------------------------------------------------------------
Tokens == 0..seq

\* The steps of one run under one token.
Work(r, t) ==
    \/ SetWaitingDecision(r, t)
    \/ Resume(r, t)
    \/ \E b \in BOOLEAN : PersistAgentStep(r, t, b)
    \/ \E st \in OwnerStates : PrepareFinish(r, t, st)
    \/ \E st \in TerminalStates, e \in {ActiveStates} \cup {{x} : x \in ActiveStates} :
           Finalize(r, t, st, e)
    \/ FenceAndFinalizeOrphan(r, t)

Next ==
    \/ NextFencingToken
    \/ \E s \in Sessions : AcquireReset(s) \/ EndReset(s)
    \/ \E s \in Sessions, t \in 1..seq : Activate(s, t)
    \/ \E r \in Runs :
        \/ RequestAbort(r)
        \/ \E s \in Sessions, i \in Invs : Admit(r, s, i)
        \/ \E t \in Tokens : Work(r, t)
        \/ \E t \in 1..seq, o \in Owners, g \in Gens :
            \/ Claim(r, o, t, g)
            \/ \E p \in Tokens : ReclaimWaitingDecision(r, o, p, t, g)

Spec == LedgerInit /\ [][Next]_lvars

-----------------------------------------------------------------------------
(* Properties.                                                             *)

\* Type invariant.
TypeOK ==
    /\ runs \in [Runs -> Rows]
    /\ nextPos \in [Sessions -> Nat \ {0}]
    /\ fence \in [Sessions -> Nat]
    /\ resetting \in SUBSET Sessions
    /\ seq \in Nat
    /\ hist \in [Sessions -> Seq(Runs)]

\* SR-OWN-001, the index session_runs_single_active: a session has at most one
\* active run, and it is the newest turn of the session, so that whoever may
\* still write is never behind a turn that already has an answer.
ActiveRunIsNewestTurn ==
    \A r, q \in Runs :
        (Active(r) /\ runs[q].session = runs[r].session /\ q # r)
            => Terminal(q) /\ runs[q].pos < runs[r].pos

\* SR-ADM-001, the index session_runs_invocation_unique: one invocation of a
\* session is admitted as one run, whatever is retried, aborted or reset.
OneRunPerInvocation ==
    \A r, q \in Runs :
        (runs[r].state # "none" /\ runs[q].session = runs[r].session
            /\ runs[q].inv = runs[r].inv) => q = r

\* The persisted history of a session follows its turn order: no step of an
\* earlier turn is written after a step of a later one, however late a fenced
\* out owner wakes up (runtimefence.Lock, LockSessionRunForAgentStepCommit).
HistoryInTurnOrder ==
    \A s \in Sessions : \A i, j \in 1..Len(hist[s]) :
        i =< j => runs[hist[s][i]].pos =< runs[hist[s][j]].pos

\* FinalizeSessionRun and PrepareSessionRunFinish: the first durable proposal
\* decides.  A proposed outcome never changes, and the run ends with it.
ProposalDecides ==
    \A r \in Runs :
        /\ runs[r].state = "finishing" => runs[r].proposed # "none"
        /\ (Terminal(r) /\ runs[r].proposed # "none")
              => runs[r].state = runs[r].proposed

\* A run whose abort was requested and that went through a proposal ended
\* aborted: the proposal that was durable before the intent would have made
\* RequestSessionRunAbort refuse it.
AbortBeatsProposal ==
    \A r \in Runs :
        (runs[r].abort /\ runs[r].proposed # "none") => runs[r].proposed = "aborted"

\* Ownership only moves forward: no step lowers the token of a run or of a
\* session's fence, none hands out a token twice or one that was not drawn,
\* and a run that has ended keeps its row.
OwnershipAdvances ==
    [][/\ seq =< seq'
       /\ \A s \in Sessions : fence[s] =< fence'[s] /\ fence'[s] =< seq'
       /\ \A r \in Runs :
            /\ runs[r].token =< runs'[r].token /\ runs'[r].token =< seq'
            /\ Terminal(r) => runs'[r] = runs[r]]_lvars

\* The inductive invariant behind the properties above: what links a row to
\* its session's counter, token sequence and history.
RowsNumbered ==
    \A r \in Runs :
        /\ runs[r].state = "none" => runs[r] = NoRow
        /\ runs[r].state # "none" =>
              /\ runs[r].session \in Sessions
              /\ runs[r].inv \in Invs
              /\ runs[r].pos < nextPos[runs[r].session]

TokensDrawn ==
    /\ \A r \in Runs : runs[r].token =< seq
    /\ \A s \in Sessions : fence[s] =< seq

HistoryOfSession ==
    \A s \in Sessions : \A i \in 1..Len(hist[s]) :
        runs[hist[s][i]].session = s

ProposalEndsWork ==
    \A r \in Runs : runs[r].proposed # "none" => Terminal(r) \/ runs[r].state = "finishing"

\* A row that is not open any more and the counters around it never disagree:
\* positions and tokens in use were handed out, every persisted step belongs
\* to a run of that session, and a proposal is only held by a run on its way
\* out (AdmitLockedSessionRun, ClaimLockedSessionRun, PrepareSessionRunFinish).
LedgerInv ==
    /\ TypeOK
    /\ RowsNumbered
    /\ TokensDrawn
    /\ ActiveRunIsNewestTurn
    /\ OneRunPerInvocation
    /\ HistoryOfSession
    /\ HistoryInTurnOrder
    /\ ProposalDecides
    /\ ProposalEndsWork
    /\ AbortBeatsProposal

-----------------------------------------------------------------------------
(* The ledger implements RunOutcome: sealed is a durable proposal, closed  *)
(* a terminal state.                                                       *)

PhaseOf(row) ==
    CASE row.state = "none" -> "unborn"
      [] row.state = "finishing" -> "sealed"
      [] row.state \in TerminalStates -> "closed"
      [] OTHER -> "open"

VerdictOf(row) ==
    CASE row.state = "finishing" -> row.proposed
      [] row.state \in TerminalStates -> row.state
      [] OTHER -> None

Outcome == INSTANCE RunOutcome WITH
    Verdicts <- TerminalStates,
    phase <- [r \in Runs |-> PhaseOf(runs[r])],
    home <- [r \in Runs |-> runs[r].session],
    verdict <- [r \in Runs |-> VerdictOf(runs[r])],
    place <- [r \in Runs |-> runs[r].pos],
    turns <- nextPos,
    history <- hist

\* The specification of outcomes, as a property of the ledger.
ImplementsRunOutcome == Outcome!Spec
=============================================================================
