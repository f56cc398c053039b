---------------------------- MODULE HistoryReset ----------------------------
(***************************************************************************)
(* Clearing the history of a session or of a whole bot.  A reset takes a   *)
(* tokenised lease, waits until every run it covers has ended, deletes the *)
(* messages in a transaction that validates the lease, and gives the lease *)
(* back.  Leases expire under slow or dead resets, and those of a bot and  *)
(* of its sessions exclude each other.                                     *)
(*   internal/agent/runtime/session/reset.go, ledger/postgres.go,          *)
(*   internal/runtimefence/reset.go, db/postgres/queries/messages.sql,     *)
(*   session_runtime_resets.sql                                            *)
(*                                                                         *)
(* The runs are those of SessionLedger, and so are their owners: the one   *)
(* that is asked to stop a run may, or may not, do anything.  A token is   *)
(* used by the call that drew it (claimAndStart).                          *)
(*                                                                         *)
(* Abstractions.  One bot.  The agent processes a reset closes are         *)
(* AgentProcesses, the projections it restarts LiveView; the live mirror   *)
(* of the lease "is never a correctness signal" and is left out.  Renewing *)
(* a lease is not to let it expire.                                        *)
(***************************************************************************)
EXTENDS SessionLedger

CONSTANTS Resets,      \* reset calls, each with a token of its own
          ResetScopes  \* the scopes they are asked for: sessions, or "bot"

VARIABLES
    lease,   \* lease[k]: token of the lease on scope k, and whether it is unexpired
    rst,     \* rst[x]: where the reset x stands
    gone,    \* gone[s]: the turn positions below it belong to a deleted history
    hid      \* runs whose error_code is history_reset

zvars == <<lvars, lease, rst, gone, hid>>

Scopes == Sessions \cup {"bot"}
Covers(k) == IF k = "bot" THEN Sessions ELSE {k}
Excludes(k) == {k} \cup (IF k = "bot" THEN Sessions ELSE {"bot"})

NotBegun == [pc |-> "new", scope |-> "none", todo |-> {}]
Seen == [run: Runs, token: Nat, owned: BOOLEAN]   \* an active run as drain read it

ResetTypeOK ==
    /\ lease \in [Scopes -> [by: Resets \cup {None}, live: BOOLEAN]]
    /\ \A x \in Resets :
         /\ rst[x].pc \in {"new", "drain", "stop", "delete", "release", "end"}
         /\ rst[x].scope \in Scopes \cup {"none"} /\ rst[x].todo \subseteq Seen
    /\ gone \in [Sessions -> Nat] /\ hid \subseteq Runs
    /\ resetting = UNION {Covers(k) : k \in {j \in Scopes : lease[j].live}}

ResetInit ==
    /\ LedgerInit
    /\ lease = [k \in Scopes |-> [by |-> None, live |-> FALSE]]
    /\ rst = [x \in Resets |-> NotBegun]
    /\ gone = [s \in Sessions |-> 0]
    /\ hid = {}

Goto(x, pc) == rst' = [rst EXCEPT ![x].pc = pc]

\* The lease of every scope, and the sessions that are thereby being reset.
SetLease(k, by, live) ==
    /\ lease' = [lease EXCEPT ![k] = [by |-> by, live |-> live]]
    /\ resetting' = UNION {Covers(j) : j \in {i \in Scopes : lease'[i].live}}

\* Mutant: a lease is only kept from calls for the same scope.
FreeInScope(k) == ~lease[k].live

\* AcquireLockedBotRuntimeReset, AcquireLockedBotSessionRuntimeReset.
Free(k) == \A j \in Excludes(k) : ~lease[j].live

AcquireLease(x, k) ==
    /\ rst[x].pc = "new"
    /\ Free(k)
    /\ SetLease(k, x, TRUE)
    /\ rst' = [rst EXCEPT ![x].pc = "drain", ![x].scope = k]
    /\ UNCHANGED <<runs, nextPos, fence, seq, hist, gone, hid>>

\* Mutant: the token alone makes a lease valid.
ValidTokenOnly(x) == lease[rst[x].scope].by = x

\* ValidateResetLocked, under the lock of the bot.
Valid(x) == lease[rst[x].scope] = [by |-> x, live |-> TRUE]

\* Time passes; the holder did not, or could not, renew.
LeaseExpires(k) ==
    /\ lease[k].live
    /\ SetLease(k, lease[k].by, FALSE)
    /\ UNCHANGED <<runs, nextPos, fence, seq, hist, rst, gone, hid>>

\* drainHistoryReset reads the active runs; when there is none the agent processes
\* are closed and the projections dropped, after which the caller may delete.
Drain(x) ==
    /\ rst[x].pc = "drain"
    /\ LET active == UNION {ActiveIn(s) : s \in Covers(rst[x].scope)}
       IN  rst' = [rst EXCEPT ![x].pc = IF active = {} THEN "delete" ELSE "stop",
                              ![x].todo = {[run |-> r, token |-> runs[r].token,
                                            owned |-> runs[r].owner # None] : r \in active}]
    /\ UNCHANGED <<lvars, lease, gone, hid>>

Handled(x, o) ==
    rst' = [rst EXCEPT ![x].todo = @ \ {o}, ![x].pc = IF rst[x].todo = {o} THEN "drain" ELSE @]

\* stopRunForHistoryReset, a routed run: its owner is told to abort it, and may.
StopRouted(x, o) ==
    /\ rst[x].pc = "stop" /\ o \in rst[x].todo
    /\ o.owned
    /\ Handled(x, o)
    /\ UNCHANGED <<lvars, lease, gone, hid>>

\* fenceAndFinalizeOrphanForHistoryReset: nobody owns the run, or its route is gone.
StopOrphan(x, o) ==
    /\ rst[x].pc = "stop" /\ o \in rst[x].todo /\ Valid(x)
    /\ Handled(x, o)
    /\ IF CanFinalize(o.run, o.token, ActiveStates)
       THEN /\ FenceAndFinalizeOrphan(o.run, o.token)
            /\ hid' = IF runs[o.run].state = "finishing" THEN hid ELSE hid \cup {o.run}
       ELSE UNCHANGED <<lvars, hid>>
    /\ UNCHANGED <<lease, gone>>

\* Mutant: the fence stays at the token of the last owner.
ClearedFenceKept(s) == fence[s]

\* ClearHistoryBySession, ClearHistoryByBot: every session gets a new token.  It is
\* the same here for all the sessions of a bot, and no run has it.
ClearedFence(s) == seq + 1

\* Mutant: runs that were never claimed are not marked.
RetiredClaimed(s) == {}

\* retired_runs: the ended runs without a token to order them by are marked.
Retired(s) ==
    {r \in Runs : runs[r].session = s /\ runs[r].token = 0 /\ runs[r].state \in TerminalStates}

\* DeleteBySession, DeleteByBot in InResetTransaction.
DeleteHistory(x) ==
    /\ rst[x].pc = "delete" /\ Valid(x)
    /\ seq < MaxToken
    /\ LET cleared == Covers(rst[x].scope) IN
         /\ hist' = [s \in Sessions |-> IF s \in cleared THEN <<>> ELSE hist[s]]
         /\ fence' = [s \in Sessions |-> IF s \in cleared THEN ClearedFence(s) ELSE fence[s]]
         /\ gone' = [s \in Sessions |-> IF s \in cleared THEN nextPos[s] ELSE gone[s]]
         /\ hid' = hid \cup UNION {Retired(s) : s \in cleared}
    /\ seq' = seq + 1
    /\ Goto(x, "release")
    /\ UNCHANGED <<runs, nextPos, resetting, lease>>

\* A failing step, or a renewal that misses the lease (renewHistoryReset cancels the
\* reset), ends it without the deletion.
GiveUp(x) ==
    /\ rst[x].pc \in {"drain", "stop", "delete"}
    /\ rst' = [rst EXCEPT ![x].pc = "release", ![x].todo = {}]
    /\ UNCHANGED <<lvars, lease, gone, hid>>

\* ReleaseReset, by token.  A process that died does not get here: its lease expires.
Release(x) ==
    /\ rst[x].pc = "release"
    /\ Goto(x, "end")
    /\ IF lease[rst[x].scope].by = x
       THEN SetLease(rst[x].scope, None, FALSE)
       ELSE UNCHANGED <<lease, resetting>>
    /\ UNCHANGED <<runs, nextPos, fence, seq, hist, gone, hid>>

Unused == (1..seq) \ ({runs[r].token : r \in Runs} \cup {fence[s] : s \in Sessions})

\* What callers other than resets do to the ledger.
LedgerStep(r) ==
    \/ RequestAbort(r)
    \/ \E s \in Sessions, i \in Invs : Admit(r, s, i)
    \/ \E t \in Unused, o \in Owners, g \in Gens :
         Claim(r, o, t, g) \/ ReclaimWaitingDecision(r, o, runs[r].token, t, g)
    \/ runs[r].token > 0 /\ Activate(runs[r].session, runs[r].token)
    \/ \E t \in Tokens :
         \/ SetWaitingDecision(r, t) \/ Resume(r, t)
         \/ \E b \in BOOLEAN : PersistAgentStep(r, t, b)
         \/ \E st \in OwnerStates : PrepareFinish(r, t, st)
         \/ \E st \in TerminalStates : Finalize(r, t, st, ActiveStates)

ResetNext ==
    \/ /\ \/ NextFencingToken /\ \E r \in Runs : runs[r].state \in {"accepted", "waiting"}
          \/ \E r \in Runs : LedgerStep(r)
       /\ UNCHANGED <<lease, rst, gone, hid>>
    \/ \E k \in Scopes : LeaseExpires(k)
    \/ \E x \in Resets :
         \/ \E k \in ResetScopes : AcquireLease(x, k)
         \/ Drain(x)
         \/ \E o \in rst[x].todo : StopRouted(x, o) \/ StopOrphan(x, o)
         \/ DeleteHistory(x) \/ GiveUp(x) \/ Release(x)

ResetSpec == ResetInit /\ [][ResetNext]_zvars

-----------------------------------------------------------------------------
(* Properties *)

\* GetLatestSessionRun: the run a client is shown when the live state is gone.
Latest(s) == {r \in Runs : runs[r].session = s /\ \A q \in Runs : runs[q].session = s => runs[q].pos =< runs[r].pos}
Reported(s) ==
    {r \in Latest(s) : r \notin hid /\ ~(runs[r].token > 0 /\ fence[s] > runs[r].token)}

Holds(x) == rst[x].pc \in {"drain", "stop", "delete"} /\ Valid(x)

\* reset.go ("Every run the reset covers is terminal now and none can start until
\* release"): a reset that may delete has no active run before it, however its lease
\* expired, was taken over or met a reset of the other scope.
DrainedStaysDrained ==
    \A x \in Resets : (rst[x].pc = "delete" /\ Valid(x)) =>
        \A s \in Covers(rst[x].scope) : ActiveIn(s) = {}

\* messages.sql, ClearHistoryBySession ("Runs go with the history they belong to"):
\* once a history was deleted, no run of it writes into the new one, is taken up again
\* or is reported to a client, whatever its late owner does.
ClearedIsForgotten ==
    \A s \in Sessions :
        /\ \A i \in DOMAIN hist[s] : runs[hist[s][i]].pos >= gone[s]
        /\ \A r \in ActiveIn(s) \cup Reported(s) : runs[r].pos >= gone[s]

\* session_runtime_resets.sql ("a bot-wide operation must not proceed while one of the
\* bot's sessions is mid-reset"): two resets that may delete cover different sessions.
ResetsExclude ==
    \A x, y \in Resets : (x # y /\ Holds(x) /\ Holds(y)) => Covers(rst[x].scope) \cap Covers(rst[y].scope) = {}

\* The ledger keeps its invariant though histories are deleted under it, and the lease
\* keeps runs and other resets away.
ResetInv == ResetTypeOK /\ LedgerInv /\ DrainedStaysDrained /\ ResetsExclude
=============================================================================
