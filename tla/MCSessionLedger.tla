-------------------------- MODULE MCSessionLedger --------------------------
(* SessionLedger, and HistoryReset over it, on a small instance for TLC:   *)
(* one scenario each, chosen initially.                                    *)
EXTENDS HistoryReset, TLC

CONSTANTS ResetGens,   \* the incarnations of Redis beside resets
          ResetSteps   \* bound: steps persisted beside resets

VARIABLE scenario

Clearing == INSTANCE HistoryReset WITH Gens <- ResetGens, MaxSteps <- ResetSteps

\* The resets of the bare ledger have no holder.
LeasesOfLedger == lease' = [k \in Scopes |-> [by |-> None, live |-> k \in resetting']]

\* A second reset for the bot would be as one for the only session; how an owner ends
\* its run does not matter to a reset.
ResetRestriction ==
    /\ Cardinality({x \in Resets : rst'[x].scope = "bot"}) <= 1
    /\ \A r \in Runs :
         /\ ~runs'[r].abort
         /\ runs'[r].proposed \in {"none", "completed"}
         /\ runs'[r].state \notin {"failed", "lost"}
         /\ runs'[r].state = "aborted" => (r \in hid' \/ runs'[r].token = 0)

LedgersInit == ResetInit /\ scenario \in {"ledger", "resetting"}
LedgersNext ==
    /\ \/ scenario = "ledger" /\ Next /\ LeasesOfLedger /\ UNCHANGED <<rst, gone, hid>>
       \/ scenario = "resetting" /\ Clearing!ResetNext /\ ResetRestriction
    /\ UNCHANGED scenario
LedgersSpec == LedgersInit /\ [][LedgersNext]_<<zvars, scenario>>

\* Runs, invocations and resets are interchangeable: no action tells two apart.
LedgerSymmetry == Permutations(Runs) \cup Permutations(Invs) \cup Permutations(Resets)
=============================================================================
