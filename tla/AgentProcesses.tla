--------------------------- MODULE AgentProcesses ---------------------------
(***************************************************************************)
(* The supervisor of the agent CLI processes: every use leases the process *)
(* of a key; a process started from another configuration is retired and   *)
(* closes with its last lease; drains and shutdown close everything.       *)
(*   internal/agent/runtime/external/agentproc/supervisor.go               *)
(*                                                                         *)
(* Abstractions.  One key.  A generation is a number; time is left out: an *)
(* unleased process may always have been idle long enough.  Each Lease and *)
(* Drain call of the model runs once.                                      *)
(***************************************************************************)
EXTENDS Naturals, FiniteSets

CONSTANTS Leasers,    \* calls of Lease
          Drainers,   \* calls of Drain
          Prints,     \* fingerprints of configurations
          MaxGens     \* bound: generations started

ASSUME AgentProcessAssumption == MaxGens \in Nat /\ IsFiniteSet(Leasers)

Gens == 1..MaxGens

VARIABLES
    gst,     \* gst[g]: the generation's state, "none" before it
    gproc,   \* gproc[g]: its process: none, alive or dead
    gfp,     \* gfp[g]: the fingerprints it was asked for and reported
    grefs,   \* grefs[g]: its leases
    gerr,    \* gerr[g]: its start failed
    gstop,   \* gstop[g]: closeAfterStart
    gcur,    \* the slot's current generation, 0 if none
    gslot,   \* whether the key has a slot
    gblock,  \* the drains that hold the key off
    gdown,   \* Close: no, closing (it waits), returned, cut (returned as its ctx ended)
    glease,  \* glease[l]: a Lease call: pc, fingerprint, generation
    gdrain,  \* gdrain[d]: a Drain call: pc and the generations it waits for
    gidle    \* the generation reconcile found idle, 0 if none

gvars == <<gst, gproc, gfp, grefs, gerr, gstop, gcur, gslot, gblock, gdown, glease, gdrain, gidle>>
genVars == <<gst, gproc, gfp, grefs, gerr, gstop, gcur, gslot>>
callVars == <<gblock, gdown, glease, gdrain, gidle>>

AgentProcTypeOK ==
    /\ gst \in [Gens -> {"none", "starting", "live", "retired", "closing", "gone"}]
    /\ gproc \in [Gens -> {"none", "alive", "dead"}]
    /\ gfp \in [Gens -> SUBSET Prints]
    /\ grefs \in [Gens -> 0..Cardinality(Leasers)]
    /\ gerr \in [Gens -> BOOLEAN] /\ gstop \in [Gens -> BOOLEAN]
    /\ gcur \in Gens \cup {0} /\ gidle \in Gens \cup {0} /\ gslot \in BOOLEAN
    /\ gblock \subseteq Drainers /\ gdown \in {"no", "closing", "returned", "cut"}
    /\ glease \in [Leasers -> [pc: {"idle", "try", "block", "ready", "start", "held", "end"},
                               fp: Prints \cup {"none"}, gen: Gens \cup {0}]]
    /\ gdrain \in [Drainers -> [pc: {"idle", "wait", "holding", "end"}, gens: SUBSET Gens]]

AgentProcInit ==
    /\ gst = [g \in Gens |-> "none"] /\ gproc = [g \in Gens |-> "none"]
    /\ gfp = [g \in Gens |-> {}] /\ grefs = [g \in Gens |-> 0]
    /\ gerr = [g \in Gens |-> FALSE] /\ gstop = [g \in Gens |-> FALSE]
    /\ gcur = 0 /\ gidle = 0 /\ gslot = FALSE
    /\ gblock = {} /\ gdown = "no"
    /\ glease = [l \in Leasers |-> [pc |-> "idle", fp |-> "none", gen |-> 0]]
    /\ gdrain = [d \in Drainers |-> [pc |-> "idle", gens |-> {}]]

\* slot.gens: the generations not yet gone.
Remaining == {g \in Gens : gst[g] \notin {"none", "gone"}}
Serving(g) == gst[g] = "live" /\ gproc[g] = "alive"
LeaseAt(l, pc, g) == glease' = [glease EXCEPT ![l].pc = pc, ![l].gen = g]

\* closeLocked, on a set of generations: gst and gstop after it.
ClosedState(G) ==
    [g \in Gens |-> IF g \in G /\ gst[g] \in {"live", "retired"} THEN "closing" ELSE gst[g]]
ClosedStop(G) == [g \in Gens |-> gstop[g] \/ (g \in G /\ gst[g] = "starting")]
CloseGens(G) ==
    /\ gst' = ClosedState(G) /\ gstop' = ClosedStop(G)
    /\ gcur' = IF gcur \in G THEN 0 ELSE gcur

\* Mutant: a retired generation waits for the reconcile loop.
RetiredStateLazy(g) ==
    [gst EXCEPT ![g] = IF gst[g] = "live" THEN "retired" ELSE @]

\* retireLocked
RetiredState(g) ==
    [gst EXCEPT ![g] = IF gst[g] = "live" THEN IF grefs[g] = 0 THEN "closing" ELSE "retired" ELSE @]
-----------------------------------------------------------------------------
(* Lease *)

LeaseBegin(l, f) ==
    /\ glease[l].pc = "idle"
    /\ glease' = [glease EXCEPT ![l].pc = "try", ![l].fp = f]
    /\ UNCHANGED <<genVars, gblock, gdown, gdrain, gidle>>

\* Mutant: a lease does not look at the drains.
BlockedNever == FALSE

\* blockedLocked
Blocked == gblock # {}

\* A pass of the loop, when it ends without a generation.
LeaseRefused(l) ==
    /\ glease[l].pc = "try"
    /\ \/ gdown # "no" /\ LeaseAt(l, "end", 0)
       \/ gdown = "no" /\ Blocked /\ LeaseAt(l, "block", 0)
       \/ gdown = "no" /\ ~Blocked /\ gcur # 0 /\ gst[gcur] = "starting" /\ LeaseAt(l, "ready", gcur)
    /\ gslot' = (gslot \/ (gdown = "no" /\ ~Blocked))
    /\ UNCHANGED <<gst, gproc, gfp, grefs, gerr, gstop, gcur, gblock, gdown, gdrain, gidle>>

\* A pass that shares the current generation.
LeaseShared(l) ==
    /\ glease[l].pc = "try" /\ gdown = "no" /\ ~Blocked
    /\ gcur # 0 /\ Serving(gcur) /\ glease[l].fp \in gfp[gcur]
    /\ grefs' = [grefs EXCEPT ![gcur] = @ + 1]
    /\ LeaseAt(l, "held", gcur)
    /\ UNCHANGED <<gst, gproc, gfp, gerr, gstop, gcur, gslot, gblock, gdown, gdrain, gidle>>

\* A pass that starts a generation; a current one that cannot serve is retired.
LeaseStarts(l, n) ==
    /\ glease[l].pc = "try" /\ gdown = "no" /\ ~Blocked
    /\ gcur # 0 => gst[gcur] # "starting" /\ ~(Serving(gcur) /\ glease[l].fp \in gfp[gcur])
    /\ gst[n] = "none" /\ \A g \in Gens : g < n => gst[g] # "none"
    /\ LET retired == IF gcur = 0 THEN gst ELSE RetiredState(gcur)
       IN  gst' = [retired EXCEPT ![n] = "starting"]
    /\ gfp' = [gfp EXCEPT ![n] = {glease[l].fp}]
    /\ grefs' = [grefs EXCEPT ![n] = 1]
    /\ gcur' = n /\ gslot' = TRUE
    /\ LeaseAt(l, "start", n)
    /\ UNCHANGED <<gproc, gerr, gstop, gblock, gdown, gdrain, gidle>>

\* Mutant: a start that ends serves its caller whatever happened meanwhile.
SupersededNever(g) == FALSE

\* startedLocked: the generation was taken out of service while it started.
Superseded(g) == gdown # "no" \/ gstop[g] \/ gcur # g

\* The start ends: f is the fingerprint it reports.
LeaseStarted(l, f) ==
    LET g == glease[l].gen IN
    /\ glease[l].pc = "start"
    /\ gproc' = [gproc EXCEPT ![g] = "alive"]
    /\ gfp' = [gfp EXCEPT ![g] = @ \cup {f}]
    /\ IF Superseded(g)
       THEN /\ gst' = [gst EXCEPT ![g] = "closing"] /\ grefs' = [grefs EXCEPT ![g] = 0]
            /\ gcur' = IF gcur = g THEN 0 ELSE gcur
            /\ LeaseAt(l, "try", 0)
       ELSE /\ gst' = [gst EXCEPT ![g] = "live"]
            /\ LeaseAt(l, "held", g)
            /\ UNCHANGED <<grefs, gcur>>
    /\ UNCHANGED <<gerr, gstop, gslot, gblock, gdown, gdrain, gidle>>

LeaseStartFails(l) ==
    LET g == glease[l].gen IN
    /\ glease[l].pc = "start"
    /\ gst' = [gst EXCEPT ![g] = "gone"] /\ gerr' = [gerr EXCEPT ![g] = TRUE]
    /\ grefs' = [grefs EXCEPT ![g] = 0]
    /\ gcur' = IF gcur = g THEN 0 ELSE gcur
    /\ LeaseAt(l, "end", 0)
    /\ UNCHANGED <<gproc, gfp, gstop, gslot, gblock, gdown, gdrain, gidle>>

\* waitFor: the block ends, the start of another caller ends, or the caller gives up.
LeaseWaits(l) ==
    LET g == glease[l].gen IN
    /\ \/ glease[l].pc \in {"block", "ready"} /\ LeaseAt(l, "end", 0)
       \/ glease[l].pc = "block" /\ ~Blocked /\ LeaseAt(l, "try", 0)
       \/ /\ glease[l].pc = "ready" /\ gst[g] # "starting"
          /\ LeaseAt(l, IF gerr[g] /\ glease[l].fp \in gfp[g] THEN "end" ELSE "try", 0)
    /\ UNCHANGED <<genVars, gblock, gdown, gdrain, gidle>>

\* releaseFunc
Release(l) ==
    LET g == glease[l].gen
        last == grefs[g] = 1 /\ gst[g] = "retired"
    IN  /\ glease[l].pc = "held"
        /\ grefs' = [grefs EXCEPT ![g] = @ - 1]
        /\ gst' = IF last THEN ClosedState({g}) ELSE gst
        /\ LeaseAt(l, "end", 0)
        /\ UNCHANGED <<gproc, gfp, gerr, gstop, gcur, gslot, gblock, gdown, gdrain, gidle>>
-----------------------------------------------------------------------------
(* Processes, and what closes them *)

\* The process exits on its own.
ProcessDies(g) ==
    /\ gproc[g] = "alive" /\ gst[g] \in {"live", "retired"}
    /\ gproc' = [gproc EXCEPT ![g] = "dead"]
    /\ UNCHANGED <<gst, gfp, grefs, gerr, gstop, gcur, gslot, callVars>>

\* The goroutine of closeLocked: Process.Close returned, goneLocked.
CloseReturns(g) ==
    /\ gst[g] = "closing"
    /\ gst' = [gst EXCEPT ![g] = "gone"]
    /\ gproc' = [gproc EXCEPT ![g] = "dead"]
    /\ UNCHANGED <<gfp, grefs, gerr, gstop, gcur, gslot, callVars>>

\* Retire and, on behalf of a process that is not starting, MarkBroken.
Retire ==
    /\ gcur # 0
    /\ gst' = RetiredState(gcur)
    /\ gstop' = [gstop EXCEPT ![gcur] = @ \/ gst[gcur] = "starting"]
    /\ gcur' = 0
    /\ UNCHANGED <<gproc, gfp, grefs, gerr, gslot, callVars>>

\* reconcile, the pass under the lock; an idle generation is looked at again.
Reconcile ==
    LET useless == {g \in Gens : \/ gst[g] = "retired" /\ (grefs[g] = 0 \/ gproc[g] = "dead")
                                 \/ gst[g] = "live" /\ gproc[g] = "dead"}
    IN  /\ gdown = "no" /\ gidle = 0
        /\ CloseGens(useless)
        /\ gidle' = IF gcur # 0 /\ Serving(gcur) /\ grefs[gcur] = 0 THEN gcur ELSE 0
        /\ gslot' = (gslot /\ Remaining # {})
        /\ UNCHANGED <<gproc, gfp, grefs, gerr, gblock, gdown, glease, gdrain>>

\* Mutant: the idle generation is closed without another look.
StillIdleAlways == gst[gidle] = "live"

\* The second check of reconcile, after Busy was asked outside the lock.
StillIdle == gst[gidle] = "live" /\ gcur = gidle /\ grefs[gidle] = 0

CloseIdle(busy) ==
    /\ gidle # 0 /\ gidle' = 0
    /\ IF ~busy /\ StillIdle THEN CloseGens({gidle}) ELSE UNCHANGED <<gst, gstop, gcur>>
    /\ UNCHANGED <<gproc, gfp, grefs, gerr, gslot, gblock, gdown, glease, gdrain>>

\* Drain: the generations are closed under the lock and waited for outside it.
DrainBegins(d) ==
    /\ gdrain[d].pc = "idle" /\ gdown = "no"
    /\ ~(gslot /\ Blocked)
    /\ gblock' = gblock \cup {d}
    /\ CloseGens(Remaining)
    /\ gdrain' = [gdrain EXCEPT ![d] = [pc |-> "wait", gens |-> Remaining]]
    /\ UNCHANGED <<gproc, gfp, grefs, gerr, gslot, gdown, glease, gidle>>

DrainReturns(d) ==
    /\ gdrain[d].pc = "wait" /\ \A g \in gdrain[d].gens : gst[g] = "gone"
    /\ gdrain' = [gdrain EXCEPT ![d].pc = "holding"]
    /\ UNCHANGED <<genVars, gblock, gdown, glease, gidle>>

\* unblock, by the caller or because its context ended while it waited.
Unblock(d) ==
    /\ gdrain[d].pc \in {"wait", "holding"}
    /\ gdrain' = [gdrain EXCEPT ![d] = [pc |-> "end", gens |-> {}]]
    /\ gblock' = gblock \ {d}
    /\ UNCHANGED <<genVars, gdown, glease, gidle>>

\* Close
CloseAll ==
    /\ gdown = "no" /\ gdown' = "closing"
    /\ CloseGens(Remaining)
    /\ UNCHANGED <<gproc, gfp, grefs, gerr, gslot, gblock, glease, gdrain, gidle>>

\* Close returns: the loop has ended, and every generation is gone ...
CloseAllReturns ==
    /\ gdown = "closing" /\ Remaining = {} /\ gidle = 0
    /\ gdown' = "returned"
    /\ UNCHANGED <<genVars, gblock, glease, gdrain, gidle>>

\* ... or its context ended: the generations that are left close, or start, without it.
CloseAllGivesUp ==
    /\ gdown = "closing" /\ gidle = 0
    /\ gdown' = "cut"
    /\ UNCHANGED <<genVars, gblock, glease, gdrain, gidle>>

LeaseNext ==
    \E l \in Leasers :
        \/ \E f \in Prints : LeaseBegin(l, f) \/ LeaseStarted(l, f)
        \/ LeaseRefused(l) \/ LeaseShared(l) \/ \E n \in Gens : LeaseStarts(l, n)
        \/ LeaseStartFails(l) \/ LeaseWaits(l) \/ Release(l)

AgentProcNext ==
    \/ LeaseNext
    \/ \E g \in Gens : ProcessDies(g) \/ CloseReturns(g)
    \/ Retire \/ Reconcile \/ \E busy \in BOOLEAN : CloseIdle(busy)
    \/ \E d \in Drainers : DrainBegins(d) \/ DrainReturns(d) \/ Unblock(d)
    \/ CloseAll \/ CloseAllReturns \/ CloseAllGivesUp

AgentProcSpec == AgentProcInit /\ [][AgentProcNext]_gvars
-----------------------------------------------------------------------------
(* Properties *)

Users(g) == {l \in Leasers : glease[l].pc \in {"start", "held"} /\ glease[l].gen = g}

\* "A leased process is never closed for idleness" (supervisor.go), although Busy is
\* asked between the two looks: only a drain or Close closes a working process under a lease.
LeasedIsKept ==
    [][\A g \in Gens :
         Users(g) # {} /\ gproc[g] = "alive" /\ gst[g] # "closing" /\ gst'[g] = "closing"
           => gblock' # gblock \/ gdown' # gdown \/ Users(g)' = {}]_gvars

\* While a drain holds the key, no process of it exists: the starts that were under way
\* when it began and the leases that come meanwhile included.  Nor after Close returned,
\* unless its context ended first.
DrainedMeansGone ==
    (gdown = "returned" \/ \E d \in Drainers : gdrain[d].pc = "holding")
        => \A g \in Gens : gst[g] \in {"none", "gone"} /\ gproc[g] # "alive"

\* A retired process has a lease that will close it, and every lease is counted once:
\* the counter of a generation in service is the number of its users.
RetiredIsUsed ==
    \A g \in Gens :
        /\ gst[g] = "retired" => Users(g) # {}
        /\ gst[g] \in {"live", "retired"} => grefs[g] = Cardinality(Users(g))

\* At most one process of the key serves: a generation that was replaced while it started
\* never goes live beside its successor, and none goes live after Close.
OneServes ==
    \A g \in Gens : gst[g] = "live" => gcur = g /\ gdown = "no"

\* However Close ends its wait, nothing it leaves behind can serve or stay: a process is
\* being closed, and a start still under way is marked to be closed when it ends.
ClosedIsEnding ==
    gdown # "no" =>
        \A g \in Gens : /\ gst[g] \notin {"live", "retired"}
                        /\ gst[g] = "starting" => gstop[g]
                        /\ gproc[g] = "alive" => gst[g] = "closing"

\* The table of generations agrees with the leases and with the processes.
ProcessInv ==
    /\ AgentProcTypeOK /\ OneServes /\ RetiredIsUsed
    /\ DrainedMeansGone /\ ClosedIsEnding
=============================================================================
