-------------------------- MODULE MCLifeScenarios --------------------------
(* RunLifecycle in three scenarios, one per initial state.  All run in the *)
(* state of the whole instance; each lets only its own runs, processes,    *)
(* users and faults take part.                                             *)
EXTENDS RunLifecycle, TLC

CONSTANTS OneRun, OneInv,         \* the run of the scenarios with one run
          PairOwners, PairReaper, \* the processes, one of which reaps
          ParkOwners              \* the processes of "parking", which both reap

VARIABLE scenario

\* Two runs; leases expire under a live owner.
Takeover == INSTANCE RunLifecycle WITH
    Owners <- PairOwners, Reapers <- PairReaper,
    MaxToken <- 2, MaxSteps <- 0, Uses <- {}, Faults <- {"partition"}

\* Abort against parking, shutdown, crashes and failing stores.
Aborting == INSTANCE RunLifecycle WITH
    Runs <- OneRun, Invs <- OneInv, Owners <- PairOwners, Reapers <- PairReaper,
    MaxToken <- 2, Faults <- {"crash", "error"}

\* A run that parks; the passes of two reapers overlap, and they may die half way.
Parking == INSTANCE RunLifecycle WITH
    Runs <- OneRun, Invs <- OneInv, Owners <- ParkOwners, Reapers <- ParkOwners,
    MaxSteps <- 0, Uses <- {"park"}, Faults <- {"crash", "partition"}

\* The two runs, and their invocations, are alike: they are used in their order.
PairRun == CHOOSE f \in [1..2 -> Runs] : f[1] # f[2]
PairInv == CHOOSE f \in [1..2 -> Invs] : f[1] # f[2]
PairInOrder ==
    /\ runs'[PairRun[2]].state # "none" => runs'[PairRun[1]].state # "none"
    /\ runs'[PairRun[1]].inv # PairInv[2]

ScenarioInit == Init /\ scenario \in {"takeover", "aborting", "parking"}
ScenarioNext ==
    /\ \/ scenario = "takeover" /\ Takeover!LifeNext /\ PairInOrder
       \/ scenario = "aborting" /\ Aborting!LifeNext
       \/ scenario = "parking" /\ Parking!LifeNext
    /\ UNCHANGED scenario
ScenarioSpec == ScenarioInit /\ [][ScenarioNext]_<<vars, scenario>>

ParkSymmetry == Permutations(ParkOwners)
=============================================================================
