------------------------- MODULE MCSessionScenarios -------------------------
(* LiveQueue in three scenarios, one per initial state.  They all run in   *)
(* the state of the whole instance; each lets only its own items,          *)
(* processes and faults take part.                                         *)
EXTENDS LiveQueue, TLC

CONSTANTS SteerProcs,   \* the processes of the steering scenario
          SteeredRun,   \* the one run that takes steers beside follow-ups
          SharedProcs   \* the processes that share a queue of follow-ups

VARIABLE scenario

\* Steers of two successive runs; a waiting run may be taken over, stores fail.
Steering == INSTANCE LiveQueue WITH
    Follows <- {}, Unstartable <- {}, Procs <- SteerProcs, MaxClaims <- 1,
    Faults <- Faults \ {"refused"}

\* Two processes start follow-ups from one queue; starts are refused.
Sharing == INSTANCE LiveQueue WITH
    Steers <- {}, Steerable <- {}, Procs <- SharedProcs, MaxObs <- 1,
    Faults <- {"refused"}

\* One process serves steers and a follow-up; stores fail, no run is taken over.
Following == INSTANCE LiveQueue WITH
    Follows <- Follows \ Unstartable, Unstartable <- {}, Steerable <- {SteeredRun},
    Procs <- SteerProcs, MaxObs <- 1, Faults <- {"error"}

ScenarioInit == Init /\ scenario \in {"steering", "sharing", "following"}
ScenarioNext ==
    /\ \/ scenario = "steering" /\ Steering!Next
       \/ scenario = "sharing" /\ Sharing!Next
       \/ scenario = "following" /\ Following!Next
    /\ UNCHANGED scenario
ScenarioSpec == ScenarioInit /\ [][ScenarioNext]_<<vars, scenario>>

ScenarioSymmetry == Permutations(Steers) \cup Permutations(SharedProcs)

\* What a process that serves the queue alone, and keeps its runs, keeps to.  Two
\* processes, or a run taken over while it waits, do not: see the observations in
\* README.md and the run queue_withdrawn.
Alone == scenario = "following"

\* queueStepCoordinator.commit: no input enters the history twice, with no exception
\* left; as session-input-queues.md has it, "no claim waits unapplied across the
\* decision"; and "an item cannot wait for an unrelated later run".
AloneServes == Alone => InputEntersOnce /\ NoClaimAcrossDecision /\ QuietMeansDrained

\* session-input-queues.md: a withdrawn follow-up does not start a turn.
AloneWithdrawnStaysOut == [][Alone => NoWithdrawnStarts]_vars
=============================================================================
