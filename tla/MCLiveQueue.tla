---------------------------- MODULE MCLiveQueue ----------------------------
\* LiveQueue on small instances: items of a kind and processes are alike, but
\* for the follow-ups that cannot be started.
EXTENDS LiveQueue, TLC

SteerSymmetry == Permutations(Steers) \cup Permutations(Procs)
QueueSymmetry == SteerSymmetry \cup Permutations(Follows)
=============================================================================
