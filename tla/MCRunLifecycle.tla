--------------------------- MODULE MCRunLifecycle ---------------------------
(* RunLifecycle on small instances for TLC.                                *)
EXTENDS RunLifecycle, TLC

\* Runs, processes and invocations are interchangeable: no action tells two
\* apart.  Only runs without liveness properties use it.
LifeSymmetry == Permutations(Runs) \cup Permutations(Invs)
                    \cup Permutations(Reapers) \cup Permutations(Owners \ Reapers)
=============================================================================
