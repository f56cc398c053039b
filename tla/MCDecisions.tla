---------------------------- MODULE MCDecisions ----------------------------
(* Decisions on a small instance. *)
EXTENDS Decisions, TLC

\* Two responses matter to each other when they are to the same request; to different
\* requests they are only sent under one control id and in the absence of faults.
ResponsesMeet ==
    \A c, e \in Calls :
        (call'[c].d # None /\ call'[e].d # None /\ call'[c].d # call'[e].d)
            => call'[c].k = call'[e].k /\ spent' = {}

MeetingNext == DecisionsNext /\ ResponsesMeet
MeetingSpec == DecisionsInit /\ [][MeetingNext]_dvars

DecisionsSymmetry ==
    Permutations(Servers) \cup Permutations(Requests) \cup Permutations(Controls)
        \cup Permutations(Calls)
=============================================================================
