----------------------------- MODULE RunOutcome -----------------------------
(***************************************************************************)
(* What the session runtime promises its users about runs, with no owner,  *)
(* token, lease or process in sight.                                       *)
(*                                                                         *)
(* A session is a sequence of turns.  A turn opens only while no other     *)
(* turn of the session is open, takes the next position, writes steps to   *)
(* the session's history while it is open, may be sealed with a verdict    *)
(* and is finally closed with exactly one verdict: the sealed one if there *)
(* is one.  A closed run never changes again.  The history of a session    *)
(* may be deleted while none of its turns is live.                         *)
(*                                                                         *)
(* SessionLedger and HistoryReset implement this specification             *)
(* (SessionLedger!Outcome).                                                *)
(***************************************************************************)
EXTENDS Integers, Sequences

CONSTANTS
    Sessions,   \* chat sessions
    Runs,       \* run identities
    Verdicts,   \* the ways a run can end
    None        \* absent session or verdict

VARIABLES
    phase,      \* phase[r]: "unborn", "open", "sealed" or "closed"
    home,       \* home[r]: the session of r
    verdict,    \* verdict[r]: how r ends, once that is decided
    place,      \* place[r]: the position of r's turn in its session
    turns,      \* turns[s]: the next free turn position of s
    history     \* history[s]: the runs whose steps were written, in order

ovars == <<phase, home, verdict, place, turns, history>>

Live(r) == phase[r] \in {"open", "sealed"}

Init ==
    /\ phase = [r \in Runs |-> "unborn"]
    /\ home = [r \in Runs |-> None]
    /\ verdict = [r \in Runs |-> None]
    /\ place = [r \in Runs |-> 0]
    /\ turns = [s \in Sessions |-> 1]
    /\ history = [s \in Sessions |-> <<>>]

\* A new turn: the session has no live run.
Open(r, s) ==
    /\ phase[r] = "unborn"
    /\ \A q \in Runs : Live(q) => home[q] # s
    /\ phase' = [phase EXCEPT ![r] = "open"]
    /\ home' = [home EXCEPT ![r] = s]
    /\ place' = [place EXCEPT ![r] = turns[s]]
    /\ turns' = [turns EXCEPT ![s] = @ + 1]
    /\ UNCHANGED <<verdict, history>>

\* The outcome is decided; the run is still live.
Seal(r, v) ==
    /\ phase[r] = "open"
    /\ phase' = [phase EXCEPT ![r] = "sealed"]
    /\ verdict' = [verdict EXCEPT ![r] = v]
    /\ UNCHANGED <<home, place, turns, history>>

\* The run ends: with the sealed verdict if it has one.
Close(r, v) ==
    /\ Live(r)
    /\ phase[r] = "sealed" => v = verdict[r]
    /\ phase' = [phase EXCEPT ![r] = "closed"]
    /\ verdict' = [verdict EXCEPT ![r] = v]
    /\ UNCHANGED <<home, place, turns, history>>

\* An open run, which is the newest turn of its session, writes a step.
Write(r, s) ==
    /\ phase[r] = "open"
    /\ home[r] = s
    /\ \A q \in Runs : home[q] = s => place[q] =< place[r]
    /\ history' = [history EXCEPT ![s] = Append(@, r)]
    /\ UNCHANGED <<phase, home, verdict, place, turns>>

\* The histories of sessions without a live turn are deleted.
Clear(cleared) ==
    /\ \A r \in Runs : Live(r) => home[r] \notin cleared
    /\ history' = [s \in Sessions |-> IF s \in cleared THEN <<>> ELSE history[s]]
    /\ UNCHANGED <<phase, home, verdict, place, turns>>

Next ==
    \/ \E r \in Runs :
          \/ \E s \in Sessions : Open(r, s) \/ Write(r, s)
          \/ \E v \in Verdicts : Seal(r, v) \/ Close(r, v)
    \/ \E cleared \in SUBSET Sessions : Clear(cleared)

Spec == Init /\ [][Next]_ovars
=============================================================================
