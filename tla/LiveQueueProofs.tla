--------------------------- MODULE LiveQueueProofs ---------------------------
(***************************************************************************)
(* Proofs about LiveQueue, for any number of runs, processes, items,       *)
(* claims and faults: the documents and those who hold claims agree, what  *)
(* is shown as applied is in the history, and no steer is left for a run   *)
(* whose end was observed.                                                 *)
(*                                                                         *)
(* No input enters the history twice, and no claim waits across a          *)
(* decision, with two exceptions that the invariant names: a waiting run   *)
(* that was taken over with its claim, and a follow-up that was both       *)
(* started and promoted.  With one process a withdrawn follow-up starts no *)
(* turn; without takeovers no exception is left.  TLC has counterexamples  *)
(* to each beyond that.                                                    *)
(***************************************************************************)
EXTENDS LiveQueue, FiniteSetTheorems, TLAPS

Execs == [run : Runs \cup {None},
          pc : {"none", "model", "asking", "persisted", "applied", "parked", "done", "failed"},
          kind : {"none", "tool", "final", "deferred"}, pending : Steers \cup {None}]
Statuses == {"none", "accepted", "claimed", "applied", "rejected", "canceled"}
SteerRows == [status : Statuses, run : Runs \cup {None}, token : 0..MaxToken,
              input : Inputs \cup {None}]
FollowRows == [status : Statuses, during : Runs \cup {None}, trig : Runs \cup {None},
               claim : 0..MaxClaims]
StartRows == [pc : {"idle", "claim", "start", "apply", "release"}, trig : Runs \cup {None},
              item : Follows \cup {None}, claim : 0..MaxClaims, next : Runs \cup {None}]
Views == [run : Runs \cup {None}, token : 0..MaxToken, on : BOOLEAN, waiting : BOOLEAN]

\* The view shows a live run under the token of its executor.
RunsOk ==
    /\ view.run # None => /\ view.token \in 1..MaxToken /\ exec[view.token].run = view.run
                          /\ phase[view.run] = "live"
    /\ \A r \in Runs : /\ phase[r] # "over" => obs[r] = 0
                       /\ phase[r] = "new" => source[r] = None

\* A steer, or one about to be admitted, is for a run whose end was not observed while it
\* was pending; what the admission read of both documents still holds.
SteersOk ==
    \A x \in Steers :
        /\ steers[x].status # "none" =>
             steers[x].run \in Runs /\ phase[steers[x].run] # "new" /\ steers[x].input \in Inputs
        /\ steers[x].status \in {"accepted", "claimed"} => obs[steers[x].run] = 0
        /\ seen[x].run # None =>
             /\ steers[x].status = "none" /\ obs[seen[x].run] = 0 /\ phase[seen[x].run] # "new"
             /\ seen[x].of # None => follows[seen[x].of].status = "accepted"

\* A trigger names the item that was claimed for it.
FollowsOk ==
    /\ ClaimIndexed
    /\ \A f \in Follows : /\ follows[f].status = "claimed" => follows[f].trig \in Runs
                          /\ fseen[f] # None => follows[f].status = "none"
                          /\ kick[f] # None => follows[f].during \in Runs
    /\ \A r \in Runs : trigger[r] # None => follows[trigger[r]].trig = r

StartersOk ==
    \A p \in Procs :
        /\ start[p].pc # "idle" => start[p].trig \in Runs
        /\ start[p].pc \in {"start", "apply", "release"} => start[p].item \in Follows
        /\ start[p].pc = "apply" => Started(start[p].item)

\* What an executor has persisted is in the history.
ExecsOk ==
    /\ PendingIsHeld
    /\ \A t \in 1..MaxToken :
         exec[t].pc = "persisted" /\ exec[t].pending # None =>
             /\ steers[exec[t].pending].status # "none"
             /\ entered[steers[exec[t].pending].input] > 0

QueueIInv ==
    /\ QueueTypeOK /\ RunsOk /\ SteersOk /\ OneClaimPerRun /\ FollowsOk /\ StartersOk
    /\ ExecsOk /\ AppliedIsInHistory

-----------------------------------------------------------------------------
(* What enters the history: any number of processes, takeovers, faults.    *)

\* Tokens are drawn in order.
InOrder == \A t \in 1..MaxToken : exec[t].run # None <=> t =< Drawn
WaitingRun == view.waiting => view.run # None

\* The inputs that no steer brought into the history (a start as a turn may have), and
\* those that at most one steer did.
Fresh == {i \in Inputs : entered[i] = IF Started(i) THEN 1 ELSE 0}
Single == {i \in Inputs : entered[i] =< IF Started(i) THEN 2 ELSE 1}

\* A claim of the run in the view is in the hands of its executor, or of one that failed;
\* what it has not persisted yet has not entered the history.
Handed ==
    \A t \in 1..MaxToken :
        /\ exec[t].pc \notin {"model", "asking", "persisted"} => exec[t].pending = None
        /\ (Owns(t) /\ view.run \notin TakenOver) =>
             /\ \A x \in Steers : steers[x].status = "claimed" /\ steers[x].run = view.run =>
                                      exec[t].pending = x \/ exec[t].pc = "failed"
             /\ exec[t].pc \in {"model", "asking"} /\ exec[t].pending # None =>
                    steers[exec[t].pending].input \in Fresh

\* An input is a steer's own or a follow-up's that was promoted, and no two steers share it.
InputsApart ==
    /\ \A x \in Steers : steers[x].status # "none" =>
         \/ steers[x].input = x
         \/ /\ steers[x].input \in Follows /\ follows[steers[x].input].status = "canceled"
    /\ \A x, y \in Steers :
         steers[x].status # "none" /\ steers[y].status # "none"
             /\ steers[x].input = steers[y].input => x = y

\* What no steer carries, or a steer that is still accepted, has not entered the history;
\* what was carried by a steer of a run with one owner has entered it once by the steer.
EnteredOnce ==
    /\ \A i \in Inputs : SteeredAs(i) = {} => i \in Fresh
    /\ \A x \in Steers : steers[x].run \notin TakenOver =>
         /\ steers[x].status = "accepted" => steers[x].input \in Fresh
         /\ steers[x].status # "none" => steers[x].input \in Single

EntersIInv == InOrder /\ WaitingRun /\ Handed /\ InputsApart /\ EnteredOnce

-----------------------------------------------------------------------------
(* One process serves the queue.                                           *)

OneProcess == \A p, q \in Procs : p = q

\* The process holds the claim of what it starts, and there is no other claim.
ClaimsHeld ==
    /\ \A p \in Procs : start[p].pc \in {"start", "apply", "release"} => Matches(p)
    /\ \A f \in Follows : follows[f].status = "claimed" =>
         \E p \in Procs : start[p].pc \in {"start", "apply", "release"} /\ start[p].item = f
    /\ \A p \in Procs : start[p].pc \in {"start", "release"} => ~Started(start[p].item)
    /\ \A f \in Follows : Started(f) => follows[f].status \in {"claimed", "applied"}

\* Without takeovers a run has one executor.
OneOwner ==
    /\ \A t \in 1..MaxToken : exec[t].run # None => phase[exec[t].run] # "new"
    /\ TakenOver = {}

\* One process serves the queues, and no waiting run is taken over.
ServedAlone == OneProcess /\ "takeover" \notin Faults
-----------------------------------------------------------------------------
(* Types.                                                                  *)

\* How many tokens were drawn is a number.
LEMMA DrawnIsNat == Drawn \in Nat /\ (Drawn < MaxToken => Drawn + 1 \in 1..MaxToken)
<1>1. MaxToken \in Nat
  BY QueueAssumption
<1>2. IsFiniteSet(1..MaxToken)
  BY <1>1, FS_Interval
<1>3. IsFiniteSet({t \in 1..MaxToken : exec[t].run # None})
  BY <1>2, FS_Subset
<1>4. Drawn \in Nat
  BY <1>3, FS_CardinalityType DEF Drawn
<1> QED BY <1>1, <1>4

LEMMA QueueBegins == Init => QueueIInv
<1> SUFFICES ASSUME Init PROVE QueueIInv
  OBVIOUS
<1> USE DEF Init
<1>1. QueueTypeOK
  BY QueueAssumption DEF QueueTypeOK, NoView, NoExec, NoSteer, NoFollow, Unread, AtRest
<1>2. \A x \in Steers : steers[x].status = "none" /\ seen[x].run = None
  BY DEF NoSteer, Unread
<1>3. \A f \in Follows : follows[f].status = "none" /\ fseen[f] = None /\ kick[f] = None
  BY DEF NoFollow
<1>4. \A t \in 1..MaxToken : exec[t].pc = "none" /\ exec[t].pending = None
  BY DEF NoExec
<1>5. RunsOk /\ SteersOk /\ OneClaimPerRun
  BY <1>2 DEF RunsOk, SteersOk, OneClaimPerRun, NoView
<1>6. FollowsOk
  BY <1>3 DEF FollowsOk, ClaimIndexed
<1>7. StartersOk
  BY DEF StartersOk, AtRest
<1>8. ExecsOk
  BY <1>4 DEF ExecsOk, PendingIsHeld
<1>9. AppliedIsInHistory
  BY <1>2, <1>3 DEF AppliedIsInHistory
<1> QED BY <1>1, <1>5, <1>6, <1>7, <1>8, <1>9 DEF QueueIInv

\* The type invariant by the rows of the documents.
LEMMA Types ==
    QueueTypeOK <=>
        /\ phase \in [Runs -> {"new", "live", "over"}]
        /\ source \in [Runs -> Follows \cup {None}] /\ view \in Views
        /\ exec \in [1..MaxToken -> Execs] /\ steers \in [Steers -> SteerRows]
        /\ closed \in Runs \cup {None} /\ follows \in [Follows -> FollowRows]
        /\ trigger \in [Runs -> Follows \cup {None}]
        /\ seen \in [Steers -> [run : Runs \cup {None}, of : Follows \cup {None}]]
        /\ fseen \in [Follows -> Runs \cup {None}] /\ kick \in [Follows -> Procs \cup {None}]
        /\ start \in [Procs -> StartRows] /\ obs \in [Runs -> 0..MaxObs]
        /\ entered \in [Inputs -> Nat]
BY Zenon DEF QueueTypeOK, Views, Execs, SteerRows, FollowRows, StartRows, Statuses

\* The documents' rows after a write of the status keep their types.
LEMMA WrittenTypes ==
    ASSUME QueueTypeOK
    PROVE  /\ SteersWritten =>
                seen' \in [Steers -> [run : Runs \cup {None}, of : Follows \cup {None}]]
           /\ FollowsWritten =>
                /\ seen' \in [Steers -> [run : Runs \cup {None}, of : Follows \cup {None}]]
                /\ fseen' \in [Follows -> Runs \cup {None}]
<1>1. /\ seen \in [Steers -> [run : Runs \cup {None}, of : Follows \cup {None}]]
      /\ fseen \in [Follows -> Runs \cup {None}]
  BY Types
<1>2. Unread \in [run : Runs \cup {None}, of : Follows \cup {None}]
  BY DEF Unread
<1> QED BY <1>1, <1>2 DEF SteersWritten, FollowsWritten

LEMMA BeginTypes ==
    ASSUME QueueTypeOK, NEW r \in Runs, NEW f \in Follows \cup {None}, Begin(r, f)
    PROVE  /\ phase' \in [Runs -> {"new", "live", "over"}]
           /\ source' \in [Runs -> Follows \cup {None}] /\ view' \in Views
           /\ exec' \in [1..MaxToken -> Execs]
           /\ view'.run = r /\ view'.token = Drawn + 1 /\ Drawn + 1 \in 1..MaxToken
           /\ exec'[Drawn + 1].run = r /\ exec'[Drawn + 1].pending = None
           /\ exec'[Drawn + 1].pc \in {"none", "model"}
           /\ \A t \in 1..MaxToken : t # Drawn + 1 => exec'[t] = exec[t]
           /\ phase'[r] = "live" /\ source'[r] = f
           /\ \A s \in Runs : s # r => phase'[s] = phase[s] /\ source'[s] = source[s]
<1> DEFINE d == Drawn + 1
           row == [NoExec EXCEPT !.run = r, !.pc = IF r \in Steerable THEN "model" ELSE "none"]
<1>1. /\ phase \in [Runs -> {"new", "live", "over"}]
      /\ source \in [Runs -> Follows \cup {None}] /\ exec \in [1..MaxToken -> Execs]
  BY Types
<1>2. d \in 1..MaxToken
  BY DrawnIsNat DEF Begin
<1>3. /\ phase' = [phase EXCEPT ![r] = "live"] /\ source' = [source EXCEPT ![r] = f]
      /\ view' = [NoView EXCEPT !.run = r, !.token = d] /\ exec' = [exec EXCEPT ![d] = row]
  BY DEF Begin
<1> HIDE DEF d
<1>4. row \in Execs /\ row.run = r /\ row.pending = None /\ row.pc \in {"none", "model"}
  BY DEF Execs, NoExec
<1> HIDE DEF row
<1>5. view' \in Views /\ view'.run = r /\ view'.token = d
  <2>1. view' = [run |-> r, token |-> d, on |-> FALSE, waiting |-> FALSE]
    BY <1>3 DEF NoView
  <2>2. d \in 0..MaxToken
    BY <1>2, QueueAssumption
  <2> QED BY <2>1, <2>2 DEF Views
<1>6. /\ exec' \in [1..MaxToken -> Execs] /\ exec'[d] = row
      /\ \A t \in 1..MaxToken : t # d => exec'[t] = exec[t]
  BY <1>1, <1>2, <1>3, <1>4
<1> QED BY <1>1, <1>2, <1>3, <1>4, <1>5, <1>6 DEF d

-----------------------------------------------------------------------------
(* What a step leaves alone.                                               *)

\* A step that leaves the follow-ups' document and those who are about to write it alone.
LEMMA FollowsFrame ==
    ASSUME FollowsOk, UNCHANGED <<follows, trigger, fseen, kick>>
    PROVE  FollowsOk'
BY DEF FollowsOk, ClaimIndexed

\* What was started stays started.
LEMMA StartersFrame ==
    ASSUME StartersOk, UNCHANGED <<start, source>>
    PROVE  StartersOk'
BY DEF StartersOk, Started

LEMMA SteersFrame ==
    ASSUME SteersOk, UNCHANGED <<steers, seen, obs, follows>>,
           \A r \in Runs : phase[r] # "new" => phase'[r] # "new",
           QueueTypeOK
    PROVE  SteersOk'
<1>1. /\ steers \in [Steers -> SteerRows]
      /\ seen \in [Steers -> [run : Runs \cup {None}, of : Follows \cup {None}]]
  BY Types
<1>2. \A x \in Steers : seen[x].run \in Runs \cup {None}
  BY <1>1
<1> QED BY <1>2 DEF SteersOk

\* An executor that writes no document: it keeps its claim or drops it, and what it says it
\* has persisted without a claim is nothing.
LEMMA ExecutorMoves ==
    ASSUME QueueIInv, QueueTypeOK', NEW t \in 1..MaxToken,
           UNCHANGED <<phase, source, steerdoc, followdoc, seen, fseen, kick, start, obs, entered>>,
           view'.run = view.run, view'.token = view.token,
           \A u \in 1..MaxToken : u # t => exec'[u] = exec[u],
           exec'[t].run = exec[t].run, exec'[t].pending \in {exec[t].pending, None},
           exec'[t].pc = "persisted" => exec'[t].pending = None
    PROVE  QueueIInv'
<1>1. /\ steers' = steers /\ follows' = follows /\ trigger' = trigger /\ phase' = phase
      /\ source' = source /\ seen' = seen /\ obs' = obs /\ entered' = entered
  BY DEF steerdoc, followdoc
<1>2. RunsOk'
  <2>1. exec'[view.token].run = exec[view.token].run \/ view.token \notin 1..MaxToken
    OBVIOUS
  <2> QED BY <1>1, <2>1 DEF QueueIInv, RunsOk
<1>3. SteersOk' /\ OneClaimPerRun' /\ AppliedIsInHistory'
  BY <1>1 DEF QueueIInv, SteersOk, OneClaimPerRun, AppliedIsInHistory, Started
<1>4. FollowsOk' /\ StartersOk'
  BY <1>1, FollowsFrame, StartersFrame DEF QueueIInv
<1>5. ExecsOk'
  <2>1. \A u \in 1..MaxToken : /\ Owns(u)' <=> Owns(u)
                               /\ exec'[u].pending \in {exec[u].pending, None}
    BY DEF Owns
  <2>2. PendingIsHeld'
    BY <1>1, <2>1 DEF QueueIInv, ExecsOk, PendingIsHeld, HoldsClaim
  <2> QED BY <1>1, <2>1, <2>2 DEF QueueIInv, ExecsOk
<1> QED BY <1>2, <1>3, <1>4, <1>5 DEF QueueIInv

\* A step of the starters, of the users with their follow-ups, or of an admission: neither
\* runs nor executors nor steers move.
LEMMA FollowsMove ==
    ASSUME QueueIInv, QueueTypeOK', UNCHANGED <<runvars, exec, steers, obs, entered>>,
           FollowsOk', StartersOk', SteersOk',
           \A f \in Follows : follows'[f].status = "applied" =>
                                  follows[f].status = "applied" \/ Started(f)
    PROVE  QueueIInv'
<1>1. phase' = phase /\ source' = source /\ view' = view
  BY DEF runvars
<1>2. RunsOk' /\ OneClaimPerRun' /\ ExecsOk'
  BY <1>1 DEF QueueIInv, RunsOk, OneClaimPerRun, ExecsOk, PendingIsHeld, HoldsClaim, Owns
<1>3. AppliedIsInHistory'
  BY <1>1 DEF QueueIInv, AppliedIsInHistory, Started
<1> QED BY <1>2, <1>3 DEF QueueIInv

-----------------------------------------------------------------------------
(* The executors.                                                          *)

LEMMA ViewTyped ==
    ASSUME QueueTypeOK
    PROVE  /\ view \in Views /\ view.run \in Runs \cup {None} /\ view.token \in 0..MaxToken
           /\ view.on \in BOOLEAN /\ view.waiting \in BOOLEAN
BY Types DEF Views

\* What exec is when the row of t is replaced.
LEMMA ExecRow ==
    ASSUME QueueTypeOK, NEW t \in 1..MaxToken, NEW row \in Execs, exec' = [exec EXCEPT ![t] = row]
    PROVE  /\ exec' \in [1..MaxToken -> Execs] /\ exec'[t] = row
           /\ \A u \in 1..MaxToken : u # t => exec'[u] = exec[u]
BY Types

\* A type invariant that only a change of the view and of one executor could break.
LEMMA ExecutorTypes ==
    ASSUME QueueTypeOK, view' \in Views, exec' \in [1..MaxToken -> Execs],
           UNCHANGED <<phase, source, steerdoc, followdoc, seen, fseen, kick, start, obs, entered>>
    PROVE  QueueTypeOK'
<1>1. /\ steers' = steers /\ closed' = closed /\ follows' = follows /\ trigger' = trigger
  BY DEF steerdoc, followdoc
<1> QED BY <1>1, Types DEF QueueTypeOK, Views, Execs, SteerRows, FollowRows, StartRows, Statuses

LEMMA SetSteerKeeps ==
    ASSUME QueueIInv, NEW t \in 1..MaxToken, SetSteer(t)
    PROVE  QueueIInv'
<1>1. QueueTypeOK
  BY DEF QueueIInv
<1>2. /\ view' = [view EXCEPT !.on = ~@] /\ exec' = exec
      /\ UNCHANGED <<phase, source, steerdoc, followdoc, seen, fseen, kick, start, obs, entered>>
  BY DEF SetSteer
<1>3. view' \in Views /\ view'.run = view.run /\ view'.token = view.token
  <2>1. PICK b \in BOOLEAN : view' = [view EXCEPT !.on = b]
    BY <1>2, Zenon
  <2> QED BY <1>1, <2>1, ViewTyped DEF Views
<1>4. exec \in [1..MaxToken -> Execs] /\ exec[t] \in Execs
  BY <1>1, Types
<1>5. QueueTypeOK'
  BY <1>1, <1>2, <1>3, <1>4, ExecutorTypes
<1>6. RunsOk' /\ OneClaimPerRun' /\ ExecsOk'
  BY <1>2, <1>3 DEF QueueIInv, RunsOk, OneClaimPerRun, ExecsOk, PendingIsHeld, HoldsClaim, Owns,
                    steerdoc
<1>7. SteersOk' /\ AppliedIsInHistory'
  BY <1>2 DEF QueueIInv, SteersOk, AppliedIsInHistory, Started, steerdoc, followdoc
<1>8. FollowsOk' /\ StartersOk'
  BY <1>2, FollowsFrame, StartersFrame DEF QueueIInv, followdoc
<1> QED BY <1>5, <1>6, <1>7, <1>8 DEF QueueIInv

LEMMA AskDecisionKeeps ==
    ASSUME QueueIInv, NEW t \in 1..MaxToken, AskDecision(t)
    PROVE  QueueIInv'
<1> DEFINE row == [exec[t] EXCEPT !.pc = "asking"]
<1>1. QueueTypeOK
  BY DEF QueueIInv
<1>2. /\ view' = [view EXCEPT !.waiting = TRUE] /\ exec' = [exec EXCEPT ![t] = row]
      /\ UNCHANGED <<phase, source, steerdoc, followdoc, seen, fseen, kick, start, obs, entered>>
  BY DEF AskDecision
<1>3. view' \in Views /\ view'.run = view.run /\ view'.token = view.token
  BY <1>1, <1>2, ViewTyped DEF Views
<1>4. exec[t] \in Execs
  BY <1>1, Types
<1>5. row \in Execs /\ row.run = exec[t].run /\ row.pending = exec[t].pending /\ row.pc = "asking"
  BY <1>4 DEF Execs
<1> HIDE DEF row
<1>6. /\ exec' \in [1..MaxToken -> Execs] /\ exec'[t] = row
      /\ \A u \in 1..MaxToken : u # t => exec'[u] = exec[u]
  BY <1>1, <1>2, <1>5, ExecRow
<1>7. QueueTypeOK'
  BY <1>1, <1>2, <1>3, <1>6, ExecutorTypes
<1> QED BY <1>2, <1>3, <1>5, <1>6, <1>7, ExecutorMoves

LEMMA AnswerKeeps ==
    ASSUME QueueIInv, NEW t \in 1..MaxToken, Answer(t)
    PROVE  QueueIInv'
<1> DEFINE row == [exec[t] EXCEPT !.pc = "model", !.kind = "none"]
<1>1. QueueTypeOK
  BY DEF QueueIInv
<1>2. /\ view' = [view EXCEPT !.waiting = FALSE]
      /\ UNCHANGED <<phase, source, steerdoc, followdoc, seen, fseen, kick, start, obs, entered>>
  BY DEF Answer
<1>3. view' \in Views /\ view'.run = view.run /\ view'.token = view.token
  BY <1>1, <1>2, ViewTyped DEF Views
<1>4. exec[t] \in Execs /\ exec' = [exec EXCEPT ![t] = row]
  BY <1>1, Types DEF Answer
<1>5. row \in Execs /\ row.run = exec[t].run /\ row.pending = exec[t].pending /\ row.pc = "model"
  BY <1>4 DEF Execs
<1> HIDE DEF row
<1>6. /\ exec' \in [1..MaxToken -> Execs] /\ exec'[t] = row
      /\ \A u \in 1..MaxToken : u # t => exec'[u] = exec[u]
  BY <1>1, <1>4, <1>5, ExecRow
<1>7. QueueTypeOK'
  BY <1>1, <1>2, <1>3, <1>6, ExecutorTypes
<1> QED BY <1>2, <1>3, <1>5, <1>6, <1>7, ExecutorMoves

LEMMA ApplyFailsKeeps ==
    ASSUME QueueIInv, NEW t \in 1..MaxToken, ApplyFails(t)
    PROVE  QueueIInv'
<1> DEFINE row == [exec[t] EXCEPT !.pc = "failed", !.kind = "none", !.pending = None]
<1>1. QueueTypeOK
  BY DEF QueueIInv
<1>2. /\ exec' = [exec EXCEPT ![t] = row] /\ view' = view
      /\ UNCHANGED <<phase, source, steerdoc, followdoc, seen, fseen, kick, start, obs, entered>>
  BY DEF ApplyFails, runvars
<1>3. exec[t] \in Execs
  BY <1>1, Types
<1>4. row \in Execs /\ row.run = exec[t].run /\ row.pending = None /\ row.pc = "failed"
  BY <1>3 DEF Execs
<1> HIDE DEF row
<1>5. /\ exec' \in [1..MaxToken -> Execs] /\ exec'[t] = row
      /\ \A u \in 1..MaxToken : u # t => exec'[u] = exec[u]
  BY <1>1, <1>2, <1>4, ExecRow
<1>6. QueueTypeOK'
  BY <1>1, <1>2, <1>5, ExecutorTypes, ViewTyped
<1> QED BY <1>2, <1>4, <1>5, <1>6, ExecutorMoves

\* The row of an executor that is done with its step and took x.
LEMMA AfterRow ==
    ASSUME QueueTypeOK, NEW t \in 1..MaxToken, NEW x \in Steers \cup {None}, exec' = After(t, x)
    PROVE  /\ exec' \in [1..MaxToken -> Execs]
           /\ exec'[t].run = exec[t].run /\ exec'[t].pending = x
           /\ exec'[t].pc = CASE exec[t].kind = "deferred" -> "parked"
                              [] exec[t].kind = "final" /\ x = None -> "done"
                              [] OTHER -> "model"
           /\ \A u \in 1..MaxToken : u # t => exec'[u] = exec[u]
<1> DEFINE next == CASE exec[t].kind = "deferred" -> "parked"
                     [] exec[t].kind = "final" /\ x = None -> "done"
                     [] OTHER -> "model"
           row == [exec[t] EXCEPT !.pending = x, !.kind = "none", !.pc = next]
<1>1. exec[t] \in Execs /\ exec' = [exec EXCEPT ![t] = row]
  BY Types DEF After
<1>2. next \in {"parked", "done", "model"}
  OBVIOUS
<1> HIDE DEF next
<1>3. row \in Execs /\ row.run = exec[t].run /\ row.pending = x /\ row.pc = next
  BY <1>1, <1>2 DEF Execs
<1> HIDE DEF row
<1>4. /\ exec' \in [1..MaxToken -> Execs] /\ exec'[t] = row
      /\ \A u \in 1..MaxToken : u # t => exec'[u] = exec[u]
  BY <1>1, <1>3, ExecRow
<1> QED BY <1>3, <1>4 DEF next

LEMMA NoClaimKeeps ==
    ASSUME QueueIInv, NEW t \in 1..MaxToken, NoClaim(t)
    PROVE  QueueIInv'
<1>1. QueueTypeOK
  BY DEF QueueIInv
<1>2. /\ view' = view /\ exec[t].pc = "applied"
      /\ UNCHANGED <<phase, source, steerdoc, followdoc, seen, fseen, kick, start, obs, entered>>
  BY DEF NoClaim, runvars
<1>3. /\ exec' \in [1..MaxToken -> Execs]
      /\ \A u \in 1..MaxToken : u # t => exec'[u] = exec[u]
      /\ exec'[t].run = exec[t].run /\ exec'[t].pending \in {exec[t].pending, None}
      /\ exec'[t].pc # "persisted"
  <2>1. CASE exec' = After(t, None)
    BY <1>1, <2>1, AfterRow
  <2>2. CASE exec' = [exec EXCEPT ![t].pc = "failed", ![t].kind = "none"]
    <3> DEFINE row == [exec[t] EXCEPT !.pc = "failed", !.kind = "none"]
    <3>1. exec[t] \in Execs
      BY <1>1, Types
    <3>2. exec' = [exec EXCEPT ![t] = row]
      BY <1>1, <2>2, Types
    <3>3. row \in Execs /\ row.run = exec[t].run /\ row.pending = exec[t].pending /\ row.pc = "failed"
      BY <3>1 DEF Execs
    <3> HIDE DEF row
    <3> QED BY <1>1, <3>2, <3>3, ExecRow
  <2> QED BY <2>1, <2>2 DEF NoClaim
<1>4. QueueTypeOK'
  BY <1>1, <1>2, <1>3, ExecutorTypes, ViewTyped
<1> QED BY <1>2, <1>3, <1>4, ExecutorMoves


LEMMA PersistKeeps ==
    ASSUME QueueIInv, NEW t \in 1..MaxToken, NEW kind \in {"tool", "final", "deferred"},
           Persist(t, kind)
    PROVE  QueueIInv'
<1> DEFINE x == exec[t].pending
           row == [exec[t] EXCEPT !.pc = "persisted", !.kind = kind]
<1>1. QueueTypeOK
  BY DEF QueueIInv
<1>2. /\ phase' = phase /\ source' = source /\ view' = view /\ steers' = steers
      /\ closed' = closed /\ follows' = follows /\ trigger' = trigger /\ Owns(t)
      /\ UNCHANGED <<seen, fseen, kick, start, obs>>
  BY DEF Persist, runvars, steerdoc, followdoc
<1>3. exec[t] \in Execs /\ steers \in [Steers -> SteerRows] /\ entered \in [Inputs -> Nat]
  BY <1>1, Types
<1>4. exec' = [exec EXCEPT ![t] = row]
  BY <1>1, Types DEF Persist
<1>5. row \in Execs /\ row.run = exec[t].run /\ row.pending = x /\ row.pc = "persisted"
  BY <1>3 DEF Execs
<1> HIDE DEF row
<1>6. /\ exec' \in [1..MaxToken -> Execs] /\ exec'[t] = row
      /\ \A u \in 1..MaxToken : u # t => exec'[u] = exec[u]
  BY <1>1, <1>4, <1>5, ExecRow
<1>7. x \in Steers \cup {None}
  BY <1>3 DEF Execs
<1>8. x # None => x \in Steers /\ steers[x].status = "claimed" /\ steers[x].input \in Inputs
  BY <1>2, <1>7 DEF QueueIInv, ExecsOk, PendingIsHeld, HoldsClaim, SteersOk
<1>9. /\ entered' \in [Inputs -> Nat]
      /\ \A i \in Inputs : entered[i] > 0 => entered'[i] > 0
      /\ x # None => entered'[steers[x].input] > 0
  <2>1. CASE x = None
    BY <1>3, <2>1 DEF Persist
  <2>2. CASE x # None
    <3>1. entered' = [entered EXCEPT ![steers[x].input] = @ + 1]
      BY <2>2 DEF Persist
    <3> QED BY <1>3, <1>8, <2>2, <3>1
  <2> QED BY <2>1, <2>2
<1> HIDE DEF x
<1>10. QueueTypeOK'
  BY <1>1, <1>2, <1>6, <1>9, Types
     DEF QueueTypeOK, Views, Execs, SteerRows, FollowRows, StartRows, Statuses
<1>11. RunsOk'
  BY <1>2, <1>5, <1>6 DEF QueueIInv, RunsOk
<1>12. SteersOk' /\ OneClaimPerRun'
  BY <1>2 DEF QueueIInv, SteersOk, OneClaimPerRun
<1>13. FollowsOk' /\ StartersOk'
  BY <1>2, FollowsFrame, StartersFrame DEF QueueIInv
<1>14. AppliedIsInHistory'
  BY <1>2, <1>9 DEF QueueIInv, AppliedIsInHistory, Started, SteersOk
<1>15. PendingIsHeld'
  <2>1. \A u \in 1..MaxToken : exec'[u].pending = exec[u].pending /\ exec'[u].run = exec[u].run
    BY <1>5, <1>6 DEF x
  <2> QED BY <1>2, <2>1 DEF QueueIInv, ExecsOk, PendingIsHeld, HoldsClaim, Owns
<1>16. ASSUME NEW u \in 1..MaxToken, exec'[u].pc = "persisted", exec'[u].pending # None
       PROVE  /\ steers'[exec'[u].pending].status # "none"
              /\ entered'[steers'[exec'[u].pending].input] > 0
  <2>1. CASE u = t
    BY <1>2, <1>5, <1>6, <1>8, <1>9, <1>16, <2>1 DEF x
  <2>2. CASE u # t
    <3>1. exec[u].pending \in Steers
      BY <1>1, <1>6, <1>16, <2>2, Types DEF Execs
    <3>2. /\ steers[exec[u].pending].status # "none"
          /\ entered[steers[exec[u].pending].input] > 0
      BY <1>6, <1>16, <2>2 DEF QueueIInv, ExecsOk
    <3>3. steers[exec[u].pending].input \in Inputs
      BY <3>1, <3>2 DEF QueueIInv, SteersOk
    <3> QED BY <1>2, <1>6, <1>9, <2>2, <3>2, <3>3
  <2> QED BY <2>1, <2>2
<1> QED BY <1>10, <1>11, <1>12, <1>13, <1>14, <1>15, <1>16 DEF QueueIInv, ExecsOk

\* A write of one steer that was admitted: the claim it leaves, or takes, is for the others
\* to judge.
LEMMA SteerWritten ==
    ASSUME QueueIInv, QueueTypeOK', NEW x \in Steers, NEW y \in SteerRows,
           steers' = [steers EXCEPT ![x] = y], SteersWritten,
           steers[x].status \in {"accepted", "claimed"}, y.status # "none",
           y.run = steers[x].run, y.input = steers[x].input,
           y.status = "applied" => entered[y.input] > 0,
           UNCHANGED <<phase, source, view, followdoc, fseen, kick, start, obs, entered>>,
           \A u \in 1..MaxToken : exec'[u].run = exec[u].run
    PROVE  /\ RunsOk' /\ SteersOk' /\ FollowsOk' /\ StartersOk' /\ AppliedIsInHistory'
           /\ steers'[x] = y /\ \A z \in Steers : z # x => steers'[z] = steers[z]
           /\ \A u \in 1..MaxToken : Owns(u)' <=> Owns(u)
<1>1. QueueTypeOK /\ follows' = follows /\ trigger' = trigger
  BY DEF QueueIInv, followdoc
<1>2. /\ steers \in [Steers -> SteerRows]
      /\ seen \in [Steers -> [run : Runs \cup {None}, of : Follows \cup {None}]]
  BY <1>1, Types
<1>3. steers'[x] = y /\ \A z \in Steers : z # x => steers'[z] = steers[z]
  BY <1>2
<1>4. \A z \in Steers : seen'[z].run = None
  BY <1>2 DEF SteersWritten, Unread
<1>5. RunsOk'
  <2>1. view.token \in 1..MaxToken => exec'[view.token].run = exec[view.token].run
    OBVIOUS
  <2> QED BY <2>1 DEF QueueIInv, RunsOk
<1>6. SteersOk'
  BY <1>3, <1>4 DEF QueueIInv, SteersOk
<1>7. FollowsOk' /\ StartersOk'
  BY <1>1, FollowsFrame, StartersFrame DEF QueueIInv
<1>8. AppliedIsInHistory'
  BY <1>1, <1>3 DEF QueueIInv, AppliedIsInHistory, Started
<1>9. \A u \in 1..MaxToken : Owns(u)' <=> Owns(u)
  BY DEF Owns
<1> QED BY <1>3, <1>5, <1>6, <1>7, <1>8, <1>9

\* The type invariant after a write of the steers' document by an executor.
LEMMA SteerTypes ==
    ASSUME QueueTypeOK, exec' \in [1..MaxToken -> Execs], NEW x \in Steers, NEW y \in SteerRows,
           steers' = [steers EXCEPT ![x] = y], SteersWritten, closed' \in Runs \cup {None},
           UNCHANGED <<runvars, followdoc, fseen, kick, start, obs, entered>>
    PROVE  QueueTypeOK'
<1>1. /\ phase' = phase /\ source' = source /\ view' = view /\ follows' = follows
      /\ trigger' = trigger
  BY DEF runvars, followdoc
<1>2. steers' \in [Steers -> SteerRows]
  BY Types
<1>3. seen' \in [Steers -> [run : Runs \cup {None}, of : Follows \cup {None}]]
  BY WrittenTypes
<1> QED BY <1>1, <1>2, <1>3, Types
        DEF QueueTypeOK, Views, Execs, SteerRows, FollowRows, StartRows, Statuses

LEMMA PersistFailsKeeps ==
    ASSUME QueueIInv, NEW t \in 1..MaxToken, PersistFails(t)
    PROVE  QueueIInv'
<1> DEFINE row == [exec[t] EXCEPT !.pc = "failed", !.kind = "none", !.pending = None]
           x == exec[t].pending
           y == [steers[x] EXCEPT !.status = "accepted", !.token = 0]
<1>1. QueueTypeOK
  BY DEF QueueIInv
<1>2. /\ UNCHANGED <<runvars, closed, followdoc, fseen, kick, start, obs, entered>>
      /\ exec' = [exec EXCEPT ![t] = row]
  BY DEF PersistFails
<1>3. exec[t] \in Execs /\ steers \in [Steers -> SteerRows] /\ closed \in Runs \cup {None}
  BY <1>1, Types
<1>4. row \in Execs /\ row.run = exec[t].run /\ row.pending = None /\ row.pc = "failed"
  BY <1>3 DEF Execs
<1> HIDE DEF row
<1>5. /\ exec' \in [1..MaxToken -> Execs] /\ exec'[t] = row
      /\ \A u \in 1..MaxToken : u # t => exec'[u] = exec[u]
  BY <1>1, <1>2, <1>4, ExecRow
<1>6. CASE x # None /\ HoldsClaim(t)
  <2>1. x \in Steers /\ steers[x].status = "claimed" /\ Owns(t)
    BY <1>3, <1>6 DEF Execs, HoldsClaim
  <2>2. steers' = [steers EXCEPT ![x] = y] /\ SteersWritten
    BY <1>3, <1>6, <2>1 DEF PersistFails
  <2>3. steers[x] \in SteerRows /\ 0 \in 0..MaxToken
    BY <1>3, <2>1, QueueAssumption
  <2>4. /\ y \in SteerRows /\ y.status = "accepted" /\ y.run = steers[x].run
        /\ y.input = steers[x].input
    BY <2>3 DEF SteerRows, Statuses
  <2> HIDE DEF y, x
  <2>5. QueueTypeOK'
    BY <1>1, <1>2, <1>3, <1>5, <2>1, <2>2, <2>4, SteerTypes
  <2>6. /\ RunsOk' /\ SteersOk' /\ FollowsOk' /\ StartersOk' /\ AppliedIsInHistory'
        /\ steers'[x] = y /\ \A z \in Steers : z # x => steers'[z] = steers[z]
        /\ \A u \in 1..MaxToken : Owns(u)' <=> Owns(u)
    BY <1>2, <1>4, <1>5, <2>1, <2>2, <2>4, <2>5, SteerWritten DEF runvars
  <2>7. OneClaimPerRun'
    BY <2>4, <2>6 DEF QueueIInv, OneClaimPerRun
  <2>8. PendingIsHeld'
    <3> SUFFICES ASSUME NEW u \in 1..MaxToken, Owns(u)', exec'[u].pending # None
                 PROVE  HoldsClaim(u)'
      BY DEF PendingIsHeld
    <3>1. Owns(u) /\ u = t
      BY <2>1, <2>6 DEF Owns
    <3> QED BY <1>4, <1>5, <3>1
  <2>9. \A u \in 1..MaxToken : exec'[u].pc = "persisted" /\ exec'[u].pending # None =>
             /\ steers'[exec'[u].pending].status # "none"
             /\ entered'[steers'[exec'[u].pending].input] > 0
    <3> SUFFICES ASSUME NEW u \in 1..MaxToken, exec'[u].pc = "persisted", exec'[u].pending # None
                 PROVE  /\ steers'[exec'[u].pending].status # "none"
                        /\ entered'[steers'[exec'[u].pending].input] > 0
      OBVIOUS
    <3>1. exec'[u] = exec[u]
      BY <1>4, <1>5
    <3>2. exec[u].pending \in Steers
      BY <1>1, <3>1, Types DEF Execs
    <3> QED BY <1>2, <2>4, <2>6, <3>1, <3>2 DEF QueueIInv, ExecsOk
  <2> QED BY <2>5, <2>6, <2>7, <2>8, <2>9 DEF QueueIInv, ExecsOk
<1>7. CASE ~(x # None /\ HoldsClaim(t))
  <2>1. UNCHANGED <<phase, source, view, steerdoc, followdoc, seen, fseen, kick, start, obs, entered>>
    BY <1>2, <1>7 DEF PersistFails, runvars, steerdoc
  <2>2. QueueTypeOK'
    BY <1>1, <1>5, <2>1, ExecutorTypes, ViewTyped
  <2> QED BY <1>4, <1>5, <2>1, <2>2, ExecutorMoves
<1> QED BY <1>6, <1>7

\* Who has persisted keeps what it persisted in the history, through a write of the steers.
LEMMA PersistedStays ==
    ASSUME QueueIInv, NEW t \in 1..MaxToken, NEW x \in Steers,
           steers'[x].status # "none", steers'[x].input = steers[x].input, entered' = entered,
           \A z \in Steers : z # x => steers'[z] = steers[z],
           \A u \in 1..MaxToken : u # t => exec'[u] = exec[u],
           exec'[t].pc # "persisted"
    PROVE  \A u \in 1..MaxToken : exec'[u].pc = "persisted" /\ exec'[u].pending # None =>
             /\ steers'[exec'[u].pending].status # "none"
             /\ entered'[steers'[exec'[u].pending].input] > 0
<1> SUFFICES ASSUME NEW u \in 1..MaxToken, exec'[u].pc = "persisted", exec'[u].pending # None
             PROVE  /\ steers'[exec'[u].pending].status # "none"
                    /\ entered'[steers'[exec'[u].pending].input] > 0
  OBVIOUS
<1>1. exec'[u] = exec[u]
  OBVIOUS
<1>2. exec[u].pending \in Steers
  <2>1. exec \in [1..MaxToken -> Execs]
    BY Types DEF QueueIInv
  <2>2. exec[u].pending \in Steers \cup {None}
    BY <2>1 DEF Execs
  <2> QED BY <1>1, <2>2
<1> QED BY <1>1, <1>2 DEF QueueIInv, ExecsOk

LEMMA ApplySteerKeeps ==
    ASSUME QueueIInv, NEW t \in 1..MaxToken, ApplySteer(t)
    PROVE  QueueIInv'
<1> DEFINE row == [exec[t] EXCEPT !.pc = "applied", !.pending = None]
           x == exec[t].pending
           y == [steers[x] EXCEPT !.status = "applied"]
<1>1. QueueTypeOK
  BY DEF QueueIInv
<1>2. /\ UNCHANGED <<runvars, closed, followdoc, fseen, kick, start, obs, entered>>
      /\ exec[t].pc = "persisted"
  BY DEF ApplySteer
<1>3. exec[t] \in Execs /\ steers \in [Steers -> SteerRows] /\ closed \in Runs \cup {None}
  BY <1>1, Types
<1>4. exec' = [exec EXCEPT ![t] = row]
  BY <1>1, Types DEF ApplySteer
<1>5. row \in Execs /\ row.run = exec[t].run /\ row.pending = None /\ row.pc = "applied"
  BY <1>3 DEF Execs
<1> HIDE DEF row
<1>6. /\ exec' \in [1..MaxToken -> Execs] /\ exec'[t] = row
      /\ \A u \in 1..MaxToken : u # t => exec'[u] = exec[u]
  BY <1>1, <1>4, <1>5, ExecRow
<1>7. CASE x # None
  <2>1. x \in Steers /\ HoldsClaim(t)
    BY <1>3, <1>7 DEF Execs, ApplySteer
  <2>2. steers[x].status = "claimed" /\ Owns(t) /\ entered[steers[x].input] > 0
    BY <1>2, <1>7, <2>1 DEF HoldsClaim, QueueIInv, ExecsOk
  <2>3. steers' = [steers EXCEPT ![x] = y] /\ SteersWritten
    BY <1>3, <1>7, <2>1 DEF ApplySteer
  <2>4. steers[x] \in SteerRows
    BY <1>3, <2>1
  <2>5. /\ y \in SteerRows /\ y.status = "applied" /\ y.run = steers[x].run
        /\ y.input = steers[x].input
    BY <2>4 DEF SteerRows, Statuses
  <2> HIDE DEF y, x
  <2>6. QueueTypeOK'
    BY <1>1, <1>2, <1>3, <1>6, <2>1, <2>3, <2>5, SteerTypes
  <2>7. /\ RunsOk' /\ SteersOk' /\ FollowsOk' /\ StartersOk' /\ AppliedIsInHistory'
        /\ steers'[x] = y /\ \A z \in Steers : z # x => steers'[z] = steers[z]
        /\ \A u \in 1..MaxToken : Owns(u)' <=> Owns(u)
    BY <1>2, <1>5, <1>6, <2>1, <2>2, <2>3, <2>5, <2>6, SteerWritten DEF runvars
  <2>8. OneClaimPerRun'
    BY <2>5, <2>7 DEF QueueIInv, OneClaimPerRun
  <2>9. PendingIsHeld'
    <3> SUFFICES ASSUME NEW u \in 1..MaxToken, Owns(u)', exec'[u].pending # None
                 PROVE  HoldsClaim(u)'
      BY DEF PendingIsHeld
    <3>1. u = t
      BY <2>2, <2>7 DEF Owns
    <3> QED BY <1>5, <1>6, <3>1
  <2>10. \A u \in 1..MaxToken : exec'[u].pc = "persisted" /\ exec'[u].pending # None =>
             /\ steers'[exec'[u].pending].status # "none"
             /\ entered'[steers'[exec'[u].pending].input] > 0
    BY <1>2, <1>5, <1>6, <2>1, <2>5, <2>7, PersistedStays
  <2> QED BY <2>6, <2>7, <2>8, <2>9, <2>10 DEF QueueIInv, ExecsOk
<1>8. CASE x = None
  <2>1. UNCHANGED <<phase, source, view, steerdoc, followdoc, seen, fseen, kick, start, obs, entered>>
    BY <1>2, <1>8 DEF ApplySteer, runvars, steerdoc
  <2>2. QueueTypeOK'
    BY <1>1, <1>6, <2>1, ExecutorTypes, ViewTyped
  <2> QED BY <1>5, <1>6, <2>1, <2>2, ExecutorMoves
<1> QED BY <1>7, <1>8

\* What a claim finds: the one claim the run has, or an accepted item when it has none.
LEMMA ClaimIsTheOnly ==
    ASSUME QueueIInv, NEW t \in 1..MaxToken, NEW x \in Candidates(t)
    PROVE  /\ x \in Steers /\ steers[x].status \in {"accepted", "claimed"}
           /\ steers[x].run = exec[t].run
           /\ \A z \in Steers : steers[z].status = "claimed" /\ steers[z].run = exec[t].run => z = x
<1>1. DOMAIN steers = Steers
  BY Types DEF QueueIInv
<1> DEFINE held == {z \in Steers : steers[z].status = "claimed" /\ steers[z].run = exec[t].run}
<1>2. CASE held # {}
  <2>1. x \in held
    BY <1>2 DEF Candidates
  <2> QED BY <2>1 DEF QueueIInv, OneClaimPerRun
<1>3. CASE held = {}
  <2>1. x \in Pending(steers) /\ steers[x].run = exec[t].run
    BY <1>3 DEF Candidates
  <2> QED BY <1>1, <1>3, <2>1 DEF Pending
<1> QED BY <1>2, <1>3

LEMMA ClaimNextSteerKeeps ==
    ASSUME QueueIInv, NEW t \in 1..MaxToken, ClaimNextSteer(t)
    PROVE  QueueIInv'
<1>1. QueueTypeOK
  BY DEF QueueIInv
<1>2. /\ UNCHANGED <<runvars, followdoc, fseen, kick, start, obs, entered>>
      /\ Owns(t) /\ SteersWritten
  BY DEF ClaimNextSteer
<1>3. /\ exec \in [1..MaxToken -> Execs] /\ steers \in [Steers -> SteerRows]
      /\ closed \in Runs \cup {None} /\ exec[t] \in Execs
  BY <1>1, Types
<1>4. ASSUME NEW x \in Candidates(t), exec' = After(t, x), closed' = closed,
             steers' = [steers EXCEPT ![x].status = "claimed", ![x].token = t]
      PROVE  QueueIInv'
  <2> DEFINE y == [steers[x] EXCEPT !.status = "claimed", !.token = t]
  <2>1. /\ x \in Steers /\ steers[x].status \in {"accepted", "claimed"}
        /\ steers[x].run = exec[t].run
        /\ \A z \in Steers : steers[z].status = "claimed" /\ steers[z].run = exec[t].run => z = x
    BY ClaimIsTheOnly
  <2>2. steers[x] \in SteerRows /\ t \in 0..MaxToken
    BY <1>3, <2>1, QueueAssumption
  <2>3. steers' = [steers EXCEPT ![x] = y]
    BY <1>3, <1>4, <2>1
  <2>4. /\ y \in SteerRows /\ y.status = "claimed" /\ y.run = steers[x].run /\ y.token = t
        /\ y.input = steers[x].input
    BY <2>2 DEF SteerRows, Statuses
  <2> HIDE DEF y
  <2>5. /\ exec' \in [1..MaxToken -> Execs] /\ exec'[t].run = exec[t].run
        /\ exec'[t].pending = x /\ exec'[t].pc # "persisted"
        /\ \A u \in 1..MaxToken : u # t => exec'[u] = exec[u]
    BY <1>1, <1>4, <2>1, AfterRow
  <2>6. QueueTypeOK'
    <3>1. closed' \in Runs \cup {None} /\ exec' \in [1..MaxToken -> Execs]
      BY <1>3, <1>4, <2>5
    <3>2. UNCHANGED <<runvars, followdoc, fseen, kick, start, obs, entered>> /\ SteersWritten
      BY <1>2
    <3> QED BY <1>1, <2>1, <2>3, <2>4, <3>1, <3>2, SteerTypes
  <2>7. /\ RunsOk' /\ SteersOk' /\ FollowsOk' /\ StartersOk' /\ AppliedIsInHistory'
        /\ steers'[x] = y /\ \A z \in Steers : z # x => steers'[z] = steers[z]
        /\ \A u \in 1..MaxToken : Owns(u)' <=> Owns(u)
    BY <1>2, <2>1, <2>3, <2>4, <2>5, <2>6, SteerWritten DEF runvars
  <2>8. OneClaimPerRun'
    BY <2>1, <2>4, <2>7 DEF QueueIInv, OneClaimPerRun
  <2>9. PendingIsHeld'
    <3> SUFFICES ASSUME NEW u \in 1..MaxToken, Owns(u)', exec'[u].pending # None
                 PROVE  HoldsClaim(u)'
      BY DEF PendingIsHeld
    <3>1. u = t /\ Owns(u)' /\ view' = view
      BY <1>2, <2>7 DEF Owns, runvars
    <3>2. exec[t].run = view.run
      BY <1>2 DEF Owns
    <3> QED BY <2>1, <2>4, <2>5, <2>7, <3>1, <3>2 DEF HoldsClaim
  <2>10. \A u \in 1..MaxToken : exec'[u].pc = "persisted" /\ exec'[u].pending # None =>
             /\ steers'[exec'[u].pending].status # "none"
             /\ entered'[steers'[exec'[u].pending].input] > 0
    BY <1>2, <2>1, <2>4, <2>5, <2>7, PersistedStays
  <2> QED BY <2>6, <2>7, <2>8, <2>9, <2>10 DEF QueueIInv, ExecsOk
<1>5. ASSUME exec' = After(t, None), steers' = steers,
             closed' = IF exec[t].kind = "final" THEN exec[t].run ELSE closed
      PROVE  QueueIInv'
  <2>1. /\ exec' \in [1..MaxToken -> Execs] /\ exec'[t].run = exec[t].run
        /\ exec'[t].pending = None /\ exec'[t].pc # "persisted"
        /\ \A u \in 1..MaxToken : u # t => exec'[u] = exec[u]
    BY <1>1, <1>5, AfterRow
  <2>2. /\ phase' = phase /\ source' = source /\ view' = view /\ follows' = follows
        /\ trigger' = trigger
    BY <1>2 DEF runvars, followdoc
  <2>3. exec[t].run \in Runs \cup {None}
    BY <1>3 DEF Execs
  <2>4. closed' \in Runs \cup {None}
    BY <1>3, <1>5, <2>3
  <2>5. QueueTypeOK'
    BY <1>1, <1>2, <1>5, <2>1, <2>2, <2>4, WrittenTypes, Types
       DEF QueueTypeOK, Views, Execs, SteerRows, FollowRows, StartRows, Statuses
  <2>6. RunsOk'
    <3>1. \A u \in 1..MaxToken : exec'[u].run = exec[u].run
      BY <2>1
    <3> QED BY <1>2, <2>2, <3>1 DEF QueueIInv, RunsOk
  <2>7. \A z \in Steers : seen'[z].run = None
    BY <1>1, <1>2, Types DEF SteersWritten, Unread
  <2>8. SteersOk' /\ OneClaimPerRun' /\ AppliedIsInHistory'
    BY <1>2, <1>5, <2>2, <2>7 DEF QueueIInv, SteersOk, OneClaimPerRun, AppliedIsInHistory, Started
  <2>9. FollowsOk' /\ StartersOk'
    BY <1>2, <2>2, FollowsFrame, StartersFrame DEF QueueIInv
  <2>10. PendingIsHeld'
    <3> SUFFICES ASSUME NEW u \in 1..MaxToken, Owns(u)', exec'[u].pending # None
                 PROVE  HoldsClaim(u)'
      BY DEF PendingIsHeld
    <3> QED BY <1>2, <2>1, <2>2 DEF Owns
  <2>11. ExecsOk'
    BY <1>2, <1>5, <2>1, <2>10 DEF QueueIInv, ExecsOk
  <2> QED BY <2>5, <2>6, <2>8, <2>9, <2>11 DEF QueueIInv
<1> QED BY <1>4, <1>5 DEF ClaimNextSteer

-----------------------------------------------------------------------------
(* The runs.                                                               *)

\* Nobody holds more after the view has moved to an executor that holds nothing.
LEMMA ViewMoves ==
    ASSUME QueueIInv, UNCHANGED <<steers, entered>>, NEW d \in 1..MaxToken,
           exec'[d].pending = None, \A u \in 1..MaxToken : u # d => exec'[u] = exec[u],
           view'.token = d
    PROVE  ExecsOk'
<1>1. PendingIsHeld'
  <2> SUFFICES ASSUME NEW u \in 1..MaxToken, Owns(u)', exec'[u].pending # None
               PROVE  FALSE
    BY DEF PendingIsHeld
  <2> QED BY DEF Owns
<1> QED BY <1>1 DEF QueueIInv, ExecsOk

LEMMA EndRunKeeps ==
    ASSUME QueueIInv, EndRun
    PROVE  QueueIInv'
<1>1. QueueTypeOK
  BY DEF QueueIInv
<1>2. /\ phase' = [phase EXCEPT ![view.run] = "over"] /\ view' = NoView /\ view.run # None
      /\ steers' = steers /\ closed' = closed /\ follows' = follows /\ trigger' = trigger
      /\ UNCHANGED <<source, exec, seen, fseen, kick, start, obs, entered>>
  BY DEF EndRun, steerdoc, followdoc
<1>3. phase \in [Runs -> {"new", "live", "over"}] /\ view.run \in Runs
  BY <1>1, <1>2, Types, ViewTyped
<1>4. phase' \in [Runs -> {"new", "live", "over"}] /\ view' \in Views /\ view'.run = None
  BY <1>2, <1>3, QueueAssumption DEF Views, NoView
<1>5. /\ phase[view.run] = "live"
      /\ \A r \in Runs : phase'[r] = IF r = view.run THEN "over" ELSE phase[r]
  BY <1>2, <1>3 DEF QueueIInv, RunsOk
<1>6. QueueTypeOK'
  BY <1>1, <1>2, <1>4, Types
     DEF QueueTypeOK, Views, Execs, SteerRows, FollowRows, StartRows, Statuses
<1>7. RunsOk'
  BY <1>2, <1>4, <1>5 DEF QueueIInv, RunsOk
<1>8. SteersOk'
  BY <1>1, <1>2, <1>5, SteersFrame DEF QueueIInv
<1>9. OneClaimPerRun' /\ AppliedIsInHistory'
  BY <1>2 DEF QueueIInv, OneClaimPerRun, AppliedIsInHistory, Started
<1>10. FollowsOk' /\ StartersOk'
  BY <1>2, FollowsFrame, StartersFrame DEF QueueIInv
<1>11. ExecsOk'
  <2>1. PendingIsHeld'
    BY <1>4 DEF PendingIsHeld, Owns
  <2> QED BY <1>2, <2>1 DEF QueueIInv, ExecsOk
<1> QED BY <1>6, <1>7, <1>8, <1>9, <1>10, <1>11 DEF QueueIInv

LEMMA TakeoverKeeps ==
    ASSUME QueueIInv, Takeover
    PROVE  QueueIInv'
<1> DEFINE d == Drawn + 1
           row == [NoExec EXCEPT !.run = view.run, !.pc = "parked"]
<1>1. QueueTypeOK
  BY DEF QueueIInv
<1>2. d \in 1..MaxToken
  BY DrawnIsNat DEF Takeover
<1>3. /\ view' = [view EXCEPT !.token = d, !.on = FALSE] /\ exec' = [exec EXCEPT ![d] = row]
      /\ UNCHANGED <<phase, source, steerdoc, followdoc, seen, fseen, kick, start, obs, entered>>
  BY DEF Takeover
<1> HIDE DEF d
<1>4. view \in Views /\ view.run \in Runs \cup {None} /\ d \in 0..MaxToken
  BY <1>1, <1>2, ViewTyped, QueueAssumption
<1>5. view' \in Views /\ view'.run = view.run /\ view'.token = d
  BY <1>3, <1>4 DEF Views
<1>6. row \in Execs /\ row.run = view.run /\ row.pending = None /\ row.pc = "parked"
  BY <1>4 DEF Execs, NoExec
<1> HIDE DEF row
<1>7. /\ exec' \in [1..MaxToken -> Execs] /\ exec'[d] = row
      /\ \A u \in 1..MaxToken : u # d => exec'[u] = exec[u]
  BY <1>1, <1>2, <1>3, <1>6, ExecRow
<1>8. QueueTypeOK'
  BY <1>1, <1>3, <1>5, <1>7, ExecutorTypes
<1>9. /\ steers' = steers /\ follows' = follows /\ trigger' = trigger /\ phase' = phase
      /\ source' = source
  BY <1>3 DEF steerdoc, followdoc
<1>10. RunsOk'
  BY <1>2, <1>3, <1>5, <1>6, <1>7, <1>9 DEF QueueIInv, RunsOk
<1>11. SteersOk' /\ OneClaimPerRun' /\ AppliedIsInHistory'
  BY <1>3, <1>9 DEF QueueIInv, SteersOk, OneClaimPerRun, AppliedIsInHistory, Started
<1>12. FollowsOk' /\ StartersOk'
  BY <1>3, <1>9, FollowsFrame, StartersFrame DEF QueueIInv
<1>13. ExecsOk'
  BY <1>2, <1>3, <1>5, <1>6, <1>7, <1>9, ViewMoves
<1> QED BY <1>8, <1>10, <1>11, <1>12, <1>13 DEF QueueIInv

\* What was started stays started when a run begins.
LEMMA BeginStarts ==
    ASSUME QueueIInv, NEW r \in Runs, NEW f \in Follows \cup {None}, Begin(r, f)
    PROVE  /\ \A g \in Follows : Started(g) => Started(g)'
           /\ f \in Follows => Started(f)'
<1>1. /\ source'[r] = f /\ phase[r] = "new"
      /\ \A s \in Runs : s # r => source'[s] = source[s]
  <2>1. QueueTypeOK /\ phase[r] = "new"
    BY DEF QueueIInv, Begin
  <2>2. source'[r] = f /\ \A s \in Runs : s # r => source'[s] = source[s]
    BY <2>1, BeginTypes
  <2> QED BY <2>1, <2>2
<1>2. source[r] = None
  BY <1>1 DEF QueueIInv, RunsOk
<1> QED BY <1>1, <1>2, QueueAssumption DEF Started

\* A run begins: for a user, or for a follow-up.
LEMMA BeginKeeps ==
    ASSUME QueueIInv, NEW r \in Runs, NEW f \in Follows \cup {None}, Begin(r, f),
           UNCHANGED <<steerdoc, followdoc, seen, fseen, kick, obs>>,
           start' \in [Procs -> StartRows], entered' \in [Inputs -> Nat],
           \A i \in Inputs : entered[i] > 0 => entered'[i] > 0,
           StartersOk'
    PROVE  QueueIInv'
<1>1. QueueTypeOK
  BY DEF QueueIInv
<1>2. /\ steers' = steers /\ closed' = closed /\ follows' = follows /\ trigger' = trigger
      /\ UNCHANGED <<seen, fseen, kick, obs>> /\ phase[r] = "new"
  BY DEF steerdoc, followdoc, Begin
<1>3. /\ phase' \in [Runs -> {"new", "live", "over"}]
      /\ source' \in [Runs -> Follows \cup {None}] /\ view' \in Views
      /\ exec' \in [1..MaxToken -> Execs]
      /\ view'.run = r /\ view'.token = Drawn + 1 /\ Drawn + 1 \in 1..MaxToken
      /\ exec'[Drawn + 1].run = r /\ exec'[Drawn + 1].pending = None
      /\ \A t \in 1..MaxToken : t # Drawn + 1 => exec'[t] = exec[t]
      /\ phase'[r] = "live"
      /\ \A s \in Runs : s # r => phase'[s] = phase[s] /\ source'[s] = source[s]
  BY <1>1, BeginTypes
<1>4. QueueTypeOK'
  BY <1>1, <1>2, <1>3, Types
     DEF QueueTypeOK, Views, Execs, SteerRows, FollowRows, StartRows, Statuses
<1>5. RunsOk'
  BY <1>2, <1>3 DEF QueueIInv, RunsOk
<1>6. SteersOk'
  BY <1>1, <1>2, <1>3, SteersFrame DEF QueueIInv
<1>7. OneClaimPerRun' /\ FollowsOk'
  BY <1>2, FollowsFrame DEF QueueIInv, OneClaimPerRun
<1>8. \A x \in Steers : steers[x].status # "none" => steers[x].input \in Inputs
  BY DEF QueueIInv, SteersOk
<1>9. AppliedIsInHistory'
  BY <1>2, <1>8, BeginStarts DEF QueueIInv, AppliedIsInHistory
<1>10. ExecsOk'
  <2> DEFINE d == Drawn + 1
  <2>1. PendingIsHeld'
    <3> SUFFICES ASSUME NEW u \in 1..MaxToken, Owns(u)', exec'[u].pending # None
                 PROVE  FALSE
      BY DEF PendingIsHeld
    <3> QED BY <1>3 DEF Owns
  <2>2. ASSUME NEW u \in 1..MaxToken, exec'[u].pc = "persisted", exec'[u].pending # None
        PROVE  /\ steers'[exec'[u].pending].status # "none"
               /\ entered'[steers'[exec'[u].pending].input] > 0
    <3>1. exec'[u] = exec[u]
      BY <1>3, <2>2
    <3>2. exec[u].pending \in Steers
      BY <1>1, <2>2, <3>1, Types DEF Execs
    <3> QED BY <1>2, <1>8, <2>2, <3>1, <3>2 DEF QueueIInv, ExecsOk
  <2> QED BY <2>1, <2>2 DEF ExecsOk
<1> QED BY <1>4, <1>5, <1>6, <1>7, <1>9, <1>10 DEF QueueIInv

LEMMA UserTurnKeeps ==
    ASSUME QueueIInv, NEW r \in Runs, UserTurn(r)
    PROVE  QueueIInv'
<1>1. /\ Begin(r, None) /\ start' = start /\ entered' = entered
      /\ UNCHANGED <<steerdoc, followdoc, seen, fseen, kick, obs>>
  BY DEF UserTurn
<1>2. start \in [Procs -> StartRows] /\ entered \in [Inputs -> Nat]
  BY Types DEF QueueIInv
<1>3. StartersOk'
  BY <1>1, BeginStarts DEF QueueIInv, StartersOk
<1> QED BY <1>1, <1>2, <1>3, BeginKeeps

LEMMA StartFollowUpKeeps ==
    ASSUME QueueIInv, NEW p \in Procs, NEW r \in Runs, StartFollowUp(p, r)
    PROVE  QueueIInv'
<1> DEFINE row == [start[p] EXCEPT !.pc = "apply"]
<1>1. start \in [Procs -> StartRows] /\ entered \in [Inputs -> Nat]
  BY Types DEF QueueIInv
<1>2. PICK f \in Follows : f = start[p].item /\ start[p].trig \in Runs
  BY DEF StartFollowUp, Startable, QueueIInv, StartersOk
<1>3. /\ Begin(r, f) /\ UNCHANGED <<steerdoc, followdoc, seen, fseen, kick, obs>>
      /\ entered' = [entered EXCEPT ![f] = @ + 1] /\ start' = [start EXCEPT ![p] = row]
  BY <1>1, <1>2 DEF StartFollowUp
<1>4. row \in StartRows /\ row.item = f /\ row.pc = "apply" /\ row.trig = start[p].trig
  BY <1>1, <1>2 DEF StartRows
<1> HIDE DEF row
<1>5. /\ start' \in [Procs -> StartRows] /\ start'[p] = row
      /\ \A q \in Procs : q # p => start'[q] = start[q]
  BY <1>1, <1>3, <1>4
<1>6. /\ entered' \in [Inputs -> Nat]
      /\ \A i \in Inputs : entered[i] > 0 => entered'[i] > 0
  BY <1>1, <1>2, <1>3 DEF Inputs
<1>7. StartersOk'
  <2>1. /\ Started(f)' /\ \A g \in Follows : Started(g) => Started(g)'
    BY <1>2, <1>3, BeginStarts
  <2>2. ASSUME NEW q \in Procs, start'[q].pc = "apply"
        PROVE  \E s \in Runs : source'[s] = start'[q].item
    <3>1. CASE q = p
      BY <1>4, <1>5, <2>1, <3>1 DEF Started
    <3>2. CASE q # p
      BY <1>5, <2>1, <2>2, <3>2 DEF QueueIInv, StartersOk, Started
    <3> QED BY <3>1, <3>2
  <2>3. \A q \in Procs : /\ start'[q].pc # "idle" => start'[q].trig \in Runs
                         /\ start'[q].pc \in {"start", "apply", "release"} => start'[q].item \in Follows
    BY <1>2, <1>4, <1>5 DEF QueueIInv, StartersOk
  <2> QED BY <2>2, <2>3 DEF StartersOk, Started
<1> QED BY <1>2, <1>3, <1>5, <1>6, <1>7, BeginKeeps

-----------------------------------------------------------------------------
(* The users and the terminal observer.                                    *)

LEMMA ReadForSteerKeeps ==
    ASSUME QueueIInv, NEW x \in Steers, NEW of \in Follows \cup {None}, ReadForSteer(x, of)
    PROVE  QueueIInv'
<1> DEFINE row == [run |-> view.run, of |-> of]
<1>1. QueueTypeOK
  BY DEF QueueIInv
<1>2. /\ UNCHANGED <<runvars, exec, steerdoc, followdoc, fseen, kick, start, obs, entered>>
      /\ seen' = [seen EXCEPT ![x] = row] /\ steers[x].status = "none"
      /\ of # None => follows[of].status = "accepted"
      /\ view.run # None
  BY DEF ReadForSteer
<1>3. /\ phase' = phase /\ source' = source /\ view' = view /\ steers' = steers
      /\ closed' = closed /\ follows' = follows /\ trigger' = trigger
  BY <1>2 DEF runvars, steerdoc, followdoc
<1>4. row \in [run : Runs \cup {None}, of : Follows \cup {None}]
  BY <1>1, ViewTyped
<1>5. seen \in [Steers -> [run : Runs \cup {None}, of : Follows \cup {None}]]
  BY <1>1, Types
<1>6. /\ seen' \in [Steers -> [run : Runs \cup {None}, of : Follows \cup {None}]]
      /\ seen'[x].run = view.run /\ seen'[x].of = of
      /\ \A z \in Steers : z # x => seen'[z] = seen[z]
  BY <1>2, <1>4, <1>5
<1> HIDE DEF row
<1>7. QueueTypeOK'
  BY <1>1, <1>2, <1>3, <1>6, Types
     DEF QueueTypeOK, Views, Execs, SteerRows, FollowRows, StartRows, Statuses
<1>8. obs[view.run] = 0 /\ phase[view.run] = "live"
  BY <1>1, <1>2, ViewTyped DEF QueueIInv, RunsOk
<1>9. SteersOk'
  BY <1>2, <1>3, <1>6, <1>8 DEF QueueIInv, SteersOk
<1>10. FollowsOk' /\ StartersOk'
  BY <1>2, <1>3, FollowsFrame, StartersFrame DEF QueueIInv
<1> QED BY <1>2, <1>3, <1>7, <1>9, <1>10, FollowsMove DEF QueueIInv, AppliedIsInHistory

\* A follow-up that is not claimed can be withdrawn.
LEMMA FollowCanceled ==
    ASSUME QueueIInv, NEW f \in Follows, follows[f].status = "accepted",
           follows' = [follows EXCEPT ![f].status = "canceled"], UNCHANGED <<trigger, kick>>,
           \A g \in Follows : fseen'[g] \in {fseen[g], None}
    PROVE  /\ FollowsOk' /\ follows' \in [Follows -> FollowRows]
           /\ follows'[f].status = "canceled"
           /\ \A g \in Follows : g # f => follows'[g] = follows[g]
<1> DEFINE row == [follows[f] EXCEPT !.status = "canceled"]
<1>1. follows \in [Follows -> FollowRows] /\ follows[f] \in FollowRows
  BY Types DEF QueueIInv
<1>2. follows' = [follows EXCEPT ![f] = row]
  BY <1>1
<1>3. /\ row \in FollowRows /\ row.status = "canceled" /\ row.trig = follows[f].trig
      /\ row.during = follows[f].during
  BY <1>1 DEF FollowRows, Statuses
<1> HIDE DEF row
<1>4. /\ follows' \in [Follows -> FollowRows] /\ follows'[f] = row
      /\ \A g \in Follows : g # f => follows'[g] = follows[g]
  BY <1>1, <1>2, <1>3
<1>5. trigger \in [Runs -> Follows \cup {None}]
  BY Types DEF QueueIInv
<1>6. FollowsOk /\ \A r \in Runs : trigger[r] # f
  BY QueueAssumption DEF QueueIInv, FollowsOk, ClaimIndexed
<1>7. ClaimIndexed'
  BY <1>3, <1>4, <1>5, <1>6 DEF FollowsOk, ClaimIndexed
<1>8. \A g \in Follows : /\ follows'[g].status = "claimed" => follows'[g].trig \in Runs
                         /\ fseen'[g] # None => follows'[g].status = "none"
                         /\ kick'[g] # None => follows'[g].during \in Runs
  BY <1>3, <1>4, <1>6 DEF FollowsOk
<1>9. \A r \in Runs : trigger'[r] # None => follows'[trigger'[r]].trig = r
  BY <1>4, <1>5, <1>6 DEF FollowsOk
<1> QED BY <1>3, <1>4, <1>7, <1>8, <1>9 DEF FollowsOk

LEMMA EnqueueSteerKeeps ==
    ASSUME QueueIInv, NEW x \in Steers, EnqueueSteer(x)
    PROVE  QueueIInv'
<1> DEFINE y == [status |-> "accepted", run |-> seen[x].run, token |-> 0,
                 input |-> IF seen[x].of = None THEN x ELSE seen[x].of]
<1>1. QueueTypeOK
  BY DEF QueueIInv
<1>2. /\ UNCHANGED <<runvars, exec, trigger, kick, start, obs, entered>>
      /\ steers' = [steers EXCEPT ![x] = y] /\ SteersWritten /\ seen[x].run # None
  BY DEF EnqueueSteer
<1>3. phase' = phase /\ source' = source /\ view' = view
  BY <1>2 DEF runvars
<1>4. /\ seen \in [Steers -> [run : Runs \cup {None}, of : Follows \cup {None}]]
      /\ steers \in [Steers -> SteerRows] /\ closed \in Runs \cup {None}
      /\ follows \in [Follows -> FollowRows] /\ fseen \in [Follows -> Runs \cup {None}]
      /\ exec \in [1..MaxToken -> Execs]
  BY <1>1, Types
<1>5. seen[x].run \in Runs /\ seen[x].of \in Follows \cup {None}
  BY <1>2, <1>4
<1>6. /\ steers[x].status = "none" /\ obs[seen[x].run] = 0 /\ phase[seen[x].run] # "new"
      /\ seen[x].of # None => follows[seen[x].of].status = "accepted"
  BY <1>2 DEF QueueIInv, SteersOk
<1>7. 0 \in 0..MaxToken
  BY QueueAssumption
<1>8. /\ y \in SteerRows /\ y.status = "accepted" /\ y.run = seen[x].run /\ y.input \in Inputs
  BY <1>5, <1>7 DEF SteerRows, Statuses, Inputs
<1> HIDE DEF y
<1>9. /\ steers' \in [Steers -> SteerRows] /\ steers'[x] = y
      /\ \A z \in Steers : z # x => steers'[z] = steers[z]
  BY <1>2, <1>4, <1>8
<1>10. /\ FollowsOk' /\ follows' \in [Follows -> FollowRows] /\ fseen' \in [Follows -> Runs \cup {None}]
       /\ closed' \in Runs \cup {None}
       /\ \A g \in Follows : follows'[g].status = "applied" => follows[g].status = "applied"
  <2>1. CASE seen[x].of = None
    <3>1. follows' = follows /\ fseen' = fseen /\ closed' = None
      BY <2>1 DEF EnqueueSteer
    <3> QED BY <1>2, <1>4, <3>1, FollowsFrame DEF QueueIInv
  <2>2. CASE seen[x].of # None
    <3>1. /\ follows' = [follows EXCEPT ![seen[x].of].status = "canceled"]
          /\ fseen' = [f \in DOMAIN fseen |-> None] /\ closed' = closed
      BY <2>2 DEF EnqueueSteer
    <3>2. seen[x].of \in Follows /\ follows[seen[x].of].status = "accepted"
      BY <1>5, <1>6, <2>2
    <3>3. fseen' \in [Follows -> Runs \cup {None}] /\ \A g \in Follows : fseen'[g] = None
      BY <1>4, <3>1
    <3>4. /\ FollowsOk' /\ follows' \in [Follows -> FollowRows]
          /\ follows'[seen[x].of].status = "canceled"
          /\ \A g \in Follows : g # seen[x].of => follows'[g] = follows[g]
      BY <1>2, <3>1, <3>2, <3>3, FollowCanceled
    <3> QED BY <1>4, <3>1, <3>3, <3>4
  <2> QED BY <2>1, <2>2
<1>11. /\ \A z \in Steers : seen'[z].run = None
       /\ seen' \in [Steers -> [run : Runs \cup {None}, of : Follows \cup {None}]]
  BY <1>1, <1>2, <1>4, WrittenTypes DEF SteersWritten, Unread
<1>12. QueueTypeOK'
  BY <1>1, <1>2, <1>3, <1>9, <1>10, <1>11, Types
     DEF QueueTypeOK, Views, Execs, SteerRows, FollowRows, StartRows, Statuses
<1>13. RunsOk' /\ StartersOk'
  BY <1>2, <1>3, StartersFrame DEF QueueIInv, RunsOk
<1>14. SteersOk'
  BY <1>2, <1>3, <1>5, <1>6, <1>8, <1>9, <1>11 DEF QueueIInv, SteersOk
<1>15. OneClaimPerRun'
  BY <1>8, <1>9 DEF QueueIInv, OneClaimPerRun
<1>16. AppliedIsInHistory'
  BY <1>2, <1>3, <1>8, <1>9, <1>10 DEF QueueIInv, AppliedIsInHistory, Started
<1>17. ExecsOk'
  <2>1. \A u \in 1..MaxToken : exec[u].pending \in Steers \cup {None}
    BY <1>4 DEF Execs
  <2>2. PendingIsHeld'
    BY <1>2, <1>3, <1>6, <1>9, <2>1 DEF QueueIInv, ExecsOk, PendingIsHeld, HoldsClaim, Owns
  <2> QED BY <1>2, <1>6, <1>9, <2>1, <2>2 DEF QueueIInv, ExecsOk
<1> QED BY <1>10, <1>12, <1>13, <1>14, <1>15, <1>16, <1>17 DEF QueueIInv

LEMMA CancelSteerKeeps ==
    ASSUME QueueIInv, NEW x \in Steers, CancelSteer(x)
    PROVE  QueueIInv'
<1> DEFINE y == [steers[x] EXCEPT !.status = "canceled"]
<1>1. QueueTypeOK
  BY DEF QueueIInv
<1>2. /\ UNCHANGED <<runvars, exec, closed, followdoc, fseen, kick, start, obs, entered>>
      /\ steers[x].status = "accepted" /\ SteersWritten
  BY DEF CancelSteer
<1>3. /\ steers \in [Steers -> SteerRows] /\ steers[x] \in SteerRows
      /\ closed \in Runs \cup {None} /\ exec \in [1..MaxToken -> Execs]
  BY <1>1, Types
<1>4. steers' = [steers EXCEPT ![x] = y]
  BY <1>3 DEF CancelSteer
<1>5. /\ y \in SteerRows /\ y.status = "canceled" /\ y.run = steers[x].run
      /\ y.input = steers[x].input
  BY <1>3 DEF SteerRows, Statuses
<1> HIDE DEF y
<1>6. QueueTypeOK'
  BY <1>1, <1>2, <1>3, <1>4, <1>5, SteerTypes
<1>7. /\ RunsOk' /\ SteersOk' /\ FollowsOk' /\ StartersOk' /\ AppliedIsInHistory'
      /\ steers'[x] = y /\ \A z \in Steers : z # x => steers'[z] = steers[z]
      /\ \A u \in 1..MaxToken : Owns(u)' <=> Owns(u)
  BY <1>2, <1>4, <1>5, <1>6, SteerWritten DEF runvars
<1>8. OneClaimPerRun'
  BY <1>5, <1>7 DEF QueueIInv, OneClaimPerRun
<1>9. \A u \in 1..MaxToken : exec[u].pending \in Steers \cup {None}
  BY <1>3 DEF Execs
<1>10. PendingIsHeld'
  BY <1>2, <1>7, <1>9 DEF QueueIInv, ExecsOk, PendingIsHeld, HoldsClaim, runvars
<1>11. ExecsOk'
  BY <1>2, <1>5, <1>7, <1>9, <1>10 DEF QueueIInv, ExecsOk
<1> QED BY <1>6, <1>7, <1>8, <1>11 DEF QueueIInv

\* The starter of p hears of the end of r.
LEMMA NotifyKeeps ==
    ASSUME QueueIInv, NEW p \in Procs, NEW r \in Runs, Notify(p, r), source' = source
    PROVE  start' \in [Procs -> StartRows] /\ StartersOk'
<1> DEFINE row == IF start[p].pc = "idle" THEN [AtRest EXCEPT !.pc = "claim", !.trig = r]
                  ELSE [start[p] EXCEPT !.next = r]
<1>1. start \in [Procs -> StartRows] /\ start[p] \in StartRows /\ 0 \in 0..MaxClaims
  BY Types, QueueAssumption DEF QueueIInv
<1>2. start' = [start EXCEPT ![p] = row]
  BY <1>1 DEF Notify
<1>3. /\ row \in StartRows
      /\ \/ row.pc = "claim" /\ row.trig = r
         \/ row.pc = start[p].pc /\ row.trig = start[p].trig /\ row.item = start[p].item
  <2>1. CASE start[p].pc = "idle"
    BY <1>1, <2>1 DEF StartRows, AtRest
  <2>2. CASE start[p].pc # "idle"
    BY <1>1, <2>2 DEF StartRows
  <2> QED BY <2>1, <2>2
<1> HIDE DEF row
<1>4. /\ start' \in [Procs -> StartRows] /\ start'[p] = row
      /\ \A q \in Procs : q # p => start'[q] = start[q]
  BY <1>1, <1>2, <1>3
<1>5. StartersOk'
  BY <1>3, <1>4 DEF QueueIInv, StartersOk, Started
<1> QED BY <1>4, <1>5

LEMMA ObserveKeeps ==
    ASSUME QueueIInv, NEW p \in Procs, NEW r \in Runs, Observe(p, r)
    PROVE  QueueIInv'
<1>1. QueueTypeOK
  BY DEF QueueIInv
<1>2. /\ UNCHANGED <<runvars, exec, followdoc, fseen, kick, entered>> /\ phase[r] = "over"
      /\ obs[r] < MaxObs /\ obs' = [obs EXCEPT ![r] = @ + 1] /\ closed' = r /\ SteersWritten
      /\ Notify(p, r)
  BY DEF Observe
<1>3. /\ phase' = phase /\ source' = source /\ view' = view /\ follows' = follows
      /\ trigger' = trigger /\ UNCHANGED <<exec, fseen, kick, entered>>
  BY <1>2 DEF runvars, followdoc
<1>4. /\ steers \in [Steers -> SteerRows] /\ obs \in [Runs -> 0..MaxObs] /\ MaxObs \in Nat
      /\ exec \in [1..MaxToken -> Execs]
  BY <1>1, Types, QueueAssumption
<1>5. /\ steers' \in [Steers -> SteerRows]
      /\ \A z \in Steers : /\ steers'[z].run = steers[z].run /\ steers'[z].input = steers[z].input
                           /\ \/ steers'[z].status = steers[z].status
                              \/ steers[z].status # "none" /\ steers'[z].status = "rejected"
                           /\ z \notin Closable(r) => steers'[z] = steers[z]
                           /\ z \in Closable(r) => steers'[z].status = "rejected"
  <2> DEFINE out(z) == [steers[z] EXCEPT !.status = "rejected", !.token = 0]
  <2>1. steers' = [z \in Steers |-> IF z \in Closable(r) THEN out(z) ELSE steers[z]]
    BY <1>4 DEF Observe
  <2>2. \A z \in Closable(r) : z \in Steers /\ steers[z].status # "none"
    BY DEF Closable
  <2>3. 0 \in 0..MaxToken /\ \A z \in Steers : steers[z] \in SteerRows
    BY <1>4, QueueAssumption
  <2>4. \A z \in Steers : /\ out(z) \in SteerRows /\ out(z).status = "rejected"
                          /\ out(z).run = steers[z].run /\ out(z).input = steers[z].input
    BY <2>3 DEF SteerRows, Statuses
  <2> HIDE DEF out
  <2> QED BY <1>4, <2>1, <2>2, <2>4
<1>6. obs' \in [Runs -> 0..MaxObs] /\ \A s \in Runs : s # r => obs'[s] = obs[s]
  <2>1. obs[r] + 1 \in 0..MaxObs
    BY <1>2, <1>4
  <2> QED BY <1>2, <1>4, <2>1
<1>7. /\ seen' \in [Steers -> [run : Runs \cup {None}, of : Follows \cup {None}]]
      /\ \A z \in Steers : seen'[z].run = None
  BY <1>1, <1>2, WrittenTypes, Types DEF SteersWritten, Unread
<1>8. start' \in [Procs -> StartRows] /\ StartersOk'
  BY <1>2, <1>3, NotifyKeeps
<1>9. QueueTypeOK'
  BY <1>1, <1>2, <1>3, <1>5, <1>6, <1>7, <1>8, Types
     DEF QueueTypeOK, Views, Execs, SteerRows, FollowRows, StartRows, Statuses
<1>10. RunsOk'
  BY <1>2, <1>3, <1>6 DEF QueueIInv, RunsOk
<1>11. SteersOk'
  <2> SUFFICES ASSUME NEW z \in Steers
               PROVE  /\ steers'[z].status # "none" =>
                           steers'[z].run \in Runs /\ phase'[steers'[z].run] # "new"
                               /\ steers'[z].input \in Inputs
                      /\ steers'[z].status \in {"accepted", "claimed"} => obs'[steers'[z].run] = 0
    BY <1>7 DEF SteersOk
  <2>1. steers'[z].status # "none" => steers[z].status # "none"
    BY <1>5
  <2>2. steers'[z].status \in {"accepted", "claimed"} =>
             steers[z].status \in {"accepted", "claimed"} /\ steers[z].run # r
    BY <1>5 DEF Closable
  <2>3. steers'[z].run = steers[z].run /\ steers'[z].input = steers[z].input
    BY <1>5
  <2> QED BY <1>3, <1>6, <2>1, <2>2, <2>3 DEF QueueIInv, SteersOk
<1>12. OneClaimPerRun'
  BY <1>5 DEF QueueIInv, OneClaimPerRun
<1>13. AppliedIsInHistory'
  BY <1>3, <1>5 DEF QueueIInv, AppliedIsInHistory, Started
<1>14. FollowsOk'
  BY <1>3, FollowsFrame DEF QueueIInv
<1>15. \A u \in 1..MaxToken : exec[u].pending \in Steers \cup {None}
  BY <1>4 DEF Execs
<1>16. PendingIsHeld'
  <2> SUFFICES ASSUME NEW u \in 1..MaxToken, Owns(u)', exec'[u].pending # None
               PROVE  HoldsClaim(u)'
    BY DEF PendingIsHeld
  <2>1. Owns(u) /\ exec[u].pending \in Steers /\ HoldsClaim(u)
    BY <1>3, <1>15 DEF Owns, QueueIInv, ExecsOk, PendingIsHeld
  <2>2. view.run # r
    BY <1>2, <2>1 DEF Owns, QueueIInv, RunsOk
  <2>3. steers'[exec[u].pending] = steers[exec[u].pending]
    BY <1>5, <2>1, <2>2 DEF HoldsClaim, Closable
  <2> QED BY <1>3, <2>1, <2>3 DEF HoldsClaim, Owns
<1>17. ExecsOk'
  BY <1>3, <1>5, <1>15, <1>16 DEF QueueIInv, ExecsOk
<1> QED BY <1>8, <1>9, <1>10, <1>11, <1>12, <1>13, <1>14, <1>17 DEF QueueIInv

\* A write of the follow-ups' document fails the promotions that watch it.
LEMMA PromotionsFail ==
    ASSUME QueueIInv, FollowsWritten, UNCHANGED <<phase, steers, obs>>
    PROVE  SteersOk'
<1>1. /\ seen \in [Steers -> [run : Runs \cup {None}, of : Follows \cup {None}]]
  BY Types DEF QueueIInv
<1>2. \A x \in Steers : seen'[x] = IF seen[x].of = None THEN seen[x] ELSE Unread
  BY <1>1 DEF FollowsWritten
<1>3. \A x \in Steers : seen'[x].run # None => seen'[x] = seen[x] /\ seen[x].of = None
  BY <1>2 DEF Unread
<1> QED BY <1>3 DEF QueueIInv, SteersOk

\* The type invariant after a write of the follow-ups' document, or of their starters.
LEMMA FollowTypes ==
    ASSUME QueueTypeOK, UNCHANGED <<runvars, exec, steerdoc, obs, entered>>,
           follows' \in [Follows -> FollowRows], trigger' \in [Runs -> Follows \cup {None}],
           FollowsWritten \/ UNCHANGED <<seen, fseen>>, kick' \in [Follows -> Procs \cup {None}],
           start' \in [Procs -> StartRows]
    PROVE  QueueTypeOK'
<1>1. /\ phase' = phase /\ source' = source /\ view' = view /\ steers' = steers
      /\ closed' = closed
  BY DEF runvars, steerdoc
<1>2. /\ seen' \in [Steers -> [run : Runs \cup {None}, of : Follows \cup {None}]]
      /\ fseen' \in [Follows -> Runs \cup {None}]
  BY WrittenTypes, Types
<1> QED BY <1>1, <1>2, Types
        DEF QueueTypeOK, Views, Execs, SteerRows, FollowRows, StartRows, Statuses

LEMMA ReadForFollowUpKeeps ==
    ASSUME QueueIInv, NEW f \in Follows, ReadForFollowUp(f)
    PROVE  QueueIInv'
<1>1. QueueTypeOK
  BY DEF QueueIInv
<1>2. /\ UNCHANGED <<runvars, exec, steerdoc, followdoc, seen, kick, start, obs, entered>>
      /\ fseen' = [fseen EXCEPT ![f] = view.run] /\ follows[f].status = "none"
  BY DEF ReadForFollowUp
<1>3. /\ phase' = phase /\ source' = source /\ view' = view /\ steers' = steers
      /\ closed' = closed /\ follows' = follows /\ trigger' = trigger
  BY <1>2 DEF runvars, steerdoc, followdoc
<1>4. fseen \in [Follows -> Runs \cup {None}] /\ view.run \in Runs \cup {None}
  BY <1>1, Types, ViewTyped
<1>5. fseen' \in [Follows -> Runs \cup {None}] /\ \A g \in Follows : g # f => fseen'[g] = fseen[g]
  BY <1>2, <1>4
<1>6. QueueTypeOK'
  BY <1>1, <1>2, <1>3, <1>5, Types
     DEF QueueTypeOK, Views, Execs, SteerRows, FollowRows, StartRows, Statuses
<1>7. SteersOk' /\ StartersOk'
  BY <1>1, <1>2, <1>3, SteersFrame, StartersFrame DEF QueueIInv
<1>8. FollowsOk'
  BY <1>2, <1>3, <1>5 DEF QueueIInv, FollowsOk, ClaimIndexed
<1> QED BY <1>2, <1>3, <1>6, <1>7, <1>8, FollowsMove

LEMMA EnqueueFollowUpKeeps ==
    ASSUME QueueIInv, NEW p \in Procs, NEW f \in Follows, EnqueueFollowUp(p, f)
    PROVE  QueueIInv'
<1> DEFINE row == [NoFollow EXCEPT !.status = "accepted", !.during = fseen[f]]
<1>1. QueueTypeOK
  BY DEF QueueIInv
<1>2. /\ UNCHANGED <<runvars, exec, steerdoc, trigger, start, obs, entered>> /\ fseen[f] # None
      /\ follows' = [follows EXCEPT ![f] = row] /\ FollowsWritten /\ kick' = [kick EXCEPT ![f] = p]
  BY DEF EnqueueFollowUp
<1>3. /\ follows \in [Follows -> FollowRows] /\ fseen \in [Follows -> Runs \cup {None}]
      /\ kick \in [Follows -> Procs \cup {None}] /\ trigger \in [Runs -> Follows \cup {None}]
      /\ start \in [Procs -> StartRows]
  BY <1>1, Types
<1>4. fseen[f] \in Runs /\ follows[f].status = "none" /\ 0 \in 0..MaxClaims
  BY <1>2, <1>3, QueueAssumption DEF QueueIInv, FollowsOk
<1>5. row \in FollowRows /\ row.status = "accepted" /\ row.during \in Runs
  BY <1>4 DEF FollowRows, NoFollow, Statuses
<1> HIDE DEF row
<1>6. /\ follows' \in [Follows -> FollowRows] /\ follows'[f] = row
      /\ \A g \in Follows : g # f => follows'[g] = follows[g]
  BY <1>2, <1>3, <1>5
<1>7. /\ kick' \in [Follows -> Procs \cup {None}]
      /\ \A g \in Follows : g # f => kick'[g] = kick[g]
  BY <1>2, <1>3
<1>8. QueueTypeOK'
  BY <1>1, <1>2, <1>3, <1>6, <1>7, FollowTypes
<1>9. FollowsOk'
  <2>1. FollowsOk /\ \A r \in Runs : trigger[r] # f
    BY <1>4, QueueAssumption DEF QueueIInv, FollowsOk, ClaimIndexed
  <2>2. \A g \in Follows : fseen'[g] = None
    BY <1>2, <1>3 DEF FollowsWritten
  <2>3. ClaimIndexed'
    BY <1>2, <1>3, <1>5, <1>6, <2>1 DEF FollowsOk, ClaimIndexed
  <2>4. \A g \in Follows : /\ follows'[g].status = "claimed" => follows'[g].trig \in Runs
                           /\ kick'[g] # None => follows'[g].during \in Runs
    BY <1>5, <1>6, <1>7, <2>1 DEF FollowsOk
  <2>5. \A r \in Runs : trigger'[r] # None => follows'[trigger'[r]].trig = r
    BY <1>2, <1>3, <1>6, <2>1 DEF FollowsOk
  <2> QED BY <2>2, <2>3, <2>4, <2>5 DEF FollowsOk
<1>10. SteersOk' /\ StartersOk'
  BY <1>2, PromotionsFail, StartersFrame DEF QueueIInv, runvars, steerdoc
<1>11. UNCHANGED steers
  BY <1>2 DEF steerdoc
<1> QED BY <1>2, <1>5, <1>6, <1>8, <1>9, <1>10, <1>11, FollowsMove

LEMMA CancelFollowUpKeeps ==
    ASSUME QueueIInv, NEW f \in Follows, CancelFollowUp(f)
    PROVE  QueueIInv'
<1>1. QueueTypeOK
  BY DEF QueueIInv
<1>2. /\ UNCHANGED <<runvars, exec, steerdoc, trigger, kick, start, obs, entered>>
      /\ follows[f].status = "accepted" /\ FollowsWritten
      /\ follows' = [follows EXCEPT ![f].status = "canceled"]
  BY DEF CancelFollowUp
<1>3. /\ fseen \in [Follows -> Runs \cup {None}] /\ start \in [Procs -> StartRows]
      /\ kick \in [Follows -> Procs \cup {None}] /\ trigger \in [Runs -> Follows \cup {None}]
  BY <1>1, Types
<1>4. \A g \in Follows : fseen'[g] = None
  BY <1>2, <1>3 DEF FollowsWritten
<1>5. /\ FollowsOk' /\ follows' \in [Follows -> FollowRows] /\ follows'[f].status = "canceled"
      /\ \A g \in Follows : g # f => follows'[g] = follows[g]
  BY <1>2, <1>4, FollowCanceled
<1>6. QueueTypeOK'
  BY <1>1, <1>2, <1>3, <1>5, FollowTypes
<1>7. SteersOk' /\ StartersOk' /\ steers' = steers
  BY <1>2, PromotionsFail, StartersFrame DEF QueueIInv, runvars, steerdoc
<1> QED BY <1>2, <1>5, <1>6, <1>7, FollowsMove

LEMMA KickKeeps ==
    ASSUME QueueIInv, NEW f \in Follows, Kick(f)
    PROVE  QueueIInv'
<1>1. QueueTypeOK
  BY DEF QueueIInv
<1>2. /\ UNCHANGED <<runvars, exec, steerdoc, followdoc, seen, fseen, obs, entered>>
      /\ kick[f] # None /\ kick' = [kick EXCEPT ![f] = None]
  BY DEF Kick
<1>3. /\ steers' = steers /\ follows' = follows /\ trigger' = trigger /\ phase' = phase
      /\ source' = source
  BY <1>2 DEF runvars, steerdoc, followdoc
<1>4. /\ kick \in [Follows -> Procs \cup {None}] /\ start \in [Procs -> StartRows]
      /\ follows \in [Follows -> FollowRows] /\ trigger \in [Runs -> Follows \cup {None}]
  BY <1>1, Types
<1>5. kick[f] \in Procs /\ follows[f].during \in Runs
  BY <1>2, <1>4 DEF QueueIInv, FollowsOk
<1>6. start' \in [Procs -> StartRows] /\ StartersOk'
  <2>1. CASE Notify(kick[f], follows[f].during)
    BY <1>3, <1>5, <2>1, NotifyKeeps
  <2>2. CASE start' = start
    BY <1>3, <1>4, <2>2, StartersFrame DEF QueueIInv
  <2> QED BY <2>1, <2>2 DEF Kick
<1>7. /\ kick' \in [Follows -> Procs \cup {None}]
      /\ \A g \in Follows : kick'[g] # None => kick[g] # None
  BY <1>2, <1>4
<1>8. QueueTypeOK'
  BY <1>1, <1>2, <1>3, <1>4, <1>6, <1>7, FollowTypes
<1>9. FollowsOk'
  BY <1>2, <1>3, <1>7 DEF QueueIInv, FollowsOk, ClaimIndexed
<1>10. SteersOk'
  BY <1>1, <1>2, <1>3, SteersFrame DEF QueueIInv
<1> QED BY <1>2, <1>3, <1>6, <1>8, <1>9, <1>10, FollowsMove

-----------------------------------------------------------------------------
(* The follow-up starters.                                                 *)

\* The starter of p turns to row.
LEMMA StarterTurns ==
    ASSUME QueueIInv, NEW p \in Procs, NEW row \in StartRows, start' = [start EXCEPT ![p] = row],
           source' = source, row.pc # "idle" => row.trig \in Runs,
           row.pc \in {"start", "apply", "release"} => row.item \in Follows,
           row.pc = "apply" => Started(row.item)
    PROVE  start' \in [Procs -> StartRows] /\ StartersOk'
<1>1. start \in [Procs -> StartRows]
  BY Types DEF QueueIInv
<1>2. /\ start' \in [Procs -> StartRows] /\ start'[p] = row
      /\ \A q \in Procs : q # p => start'[q] = start[q]
  BY <1>1
<1>3. StartersOk'
  BY <1>2 DEF QueueIInv, StartersOk, Started
<1> QED BY <1>2, <1>3

LEMMA ProceedRow ==
    ASSUME QueueTypeOK, NEW p \in Procs
    PROVE  /\ Proceed(start[p]) \in StartRows /\ Proceed(start[p]).pc \in {"idle", "claim"}
           /\ Proceed(start[p]).pc = "claim" => Proceed(start[p]).trig \in Runs
<1>1. start[p] \in StartRows /\ 0 \in 0..MaxClaims
  BY Types, QueueAssumption
<1>2. CASE start[p].next = None
  BY <1>1, <1>2 DEF Proceed, AtRest, StartRows
<1>3. CASE start[p].next # None
  <2>1. start[p].next \in Runs
    BY <1>1, <1>3 DEF StartRows
  <2> QED BY <1>1, <1>3, <2>1 DEF Proceed, AtRest, StartRows
<1> QED BY <1>2, <1>3

\* A starter that leaves the items as they are.
LEMMA StarterOnly ==
    ASSUME QueueIInv, NEW p \in Procs, NEW row \in StartRows, start' = [start EXCEPT ![p] = row],
           UNCHANGED <<runvars, exec, steerdoc, followdoc, kick, obs, entered>>,
           FollowsWritten \/ UNCHANGED <<seen, fseen>>,
           row.pc # "idle" => row.trig \in Runs,
           row.pc \in {"start", "apply", "release"} => row.item \in Follows,
           row.pc = "apply" => Started(row.item)
    PROVE  QueueIInv'
<1>1. QueueTypeOK
  BY DEF QueueIInv
<1>2. /\ phase' = phase /\ source' = source /\ view' = view /\ steers' = steers
      /\ closed' = closed /\ follows' = follows /\ trigger' = trigger
  BY DEF runvars, steerdoc, followdoc
<1>3. /\ follows \in [Follows -> FollowRows] /\ trigger \in [Runs -> Follows \cup {None}]
      /\ kick \in [Follows -> Procs \cup {None}] /\ fseen \in [Follows -> Runs \cup {None}]
  BY <1>1, Types
<1>4. start' \in [Procs -> StartRows] /\ StartersOk'
  BY <1>2, StarterTurns
<1>5. QueueTypeOK'
  BY <1>1, <1>2, <1>3, <1>4, FollowTypes
<1>6. SteersOk'
  BY <1>1, <1>2, PromotionsFail, SteersFrame DEF QueueIInv
<1>7. \A g \in Follows : fseen'[g] \in {fseen[g], None}
  BY <1>3 DEF FollowsWritten
<1>8. FollowsOk'
  BY <1>2, <1>7 DEF QueueIInv, FollowsOk, ClaimIndexed
<1> QED BY <1>2, <1>4, <1>5, <1>6, <1>8, FollowsMove

\* ClaimNextFollowUp takes an item that no trigger names for a trigger that names none.
LEMMA FollowClaimed ==
    ASSUME QueueIInv, NEW r \in Runs, NEW g \in Follows, trigger[r] = None,
           follows[g].status = "accepted", follows[g].claim < MaxClaims,
           follows' = [follows EXCEPT ![g].status = "claimed", ![g].trig = r, ![g].claim = @ + 1],
           trigger' = [trigger EXCEPT ![r] = g], FollowsWritten, kick' = kick
    PROVE  /\ FollowsOk' /\ follows' \in [Follows -> FollowRows]
           /\ trigger' \in [Runs -> Follows \cup {None}]
           /\ follows'[g].status = "claimed" /\ follows'[g].claim = follows[g].claim + 1
           /\ follows[g].claim + 1 \in 0..MaxClaims
           /\ \A h \in Follows : h # g => follows'[h] = follows[h]
<1> DEFINE row == [follows[g] EXCEPT !.status = "claimed", !.trig = r, !.claim = @ + 1]
<1>1. /\ follows \in [Follows -> FollowRows] /\ follows[g] \in FollowRows
      /\ fseen \in [Follows -> Runs \cup {None}] /\ trigger \in [Runs -> Follows \cup {None}]
  BY Types DEF QueueIInv
<1>2. follows[g].claim \in 0..MaxClaims
  BY <1>1 DEF FollowRows
<1>3. follows[g].claim + 1 \in 0..MaxClaims
  BY <1>2, QueueAssumption
<1>4. follows' = [follows EXCEPT ![g] = row]
  BY <1>1
<1>5. /\ row \in FollowRows /\ row.status = "claimed" /\ row.trig = r
      /\ row.during = follows[g].during /\ row.claim = follows[g].claim + 1
  BY <1>1, <1>3 DEF FollowRows, Statuses
<1> HIDE DEF row
<1>6. /\ follows' \in [Follows -> FollowRows] /\ follows'[g] = row
      /\ \A h \in Follows : h # g => follows'[h] = follows[h]
  <2>1. row \in FollowRows /\ follows \in [Follows -> FollowRows]
    BY <1>1, <1>5
  <2> QED BY <1>4, <2>1
<1>7. /\ trigger' \in [Runs -> Follows \cup {None}] /\ trigger'[r] = g
      /\ \A s \in Runs : s # r => trigger'[s] = trigger[s]
  BY <1>1
<1>8. FollowsOk /\ \A s \in Runs : trigger[s] # g
  BY QueueAssumption DEF QueueIInv, FollowsOk, ClaimIndexed
<1>9. \A h \in Follows : fseen'[h] = None
  BY <1>1 DEF FollowsWritten
<1>10. ClaimIndexed'
  <2>1. ASSUME NEW h \in Follows, follows'[h].status = "claimed"
        PROVE  trigger'[follows'[h].trig] = h
    <3>1. CASE h = g
      BY <1>5, <1>6, <1>7, <3>1
    <3>2. CASE h # g
      <4>1. follows[h].status = "claimed" /\ follows'[h].trig = follows[h].trig
        BY <1>6, <2>1, <3>2
      <4>2. follows[h].trig \in Runs /\ trigger[follows[h].trig] = h
        BY <1>8, <4>1 DEF FollowsOk, ClaimIndexed
      <4>3. follows[h].trig # r
        BY <4>2, QueueAssumption
      <4> QED BY <1>7, <4>1, <4>2, <4>3
    <3> QED BY <3>1, <3>2
  <2>2. ASSUME NEW s \in Runs, trigger'[s] # None
        PROVE  follows'[trigger'[s]].status \in {"claimed", "applied"}
    <3>1. CASE s = r
      BY <1>5, <1>6, <1>7, <3>1
    <3>2. CASE s # r
      BY <1>1, <1>6, <1>7, <1>8, <2>2, <3>2 DEF FollowsOk, ClaimIndexed
    <3> QED BY <3>1, <3>2
  <2> QED BY <2>1, <2>2 DEF ClaimIndexed
<1>11. \A h \in Follows : /\ follows'[h].status = "claimed" => follows'[h].trig \in Runs
                          /\ kick'[h] # None => follows'[h].during \in Runs
  BY <1>5, <1>6, <1>8 DEF FollowsOk
<1>12. \A s \in Runs : trigger'[s] # None => follows'[trigger'[s]].trig = s
  BY <1>1, <1>5, <1>6, <1>7, <1>8 DEF FollowsOk
<1> QED BY <1>3, <1>5, <1>6, <1>7, <1>9, <1>10, <1>11, <1>12 DEF FollowsOk

LEMMA ClaimNextFollowUpKeeps ==
    ASSUME QueueIInv, NEW p \in Procs, ClaimNextFollowUp(p)
    PROVE  QueueIInv'
<1>1. QueueTypeOK
  BY DEF QueueIInv
<1>2. /\ UNCHANGED <<runvars, exec, steerdoc, kick, obs, entered>> /\ FollowsWritten
      /\ start[p].pc = "claim"
  BY DEF ClaimNextFollowUp
<1>3. PICK r \in Runs : r = start[p].trig
  BY <1>2 DEF QueueIInv, StartersOk
<1>4. /\ start[p] \in StartRows /\ trigger \in [Runs -> Follows \cup {None}]
      /\ follows \in [Follows -> FollowRows] /\ start \in [Procs -> StartRows]
      /\ kick \in [Follows -> Procs \cup {None}]
  BY <1>1, Types
<1>5. /\ UNCHANGED <<phase, source, view, steers>>
  BY <1>2 DEF runvars, steerdoc
<1>6. ASSUME start' = [start EXCEPT ![p] = Proceed(@)], UNCHANGED followdoc
      PROVE  QueueIInv'
  <2>1. start' = [start EXCEPT ![p] = Proceed(start[p])]
    BY <1>4, <1>6
  <2>2. /\ Proceed(start[p]) \in StartRows /\ Proceed(start[p]).pc \in {"idle", "claim"}
        /\ Proceed(start[p]).pc = "claim" => Proceed(start[p]).trig \in Runs
    BY <1>1, ProceedRow
  <2> QED BY <1>2, <1>6, <2>1, <2>2, StarterOnly
<1>7. ASSUME NEW g \in Follows, NEW n \in 0..MaxClaims,
             start' = [start EXCEPT ![p] = [@ EXCEPT !.pc = "start", !.item = g, !.claim = n]]
      PROVE  \E row \in StartRows : /\ start' = [start EXCEPT ![p] = row] /\ row.pc = "start"
                                    /\ row.item = g /\ row.trig = r
  <2> DEFINE row == [start[p] EXCEPT !.pc = "start", !.item = g, !.claim = n]
  <2>1. start' = [start EXCEPT ![p] = row]
    BY <1>4, <1>7
  <2>2. row \in StartRows /\ row.pc = "start" /\ row.item = g /\ row.trig = r
    BY <1>3, <1>4 DEF StartRows
  <2> HIDE DEF row
  <2> QED BY <2>1, <2>2
<1>8. ASSUME trigger[r] # None, follows[trigger[r]].status = "claimed", UNCHANGED followdoc,
             start' = [start EXCEPT ![p] = [@ EXCEPT !.pc = "start", !.item = trigger[r],
                                                     !.claim = follows[trigger[r]].claim]]
      PROVE  QueueIInv'
  <2>1. trigger[r] \in Follows
    BY <1>4, <1>8
  <2>2. follows[trigger[r]].claim \in 0..MaxClaims
    BY <1>4, <2>1 DEF FollowRows
  <2>3. PICK row \in StartRows : /\ start' = [start EXCEPT ![p] = row] /\ row.pc = "start"
                                 /\ row.item = trigger[r] /\ row.trig = r
    BY <1>7, <1>8, <2>1, <2>2
  <2> QED BY <1>2, <1>8, <2>1, <2>3, StarterOnly
<1>9. ASSUME trigger[r] = None, NEW g \in Pending(follows), follows[g].claim < MaxClaims,
             follows' = [follows EXCEPT ![g].status = "claimed", ![g].trig = r, ![g].claim = @ + 1],
             trigger' = [trigger EXCEPT ![r] = g],
             start' = [start EXCEPT ![p] = [@ EXCEPT !.pc = "start", !.item = g,
                                                     !.claim = follows[g].claim + 1]]
      PROVE  QueueIInv'
  <2>1. g \in Follows /\ follows[g].status = "accepted"
    BY <1>4 DEF Pending
  <2>2. kick' = kick
    BY <1>2
  <2>3. /\ FollowsOk' /\ follows' \in [Follows -> FollowRows]
        /\ trigger' \in [Runs -> Follows \cup {None}]
        /\ follows'[g].status = "claimed" /\ follows[g].claim + 1 \in 0..MaxClaims
        /\ \A h \in Follows : h # g => follows'[h] = follows[h]
    BY <1>2, <1>9, <2>1, <2>2, FollowClaimed
  <2>4. PICK row \in StartRows : /\ start' = [start EXCEPT ![p] = row] /\ row.pc = "start"
                                 /\ row.item = g /\ row.trig = r
    BY <1>7, <1>9, <2>1, <2>3
  <2>5. start' \in [Procs -> StartRows] /\ StartersOk'
    BY <1>5, <2>1, <2>4, StarterTurns
  <2>6. QueueTypeOK'
    BY <1>1, <1>2, <1>4, <2>3, <2>5, FollowTypes
  <2>7. SteersOk'
    BY <1>2, <1>5, PromotionsFail
  <2> QED BY <1>2, <1>5, <2>3, <2>5, <2>6, <2>7, FollowsMove
<1> QED BY <1>3, <1>6, <1>8, <1>9 DEF ClaimNextFollowUp, ClaimedFor

\* Settle ends a claim that still stands, and frees its trigger unless the turn was started.
LEMMA FollowSettled ==
    ASSUME QueueIInv, NEW f \in Follows, NEW status \in {"rejected", "applied", "accepted"},
           follows[f].status = "claimed", follows' = [follows EXCEPT ![f].status = status],
           trigger' = IF status = "applied" THEN trigger
                      ELSE [trigger EXCEPT ![follows[f].trig] = None],
           FollowsWritten, kick' = kick
    PROVE  /\ FollowsOk' /\ follows' \in [Follows -> FollowRows]
           /\ trigger' \in [Runs -> Follows \cup {None}]
           /\ follows'[f].status = status
           /\ \A h \in Follows : h # f => follows'[h] = follows[h]
<1> DEFINE row == [follows[f] EXCEPT !.status = status]
<1>1. /\ follows \in [Follows -> FollowRows] /\ follows[f] \in FollowRows
      /\ fseen \in [Follows -> Runs \cup {None}] /\ trigger \in [Runs -> Follows \cup {None}]
  BY Types DEF QueueIInv
<1>2. follows' = [follows EXCEPT ![f] = row]
  BY <1>1
<1>3. /\ row \in FollowRows /\ row.status = status /\ row.trig = follows[f].trig
      /\ row.during = follows[f].during
  BY <1>1 DEF FollowRows, Statuses
<1> HIDE DEF row
<1>4. /\ follows' \in [Follows -> FollowRows] /\ follows'[f] = row
      /\ \A h \in Follows : h # f => follows'[h] = follows[h]
  BY <1>1, <1>2, <1>3
<1>5. FollowsOk /\ follows[f].trig \in Runs /\ trigger[follows[f].trig] = f
      /\ \A s \in Runs : trigger[s] = f => s = follows[f].trig
  BY QueueAssumption DEF QueueIInv, FollowsOk, ClaimIndexed
<1>6. /\ trigger' \in [Runs -> Follows \cup {None}]
      /\ \A s \in Runs : s # follows[f].trig => trigger'[s] = trigger[s]
      /\ trigger'[follows[f].trig] = IF status = "applied" THEN f ELSE None
  BY <1>1, <1>5
<1>7. \A h \in Follows : fseen'[h] = None
  BY <1>1 DEF FollowsWritten
<1>8. ASSUME NEW h \in Follows, follows'[h].status = "claimed"
      PROVE  h # f /\ follows'[h] = follows[h] /\ follows[h].trig \in Runs
             /\ trigger'[follows[h].trig] = h
  <2>1. h # f /\ follows'[h] = follows[h]
    BY <1>3, <1>4, <1>8
  <2>2. follows[h].trig \in Runs /\ trigger[follows[h].trig] = h
    BY <1>5, <1>8, <2>1 DEF FollowsOk, ClaimIndexed
  <2> QED BY <1>5, <1>6, <2>1, <2>2
<1>9. ASSUME NEW s \in Runs, trigger'[s] # None
      PROVE  /\ follows'[trigger'[s]].status \in {"claimed", "applied"}
             /\ follows'[trigger'[s]].trig = s
  <2>1. CASE s = follows[f].trig
    BY <1>3, <1>4, <1>6, <1>9, <2>1
  <2>2. CASE s # follows[f].trig
    <3>1. trigger'[s] = trigger[s] /\ trigger[s] \in Follows /\ trigger[s] # f
      BY <1>1, <1>5, <1>6, <1>9, <2>2
    <3> QED BY <1>4, <1>5, <3>1, QueueAssumption DEF FollowsOk, ClaimIndexed
  <2> QED BY <2>1, <2>2
<1>10. \A h \in Follows : kick'[h] # None => follows'[h].during \in Runs
  BY <1>3, <1>4, <1>5 DEF FollowsOk
<1> QED BY <1>3, <1>4, <1>6, <1>7, <1>8, <1>9, <1>10 DEF FollowsOk, ClaimIndexed

LEMMA SettleKeeps ==
    ASSUME QueueIInv, NEW p \in Procs, NEW status \in {"rejected", "applied", "accepted"},
           NEW then \in StartRows, Settle(p, status, then), UNCHANGED <<runvars, exec, entered>>,
           start[p].pc \in {"start", "apply", "release"},
           status = "applied" => start[p].pc = "apply",
           then.pc \in {"idle", "claim"}, then.pc = "claim" => then.trig \in Runs
    PROVE  QueueIInv'
<1>1. QueueTypeOK
  BY DEF QueueIInv
<1>2. PICK f \in Follows : f = start[p].item
  BY DEF QueueIInv, StartersOk
<1>3. /\ UNCHANGED <<steerdoc, kick, obs>> /\ start' = [start EXCEPT ![p] = then]
      /\ UNCHANGED <<phase, source, view, steers>>
  BY DEF Settle, runvars, steerdoc
<1>4. kick \in [Follows -> Procs \cup {None}]
  BY <1>1, Types
<1>5. CASE ~Matches(p)
  <2>1. UNCHANGED <<followdoc, fseen, seen>>
    BY <1>5 DEF Settle
  <2> QED BY <1>3, <2>1, StarterOnly
<1>6. CASE Matches(p)
  <2>1. /\ follows' = [follows EXCEPT ![f].status = status] /\ FollowsWritten
        /\ trigger' = IF status = "applied" THEN trigger
                      ELSE [trigger EXCEPT ![follows[f].trig] = None]
        /\ follows[f].status = "claimed"
    BY <1>2, <1>6 DEF Settle, Matches
  <2>2. /\ FollowsOk' /\ follows' \in [Follows -> FollowRows]
        /\ trigger' \in [Runs -> Follows \cup {None}]
        /\ follows'[f].status = status
        /\ \A h \in Follows : h # f => follows'[h] = follows[h]
    BY <1>3, <2>1, FollowSettled
  <2>3. start' \in [Procs -> StartRows] /\ StartersOk'
    BY <1>3, StarterTurns
  <2>4. QueueTypeOK'
    BY <1>1, <1>3, <1>4, <2>1, <2>2, <2>3, FollowTypes
  <2>5. SteersOk'
    BY <1>3, <2>1, PromotionsFail
  <2>6. status = "applied" => Started(f)
    BY <1>2 DEF QueueIInv, StartersOk
  <2>7. \A h \in Follows : follows'[h].status = "applied" =>
                                  follows[h].status = "applied" \/ Started(h)
    BY <2>2, <2>6
  <2> QED BY <1>3, <2>2, <2>3, <2>4, <2>5, <2>7, FollowsMove
<1> QED BY <1>5, <1>6

LEMMA RejectFollowUpKeeps ==
    ASSUME QueueIInv, NEW p \in Procs, RejectFollowUp(p)
    PROVE  QueueIInv'
<1> DEFINE again == [start[p] EXCEPT !.pc = "claim", !.item = None, !.claim = 0]
<1>1. QueueTypeOK
  BY DEF QueueIInv
<1>2. start[p].pc = "start" /\ UNCHANGED <<runvars, exec, entered>>
  BY DEF RejectFollowUp
<1>3. start[p] \in StartRows /\ start[p].trig \in Runs /\ 0 \in 0..MaxClaims
  BY <1>1, <1>2, Types, QueueAssumption DEF QueueIInv, StartersOk
<1>4. again \in StartRows /\ again.pc = "claim" /\ again.trig \in Runs
  BY <1>3 DEF StartRows
<1> HIDE DEF again
<1>5. \/ Settle(p, "rejected", again) \/ Settle(p, "rejected", Proceed(start[p]))
  <2>1. PICK unreadable \in BOOLEAN :
          Settle(p, "rejected", IF unreadable /\ Matches(p) THEN again ELSE Proceed(start[p]))
    BY DEF RejectFollowUp, again
  <2> QED BY <2>1, Zenon
<1>6. /\ Proceed(start[p]) \in StartRows /\ Proceed(start[p]).pc \in {"idle", "claim"}
      /\ Proceed(start[p]).pc = "claim" => Proceed(start[p]).trig \in Runs
  BY <1>1, ProceedRow
<1>7. CASE Settle(p, "rejected", again)
  BY <1>2, <1>4, <1>7, SettleKeeps
<1>8. CASE Settle(p, "rejected", Proceed(start[p]))
  BY <1>2, <1>6, <1>8, SettleKeeps
<1> QED BY <1>5, <1>7, <1>8

LEMMA ApplyFollowUpKeeps ==
    ASSUME QueueIInv, NEW p \in Procs, ApplyFollowUp(p)
    PROVE  QueueIInv'
<1>1. /\ Proceed(start[p]) \in StartRows /\ Proceed(start[p]).pc \in {"idle", "claim"}
      /\ Proceed(start[p]).pc = "claim" => Proceed(start[p]).trig \in Runs
  BY ProceedRow DEF QueueIInv
<1> QED BY <1>1, SettleKeeps DEF ApplyFollowUp

LEMMA ReleaseFollowUpKeeps ==
    ASSUME QueueIInv, NEW p \in Procs, ReleaseFollowUp(p)
    PROVE  QueueIInv'
<1>1. /\ Proceed(start[p]) \in StartRows /\ Proceed(start[p]).pc \in {"idle", "claim"}
      /\ Proceed(start[p]).pc = "claim" => Proceed(start[p]).trig \in Runs
  BY ProceedRow DEF QueueIInv
<1> QED BY <1>1, SettleKeeps DEF ReleaseFollowUp

\* The starter decides what becomes of the item in its hands.
LEMMA DuplicateOrGiveUpKeeps ==
    ASSUME QueueIInv, NEW p \in Procs, DuplicateFollowUp(p) \/ GiveUp(p)
    PROVE  QueueIInv'
<1>1. /\ start \in [Procs -> StartRows] /\ start[p] \in StartRows /\ start[p].pc = "start"
      /\ UNCHANGED <<runvars, exec, steerdoc, followdoc, seen, fseen, kick, obs, entered>>
  BY Types DEF QueueIInv, DuplicateFollowUp, GiveUp, Startable
<1>2. start[p].trig \in Runs /\ start[p].item \in Follows
  BY <1>1 DEF QueueIInv, StartersOk
<1>3. ASSUME NEW pc \in {"apply", "release"}, start' = [start EXCEPT ![p].pc = pc],
             pc = "apply" => Started(start[p].item)
      PROVE  QueueIInv'
  <2> DEFINE row == [start[p] EXCEPT !.pc = pc]
  <2>1. start' = [start EXCEPT ![p] = row]
    BY <1>1, <1>3
  <2>2. /\ row \in StartRows /\ row.pc = pc /\ row.trig = start[p].trig
        /\ row.item = start[p].item
    BY <1>1 DEF StartRows
  <2> HIDE DEF row
  <2> QED BY <1>1, <1>2, <1>3, <2>1, <2>2, StarterOnly
<1> QED BY <1>3 DEF DuplicateFollowUp, GiveUp

-----------------------------------------------------------------------------
(* The invariant holds, and what follows from it.                          *)

LEMMA StutterKeeps ==
    ASSUME QueueIInv, UNCHANGED vars
    PROVE  QueueIInv'
<1>1. /\ UNCHANGED <<runvars, exec, steerdoc, followdoc, seen, fseen, kick, start, obs, entered>>
      /\ phase' = phase /\ source' = source /\ view' = view /\ steers' = steers
      /\ closed' = closed /\ follows' = follows /\ trigger' = trigger
  BY DEF vars, runvars, steerdoc, followdoc
<1>2. QueueTypeOK'
  BY <1>1, Types DEF QueueIInv, QueueTypeOK, Views, Execs, SteerRows, FollowRows, StartRows,
                     Statuses
<1>3. FollowsOk' /\ StartersOk' /\ SteersOk'
  BY <1>1, FollowsFrame, StartersFrame DEF QueueIInv, SteersOk
<1> QED BY <1>1, <1>2, <1>3, FollowsMove DEF QueueIInv, AppliedIsInHistory

LEMMA QueueStep ==
    ASSUME QueueIInv, [Next]_vars
    PROVE  QueueIInv'
<1>1. CASE EndRun \/ Takeover
  BY <1>1, EndRunKeeps, TakeoverKeeps
<1>2. ASSUME NEW r \in Runs, UserTurn(r)
      PROVE  QueueIInv'
  BY <1>2, UserTurnKeeps
<1>3. ASSUME NEW t \in 1..MaxToken, Executor(t)
      PROVE  QueueIInv'
  <2>1. CASE AskDecision(t) \/ Answer(t) \/ SetSteer(t)
    BY <2>1, AskDecisionKeeps, AnswerKeeps, SetSteerKeeps
  <2>2. ASSUME NEW kind \in {"tool", "final", "deferred"}, Persist(t, kind)
        PROVE  QueueIInv'
    BY <2>2, PersistKeeps
  <2>3. CASE PersistFails(t) \/ ApplySteer(t) \/ ApplyFails(t)
    BY <2>3, PersistFailsKeeps, ApplySteerKeeps, ApplyFailsKeeps
  <2>4. CASE ClaimNextSteer(t) \/ NoClaim(t)
    BY <2>4, ClaimNextSteerKeeps, NoClaimKeeps
  <2> QED BY <1>3, <2>1, <2>2, <2>3, <2>4 DEF Executor
<1>4. ASSUME NEW x \in Steers, NEW of \in Follows \cup {None}, ReadForSteer(x, of)
      PROVE  QueueIInv'
  BY <1>4, ReadForSteerKeeps
<1>5. ASSUME NEW x \in Steers, EnqueueSteer(x) \/ CancelSteer(x)
      PROVE  QueueIInv'
  BY <1>5, EnqueueSteerKeeps, CancelSteerKeeps
<1>6. ASSUME NEW f \in Follows, ReadForFollowUp(f) \/ CancelFollowUp(f) \/ Kick(f)
      PROVE  QueueIInv'
  BY <1>6, ReadForFollowUpKeeps, CancelFollowUpKeeps, KickKeeps
<1>7. ASSUME NEW f \in Follows, NEW p \in Procs, EnqueueFollowUp(p, f)
      PROVE  QueueIInv'
  BY <1>7, EnqueueFollowUpKeeps
<1>8. ASSUME NEW p \in Procs, Starter(p)
      PROVE  QueueIInv'
  <2>1. ASSUME NEW r \in Runs, StartFollowUp(p, r)
        PROVE  QueueIInv'
    BY <2>1, StartFollowUpKeeps
  <2> QED BY <1>8, <2>1, ClaimNextFollowUpKeeps, RejectFollowUpKeeps, DuplicateOrGiveUpKeeps,
             ApplyFollowUpKeeps, ReleaseFollowUpKeeps DEF Starter
<1>9. ASSUME NEW p \in Procs, NEW r \in Runs, Observe(p, r)
      PROVE  QueueIInv'
  BY <1>9, ObserveKeeps
<1>10. CASE UNCHANGED vars
  BY <1>10, StutterKeeps
<1> QED BY <1>1, <1>2, <1>3, <1>4, <1>5, <1>6, <1>7, <1>8, <1>9, <1>10 DEF Next

LEMMA QueueInductive == Spec => []QueueIInv
<1>1. Init => QueueIInv
  BY QueueBegins
<1>2. QueueIInv /\ [Next]_vars => QueueIInv'
  BY QueueStep
<1> QED BY <1>1, <1>2, PTL DEF Spec

\* The queue documents and those who hold a claim agree, through every interleaving of
\* admissions, claims, releases, promotions, takeovers and ends (WATCH/MULTI transactions of
\* redis_live_queue.go, ClaimNextSteer and advanceSteerClaim).
THEOREM QueueTheorem == Spec => []QueueInv
<1>1. QueueIInv => QueueInv
  BY DEF QueueIInv, QueueInv, FollowsOk, ExecsOk
<1> QED BY <1>1, QueueInductive, PTL

\* What a queue document shows as applied did enter the history, or did start its turn
\* (queueStepCoordinator.commit and ApplyFollowUp, which come after the commit).
THEOREM AppliedTheorem == Spec => []AppliedIsInHistory
<1>1. QueueIInv => AppliedIsInHistory
  BY DEF QueueIInv
<1> QED BY <1>1, QueueInductive, PTL

\* Once the end of a run was observed, no steer for it is pending or in flight, not even one
\* whose admission had read the view while the run was live (closeSteerQueueForRun).
THEOREM NoDeadSteerTheorem == Spec => []NoDeadSteer
<1>1. QueueIInv => NoDeadSteer
  BY DEF QueueIInv, SteersOk, NoDeadSteer
<1> QED BY <1>1, QueueInductive, PTL

-----------------------------------------------------------------------------
(* What an item ended as stays.                                            *)

LEMMA SettledSteers ==
    ASSUME QueueIInv, [Next]_vars, NEW y \in Steers, steers[y].status \in Settled
    PROVE  steers'[y] = steers[y]
<1> USE DEF Settled
<1>1. QueueTypeOK /\ steers \in [Steers -> SteerRows]
  BY Types DEF QueueIInv
<1>2. CASE steers' = steers
  BY <1>2
<1>3. ASSUME NEW t \in 1..MaxToken, Executor(t)
      PROVE  steers'[y] = steers[y]
  <2>1. CASE AskDecision(t) \/ Answer(t) \/ SetSteer(t) \/ ApplyFails(t) \/ NoClaim(t)
             \/ \E kind \in {"tool", "final", "deferred"} : Persist(t, kind)
    BY <1>2, <2>1 DEF AskDecision, Answer, SetSteer, ApplyFails, NoClaim, Persist, steerdoc
  <2>2. CASE PersistFails(t) \/ ApplySteer(t)
    <3> DEFINE x == exec[t].pending
    <3>1. CASE steers' = steers
      BY <3>1
    <3>2. ASSUME x # None, HoldsClaim(t), NEW st, NEW tok,
                 \/ steers' = [steers EXCEPT ![x].status = st]
                 \/ steers' = [steers EXCEPT ![x].status = st, ![x].token = tok]
          PROVE  steers'[y] = steers[y]
      <4>1. x \in Steers
        BY <1>1, <3>2 DEF QueueTypeOK
      <4>2. x # y
        BY <3>2 DEF HoldsClaim
      <4> HIDE DEF x
      <4> QED BY <1>1, <3>2, <4>1, <4>2
    <3>3. CASE PersistFails(t)
      BY <3>1, <3>2, <3>3 DEF PersistFails
    <3>4. CASE ApplySteer(t)
      BY <3>1, <3>2, <3>4 DEF ApplySteer
    <3> QED BY <2>2, <3>3, <3>4
  <2>3. CASE ClaimNextSteer(t)
    <3>1. ASSUME NEW x \in Candidates(t),
                 steers' = [steers EXCEPT ![x].status = "claimed", ![x].token = t]
          PROVE  steers'[y] = steers[y]
      <4>1. x \in Steers /\ x # y
        BY <1>1, <3>1 DEF Candidates, Pending
      <4> QED BY <1>1, <3>1, <4>1
    <3> QED BY <2>3, <3>1 DEF ClaimNextSteer
  <2> QED BY <1>3, <2>1, <2>2, <2>3 DEF Executor
<1>4. ASSUME NEW x \in Steers, EnqueueSteer(x)
      PROVE  steers'[y] = steers[y]
  <2>1. x # y
    BY <1>4 DEF EnqueueSteer, QueueIInv, SteersOk
  <2> QED BY <1>1, <1>4, <2>1 DEF EnqueueSteer
<1>5. ASSUME NEW x \in Steers, CancelSteer(x)
      PROVE  steers'[y] = steers[y]
  BY <1>1, <1>5 DEF CancelSteer
<1>6. ASSUME NEW p \in Procs, NEW r \in Runs, Observe(p, r)
      PROVE  steers'[y] = steers[y]
  BY <1>1, <1>6 DEF Observe, Closable
<1>7. ASSUME NEW p \in Procs, Starter(p)
      PROVE  steers' = steers
  BY <1>7 DEF Starter, ClaimNextFollowUp, RejectFollowUp, DuplicateFollowUp, ApplyFollowUp,
              GiveUp, ReleaseFollowUp, StartFollowUp, Settle, steerdoc
<1>8. ASSUME \/ EndRun \/ Takeover \/ UNCHANGED vars
             \/ \E r \in Runs : UserTurn(r)
             \/ \E x \in Steers, of \in Follows \cup {None} : ReadForSteer(x, of)
             \/ \E f \in Follows : ReadForFollowUp(f) \/ CancelFollowUp(f) \/ Kick(f)
             \/ \E p \in Procs, f \in Follows : EnqueueFollowUp(p, f)
      PROVE  steers' = steers
  BY <1>8 DEF EndRun, Takeover, vars, UserTurn, ReadForSteer, ReadForFollowUp, CancelFollowUp,
              Kick, EnqueueFollowUp, steerdoc
<1> QED BY <1>2, <1>3, <1>4, <1>5, <1>6, <1>7, <1>8 DEF Next

LEMMA SettledFollows ==
    ASSUME QueueIInv, [Next]_vars, NEW g \in Follows, follows[g].status \in Settled
    PROVE  follows'[g] = follows[g]
<1> USE DEF Settled
<1>1. QueueTypeOK /\ follows \in [Follows -> FollowRows]
  BY Types DEF QueueIInv
<1>2. CASE follows' = follows
  BY <1>2
<1>3. ASSUME NEW p \in Procs, Starter(p)
      PROVE  follows'[g] = follows[g]
  <2>1. ASSUME NEW status, NEW then, Settle(p, status, then)
        PROVE  follows'[g] = follows[g]
    <3>1. CASE Matches(p)
      <4>1. start[p].item # g
        BY <3>1 DEF Matches
      <4> QED BY <1>1, <2>1, <3>1, <4>1 DEF Settle
    <3>2. CASE ~Matches(p)
      BY <1>2, <2>1, <3>2 DEF Settle, followdoc
    <3> QED BY <3>1, <3>2
  <2>2. CASE RejectFollowUp(p) \/ ApplyFollowUp(p) \/ ReleaseFollowUp(p)
    BY <2>1, <2>2 DEF RejectFollowUp, ApplyFollowUp, ReleaseFollowUp
  <2>3. CASE DuplicateFollowUp(p) \/ GiveUp(p) \/ \E r \in Runs : StartFollowUp(p, r)
    BY <1>2, <2>3 DEF DuplicateFollowUp, GiveUp, StartFollowUp, followdoc
  <2>4. CASE ClaimNextFollowUp(p)
    <3>1. ASSUME NEW f \in Pending(follows),
                 follows' = [follows EXCEPT ![f].status = "claimed", ![f].trig = start[p].trig,
                                            ![f].claim = @ + 1]
          PROVE  follows'[g] = follows[g]
      <4>1. f \in Follows /\ f # g
        BY <1>1, <3>1 DEF Pending
      <4> QED BY <1>1, <3>1, <4>1
    <3> QED BY <1>2, <2>4, <3>1 DEF ClaimNextFollowUp, followdoc
  <2> QED BY <1>3, <2>2, <2>3, <2>4 DEF Starter
<1>4. ASSUME NEW x \in Steers, EnqueueSteer(x)
      PROVE  follows'[g] = follows[g]
  <2>1. seen[x].of # None => follows[seen[x].of].status = "accepted"
    BY <1>4 DEF EnqueueSteer, QueueIInv, SteersOk
  <2> QED BY <1>1, <1>4, <2>1 DEF EnqueueSteer
<1>5. ASSUME NEW f \in Follows, CancelFollowUp(f) \/ \E p \in Procs : EnqueueFollowUp(p, f)
      PROVE  follows'[g] = follows[g]
  <2>1. f # g
    BY <1>5 DEF CancelFollowUp, EnqueueFollowUp, QueueIInv, FollowsOk
  <2> QED BY <1>1, <1>5, <2>1 DEF CancelFollowUp, EnqueueFollowUp
<1>6. ASSUME NEW t \in 1..MaxToken, Executor(t)
      PROVE  follows' = follows
  BY <1>6 DEF Executor, AskDecision, Answer, SetSteer, ApplyFails, NoClaim, Persist, PersistFails,
              ApplySteer, ClaimNextSteer, followdoc
<1>7. ASSUME \/ EndRun \/ Takeover \/ UNCHANGED vars
             \/ \E r \in Runs : UserTurn(r)
             \/ \E x \in Steers, of \in Follows \cup {None} : ReadForSteer(x, of)
             \/ \E x \in Steers : CancelSteer(x)
             \/ \E f \in Follows : ReadForFollowUp(f) \/ Kick(f)
             \/ \E p \in Procs, r \in Runs : Observe(p, r)
      PROVE  follows' = follows
  BY <1>7 DEF EndRun, Takeover, vars, UserTurn, ReadForSteer, ReadForFollowUp, CancelSteer,
              Kick, Observe, followdoc
<1> QED BY <1>2, <1>3, <1>4, <1>5, <1>6, <1>7 DEF Next

\* An item that was applied, rejected or withdrawn stays so, whatever an executor, an
\* admission or a starter that comes late believes of it (the transitions of
\* live_queue_transitions.go and the watched transactions they run in).
THEOREM SettledTheorem == Spec => SettledStays
<1>1. QueueIInv /\ [Next]_vars =>
        [/\ \A x \in Steers : steers[x].status \in Settled => steers'[x] = steers[x]
         /\ \A f \in Follows : follows[f].status \in Settled => follows'[f] = follows[f]]_vars
  BY SettledSteers, SettledFollows
<1> QED BY <1>1, QueueInductive, PTL DEF Spec, SettledStays

-----------------------------------------------------------------------------
(* The executors' runs: who was taken over.                                *)

\* Only a turn that begins and a takeover give a token to a run.
LEMMA StepsOfRuns ==
    ASSUME QueueIInv, [Next]_vars
    PROVE  \/ \A t \in 1..MaxToken : exec'[t].run = exec[t].run
           \/ \E r \in Runs, f \in Follows \cup {None} : Begin(r, f)
           \/ Takeover
<1> DEFINE Kept == \A t \in 1..MaxToken : exec'[t].run = exec[t].run
<1>1. QueueTypeOK
  BY DEF QueueIInv
<1>2. exec \in [1..MaxToken -> Execs]
  BY <1>1, Types
<1>3. ASSUME NEW t \in 1..MaxToken, NEW row \in Execs, exec' = [exec EXCEPT ![t] = row],
             row.run = exec[t].run
      PROVE  Kept
  BY <1>2, <1>3
<1>4. ASSUME NEW t \in 1..MaxToken, NEW x \in Steers \cup {None}, exec' = After(t, x)
      PROVE  Kept
  BY <1>1, <1>4, AfterRow
<1> HIDE DEF Kept
<1>5. ASSUME NEW t \in 1..MaxToken, Executor(t)
      PROVE  Kept
  <2>1. exec[t] \in Execs
    BY <1>2
  <2>2. CASE SetSteer(t)
    BY <2>2 DEF SetSteer, Kept
  <2>3. CASE AskDecision(t)
    <3>1. [exec[t] EXCEPT !.pc = "asking"] \in Execs
      BY <2>1 DEF Execs
    <3> QED BY <1>3, <2>1, <2>3, <3>1 DEF AskDecision, Execs
  <2>4. CASE Answer(t)
    <3> DEFINE row == [exec[t] EXCEPT !.pc = "model", !.kind = "none"]
    <3>1. row \in Execs /\ row.run = exec[t].run
      BY <2>1 DEF Execs
    <3>2. exec' = [exec EXCEPT ![t] = row]
      BY <1>2, <2>4 DEF Answer
    <3> QED BY <1>3, <3>1, <3>2
  <2>5. ASSUME NEW kind \in {"tool", "final", "deferred"}, Persist(t, kind)
        PROVE  Kept
    <3> DEFINE row == [exec[t] EXCEPT !.pc = "persisted", !.kind = kind]
    <3>1. row \in Execs /\ row.run = exec[t].run
      BY <2>1 DEF Execs
    <3>2. exec' = [exec EXCEPT ![t] = row]
      BY <1>2, <2>5 DEF Persist
    <3> QED BY <1>3, <3>1, <3>2
  <2>6. CASE PersistFails(t) \/ ApplyFails(t)
    <3> DEFINE row == [exec[t] EXCEPT !.pc = "failed", !.kind = "none", !.pending = None]
    <3>1. row \in Execs /\ row.run = exec[t].run
      BY <2>1 DEF Execs
    <3>2. exec' = [exec EXCEPT ![t] = row]
      BY <2>6 DEF PersistFails, ApplyFails
    <3> QED BY <1>3, <3>1, <3>2
  <2>7. CASE ApplySteer(t)
    <3> DEFINE row == [exec[t] EXCEPT !.pc = "applied", !.pending = None]
    <3>1. row \in Execs /\ row.run = exec[t].run
      BY <2>1 DEF Execs
    <3>2. exec' = [exec EXCEPT ![t] = row]
      BY <1>2, <2>7 DEF ApplySteer
    <3> QED BY <1>3, <3>1, <3>2
  <2>8. CASE ClaimNextSteer(t)
    <3>1. \A x \in Candidates(t) : x \in Steers
      BY ClaimIsTheOnly
    <3> QED BY <1>4, <2>8, <3>1 DEF ClaimNextSteer
  <2>9. CASE NoClaim(t)
    <3> DEFINE row == [exec[t] EXCEPT !.pc = "failed", !.kind = "none"]
    <3>1. row \in Execs /\ row.run = exec[t].run
      BY <2>1 DEF Execs
    <3>2. exec' = After(t, None) \/ exec' = [exec EXCEPT ![t] = row]
      BY <1>2, <2>9 DEF NoClaim
    <3> QED BY <1>3, <1>4, <3>1, <3>2
  <2> QED BY <1>5, <2>2, <2>3, <2>4, <2>5, <2>6, <2>7, <2>8, <2>9 DEF Executor
<1>6. CASE exec' = exec
  BY <1>6 DEF Kept
<1>7. ASSUME NEW p \in Procs, Starter(p)
      PROVE  exec' = exec \/ \E r \in Runs, f \in Follows \cup {None} : Begin(r, f)
  <2>1. ASSUME NEW r \in Runs, StartFollowUp(p, r)
        PROVE  \E f \in Follows \cup {None} : Begin(r, f)
    BY <2>1 DEF StartFollowUp, Startable, QueueIInv, StartersOk
  <2> QED BY <1>7, <2>1 DEF Starter, ClaimNextFollowUp, RejectFollowUp, DuplicateFollowUp,
                            ApplyFollowUp, GiveUp, ReleaseFollowUp
<1>8. ASSUME NEW r \in Runs, UserTurn(r)
      PROVE  \E f \in Follows \cup {None} : Begin(r, f)
  BY <1>8 DEF UserTurn
<1>9. ASSUME \/ EndRun
             \/ \E x \in Steers : \/ \E of \in Follows \cup {None} : ReadForSteer(x, of)
                                  \/ EnqueueSteer(x) \/ CancelSteer(x)
             \/ \E g \in Follows : \/ ReadForFollowUp(g) \/ CancelFollowUp(g) \/ Kick(g)
                                   \/ \E p \in Procs : EnqueueFollowUp(p, g)
             \/ \E p \in Procs, r \in Runs : Observe(p, r)
             \/ UNCHANGED vars
      PROVE  exec' = exec
  BY <1>9 DEF EndRun, ReadForSteer, EnqueueSteer, CancelSteer, ReadForFollowUp,
              CancelFollowUp, Kick, EnqueueFollowUp, Observe, vars
<1> QED BY <1>5, <1>6, <1>7, <1>8, <1>9 DEF Next, Kept

\* As many tokens are drawn as there are executors with a run.
LEMMA DrawnCounts ==
    ASSUME NEW n \in Nat, n =< MaxToken, \A t \in 1..MaxToken : exec[t].run # None <=> t =< n
    PROVE  Drawn = n
<1>1. MaxToken \in Nat
  BY QueueAssumption
<1>2. {t \in 1..MaxToken : exec[t].run # None} = 1..n
  BY <1>1
<1>3. Cardinality(1..n) = n
  BY FS_Interval
<1> QED BY <1>2, <1>3 DEF Drawn

\* A token is drawn for run r, which no executor had or another one keeps.
LEMMA DrawsToken ==
    ASSUME InOrder, NEW r \in Runs, NEW row, row.run = r, Drawn < MaxToken, QueueTypeOK,
           exec' = [exec EXCEPT ![Drawn + 1] = row]
    PROVE  /\ InOrder' /\ TakenOver \subseteq TakenOver'
           /\ \A t \in 1..MaxToken : t # Drawn + 1 => exec'[t] = exec[t]
           /\ exec'[Drawn + 1].run = r /\ exec[Drawn + 1].run = None /\ Drawn + 1 \in 1..MaxToken
<1> DEFINE d == Drawn + 1
<1>1. /\ d \in 1..MaxToken /\ Drawn \in Nat /\ exec \in [1..MaxToken -> Execs]
      /\ r # None /\ None \notin Runs
  BY DrawnIsNat, Types, QueueAssumption
<1>2. \A t \in 1..MaxToken : exec'[t] = IF t = d THEN row ELSE exec[t]
  BY <1>1
<1>3. \A t \in 1..MaxToken : exec[t].run # None <=> t =< Drawn
  BY DEF InOrder
<1>4. \A t \in 1..MaxToken : exec'[t].run # None <=> t =< d
  BY <1>1, <1>2, <1>3
<1>5. d \in Nat /\ d =< MaxToken
  BY <1>1
<1> HIDE DEF d
<1>6. (Drawn)' = d
  <2>1. {t \in 1..MaxToken : exec'[t].run # None} = 1..d
    BY <1>4, <1>5, QueueAssumption
  <2>2. Cardinality(1..d) = d
    BY <1>5, FS_Interval
  <2> QED BY <2>1, <2>2 DEF Drawn
<1>7. InOrder'
  BY <1>4, <1>6 DEF InOrder
<1>8. exec[d].run = None
  BY <1>1, <1>3 DEF d
<1>9. TakenOver \subseteq TakenOver'
  BY <1>1, <1>2, <1>8 DEF TakenOver
<1> QED BY <1>1, <1>2, <1>7, <1>8, <1>9 DEF d

\* Only a run waits.
LEMMA WaitingStep ==
    ASSUME QueueTypeOK, WaitingRun, [Next]_vars
    PROVE  WaitingRun'
<1>1. view \in Views
  BY ViewTyped
<1>2. CASE view' = view
  BY <1>2 DEF WaitingRun
<1>3. ASSUME view'.waiting = FALSE
      PROVE  WaitingRun'
  BY <1>3 DEF WaitingRun
<1>4. ASSUME NEW r \in Runs, NEW f, Begin(r, f)
      PROVE  WaitingRun'
  BY <1>3, <1>4 DEF Begin, NoView
<1>5. ASSUME NEW t \in 1..MaxToken, Executor(t)
      PROVE  WaitingRun'
  <2>1. CASE SetSteer(t) \/ AskDecision(t)
    BY <1>1, <2>1 DEF SetSteer, AskDecision, Owns, WaitingRun, Views
  <2>2. CASE Answer(t)
    BY <1>1, <1>3, <2>2 DEF Answer, Views
  <2> QED BY <1>2, <1>5, <2>1, <2>2 DEF Executor, Persist, PersistFails, ApplySteer, ApplyFails,
                                       ClaimNextSteer, NoClaim, runvars
<1>6. ASSUME NEW p \in Procs, Starter(p)
      PROVE  WaitingRun'
  BY <1>2, <1>4, <1>6 DEF Starter, ClaimNextFollowUp, RejectFollowUp, DuplicateFollowUp,
                         ApplyFollowUp, GiveUp, ReleaseFollowUp, StartFollowUp, runvars
<1>7. CASE EndRun
  BY <1>3, <1>7 DEF EndRun, NoView
<1>8. CASE Takeover
  BY <1>1, <1>8 DEF Takeover, WaitingRun, Views
<1>9. ASSUME \/ \E x \in Steers : \/ \E of \in Follows \cup {None} : ReadForSteer(x, of)
                                  \/ EnqueueSteer(x) \/ CancelSteer(x)
             \/ \E g \in Follows : \/ ReadForFollowUp(g) \/ CancelFollowUp(g) \/ Kick(g)
                                   \/ \E p \in Procs : EnqueueFollowUp(p, g)
             \/ \E p \in Procs, r \in Runs : Observe(p, r)
             \/ UNCHANGED vars
      PROVE  view' = view
  BY <1>9 DEF ReadForSteer, EnqueueSteer, CancelSteer, ReadForFollowUp, CancelFollowUp, Kick,
              EnqueueFollowUp, Observe, runvars, vars
<1> QED BY <1>2, <1>4, <1>5, <1>6, <1>7, <1>8, <1>9 DEF Next, UserTurn

\* What an executor has of a run it keeps: a run that was taken over stays so.
LEMMA RunsInOrder ==
    ASSUME QueueIInv, InOrder, WaitingRun, [Next]_vars
    PROVE  InOrder' /\ TakenOver \subseteq TakenOver'
<1>1. QueueTypeOK
  BY DEF QueueIInv
<1>2. CASE \A t \in 1..MaxToken : exec'[t].run = exec[t].run
  <2>1. {t \in 1..MaxToken : exec'[t].run # None} = {t \in 1..MaxToken : exec[t].run # None}
    BY <1>2
  <2>2. (Drawn)' = Drawn
    BY <2>1 DEF Drawn
  <2> QED BY <1>2, <2>2 DEF InOrder, TakenOver
<1>3. ASSUME NEW r \in Runs, NEW f \in Follows \cup {None}, Begin(r, f)
      PROVE  InOrder' /\ TakenOver \subseteq TakenOver'
  <2> DEFINE row == [NoExec EXCEPT !.run = r, !.pc = IF r \in Steerable THEN "model" ELSE "none"]
  <2>1. exec' = [exec EXCEPT ![Drawn + 1] = row] /\ Drawn < MaxToken /\ row.run = r
    BY <1>3 DEF Begin, NoExec
  <2> HIDE DEF row
  <2> QED BY <1>1, <2>1, DrawsToken
<1>4. CASE Takeover
  <2> DEFINE row == [NoExec EXCEPT !.run = view.run, !.pc = "parked"]
  <2>1. PICK r \in Runs : r = view.run
    BY <1>1, <1>4, ViewTyped DEF Takeover, WaitingRun
  <2>2. exec' = [exec EXCEPT ![Drawn + 1] = row] /\ Drawn < MaxToken /\ row.run = r
    BY <1>4, <2>1 DEF Takeover, NoExec
  <2> HIDE DEF row
  <2> QED BY <1>1, <2>2, DrawsToken
<1> QED BY <1>2, <1>3, <1>4, StepsOfRuns

-----------------------------------------------------------------------------
(* What enters the history: what a step leaves alone.                      *)

LEMMA EntersBegins == Init => EntersIInv
<1> SUFFICES ASSUME Init PROVE EntersIInv
  OBVIOUS
<1> USE DEF Init
<1>1. /\ \A t \in 1..MaxToken : exec[t].pending = None /\ exec[t].run = None
      /\ \A x \in Steers : steers[x].status = "none" /\ \A i \in Inputs : entered[i] = 0
      /\ view.run = None /\ view.waiting = FALSE
  BY DEF NoExec, NoSteer, NoView
<1>2. \A i \in Inputs : ~Started(i)
  BY QueueAssumption DEF Started, Inputs
<1>3. InOrder
  <2>1. 0 \in Nat /\ 0 =< MaxToken /\ \A t \in 1..MaxToken : exec[t].run # None <=> t =< 0
    BY <1>1, QueueAssumption
  <2>2. Drawn = 0
    BY <2>1, DrawnCounts
  <2> QED BY <2>1, <2>2 DEF InOrder
<1>4. WaitingRun /\ Handed /\ InputsApart
  BY <1>1 DEF WaitingRun, Handed, InputsApart, Owns
<1>5. EnteredOnce
  BY <1>1, <1>2 DEF EnteredOnce, Fresh
<1> QED BY <1>3, <1>4, <1>5 DEF EntersIInv

\* Nothing is started, and nothing enters the history.
LEMMA EntriesStay ==
    ASSUME UNCHANGED <<source, entered>>
    PROVE  Fresh' = Fresh /\ Single' = Single
BY DEF Fresh, Single, Started

LEMMA FreshIsSingle ==
    ASSUME NEW i \in Fresh
    PROVE  i \in Single
BY DEF Fresh, Single

\* A step of the starters, or of the users with their follow-ups: the steers stay.
LEMMA EntersFollowsMove ==
    ASSUME QueueIInv, EntersIInv, UNCHANGED <<runvars, exec, steers, entered>>,
           \A f \in Follows : follows[f].status = "canceled" => follows'[f].status = "canceled"
    PROVE  Handed' /\ InputsApart' /\ EnteredOnce'
<1>1. phase' = phase /\ source' = source /\ view' = view
  BY DEF runvars
<1>2. Fresh' = Fresh /\ Single' = Single /\ TakenOver' = TakenOver
  BY <1>1, EntriesStay DEF TakenOver
<1>3. Handed'
  BY <1>1, <1>2 DEF EntersIInv, Handed, Owns
<1>4. InputsApart'
  BY DEF EntersIInv, InputsApart
<1>5. EnteredOnce'
  BY <1>2 DEF EntersIInv, EnteredOnce, SteeredAs
<1> QED BY <1>3, <1>4, <1>5

\* An executor's step without an effect on the documents or the history: it keeps its claim,
\* or it has failed.
LEMMA EntersExecutorMoves ==
    ASSUME QueueIInv, EntersIInv, NEW t \in 1..MaxToken, TakenOver \subseteq TakenOver',
           UNCHANGED <<source, steers, follows, entered>>,
           view'.run = view.run, view'.token = view.token,
           \A u \in 1..MaxToken : u # t => exec'[u] = exec[u],
           exec'[t].run = exec[t].run,
           \/ /\ exec'[t].pending = exec[t].pending
              /\ exec[t].pc = "failed" => exec'[t].pc = "failed"
              /\ exec'[t].pc \in {"model", "asking"} => exec[t].pc \in {"model", "asking"}
           \/ exec'[t].pending = None /\ exec[t].pending = None /\ exec[t].pc # "failed"
           \/ exec'[t].pending = None /\ exec'[t].pc = "failed",
           exec'[t].pc \notin {"model", "asking", "persisted"} => exec'[t].pending = None
    PROVE  Handed' /\ InputsApart' /\ EnteredOnce'
<1>1. \A u \in 1..MaxToken : Owns(u)' <=> Owns(u)
  BY DEF Owns
<1>2. Fresh' = Fresh /\ Single' = Single
  BY EntriesStay
<1>3. ASSUME NEW u \in 1..MaxToken, Owns(u)', view'.run \notin TakenOver'
      PROVE  /\ \A x \in Steers : steers'[x].status = "claimed" /\ steers'[x].run = view'.run =>
                                      exec'[u].pending = x \/ exec'[u].pc = "failed"
             /\ exec'[u].pc \in {"model", "asking"} /\ exec'[u].pending # None =>
                    steers'[exec'[u].pending].input \in Fresh'
  <2>1. Owns(u) /\ view.run \notin TakenOver
    BY <1>1, <1>3
  <2>2. CASE u # t
    BY <1>2, <2>1, <2>2 DEF EntersIInv, Handed
  <2>3. CASE u = t
    BY <1>2, <2>1, <2>3 DEF EntersIInv, Handed
  <2> QED BY <2>2, <2>3
<1>4. \A u \in 1..MaxToken : exec'[u].pc \notin {"model", "asking", "persisted"} => exec'[u].pending = None
  BY DEF EntersIInv, Handed
<1>5. Handed'
  BY <1>3, <1>4 DEF Handed
<1>6. InputsApart' /\ EnteredOnce'
  BY <1>2 DEF EntersIInv, InputsApart, EnteredOnce, SteeredAs
<1> QED BY <1>5, <1>6

-----------------------------------------------------------------------------
(* What enters the history: the executors and the runs.                    *)

\* The row of the executor t after a write of its row.
LEMMA ExecutorRow ==
    ASSUME QueueTypeOK, NEW t \in 1..MaxToken, NEW row \in Execs, exec' = [exec EXCEPT ![t] = row],
           row.run = exec[t].run
    PROVE  /\ exec'[t] = row /\ \A u \in 1..MaxToken : u # t => exec'[u] = exec[u]
           /\ \A u \in 1..MaxToken : exec'[u].run = exec[u].run
BY ExecRow

LEMMA EntersDecision ==
    ASSUME QueueIInv, EntersIInv, TakenOver \subseteq TakenOver', NEW t \in 1..MaxToken,
           AskDecision(t) \/ Answer(t) \/ SetSteer(t)
    PROVE  Handed' /\ InputsApart' /\ EnteredOnce'
<1>1. QueueTypeOK
  BY DEF QueueIInv
<1>2. /\ UNCHANGED <<source, entered>> /\ steers' = steers /\ follows' = follows
      /\ view'.run = view.run /\ view'.token = view.token
  BY <1>1, ViewTyped DEF AskDecision, Answer, SetSteer, steerdoc, followdoc, Views
<1>3. exec \in [1..MaxToken -> Execs] /\ exec[t] \in Execs
  BY <1>1, Types
<1>4. CASE AskDecision(t)
  <2> DEFINE row == [exec[t] EXCEPT !.pc = "asking"]
  <2>1. exec' = [exec EXCEPT ![t] = row] /\ exec[t].pc = "model"
    BY <1>4 DEF AskDecision
  <2>2. /\ row \in Execs /\ row.run = exec[t].run /\ row.pending = exec[t].pending
        /\ row.pc = "asking"
    BY <1>3 DEF Execs
  <2> HIDE DEF row
  <2>3. /\ exec'[t] = row /\ \A u \in 1..MaxToken : u # t => exec'[u] = exec[u]
    BY <1>1, <2>1, <2>2, ExecutorRow
  <2> QED BY <1>2, <2>1, <2>2, <2>3, EntersExecutorMoves
<1>5. CASE Answer(t)
  <2> DEFINE row == [exec[t] EXCEPT !.pc = "model", !.kind = "none"]
  <2>1. exec' = [exec EXCEPT ![t] = row] /\ exec[t].pc = "parked"
    BY <1>3, <1>5 DEF Answer
  <2>2. row \in Execs /\ row.run = exec[t].run /\ row.pending = exec[t].pending /\ row.pc = "model"
    BY <1>3 DEF Execs
  <2> HIDE DEF row
  <2>3. exec'[t] = row /\ \A u \in 1..MaxToken : u # t => exec'[u] = exec[u]
    BY <1>1, <2>1, <2>2, ExecutorRow
  <2>4. exec[t].pending = None
    BY <2>1 DEF EntersIInv, Handed
  <2> QED BY <1>2, <2>1, <2>2, <2>3, <2>4, EntersExecutorMoves
<1>6. CASE SetSteer(t)
  <2>1. exec' = exec
    BY <1>6 DEF SetSteer
  <2>2. exec[t].pc \notin {"model", "asking", "persisted"} => exec[t].pending = None
    BY DEF EntersIInv, Handed
  <2> QED BY <1>2, <2>1, <2>2, EntersExecutorMoves
<1> QED BY <1>4, <1>5, <1>6

\* An executor fails, or parks, without a claim.
LEMMA EntersNoClaim ==
    ASSUME QueueIInv, EntersIInv, TakenOver \subseteq TakenOver', NEW t \in 1..MaxToken,
           ApplyFails(t) \/ NoClaim(t)
    PROVE  Handed' /\ InputsApart' /\ EnteredOnce'
<1>1. QueueTypeOK
  BY DEF QueueIInv
<1>2. /\ UNCHANGED <<source, view, entered>> /\ steers' = steers /\ follows' = follows
  BY DEF ApplyFails, NoClaim, runvars, steerdoc, followdoc
<1>3. exec \in [1..MaxToken -> Execs] /\ exec[t] \in Execs
  BY <1>1, Types
<1>4. CASE ApplyFails(t)
  <2> DEFINE row == [exec[t] EXCEPT !.pc = "failed", !.kind = "none", !.pending = None]
  <2>1. exec' = [exec EXCEPT ![t] = row]
    BY <1>4 DEF ApplyFails
  <2>2. row \in Execs /\ row.run = exec[t].run /\ row.pending = None /\ row.pc = "failed"
    BY <1>3 DEF Execs
  <2> HIDE DEF row
  <2>3. exec'[t] = row /\ \A u \in 1..MaxToken : u # t => exec'[u] = exec[u]
    BY <1>1, <2>1, <2>2, ExecutorRow
  <2> QED BY <1>2, <2>2, <2>3, EntersExecutorMoves
<1>5. CASE NoClaim(t)
  <2>1. exec[t].pc = "applied" /\ exec[t].pending = None
    BY <1>5 DEF NoClaim, EntersIInv, Handed
  <2>2. CASE exec' = After(t, None)
    <3>1. /\ exec'[t].run = exec[t].run /\ exec'[t].pending = None
          /\ \A u \in 1..MaxToken : u # t => exec'[u] = exec[u]
      BY <1>1, <2>2, AfterRow
    <3> QED BY <1>2, <2>1, <3>1, EntersExecutorMoves
  <2>3. CASE exec' = [exec EXCEPT ![t].pc = "failed", ![t].kind = "none"]
    <3> DEFINE row == [exec[t] EXCEPT !.pc = "failed", !.kind = "none"]
    <3>1. exec' = [exec EXCEPT ![t] = row]
      BY <1>3, <2>3
    <3>2. row \in Execs /\ row.run = exec[t].run /\ row.pending = None /\ row.pc = "failed"
      BY <1>3, <2>1 DEF Execs
    <3> HIDE DEF row
    <3>3. exec'[t] = row /\ \A u \in 1..MaxToken : u # t => exec'[u] = exec[u]
      BY <1>1, <3>1, <3>2, ExecutorRow
    <3> QED BY <1>2, <3>2, <3>3, EntersExecutorMoves
  <2> QED BY <1>5, <2>2, <2>3 DEF NoClaim
<1> QED BY <1>4, <1>5

\* The text of a claim enters the history: of a run with one owner the claim was fresh.
LEMMA EntersPersist ==
    ASSUME QueueIInv, EntersIInv, TakenOver \subseteq TakenOver', NEW t \in 1..MaxToken,
           NEW kind \in {"tool", "final", "deferred"}, Persist(t, kind)
    PROVE  Handed' /\ InputsApart' /\ EnteredOnce'
<1> DEFINE row == [exec[t] EXCEPT !.pc = "persisted", !.kind = kind]
<1>1. QueueTypeOK
  BY DEF QueueIInv
<1>2. /\ UNCHANGED <<source, view>> /\ steers' = steers /\ follows' = follows
      /\ Owns(t) /\ exec[t].pc \in {"model", "asking"}
  BY DEF Persist, runvars, steerdoc, followdoc
<1>3. /\ exec \in [1..MaxToken -> Execs] /\ exec[t] \in Execs /\ entered \in [Inputs -> Nat]
      /\ exec[t].pending \in Steers \cup {None}
  BY <1>1, Types DEF Execs
<1>4. exec' = [exec EXCEPT ![t] = row]
  BY <1>3 DEF Persist
<1>5. row \in Execs /\ row.run = exec[t].run /\ row.pending = exec[t].pending /\ row.pc = "persisted"
  BY <1>3 DEF Execs
<1> HIDE DEF row
<1>6. /\ exec'[t] = row /\ \A u \in 1..MaxToken : u # t => exec'[u] = exec[u]
  BY <1>1, <1>4, <1>5, ExecutorRow
<1>7. Handed'
  <2>1. ASSUME NEW u \in 1..MaxToken, Owns(u)'
        PROVE  u = t
    BY <1>2, <2>1 DEF Owns
  <2>2. view.run \notin TakenOver => \A x \in Steers :
            steers[x].status = "claimed" /\ steers[x].run = view.run =>
                              exec[t].pending = x \/ exec[t].pc = "failed"
    BY <1>2 DEF EntersIInv, Handed
  <2> QED BY <1>2, <1>5, <1>6, <2>1, <2>2 DEF EntersIInv, Handed
<1>8. InputsApart'
  BY <1>2 DEF EntersIInv, InputsApart
<1>9. CASE exec[t].pending = None
  <2>1. entered' = entered
    BY <1>9 DEF Persist
  <2>2. Fresh' = Fresh /\ Single' = Single
    BY <1>2, <2>1, EntriesStay
  <2> QED BY <1>2, <1>7, <1>8, <2>2 DEF EntersIInv, EnteredOnce, SteeredAs
<1>10. CASE exec[t].pending # None
  <2>1. PICK x \in Steers : x = exec[t].pending
    BY <1>3, <1>10
  <2>2. steers[x].status = "claimed" /\ steers[x].run = view.run
    BY <1>2, <1>10, <2>1 DEF QueueIInv, ExecsOk, PendingIsHeld, HoldsClaim
  <2>3. PICK i \in Inputs : i = steers[x].input
    BY <2>2 DEF QueueIInv, SteersOk
  <2>4. view.run \notin TakenOver => i \in Fresh
    BY <1>2, <1>10, <2>1, <2>3 DEF EntersIInv, Handed
  <2>5. entered' = [entered EXCEPT ![i] = @ + 1]
    BY <1>10, <2>1, <2>3 DEF Persist
  <2>6. /\ entered'[i] = entered[i] + 1
        /\ \A j \in Inputs : j # i => entered'[j] = entered[j]
    BY <1>3, <2>5
  <2>7. \A j : Started(j)' <=> Started(j)
    BY <1>2 DEF Started
  <2>8. \A j \in Inputs : j # i => /\ j \in Fresh => j \in Fresh'
                                   /\ j \in Single => j \in Single'
    BY <2>6, <2>7 DEF Fresh, Single
  <2>9. i \in Fresh => i \in Single'
    BY <1>3, <2>6, <2>7 DEF Fresh, Single
  <2>10. ASSUME NEW j \in Inputs, SteeredAs(j)' = {}
         PROVE  j \in Fresh'
    <3>1. SteeredAs(j) = {}
      BY <1>2, <2>10 DEF SteeredAs
    <3>2. j # i
      BY <2>2, <2>3, <3>1 DEF SteeredAs
    <3> QED BY <2>8, <3>1, <3>2 DEF EntersIInv, EnteredOnce
  <2>11. ASSUME NEW z \in Steers, steers[z].run \notin TakenOver'
         PROVE  /\ steers[z].status = "accepted" => steers[z].input \in Fresh'
                /\ steers[z].status # "none" => steers[z].input \in Single'
    <3>1. CASE z = x
      BY <2>2, <2>3, <2>4, <2>9, <2>11, <3>1
    <3>2. CASE z # x
      <4>1. steers[z].status # "none" => steers[z].input \in Inputs /\ steers[z].input # i
        BY <2>2, <2>3, <3>2 DEF EntersIInv, InputsApart, QueueIInv, SteersOk
      <4> QED BY <2>8, <2>11, <4>1 DEF EntersIInv, EnteredOnce
    <3> QED BY <3>1, <3>2
  <2>12. EnteredOnce'
    BY <1>2, <2>10, <2>11 DEF EnteredOnce
  <2> QED BY <1>7, <1>8, <2>12
<1> QED BY <1>9, <1>10

\* A write of one steer, which enters nothing.
LEMMA EntersSteerWritten ==
    ASSUME QueueIInv, EntersIInv, TakenOver \subseteq TakenOver', NEW x \in Steers, NEW y,
           steers' = [steers EXCEPT ![x] = y], UNCHANGED <<source, follows, entered>>,
           steers[x].status # "none", y.status # "none", y.input = steers[x].input,
           y.run = steers[x].run,
           y.status = "accepted" => y.run \in TakenOver \/ y.input \in Fresh
    PROVE  InputsApart' /\ EnteredOnce'
<1>1. /\ steers'[x] = y /\ \A z \in Steers : z # x => steers'[z] = steers[z]
  BY Types DEF QueueIInv
<1>2. \A z \in Steers : /\ steers'[z].status # "none" <=> steers[z].status # "none"
                        /\ steers'[z].input = steers[z].input /\ steers'[z].run = steers[z].run
  BY <1>1
<1>3. InputsApart'
  BY <1>2 DEF EntersIInv, InputsApart
<1>4. Fresh' = Fresh /\ Single' = Single
  BY EntriesStay
<1>5. ASSUME NEW j \in Inputs, SteeredAs(j)' = {}
      PROVE  j \in Fresh'
  <2>1. SteeredAs(j) = {}
    BY <1>2, <1>5 DEF SteeredAs
  <2> QED BY <1>4, <2>1 DEF EntersIInv, EnteredOnce
<1>6. ASSUME NEW z \in Steers, steers'[z].run \notin TakenOver'
      PROVE  /\ steers'[z].status = "accepted" => steers'[z].input \in Fresh'
             /\ steers'[z].status # "none" => steers'[z].input \in Single'
  BY <1>1, <1>2, <1>4, <1>6 DEF EntersIInv, EnteredOnce
<1>7. EnteredOnce'
  BY <1>5, <1>6 DEF EnteredOnce
<1> QED BY <1>3, <1>7

\* Handed, when the owner t and the steer x are the only ones that move.
LEMMA OwnerMoves ==
    ASSUME QueueIInv, EntersIInv, NEW t \in 1..MaxToken, NEW x \in Steers, Owns(t),
           TakenOver \subseteq TakenOver', UNCHANGED <<view, source, entered>>,
           exec'[t].run = exec[t].run,
           \A u \in 1..MaxToken : u # t => exec'[u] = exec[u],
           \A z \in Steers : z # x => steers'[z] = steers[z],
           exec'[t].pc \notin {"model", "asking", "persisted"} => exec'[t].pending = None,
           view.run \notin TakenOver =>
             \/ exec'[t].pc = "failed"
             \/ /\ steers'[x].status # "claimed" /\ exec'[t].pending = None
                /\ exec[t].pending = x /\ exec[t].pc # "failed"
             \/ /\ exec'[t].pending = x /\ exec[t].pending = None /\ exec[t].pc # "failed"
                /\ steers'[x].input \in Fresh
    PROVE  Handed'
<1>1. \A u \in 1..MaxToken : exec'[u].pc \notin {"model", "asking", "persisted"} => exec'[u].pending = None
  BY DEF EntersIInv, Handed
<1>2. Fresh' = Fresh
  BY EntriesStay
<1>3. ASSUME NEW u \in 1..MaxToken, Owns(u)', view'.run \notin TakenOver'
      PROVE  /\ \A z \in Steers : steers'[z].status = "claimed" /\ steers'[z].run = view'.run =>
                                      exec'[u].pending = z \/ exec'[u].pc = "failed"
             /\ exec'[u].pc \in {"model", "asking"} /\ exec'[u].pending # None =>
                    steers'[exec'[u].pending].input \in Fresh'
  <2>1. u = t /\ view.run \notin TakenOver
    BY <1>3 DEF Owns
  <2>2. \A z \in Steers : steers[z].status = "claimed" /\ steers[z].run = view.run =>
                              exec[t].pending = z \/ exec[t].pc = "failed"
    BY <2>1 DEF EntersIInv, Handed
  <2>3. CASE exec'[t].pc = "failed"
    BY <2>1, <2>3
  <2>4. CASE /\ steers'[x].status # "claimed" /\ exec'[t].pending = None
             /\ exec[t].pending = x /\ exec[t].pc # "failed"
    BY <2>1, <2>2, <2>4
  <2>5. CASE /\ exec'[t].pending = x /\ exec[t].pending = None /\ exec[t].pc # "failed"
             /\ steers'[x].input \in Fresh
    <3>1. None \notin Steers
      BY QueueAssumption
    <3> QED BY <1>2, <2>1, <2>2, <2>5, <3>1
  <2> QED BY <2>1, <2>3, <2>4, <2>5
<1> QED BY <1>1, <1>3 DEF Handed

LEMMA EntersPersistFails ==
    ASSUME QueueIInv, EntersIInv, TakenOver \subseteq TakenOver', NEW t \in 1..MaxToken,
           PersistFails(t)
    PROVE  Handed' /\ InputsApart' /\ EnteredOnce'
<1> DEFINE row == [exec[t] EXCEPT !.pc = "failed", !.kind = "none", !.pending = None]
<1>1. QueueTypeOK
  BY DEF QueueIInv
<1>2. /\ UNCHANGED <<source, view, entered>> /\ follows' = follows
      /\ exec' = [exec EXCEPT ![t] = row] /\ exec[t].pc \in {"model", "asking"}
  BY DEF PersistFails, runvars, followdoc
<1>3. exec[t] \in Execs /\ steers \in [Steers -> SteerRows] /\ exec[t].pending \in Steers \cup {None}
  BY <1>1, Types DEF Execs
<1>4. row \in Execs /\ row.run = exec[t].run /\ row.pending = None /\ row.pc = "failed"
  BY <1>3 DEF Execs
<1> HIDE DEF row
<1>5. exec'[t] = row /\ \A u \in 1..MaxToken : u # t => exec'[u] = exec[u]
  BY <1>1, <1>2, <1>4, ExecutorRow
<1>6. CASE exec[t].pending # None /\ HoldsClaim(t)
  <2> DEFINE x == exec[t].pending
             y == [steers[x] EXCEPT !.status = "accepted", !.token = 0]
  <2>1. x \in Steers /\ steers[x].status = "claimed" /\ steers[x].run = view.run /\ Owns(t)
    BY <1>3, <1>6 DEF HoldsClaim
  <2>2. steers' = [steers EXCEPT ![x] = y]
    BY <1>3, <1>6, <2>1 DEF PersistFails
  <2>3. steers[x] \in SteerRows
    BY <1>3, <2>1
  <2>4. y.status = "accepted" /\ y.input = steers[x].input /\ y.run = steers[x].run
    BY <2>3 DEF SteerRows
  <2>5. view.run \notin TakenOver => steers[x].input \in Fresh
    BY <1>2, <1>6, <2>1 DEF EntersIInv, Handed
  <2> HIDE DEF y, x
  <2>6. InputsApart' /\ EnteredOnce'
    BY <1>2, <2>1, <2>2, <2>4, <2>5, EntersSteerWritten
  <2>7. \A z \in Steers : z # x => steers'[z] = steers[z]
    BY <1>3, <2>2
  <2>8. Handed'
    BY <1>2, <1>4, <1>5, <2>1, <2>7, OwnerMoves
  <2> QED BY <2>6, <2>8
<1>7. CASE ~(exec[t].pending # None /\ HoldsClaim(t))
  <2>1. steers' = steers
    BY <1>7 DEF PersistFails
  <2> QED BY <1>2, <1>4, <1>5, <2>1, EntersExecutorMoves
<1> QED BY <1>6, <1>7

LEMMA EntersApplySteer ==
    ASSUME QueueIInv, EntersIInv, TakenOver \subseteq TakenOver', NEW t \in 1..MaxToken,
           ApplySteer(t)
    PROVE  Handed' /\ InputsApart' /\ EnteredOnce'
<1> DEFINE row == [exec[t] EXCEPT !.pc = "applied", !.pending = None]
<1>1. QueueTypeOK
  BY DEF QueueIInv
<1>2. /\ UNCHANGED <<source, view, entered>> /\ follows' = follows
      /\ exec[t].pc = "persisted"
  BY DEF ApplySteer, runvars, followdoc
<1>3. /\ exec \in [1..MaxToken -> Execs] /\ exec[t] \in Execs /\ steers \in [Steers -> SteerRows]
      /\ exec[t].pending \in Steers \cup {None}
  BY <1>1, Types DEF Execs
<1>4. exec' = [exec EXCEPT ![t] = row]
  BY <1>3 DEF ApplySteer
<1>5. row \in Execs /\ row.run = exec[t].run /\ row.pending = None /\ row.pc = "applied"
  BY <1>3 DEF Execs
<1> HIDE DEF row
<1>6. exec'[t] = row /\ \A u \in 1..MaxToken : u # t => exec'[u] = exec[u]
  BY <1>1, <1>4, <1>5, ExecutorRow
<1>7. CASE exec[t].pending # None
  <2> DEFINE x == exec[t].pending
             y == [steers[x] EXCEPT !.status = "applied"]
  <2>1. x \in Steers /\ steers[x].status = "claimed" /\ Owns(t)
    BY <1>3, <1>7 DEF ApplySteer, HoldsClaim
  <2>2. steers' = [steers EXCEPT ![x] = y]
    BY <1>3, <1>7, <2>1 DEF ApplySteer
  <2>3. steers[x] \in SteerRows
    BY <1>3, <2>1
  <2>4. y.status = "applied" /\ y.input = steers[x].input /\ y.run = steers[x].run
    BY <2>3 DEF SteerRows
  <2>5. exec[t].pending = x
    OBVIOUS
  <2> HIDE DEF y, x
  <2>6. InputsApart' /\ EnteredOnce'
    BY <1>2, <2>1, <2>2, <2>4, EntersSteerWritten
  <2>7. steers'[x].status = "applied" /\ \A z \in Steers : z # x => steers'[z] = steers[z]
    BY <1>3, <2>1, <2>2, <2>4
  <2>8. Handed'
    BY <1>2, <1>5, <1>6, <2>1, <2>5, <2>7, OwnerMoves
  <2> QED BY <2>6, <2>8
<1>8. CASE exec[t].pending = None
  <2>1. steers' = steers
    BY <1>8 DEF ApplySteer
  <2> QED BY <1>2, <1>5, <1>6, <1>8, <2>1, EntersExecutorMoves
<1> QED BY <1>7, <1>8

\* An owner that has applied its claim finds no other, unless a takeover left it one: what it
\* takes is fresh.
LEMMA EntersClaimNext ==
    ASSUME QueueIInv, EntersIInv, TakenOver \subseteq TakenOver', NEW t \in 1..MaxToken,
           ClaimNextSteer(t)
    PROVE  Handed' /\ InputsApart' /\ EnteredOnce'
<1>1. QueueTypeOK
  BY DEF QueueIInv
<1>2. /\ UNCHANGED <<source, view, entered>> /\ follows' = follows
      /\ exec[t].pc = "applied" /\ ClaimsNext(t) /\ Owns(t)
  BY DEF ClaimNextSteer, runvars, followdoc
<1>3. exec[t].pending = None /\ steers \in [Steers -> SteerRows]
  BY <1>1, <1>2, Types DEF EntersIInv, Handed
<1>4. ASSUME NEW x \in Candidates(t), exec' = After(t, x),
             steers' = [steers EXCEPT ![x].status = "claimed", ![x].token = t]
      PROVE  Handed' /\ InputsApart' /\ EnteredOnce'
  <2> DEFINE y == [steers[x] EXCEPT !.status = "claimed", !.token = t]
  <2>1. x \in Steers /\ steers[x].status \in {"accepted", "claimed"} /\ steers[x].run = view.run
    BY <1>2, ClaimIsTheOnly DEF Owns
  <2>2. view.run \notin TakenOver => steers[x].status = "accepted"
    BY <1>2, <1>3, <2>1, QueueAssumption DEF EntersIInv, Handed
  <2>3. steers' = [steers EXCEPT ![x] = y]
    BY <1>3, <1>4, <2>1
  <2>4. steers[x] \in SteerRows
    BY <1>3, <2>1
  <2>5. y.status = "claimed" /\ y.input = steers[x].input /\ y.run = steers[x].run
    BY <2>4 DEF SteerRows
  <2> HIDE DEF y
  <2>6. InputsApart' /\ EnteredOnce'
    BY <1>2, <2>1, <2>3, <2>5, EntersSteerWritten
  <2>7. steers'[x].input = steers[x].input /\ \A z \in Steers : z # x => steers'[z] = steers[z]
    BY <1>3, <2>1, <2>3, <2>5
  <2>8. view.run \notin TakenOver => steers'[x].input \in Fresh
    BY <2>1, <2>2, <2>7 DEF EntersIInv, EnteredOnce
  <2>9. /\ exec'[t].run = exec[t].run /\ exec'[t].pending = x /\ exec'[t].pc = "model"
        /\ \A u \in 1..MaxToken : u # t => exec'[u] = exec[u]
    <3>1. exec[t].kind # "deferred" /\ x # None
      BY <1>2, <2>1, QueueAssumption DEF ClaimsNext
    <3> QED BY <1>1, <1>4, <2>1, <3>1, AfterRow
  <2>10. Handed'
    BY <1>2, <1>3, <2>1, <2>7, <2>8, <2>9, OwnerMoves
  <2> QED BY <2>6, <2>10
<1>5. ASSUME exec' = After(t, None), steers' = steers
      PROVE  Handed' /\ InputsApart' /\ EnteredOnce'
  <2>1. /\ exec'[t].run = exec[t].run /\ exec'[t].pending = None
        /\ \A u \in 1..MaxToken : u # t => exec'[u] = exec[u]
    BY <1>1, <1>5, AfterRow
  <2> QED BY <1>2, <1>3, <1>5, <2>1, EntersExecutorMoves
<1> QED BY <1>4, <1>5 DEF ClaimNextSteer

LEMMA EntersEndRun ==
    ASSUME QueueIInv, EntersIInv, EndRun
    PROVE  Handed' /\ InputsApart' /\ EnteredOnce'
<1>1. /\ UNCHANGED <<source, exec, entered>> /\ steers' = steers /\ follows' = follows
      /\ view'.run = None
  BY DEF EndRun, steerdoc, followdoc, NoView
<1>2. Fresh' = Fresh /\ Single' = Single /\ TakenOver' = TakenOver
  BY <1>1, EntriesStay DEF TakenOver
<1>3. Handed'
  BY <1>1 DEF EntersIInv, Handed, Owns
<1>4. InputsApart' /\ EnteredOnce'
  BY <1>1, <1>2 DEF EntersIInv, InputsApart, EnteredOnce, SteeredAs
<1> QED BY <1>3, <1>4

\* The owner that is replaced, and what it had claimed, are of a run that was taken over.
LEMMA EntersTakeover ==
    ASSUME QueueIInv, EntersIInv, TakenOver \subseteq TakenOver', Takeover
    PROVE  Handed' /\ InputsApart' /\ EnteredOnce'
<1> DEFINE row == [NoExec EXCEPT !.run = view.run, !.pc = "parked"]
<1>1. /\ UNCHANGED <<source, entered>> /\ steers' = steers /\ follows' = follows
      /\ exec' = [exec EXCEPT ![Drawn + 1] = row] /\ Drawn < MaxToken
      /\ view' = [view EXCEPT !.token = Drawn + 1, !.on = FALSE]
  BY DEF Takeover, steerdoc, followdoc
<1>2. PICK r \in Runs : r = view.run
  BY ViewTyped DEF Takeover, EntersIInv, WaitingRun, QueueIInv
<1>3. row.run = r /\ row.pending = None
  BY <1>2 DEF NoExec
<1> HIDE DEF row
<1>4. /\ \A t \in 1..MaxToken : t # Drawn + 1 => exec'[t] = exec[t]
      /\ exec'[Drawn + 1].run = r /\ exec[Drawn + 1].run = None /\ Drawn + 1 \in 1..MaxToken
  BY <1>1, <1>3, DrawsToken DEF QueueIInv, EntersIInv
<1>5. exec'[Drawn + 1] = row
  BY <1>1, <1>4, Types DEF QueueIInv
<1>6. view'.run = r
  BY <1>1, <1>2, ViewTyped DEF QueueIInv, Views
<1>7. view.token \in 1..MaxToken /\ exec[view.token].run = r
  BY <1>2, QueueAssumption DEF QueueIInv, RunsOk
<1>8. view.token # Drawn + 1
  BY <1>2, <1>4, <1>7, QueueAssumption
<1>9. r \in TakenOver'
  BY <1>4, <1>7, <1>8 DEF TakenOver
<1>10. \A u \in 1..MaxToken : exec'[u].pc \notin {"model", "asking", "persisted"} => exec'[u].pending = None
  BY <1>3, <1>4, <1>5 DEF EntersIInv, Handed
<1>11. Handed'
  BY <1>6, <1>9, <1>10 DEF Handed
<1>12. Fresh' = Fresh /\ Single' = Single
  BY <1>1, EntriesStay
<1>13. InputsApart' /\ EnteredOnce'
  BY <1>1, <1>12 DEF EntersIInv, InputsApart, EnteredOnce, SteeredAs
<1> QED BY <1>11, <1>13

\* A run that begins finds no claim of its own.
LEMMA EntersBegin ==
    ASSUME QueueIInv, EntersIInv, NEW r \in Runs, NEW f \in Follows \cup {None}, Begin(r, f),
           steers' = steers
    PROVE  Handed'
<1>1. /\ view'.run = r /\ view'.token = Drawn + 1 /\ Drawn + 1 \in 1..MaxToken
      /\ exec'[Drawn + 1].pending = None /\ exec'[Drawn + 1].pc \in {"none", "model"}
      /\ \A t \in 1..MaxToken : t # Drawn + 1 => exec'[t] = exec[t]
      /\ phase[r] = "new"
  BY BeginTypes DEF QueueIInv, Begin
<1>2. \A x \in Steers : steers[x].status = "claimed" => steers[x].run # r
  BY <1>1 DEF QueueIInv, SteersOk
<1>3. \A u \in 1..MaxToken : Owns(u)' => u = Drawn + 1
  BY <1>1 DEF Owns
<1>4. ASSUME NEW u \in 1..MaxToken, exec'[u].pc \notin {"model", "asking", "persisted"}
      PROVE  exec'[u].pending = None
  <2>1. CASE u = Drawn + 1
    BY <1>1, <2>1
  <2>2. CASE u # Drawn + 1
    BY <1>1, <1>4, <2>2 DEF EntersIInv, Handed
  <2> QED BY <2>1, <2>2
<1>5. ASSUME NEW u \in 1..MaxToken, Owns(u)'
      PROVE  /\ \A x \in Steers : steers'[x].status = "claimed" => steers'[x].run # view'.run
             /\ exec'[u].pending = None
  <2>1. u = Drawn + 1
    BY <1>3, <1>5
  <2> QED BY <1>1, <1>2, <2>1
<1> QED BY <1>4, <1>5 DEF Handed

LEMMA EntersUserTurn ==
    ASSUME QueueIInv, EntersIInv, TakenOver \subseteq TakenOver', NEW r \in Runs, UserTurn(r)
    PROVE  Handed' /\ InputsApart' /\ EnteredOnce'
<1>1. /\ Begin(r, None) /\ entered' = entered /\ steers' = steers /\ follows' = follows
  BY DEF UserTurn, steerdoc, followdoc
<1>2. Handed'
  BY <1>1, EntersBegin
<1>3. source' = source
  <2>1. source \in [Runs -> Follows \cup {None}] /\ source[r] = None
    BY <1>1, Types DEF QueueIInv, RunsOk, Begin
  <2> QED BY <1>1, <2>1 DEF Begin
<1>4. Fresh' = Fresh /\ Single' = Single
  BY <1>1, <1>3, EntriesStay
<1>5. InputsApart' /\ EnteredOnce'
  BY <1>1, <1>4 DEF EntersIInv, InputsApart, EnteredOnce, SteeredAs
<1> QED BY <1>2, <1>5

\* A turn that starts from a follow-up enters its text once more, and marks it as started:
\* what was fresh stays fresh.
LEMMA EntersStartFollowUp ==
    ASSUME QueueIInv, EntersIInv, TakenOver \subseteq TakenOver', NEW p \in Procs, NEW r \in Runs,
           StartFollowUp(p, r)
    PROVE  Handed' /\ InputsApart' /\ EnteredOnce'
<1>1. /\ entered \in [Inputs -> Nat] /\ start[p].pc = "start" /\ UNCHANGED <<steers, follows>>
  BY Types DEF QueueIInv, StartFollowUp, Startable, steerdoc, followdoc
<1>2. PICK f \in Follows : f = start[p].item
  BY <1>1 DEF QueueIInv, StartersOk
<1>3. /\ Begin(r, f) /\ ~Started(f) /\ entered' = [entered EXCEPT ![f] = @ + 1]
  BY <1>2 DEF StartFollowUp
<1>4. entered'[f] = entered[f] + 1 /\ \A i \in Inputs : i # f => entered'[i] = entered[i]
  BY <1>1, <1>3 DEF Inputs
<1>5. Started(f)' /\ \A i \in Inputs : i # f => (Started(i)' <=> Started(i))
  <2>1. /\ source'[r] = f /\ \A s \in Runs : s # r => source'[s] = source[s]
        /\ source[r] = None
    <3>1. QueueTypeOK /\ f \in Follows \cup {None}
      BY DEF QueueIInv
    <3>2. source'[r] = f /\ \A s \in Runs : s # r => source'[s] = source[s]
      BY <1>3, <3>1, BeginTypes
    <3>3. source[r] = None
      BY <1>3 DEF QueueIInv, RunsOk, Begin
    <3> QED BY <3>2, <3>3
  <2>2. \E s \in Runs : source'[s] = f
    BY <2>1
  <2>3. \A i \in Inputs : i # f => \A s \in Runs : source'[s] = i <=> source[s] = i
    BY <2>1, QueueAssumption DEF Inputs
  <2> QED BY <2>2, <2>3 DEF Started
<1>6. Fresh \subseteq Fresh' /\ Single \subseteq Single'
  <2>1. f \in Inputs /\ entered[f] \in Nat
    BY <1>1 DEF Inputs
  <2>2. \A i \in Inputs : i # f => (i \in Fresh => i \in Fresh') /\ (i \in Single => i \in Single')
    BY <1>4, <1>5 DEF Fresh, Single
  <2>3. (f \in Fresh => f \in Fresh') /\ (f \in Single => f \in Single')
    BY <1>3, <1>4, <1>5, <2>1 DEF Fresh, Single
  <2>4. Fresh \subseteq Inputs /\ Single \subseteq Inputs
    BY DEF Fresh, Single
  <2> QED BY <2>2, <2>3, <2>4
<1>7. Handed'
  BY <1>1, <1>3, EntersBegin
<1>8. InputsApart' /\ EnteredOnce'
  BY <1>1, <1>6 DEF EntersIInv, InputsApart, EnteredOnce, SteeredAs
<1> QED BY <1>7, <1>8

-----------------------------------------------------------------------------
(* What enters the history: the starters, the users, the observers.        *)

\* An item that was withdrawn stays so.
LEMMA CanceledStays ==
    ASSUME QueueIInv, NEW f \in Follows, follows[f].status = "canceled",
           \/ \E p \in Procs : Starter(p) \/ \E g \in Follows : EnqueueFollowUp(p, g)
           \/ \E g \in Follows : CancelFollowUp(g)
    PROVE  follows'[f].status = "canceled"
<1>1. follows \in [Follows -> FollowRows]
  BY Types DEF QueueIInv
<1>2. ASSUME NEW g \in Follows, follows[g].status # "canceled",
             \A h \in Follows : h # g => follows'[h] = follows[h]
      PROVE  follows'[f].status = "canceled"
  BY <1>2
<1>3. CASE follows' = follows
  BY <1>3
<1>4. ASSUME NEW p \in Procs, NEW status, NEW then, Settle(p, status, then)
      PROVE  follows'[f].status = "canceled"
  <2>1. CASE Matches(p)
    BY <1>1, <1>4, <2>1 DEF Settle, Matches
  <2>2. CASE ~Matches(p)
    BY <1>3, <1>4, <2>2 DEF Settle, followdoc
  <2> QED BY <2>1, <2>2
<1>5. ASSUME NEW p \in Procs, ClaimNextFollowUp(p)
      PROVE  follows'[f].status = "canceled"
  <2>1. ASSUME NEW g \in Pending(follows), NEW n, NEW k,
               follows' = [follows EXCEPT ![g].status = "claimed", ![g].trig = n, ![g].claim = k]
        PROVE  follows'[f].status = "canceled"
    BY <1>1, <2>1 DEF Pending
  <2>2. \/ UNCHANGED followdoc
        \/ \E g \in Pending(follows) :
              follows' = [follows EXCEPT ![g].status = "claimed", ![g].trig = start[p].trig,
                                         ![g].claim = @ + 1]
    BY <1>5 DEF ClaimNextFollowUp
  <2>3. ASSUME NEW g \in Pending(follows),
               follows' = [follows EXCEPT ![g].status = "claimed", ![g].trig = start[p].trig,
                                          ![g].claim = @ + 1]
        PROVE  follows'[f].status = "canceled"
    BY <1>1, <2>3 DEF Pending
  <2> QED BY <1>3, <2>2, <2>3 DEF followdoc
<1>6. ASSUME NEW p \in Procs, Starter(p)
      PROVE  follows'[f].status = "canceled"
  <2>1. CASE DuplicateFollowUp(p) \/ GiveUp(p) \/ \E r \in Runs : StartFollowUp(p, r)
    BY <1>3, <2>1 DEF DuplicateFollowUp, GiveUp, StartFollowUp, followdoc
  <2>2. CASE RejectFollowUp(p) \/ ApplyFollowUp(p) \/ ReleaseFollowUp(p)
    BY <1>4, <2>2 DEF RejectFollowUp, ApplyFollowUp, ReleaseFollowUp
  <2> QED BY <1>5, <1>6, <2>1, <2>2 DEF Starter
<1>7. ASSUME NEW p \in Procs, NEW g \in Follows, EnqueueFollowUp(p, g)
      PROVE  follows'[f].status = "canceled"
  <2>1. follows[g].status = "none"
    BY <1>7 DEF EnqueueFollowUp, QueueIInv, FollowsOk
  <2> QED BY <1>1, <1>7, <2>1 DEF EnqueueFollowUp
<1>8. ASSUME NEW g \in Follows, CancelFollowUp(g)
      PROVE  follows'[f].status = "canceled"
  BY <1>1, <1>8 DEF CancelFollowUp
<1> QED BY <1>6, <1>7, <1>8

\* The starters and the users edit the follow-ups; those that were withdrawn stay so.
LEMMA EntersFollowUps ==
    ASSUME QueueIInv, EntersIInv, TakenOver \subseteq TakenOver',
           \/ \E p \in Procs : Starter(p) \/ \E f \in Follows : EnqueueFollowUp(p, f)
           \/ \E f \in Follows : ReadForFollowUp(f) \/ CancelFollowUp(f) \/ Kick(f)
           \/ \E x \in Steers, of \in Follows \cup {None} : ReadForSteer(x, of)
           \/ UNCHANGED vars
    PROVE  Handed' /\ InputsApart' /\ EnteredOnce'
<1>1. ASSUME NEW p \in Procs, NEW r \in Runs, StartFollowUp(p, r)
      PROVE  Handed' /\ InputsApart' /\ EnteredOnce'
  BY <1>1, EntersStartFollowUp
<1>2. CASE UNCHANGED <<runvars, exec, steers, follows, entered>>
  BY <1>2, EntersFollowsMove
<1>3. ASSUME UNCHANGED <<runvars, exec, steers, entered>>,
             \/ \E p \in Procs : Starter(p) \/ \E f \in Follows : EnqueueFollowUp(p, f)
             \/ \E f \in Follows : CancelFollowUp(f)
      PROVE  Handed' /\ InputsApart' /\ EnteredOnce'
  BY <1>3, CanceledStays, EntersFollowsMove
<1>4. ASSUME NEW p \in Procs, Starter(p), ~\E r \in Runs : StartFollowUp(p, r)
      PROVE  UNCHANGED <<runvars, exec, steers, entered>>
  BY <1>4 DEF Starter, ClaimNextFollowUp, RejectFollowUp, DuplicateFollowUp, ApplyFollowUp,
              GiveUp, ReleaseFollowUp, Settle, steerdoc
<1>5. ASSUME NEW f \in Follows, CancelFollowUp(f) \/ \E p \in Procs : EnqueueFollowUp(p, f)
      PROVE  UNCHANGED <<runvars, exec, steers, entered>>
  BY <1>5 DEF CancelFollowUp, EnqueueFollowUp, steerdoc
<1>6. ASSUME \/ \E f \in Follows : ReadForFollowUp(f) \/ Kick(f)
             \/ \E x \in Steers, of \in Follows \cup {None} : ReadForSteer(x, of)
             \/ UNCHANGED vars
      PROVE  UNCHANGED <<runvars, exec, steers, follows, entered>>
  BY <1>6 DEF ReadForFollowUp, Kick, ReadForSteer, vars, steerdoc, followdoc
<1> QED BY <1>1, <1>2, <1>3, <1>4, <1>5, <1>6

\* A steer that is admitted, typed or promoted, is fresh: nobody carried its input before.
LEMMA EntersEnqueueSteer ==
    ASSUME QueueIInv, EntersIInv, TakenOver \subseteq TakenOver', NEW x \in Steers, EnqueueSteer(x)
    PROVE  Handed' /\ InputsApart' /\ EnteredOnce'
<1> DEFINE y == [status |-> "accepted", run |-> seen[x].run, token |-> 0,
                 input |-> IF seen[x].of = None THEN x ELSE seen[x].of]
<1>1. /\ UNCHANGED <<source, view, exec, entered>> /\ seen[x].run # None
      /\ steers' = [steers EXCEPT ![x] = y]
  BY DEF EnqueueSteer, runvars
<1>2. /\ steers \in [Steers -> SteerRows] /\ follows \in [Follows -> FollowRows]
      /\ seen \in [Steers -> [run : Runs \cup {None}, of : Follows \cup {None}]]
      /\ exec \in [1..MaxToken -> Execs] /\ entered \in [Inputs -> Nat]
  BY Types DEF QueueIInv
<1>3. /\ steers[x].status = "none" /\ seen[x].of \in Follows \cup {None}
      /\ seen[x].of # None => follows[seen[x].of].status = "accepted"
  BY <1>1, <1>2 DEF QueueIInv, SteersOk
<1>4. /\ y.status = "accepted" /\ y.input \in Inputs
      /\ \/ y.input = x
         \/ y.input \in Follows /\ y.input = seen[x].of
  BY <1>3 DEF Inputs
<1> HIDE DEF y
<1>5. steers'[x] = y /\ \A z \in Steers : z # x => steers'[z] = steers[z]
  BY <1>1, <1>2
<1>6. /\ \A h \in Follows : h # y.input => follows'[h] = follows[h]
      /\ y.input \in Follows =>
           follows'[y.input].status = "canceled" /\ follows[y.input].status = "accepted"
  <2>1. CASE seen[x].of = None
    <3>1. follows' = follows /\ y.input = x
      BY <2>1 DEF EnqueueSteer, y
    <3> QED BY <3>1, QueueAssumption
  <2>2. CASE seen[x].of # None
    <3>1. follows' = [follows EXCEPT ![seen[x].of].status = "canceled"] /\ y.input = seen[x].of
      BY <2>2 DEF EnqueueSteer, y
    <3>2. follows[seen[x].of] \in FollowRows
      BY <1>2, <1>3, <2>2
    <3>3. follows'[seen[x].of].status = "canceled"
      BY <1>2, <1>3, <2>2, <3>1, <3>2 DEF FollowRows
    <3> QED BY <1>2, <1>3, <2>2, <3>1, <3>3
  <2> QED BY <2>1, <2>2
<1>7. \A z \in Steers : steers[z].status # "none" => steers[z].input # y.input
  BY <1>3, <1>4, <1>6, QueueAssumption DEF EntersIInv, InputsApart
<1>8. Fresh' = Fresh /\ Single' = Single
  BY <1>1, EntriesStay
<1>9. y.input \in Fresh /\ y.input \in Single
  <2>1. SteeredAs(y.input) = {}
    BY <1>7 DEF SteeredAs
  <2> QED BY <1>4, <2>1, FreshIsSingle DEF EntersIInv, EnteredOnce
<1>10. Handed'
  <2>1. \A u \in 1..MaxToken : exec[u].pending \in Steers \cup {None}
    BY <1>2 DEF Execs
  <2>2. \A u \in 1..MaxToken : Owns(u)' <=> Owns(u)
    BY <1>1 DEF Owns
  <2>3. \A u \in 1..MaxToken : Owns(u) => exec[u].pending # x
    BY <1>3, <2>1, QueueAssumption DEF QueueIInv, ExecsOk, PendingIsHeld, HoldsClaim
  <2>4. ASSUME NEW u \in 1..MaxToken, Owns(u)', view'.run \notin TakenOver'
        PROVE  /\ \A z \in Steers : steers'[z].status = "claimed" /\ steers'[z].run = view'.run =>
                                        exec'[u].pending = z \/ exec'[u].pc = "failed"
               /\ exec'[u].pc \in {"model", "asking"} /\ exec'[u].pending # None =>
                      steers'[exec'[u].pending].input \in Fresh'
    <3>1. \A z \in Steers : steers'[z].status = "claimed" =>
                                steers[z].status = "claimed" /\ steers[z].run = steers'[z].run
      BY <1>4, <1>5
    <3>2. exec[u].pending # None => steers'[exec[u].pending] = steers[exec[u].pending]
      BY <1>5, <2>1, <2>2, <2>3, <2>4
    <3>3. Owns(u) /\ view.run \notin TakenOver
      BY <1>1, <2>2, <2>4
    <3> QED BY <1>1, <1>8, <3>1, <3>2, <3>3 DEF EntersIInv, Handed
  <2>5. \A u \in 1..MaxToken : exec'[u].pc \notin {"model", "asking", "persisted"} => exec'[u].pending = None
    BY <1>1 DEF EntersIInv, Handed
  <2> QED BY <2>4, <2>5 DEF Handed
<1>11. InputsApart'
  <2>1. ASSUME NEW z \in Steers, steers'[z].status # "none"
        PROVE  \/ steers'[z].input = z
               \/ /\ steers'[z].input \in Follows
                  /\ follows'[steers'[z].input].status = "canceled"
    <3>1. CASE z = x
      BY <1>4, <1>5, <1>6, <3>1
    <3>2. CASE z # x
      BY <1>5, <1>6, <1>7, <2>1, <3>2 DEF EntersIInv, InputsApart
    <3> QED BY <3>1, <3>2
  <2>2. ASSUME NEW z \in Steers, NEW w \in Steers, steers'[z].status # "none",
               steers'[w].status # "none", steers'[z].input = steers'[w].input
        PROVE  z = w
    BY <1>5, <1>7, <2>2 DEF EntersIInv, InputsApart
  <2> QED BY <2>1, <2>2 DEF InputsApart
<1>12. EnteredOnce'
  <2>1. ASSUME NEW j \in Inputs, SteeredAs(j)' = {}
        PROVE  j \in Fresh'
    <3>1. SteeredAs(j) = {}
      BY <1>3, <1>5, <2>1 DEF SteeredAs
    <3> QED BY <1>8, <3>1 DEF EntersIInv, EnteredOnce
  <2>2. ASSUME NEW z \in Steers, steers'[z].run \notin TakenOver'
        PROVE  /\ steers'[z].status = "accepted" => steers'[z].input \in Fresh'
               /\ steers'[z].status # "none" => steers'[z].input \in Single'
    <3>1. CASE z = x
      BY <1>5, <1>8, <1>9, <3>1
    <3>2. CASE z # x
      BY <1>5, <1>8, <2>2, <3>2 DEF EntersIInv, EnteredOnce
    <3> QED BY <3>1, <3>2
  <2> QED BY <2>1, <2>2 DEF EnteredOnce
<1> QED BY <1>10, <1>11, <1>12

LEMMA EntersCancelSteer ==
    ASSUME QueueIInv, EntersIInv, TakenOver \subseteq TakenOver', NEW x \in Steers, CancelSteer(x)
    PROVE  Handed' /\ InputsApart' /\ EnteredOnce'
<1> DEFINE y == [steers[x] EXCEPT !.status = "canceled"]
<1>1. /\ UNCHANGED <<source, view, exec, entered>> /\ follows' = follows
      /\ steers[x].status = "accepted"
  BY DEF CancelSteer, runvars, followdoc
<1>2. /\ steers \in [Steers -> SteerRows] /\ steers[x] \in SteerRows
      /\ exec \in [1..MaxToken -> Execs]
  BY Types DEF QueueIInv
<1>3. steers' = [steers EXCEPT ![x] = y]
  BY <1>2 DEF CancelSteer
<1>4. y.status = "canceled" /\ y.input = steers[x].input /\ y.run = steers[x].run
  BY <1>2 DEF SteerRows
<1> HIDE DEF y
<1>5. InputsApart' /\ EnteredOnce'
  BY <1>1, <1>3, <1>4, EntersSteerWritten
<1>6. \A z \in Steers : /\ steers'[z].input = steers[z].input
                        /\ steers'[z].status = "claimed" => steers'[z] = steers[z]
  BY <1>2, <1>3, <1>4
<1>7. \A u \in 1..MaxToken : exec[u].pending \in Steers \cup {None}
  BY <1>2 DEF Execs
<1>8. Fresh' = Fresh /\ TakenOver' = TakenOver
  BY <1>1, EntriesStay DEF TakenOver
<1>9. Handed'
  BY <1>1, <1>6, <1>7, <1>8 DEF EntersIInv, Handed, Owns
<1> QED BY <1>5, <1>9

\* The steers of a run that ended are rejected; the executor that held one has no run.
LEMMA EntersObserve ==
    ASSUME QueueIInv, EntersIInv, NEW p \in Procs, NEW r \in Runs, Observe(p, r)
    PROVE  Handed' /\ InputsApart' /\ EnteredOnce'
<1>1. UNCHANGED <<source, view, exec, entered>> /\ follows' = follows
  BY DEF Observe, runvars, followdoc
<1>2. /\ steers \in [Steers -> SteerRows] /\ exec \in [1..MaxToken -> Execs]
  BY Types DEF QueueIInv
<1>3. \A z \in Steers : /\ steers'[z].input = steers[z].input /\ steers'[z].run = steers[z].run
                        /\ steers'[z].status # "none" <=> steers[z].status # "none"
                        /\ steers'[z].status \in {"claimed", "accepted"} => steers'[z] = steers[z]
  <2> DEFINE out(z) == [steers[z] EXCEPT !.status = "rejected", !.token = 0]
  <2>1. steers' = [z \in Steers |-> IF z \in Closable(r) THEN out(z) ELSE steers[z]]
    BY <1>2 DEF Observe
  <2>2. \A z \in Closable(r) : z \in Steers /\ steers[z].status # "none"
    BY DEF Closable
  <2>3. \A z \in Steers : /\ out(z).status = "rejected" /\ out(z).input = steers[z].input
                          /\ out(z).run = steers[z].run
    BY <1>2 DEF SteerRows
  <2> HIDE DEF out
  <2> QED BY <2>1, <2>2, <2>3
<1>4. \A u \in 1..MaxToken : exec[u].pending \in Steers \cup {None}
  BY <1>2 DEF Execs
<1>5. Fresh' = Fresh /\ Single' = Single /\ TakenOver' = TakenOver
  BY <1>1, EntriesStay DEF TakenOver
<1>6. Handed'
  BY <1>1, <1>3, <1>4, <1>5 DEF EntersIInv, Handed, Owns
<1>7. InputsApart'
  BY <1>1, <1>3 DEF EntersIInv, InputsApart
<1>8. EnteredOnce'
  <2>1. ASSUME NEW j \in Inputs, SteeredAs(j)' = {}
        PROVE  j \in Fresh'
    <3>1. SteeredAs(j) = {}
      BY <1>3, <2>1 DEF SteeredAs
    <3> QED BY <1>5, <3>1 DEF EntersIInv, EnteredOnce
  <2>2. ASSUME NEW z \in Steers, steers'[z].run \notin TakenOver'
        PROVE  /\ steers'[z].status = "accepted" => steers'[z].input \in Fresh'
               /\ steers'[z].status # "none" => steers'[z].input \in Single'
    BY <1>3, <1>5, <2>2 DEF EntersIInv, EnteredOnce
  <2> QED BY <2>1, <2>2 DEF EnteredOnce
<1> QED BY <1>6, <1>7, <1>8

LEMMA EntersStep ==
    ASSUME QueueIInv, EntersIInv, [Next]_vars
    PROVE  EntersIInv'
<1> DEFINE Goal == Handed' /\ InputsApart' /\ EnteredOnce'
<1>1. InOrder' /\ WaitingRun' /\ TakenOver \subseteq TakenOver'
  BY RunsInOrder, WaitingStep DEF EntersIInv, QueueIInv
<1>2. ASSUME EndRun \/ Takeover
      PROVE  Goal
  BY <1>1, <1>2, EntersEndRun, EntersTakeover
<1>3. ASSUME NEW r \in Runs, UserTurn(r)
      PROVE  Goal
  BY <1>1, <1>3, EntersUserTurn
<1>4. ASSUME NEW t \in 1..MaxToken, Executor(t)
      PROVE  Goal
  <2>1. ASSUME NEW kind \in {"tool", "final", "deferred"}, Persist(t, kind)
        PROVE  Goal
    BY <1>1, <2>1, EntersPersist
  <2> QED BY <1>1, <1>4, <2>1, EntersDecision, EntersNoClaim, EntersPersistFails,
             EntersApplySteer, EntersClaimNext DEF Executor
<1>5. ASSUME NEW x \in Steers, EnqueueSteer(x) \/ CancelSteer(x)
      PROVE  Goal
  BY <1>1, <1>5, EntersEnqueueSteer, EntersCancelSteer
<1>6. ASSUME NEW p \in Procs, NEW r \in Runs, Observe(p, r)
      PROVE  Goal
  BY <1>6, EntersObserve
<1>7. ASSUME \/ \E p \in Procs : Starter(p) \/ \E f \in Follows : EnqueueFollowUp(p, f)
             \/ \E f \in Follows : ReadForFollowUp(f) \/ CancelFollowUp(f) \/ Kick(f)
             \/ \E x \in Steers, of \in Follows \cup {None} : ReadForSteer(x, of)
             \/ UNCHANGED vars
      PROVE  Goal
  BY <1>1, <1>7, EntersFollowUps
<1>8. Goal
  BY <1>2, <1>3, <1>4, <1>5, <1>6, <1>7 DEF Next
<1> QED BY <1>1, <1>8 DEF EntersIInv

LEMMA EntersInductive == Spec => [](QueueIInv /\ EntersIInv)
<1>1. Init => EntersIInv
  BY EntersBegins
<1>2. QueueIInv /\ EntersIInv /\ [Next]_vars => EntersIInv'
  BY EntersStep
<1> QED BY <1>1, <1>2, QueueInductive, PTL DEF Spec

\* What the invariant says of the history and of a run that is parked.
LEMMA ConsumedOnce ==
    ASSUME QueueIInv, EntersIInv
    PROVE  ClaimsConsumedOnce
<1>1. EntersOnce
  <2> SUFFICES ASSUME NEW i \in Inputs, entered[i] > 1,
                      \A x \in SteeredAs(i) : steers[x].run \notin TakenOver
               PROVE  Started(i) /\ SteeredAs(i) # {}
    BY DEF EntersOnce
  <2>1. i \notin Fresh
    BY DEF Fresh
  <2>2. PICK x \in SteeredAs(i) : TRUE
    BY <2>1 DEF EntersIInv, EnteredOnce
  <2>3. x \in Steers /\ steers[x].status # "none" /\ steers[x].input = i
    BY <2>2 DEF SteeredAs
  <2>4. i \in Single
    BY <2>2, <2>3 DEF EntersIInv, EnteredOnce
  <2> QED BY <2>2, <2>4, Types DEF Single, QueueIInv
<1>2. ParkedHoldsNoClaim
  <2> SUFFICES ASSUME NEW t \in 1..MaxToken, NEW x \in Steers, Owns(t), exec[t].pc = "parked",
                      exec[t].run \notin TakenOver, steers[x].run = exec[t].run,
                      steers[x].status = "claimed"
               PROVE  FALSE
    BY DEF ParkedHoldsNoClaim
  <2>1. exec[t].pending = None /\ x # None
    BY QueueAssumption DEF EntersIInv, Handed
  <2>2. steers[x].run = view.run /\ view.run \notin TakenOver
    BY DEF Owns
  <2> QED BY <2>1, <2>2 DEF EntersIInv, Handed
<1> QED BY <1>1, <1>2 DEF ClaimsConsumedOnce

\* Whatever other processes edit, promote, start or take over: the text of an input enters
\* the history once (queueStepCoordinator.commit keeps the claim of what it failed to
\* apply), unless a waiting run was taken over with its claim, or the item was both started
\* and promoted; and a run that parks leaves no claim unapplied (advanceSteerClaim).
THEOREM ConsumedOnceTheorem == Spec => []ClaimsConsumedOnce
<1>1. QueueIInv /\ EntersIInv => ClaimsConsumedOnce
  BY ConsumedOnce
<1> QED BY <1>1, EntersInductive, PTL

-----------------------------------------------------------------------------
(* One process serves the queue: the claims of follow-ups.                 *)

LEMMA ClaimsBegin == Init => ClaimsHeld
<1> SUFFICES ASSUME Init PROVE ClaimsHeld
  OBVIOUS
<1>1. /\ \A f \in Follows : follows[f].status = "none" /\ ~Started(f)
      /\ \A p \in Procs : start[p].pc = "idle"
  BY QueueAssumption DEF Init, NoFollow, AtRest, Started
<1> QED BY <1>1 DEF ClaimsHeld

\* The claims of follow-ups, when the starters' items stay and no claim comes or goes.
LEMMA ClaimsFrame ==
    ASSUME ClaimsHeld, source' = source,
           \A p \in Procs : \/ /\ start'[p].pc = start[p].pc /\ start'[p].item = start[p].item
                               /\ start'[p].claim = start[p].claim
                            \/ /\ start[p].pc \in {"idle", "claim"}
                               /\ start'[p].pc \in {"idle", "claim"},
           \A f \in Follows : \/ follows'[f] = follows[f]
                              \/ /\ follows[f].status \notin {"claimed", "applied"}
                                 /\ follows'[f].status # "claimed",
           StartersOk
    PROVE  ClaimsHeld'
<1>1. \A f : Started(f)' <=> Started(f)
  BY DEF Started
<1>2. ASSUME NEW p \in Procs, start'[p].pc \in {"start", "apply", "release"}
      PROVE  /\ start[p].pc = start'[p].pc /\ start'[p].item = start[p].item
             /\ start[p].item \in Follows /\ Matches(p) /\ Matches(p)'
  <2>1. /\ start[p].pc = start'[p].pc /\ start'[p].item = start[p].item
        /\ start'[p].claim = start[p].claim
    BY <1>2
  <2>2. Matches(p) /\ start[p].item \in Follows
    BY <1>2, <2>1 DEF ClaimsHeld, StartersOk
  <2>3. follows'[start[p].item] = follows[start[p].item]
    BY <2>2 DEF Matches
  <2> QED BY <2>1, <2>2, <2>3 DEF Matches
<1>3. ASSUME NEW f \in Follows, follows'[f].status = "claimed"
      PROVE  \E p \in Procs : start'[p].pc \in {"start", "apply", "release"} /\ start'[p].item = f
  <2>1. follows[f].status = "claimed"
    BY <1>3
  <2>2. PICK p \in Procs : start[p].pc \in {"start", "apply", "release"} /\ start[p].item = f
    BY <2>1 DEF ClaimsHeld
  <2> QED BY <2>2
<1>4. (\A p \in Procs : start[p].pc \in {"start", "release"} => ~Started(start[p].item))'
  <2> SUFFICES ASSUME NEW p \in Procs, start'[p].pc \in {"start", "release"}
               PROVE  ~(\E r \in Runs : source'[r] = start'[p].item)
    BY DEF Started
  <2>1. start[p].pc \in {"start", "release"} /\ start'[p].item = start[p].item
    BY <1>2
  <2> QED BY <2>1 DEF ClaimsHeld, Started
<1>5. \A f \in Follows : Started(f)' => follows'[f].status \in {"claimed", "applied"}
  BY <1>1 DEF ClaimsHeld
<1> QED BY <1>2, <1>3, <1>4, <1>5 DEF ClaimsHeld

LEMMA ClaimsStartFollowUp ==
    ASSUME QueueIInv, ClaimsHeld, OneProcess, NEW p \in Procs, NEW r \in Runs,
           StartFollowUp(p, r)
    PROVE  ClaimsHeld'
<1>1. /\ start \in [Procs -> StartRows] /\ start[p] \in StartRows
      /\ start[p].pc = "start" /\ UNCHANGED <<steers, follows>>
  BY Types DEF QueueIInv, StartFollowUp, Startable, steerdoc, followdoc
<1>2. PICK f \in Follows : f = start[p].item
  BY <1>1 DEF QueueIInv, StartersOk
<1>3. /\ Begin(r, f) /\ ~Started(f) /\ start' = [start EXCEPT ![p].pc = "apply"]
  BY <1>2 DEF StartFollowUp
<1>4. Matches(p) /\ follows[f].status = "claimed" /\ follows[f].claim = start[p].claim
  BY <1>1, <1>2 DEF ClaimsHeld, Matches
<1>5. /\ start'[p].pc = "apply" /\ start'[p].item = f /\ start'[p].claim = start[p].claim
      /\ \A q \in Procs : q = p
  BY <1>1, <1>2, <1>3 DEF OneProcess, StartRows
<1>6. \A g \in Follows : Started(g)' => g = f \/ Started(g)
  <2>1. source'[r] = f /\ \A s \in Runs : s # r => source'[s] = source[s]
    BY <1>3, BeginTypes DEF QueueIInv
  <2> QED BY <1>3, <2>1, BeginStarts DEF Started
<1>7. Matches(p)'
  BY <1>1, <1>2, <1>4, <1>5 DEF Matches
<1>8. \A g \in Follows : follows[g].status = "claimed" => g = f
  BY <1>2, <1>5 DEF ClaimsHeld
<1>9. \A q \in Procs : start'[q].pc \in {"start", "apply", "release"} => Matches(q)'
  BY <1>5, <1>7
<1>10. \A g \in Follows : follows'[g].status = "claimed" =>
           \E q \in Procs : start'[q].pc \in {"start", "apply", "release"} /\ start'[q].item = g
  BY <1>1, <1>5, <1>8
<1>11. \A q \in Procs : start'[q].pc \notin {"start", "release"}
  BY <1>5
<1>12. \A g \in Follows : Started(g)' => follows'[g].status \in {"claimed", "applied"}
  BY <1>1, <1>4, <1>6 DEF ClaimsHeld
<1> QED BY <1>9, <1>10, <1>11, <1>12 DEF ClaimsHeld

\* The starter finds no claim but its own.
LEMMA ClaimsClaimNext ==
    ASSUME QueueIInv, ClaimsHeld, OneProcess, NEW p \in Procs, ClaimNextFollowUp(p)
    PROVE  ClaimsHeld'
<1>1. QueueTypeOK
  BY DEF QueueIInv
<1>2. /\ UNCHANGED <<runvars, exec, entered>> /\ steers' = steers /\ start[p].pc = "claim"
      /\ source' = source
  BY DEF ClaimNextFollowUp, steerdoc, runvars
<1>3. /\ start \in [Procs -> StartRows] /\ start[p] \in StartRows
      /\ follows \in [Follows -> FollowRows] /\ trigger \in [Runs -> Follows \cup {None}]
  BY <1>1, Types
<1>4. PICK r \in Runs : r = start[p].trig
  BY <1>2 DEF QueueIInv, StartersOk
<1>5. (\A q \in Procs : q = p) /\ \A f \in Follows : follows[f].status # "claimed"
  BY <1>2 DEF OneProcess, ClaimsHeld
<1>6. ASSUME start' = [start EXCEPT ![p] = Proceed(@)], UNCHANGED followdoc
      PROVE  ClaimsHeld'
  <2>1. follows' = follows /\ start' = [start EXCEPT ![p] = Proceed(start[p])]
    BY <1>3, <1>6 DEF followdoc
  <2>2. Proceed(start[p]).pc \in {"idle", "claim"}
    BY <1>1, ProceedRow
  <2>3. start'[p] = Proceed(start[p])
    BY <1>3, <2>1
  <2> QED BY <1>2, <1>5, <2>1, <2>2, <2>3, ClaimsFrame DEF QueueIInv
<1>7. ASSUME trigger[r] # None, follows[trigger[r]].status = "claimed"
      PROVE  FALSE
  BY <1>3, <1>5, <1>7
<1>8. ASSUME NEW g \in Pending(follows), follows[g].claim < MaxClaims,
             follows' = [follows EXCEPT ![g].status = "claimed", ![g].trig = r, ![g].claim = @ + 1],
             start' = [start EXCEPT ![p] = [@ EXCEPT !.pc = "start", !.item = g,
                                                     !.claim = follows[g].claim + 1]]
      PROVE  ClaimsHeld'
  <2>1. g \in Follows /\ follows[g].status = "accepted" /\ follows[g] \in FollowRows
    BY <1>3 DEF Pending
  <2>2. /\ follows'[g].status = "claimed" /\ follows'[g].claim = follows[g].claim + 1
        /\ \A h \in Follows : h # g => follows'[h] = follows[h]
    BY <1>3, <1>8, <2>1 DEF FollowRows
  <2>3. /\ start'[p].pc = "start" /\ start'[p].item = g
        /\ start'[p].claim = follows[g].claim + 1
    BY <1>3, <1>8 DEF StartRows
  <2>4. \A h : Started(h)' <=> Started(h)
    BY <1>2 DEF Started
  <2>5. ~Started(g)
    BY <2>1 DEF ClaimsHeld
  <2>6. Matches(p)'
    BY <2>2, <2>3 DEF Matches
  <2>7. \A q \in Procs : start'[q].pc \in {"start", "apply", "release"} => Matches(q)'
    BY <1>5, <2>6
  <2>8. \A h \in Follows : follows'[h].status = "claimed" =>
             \E q \in Procs : start'[q].pc \in {"start", "apply", "release"} /\ start'[q].item = h
    BY <1>5, <2>2, <2>3
  <2>9. (\A q \in Procs : start[q].pc \in {"start", "release"} => ~Started(start[q].item))'
    BY <1>2, <1>5, <2>3, <2>5 DEF Started
  <2>10. \A h \in Follows : Started(h)' => follows'[h].status \in {"claimed", "applied"}
    BY <2>2, <2>4 DEF ClaimsHeld
  <2> QED BY <2>7, <2>8, <2>9, <2>10 DEF ClaimsHeld
<1> QED BY <1>4, <1>6, <1>7, <1>8 DEF ClaimNextFollowUp, ClaimedFor

\* The claim that the starter settles is the only one.
LEMMA ClaimsSettle ==
    ASSUME QueueIInv, ClaimsHeld, OneProcess, NEW p \in Procs,
           NEW status \in {"rejected", "applied", "accepted"},
           NEW then \in StartRows, Settle(p, status, then), UNCHANGED runvars,
           start[p].pc \in {"start", "apply", "release"},
           status = "applied" <=> start[p].pc = "apply", then.pc \in {"idle", "claim"}
    PROVE  ClaimsHeld'
<1>1. PICK f \in Follows : f = start[p].item
  BY DEF QueueIInv, StartersOk
<1>2. Matches(p) /\ follows[f].status = "claimed"
  BY <1>1 DEF ClaimsHeld, Matches
<1>3. /\ start \in [Procs -> StartRows] /\ follows \in [Follows -> FollowRows]
      /\ follows[f] \in FollowRows
  BY Types DEF QueueIInv
<1>4. /\ follows' = [follows EXCEPT ![f].status = status] /\ start' = [start EXCEPT ![p] = then]
      /\ source' = source
  BY <1>1, <1>2 DEF Settle, runvars
<1>5. /\ follows'[f].status = status /\ \A h \in Follows : h # f => follows'[h] = follows[h]
  BY <1>3, <1>4 DEF FollowRows
<1>6. start'[p] = then /\ \A q \in Procs : q = p
  BY <1>3, <1>4 DEF OneProcess
<1>7. \A h \in Follows : follows[h].status = "claimed" => h = f
  BY <1>1, <1>6 DEF ClaimsHeld
<1>8. Started(f) => status = "applied"
  BY <1>1 DEF ClaimsHeld
<1>9. \A h : Started(h)' <=> Started(h)
  BY <1>4 DEF Started
<1>10. \A h \in Follows : /\ follows'[h].status # "claimed"
                          /\ Started(h)' => follows'[h].status \in {"claimed", "applied"}
  BY <1>5, <1>7, <1>8, <1>9 DEF ClaimsHeld
<1>11. \A q \in Procs : start'[q].pc \in {"idle", "claim"}
  BY <1>6
<1> QED BY <1>10, <1>11 DEF ClaimsHeld

LEMMA ClaimsStarter ==
    ASSUME QueueIInv, ClaimsHeld, OneProcess, NEW p \in Procs, Starter(p)
    PROVE  ClaimsHeld'
<1> DEFINE again == [start[p] EXCEPT !.pc = "claim", !.item = None, !.claim = 0]
<1>1. start \in [Procs -> StartRows] /\ start[p] \in StartRows /\ 0 \in 0..MaxClaims
  BY Types, QueueAssumption DEF QueueIInv
<1>2. Proceed(start[p]) \in StartRows /\ Proceed(start[p]).pc \in {"idle", "claim"}
  BY ProceedRow DEF QueueIInv
<1>3. again \in StartRows /\ again.pc = "claim"
  BY <1>1 DEF StartRows
<1> HIDE DEF again
<1>4. CASE RejectFollowUp(p)
  <2>1. start[p].pc = "start" /\ UNCHANGED runvars
    BY <1>4 DEF RejectFollowUp
  <2>2. PICK unreadable \in BOOLEAN :
          Settle(p, "rejected", IF unreadable /\ Matches(p) THEN again ELSE Proceed(start[p]))
    BY <1>4 DEF RejectFollowUp, again
  <2>3. Settle(p, "rejected", again) \/ Settle(p, "rejected", Proceed(start[p]))
    BY <2>2, Zenon
  <2>4. CASE Settle(p, "rejected", again)
    BY <1>3, <2>1, <2>4, ClaimsSettle
  <2>5. CASE Settle(p, "rejected", Proceed(start[p]))
    BY <1>2, <2>1, <2>5, ClaimsSettle
  <2> QED BY <2>3, <2>4, <2>5
<1>5. CASE ApplyFollowUp(p)
  BY <1>2, <1>5, ClaimsSettle DEF ApplyFollowUp
<1>6. CASE ReleaseFollowUp(p)
  BY <1>2, <1>6, ClaimsSettle DEF ReleaseFollowUp
<1>7. CASE DuplicateFollowUp(p)
  BY <1>7 DEF DuplicateFollowUp, Startable, ClaimsHeld
<1>8. CASE GiveUp(p)
  <2>1. /\ follows' = follows
        /\ start[p].pc = "start" /\ start' = [start EXCEPT ![p].pc = "release"]
        /\ source' = source
    BY <1>8 DEF GiveUp, Startable, followdoc, runvars
  <2>2. /\ start'[p].pc = "release" /\ start'[p].item = start[p].item
        /\ start'[p].claim = start[p].claim /\ \A q \in Procs : q = p
    BY <1>1, <2>1 DEF StartRows, OneProcess
  <2>3. Matches(p) /\ ~Started(start[p].item)
    BY <2>1 DEF ClaimsHeld
  <2>4. Matches(p)'
    BY <2>1, <2>2, <2>3 DEF Matches
  <2>5. \A q \in Procs : start'[q].pc \in {"start", "apply", "release"} => Matches(q)'
    BY <2>2, <2>4
  <2>6. \A h \in Follows : follows'[h].status = "claimed" =>
             \E q \in Procs : start'[q].pc \in {"start", "apply", "release"} /\ start'[q].item = h
    BY <2>1, <2>2 DEF ClaimsHeld
  <2>7. (\A q \in Procs : start[q].pc \in {"start", "release"} => ~Started(start[q].item))'
    BY <2>1, <2>2, <2>3 DEF Started
  <2>8. \A h \in Follows : Started(h)' => follows'[h].status \in {"claimed", "applied"}
    BY <2>1 DEF ClaimsHeld, Started
  <2> QED BY <2>5, <2>6, <2>7, <2>8 DEF ClaimsHeld
<1>9. ASSUME NEW r \in Runs, StartFollowUp(p, r)
      PROVE  ClaimsHeld'
  BY <1>9, ClaimsStartFollowUp
<1>10. CASE ClaimNextFollowUp(p)
  BY <1>10, ClaimsClaimNext
<1> QED BY <1>4, <1>5, <1>6, <1>7, <1>8, <1>9, <1>10 DEF Starter

\* A starter that hears of a terminal keeps its item.
LEMMA NotifyMoves ==
    ASSUME QueueTypeOK, NEW p \in Procs, NEW r \in Runs, Notify(p, r)
    PROVE  \A q \in Procs : \/ /\ start'[q].pc = start[q].pc /\ start'[q].item = start[q].item
                               /\ start'[q].claim = start[q].claim
                            \/ /\ start[q].pc \in {"idle", "claim"}
                               /\ start'[q].pc \in {"idle", "claim"}
<1> SUFFICES ASSUME NEW q \in Procs
             PROVE  \/ /\ start'[q].pc = start[q].pc /\ start'[q].item = start[q].item
                       /\ start'[q].claim = start[q].claim
                    \/ /\ start[q].pc \in {"idle", "claim"}
                       /\ start'[q].pc \in {"idle", "claim"}
  OBVIOUS
<1>1. start \in [Procs -> StartRows] /\ start[p] \in StartRows
  BY Types
<1>2. CASE q # p
  BY <1>1, <1>2 DEF Notify
<1>3. CASE q = p /\ start[p].pc = "idle"
  <2>1. start'[p] = [AtRest EXCEPT !.pc = "claim", !.trig = r]
    BY <1>1, <1>3 DEF Notify
  <2> QED BY <1>3, <2>1 DEF AtRest
<1>4. CASE q = p /\ start[p].pc # "idle"
  <2>1. start'[p] = [start[p] EXCEPT !.next = r]
    BY <1>1, <1>4 DEF Notify
  <2> QED BY <1>1, <1>4, <2>1 DEF StartRows
<1> QED BY <1>2, <1>3, <1>4

\* No other step starts a turn or touches a claim.
LEMMA ClaimsOthers ==
    ASSUME QueueIInv, ClaimsHeld,
           \/ EndRun \/ Takeover
           \/ \E r \in Runs : UserTurn(r)
           \/ \E t \in 1..MaxToken : Executor(t)
           \/ \E x \in Steers : \/ \E of \in Follows \cup {None} : ReadForSteer(x, of)
                                \/ EnqueueSteer(x) \/ CancelSteer(x)
           \/ \E f \in Follows : \/ ReadForFollowUp(f) \/ CancelFollowUp(f) \/ Kick(f)
                                 \/ \E p \in Procs : EnqueueFollowUp(p, f)
           \/ \E p \in Procs, r \in Runs : Observe(p, r)
           \/ UNCHANGED vars
    PROVE  ClaimsHeld'
<1> DEFINE StartKept ==
             \A q \in Procs : \/ /\ start'[q].pc = start[q].pc /\ start'[q].item = start[q].item
                                 /\ start'[q].claim = start[q].claim
                              \/ /\ start[q].pc \in {"idle", "claim"}
                                 /\ start'[q].pc \in {"idle", "claim"}
           FollowKept ==
             \A f \in Follows : \/ follows'[f] = follows[f]
                                \/ /\ follows[f].status \notin {"claimed", "applied"}
                                   /\ follows'[f].status # "claimed"
<1>1. ASSUME source' = source, StartKept, FollowKept
      PROVE  ClaimsHeld'
  BY <1>1, ClaimsFrame DEF QueueIInv
<1>2. /\ start' = start => StartKept
      /\ follows' = follows => FollowKept
      /\ \A p \in Procs, r \in Runs : Notify(p, r) => StartKept
  BY NotifyMoves DEF QueueIInv
<1> HIDE DEF StartKept, FollowKept
<1>3. follows \in [Follows -> FollowRows]
  BY Types DEF QueueIInv
<1>4. ASSUME NEW f \in Follows, NEW row, follows' = [follows EXCEPT ![f] = row],
             follows[f].status \in {"none", "accepted"}, row.status # "claimed"
      PROVE  FollowKept
  BY <1>3, <1>4 DEF FollowKept
<1>5. CASE EndRun \/ Takeover \/ UNCHANGED vars
  BY <1>1, <1>2, <1>5 DEF EndRun, Takeover, vars, followdoc, runvars
<1>6. ASSUME NEW r \in Runs, UserTurn(r)
      PROVE  ClaimsHeld'
  <2>1. source \in [Runs -> Follows \cup {None}] /\ source[r] = None
    BY <1>6, Types DEF QueueIInv, RunsOk, UserTurn, Begin
  <2>2. source' = source
    BY <1>6, <2>1 DEF UserTurn, Begin
  <2> QED BY <1>1, <1>2, <1>6, <2>2 DEF UserTurn, followdoc
<1>7. ASSUME NEW t \in 1..MaxToken, Executor(t)
      PROVE  ClaimsHeld'
  <2>1. source' = source /\ start' = start /\ follows' = follows
    BY <1>7 DEF Executor, AskDecision, Answer, SetSteer, Persist, PersistFails, ApplySteer,
                ApplyFails, ClaimNextSteer, NoClaim, runvars, followdoc
  <2> QED BY <1>1, <1>2, <2>1
<1>8. ASSUME NEW x \in Steers, \/ \E of \in Follows \cup {None} : ReadForSteer(x, of)
                               \/ CancelSteer(x)
      PROVE  ClaimsHeld'
  BY <1>1, <1>2, <1>8 DEF ReadForSteer, CancelSteer, followdoc, runvars
<1>9. ASSUME NEW x \in Steers, EnqueueSteer(x)
      PROVE  ClaimsHeld'
  <2>1. source' = source /\ start' = start
    BY <1>9 DEF EnqueueSteer, runvars
  <2>2. CASE seen[x].of = None
    BY <1>1, <1>2, <1>9, <2>1, <2>2 DEF EnqueueSteer
  <2>3. CASE seen[x].of # None
    <3>1. seen[x].of \in Follows /\ follows[seen[x].of].status = "accepted"
      BY <1>9, <2>3, Types DEF EnqueueSteer, QueueIInv, SteersOk
    <3> DEFINE row == [follows[seen[x].of] EXCEPT !.status = "canceled"]
    <3>2. row.status = "canceled"
      BY <1>3, <3>1 DEF FollowRows
    <3>3. follows' = [follows EXCEPT ![seen[x].of] = row]
      BY <1>9, <2>3 DEF EnqueueSteer
    <3> HIDE DEF row
    <3> QED BY <1>1, <1>2, <1>4, <2>1, <3>1, <3>2, <3>3
  <2> QED BY <2>2, <2>3
<1>10. ASSUME NEW f \in Follows, ReadForFollowUp(f)
       PROVE  ClaimsHeld'
  BY <1>1, <1>2, <1>10 DEF ReadForFollowUp, followdoc, runvars
<1>11. ASSUME NEW f \in Follows, Kick(f)
       PROVE  ClaimsHeld'
  <2>1. kick[f] \in Procs /\ follows[f].during \in Runs
    BY <1>11, Types DEF Kick, QueueIInv, FollowsOk
  <2>2. source' = source /\ follows' = follows
    BY <1>11 DEF Kick, followdoc, runvars
  <2>3. start' = start \/ Notify(kick[f], follows[f].during)
    BY <1>11 DEF Kick
  <2> QED BY <1>1, <1>2, <2>1, <2>2, <2>3
<1>12. ASSUME NEW f \in Follows, CancelFollowUp(f)
       PROVE  ClaimsHeld'
  <2> DEFINE row == [follows[f] EXCEPT !.status = "canceled"]
  <2>1. row.status = "canceled"
    BY <1>3 DEF FollowRows
  <2>2. /\ follows' = [follows EXCEPT ![f] = row] /\ follows[f].status = "accepted"
        /\ source' = source /\ start' = start
    BY <1>12 DEF CancelFollowUp, runvars
  <2> HIDE DEF row
  <2> QED BY <1>1, <1>2, <1>4, <2>1, <2>2
<1>13. ASSUME NEW f \in Follows, NEW p \in Procs, EnqueueFollowUp(p, f)
       PROVE  ClaimsHeld'
  <2> DEFINE row == [NoFollow EXCEPT !.status = "accepted", !.during = fseen[f]]
  <2>1. row.status = "accepted" /\ follows[f].status = "none"
    BY <1>13 DEF EnqueueFollowUp, NoFollow, QueueIInv, FollowsOk
  <2>2. follows' = [follows EXCEPT ![f] = row] /\ source' = source /\ start' = start
    BY <1>13 DEF EnqueueFollowUp, runvars
  <2> HIDE DEF row
  <2> QED BY <1>1, <1>2, <1>4, <2>1, <2>2
<1>14. ASSUME NEW p \in Procs, NEW r \in Runs, Observe(p, r)
       PROVE  ClaimsHeld'
  BY <1>1, <1>2, <1>14 DEF Observe, followdoc, runvars
<1> QED BY <1>5, <1>6, <1>7, <1>8, <1>9, <1>10, <1>11, <1>12, <1>13, <1>14

LEMMA ClaimsInductive ==
    ASSUME OneProcess
    PROVE  Spec => [](QueueIInv /\ ClaimsHeld)
<1>1. Init => ClaimsHeld
  BY ClaimsBegin
<1>2. QueueIInv /\ ClaimsHeld /\ [Next]_vars => ClaimsHeld'
  <2>1. ASSUME QueueIInv, ClaimsHeld, NEW p \in Procs, Starter(p)
        PROVE  ClaimsHeld'
    BY <2>1, ClaimsStarter
  <2> QED BY <2>1, ClaimsOthers DEF Next
<1> QED BY <1>1, <1>2, QueueInductive, PTL DEF Spec

\* A turn that starts has its item claimed: one that was withdrawn stays out (StartTurn comes
\* between ClaimNextFollowUp and ApplyFollowUp, and CancelFollowUp takes accepted items only).
LEMMA NoWithdrawnStart ==
    ASSUME QueueIInv, ClaimsHeld, [Next]_vars
    PROVE  NoWithdrawnStarts
<1> SUFFICES ASSUME NEW f \in Follows, follows[f].status = "canceled", ~Started(f)
             PROVE  ~Started(f)'
  BY DEF NoWithdrawnStarts
<1>1. CASE source' = source
  BY <1>1 DEF Started
<1>2. ASSUME NEW r \in Runs, UserTurn(r)
      PROVE  ~Started(f)'
  <2>1. source'[r] = None /\ \A s \in Runs : s # r => source'[s] = source[s]
    BY <1>2, BeginTypes DEF QueueIInv, UserTurn
  <2> QED BY <2>1, QueueAssumption DEF Started
<1>3. ASSUME NEW p \in Procs, NEW r \in Runs, StartFollowUp(p, r)
      PROVE  ~Started(f)'
  <2>1. PICK g \in Follows : g = start[p].item /\ start[p].pc = "start"
    BY <1>3 DEF StartFollowUp, Startable, QueueIInv, StartersOk
  <2>2. g # f
    BY <2>1 DEF ClaimsHeld, Matches
  <2>3. source'[r] = g /\ \A s \in Runs : s # r => source'[s] = source[s]
    BY <1>3, <2>1, BeginTypes DEF QueueIInv, StartFollowUp
  <2> QED BY <2>2, <2>3 DEF Started
<1>4. \/ source' = source \/ \E r \in Runs : UserTurn(r)
      \/ \E p \in Procs, r \in Runs : StartFollowUp(p, r)
  <2>1. ASSUME NEW t \in 1..MaxToken, Executor(t)
        PROVE  source' = source
    BY <2>1 DEF Executor, AskDecision, Answer, SetSteer, Persist, PersistFails, ApplySteer,
                ApplyFails, ClaimNextSteer, NoClaim, runvars
  <2>2. ASSUME NEW p \in Procs, Starter(p), ~\E r \in Runs : StartFollowUp(p, r)
        PROVE  source' = source
    BY <2>2 DEF Starter, ClaimNextFollowUp, RejectFollowUp, DuplicateFollowUp, ApplyFollowUp,
                GiveUp, ReleaseFollowUp, runvars
  <2>3. ASSUME \/ EndRun \/ Takeover
               \/ \E x \in Steers : \/ \E of \in Follows \cup {None} : ReadForSteer(x, of)
                                    \/ EnqueueSteer(x) \/ CancelSteer(x)
               \/ \E g \in Follows : \/ ReadForFollowUp(g) \/ CancelFollowUp(g) \/ Kick(g)
                                     \/ \E p \in Procs : EnqueueFollowUp(p, g)
               \/ \E p \in Procs, r \in Runs : Observe(p, r)
               \/ UNCHANGED vars
        PROVE  source' = source
    BY <2>3 DEF EndRun, Takeover, ReadForSteer, EnqueueSteer, CancelSteer, ReadForFollowUp,
                CancelFollowUp, Kick, EnqueueFollowUp, Observe, runvars, vars
  <2> QED BY <2>1, <2>2, <2>3 DEF Next
<1> QED BY <1>1, <1>2, <1>3, <1>4

\* Served by one process, a follow-up that its user withdrew, or promoted, does not start a
\* turn.  With two processes it can: the run queue_withdrawn.
THEOREM AloneWithdrawnTheorem ==
    ASSUME OneProcess
    PROVE  Spec => WithdrawnStaysOut
<1>1. QueueIInv /\ ClaimsHeld /\ [Next]_vars => [NoWithdrawnStarts]_vars
  BY NoWithdrawnStart
<1> QED BY <1>1, ClaimsInductive, PTL DEF Spec, WithdrawnStaysOut

-----------------------------------------------------------------------------
(* One process, and no run is taken over: no exception is left.            *)

LEMMA OneOwnerStep ==
    ASSUME QueueIInv, InOrder, OneOwner, "takeover" \notin Faults, [Next]_vars
    PROVE  OneOwner'
<1>1. QueueTypeOK
  BY DEF QueueIInv
<1>2. phase \in [Runs -> {"new", "live", "over"}] /\ exec \in [1..MaxToken -> Execs]
  BY <1>1, Types
<1>3. \A t \in 1..MaxToken : exec[t].run \in Runs \cup {None}
  BY <1>2 DEF Execs
<1>4. ASSUME \A t \in 1..MaxToken : exec'[t].run = exec[t].run,
             \A r \in Runs : phase[r] # "new" => phase'[r] # "new"
      PROVE  OneOwner'
  BY <1>3, <1>4 DEF OneOwner, TakenOver
<1>5. ASSUME NEW r \in Runs, NEW f \in Follows \cup {None}, Begin(r, f)
      PROVE  OneOwner'
  <2>1. /\ phase[r] = "new" /\ phase'[r] = "live" /\ Drawn + 1 \in 1..MaxToken
        /\ exec'[Drawn + 1].run = r
        /\ \A t \in 1..MaxToken : t # Drawn + 1 => exec'[t] = exec[t]
        /\ \A s \in Runs : s # r => phase'[s] = phase[s]
    BY <1>1, <1>5, BeginTypes DEF Begin
  <2>2. \A t \in 1..MaxToken : exec[t].run # r
    BY <2>1, QueueAssumption DEF OneOwner
  <2>3. \A t \in 1..MaxToken : exec'[t].run # None => phase'[exec'[t].run] # "new"
    BY <1>3, <2>1, <2>2 DEF OneOwner
  <2>4. ASSUME NEW s \in Runs, NEW t \in 1..MaxToken, NEW u \in 1..MaxToken,
               t # u, exec'[t].run = s, exec'[u].run = s
        PROVE  FALSE
    <3>1. CASE s = r
      <4>1. t = Drawn + 1 /\ u = Drawn + 1
        BY <2>1, <2>2, <2>4, <3>1
      <4> QED BY <2>4, <4>1
    <3>2. CASE s # r
      <4>1. exec[t].run = s /\ exec[u].run = s
        BY <2>1, <2>4, <3>2
      <4> QED BY <2>4, <4>1 DEF OneOwner, TakenOver
    <3> QED BY <3>1, <3>2
  <2> QED BY <2>3, <2>4 DEF OneOwner, TakenOver
<1>6. ~Takeover
  BY DEF Takeover
<1>7. ASSUME ~\E r \in Runs, f \in Follows \cup {None} : Begin(r, f)
      PROVE  \A r \in Runs : phase[r] # "new" => phase'[r] # "new"
  <2>1. \/ phase' = phase \/ EndRun
    <3>1. ASSUME NEW p \in Procs, NEW r \in Runs, StartFollowUp(p, r)
          PROVE  FALSE
      BY <1>7, <3>1 DEF StartFollowUp, Startable, QueueIInv, StartersOk
    <3>2. ASSUME NEW r \in Runs, UserTurn(r)
          PROVE  FALSE
      BY <1>7, <3>2 DEF UserTurn
    <3>3. ASSUME NEW t \in 1..MaxToken, Executor(t)
          PROVE  phase' = phase
      BY <3>3 DEF Executor, AskDecision, Answer, SetSteer, Persist, PersistFails, ApplySteer,
                  ApplyFails, ClaimNextSteer, NoClaim, runvars
    <3>4. ASSUME NEW p \in Procs, Starter(p)
          PROVE  phase' = phase
      BY <3>1, <3>4 DEF Starter, ClaimNextFollowUp, RejectFollowUp, DuplicateFollowUp,
                        ApplyFollowUp, GiveUp, ReleaseFollowUp, runvars
    <3>5. ASSUME \/ \E x \in Steers : \/ \E of \in Follows \cup {None} : ReadForSteer(x, of)
                                      \/ EnqueueSteer(x) \/ CancelSteer(x)
                 \/ \E g \in Follows : \/ ReadForFollowUp(g) \/ CancelFollowUp(g) \/ Kick(g)
                                       \/ \E p \in Procs : EnqueueFollowUp(p, g)
                 \/ \E p \in Procs, r \in Runs : Observe(p, r)
                 \/ UNCHANGED vars
          PROVE  phase' = phase
      BY <3>5 DEF ReadForSteer, EnqueueSteer, CancelSteer, ReadForFollowUp, CancelFollowUp,
                  Kick, EnqueueFollowUp, Observe, runvars, vars
    <3> QED BY <1>6, <3>2, <3>3, <3>4, <3>5 DEF Next
  <2>2. CASE EndRun
    BY <1>2, <2>2 DEF EndRun
  <2> QED BY <2>1, <2>2
<1> QED BY <1>4, <1>5, <1>6, <1>7, StepsOfRuns

\* Served by one process that loses no waiting run, no input enters the history twice, with
\* no exception left, and no claim waits across a decision.
THEOREM AloneEntersOnceTheorem ==
    ASSUME ServedAlone
    PROVE  Spec => [](InputEntersOnce /\ NoClaimAcrossDecision)
<1>1. Init => OneOwner
  <2> SUFFICES ASSUME Init PROVE OneOwner
    OBVIOUS
  <2>1. \A t \in 1..MaxToken : exec[t].run = None
    BY DEF Init, NoExec
  <2> QED BY <2>1, QueueAssumption DEF OneOwner, TakenOver
<1>2. QueueIInv /\ EntersIInv /\ OneOwner /\ [Next]_vars => OneOwner'
  BY OneOwnerStep DEF EntersIInv, ServedAlone
<1>3. QueueIInv /\ EntersIInv /\ ClaimsHeld /\ OneOwner
          => InputEntersOnce /\ NoClaimAcrossDecision
  <2> SUFFICES ASSUME QueueIInv, EntersIInv, ClaimsHeld, OneOwner
               PROVE  InputEntersOnce /\ NoClaimAcrossDecision
    OBVIOUS
  <2>1. ClaimsConsumedOnce
    BY ConsumedOnce
  <2>2. ASSUME NEW i \in Inputs, Started(i), NEW x \in SteeredAs(i)
        PROVE  FALSE
    <3>1. x \in Steers /\ steers[x].status # "none" /\ steers[x].input = i
      BY <2>2 DEF SteeredAs
    <3>2. i \in Follows
      BY <2>2, Types, QueueAssumption DEF Started, QueueIInv, Inputs
    <3>3. follows[i].status = "canceled"
      BY <3>1, <3>2, QueueAssumption DEF EntersIInv, InputsApart
    <3> QED BY <2>2, <3>2, <3>3 DEF ClaimsHeld
  <2>3. \A i \in Inputs : entered[i] \in Nat
    BY Types DEF QueueIInv
  <2>4. InputEntersOnce
    BY <2>1, <2>2, <2>3 DEF ClaimsConsumedOnce, EntersOnce, InputEntersOnce, OneOwner
  <2>5. NoClaimAcrossDecision
    BY <2>1 DEF ClaimsConsumedOnce, ParkedHoldsNoClaim, NoClaimAcrossDecision, OneOwner
  <2> QED BY <2>4, <2>5
<1>4. Spec => [](QueueIInv /\ ClaimsHeld)
  BY ClaimsInductive DEF ServedAlone
<1> QED BY <1>1, <1>2, <1>3, <1>4, EntersInductive, PTL DEF Spec

-----------------------------------------------------------------------------
(* One process and one follow-up: it is not left behind.                   *)

\* A run is live, or its end is still to be observed.
Ahead == view.run # None \/ \E r \in Runs : phase[r] = "over" /\ obs[r] = 0

\* Something will try a pending item again: the end of a run, the recheck after its
\* admission, or the starter, which gave it back only because the session was busy.
Draining ==
    /\ \A f \in Follows : follows[f].status = "accepted" =>
         Ahead \/ kick[f] # None \/ \E p \in Procs : start[p].pc # "idle"
    /\ \A p \in Procs : start[p].pc = "release" => Ahead \/ start[p].next # None

OneFollowUp == \A f, g \in Follows : f = g

\* A starter that hears of a terminal is not idle, or will turn to it.
LEMMA NotifyWakes ==
    ASSUME QueueTypeOK, OneProcess, NEW p \in Procs, NEW r \in Runs, Notify(p, r)
    PROVE  /\ start'[p].pc # "idle"
           /\ \A q \in Procs : start'[q].pc = "release" => start'[q].next # None
<1>1. start \in [Procs -> StartRows] /\ start[p] \in StartRows /\ r # None
  BY Types, QueueAssumption
<1>2. CASE start[p].pc = "idle"
  <2>1. start'[p].pc = "claim"
    BY <1>1, <1>2 DEF Notify, AtRest
  <2> QED BY <2>1 DEF OneProcess
<1>3. CASE start[p].pc # "idle"
  <2>1. start'[p].pc = start[p].pc /\ start'[p].next = r
    BY <1>1, <1>3 DEF Notify, StartRows
  <2> QED BY <1>1, <1>3, <2>1 DEF OneProcess
<1> QED BY <1>2, <1>3

\* A step that neither wakes nor stops the starter, and leaves no more items pending.
LEMMA DrainingFrame ==
    ASSUME Draining, Ahead => Ahead', UNCHANGED <<start, kick>>,
           \A f \in Follows : follows'[f].status = "accepted" => follows[f].status = "accepted"
    PROVE  Draining'
BY DEF Draining

\* A run's end is ahead of its observation.
LEMMA AheadFrame ==
    ASSUME QueueIInv,
           \/ UNCHANGED <<phase, view, obs>>
           \/ view'.run = view.run /\ UNCHANGED <<phase, obs>>
           \/ EndRun
           \/ \E r \in Runs, f \in Follows \cup {None} : Begin(r, f)
    PROVE  Ahead => Ahead'
<1>1. CASE UNCHANGED <<phase, view, obs>> \/ (view'.run = view.run /\ UNCHANGED <<phase, obs>>)
  BY <1>1 DEF Ahead
<1>2. CASE EndRun
  <2>1. PICK r \in Runs : r = view.run
    BY <1>2, ViewTyped DEF EndRun, QueueIInv
  <2>2. phase[r] = "live" /\ obs[r] = 0
    BY <1>2, <2>1 DEF QueueIInv, RunsOk, EndRun
  <2>3. phase'[r] = "over" /\ obs'[r] = 0
    BY <1>2, <2>1, <2>2, Types DEF EndRun, QueueIInv
  <2> QED BY <2>3 DEF Ahead
<1>3. ASSUME NEW r \in Runs, NEW f \in Follows \cup {None}, Begin(r, f)
      PROVE  Ahead'
  <2>1. view'.run = r
    BY <1>3, BeginTypes DEF QueueIInv
  <2> QED BY <2>1, QueueAssumption DEF Ahead
<1> QED BY <1>1, <1>2, <1>3

\* The one item, when a claim of it is settled: only a release leaves it pending.
LEMMA DrainingSettle ==
    ASSUME QueueIInv, ClaimsHeld, Draining, OneProcess, OneFollowUp, NEW p \in Procs,
           NEW status \in {"rejected", "applied", "accepted"}, NEW then,
           Settle(p, status, then), UNCHANGED runvars,
           start[p].pc \in {"start", "apply", "release"},
           status = "accepted" => start[p].pc = "release" /\ then = Proceed(start[p]),
           then.pc \in {"idle", "claim"}
    PROVE  Draining'
<1>1. PICK f \in Follows : f = start[p].item
  BY DEF QueueIInv, StartersOk
<1>2. Matches(p) /\ follows[f].status = "claimed"
  BY <1>1 DEF ClaimsHeld, Matches
<1>3. /\ start \in [Procs -> StartRows] /\ follows \in [Follows -> FollowRows]
      /\ follows[f] \in FollowRows
  BY Types DEF QueueIInv
<1>4. /\ follows' = [follows EXCEPT ![f].status = status] /\ start' = [start EXCEPT ![p] = then]
      /\ UNCHANGED <<phase, view, obs, kick>>
  BY <1>1, <1>2 DEF Settle, runvars
<1>5. follows'[f].status = status /\ start'[p] = then /\ \A q \in Procs : q = p
  BY <1>3, <1>4 DEF FollowRows, OneProcess
<1>6. \A q \in Procs : start'[q].pc # "release"
  BY <1>5
<1>7. ASSUME NEW g \in Follows, follows'[g].status = "accepted"
      PROVE  Ahead' \/ start'[p].pc # "idle"
  <2>1. status = "accepted"
    BY <1>5, <1>7 DEF OneFollowUp
  <2>2. Ahead \/ start[p].next # None
    BY <2>1 DEF Draining
  <2>3. CASE Ahead
    BY <1>4, <2>3 DEF Ahead
  <2>4. CASE start[p].next # None
    BY <1>5, <2>1, <2>4 DEF Proceed, AtRest
  <2> QED BY <2>2, <2>3, <2>4
<1> QED BY <1>6, <1>7 DEF Draining

LEMMA DrainingStarter ==
    ASSUME QueueIInv, ClaimsHeld, Draining, OneProcess, OneFollowUp, "refused" \notin Faults,
           NEW p \in Procs, Starter(p)
    PROVE  Draining'
<1> DEFINE again == [start[p] EXCEPT !.pc = "claim", !.item = None, !.claim = 0]
<1>1. start \in [Procs -> StartRows] /\ start[p] \in StartRows
  BY Types DEF QueueIInv
<1>2. Proceed(start[p]).pc \in {"idle", "claim"} /\ again.pc = "claim"
  BY <1>1, ProceedRow DEF QueueIInv, StartRows
<1> HIDE DEF again
<1>3. CASE RejectFollowUp(p)
  <2>1. start[p].pc = "start" /\ UNCHANGED runvars
    BY <1>3 DEF RejectFollowUp
  <2>2. PICK unreadable \in BOOLEAN :
          Settle(p, "rejected", IF unreadable /\ Matches(p) THEN again ELSE Proceed(start[p]))
    BY <1>3 DEF RejectFollowUp, again
  <2>3. Settle(p, "rejected", again) \/ Settle(p, "rejected", Proceed(start[p]))
    BY <2>2, Zenon
  <2>4. CASE Settle(p, "rejected", again)
    BY <1>2, <2>1, <2>4, DrainingSettle
  <2>5. CASE Settle(p, "rejected", Proceed(start[p]))
    BY <1>2, <2>1, <2>5, DrainingSettle
  <2> QED BY <2>3, <2>4, <2>5
<1>4. CASE ApplyFollowUp(p)
  BY <1>2, <1>4, DrainingSettle DEF ApplyFollowUp
<1>5. CASE ReleaseFollowUp(p)
  BY <1>2, <1>5, DrainingSettle DEF ReleaseFollowUp
<1>6. CASE DuplicateFollowUp(p) \/ GiveUp(p)
  <2>1. /\ UNCHANGED <<phase, view, obs, kick>> /\ follows' = follows /\ start[p].pc = "start"
        /\ start' = [start EXCEPT ![p].pc = IF GiveUp(p) THEN "release" ELSE "apply"]
    BY <1>6 DEF DuplicateFollowUp, GiveUp, Startable, runvars, followdoc
  <2>2. start[p].item \in Follows /\ follows[start[p].item].status = "claimed"
    BY <2>1 DEF QueueIInv, StartersOk, ClaimsHeld, Matches
  <2>3. \A f \in Follows : follows'[f].status # "accepted"
    BY <2>1, <2>2 DEF OneFollowUp
  <2>4. GiveUp(p) => Ahead'
    BY <2>1 DEF GiveUp, BusyFor, Ahead
  <2>5. \A q \in Procs : start'[q].pc = "release" => GiveUp(p)
    BY <1>1, <2>1 DEF OneProcess
  <2> QED BY <2>3, <2>4, <2>5 DEF Draining
<1>7. ASSUME NEW r \in Runs, StartFollowUp(p, r)
      PROVE  Draining'
  <2>1. start[p].item \in Follows
    BY <1>7 DEF StartFollowUp, Startable, QueueIInv, StartersOk
  <2>2. view'.run = r
    BY <1>7, <2>1, BeginTypes DEF StartFollowUp, QueueIInv
  <2>3. Ahead'
    BY <2>2, QueueAssumption DEF Ahead
  <2> QED BY <2>3 DEF Draining
<1>8. CASE ClaimNextFollowUp(p)
  <2>1. start[p].pc = "claim" /\ UNCHANGED <<phase, view, obs>>
    BY <1>8 DEF ClaimNextFollowUp, runvars
  <2>2. PICK r \in Runs : r = start[p].trig
    BY <2>1 DEF QueueIInv, StartersOk
  <2>3. follows \in [Follows -> FollowRows] /\ trigger \in [Runs -> Follows \cup {None}]
    BY Types DEF QueueIInv
  <2>4. /\ start'[p].pc # "release"
        /\ \A g \in Follows : follows'[g].status # "accepted"
    <3>1. CASE trigger[r] # None
      <4>1. trigger[r] \in Follows /\ follows[trigger[r]].status \in {"claimed", "applied"}
        BY <2>3, <3>1 DEF QueueIInv, FollowsOk, ClaimIndexed
      <4>2. follows' = follows
        BY <1>8, <2>2, <3>1 DEF ClaimNextFollowUp, ClaimedFor, followdoc
      <4>3. \/ start' = [start EXCEPT ![p] = Proceed(@)]
            \/ \E g, n : start' = [start EXCEPT ![p] =
                                      [@ EXCEPT !.pc = "start", !.item = g, !.claim = n]]
        BY <1>8, <2>2, <3>1 DEF ClaimNextFollowUp, ClaimedFor
      <4>4. start'[p].pc # "release"
        BY <1>1, <1>2, <4>3 DEF StartRows
      <4> QED BY <4>1, <4>2, <4>4 DEF OneFollowUp
    <3>2. ASSUME trigger[r] = None, NEW g \in Pending(follows),
                 follows' = [follows EXCEPT ![g].status = "claimed", ![g].trig = r,
                                            ![g].claim = @ + 1],
                 start' = [start EXCEPT ![p] = [@ EXCEPT !.pc = "start", !.item = g,
                                                         !.claim = follows[g].claim + 1]]
          PROVE  /\ start'[p].pc # "release"
                 /\ \A h \in Follows : follows'[h].status # "accepted"
      <4>1. g \in Follows /\ follows[g] \in FollowRows
        BY <2>3 DEF Pending
      <4>2. follows'[g].status = "claimed"
        BY <2>3, <3>2, <4>1 DEF FollowRows
      <4>3. start'[p].pc = "start"
        BY <1>1, <3>2 DEF StartRows
      <4> QED BY <4>1, <4>2, <4>3 DEF OneFollowUp
    <3>3. CASE /\ trigger[r] = None /\ Pending(follows) = {} /\ UNCHANGED followdoc
               /\ start' = [start EXCEPT ![p] = Proceed(@)]
      <4>1. \A g \in Follows : follows'[g].status # "accepted"
        BY <2>3, <3>3 DEF Pending, followdoc
      <4>2. start'[p].pc # "release"
        BY <1>1, <1>2, <3>3
      <4> QED BY <4>1, <4>2
    <3> QED BY <1>8, <2>2, <3>1, <3>2, <3>3 DEF ClaimNextFollowUp, ClaimedFor
  <2> QED BY <2>4 DEF Draining, OneProcess
<1> QED BY <1>3, <1>4, <1>5, <1>6, <1>7, <1>8 DEF Starter

LEMMA DrainingOthers ==
    ASSUME QueueIInv, Draining, OneProcess, OneFollowUp,
           \/ EndRun \/ Takeover
           \/ \E r \in Runs : UserTurn(r)
           \/ \E t \in 1..MaxToken : Executor(t)
           \/ \E x \in Steers : \/ \E of \in Follows \cup {None} : ReadForSteer(x, of)
                                \/ EnqueueSteer(x) \/ CancelSteer(x)
           \/ \E f \in Follows : \/ ReadForFollowUp(f) \/ CancelFollowUp(f) \/ Kick(f)
                                 \/ \E p \in Procs : EnqueueFollowUp(p, f)
           \/ \E p \in Procs, r \in Runs : Observe(p, r)
           \/ UNCHANGED vars
    PROVE  Draining'
<1>1. QueueTypeOK /\ view \in Views /\ follows \in [Follows -> FollowRows]
  BY ViewTyped, Types DEF QueueIInv
<1>2. ASSUME NEW p \in Procs, NEW r \in Runs, Notify(p, r)
      PROVE  Draining'
  BY <1>1, <1>2, NotifyWakes DEF Draining
<1>3. ASSUME NEW p \in Procs, NEW r \in Runs, Observe(p, r)
      PROVE  Draining'
  BY <1>2, <1>3 DEF Observe
<1>4. ASSUME NEW f \in Follows, Kick(f)
      PROVE  Draining'
  <2>1. kick[f] \in Procs /\ follows[f].during \in Runs
    BY <1>4, Types DEF Kick, QueueIInv, FollowsOk
  <2>2. CASE view.run = None
    BY <1>2, <1>4, <2>1, <2>2 DEF Kick
  <2>3. CASE view.run # None
    <3>1. Ahead'
      BY <1>4, <2>3 DEF Kick, runvars, Ahead
    <3> QED BY <3>1 DEF Draining
  <2> QED BY <2>2, <2>3
<1>5. ASSUME NEW f \in Follows, NEW p \in Procs, EnqueueFollowUp(p, f)
      PROVE  Draining'
  <2>1. /\ kick' = [kick EXCEPT ![f] = p] /\ start' = start /\ UNCHANGED <<phase, view, obs>>
        /\ kick \in [Follows -> Procs \cup {None}]
    BY <1>5, Types DEF EnqueueFollowUp, runvars, QueueIInv
  <2>2. \A g \in Follows : kick'[g] # None
    BY <2>1, QueueAssumption DEF OneFollowUp
  <2>3. Ahead' <=> Ahead
    BY <2>1 DEF Ahead
  <2> QED BY <2>1, <2>2, <2>3 DEF Draining
<1>6. ASSUME \/ EndRun \/ Takeover
             \/ \E r \in Runs : UserTurn(r)
             \/ \E t \in 1..MaxToken : Executor(t)
             \/ \E x \in Steers : \/ \E of \in Follows \cup {None} : ReadForSteer(x, of)
                                  \/ EnqueueSteer(x) \/ CancelSteer(x)
             \/ \E f \in Follows : ReadForFollowUp(f) \/ CancelFollowUp(f)
             \/ UNCHANGED vars
      PROVE  Ahead => Ahead'
  <2>1. ASSUME NEW r \in Runs, UserTurn(r)
        PROVE  \E f \in Follows \cup {None} : Begin(r, f)
    BY <2>1 DEF UserTurn
  <2>2. ASSUME NEW t \in 1..MaxToken, Executor(t)
        PROVE  view'.run = view.run /\ UNCHANGED <<phase, obs>>
    BY <1>1, <2>2 DEF Executor, AskDecision, Answer, SetSteer, Persist, PersistFails, ApplySteer,
                      ApplyFails, ClaimNextSteer, NoClaim, runvars, Views
  <2>3. CASE Takeover
    BY <1>1, <2>3, AheadFrame DEF Takeover, Views
  <2>4. ASSUME \/ \E x \in Steers : \/ \E of \in Follows \cup {None} : ReadForSteer(x, of)
                                    \/ EnqueueSteer(x) \/ CancelSteer(x)
               \/ \E f \in Follows : ReadForFollowUp(f) \/ CancelFollowUp(f)
               \/ UNCHANGED vars
        PROVE  UNCHANGED <<phase, view, obs>>
    BY <2>4 DEF ReadForSteer, EnqueueSteer, CancelSteer, ReadForFollowUp, CancelFollowUp,
                runvars, vars
  <2> QED BY <1>6, <2>1, <2>2, <2>3, <2>4, AheadFrame
<1>7. ASSUME \/ EndRun \/ Takeover
             \/ \E r \in Runs : UserTurn(r)
             \/ \E t \in 1..MaxToken : Executor(t)
             \/ \E x \in Steers : \/ \E of \in Follows \cup {None} : ReadForSteer(x, of)
                                  \/ EnqueueSteer(x) \/ CancelSteer(x)
             \/ \E f \in Follows : ReadForFollowUp(f) \/ CancelFollowUp(f)
             \/ UNCHANGED vars
      PROVE  UNCHANGED <<start, kick>>
  BY <1>7 DEF EndRun, Takeover, UserTurn, Executor, AskDecision, Answer, SetSteer, Persist,
              PersistFails, ApplySteer, ApplyFails, ClaimNextSteer, NoClaim, ReadForSteer,
              EnqueueSteer, CancelSteer, ReadForFollowUp, CancelFollowUp, vars
<1>8. ASSUME NEW f \in Follows, CancelFollowUp(f)
      PROVE  \A g \in Follows : follows'[g].status = "accepted" => follows[g].status = "accepted"
  BY <1>1, <1>8 DEF CancelFollowUp, FollowRows
<1>9. ASSUME NEW x \in Steers, EnqueueSteer(x)
      PROVE  \A g \in Follows : follows'[g].status = "accepted" => follows[g].status = "accepted"
  BY <1>1, <1>9 DEF EnqueueSteer, FollowRows
<1>10. ASSUME \/ EndRun \/ Takeover
              \/ \E r \in Runs : UserTurn(r)
              \/ \E t \in 1..MaxToken : Executor(t)
              \/ \E x \in Steers : \/ \E of \in Follows \cup {None} : ReadForSteer(x, of)
                                   \/ CancelSteer(x)
              \/ \E f \in Follows : ReadForFollowUp(f)
              \/ UNCHANGED vars
       PROVE  follows' = follows
  BY <1>10 DEF EndRun, Takeover, UserTurn, Executor, AskDecision, Answer, SetSteer, Persist,
               PersistFails, ApplySteer, ApplyFails, ClaimNextSteer, NoClaim, ReadForSteer,
               CancelSteer, ReadForFollowUp, vars, followdoc
<1> QED BY <1>3, <1>4, <1>5, <1>6, <1>7, <1>8, <1>9, <1>10, DrainingFrame

\* Served by one process, with one item, and no start refused for another reason than a busy
\* session: the item does not wait in a session at rest (Notify keeps the terminal that came
\* while the starter worked, and kickFollowUpIfIdle rechecks the view after an admission).
THEOREM AloneDrainsTheorem ==
    ASSUME OneProcess, OneFollowUp, "refused" \notin Faults
    PROVE  Spec => []QuietMeansDrained
<1>1. Init => Draining
  BY DEF Init, Draining, NoFollow, AtRest
<1>2. QueueIInv /\ ClaimsHeld /\ Draining /\ [Next]_vars => Draining'
  <2>1. ASSUME QueueIInv, ClaimsHeld, Draining, NEW p \in Procs, Starter(p)
        PROVE  Draining'
    BY <2>1, DrainingStarter
  <2> QED BY <2>1, DrainingOthers DEF Next
<1>3. QueueIInv /\ Draining => QuietMeansDrained
  <2> SUFFICES ASSUME QueueIInv, Draining, Quiet, NEW f \in Pending(follows) PROVE FALSE
    BY DEF QuietMeansDrained
  <2>1. f \in Follows /\ follows[f].status = "accepted"
    BY Types DEF Pending, QueueIInv
  <2> QED BY <2>1 DEF Draining, Quiet, Ahead
<1> QED BY <1>1, <1>2, <1>3, ClaimsInductive, PTL DEF Spec
=============================================================================
