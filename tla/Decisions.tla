---------------------------- MODULE Decisions ----------------------------
(***************************************************************************)
(* One parked run, the requests (tool approvals, questions) it waits for,  *)
(* and the users' responses to them.  A response is a call on any server   *)
(* process: it is answered from a stored result, or resolved against the   *)
(* request row and the run row, routed to the owner as a command over      *)
(* Redis Pub/Sub, committed there under the run's token and continued.     *)
(*   internal/agent/runtime/session/commands.go, manager.go (command loop) *)
(*   internal/agent/application/runtime_decision*.go,                      *)
(*   service_tool_approval.go, service_user_input.go                       *)
(*   internal/agent/decision, db/postgres/queries/tool_approval.sql        *)
(*                                                                         *)
(* Abstractions.  Approvals and questions follow the same protocol and are *)
(* one kind of request; a response carries a control id (the client's      *)
(* retry identity) and an answer, which stands for its payload hash.  The  *)
(* generation of a reservation is its fencing token.  The producer of the  *)
(* run has committed its step, so a continuation need not wait for it.     *)
(* Authorisation, inline (in-process) waiters and the text of results are  *)
(* left out; the output a response streams back is DecisionOutput.         *)
(***************************************************************************)
EXTENDS Naturals, FiniteSets

CONSTANTS Servers,         \* server processes
          Requests,        \* the requests the run is parked on
          Controls,        \* control ids of clients
          Calls,           \* response calls
          None,            \* no value
          MaxToken,        \* bound: tokens drawn by recoveries
          CommandWorkers,  \* commands the loop holds: its workers and the buffer before them
          Faults,          \* subset of the faults below
          MaxFaults        \* bound: kinds of faults in one behaviour

Answers == {"approve", "reject"}
Outcomes == {"applied", "replayed", "refused", "conflict", "failed", "unknown"}
AllFaults == {"crash", "partition", "abort", "timeout", "resultlost", "unsure"}
Ids == Requests \X Controls           \* decisionControlCommandID
Tokens == 1..MaxToken

ASSUME DecisionsAssumption ==
    /\ MaxToken \in Nat \ {0} /\ MaxFaults \in Nat /\ CommandWorkers \in Nat \ {0}
    /\ Servers # {} /\ Requests # {} /\ Faults \subseteq AllFaults
    /\ None \notin Servers \cup Requests \cup Controls \cup Calls \cup Answers \cup Outcomes
    /\ "routed" \notin Calls

VARIABLES
    row,     \* row[d]: the request row
    run,     \* the run row: state, token, abort intent, continuation checkpoints
    up,      \* the server processes that run
    own,     \* own[p]: token under which p holds the run's control, 0 if none
    ref,     \* the run reference in Redis
    net,     \* commands and replies published and not yet received
    adm,     \* adm[p]: commands admitted by p's command loop
    exec,    \* exec[p]: commands p executes, by id (commandExecutions)
    res,     \* res[i]: the answer of the stored result, or None
    call,    \* call[c]: a response call
    cont,    \* cont[p][d]: the continuation of request d at p
    fin,     \* fin[p]: token of the run p is finishing, 0 if none
    ran,     \* ran[d]: how often the approved tool was invoked
    spent    \* the kinds of faults that happened

dvars == <<row, run, up, own, ref, net, adm, exec, res, call, cont, fin, ran, spent>>

NoExec == [pc |-> "no", tok |-> 0, a |-> None, via |-> None]
NoCont == [pc |-> "no", tok |-> 0]
Command == [kind: {"cmd", "follow"}, id: Ids, a: Answers, tok: Tokens, re: Servers, to: Servers]
Reply == [kind: {"reply"}, id: Ids, a: Answers, ok: BOOLEAN, to: Servers]

DecisionsTypeOK ==
    /\ row \in [Requests -> [st: {"pending", "decided", "cancelled"}, ans: Answers \cup {None},
                             ctl: Controls \cup {None}, tok: Tokens]]
    /\ run \in [st: {"waiting", "running", "ended"}, tok: Tokens, abort: BOOLEAN,
                phase: [Requests -> {"none", "accepted", "executing"}]]
    /\ up \subseteq Servers
    /\ own \in [Servers -> 0..MaxToken]
    /\ ref \in [srv: Servers, tok: Tokens] \cup {None}
    /\ net \subseteq Command \cup Reply
    /\ adm \in [Servers -> [Ids -> Command \cup {None}]]
    /\ exec \in [Servers -> [Ids -> [pc: {"no", "check", "commit", "store"}, tok: 0..MaxToken,
                                     a: Answers \cup {None}, via: Calls \cup {"routed", None}]]]
    /\ res \in [Ids -> Answers \cup {None}]
    /\ call \in [Calls -> [pc: {"idle", "row", "run", "ref", "lead", "follow", "wait", "done"},
                           srv: Servers \cup {None}, d: Requests \cup {None}, k: Controls \cup {None},
                           a: Answers \cup {None}, tok: 0..MaxToken, to: Servers \cup {None},
                           out: Outcomes \cup {None}]]
    /\ cont \in [Servers -> [Requests -> [pc: {"no", "ready", "tool", "model"}, tok: 0..MaxToken]]]
    /\ fin \in [Servers -> 0..MaxToken]
    /\ ran \in [Requests -> Nat]
    /\ spent \subseteq Faults

DecisionsInit ==
    \E p \in Servers :
        /\ row = [d \in Requests |-> [st |-> "pending", ans |-> None, ctl |-> None, tok |-> 1]]
        /\ run = [st |-> "waiting", tok |-> 1, abort |-> FALSE, phase |-> [d \in Requests |-> "none"]]
        /\ up = Servers
        /\ own = [q \in Servers |-> IF q = p THEN 1 ELSE 0]
        /\ ref = [srv |-> p, tok |-> 1]
        /\ net = {}
        /\ adm = [q \in Servers |-> [i \in Ids |-> None]]
        /\ exec = [q \in Servers |-> [i \in Ids |-> NoExec]]
        /\ res = [i \in Ids |-> None]
        /\ call = [c \in Calls |-> [pc |-> "idle", srv |-> None, d |-> None, k |-> None,
                                    a |-> None, tok |-> 0, to |-> None, out |-> None]]
        /\ cont = [q \in Servers |-> [d \in Requests |-> NoCont]]
        /\ fin = [q \in Servers |-> 0]
        /\ ran = [d \in Requests |-> 0]
        /\ spent = {}

\* A fault of kind f; at most MaxFaults kinds in one behaviour.
Strikes(f) ==
    /\ f \in Faults
    /\ f \in spent \/ Cardinality(spent) < MaxFaults
    /\ spent' = spent \cup {f}
-----------------------------------------------------------------------------
(* The call: StreamDecisionResponse / RouteDecisionResponse *)

IdOf(c) == <<call[c].d, call[c].k>>
Done(c, out) == call' = [call EXCEPT ![c].pc = "done", ![c].out = out]
Goto(c, pc) == call' = [call EXCEPT ![c].pc = pc]
\* commandResultErrorFor: a result answers the caller whose payload it was given for.
AnswerOf(c, a) == IF a = call[c].a THEN "replayed" ELSE "conflict"
AppliedOr(c, a) == IF a = call[c].a THEN "applied" ELSE "conflict"

\* A client names its response; a stored result answers it before anything is looked up.
Respond(c, p, d, k, a) ==
    /\ call[c].pc = "idle" /\ p \in up
    /\ call' = [call EXCEPT ![c] =
         [pc |-> IF res[<<d, k>>] = None THEN "row" ELSE "done", srv |-> p, d |-> d, k |-> k, a |-> a,
          tok |-> 0, to |-> None,
          out |-> IF res[<<d, k>>] = None THEN None
                  ELSE IF res[<<d, k>>] = a THEN "replayed" ELSE "conflict"]]
    /\ UNCHANGED <<row, run, up, own, ref, net, adm, exec, res, cont, fin, ran>>

\* ResolveRuntimeDecision: the request row decides what is known already.
ReadRow(c) ==
    LET r == row[call[c].d] IN
    /\ call[c].pc = "row"
    /\ IF r.ctl # None /\ r.ctl = call[c].k THEN Done(c, AnswerOf(c, r.ans))
       ELSE IF r.st # "pending" THEN Done(c, "refused")
       ELSE call' = [call EXCEPT ![c].pc = "run", ![c].tok = r.tok]
    /\ UNCHANGED <<row, run, up, own, ref, net, adm, exec, res, cont, fin, ran>>

\* CancelPendingForRun: the pending requests of a run, under the token it ended with.
CancelledFor(t) == [d \in Requests |-> IF row[d].st = "pending" /\ row[d].tok = t
                                       THEN [row[d] EXCEPT !.st = "cancelled"] ELSE row[d]]

\* The run row: only a run that waits under the request's token takes an answer.
ReadRun(c) ==
    /\ call[c].pc = "run"
    /\ CASE run.tok # call[c].tok -> Done(c, "failed") /\ UNCHANGED row
         [] run.tok = call[c].tok /\ run.st = "ended" -> Done(c, "refused") /\ row' = CancelledFor(run.tok)
         [] run.tok = call[c].tok /\ run.st = "running" -> Done(c, "refused") /\ UNCHANGED row
         [] OTHER -> Goto(c, "ref") /\ UNCHANGED row
    /\ UNCHANGED <<run, up, own, ref, net, adm, exec, res, cont, fin, ran>>

\* Mutant: a command is published again without the owner's address.
CommandUnaddressed(c) == [kind |-> "cmd", id |-> IdOf(c), a |-> call[c].a, tok |-> call[c].tok,
                          re |-> call[c].srv, to |-> None]

CommandOf(c) == [kind |-> "cmd", id |-> IdOf(c), a |-> call[c].a, tok |-> call[c].tok,
                 re |-> call[c].srv, to |-> call[c].to]

\* beginCommandExecution in the caller's process: it leads, follows the execution of its
\* id, or finds the result.
RunHere(c) ==
    LET p == call[c].srv  i == IdOf(c) IN
    IF exec[p][i] # NoExec THEN Goto(c, "follow") /\ UNCHANGED exec
    ELSE IF res[i] # None THEN Done(c, AppliedOr(c, res[i])) /\ UNCHANGED exec
    ELSE /\ Goto(c, "lead")
         /\ exec' = [exec EXCEPT ![p][i] = [pc |-> "check", tok |-> ref.tok, a |-> call[c].a, via |-> c]]

\* dispatchRemoteCommand: publishing fails when nobody subscribes to the owner's channel.
SendTo(c, q) ==
    IF q \in up
    THEN /\ call' = [call EXCEPT ![c].pc = "wait", ![c].tok = ref.tok, ![c].to = q]
         /\ net' = net \cup {[CommandOf(c) EXCEPT !.tok = ref.tok, !.to = q]}
    ELSE Done(c, "failed") /\ UNCHANGED net

\* decisionRunRef: where the owner is; a command is executed here or sent there.
Route(c) ==
    /\ call[c].pc = "ref"
    /\ CASE ref = None -> Done(c, "failed") /\ UNCHANGED <<net, exec>>
         [] ref # None /\ ref.srv = call[c].srv -> RunHere(c) /\ UNCHANGED net
         [] OTHER -> SendTo(c, ref.srv) /\ UNCHANGED exec
    /\ UNCHANGED <<row, run, up, own, ref, adm, res, cont, fin, ran>>

\* waitCommandResult: the command is published again while nobody answers ...
Resend(c) ==
    /\ call[c].pc = "wait" /\ call[c].to \in up /\ CommandOf(c) \notin net
    /\ net' = net \cup {CommandOf(c)}
    /\ UNCHANGED <<row, run, up, own, ref, adm, exec, res, call, cont, fin, ran>>

\* ... the stored result is polled ...
Poll(c) ==
    /\ call[c].pc = "wait" /\ res[IdOf(c)] # None
    /\ Done(c, AppliedOr(c, res[IdOf(c)]))
    /\ UNCHANGED <<row, run, up, own, ref, net, adm, exec, res, cont, fin, ran>>

\* ... and the caller gives up at its deadline (ErrCommandNotAcknowledged).
GiveUp(c) ==
    /\ call[c].pc = "wait" /\ Strikes("timeout")
    /\ Done(c, "unknown")
    /\ UNCHANGED <<row, run, up, own, ref, net, adm, exec, res, cont, fin, ran>>

\* completePendingCommand: a reply wakes every waiter of its id in the process.
TakeReply(m) ==
    /\ m \in net /\ m.kind = "reply"
    /\ net' = net \ {m}
    /\ call' = [c \in Calls |->
         IF call[c].pc = "wait" /\ call[c].srv = m.to /\ IdOf(c) = m.id
         THEN [call[c] EXCEPT !.pc = "done",
                 !.out = IF m.a # call[c].a THEN "conflict" ELSE IF m.ok THEN "applied" ELSE "failed"]
         ELSE call[c]]
    /\ UNCHANGED <<row, run, up, own, ref, adm, exec, res, cont, fin, ran>>
-----------------------------------------------------------------------------
(* The owner: the command loop and executeRoutedCommand *)

ReplyTo(m, ok) == [kind |-> "reply", id |-> m.id, a |-> m.a, ok |-> ok, to |-> m.re]
Working(p) == {i \in Ids : adm[p][i] # None}

\* Start's loop: an id in work is dropped, a full pool answers "busy".
Receive(p, m) ==
    /\ m \in net /\ m.kind = "cmd" /\ m.to = p /\ p \in up
    /\ CASE adm[p][m.id] # None -> net' = net \ {m} /\ UNCHANGED adm
         [] adm[p][m.id] = None /\ Cardinality(Working(p)) >= CommandWorkers ->
                net' = (net \ {m}) \cup {ReplyTo(m, FALSE)} /\ UNCHANGED adm
         [] OTHER -> net' = net \ {m} /\ adm' = [adm EXCEPT ![p][m.id] = m]
    /\ UNCHANGED <<row, run, up, own, ref, exec, res, call, cont, fin, ran>>

\* beginCommandExecution: one leader per id and process.  A stored result is returned
\* without executing anything again.
BeginRouted(p, i) ==
    LET m == adm[p][i] IN
    /\ m # None /\ m.kind = "cmd" /\ exec[p][i] = NoExec
    /\ IF res[i] # None
       THEN /\ net' = net \cup {ReplyTo(m, res[i] = m.a)}
            /\ adm' = [adm EXCEPT ![p][i] = None]
            /\ UNCHANGED exec
       ELSE /\ exec' = [exec EXCEPT ![p][i] = [pc |-> "check", tok |-> m.tok, a |-> m.a, via |-> "routed"]]
            /\ UNCHANGED <<net, adm>>
    /\ UNCHANGED <<row, run, up, own, ref, res, call, cont, fin, ran>>

\* A worker that finds its id executed by a caller of this process waits for it, and
\* answers with the result: it does not execute the command after all.
FollowRouted(p, i) ==
    LET m == adm[p][i] IN
    /\ m # None
    /\ \/ /\ m.kind = "cmd" /\ exec[p][i].via \in Calls
          /\ adm' = [adm EXCEPT ![p][i].kind = "follow"]
          /\ UNCHANGED net
       \/ /\ m.kind = "follow" /\ exec[p][i] = NoExec
          /\ net' = net \cup {ReplyTo(m, res[i] = m.a)}
          /\ adm' = [adm EXCEPT ![p][i] = None]
    /\ UNCHANGED <<row, run, up, own, ref, exec, res, call, cont, fin, ran>>

\* The end of an execution at p: its caller, or the sender of the command, is told.
\* a is the answer the result was stored for.
Conclude(p, i, ok, a) ==
    LET e == exec[p][i] IN
    /\ exec' = [exec EXCEPT ![p][i] = NoExec]
    /\ IF e.via = "routed"
       THEN /\ net' = net \cup {ReplyTo(adm[p][i], ok /\ a = e.a)}
            /\ adm' = [adm EXCEPT ![p][i] = None]
            /\ UNCHANGED call
       ELSE /\ Done(e.via, IF ~ok THEN "failed" ELSE IF a = e.a THEN "applied" ELSE "conflict")
            /\ UNCHANGED <<net, adm>>

\* beginCommandTarget: one response to a request is handled at a time.
TargetFree(p, i) == \A j \in Ids : j[1] = i[1] => exec[p][j].pc # "commit"

\* activeCommandContext, applyRoutedCommand, ValidateRunOwnership: the command is in
\* time and p still owns the run in Redis.
CheckCommand(p, i) ==
    /\ exec[p][i].pc = "check"
    /\ \/ /\ own[p] = exec[p][i].tok /\ ref = [srv |-> p, tok |-> exec[p][i].tok] /\ TargetFree(p, i)
          /\ exec' = [exec EXCEPT ![p][i].pc = "commit"]
          /\ UNCHANGED <<net, adm, call>>
       \/ /\ \/ own[p] # exec[p][i].tok
             \/ ref # [srv |-> p, tok |-> exec[p][i].tok]
             \/ ~TargetFree(p, i)
          /\ Conclude(p, i, FALSE, exec[p][i].a)
    /\ UNCHANGED <<row, run, up, own, ref, res, cont, fin, ran>>

\* A command that waited past its deadline is not applied.
CommandLate(p, i) ==
    /\ exec[p][i].pc = "check" /\ Strikes("timeout")
    /\ Conclude(p, i, FALSE, exec[p][i].a)
    /\ UNCHANGED <<row, run, up, own, ref, res, cont, fin, ran>>

\* Mutant: a request that was answered is answered again.
MayCommitAgain(d, t) == run.tok = t /\ run.st \in {"waiting", "running"} /\ ~run.abort

\* Mutant: an owner that was replaced while it handled the command commits.
MayCommitUnfenced(d, t) == row[d].st = "pending" /\ run.st \in {"waiting", "running"} /\ ~run.abort

\* The fenced transaction of an answer: the request is pending under this token and
\* the run accepts the continuation (AcceptSessionRunDecisionContinuation).
MayCommit(d, t) == /\ row[d].st = "pending" /\ row[d].tok = t
                   /\ run.tok = t /\ run.st \in {"waiting", "running"} /\ ~run.abort

CommitRow(i, a, t) ==
    /\ row' = [row EXCEPT ![i[1]] = [st |-> "decided", ans |-> a, ctl |-> i[2], tok |-> t]]
    /\ run' = [run EXCEPT !.st = "running", !.phase[i[1]] = "accepted"]

\* handleRuntimeDecisionCommand: commit, then continue on a goroutine of the run.
CommitAnswer(p, i) ==
    LET e == exec[p][i]  d == i[1] IN
    /\ e.pc = "commit"
    /\ IF MayCommit(d, e.tok)
       THEN /\ CommitRow(i, e.a, e.tok)
            /\ cont' = [cont EXCEPT ![p][d] = [pc |-> "ready", tok |-> e.tok]]
            /\ exec' = [exec EXCEPT ![p][i].pc = "store"]
            /\ UNCHANGED <<net, adm, call>>
       ELSE Conclude(p, i, FALSE, e.a) /\ UNCHANGED <<row, run, cont>>
    /\ UNCHANGED <<up, own, ref, res, fin, ran>>

\* The deadline of the command cuts the commit: the transaction took effect and the
\* handler saw an error.
CommitUnsure(p, i) ==
    LET e == exec[p][i] IN
    /\ Strikes("unsure") /\ e.pc = "commit" /\ MayCommit(i[1], e.tok)
    /\ CommitRow(i, e.a, e.tok)
    /\ Conclude(p, i, FALSE, e.a)
    /\ UNCHANGED <<up, own, ref, res, cont, fin, ran>>

\* persistCommandResult: SETNX and read back ...
StoreResult(p, i) ==
    LET e == exec[p][i] IN
    /\ e.pc = "store"
    /\ res' = [res EXCEPT ![i] = IF @ = None THEN e.a ELSE @]
    /\ Conclude(p, i, TRUE, res'[i])
    /\ UNCHANGED <<row, run, up, own, ref, cont, fin, ran>>

\* ... and a store that fails still answers the caller.
StoreFails(p, i) ==
    /\ exec[p][i].pc = "store" /\ Strikes("resultlost")
    /\ Conclude(p, i, TRUE, exec[p][i].a)
    /\ UNCHANGED <<row, run, up, own, ref, res, cont, fin, ran>>

\* A caller that found its id in execution waits for it and loads the result.
FollowLocal(c) ==
    LET i == IdOf(c)  p == call[c].srv IN
    /\ call[c].pc = "follow" /\ exec[p][i] = NoExec
    /\ Done(c, IF res[i] = None THEN "failed" ELSE AppliedOr(c, res[i]))
    /\ UNCHANGED <<row, run, up, own, ref, net, adm, exec, res, cont, fin, ran>>

\* Results carry a time to live.
ExpireResult(i) ==
    /\ Strikes("resultlost") /\ res[i] # None
    /\ res' = [res EXCEPT ![i] = None]
    /\ UNCHANGED <<row, run, up, own, ref, net, adm, exec, call, cont, fin, ran>>
-----------------------------------------------------------------------------
(* The continuation: continueRuntimeDecision *)

Holds(t) == run.tok = t /\ run.st = "running" /\ ~run.abort
StopCont(p, d) == cont' = [cont EXCEPT ![p][d] = NoCont]
\* finishRuntimeDecision: the run ends when this process still has it.
FinishFrom(p, t) == fin' = [fin EXCEPT ![p] = IF own[p] = t THEN t ELSE @]

\* Mutant: every answered request leads to the tool.
ApprovedAny(d) == row[d].st = "decided"

\* handleToolApprovalResponse: only an approved request leads to the tool.
Approved(d) == row[d].ans = "approve"

\* executeApprovedTool: the checkpoint is written before the tool is invoked.
BeginTool(p, d) ==
    LET k == cont[p][d] IN
    /\ k.pc = "ready" /\ Approved(d)
    /\ IF Holds(k.tok) /\ run.phase[d] = "accepted"
       THEN /\ run' = [run EXCEPT !.phase[d] = "executing"]
            /\ cont' = [cont EXCEPT ![p][d].pc = "tool"]
            /\ UNCHANGED fin
       ELSE StopCont(p, d) /\ FinishFrom(p, k.tok) /\ UNCHANGED run
    /\ UNCHANGED <<row, up, own, ref, net, adm, exec, res, call, ran>>

RunTool(p, d) ==
    /\ cont[p][d].pc = "tool"
    /\ ran' = [ran EXCEPT ![d] = @ + 1]
    /\ cont' = [cont EXCEPT ![p][d].pc = "model"]
    /\ UNCHANGED <<row, run, up, own, ref, net, adm, exec, res, call, fin>>

SkipTool(p, d) ==
    /\ cont[p][d].pc = "ready" /\ ~Approved(d)
    /\ cont' = [cont EXCEPT ![p][d].pc = "model"]
    /\ UNCHANGED <<row, run, up, own, ref, net, adm, exec, res, call, fin, ran>>

\* The model turn after the result was stored: it ends the run, or the run waits again
\* for a request that is still open.
EndCont(p, d) ==
    LET t == cont[p][d].tok IN
    /\ cont[p][d].pc = "model"
    /\ StopCont(p, d)
    /\ \/ FinishFrom(p, t) /\ UNCHANGED run
       \/ /\ Holds(t) /\ \E e \in Requests : row[e].st = "pending"
          /\ run' = [run EXCEPT !.st = "waiting"]
          /\ UNCHANGED fin
    /\ UNCHANGED <<row, up, own, ref, net, adm, exec, res, call, ran>>
-----------------------------------------------------------------------------
(* The end of the run, recovery and faults *)

\* A user aborts: the intent is recorded and the owner finishes the run.
RequestAbort ==
    /\ Strikes("abort") /\ run.st # "ended" /\ ~run.abort
    /\ run' = [run EXCEPT !.abort = TRUE]
    /\ fin' = [p \in Servers |-> IF own[p] = run.tok THEN own[p] ELSE fin[p]]
    /\ UNCHANGED <<row, up, own, ref, net, adm, exec, res, call, cont, ran>>

\* finalizeRuntimeDecisions: each open request is cancelled under the fence.
CancelRequest(p, d) ==
    /\ fin[p] # 0 /\ run.tok = fin[p] /\ row[d].st = "pending" /\ row[d].tok = fin[p]
    /\ row' = [row EXCEPT ![d].st = "cancelled"]
    /\ UNCHANGED <<run, up, own, ref, net, adm, exec, res, call, cont, fin, ran>>

\* The terminal write of the owner, which releases the run; or it finds itself replaced.
EndRun(p) ==
    /\ fin[p] # 0
    /\ IF run.tok = fin[p] /\ run.st # "ended"
       THEN /\ \A d \in Requests : row[d].st # "pending"
            /\ run' = [run EXCEPT !.st = "ended"]
            /\ ref' = IF ref # None /\ ref.tok = fin[p] THEN None ELSE ref
       ELSE UNCHANGED <<run, ref>>
    /\ fin' = [fin EXCEPT ![p] = 0]
    /\ own' = [own EXCEPT ![p] = IF @ = fin[p] THEN 0 ELSE @]
    /\ UNCHANGED <<row, up, net, adm, exec, res, call, cont, ran>>

\* What a process that stops leaves behind: its calls, executions and continuations are gone.
Crash(p) ==
    /\ Strikes("crash") /\ up # {p} /\ p \in up
    /\ up' = up \ {p}
    /\ own' = [own EXCEPT ![p] = 0] /\ fin' = [fin EXCEPT ![p] = 0]
    /\ adm' = [adm EXCEPT ![p] = [i \in Ids |-> None]]
    /\ exec' = [exec EXCEPT ![p] = [i \in Ids |-> NoExec]]
    /\ cont' = [cont EXCEPT ![p] = [d \in Requests |-> NoCont]]
    /\ net' = {m \in net : m.to # p}
    /\ call' = [c \in Calls |-> IF call[c].srv = p /\ call[c].pc \notin {"idle", "done"}
                                THEN [call[c] EXCEPT !.pc = "done", !.out = "unknown"] ELSE call[c]]
    /\ UNCHANGED <<row, run, ref, res, ran>>

\* The lease of the run is over: its owner is gone, or cannot reach Redis to renew it.
LeaseOver == IF ref # None /\ ref.srv \in up THEN Strikes("partition") ELSE UNCHANGED spent

\* The reaper at q: a waiting run moves to q with its open requests, in one transaction
\* (PendingRuntimeDecisions, claimPreservedDecision, ReclaimWaitingDecisionSessionRun).
Recover(q) ==
    /\ q \in up /\ run.st = "waiting" /\ LeaseOver /\ run.tok < MaxToken
    /\ run.abort = FALSE /\ \E d \in Requests : row[d].st = "pending"
    /\ run' = [run EXCEPT !.tok = @ + 1]
    /\ row' = [d \in Requests |-> IF row[d].st = "pending" THEN [row[d] EXCEPT !.tok = run.tok + 1] ELSE row[d]]
    /\ own' = [own EXCEPT ![q] = run.tok + 1]
    /\ ref' = None
    /\ UNCHANGED <<up, net, adm, exec, res, call, cont, fin, ran>>

\* The reservation of the recovered run in Redis is a step of its own.
Reserve(q) ==
    /\ own[q] # 0 /\ own[q] = run.tok /\ run.st # "ended" /\ ref = None /\ q \in up
    /\ ref' = [srv |-> q, tok |-> own[q]]
    /\ UNCHANGED <<row, run, up, own, net, adm, exec, res, call, cont, fin, ran>>

\* Any other run without an owner is finalized as lost; its requests are closed after
\* the terminal write, by the reaper or by the next answer to one of them.
Reap(q) ==
    /\ q \in up /\ run.st # "ended" /\ LeaseOver
    /\ run.st = "running" \/ run.abort \/ \A d \in Requests : row[d].st # "pending"
    /\ run' = [run EXCEPT !.st = "ended"] /\ ref' = None
    /\ UNCHANGED <<row, up, own, net, adm, exec, res, call, cont, fin, ran>>

CancelLost(q) ==
    /\ q \in up /\ run.st = "ended" /\ row # CancelledFor(run.tok)
    /\ row' = CancelledFor(run.tok)
    /\ UNCHANGED <<run, up, own, ref, net, adm, exec, res, call, cont, fin, ran>>

CallStep(c) ==
    \/ ReadRow(c) \/ ReadRun(c) \/ Route(c) \/ FollowLocal(c)
    \/ Resend(c) \/ Poll(c)
ExecStep(p, i) ==
    \/ BeginRouted(p, i) \/ FollowRouted(p, i) \/ CheckCommand(p, i) \/ CommitAnswer(p, i) \/ StoreResult(p, i)
ContStep(p, d) == BeginTool(p, d) \/ RunTool(p, d) \/ SkipTool(p, d) \/ EndCont(p, d) \/ CancelRequest(p, d)

Step ==
    \/ \E c \in Calls, p \in Servers, d \in Requests, k \in Controls, a \in Answers : Respond(c, p, d, k, a)
    \/ \E c \in Calls : CallStep(c)
    \/ \E m \in net : TakeReply(m) \/ \E p \in Servers : Receive(p, m)
    \/ \E p \in Servers, i \in Ids : ExecStep(p, i)
    \/ \E p \in Servers, d \in Requests : ContStep(p, d)
    \/ \E p \in Servers : EndRun(p) \/ Reserve(p) \/ CancelLost(p)

Fault ==
    \/ \E p \in Servers, i \in Ids : CommandLate(p, i) \/ CommitUnsure(p, i) \/ StoreFails(p, i)
    \/ \E i \in Ids : ExpireResult(i)
    \/ \E c \in Calls : GiveUp(c)
    \/ \E p \in Servers : Crash(p)
    \/ RequestAbort

DecisionsNext ==
    \/ Step /\ UNCHANGED spent
    \/ Fault
    \/ \E p \in Servers : Recover(p) \/ Reap(p)

DecisionsSpec == DecisionsInit /\ [][DecisionsNext]_dvars
-----------------------------------------------------------------------------
(* Properties *)

\* Nobody works on the run or on a response.
Quiet ==
    /\ net = {}
    /\ \A c \in Calls : call[c].pc \in {"idle", "done"}
    /\ \A p \in Servers : /\ fin[p] = 0
                          /\ \A i \in Ids : adm[p][i] = None /\ exec[p][i] = NoExec
                          /\ \A d \in Requests : cont[p][d] = NoCont

\* commands.go, commandResultErrorFor, and the unique control id of tool_approval.sql:
\* a user who is told that the answer was applied finds it in the request row, under
\* the control id it was given with, whatever crashed or was sent twice.
AppliedIsRecorded ==
    \A c \in Calls : call[c].out \in {"applied", "replayed"} =>
        LET r == row[call[c].d] IN r.st = "decided" /\ r.ans = call[c].a /\ r.ctl = call[c].k

\* The records of servers, commands and replies are well formed, and what users were told
\* agrees with the database.
DecisionsInv == DecisionsTypeOK /\ AppliedIsRecorded

\* executeApprovedTool: an approved tool is invoked at most once, a rejected one never,
\* though responses are retried, routed twice and executed by different owners.
ToolRunsAtMostOnce ==
    \A d \in Requests : ran[d] <= 1 /\ (ran[d] = 1 => row[d].ans = "approve")

\* handleRuntimeDecisionCommand: when everything has come to rest and no lease has run
\* out, the run has ended or waits for a request that can still be answered: no answer
\* was recorded that nobody carries out.  A commit whose outcome the owner did not learn
\* is the exception.
AnsweredRunIsCarriedOut ==
    (Quiet /\ "unsure" \notin spent /\ ref # None /\ ref.srv \in up)
        => \/ run.st = "ended"
           \/ run.st = "waiting" /\ \E d \in Requests : row[d].st = "pending"
=============================================================================
