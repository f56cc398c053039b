-------------------------- MODULE DecisionsProofs --------------------------
(***************************************************************************)
(* Proofs about Decisions: for any number of processes, requests, control  *)
(* ids, responses, recoveries and faults, a user who is told that an       *)
(* answer was applied finds it in the database, an approved tool is        *)
(* invoked at most once, and an answer that was recorded is carried out    *)
(* by the owner of the run unless that owner is lost.                      *)
(*                                                                         *)
(* The argument has three layers.  Records: a decided request is final, so *)
(* whatever has seen the decision (a stored result, a reply in the         *)
(* network, an execution that stores its result, a call that has returned) *)
(* agrees with the request row for good.  Tools: the checkpoint of a       *)
(* request leaves "accepted" once, and the one continuation that took it   *)
(* there is the only one to invoke the tool.  Owners: the process whose    *)
(* token is the run's is unique, and as long as it lives a running run has *)
(* a continuation or is being finished by it.                              *)
(***************************************************************************)
EXTENDS Decisions, TLAPS

RowRecs == [st: {"pending", "decided", "cancelled"}, ans: Answers \cup {None},
            ctl: Controls \cup {None}, tok: Tokens]
RunRecs == [st: {"waiting", "running", "ended"}, tok: Tokens, abort: BOOLEAN,
            phase: [Requests -> {"none", "accepted", "executing"}]]
Execs == [pc: {"no", "check", "commit", "store"}, tok: 0..MaxToken,
          a: Answers \cup {None}, via: Calls \cup {"routed", None}]
CallRecs == [pc: {"idle", "row", "run", "ref", "lead", "follow", "wait", "done"},
             srv: Servers \cup {None}, d: Requests \cup {None}, k: Controls \cup {None},
             a: Answers \cup {None}, tok: 0..MaxToken, to: Servers \cup {None},
             out: Outcomes \cup {None}]
Conts == [pc: {"no", "ready", "tool", "model"}, tok: 0..MaxToken]
Refs == [srv: Servers, tok: Tokens] \cup {None}
-----------------------------------------------------------------------------
(* Records *)

\* In these request rows the response i has decided its request with the answer a.
DecidedIn(rows, i, a) ==
    rows[i[1]].st = "decided" /\ rows[i[1]].ans = a /\ rows[i[1]].ctl = i[2]

\* The request row and the checkpoint of the continuation are written together.
RowsMatch ==
    \A d \in Requests :
        /\ row[d].st = "decided" <=> run.phase[d] # "none"
        /\ row[d].st # "decided" => row[d].ctl = None

\* What a call knows of its response, and what it was told is recorded.
CallOk(rows, r) ==
    /\ r.pc # "idle" => /\ r.srv \in Servers /\ r.d \in Requests /\ r.k \in Controls
                        /\ r.a \in Answers
    /\ r.pc = "wait" => r.tok \in Tokens /\ r.to \in Servers
    /\ r.out # None => r.pc = "done"
    /\ r.out \in {"applied", "replayed"} => DecidedIn(rows, <<r.d, r.k>>, r.a)
CallsOk == \A c \in Calls : CallOk(row, call[c])

NetOk == \A m \in net : m.kind = "reply" /\ m.ok => DecidedIn(row, m.id, m.a)
ResOk == \A i \in Ids : res[i] # None => DecidedIn(row, i, res[i])
AdmOk == \A p \in Servers, i \in Ids : adm[p][i] # None => adm[p][i].id = i

\* The execution e of i at p was begun by a routed command, which its worker still has
\* (m), or by a call that waits for it.
ExecOk(rows, calls, m, p, i, e) ==
    /\ e.pc = "no" <=> e = NoExec
    /\ e.pc # "no" => e.a \in Answers /\ e.via \in Calls \cup {"routed"}
    /\ e.pc # "no" /\ e.via = "routed" => m # None /\ m.a = e.a
    /\ e.pc # "no" /\ e.via # "routed" =>
           /\ calls[e.via].pc = "lead" /\ calls[e.via].srv = p
           /\ calls[e.via].d = i[1] /\ calls[e.via].k = i[2] /\ calls[e.via].a = e.a
    /\ e.pc = "store" => DecidedIn(rows, i, e.a)
ExecsOk == \A p \in Servers, i \in Ids : ExecOk(row, call, adm[p][i], p, i, exec[p][i])

RowTyped == row \in [Requests -> RowRecs] /\ run \in RunRecs
TalkTyped ==
    /\ net \subseteq Command \cup Reply
    /\ adm \in [Servers -> [Ids -> Command \cup {None}]]
    /\ exec \in [Servers -> [Ids -> Execs]]
    /\ res \in [Ids -> Answers \cup {None}]
    /\ call \in [Calls -> CallRecs]
RestTyped ==
    /\ up \subseteq Servers /\ own \in [Servers -> 0..MaxToken] /\ ref \in Refs
    /\ cont \in [Servers -> [Requests -> Conts]] /\ fin \in [Servers -> 0..MaxToken]
    /\ ran \in [Requests -> Nat] /\ spent \subseteq Faults

\* What was said about responses.
TalkOk == TalkTyped /\ CallsOk /\ NetOk /\ ResOk /\ AdmOk /\ ExecsOk
RecordsInv == RowTyped /\ RowsMatch /\ TalkOk /\ RestTyped
-----------------------------------------------------------------------------
(* Tools *)

ToolsInv ==
    \A d \in Requests :
        /\ run.phase[d] = "executing" => row[d].ans = "approve"
        /\ ran[d] =< 1 /\ (ran[d] # 0 => run.phase[d] = "executing")
        /\ \A p \in Servers : cont[p][d].pc = "tool" => run.phase[d] = "executing" /\ ran[d] = 0
        /\ \A p, q \in Servers : cont[p][d].pc = "tool" /\ cont[q][d].pc = "tool" => p = q
-----------------------------------------------------------------------------
(* Owners *)

\* What p does under the token t, it does as the owner of the run or after its end.
OwnedBy(p, t) == t =< run.tok /\ (t = run.tok /\ run.st # "ended" => own[p] = t)

OwnersMatch ==
    /\ \A p, q \in Servers : own[p] # 0 /\ own[p] = own[q] => p = q
    /\ \A p \in Servers : own[p] =< run.tok /\ OwnedBy(p, fin[p])
    /\ \A p \in Servers, i \in Ids : exec[p][i].pc = "commit" => OwnedBy(p, exec[p][i].tok)
    /\ \A p \in Servers, d \in Requests : cont[p][d].pc # "no" => OwnedBy(p, cont[p][d].tok)
    /\ ref # None /\ run.st # "ended" =>
           ref.tok = run.tok /\ (ref.srv \in up => own[ref.srv] = run.tok)

\* The owner of a running run continues or finishes it; a waiting run waits for something.
CarriedOut ==
    "unsure" \notin spent /\ run.st # "ended" =>
        \A p \in Servers : own[p] = run.tok =>
            \/ fin[p] = run.tok
            \/ run.st = "running" /\ \E d \in Requests : cont[p][d].pc # "no" /\ cont[p][d].tok = run.tok
            \/ run.st = "waiting" /\ \E d \in Requests : row[d].st = "pending"

OwnersInv == OwnersMatch /\ CarriedOut
-----------------------------------------------------------------------------
(* Operators and records *)

\* An update of one entry of a table.
LEMMA PutAt ==
    ASSUME NEW S, NEW T, NEW V, NEW f \in [S -> [T -> V]], NEW p \in S, NEW i \in T, NEW v \in V
    PROVE  /\ [f EXCEPT ![p][i] = v] \in [S -> [T -> V]]
           /\ [f EXCEPT ![p][i] = v][p][i] = v
           /\ \A q \in S, j \in T : q # p \/ j # i => [f EXCEPT ![p][i] = v][q][j] = f[q][j]
<1>1. [f EXCEPT ![p][i] = v] = [f EXCEPT ![p] = [f[p] EXCEPT ![i] = v]]
  OBVIOUS
<1>2. /\ [f[p] EXCEPT ![i] = v] \in [T -> V] /\ [f[p] EXCEPT ![i] = v][i] = v
      /\ \A j \in T : j # i => [f[p] EXCEPT ![i] = v][j] = f[p][j]
  OBVIOUS
<1> DEFINE g == [f[p] EXCEPT ![i] = v]
<1> HIDE DEF g
<1>3. /\ [f EXCEPT ![p] = g] \in [S -> [T -> V]] /\ [f EXCEPT ![p] = g][p] = g
      /\ \A q \in S : q # p => [f EXCEPT ![p] = g][q] = f[q]
  BY <1>2 DEF g
<1> QED
  BY <1>1, <1>2, <1>3 DEF g

\* An id is a request and a control id.
LEMMA IdFacts ==
    /\ \A i \in Ids : i[1] \in Requests /\ i[2] \in Controls /\ i = <<i[1], i[2]>>
    /\ \A d \in Requests, k \in Controls : <<d, k>> \in Ids /\ <<d, k>>[1] = d /\ <<d, k>>[2] = k
  BY DEF Ids

\* Requests that are decided stay as they are.
RowsGrow == \A d \in Requests : row[d].st = "decided" => row'[d] = row[d]

\* What was recorded stays recorded.
LEMMA DecidedGrows ==
    ASSUME RowsGrow, NEW i \in Ids, NEW a, DecidedIn(row, i, a)
    PROVE  DecidedIn(row', i, a)
  BY IdFacts DEF RowsGrow, DecidedIn

\* No value is not an answer or an outcome.
LEMMA NoneFacts ==
    /\ None \notin Answers /\ None \notin Outcomes /\ None \notin Servers /\ None \notin Calls
    /\ None \notin Controls /\ None \notin Requests
    /\ "routed" \notin Calls /\ MaxToken \in Nat \ {0}
  BY DecisionsAssumption

\* A call after a step that keeps decided requests.
LEMMA CallGrows ==
    ASSUME RowsGrow, NEW r \in CallRecs, CallOk(row, r)
    PROVE  CallOk(row', r)
<1>1. r.out \in {"applied", "replayed"} => <<r.d, r.k>> \in Ids
  BY NoneFacts, IdFacts DEF CallOk, CallRecs, Outcomes
<1> QED
  BY <1>1, DecidedGrows DEF CallOk

\* The call of a response that is executed does not change: what is known of executions
\* survives a step that keeps it.
LEMMA ExecGrows ==
    ASSUME RowsGrow, NEW p \in Servers, NEW i \in Ids, NEW e, NEW m, NEW m2,
           ExecOk(row, call, m, p, i, e),
           e.pc # "no" /\ e.via # "routed" => call'[e.via] = call[e.via],
           e.pc # "no" /\ e.via = "routed" => m2 = m
    PROVE  ExecOk(row', call', m2, p, i, e)
<1>1. e.pc = "store" => DecidedIn(row', i, e.a)
  BY DecidedGrows DEF ExecOk
<1> QED
  BY <1>1 DEF ExecOk

\* What was recorded survives a step that keeps decided requests.
LEMMA RecordedGrows ==
    ASSUME TalkOk, RowsGrow
    PROVE  /\ \A c \in Calls : CallOk(row', call[c])
           /\ \A m \in net : m.kind = "reply" /\ m.ok => DecidedIn(row', m.id, m.a)
           /\ \A i \in Ids : res[i] # None => DecidedIn(row', i, res[i])
<1>1. \A c \in Calls : CallOk(row', call[c])
  BY CallGrows DEF TalkOk, TalkTyped, CallsOk
<1>2. ASSUME NEW m \in net, m.kind = "reply", m.ok PROVE DecidedIn(row', m.id, m.a)
  <2>1. m.id \in Ids /\ DecidedIn(row, m.id, m.a)
    BY <1>2 DEF TalkOk, TalkTyped, NetOk, Command, Reply
  <2> QED
    BY <2>1, DecidedGrows
<1>3. ASSUME NEW i \in Ids, res[i] # None PROVE DecidedIn(row', i, res[i])
  <2>1. DecidedIn(row, i, res[i])
    BY <1>3 DEF TalkOk, ResOk
  <2> QED
    BY <2>1, DecidedGrows
<1> QED
  BY <1>1, <1>2, <1>3

\* A step that keeps decided requests, commands at work and results.
LEMMA TalkKept ==
    ASSUME TalkOk, RowsGrow, UNCHANGED <<adm, exec, res>>,
           call' \in [Calls -> CallRecs], \A c \in Calls : CallOk(row', call'[c]),
           \A c \in Calls : call[c].pc = "lead" => call'[c] = call[c],
           net' \subseteq Command \cup Reply,
           \A m \in net' : m \in net \/ (m.kind = "reply" /\ m.ok => DecidedIn(row', m.id, m.a))
    PROVE  TalkOk'
<1>1. TalkTyped' /\ CallsOk' /\ AdmOk'
  BY DEF TalkOk, TalkTyped, CallsOk, AdmOk
<1>2. NetOk' /\ ResOk'
  BY RecordedGrows DEF NetOk, ResOk
<1>3. ExecsOk'
  <2> SUFFICES ASSUME NEW p \in Servers, NEW i \in Ids
               PROVE  ExecOk(row', call', adm[p][i], p, i, exec[p][i])
    BY DEF ExecsOk
  <2>1. ExecOk(row, call, adm[p][i], p, i, exec[p][i])
    BY DEF TalkOk, ExecsOk
  <2>2. exec[p][i].pc # "no" /\ exec[p][i].via # "routed" => call'[exec[p][i].via] = call[exec[p][i].via]
    BY <2>1 DEF ExecOk
  <2> QED
    BY <2>1, <2>2, ExecGrows
<1> QED
  BY <1>1, <1>2, <1>3 DEF TalkOk

\* A step that says nothing about a response.
LEMMA SilentKept ==
    ASSUME TalkOk, RowsGrow, UNCHANGED <<adm, exec, res, call, net>>
    PROVE  TalkOk'
<1>1. /\ call' \in [Calls -> CallRecs] /\ \A c \in Calls : CallOk(row', call'[c])
      /\ \A c \in Calls : call[c].pc = "lead" => call'[c] = call[c]
  BY RecordedGrows DEF TalkOk, TalkTyped
<1>2. /\ net' \subseteq Command \cup Reply
      /\ \A m \in net' : m \in net \/ (m.kind = "reply" /\ m.ok => DecidedIn(row', m.id, m.a))
  BY DEF TalkOk, TalkTyped
<1> QED
  BY <1>1, <1>2, TalkKept

\* A step that leaves requests, the run and its owners alone.
LEMMA RestKept ==
    ASSUME RecordsInv, UNCHANGED <<row, run, up, own, ref, cont, fin, ran>>, spent' \subseteq Faults
    PROVE  RowTyped' /\ RowsMatch' /\ RestTyped' /\ RowsGrow
<1>1. RowTyped' /\ RowsMatch' /\ RestTyped'
  BY DEF RecordsInv, RowTyped, RowsMatch, RestTyped
<1> QED
  BY <1>1 DEF RowsGrow

\* A fault is one of the faults of the system.
LEMMA StrikesFaults ==
    ASSUME RecordsInv, NEW f, Strikes(f)
    PROVE  spent' \subseteq Faults /\ spent' = spent \cup {f}
  BY DEF RecordsInv, RestTyped, Strikes

\* What the invariant says of one call.
LEMMA CallFacts ==
    ASSUME RecordsInv, NEW c \in Calls
    PROVE  /\ call[c] \in CallRecs /\ CallOk(row, call[c])
           /\ call[c].pc # "idle" =>
                 /\ call[c].srv \in Servers /\ IdOf(c) \in Ids
                 /\ IdOf(c)[1] = call[c].d /\ IdOf(c)[2] = call[c].k
  BY IdFacts DEF RecordsInv, TalkOk, TalkTyped, CallsOk, CallOk, IdOf

\* A call that does not lead an execution goes on, and nothing else happens.
LEMMA CallStepKeeps ==
    ASSUME RecordsInv, NEW c \in Calls, call[c].pc # "lead",
           NEW r \in CallRecs, CallOk(row, r), call' = [call EXCEPT ![c] = r],
           UNCHANGED <<row, run, up, own, ref, cont, fin, ran, adm, exec, res, net>>,
           spent' \subseteq Faults
    PROVE  RecordsInv'
<1>1. RowTyped' /\ RowsMatch' /\ RestTyped' /\ RowsGrow
  BY RestKept
<1>2. /\ call' \in [Calls -> CallRecs] /\ row' = row
      /\ \A e \in Calls : CallOk(row', call'[e])
      /\ \A e \in Calls : call[e].pc = "lead" => call'[e] = call[e]
  BY DEF RecordsInv, TalkOk, TalkTyped, CallsOk
<1>3. /\ net' \subseteq Command \cup Reply
      /\ \A m \in net' : m \in net \/ (m.kind = "reply" /\ m.ok => DecidedIn(row', m.id, m.a))
  BY DEF RecordsInv, TalkOk, TalkTyped
<1>4. TalkOk'
  BY <1>1, <1>2, <1>3, TalkKept DEF RecordsInv
<1> QED
  BY <1>1, <1>4 DEF RecordsInv

\* A call that returns.
LEMMA DoneRec ==
    ASSUME RecordsInv, NEW c \in Calls, call[c].pc # "idle", NEW out \in Outcomes,
           out \in {"applied", "replayed"} => DecidedIn(row, IdOf(c), call[c].a)
    PROVE  LET r == [call[c] EXCEPT !.pc = "done", !.out = out]
           IN  /\ r \in CallRecs /\ CallOk(row, r)
               /\ Done(c, out) => call' = [call EXCEPT ![c] = r]
<1> DEFINE r == [call[c] EXCEPT !.pc = "done", !.out = out]
<1>1. call[c] \in CallRecs /\ CallOk(row, call[c]) /\ call \in [Calls -> CallRecs]
  BY CallFacts DEF RecordsInv, TalkOk, TalkTyped
<1>2. /\ r \in CallRecs /\ r.pc = "done" /\ r.out = out /\ r.srv = call[c].srv /\ r.d = call[c].d
      /\ r.k = call[c].k /\ r.a = call[c].a
  BY <1>1 DEF CallRecs
<1>3. Done(c, out) => call' = [call EXCEPT ![c] = r]
  BY <1>1 DEF Done, CallRecs
<1> HIDE DEF r
<1>4. CallOk(row, r)
  BY <1>1, <1>2 DEF CallOk, IdOf
<1>5. r \in CallRecs /\ CallOk(row, r) /\ (Done(c, out) => call' = [call EXCEPT ![c] = r])
  BY <1>2, <1>3, <1>4
<1> QED
  BY <1>5 DEF r

\* A call returns, and nothing else happens.
LEMMA DoneKeeps ==
    ASSUME RecordsInv, NEW c \in Calls, call[c].pc \notin {"idle", "lead"}, NEW out \in Outcomes,
           out \in {"applied", "replayed"} => DecidedIn(row, IdOf(c), call[c].a),
           Done(c, out),
           UNCHANGED <<row, run, up, own, ref, cont, fin, ran, adm, exec, res, net>>,
           spent' \subseteq Faults
    PROVE  RecordsInv'
<1> DEFINE r == [call[c] EXCEPT !.pc = "done", !.out = out]
<1>1. r \in CallRecs /\ CallOk(row, r) /\ call' = [call EXCEPT ![c] = r]
  BY DoneRec
<1> HIDE DEF r
<1> QED
  BY <1>1, CallStepKeeps
-----------------------------------------------------------------------------
(* The records are kept by the steps of a call *)

\* A response that begins knows its request, and may know its result.
LEMMA RespondKeeps ==
    ASSUME RecordsInv, NEW c \in Calls, NEW p \in Servers, NEW d \in Requests, NEW k \in Controls,
           NEW a \in Answers, Respond(c, p, d, k, a), spent' \subseteq Faults
    PROVE  RecordsInv'
<1> DEFINE i == <<d, k>>
           r == [pc |-> IF res[i] = None THEN "row" ELSE "done", srv |-> p, d |-> d, k |-> k, a |-> a,
                 tok |-> 0, to |-> None,
                 out |-> IF res[i] = None THEN None
                         ELSE IF res[i] = a THEN "replayed" ELSE "conflict"]
<1>1. /\ call[c].pc = "idle" /\ call' = [call EXCEPT ![c] = r]
      /\ UNCHANGED <<row, run, up, own, ref, cont, fin, ran, adm, exec, res, net>>
  BY DEF Respond
<1>2. i \in Ids /\ (res[i] # None => DecidedIn(row, i, res[i]))
  BY IdFacts DEF RecordsInv, TalkOk, ResOk
<1>3. r \in CallRecs
  BY NoneFacts DEF CallRecs, Outcomes
<1>4. CallOk(row, r)
  BY <1>2, NoneFacts DEF CallOk, Outcomes
<1> HIDE DEF r
<1> QED
  BY <1>1, <1>3, <1>4, CallStepKeeps

\* The request row answers, or the call goes on under the request's token.
LEMMA ReadRowKeeps ==
    ASSUME RecordsInv, NEW c \in Calls, ReadRow(c), spent' \subseteq Faults
    PROVE  RecordsInv'
<1> DEFINE q == row[call[c].d]
<1>1. /\ call[c].pc = "row"
      /\ UNCHANGED <<row, run, up, own, ref, cont, fin, ran, adm, exec, res, net>>
  BY DEF ReadRow
<1>2. /\ call[c] \in CallRecs /\ CallOk(row, call[c]) /\ IdOf(c) \in Ids /\ call[c].d \in Requests
      /\ IdOf(c)[1] = call[c].d /\ IdOf(c)[2] = call[c].k /\ call[c].pc \notin {"idle", "lead"}
  BY <1>1, CallFacts DEF CallOk
<1>3. q \in RowRecs /\ (q.ctl # None => q.st = "decided")
  BY <1>2 DEF RecordsInv, RowTyped, RowsMatch
<1>4. CASE q.ctl # None /\ q.ctl = call[c].k
  <2> DEFINE out == AnswerOf(c, q.ans)
  <2>1. Done(c, out)
    BY <1>4 DEF ReadRow
  <2>2. out \in Outcomes /\ (out \in {"applied", "replayed"} => DecidedIn(row, IdOf(c), call[c].a))
    BY <1>2, <1>3, <1>4 DEF AnswerOf, Outcomes, DecidedIn
  <2> HIDE DEF out
  <2> QED
    BY <1>1, <1>2, <2>1, <2>2, DoneKeeps
<1>5. CASE ~(q.ctl # None /\ q.ctl = call[c].k) /\ q.st # "pending"
  <2>1. Done(c, "refused") /\ "refused" \in Outcomes
        /\ ("refused" \in {"applied", "replayed"} => DecidedIn(row, IdOf(c), call[c].a))
    BY <1>5 DEF ReadRow, Outcomes
  <2> QED
    BY <1>1, <1>2, <2>1, DoneKeeps
<1>6. CASE ~(q.ctl # None /\ q.ctl = call[c].k) /\ q.st = "pending"
  <2> DEFINE r == [call[c] EXCEPT !.pc = "run", !.tok = q.tok]
  <2>1. call' = [call EXCEPT ![c].pc = "run", ![c].tok = q.tok] /\ call \in [Calls -> CallRecs]
    BY <1>6 DEF ReadRow, RecordsInv, TalkOk, TalkTyped
  <2>2. q.tok \in 0..MaxToken
    BY <1>3, NoneFacts DEF RowRecs, Tokens
  <2>3. call' = [call EXCEPT ![c] = r]
    BY <2>1 DEF CallRecs
  <2>4. r \in CallRecs /\ CallOk(row, r)
    <3> HIDE DEF q
    <3>1. /\ r \in CallRecs /\ r.pc = "run" /\ r.out = call[c].out /\ r.srv = call[c].srv
          /\ r.d = call[c].d /\ r.k = call[c].k /\ r.a = call[c].a
      BY <1>2, <2>2 DEF CallRecs
    <3>2. call[c].out = None
      BY <1>1, <1>2 DEF CallOk
    <3> QED
      BY <1>1, <1>2, <3>1, <3>2, NoneFacts DEF CallOk, Outcomes
  <2> HIDE DEF r
  <2> QED
    BY <1>1, <1>2, <2>3, <2>4, CallStepKeeps
<1> QED
  BY <1>4, <1>5, <1>6

\* A request that is closed was not decided.
LEMMA ClosedKeeps ==
    ASSUME RecordsInv, run' = run, row' \in [Requests -> RowRecs],
           \A d \in Requests : row'[d] = row[d] \/
               (row[d].st = "pending" /\ row'[d].st = "cancelled" /\ row'[d].ctl = row[d].ctl)
    PROVE  RowTyped' /\ RowsMatch' /\ RowsGrow
<1>1. RowTyped' /\ RowsGrow
  BY DEF RecordsInv, RowTyped, RowsGrow
<1>2. RowsMatch'
  BY DEF RecordsInv, RowsMatch
<1> QED
  BY <1>1, <1>2

\* CancelPendingForRun closes what is open.
LEMMA CancelledForKeeps ==
    ASSUME RecordsInv, run' = run, NEW t, row' = CancelledFor(t)
    PROVE  RowTyped' /\ RowsMatch' /\ RowsGrow
<1>1. row \in [Requests -> RowRecs]
  BY DEF RecordsInv, RowTyped
<1>2. ASSUME NEW d \in Requests
      PROVE  /\ [row[d] EXCEPT !.st = "cancelled"] \in RowRecs
             /\ [row[d] EXCEPT !.st = "cancelled"].st = "cancelled"
             /\ [row[d] EXCEPT !.st = "cancelled"].ctl = row[d].ctl
  BY <1>1 DEF RowRecs
<1>3. \A d \in Requests : \/ row'[d] = row[d]
                          \/ row[d].st = "pending" /\ row'[d] = [row[d] EXCEPT !.st = "cancelled"]
  BY DEF CancelledFor
<1>4. row' \in [Requests -> RowRecs]
  <2>1. \A d \in Requests : (IF row[d].st = "pending" /\ row[d].tok = t
                             THEN [row[d] EXCEPT !.st = "cancelled"] ELSE row[d]) \in RowRecs
    BY <1>1, <1>2
  <2> QED
    BY <2>1 DEF CancelledFor
<1> QED
  BY <1>2, <1>3, <1>4, ClosedKeeps

\* The run row: the call goes on, or returns without an answer.
LEMMA ReadRunKeeps ==
    ASSUME RecordsInv, NEW c \in Calls, ReadRun(c), spent' \subseteq Faults
    PROVE  RecordsInv'
<1>1. call[c].pc = "run" /\ UNCHANGED <<run, up, own, ref, net, adm, exec, res, cont, fin, ran>>
  BY DEF ReadRun
<1>2. /\ call[c] \in CallRecs /\ CallOk(row, call[c]) /\ call[c].pc # "lead"
      /\ call \in [Calls -> CallRecs]
  BY <1>1, CallFacts DEF RecordsInv, TalkOk, TalkTyped
<1>3. row' = row \/ row' = CancelledFor(run.tok)
  BY DEF ReadRun
<1>4. RowTyped' /\ RowsMatch' /\ RowsGrow
  <2>1. row' = row => RowTyped' /\ RowsMatch' /\ RowsGrow
    BY <1>1 DEF RecordsInv, RowTyped, RowsMatch, RowsGrow
  <2> QED
    BY <1>1, <1>3, <2>1, CancelledForKeeps
<1>5. RestTyped'
  BY <1>1 DEF RecordsInv, RestTyped
<1>6. PICK pc \in {"done", "ref"}, out \in {"failed", "refused", None} :
        call' = [call EXCEPT ![c] = [call[c] EXCEPT !.pc = pc, !.out = out]] /\ (out # None => pc = "done")
  <2>1. Done(c, "failed") \/ Done(c, "refused") \/ Goto(c, "ref")
    BY DEF ReadRun
  <2>2. call[c].out = None
    BY <1>1, <1>2 DEF CallOk
  <2>3. Goto(c, "ref") => call' = [call EXCEPT ![c] = [call[c] EXCEPT !.pc = "ref", !.out = None]]
    BY <1>2, <2>2 DEF Goto, CallRecs
  <2>4. \A out : Done(c, out) => call' = [call EXCEPT ![c] = [call[c] EXCEPT !.pc = "done", !.out = out]]
    BY <1>2 DEF Done, CallRecs
  <2> QED
    BY <2>1, <2>3, <2>4
<1> DEFINE r == [call[c] EXCEPT !.pc = pc, !.out = out]
<1>7. r \in CallRecs /\ CallOk(row', r)
  <2>1. /\ r \in CallRecs /\ r.pc = pc /\ r.out = out /\ r.srv = call[c].srv
        /\ r.d = call[c].d /\ r.k = call[c].k /\ r.a = call[c].a
    BY <1>2, ZenonT(60) DEF CallRecs, Outcomes
  <2> HIDE DEF r
  <2>2. out \notin {"applied", "replayed"}
    BY NoneFacts DEF Outcomes
  <2> QED
    BY <1>1, <1>2, <1>6, <2>1, <2>2 DEF CallOk
<1> HIDE DEF r
<1>8. TalkOk'
  <2>1. \A e \in Calls : CallOk(row', call[e])
    BY <1>4, RecordedGrows DEF RecordsInv
  <2>2. /\ call' \in [Calls -> CallRecs] /\ \A e \in Calls : CallOk(row', call'[e])
        /\ \A e \in Calls : call[e].pc = "lead" => call'[e] = call[e]
    BY <1>2, <1>6, <1>7, <2>1 DEF r
  <2>3. /\ net' \subseteq Command \cup Reply
        /\ \A m \in net' : m \in net \/ (m.kind = "reply" /\ m.ok => DecidedIn(row', m.id, m.a))
    BY <1>1 DEF RecordsInv, TalkOk, TalkTyped
  <2> QED
    BY <1>1, <1>4, <2>2, <2>3, TalkKept DEF RecordsInv
<1> QED
  BY <1>4, <1>5, <1>8 DEF RecordsInv

\* A stored result that answers a call is recorded.
LEMMA AppliedFacts ==
    ASSUME RecordsInv, NEW c \in Calls, call[c].pc # "idle", res[IdOf(c)] # None
    PROVE  /\ AppliedOr(c, res[IdOf(c)]) \in Outcomes
           /\ AppliedOr(c, res[IdOf(c)]) \in {"applied", "replayed"} => DecidedIn(row, IdOf(c), call[c].a)
<1>1. IdOf(c) \in Ids
  BY CallFacts
<1>2. DecidedIn(row, IdOf(c), res[IdOf(c)])
  BY <1>1 DEF RecordsInv, TalkOk, ResOk
<1> QED
  BY <1>2 DEF AppliedOr, Outcomes

\* A call returns with the stored result.
LEMMA PollKeeps ==
    ASSUME RecordsInv, NEW c \in Calls, Poll(c), spent' \subseteq Faults
    PROVE  RecordsInv'
<1> DEFINE out == AppliedOr(c, res[IdOf(c)])
<1>1. /\ call[c].pc = "wait" /\ res[IdOf(c)] # None /\ Done(c, out)
      /\ UNCHANGED <<row, run, up, own, ref, cont, fin, ran, adm, exec, res, net>>
  BY DEF Poll
<1>2. /\ out \in Outcomes /\ call[c].pc \notin {"idle", "lead"}
      /\ out \in {"applied", "replayed"} => DecidedIn(row, IdOf(c), call[c].a)
  BY <1>1, AppliedFacts
<1> HIDE DEF out
<1> QED
  BY <1>1, <1>2, DoneKeeps

\* A call that followed an execution loads its result.
LEMMA FollowLocalKeeps ==
    ASSUME RecordsInv, NEW c \in Calls, FollowLocal(c), spent' \subseteq Faults
    PROVE  RecordsInv'
<1> DEFINE out == IF res[IdOf(c)] = None THEN "failed" ELSE AppliedOr(c, res[IdOf(c)])
<1>1. /\ call[c].pc = "follow" /\ Done(c, out)
      /\ UNCHANGED <<row, run, up, own, ref, cont, fin, ran, adm, exec, res, net>>
  BY DEF FollowLocal
<1>2. /\ out \in Outcomes /\ call[c].pc \notin {"idle", "lead"}
      /\ out \in {"applied", "replayed"} => DecidedIn(row, IdOf(c), call[c].a)
  BY <1>1, AppliedFacts DEF Outcomes
<1> HIDE DEF out
<1> QED
  BY <1>1, <1>2, DoneKeeps

\* A caller that gives up was told nothing.
LEMMA GiveUpKeeps ==
    ASSUME RecordsInv, NEW c \in Calls, GiveUp(c)
    PROVE  RecordsInv'
<1>1. /\ call[c].pc = "wait" /\ Done(c, "unknown") /\ spent' \subseteq Faults
      /\ UNCHANGED <<row, run, up, own, ref, cont, fin, ran, adm, exec, res, net>>
  BY StrikesFaults DEF GiveUp
<1>2. /\ "unknown" \in Outcomes /\ call[c].pc \notin {"idle", "lead"}
      /\ "unknown" \in {"applied", "replayed"} => DecidedIn(row, IdOf(c), call[c].a)
  BY <1>1 DEF Outcomes
<1> QED
  BY <1>1, <1>2, DoneKeeps

\* A command that waits for its answer is published again.
LEMMA ResendKeeps ==
    ASSUME RecordsInv, NEW c \in Calls, Resend(c), spent' \subseteq Faults
    PROVE  RecordsInv'
<1>1. /\ call[c].pc = "wait" /\ net' = net \cup {CommandOf(c)}
      /\ UNCHANGED <<row, run, up, own, ref, cont, fin, ran, adm, exec, res, call>>
  BY DEF Resend
<1>2. CallOk(row, call[c]) /\ IdOf(c) \in Ids
  BY <1>1, CallFacts
<1>3. CommandOf(c) \in Command /\ CommandOf(c).kind = "cmd"
  BY <1>1, <1>2 DEF CommandOf, Command, CallOk
<1>4. RowTyped' /\ RowsMatch' /\ RestTyped' /\ RowsGrow
  BY <1>1, RestKept
<1>5. /\ call' \in [Calls -> CallRecs] /\ \A e \in Calls : CallOk(row', call'[e])
      /\ \A e \in Calls : call[e].pc = "lead" => call'[e] = call[e]
  BY <1>1 DEF RecordsInv, TalkOk, TalkTyped, CallsOk
<1>6. /\ net' \subseteq Command \cup Reply
      /\ \A m \in net' : m \in net \/ (m.kind = "reply" /\ m.ok => DecidedIn(row', m.id, m.a))
  BY <1>1, <1>3 DEF RecordsInv, TalkOk, TalkTyped
<1>7. TalkOk'
  BY <1>1, <1>4, <1>5, <1>6, TalkKept DEF RecordsInv
<1> QED
  BY <1>4, <1>7 DEF RecordsInv

\* A reply answers the calls that wait for it.
LEMMA TakeReplyKeeps ==
    ASSUME RecordsInv, NEW m \in net, TakeReply(m), spent' \subseteq Faults
    PROVE  RecordsInv'
<1> DEFINE Woken(c) == call[c].pc = "wait" /\ call[c].srv = m.to /\ IdOf(c) = m.id
           Out(c) == IF m.a # call[c].a THEN "conflict" ELSE IF m.ok THEN "applied" ELSE "failed"
           r(c) == [call[c] EXCEPT !.pc = "done", !.out = Out(c)]
<1>1. /\ m.kind = "reply" /\ net' = net \ {m}
      /\ call' = [c \in Calls |-> IF Woken(c) THEN r(c) ELSE call[c]]
      /\ UNCHANGED <<row, run, up, own, ref, cont, fin, ran, adm, exec, res>>
  BY DEF TakeReply
<1>2. RowTyped' /\ RowsMatch' /\ RestTyped' /\ RowsGrow
  BY <1>1, RestKept
<1>3. ASSUME NEW c \in Calls, Woken(c) PROVE r(c) \in CallRecs /\ CallOk(row, r(c))
  <2>1. Out(c) \in Outcomes
    BY DEF Outcomes
  <2>2. Out(c) \in {"applied", "replayed"} => DecidedIn(row, IdOf(c), call[c].a)
    BY <1>1, <1>3 DEF RecordsInv, TalkOk, NetOk
  <2> HIDE DEF Out
  <2> QED
    BY <1>3, <2>1, <2>2, DoneRec
<1>4. /\ call' \in [Calls -> CallRecs] /\ \A e \in Calls : CallOk(row', call'[e])
      /\ \A e \in Calls : call[e].pc = "lead" => call'[e] = call[e]
  <2> HIDE DEF r
  <2>1. \A c \in Calls : call[c] \in CallRecs /\ CallOk(row, call[c])
    BY CallFacts
  <2>2. row' = row
    BY <1>1
  <2> QED
    BY <1>1, <1>3, <2>1, <2>2
<1>5. /\ net' \subseteq Command \cup Reply
      /\ \A n \in net' : n \in net \/ (n.kind = "reply" /\ n.ok => DecidedIn(row', n.id, n.a))
  BY <1>1 DEF RecordsInv, TalkOk, TalkTyped
<1>6. TalkOk'
  BY <1>1, <1>2, <1>4, <1>5, TalkKept DEF RecordsInv
<1> QED
  BY <1>2, <1>6 DEF RecordsInv
-----------------------------------------------------------------------------
(* The records are kept by the command loop and the executions *)

\* A step that keeps decided requests, where what is at work and stored is known.
LEMMA TalkRenewed ==
    ASSUME TalkOk, RowsGrow,
           call' \in [Calls -> CallRecs], \A c \in Calls : CallOk(row', call'[c]),
           net' \subseteq Command \cup Reply,
           \A m \in net' : m \in net \/ (m.kind = "reply" /\ m.ok => DecidedIn(row', m.id, m.a)),
           res' \in [Ids -> Answers \cup {None}], ResOk',
           adm' \in [Servers -> [Ids -> Command \cup {None}]], AdmOk',
           exec' \in [Servers -> [Ids -> Execs]], ExecsOk'
    PROVE  TalkOk'
<1>1. NetOk'
  BY RecordedGrows DEF NetOk
<1> QED
  BY <1>1 DEF TalkOk, TalkTyped, CallsOk

\* What is known of the executions when one of them goes on.
LEMMA ExecsPut ==
    ASSUME TalkOk, RowsGrow, NEW p \in Servers, NEW i \in Ids,
           NEW e \in Execs, exec' = [exec EXCEPT ![p][i] = e],
           ExecOk(row', call', adm'[p][i], p, i, e),
           \A q \in Servers, j \in Ids :
               (q # p \/ j # i) /\ exec[q][j].pc # "no" /\ exec[q][j].via = "routed" => adm'[q][j] = adm[q][j],
           \A c \in Calls : call[c].pc = "lead" =>
               \/ call'[c] = call[c]
               \/ call[c].srv = p /\ call[c].d = i[1] /\ call[c].k = i[2]
    PROVE  exec' \in [Servers -> [Ids -> Execs]] /\ ExecsOk'
<1>1. /\ exec' \in [Servers -> [Ids -> Execs]] /\ exec'[p][i] = e
      /\ \A q \in Servers, j \in Ids : q # p \/ j # i => exec'[q][j] = exec[q][j]
  BY PutAt DEF TalkOk, TalkTyped
<1>2. ASSUME NEW q \in Servers, NEW j \in Ids, q # p \/ j # i
      PROVE  ExecOk(row', call', adm'[q][j], q, j, exec'[q][j])
  <2>1. exec'[q][j] = exec[q][j]
    BY <1>1, <1>2
  <2>2. ExecOk(row, call, adm[q][j], q, j, exec[q][j])
    BY DEF TalkOk, ExecsOk
  <2>3. exec[q][j].pc # "no" /\ exec[q][j].via # "routed" => call'[exec[q][j].via] = call[exec[q][j].via]
    BY <1>2, <2>2, IdFacts DEF ExecOk
  <2>4. exec[q][j].pc # "no" /\ exec[q][j].via = "routed" => adm'[q][j] = adm[q][j]
    BY <1>2
  <2> QED
    BY <2>1, <2>2, <2>3, <2>4, ExecGrows
<1> QED
  BY <1>1, <1>2 DEF ExecsOk

\* What is known of the executions when only the commands at work change.
LEMMA ExecsStay ==
    ASSUME TalkOk, RowsGrow, exec' = exec, call' = call,
           \A q \in Servers, j \in Ids :
               exec[q][j].pc # "no" /\ exec[q][j].via = "routed" => adm'[q][j] = adm[q][j]
    PROVE  exec' \in [Servers -> [Ids -> Execs]] /\ ExecsOk'
<1>1. ASSUME NEW q \in Servers, NEW j \in Ids
      PROVE  ExecOk(row', call', adm'[q][j], q, j, exec'[q][j])
  <2>1. ExecOk(row, call, adm[q][j], q, j, exec[q][j])
    BY DEF TalkOk, ExecsOk
  <2>2. exec[q][j].pc # "no" /\ exec[q][j].via # "routed" => call'[exec[q][j].via] = call[exec[q][j].via]
    OBVIOUS
  <2>3. exec[q][j].pc # "no" /\ exec[q][j].via = "routed" => adm'[q][j] = adm[q][j]
    OBVIOUS
  <2> QED
    BY <2>1, <2>2, <2>3, ExecGrows
<1> QED
  BY <1>1 DEF ExecsOk, TalkOk, TalkTyped

\* What is known of the commands at work when one of them is admitted, or given back.
LEMMA AdmPut ==
    ASSUME TalkOk, NEW p \in Servers, NEW i \in Ids, NEW m \in Command \cup {None},
           m # None => m.id = i, adm' = [adm EXCEPT ![p][i] = m]
    PROVE  /\ adm' \in [Servers -> [Ids -> Command \cup {None}]] /\ AdmOk' /\ adm'[p][i] = m
           /\ \A q \in Servers, j \in Ids : q # p \/ j # i => adm'[q][j] = adm[q][j]
<1>1. /\ adm' \in [Servers -> [Ids -> Command \cup {None}]] /\ adm'[p][i] = m
      /\ \A q \in Servers, j \in Ids : q # p \/ j # i => adm'[q][j] = adm[q][j]
  BY PutAt DEF TalkOk, TalkTyped
<1>2. AdmOk'
  BY <1>1 DEF TalkOk, AdmOk
<1> QED
  BY <1>1, <1>2

\* What the invariant says of a command at work and its execution.
LEMMA WorkFacts ==
    ASSUME RecordsInv, NEW p \in Servers, NEW i \in Ids
    PROVE  /\ exec[p][i] \in Execs /\ ExecOk(row, call, adm[p][i], p, i, exec[p][i])
           /\ adm[p][i] # None => adm[p][i] \in Command /\ adm[p][i].id = i
           /\ i[1] \in Requests /\ i[2] \in Controls /\ i = <<i[1], i[2]>>
           /\ TalkOk
  BY IdFacts DEF RecordsInv, TalkOk, TalkTyped, ExecsOk, AdmOk

\* Replies to commands.
LEMMA ReplyFacts ==
    ASSUME NEW m \in Command, NEW ok \in BOOLEAN
    PROVE  /\ ReplyTo(m, ok) \in Reply /\ ReplyTo(m, ok).ok = ok /\ ReplyTo(m, ok).id = m.id
           /\ ReplyTo(m, ok).a = m.a
  BY DEF ReplyTo, Command, Reply

\* A call that goes on has not returned.
LEMMA GotoRec ==
    ASSUME RecordsInv, NEW c \in Calls, call[c].pc = "ref", NEW pc \in {"lead", "follow"}
    PROVE  LET r == [call[c] EXCEPT !.pc = pc]
           IN  /\ r \in CallRecs /\ CallOk(row, r) /\ r.pc = pc /\ r.srv = call[c].srv
               /\ r.d = call[c].d /\ r.k = call[c].k /\ r.a = call[c].a
               /\ Goto(c, pc) => call' = [call EXCEPT ![c] = r]
<1> DEFINE r == [call[c] EXCEPT !.pc = pc]
<1>1. call[c] \in CallRecs /\ CallOk(row, call[c]) /\ call \in [Calls -> CallRecs]
  BY CallFacts DEF RecordsInv, TalkOk, TalkTyped
<1>2. /\ r \in CallRecs /\ r.pc = pc /\ r.out = call[c].out /\ r.srv = call[c].srv
      /\ r.d = call[c].d /\ r.k = call[c].k /\ r.a = call[c].a
  BY <1>1 DEF CallRecs
<1>3. Goto(c, pc) => call' = [call EXCEPT ![c] = r]
  BY <1>1 DEF Goto, CallRecs
<1> HIDE DEF r
<1>4. CallOk(row, r)
  BY <1>1, <1>2, NoneFacts DEF CallOk, Outcomes
<1>5. /\ r \in CallRecs /\ CallOk(row, r) /\ r.pc = pc /\ r.srv = call[c].srv
      /\ r.d = call[c].d /\ r.k = call[c].k /\ r.a = call[c].a
      /\ Goto(c, pc) => call' = [call EXCEPT ![c] = r]
  BY <1>2, <1>3, <1>4
<1> QED
  BY <1>5 DEF r

\* A call that leads the execution of its id in its own process.
LEMMA LeadKeeps ==
    ASSUME RecordsInv, NEW c \in Calls, call[c].pc = "ref", ref # None, Goto(c, "lead"),
           exec' = [exec EXCEPT ![call[c].srv][IdOf(c)] =
                       [pc |-> "check", tok |-> ref.tok, a |-> call[c].a, via |-> c]],
           UNCHANGED <<row, run, up, own, ref, net, adm, res, cont, fin, ran>>, spent' \subseteq Faults
    PROVE  RecordsInv'
<1> DEFINE r == [call[c] EXCEPT !.pc = "lead"]
           e == [pc |-> "check", tok |-> ref.tok, a |-> call[c].a, via |-> c]
           p == call[c].srv
           i == IdOf(c)
<1>1. /\ r \in CallRecs /\ CallOk(row, r) /\ r.pc = "lead" /\ r.srv = p
      /\ r.d = call[c].d /\ r.k = call[c].k /\ r.a = call[c].a /\ call' = [call EXCEPT ![c] = r]
  BY GotoRec
<1>2. /\ p \in Servers /\ i \in Ids /\ i[1] = call[c].d /\ i[2] = call[c].k /\ call[c].a \in Answers
  BY CallFacts DEF CallOk
<1>3. ref.tok \in 0..MaxToken
  BY NoneFacts DEF RecordsInv, RestTyped, Refs, Tokens
<1>4. /\ e \in Execs /\ e.pc = "check" /\ e.a = call[c].a /\ e.via = c
  BY <1>2, <1>3 DEF Execs
<1>5. e # NoExec
  BY <1>4 DEF NoExec
<1>6. exec' = [exec EXCEPT ![p][i] = e]
  OBVIOUS
<1> HIDE DEF r, e, p, i
<1>7. RowTyped' /\ RowsMatch' /\ RestTyped' /\ RowsGrow /\ TalkOk
  BY RestKept DEF RecordsInv
<1>8. /\ call' \in [Calls -> CallRecs] /\ \A g \in Calls : CallOk(row', call'[g])
      /\ \A g \in Calls : call[g].pc = "lead" =>
             \/ call'[g] = call[g]
             \/ call[g].srv = p /\ call[g].d = i[1] /\ call[g].k = i[2]
      /\ call'[c] = r
  BY <1>1 DEF RecordsInv, TalkOk, TalkTyped, CallsOk
<1>9. ExecOk(row', call', adm'[p][i], p, i, e)
  BY <1>1, <1>2, <1>4, <1>5, <1>8, NoneFacts DEF ExecOk
<1>10. exec' \in [Servers -> [Ids -> Execs]] /\ ExecsOk'
  <2>1. \A q \in Servers, j \in Ids :
          (q # p \/ j # i) /\ exec[q][j].pc # "no" /\ exec[q][j].via = "routed" => adm'[q][j] = adm[q][j]
    OBVIOUS
  <2> QED
    BY <1>2, <1>4, <1>6, <1>7, <1>8, <1>9, <2>1, ExecsPut
<1>11. /\ adm' \in [Servers -> [Ids -> Command \cup {None}]] /\ AdmOk'
       /\ res' \in [Ids -> Answers \cup {None}] /\ ResOk'
       /\ net' \subseteq Command \cup Reply
       /\ \A m \in net' : m \in net \/ (m.kind = "reply" /\ m.ok => DecidedIn(row', m.id, m.a))
  BY <1>7 DEF TalkOk, TalkTyped, AdmOk, ResOk
<1>12. TalkOk'
  BY <1>7, <1>8, <1>10, <1>11, TalkRenewed
<1> QED
  BY <1>7, <1>12 DEF RecordsInv

\* A call that is sent to the owner.
LEMMA SendKeeps ==
    ASSUME RecordsInv, NEW c \in Calls, call[c].pc = "ref", ref # None, SendTo(c, ref.srv),
           UNCHANGED <<row, run, up, own, ref, adm, exec, res, cont, fin, ran>>, spent' \subseteq Faults
    PROVE  RecordsInv'
<1>1. /\ call[c] \in CallRecs /\ CallOk(row, call[c]) /\ call[c].srv \in Servers /\ IdOf(c) \in Ids
      /\ call[c].a \in Answers /\ call[c].out = None /\ call \in [Calls -> CallRecs]
  BY CallFacts DEF CallOk, RecordsInv, TalkOk, TalkTyped
<1>2. ref.srv \in Servers /\ ref.tok \in Tokens /\ ref.tok \in 0..MaxToken
  BY NoneFacts DEF RecordsInv, RestTyped, Refs, Tokens
<1>3. RowTyped' /\ RowsMatch' /\ RestTyped' /\ RowsGrow /\ TalkOk
  BY RestKept DEF RecordsInv
<1>4. CASE ref.srv \in up
  <2> DEFINE r == [call[c] EXCEPT !.pc = "wait", !.tok = ref.tok, !.to = ref.srv]
             n == [CommandOf(c) EXCEPT !.tok = ref.tok, !.to = ref.srv]
  <2>1. /\ call' = [call EXCEPT ![c].pc = "wait", ![c].tok = ref.tok, ![c].to = ref.srv]
        /\ net' = net \cup {n}
    BY <1>4 DEF SendTo
  <2>2. call' = [call EXCEPT ![c] = r]
    BY <1>1, <2>1 DEF CallRecs
  <2>3. n \in Command /\ n.kind = "cmd"
    BY <1>1, <1>2 DEF CommandOf, Command
  <2>4. /\ r \in CallRecs /\ r.pc = "wait" /\ r.tok = ref.tok /\ r.to = ref.srv /\ r.out = None
        /\ r.srv = call[c].srv /\ r.d = call[c].d /\ r.k = call[c].k /\ r.a = call[c].a
    BY <1>1, <1>2 DEF CallRecs
  <2> HIDE DEF r, n
  <2>5. CallOk(row, r)
    BY <1>1, <1>2, <2>4, NoneFacts DEF CallOk, Outcomes
  <2>6. /\ call' \in [Calls -> CallRecs] /\ \A g \in Calls : CallOk(row', call'[g])
        /\ \A g \in Calls : call[g].pc = "lead" => call'[g] = call[g]
    BY <2>2, <2>4, <2>5 DEF RecordsInv, TalkOk, TalkTyped, CallsOk
  <2>7. /\ net' \subseteq Command \cup Reply
        /\ \A m \in net' : m \in net \/ (m.kind = "reply" /\ m.ok => DecidedIn(row', m.id, m.a))
    BY <2>1, <2>3 DEF RecordsInv, TalkOk, TalkTyped
  <2>8. TalkOk'
    BY <1>3, <2>6, <2>7, TalkKept
  <2> QED
    BY <1>3, <2>8 DEF RecordsInv
<1>5. CASE ref.srv \notin up
  <2>1. /\ Done(c, "failed") /\ net' = net /\ "failed" \in Outcomes
        /\ "failed" \in {"applied", "replayed"} => DecidedIn(row, IdOf(c), call[c].a)
        /\ call[c].pc \notin {"idle", "lead"}
    BY <1>5 DEF SendTo, Outcomes
  <2> QED
    BY <2>1, DoneKeeps
<1> QED
  BY <1>4, <1>5

\* A call is executed here, sent to the owner, or fails.
LEMMA RouteKeeps ==
    ASSUME RecordsInv, NEW c \in Calls, Route(c), spent' \subseteq Faults
    PROVE  RecordsInv'
<1> DEFINE p == call[c].srv
           i == IdOf(c)
<1>1. /\ call[c].pc = "ref" /\ UNCHANGED <<row, run, up, own, ref, adm, res, cont, fin, ran>>
      /\ call[c].pc \notin {"idle", "lead"}
  BY DEF Route
<1>2. CASE ref = None
  <2>1. /\ Done(c, "failed") /\ UNCHANGED <<net, exec>> /\ "failed" \in Outcomes
        /\ "failed" \in {"applied", "replayed"} => DecidedIn(row, IdOf(c), call[c].a)
    BY <1>2 DEF Route, Outcomes
  <2> QED
    BY <1>1, <2>1, DoneKeeps
<1>3. CASE ref # None /\ ref.srv = p
  <2>1. RunHere(c) /\ net' = net
    BY <1>3 DEF Route
  <2>2. CASE exec[p][i] # NoExec
    <3> DEFINE r == [call[c] EXCEPT !.pc = "follow"]
    <3>1. Goto(c, "follow") /\ exec' = exec
      BY <2>1, <2>2 DEF RunHere
    <3>2. r \in CallRecs /\ CallOk(row, r) /\ call' = [call EXCEPT ![c] = r]
      BY <1>1, <3>1, GotoRec
    <3> HIDE DEF r
    <3> QED
      BY <1>1, <2>1, <3>1, <3>2, CallStepKeeps
  <2>3. CASE exec[p][i] = NoExec /\ res[i] # None
    <3> DEFINE out == AppliedOr(c, res[i])
    <3>1. Done(c, out) /\ exec' = exec
      BY <2>1, <2>3 DEF RunHere
    <3>2. /\ out \in Outcomes
          /\ out \in {"applied", "replayed"} => DecidedIn(row, IdOf(c), call[c].a)
      BY <1>1, <2>3, AppliedFacts
    <3> HIDE DEF out
    <3> QED
      BY <1>1, <2>1, <3>1, <3>2, DoneKeeps
  <2>4. CASE exec[p][i] = NoExec /\ res[i] = None
    <3>1. /\ Goto(c, "lead")
          /\ exec' = [exec EXCEPT ![call[c].srv][IdOf(c)] =
                         [pc |-> "check", tok |-> ref.tok, a |-> call[c].a, via |-> c]]
      BY <2>1, <2>4 DEF RunHere
    <3> QED
      BY <1>1, <1>3, <2>1, <3>1, LeadKeeps
  <2> QED
    BY <2>2, <2>3, <2>4
<1>4. CASE ref # None /\ ref.srv # p
  <2>1. SendTo(c, ref.srv) /\ exec' = exec
    BY <1>4 DEF Route
  <2> QED
    BY <1>1, <1>4, <2>1, SendKeeps
<1> QED
  BY <1>2, <1>3, <1>4

\* The loop admits a command, drops a repetition, or answers that it is busy.
LEMMA ReceiveKeeps ==
    ASSUME RecordsInv, NEW p \in Servers, NEW m \in net, Receive(p, m), spent' \subseteq Faults
    PROVE  RecordsInv'
<1>1. /\ m.kind = "cmd" /\ UNCHANGED <<row, run, up, own, ref, exec, res, call, cont, fin, ran>>
  BY DEF Receive
<1>2. m \in Command /\ m.id \in Ids /\ TalkOk
  BY <1>1 DEF RecordsInv, TalkOk, TalkTyped, Command, Reply
<1>3. RowTyped' /\ RowsMatch' /\ RestTyped' /\ RowsGrow
  BY <1>1, RestKept
<1>4. /\ call' \in [Calls -> CallRecs] /\ \A g \in Calls : CallOk(row', call'[g])
      /\ \A g \in Calls : call[g].pc = "lead" => call'[g] = call[g]
      /\ res' \in [Ids -> Answers \cup {None}] /\ ResOk'
  BY <1>1, <1>2 DEF TalkOk, TalkTyped, CallsOk, ResOk
<1>5. /\ net' \subseteq Command \cup Reply
      /\ \A n \in net' : n \in net \/ (n.kind = "reply" /\ n.ok => DecidedIn(row', n.id, n.a))
  <2>1. ReplyTo(m, FALSE) \in Reply /\ ~ReplyTo(m, FALSE).ok
    BY <1>2, ReplyFacts
  <2>2. \A n \in net' : n \in net \/ n = ReplyTo(m, FALSE)
    BY DEF Receive
  <2> QED
    BY <1>2, <2>1, <2>2 DEF TalkOk, TalkTyped
<1>6. CASE adm' = adm
  <2>1. TalkOk'
    BY <1>1, <1>2, <1>3, <1>4, <1>5, <1>6, TalkKept
  <2> QED
    BY <1>3, <2>1 DEF RecordsInv
<1>7. CASE adm' # adm
  <2>1. adm[p][m.id] = None /\ adm' = [adm EXCEPT ![p][m.id] = m]
    BY <1>7 DEF Receive
  <2>2. /\ adm' \in [Servers -> [Ids -> Command \cup {None}]] /\ AdmOk'
        /\ \A q \in Servers, j \in Ids : q # p \/ j # m.id => adm'[q][j] = adm[q][j]
    BY <1>2, <2>1, AdmPut, ZenonT(60)
  <2>3. \A q \in Servers, j \in Ids :
          exec[q][j].pc # "no" /\ exec[q][j].via = "routed" => adm'[q][j] = adm[q][j]
    BY <2>1, <2>2, WorkFacts DEF ExecOk
  <2>4. exec' \in [Servers -> [Ids -> Execs]] /\ ExecsOk'
    BY <1>1, <1>2, <1>3, <2>3, ExecsStay
  <2>5. TalkOk'
    BY <1>2, <1>3, <1>4, <1>5, <2>2, <2>4, TalkRenewed
  <2> QED
    BY <1>3, <2>5 DEF RecordsInv
<1> QED
  BY <1>6, <1>7

\* A command at work is answered with the stored result and given back.
LEMMA AnswerRouted ==
    ASSUME RecordsInv, NEW p \in Servers, NEW i \in Ids, adm[p][i] # None, exec[p][i] = NoExec,
           net' = net \cup {ReplyTo(adm[p][i], res[i] = adm[p][i].a)},
           adm' = [adm EXCEPT ![p][i] = None],
           UNCHANGED <<row, run, up, own, ref, exec, res, call, cont, fin, ran>>, spent' \subseteq Faults
    PROVE  RecordsInv'
<1> DEFINE m == adm[p][i]
           n == ReplyTo(m, res[i] = m.a)
<1>1. m \in Command /\ m.id = i /\ TalkOk /\ m.a \in Answers
  BY WorkFacts DEF Command
<1>2. RowTyped' /\ RowsMatch' /\ RestTyped' /\ RowsGrow /\ row' = row
  BY RestKept
<1>3. /\ call' \in [Calls -> CallRecs] /\ \A g \in Calls : CallOk(row', call'[g])
      /\ res' \in [Ids -> Answers \cup {None}] /\ ResOk'
  BY <1>1 DEF TalkOk, TalkTyped, CallsOk, ResOk
<1>4. n \in Reply /\ (n.ok => DecidedIn(row', n.id, n.a))
  <2>1. n \in Reply /\ n.id = i /\ n.a = m.a /\ n.ok = (res[i] = m.a)
    BY <1>1, ReplyFacts
  <2>2. res[i] = m.a => DecidedIn(row, i, m.a)
    BY <1>1, NoneFacts DEF TalkOk, ResOk
  <2> QED
    BY <1>2, <2>1, <2>2
<1>5. /\ net' \subseteq Command \cup Reply
      /\ \A x \in net' : x \in net \/ (x.kind = "reply" /\ x.ok => DecidedIn(row', x.id, x.a))
  <2>1. net' = net \cup {n} /\ net \subseteq Command \cup Reply
    BY <1>1 DEF TalkOk, TalkTyped
  <2> HIDE DEF n
  <2> QED
    BY <1>4, <2>1
<1>6. /\ adm' \in [Servers -> [Ids -> Command \cup {None}]] /\ AdmOk'
      /\ \A q \in Servers, j \in Ids : q # p \/ j # i => adm'[q][j] = adm[q][j]
  BY <1>1, AdmPut, ZenonT(60)
<1>7. exec' \in [Servers -> [Ids -> Execs]] /\ ExecsOk'
  <2>1. exec[p][i].pc = "no"
    BY DEF NoExec
  <2>2. \A q \in Servers, j \in Ids :
          exec[q][j].pc # "no" /\ exec[q][j].via = "routed" => adm'[q][j] = adm[q][j]
    BY <1>6, <2>1
  <2> QED
    BY <1>1, <1>2, <2>2, ExecsStay
<1>8. TalkOk'
  BY <1>1, <1>2, <1>3, <1>5, <1>6, <1>7, TalkRenewed
<1> QED
  BY <1>2, <1>8 DEF RecordsInv

\* A worker begins to execute its command, or answers with the stored result.
LEMMA BeginRoutedKeeps ==
    ASSUME RecordsInv, NEW p \in Servers, NEW i \in Ids, BeginRouted(p, i), spent' \subseteq Faults
    PROVE  RecordsInv'
<1> DEFINE m == adm[p][i]
           e == [pc |-> "check", tok |-> m.tok, a |-> m.a, via |-> "routed"]
<1>1. /\ m # None /\ exec[p][i] = NoExec
      /\ UNCHANGED <<row, run, up, own, ref, res, call, cont, fin, ran>>
  BY DEF BeginRouted
<1>2. /\ m \in Command /\ m.id = i /\ TalkOk /\ m.a \in Answers /\ m.tok \in 0..MaxToken
  BY <1>1, WorkFacts, NoneFacts DEF Command, Tokens
<1>3. CASE res[i] # None
  <2>1. /\ net' = net \cup {ReplyTo(adm[p][i], res[i] = adm[p][i].a)}
        /\ adm' = [adm EXCEPT ![p][i] = None] /\ exec' = exec
    BY <1>3 DEF BeginRouted
  <2> QED
    BY <1>1, <2>1, AnswerRouted
<1>4. CASE res[i] = None
  <2>1. exec' = [exec EXCEPT ![p][i] = e] /\ net' = net /\ adm' = adm
    BY <1>4 DEF BeginRouted
  <2>2. e \in Execs /\ e.pc = "check" /\ e.a = m.a /\ e.via = "routed"
    BY <1>2 DEF Execs
  <2>3. e # NoExec
    BY <2>2 DEF NoExec
  <2> HIDE DEF e
  <2>4. RowTyped' /\ RowsMatch' /\ RestTyped' /\ RowsGrow
    BY <1>1, RestKept
  <2>5. ExecOk(row', call', adm'[p][i], p, i, e)
    BY <1>1, <1>2, <2>1, <2>2, <2>3 DEF ExecOk
  <2>6. exec' \in [Servers -> [Ids -> Execs]] /\ ExecsOk'
    <3>1. \A q \in Servers, j \in Ids : (q # p \/ j # i) /\ exec[q][j].pc # "no"
            /\ exec[q][j].via = "routed" => adm'[q][j] = adm[q][j]
      BY <2>1
    <3>2. \A c \in Calls : call[c].pc = "lead" =>
            \/ call'[c] = call[c]
            \/ call[c].srv = p /\ call[c].d = i[1] /\ call[c].k = i[2]
      BY <1>1
    <3> QED
      BY <1>2, <2>1, <2>2, <2>4, <2>5, <3>1, <3>2, ExecsPut
  <2>7. /\ call' \in [Calls -> CallRecs] /\ \A g \in Calls : CallOk(row', call'[g])
        /\ adm' \in [Servers -> [Ids -> Command \cup {None}]] /\ AdmOk'
        /\ res' \in [Ids -> Answers \cup {None}] /\ ResOk'
        /\ net' \subseteq Command \cup Reply
        /\ \A x \in net' : x \in net \/ (x.kind = "reply" /\ x.ok => DecidedIn(row', x.id, x.a))
    BY <1>1, <1>2, <2>1 DEF TalkOk, TalkTyped, AdmOk, ResOk, CallsOk
  <2>8. TalkOk'
    BY <1>2, <2>4, <2>6, <2>7, TalkRenewed
  <2> QED
    BY <2>4, <2>8 DEF RecordsInv
<1> QED
  BY <1>3, <1>4

\* A worker that finds its id executed waits, and answers with the result.
LEMMA FollowRoutedKeeps ==
    ASSUME RecordsInv, NEW p \in Servers, NEW i \in Ids, FollowRouted(p, i), spent' \subseteq Faults
    PROVE  RecordsInv'
<1> DEFINE m == adm[p][i]
           n == [m EXCEPT !.kind = "follow"]
<1>1. /\ m # None /\ UNCHANGED <<row, run, up, own, ref, exec, res, call, cont, fin, ran>>
  BY DEF FollowRouted
<1>2. /\ m \in Command /\ m.id = i /\ TalkOk /\ adm \in [Servers -> [Ids -> Command \cup {None}]]
  BY <1>1, WorkFacts DEF TalkOk, TalkTyped
<1>3. CASE /\ m.kind = "follow" /\ exec[p][i] = NoExec
           /\ net' = net \cup {ReplyTo(m, res[i] = m.a)} /\ adm' = [adm EXCEPT ![p][i] = None]
  BY <1>1, <1>3, AnswerRouted
<1>4. CASE /\ exec[p][i].via \in Calls /\ adm' = [adm EXCEPT ![p][i].kind = "follow"] /\ net' = net
  <2>1. adm' = [adm EXCEPT ![p][i] = n]
    BY <1>2, <1>4
  <2>2. n \in Command \cup {None} /\ (n # None => n.id = i)
    BY <1>2 DEF Command
  <2> HIDE DEF n
  <2>3. RowTyped' /\ RowsMatch' /\ RestTyped' /\ RowsGrow
    BY <1>1, RestKept
  <2>4. /\ adm' \in [Servers -> [Ids -> Command \cup {None}]] /\ AdmOk'
        /\ \A q \in Servers, j \in Ids : q # p \/ j # i => adm'[q][j] = adm[q][j]
    <3>1. TalkOk
      BY <1>2
    <3> QED
      BY <2>1, <2>2, <3>1, AdmPut, ZenonT(60)
  <2>5. exec' \in [Servers -> [Ids -> Execs]] /\ ExecsOk'
    <3>1. \A q \in Servers, j \in Ids :
            exec[q][j].pc # "no" /\ exec[q][j].via = "routed" => adm'[q][j] = adm[q][j]
      BY <1>4, <2>4, NoneFacts
    <3> QED
      BY <1>1, <1>2, <2>3, <3>1, ExecsStay
  <2>6. /\ call' \in [Calls -> CallRecs] /\ \A g \in Calls : CallOk(row', call'[g])
        /\ res' \in [Ids -> Answers \cup {None}] /\ ResOk'
        /\ net' \subseteq Command \cup Reply
        /\ \A x \in net' : x \in net \/ (x.kind = "reply" /\ x.ok => DecidedIn(row', x.id, x.a))
    BY <1>1, <1>2, <1>4 DEF TalkOk, TalkTyped, ResOk, CallsOk
  <2>7. TalkOk'
    BY <1>2, <2>3, <2>4, <2>5, <2>6, TalkRenewed
  <2> QED
    BY <2>3, <2>7 DEF RecordsInv
<1> QED
  BY <1>3, <1>4 DEF FollowRouted

\* The end of an execution: the sender of the command, or the call that led it, is told
\* that the answer was applied only when it was recorded.
LEMMA ConcludeKeeps ==
    ASSUME RecordsInv, NEW p \in Servers, NEW i \in Ids, exec[p][i].pc # "no",
           NEW ok \in BOOLEAN, NEW a, Conclude(p, i, ok, a),
           RowsGrow, ok /\ a = exec[p][i].a => DecidedIn(row', i, exec[p][i].a),
           res' \in [Ids -> Answers \cup {None}], ResOk'
    PROVE  TalkOk'
<1> DEFINE e == exec[p][i]
<1>1. /\ TalkOk /\ e \in Execs /\ ExecOk(row, call, adm[p][i], p, i, e)
      /\ e.a \in Answers /\ e.via \in Calls \cup {"routed"}
  BY WorkFacts DEF ExecOk
<1>2. exec' = [exec EXCEPT ![p][i] = NoExec]
  BY DEF Conclude
<1>3. NoExec \in Execs /\ NoExec.pc = "no"
  BY NoneFacts DEF NoExec, Execs
<1>4. ExecOk(row', call', adm'[p][i], p, i, NoExec)
  BY <1>3 DEF ExecOk
<1>5. \A c \in Calls : CallOk(row', call[c])
  BY <1>1, RecordedGrows
<1>6. CASE e.via = "routed"
  <2> DEFINE m == adm[p][i]
             n == ReplyTo(m, ok /\ a = e.a)
  <2>1. net' = net \cup {n} /\ adm' = [adm EXCEPT ![p][i] = None] /\ call' = call
    BY <1>6 DEF Conclude
  <2>2. m \in Command /\ m.id = i /\ m.a = e.a
    BY <1>1, <1>6, WorkFacts DEF ExecOk
  <2>3. n \in Reply /\ n.ok = (ok /\ a = e.a) /\ n.id = i /\ n.a = e.a
    BY <2>2, ReplyFacts
  <2> HIDE DEF n
  <2>4. /\ net' \subseteq Command \cup Reply
        /\ \A x \in net' : x \in net \/ (x.kind = "reply" /\ x.ok => DecidedIn(row', x.id, x.a))
    BY <1>1, <2>1, <2>3 DEF TalkOk, TalkTyped
  <2>5. /\ adm' \in [Servers -> [Ids -> Command \cup {None}]] /\ AdmOk'
        /\ \A q \in Servers, j \in Ids : q # p \/ j # i => adm'[q][j] = adm[q][j]
    <3>1. TalkOk /\ None \in Command \cup {None} /\ adm' = [adm EXCEPT ![p][i] = None]
      BY <1>1, <2>1
    <3> QED
      BY <3>1, AdmPut, ZenonT(60)
  <2>6. exec' \in [Servers -> [Ids -> Execs]] /\ ExecsOk'
    <3>1. \A q \in Servers, j \in Ids : (q # p \/ j # i) /\ exec[q][j].pc # "no"
            /\ exec[q][j].via = "routed" => adm'[q][j] = adm[q][j]
      BY <2>5
    <3>2. \A c \in Calls : call[c].pc = "lead" =>
            \/ call'[c] = call[c]
            \/ call[c].srv = p /\ call[c].d = i[1] /\ call[c].k = i[2]
      BY <2>1
    <3> QED
      BY <1>1, <1>2, <1>3, <1>4, <3>1, <3>2, ExecsPut
  <2>7. call' \in [Calls -> CallRecs] /\ \A c \in Calls : CallOk(row', call'[c])
    BY <1>1, <1>5, <2>1 DEF TalkOk, TalkTyped
  <2> QED
    BY <1>1, <2>4, <2>5, <2>6, <2>7, TalkRenewed
<1>7. CASE e.via # "routed"
  <2> DEFINE v == e.via
             out == IF ~ok THEN "failed" ELSE IF a = e.a THEN "applied" ELSE "conflict"
             r == [call[v] EXCEPT !.pc = "done", !.out = out]
  <2>1. Done(v, out) /\ net' = net /\ adm' = adm
    BY <1>7 DEF Conclude
  <2>2. /\ v \in Calls /\ call[v].pc = "lead" /\ call[v].srv = p /\ call[v].d = i[1]
        /\ call[v].k = i[2] /\ call[v].a = e.a
    BY <1>1, <1>7 DEF ExecOk
  <2> HIDE DEF v
  <2>3. /\ call[v] \in CallRecs /\ CallOk(row, call[v]) /\ call \in [Calls -> CallRecs]
        /\ out \in Outcomes /\ (out \in {"applied", "replayed"} => DecidedIn(row', i, e.a))
    BY <1>1, <2>2 DEF TalkOk, TalkTyped, CallsOk, Outcomes
  <2> HIDE DEF out
  <2>4. call' = [call EXCEPT ![v] = r]
    BY <2>1, <2>2, <2>3 DEF Done, CallRecs
  <2>5. /\ r \in CallRecs /\ r.pc = "done" /\ r.out = out /\ r.srv = p
        /\ r.d = i[1] /\ r.k = i[2] /\ r.a = e.a
    BY <2>2, <2>3 DEF CallRecs
  <2> HIDE DEF r
  <2>6. CallOk(row', r)
    <3>1. <<r.d, r.k>> = i /\ r.d \in Requests /\ r.k \in Controls
      BY <2>5, IdFacts
    <3> QED
      BY <1>1, <2>3, <2>5, <3>1 DEF CallOk
  <2>7. /\ call' \in [Calls -> CallRecs] /\ \A c \in Calls : CallOk(row', call'[c])
        /\ \A c \in Calls : c # v => call'[c] = call[c]
    BY <1>5, <2>2, <2>3, <2>4, <2>5, <2>6
  <2>8. exec' \in [Servers -> [Ids -> Execs]] /\ ExecsOk'
    <3>1. \A q \in Servers, j \in Ids : (q # p \/ j # i) /\ exec[q][j].pc # "no"
            /\ exec[q][j].via = "routed" => adm'[q][j] = adm[q][j]
      BY <2>1
    <3>2. \A c \in Calls : call[c].pc = "lead" =>
            \/ call'[c] = call[c]
            \/ call[c].srv = p /\ call[c].d = i[1] /\ call[c].k = i[2]
      BY <2>2, <2>7
    <3> QED
      BY <1>1, <1>2, <1>3, <1>4, <3>1, <3>2, ExecsPut
  <2>9. /\ adm' \in [Servers -> [Ids -> Command \cup {None}]] /\ AdmOk'
        /\ net' \subseteq Command \cup Reply
        /\ \A x \in net' : x \in net \/ (x.kind = "reply" /\ x.ok => DecidedIn(row', x.id, x.a))
    BY <1>1, <2>1 DEF TalkOk, TalkTyped, AdmOk
  <2> QED
    BY <1>1, <2>7, <2>8, <2>9, TalkRenewed
<1> QED
  BY <1>6, <1>7

\* An execution is checked, and goes on or ends without an answer.
LEMMA ExecMoves ==
    ASSUME RecordsInv, NEW p \in Servers, NEW i \in Ids, exec[p][i].pc # "no",
           NEW pc \in {"commit", "store"}, exec' = [exec EXCEPT ![p][i].pc = pc],
           RowsGrow, pc = "store" => DecidedIn(row', i, exec[p][i].a),
           UNCHANGED <<net, adm, call, res>>
    PROVE  TalkOk'
<1> DEFINE e == exec[p][i]
           f == [e EXCEPT !.pc = pc]
<1>1. /\ TalkOk /\ e \in Execs /\ ExecOk(row, call, adm[p][i], p, i, e)
      /\ exec \in [Servers -> [Ids -> Execs]]
  BY WorkFacts DEF TalkOk, TalkTyped
<1>2. exec' = [exec EXCEPT ![p][i] = f]
  BY <1>1 DEF Execs
<1>3. f \in Execs /\ f.pc = pc /\ f.a = e.a /\ f.via = e.via
  BY <1>1 DEF Execs
<1>4. f # NoExec
  BY <1>3 DEF NoExec
<1> HIDE DEF f
<1>5. ExecOk(row', call', adm'[p][i], p, i, f)
  BY <1>1, <1>3, <1>4 DEF ExecOk
<1>6. exec' \in [Servers -> [Ids -> Execs]] /\ ExecsOk'
  <2>1. \A q \in Servers, j \in Ids : (q # p \/ j # i) /\ exec[q][j].pc # "no"
          /\ exec[q][j].via = "routed" => adm'[q][j] = adm[q][j]
    OBVIOUS
  <2>2. \A c \in Calls : call[c].pc = "lead" =>
          \/ call'[c] = call[c]
          \/ call[c].srv = p /\ call[c].d = i[1] /\ call[c].k = i[2]
    OBVIOUS
  <2> QED
    BY <1>1, <1>2, <1>3, <1>5, <2>1, <2>2, ExecsPut
<1>7. /\ call' \in [Calls -> CallRecs] /\ \A g \in Calls : CallOk(row', call'[g])
      /\ res' \in [Ids -> Answers \cup {None}] /\ ResOk'
  BY <1>1, RecordedGrows DEF TalkOk, TalkTyped, ResOk
<1>8. /\ adm' \in [Servers -> [Ids -> Command \cup {None}]] /\ AdmOk'
      /\ net' \subseteq Command \cup Reply
      /\ \A x \in net' : x \in net \/ (x.kind = "reply" /\ x.ok => DecidedIn(row', x.id, x.a))
  BY <1>1 DEF TalkOk, TalkTyped, AdmOk
<1> QED
  BY <1>1, <1>6, <1>7, <1>8, TalkRenewed

\* The transaction of an answer decides a request that was open.
LEMMA CommitRowFacts ==
    ASSUME RecordsInv, NEW i \in Ids, NEW a \in Answers, NEW t, MayCommit(i[1], t), CommitRow(i, a, t)
    PROVE  /\ RowTyped' /\ RowsMatch' /\ RowsGrow /\ DecidedIn(row', i, a)
           /\ run'.st = "running" /\ run'.tok = run.tok /\ run'.abort = run.abort
           /\ run'.phase = [run.phase EXCEPT ![i[1]] = "accepted"]
<1> DEFINE d == i[1]
           n == [st |-> "decided", ans |-> a, ctl |-> i[2], tok |-> t]
           s == [run EXCEPT !.st = "running"]
           ph == [run.phase EXCEPT ![d] = "accepted"]
<1>1. /\ d \in Requests /\ i[2] \in Controls /\ row \in [Requests -> RowRecs] /\ run \in RunRecs
      /\ row[d].st = "pending" /\ row[d].tok = t /\ RowsMatch
  BY IdFacts DEF RecordsInv, RowTyped, MayCommit
<1>2. /\ row' = [row EXCEPT ![d] = n] /\ run' = [run EXCEPT !.st = "running", !.phase[d] = "accepted"]
  BY DEF CommitRow
<1>3. /\ n \in RowRecs /\ n.st = "decided" /\ n.ans = a /\ n.ctl = i[2]
  BY <1>1 DEF RowRecs
<1>4. ph \in [Requests -> {"none", "accepted", "executing"}] /\ ph[d] = "accepted"
      /\ \A x \in Requests : x # d => ph[x] = run.phase[x]
  BY <1>1 DEF RunRecs
<1>5. run' = [run EXCEPT !.st = "running", !.phase = ph]
  BY <1>1, <1>2 DEF RunRecs
<1> HIDE DEF n, ph
<1>6. /\ run' \in RunRecs /\ run'.st = "running" /\ run'.tok = run.tok /\ run'.abort = run.abort
      /\ run'.phase = ph
  BY <1>1, <1>4, <1>5 DEF RunRecs
<1>7. /\ row' \in [Requests -> RowRecs] /\ row'[d] = n /\ \A x \in Requests : x # d => row'[x] = row[x]
  BY <1>1, <1>2, <1>3
<1>8. RowTyped' /\ RowsGrow /\ DecidedIn(row', i, a)
  BY <1>1, <1>3, <1>6, <1>7 DEF RowTyped, RowsGrow, DecidedIn
<1>9. RowsMatch'
  BY <1>1, <1>3, <1>4, <1>6, <1>7 DEF RowsMatch
<1> QED
  BY <1>6, <1>8, <1>9 DEF ph

\* A command is checked before it commits, or answered without.
LEMMA CheckCommandKeeps ==
    ASSUME RecordsInv, NEW p \in Servers, NEW i \in Ids, CheckCommand(p, i), spent' \subseteq Faults
    PROVE  RecordsInv'
<1>1. /\ exec[p][i].pc = "check" /\ exec[p][i].pc # "no"
      /\ UNCHANGED <<row, run, up, own, ref, res, cont, fin, ran>>
  BY DEF CheckCommand
<1>2. RowTyped' /\ RowsMatch' /\ RestTyped' /\ RowsGrow
  BY <1>1, RestKept
<1>3. res' \in [Ids -> Answers \cup {None}] /\ ResOk'
  BY <1>1 DEF RecordsInv, TalkOk, TalkTyped, ResOk
<1>4. CASE exec' = [exec EXCEPT ![p][i].pc = "commit"] /\ UNCHANGED <<net, adm, call>>
  <2>1. "commit" = "store" => DecidedIn(row', i, exec[p][i].a)
    OBVIOUS
  <2>2. UNCHANGED <<net, adm, call, res>>
    BY <1>1, <1>4
  <2>3. TalkOk'
    BY <1>1, <1>2, <1>4, <2>1, <2>2, ExecMoves
  <2> QED
    BY <1>2, <2>3 DEF RecordsInv
<1>5. CASE Conclude(p, i, FALSE, exec[p][i].a)
  <2>1. TalkOk'
    BY <1>1, <1>2, <1>3, <1>5, ConcludeKeeps
  <2> QED
    BY <1>2, <2>1 DEF RecordsInv
<1> QED
  BY <1>4, <1>5 DEF CheckCommand

\* A late command is not applied.
LEMMA CommandLateKeeps ==
    ASSUME RecordsInv, NEW p \in Servers, NEW i \in Ids, CommandLate(p, i)
    PROVE  RecordsInv'
<1>1. /\ exec[p][i].pc # "no" /\ spent' \subseteq Faults /\ Conclude(p, i, FALSE, exec[p][i].a)
      /\ UNCHANGED <<row, run, up, own, ref, res, cont, fin, ran>>
  BY StrikesFaults DEF CommandLate
<1>2. RowTyped' /\ RowsMatch' /\ RestTyped' /\ RowsGrow
  BY <1>1, RestKept
<1>3. res' \in [Ids -> Answers \cup {None}] /\ ResOk'
  BY <1>1 DEF RecordsInv, TalkOk, TalkTyped, ResOk
<1>4. TalkOk'
  BY <1>1, <1>2, <1>3, ConcludeKeeps
<1> QED
  BY <1>2, <1>4 DEF RecordsInv

\* The owner commits the answer and goes on to store the result, or is refused.
LEMMA CommitAnswerKeeps ==
    ASSUME RecordsInv, NEW p \in Servers, NEW i \in Ids, CommitAnswer(p, i), spent' \subseteq Faults
    PROVE  RecordsInv'
<1> DEFINE e == exec[p][i]
           d == i[1]
<1>1. e.pc = "commit" /\ e.pc # "no" /\ UNCHANGED <<up, own, ref, res, fin, ran>>
  BY DEF CommitAnswer
<1>2. e \in Execs /\ e.a \in Answers /\ d \in Requests /\ e.tok \in 0..MaxToken
  BY <1>1, WorkFacts DEF ExecOk, Execs
<1>3. CASE MayCommit(d, e.tok)
  <2> DEFINE k == [pc |-> "ready", tok |-> e.tok]
  <2>1. /\ CommitRow(i, e.a, e.tok) /\ cont' = [cont EXCEPT ![p][d] = k]
        /\ exec' = [exec EXCEPT ![p][i].pc = "store"] /\ UNCHANGED <<net, adm, call, res>>
    BY <1>1, <1>3 DEF CommitAnswer
  <2>2. RowTyped' /\ RowsMatch' /\ RowsGrow /\ DecidedIn(row', i, e.a)
    BY <1>2, <1>3, <2>1, CommitRowFacts
  <2>3. TalkOk'
    BY <1>1, <2>1, <2>2, ExecMoves
  <2>4. RestTyped'
    <3>1. k \in Conts
      BY <1>2 DEF Conts
    <3> HIDE DEF k
    <3>2. cont' \in [Servers -> [Requests -> Conts]]
      BY <1>2, <2>1, <3>1, PutAt DEF RecordsInv, RestTyped
    <3> QED
      BY <1>1, <3>2 DEF RecordsInv, RestTyped
  <2> QED
    BY <2>2, <2>3, <2>4 DEF RecordsInv
<1>4. CASE ~MayCommit(d, e.tok)
  <2>1. Conclude(p, i, FALSE, exec[p][i].a) /\ UNCHANGED <<row, run, cont>>
    BY <1>4 DEF CommitAnswer
  <2>2. RowTyped' /\ RowsMatch' /\ RestTyped' /\ RowsGrow
    BY <1>1, <2>1, RestKept
  <2>3. res' \in [Ids -> Answers \cup {None}] /\ ResOk'
    BY <1>1, <2>1 DEF RecordsInv, TalkOk, TalkTyped, ResOk
  <2>4. TalkOk'
    BY <1>1, <2>1, <2>2, <2>3, ConcludeKeeps
  <2> QED
    BY <2>2, <2>4 DEF RecordsInv
<1> QED
  BY <1>3, <1>4

\* A commit that took effect unseen: the caller is told of a failure.
LEMMA CommitUnsureKeeps ==
    ASSUME RecordsInv, NEW p \in Servers, NEW i \in Ids, CommitUnsure(p, i)
    PROVE  RecordsInv'
<1> DEFINE e == exec[p][i]
<1>1. /\ e.pc = "commit" /\ e.pc # "no" /\ MayCommit(i[1], e.tok) /\ CommitRow(i, e.a, e.tok)
      /\ Conclude(p, i, FALSE, exec[p][i].a) /\ UNCHANGED <<up, own, ref, res, cont, fin, ran>>
      /\ spent' \subseteq Faults
  BY StrikesFaults DEF CommitUnsure
<1>2. e \in Execs /\ e.a \in Answers
  BY <1>1, WorkFacts DEF ExecOk
<1>3. RowTyped' /\ RowsMatch' /\ RowsGrow
  BY <1>1, <1>2, CommitRowFacts
<1>4. RestTyped'
  BY <1>1 DEF RecordsInv, RestTyped
<1>5. res' \in [Ids -> Answers \cup {None}] /\ ResOk'
  <2>1. \A j \in Ids : res[j] # None => DecidedIn(row', j, res[j])
    BY <1>3, RecordedGrows DEF RecordsInv
  <2> QED
    BY <1>1, <2>1 DEF RecordsInv, TalkOk, TalkTyped, ResOk
<1>6. TalkOk'
  BY <1>1, <1>3, <1>5, ConcludeKeeps
<1> QED
  BY <1>3, <1>4, <1>6 DEF RecordsInv

\* A result is stored for the answer that was committed.
LEMMA StoreResultKeeps ==
    ASSUME RecordsInv, NEW p \in Servers, NEW i \in Ids, StoreResult(p, i), spent' \subseteq Faults
    PROVE  RecordsInv'
<1> DEFINE e == exec[p][i]
           n == IF res[i] = None THEN e.a ELSE res[i]
<1>1. /\ e.pc = "store" /\ e.pc # "no" /\ Conclude(p, i, TRUE, res'[i])
      /\ UNCHANGED <<row, run, up, own, ref, cont, fin, ran>>
      /\ res' = [res EXCEPT ![i] = IF res[i] = None THEN e.a ELSE res[i]]
  BY DEF StoreResult
<1>2. /\ e.a \in Answers /\ DecidedIn(row, i, e.a) /\ TalkOk /\ res \in [Ids -> Answers \cup {None}]
      /\ res' = [res EXCEPT ![i] = n]
  BY <1>1, WorkFacts DEF ExecOk, TalkOk, TalkTyped
<1>3. n \in Answers \cup {None} /\ DecidedIn(row, i, n)
  BY <1>2 DEF TalkOk, ResOk
<1> HIDE DEF n
<1>4. RowTyped' /\ RowsMatch' /\ RestTyped' /\ RowsGrow
  BY <1>1, RestKept
<1>5. res' \in [Ids -> Answers \cup {None}] /\ ResOk'
  BY <1>1, <1>2, <1>3 DEF TalkOk, ResOk
<1>6. DecidedIn(row', i, exec[p][i].a)
  BY <1>1, <1>2
<1>7. TalkOk'
  BY <1>1, <1>4, <1>5, <1>6, ConcludeKeeps
<1> QED
  BY <1>4, <1>7 DEF RecordsInv

\* A result that could not be stored is told all the same.
LEMMA StoreFailsKeeps ==
    ASSUME RecordsInv, NEW p \in Servers, NEW i \in Ids, StoreFails(p, i)
    PROVE  RecordsInv'
<1>1. /\ exec[p][i].pc = "store" /\ exec[p][i].pc # "no" /\ spent' \subseteq Faults
      /\ Conclude(p, i, TRUE, exec[p][i].a)
      /\ UNCHANGED <<row, run, up, own, ref, res, cont, fin, ran>>
  BY StrikesFaults DEF StoreFails
<1>2. RowTyped' /\ RowsMatch' /\ RestTyped' /\ RowsGrow
  BY <1>1, RestKept
<1>3. res' \in [Ids -> Answers \cup {None}] /\ ResOk'
  BY <1>1 DEF RecordsInv, TalkOk, TalkTyped, ResOk
<1>4. DecidedIn(row', i, exec[p][i].a)
  BY <1>1, WorkFacts DEF ExecOk
<1>5. TalkOk'
  BY <1>1, <1>2, <1>3, <1>4, ConcludeKeeps
<1> QED
  BY <1>2, <1>5 DEF RecordsInv

\* A result that expires.
LEMMA ExpireKeeps ==
    ASSUME RecordsInv, NEW i \in Ids, ExpireResult(i)
    PROVE  RecordsInv'
<1>1. /\ res' = [res EXCEPT ![i] = None] /\ spent' \subseteq Faults
      /\ UNCHANGED <<row, run, up, own, ref, cont, fin, ran, net, adm, exec, call>>
  BY StrikesFaults DEF ExpireResult
<1>2. RowTyped' /\ RowsMatch' /\ RestTyped' /\ RowsGrow /\ TalkOk
  BY <1>1, RestKept DEF RecordsInv
<1>3. res' \in [Ids -> Answers \cup {None}] /\ ResOk'
  BY <1>1, <1>2 DEF TalkOk, TalkTyped, ResOk
<1>4. TalkOk'
  BY <1>1, <1>2, <1>3 DEF TalkOk, TalkTyped, CallsOk, NetOk, AdmOk, ExecsOk
<1> QED
  BY <1>2, <1>4 DEF RecordsInv
-----------------------------------------------------------------------------
(* The records are kept by the continuation, the end of the run and recovery *)

\* A step that says nothing about a response and decides nothing.
LEMMA SilentStep ==
    ASSUME RecordsInv, UNCHANGED <<adm, exec, res, call, net>>,
           RowTyped', RowsMatch', RowsGrow, RestTyped'
    PROVE  RecordsInv'
<1>1. TalkOk'
  BY SilentKept DEF RecordsInv
<1> QED
  BY <1>1 DEF RecordsInv

\* The run row changes, but not the checkpoints.
LEMMA RunMoves ==
    ASSUME RecordsInv, row' = row, run' \in RunRecs, run'.phase = run.phase
    PROVE  RowTyped' /\ RowsMatch' /\ RowsGrow
  BY DEF RecordsInv, RowTyped, RowsMatch, RowsGrow

\* The update of a continuation and of the finishing token are of their types.
LEMMA ContFacts ==
    ASSUME RecordsInv, NEW p \in Servers, NEW d \in Requests
    PROVE  /\ cont[p][d] \in Conts /\ cont \in [Servers -> [Requests -> Conts]]
           /\ cont[p][d].tok \in 0..MaxToken
           /\ fin \in [Servers -> 0..MaxToken] /\ own[p] \in 0..MaxToken /\ run \in RunRecs
           /\ row[d] \in RowRecs /\ row \in [Requests -> RowRecs]
           /\ NoCont \in Conts /\ NoCont.pc = "no"
  BY NoneFacts DEF RecordsInv, RestTyped, RowTyped, Conts, NoCont

\* A continuation goes on.
LEMMA ContPcPut ==
    ASSUME RecordsInv, NEW p \in Servers, NEW d \in Requests, NEW pc \in {"tool", "model"},
           cont' = [cont EXCEPT ![p][d].pc = pc]
    PROVE  /\ cont' \in [Servers -> [Requests -> Conts]]
           /\ cont'[p][d].pc = pc /\ cont'[p][d].tok = cont[p][d].tok
           /\ \A q \in Servers, g \in Requests : q # p \/ g # d => cont'[q][g] = cont[q][g]
<1> DEFINE k == [cont[p][d] EXCEPT !.pc = pc]
<1>1. cont[p][d] \in Conts /\ cont \in [Servers -> [Requests -> Conts]]
  BY ContFacts
<1>2. k \in Conts /\ k.pc = pc /\ k.tok = cont[p][d].tok
  BY <1>1 DEF Conts
<1>3. cont' = [cont EXCEPT ![p][d] = k]
  BY <1>1
<1> HIDE DEF k
<1> QED
  BY <1>1, <1>2, <1>3, PutAt

\* A continuation ends.
LEMMA StopFacts ==
    ASSUME RecordsInv, NEW p \in Servers, NEW d \in Requests, StopCont(p, d)
    PROVE  /\ cont' \in [Servers -> [Requests -> Conts]] /\ cont'[p][d] = NoCont
           /\ \A q \in Servers, g \in Requests : q # p \/ g # d => cont'[q][g] = cont[q][g]
<1>1. NoCont \in Conts /\ cont \in [Servers -> [Requests -> Conts]]
  BY ContFacts
<1>2. cont' = [cont EXCEPT ![p][d] = NoCont]
  BY DEF StopCont
<1> QED
  BY <1>1, <1>2, PutAt

\* The owner finishes the run.
LEMMA FinishFacts ==
    ASSUME RecordsInv, NEW p \in Servers, NEW t \in 0..MaxToken, FinishFrom(p, t)
    PROVE  /\ fin' \in [Servers -> 0..MaxToken]
           /\ fin'[p] = IF own[p] = t THEN t ELSE fin[p]
           /\ \A q \in Servers : q # p => fin'[q] = fin[q]
<1>1. fin \in [Servers -> 0..MaxToken]
  BY DEF RecordsInv, RestTyped
<1>2. fin' = [fin EXCEPT ![p] = IF own[p] = t THEN t ELSE fin[p]]
  BY <1>1 DEF FinishFrom
<1> QED
  BY <1>1, <1>2

\* The checkpoint of an approved tool.
LEMMA CheckpointFacts ==
    ASSUME RecordsInv, NEW d \in Requests, run.phase[d] = "accepted", row' = row,
           run' = [run EXCEPT !.phase[d] = "executing"]
    PROVE  /\ RowTyped' /\ RowsMatch' /\ RowsGrow
           /\ run'.st = run.st /\ run'.tok = run.tok /\ run'.abort = run.abort
           /\ run'.phase[d] = "executing" /\ \A x \in Requests : x # d => run'.phase[x] = run.phase[x]
<1> DEFINE ph == [run.phase EXCEPT ![d] = "executing"]
<1>1. run \in RunRecs /\ RowsMatch /\ row \in [Requests -> RowRecs]
  BY DEF RecordsInv, RowTyped
<1>2. /\ ph \in [Requests -> {"none", "accepted", "executing"}] /\ ph[d] = "executing"
      /\ \A x \in Requests : x # d => ph[x] = run.phase[x]
  BY <1>1 DEF RunRecs
<1>3. run' = [run EXCEPT !.phase = ph]
  BY <1>1 DEF RunRecs
<1> HIDE DEF ph
<1>4. /\ run' \in RunRecs /\ run'.st = run.st /\ run'.tok = run.tok /\ run'.abort = run.abort
      /\ run'.phase = ph
  BY <1>1, <1>2, <1>3 DEF RunRecs
<1>5. RowTyped' /\ RowsGrow
  BY <1>1, <1>4 DEF RowTyped, RowsGrow
<1>6. RowsMatch'
  BY <1>1, <1>2, <1>4 DEF RowsMatch
<1> QED
  BY <1>2, <1>4, <1>5, <1>6

\* The run changes its state and nothing else.
LEMMA RunStFacts ==
    ASSUME RecordsInv, NEW st \in {"waiting", "ended"}, run' = [run EXCEPT !.st = st]
    PROVE  /\ run' \in RunRecs /\ run'.st = st /\ run'.tok = run.tok /\ run'.abort = run.abort
           /\ run'.phase = run.phase
<1>1. run \in RunRecs
  BY DEF RecordsInv, RowTyped
<1> QED
  BY <1>1 DEF RunRecs

\* The continuation invokes the tool, or stops.
LEMMA BeginToolKeeps ==
    ASSUME RecordsInv, NEW p \in Servers, NEW d \in Requests, BeginTool(p, d), spent' \subseteq Faults
    PROVE  RecordsInv'
<1> DEFINE k == cont[p][d]
<1>1. UNCHANGED <<row, up, own, ref, net, adm, exec, res, call, ran>> /\ k.tok \in 0..MaxToken
  BY ContFacts DEF BeginTool
<1>2. CASE Holds(k.tok) /\ run.phase[d] = "accepted"
  <2>1. /\ run' = [run EXCEPT !.phase[d] = "executing"] /\ cont' = [cont EXCEPT ![p][d].pc = "tool"]
        /\ fin' = fin
    BY <1>2 DEF BeginTool
  <2>2. RowTyped' /\ RowsMatch' /\ RowsGrow
    BY <1>1, <1>2, <2>1, CheckpointFacts
  <2>3. cont' \in [Servers -> [Requests -> Conts]]
    BY <2>1, ContPcPut
  <2>4. RestTyped'
    BY <1>1, <2>1, <2>3 DEF RecordsInv, RestTyped
  <2> QED
    BY <1>1, <2>2, <2>4, SilentStep
<1>3. CASE ~(Holds(k.tok) /\ run.phase[d] = "accepted")
  <2>1. StopCont(p, d) /\ FinishFrom(p, k.tok) /\ run' = run
    BY <1>3 DEF BeginTool
  <2>2. RowTyped' /\ RowsMatch' /\ RowsGrow
    BY <1>1, <2>1 DEF RecordsInv, RowTyped, RowsMatch, RowsGrow
  <2>3. cont' \in [Servers -> [Requests -> Conts]] /\ fin' \in [Servers -> 0..MaxToken]
    BY <1>1, <2>1, StopFacts, FinishFacts
  <2>4. RestTyped'
    BY <1>1, <2>3 DEF RecordsInv, RestTyped
  <2> QED
    BY <1>1, <2>2, <2>4, SilentStep
<1> QED
  BY <1>2, <1>3

\* The tool runs, or is passed over.
LEMMA ToolStepKeeps ==
    ASSUME RecordsInv, NEW p \in Servers, NEW d \in Requests, RunTool(p, d) \/ SkipTool(p, d),
           spent' \subseteq Faults
    PROVE  RecordsInv'
<1>1. /\ UNCHANGED <<row, run, up, own, ref, net, adm, exec, res, call, fin>>
      /\ cont' = [cont EXCEPT ![p][d].pc = "model"]
      /\ ran' = ran \/ ran' = [ran EXCEPT ![d] = ran[d] + 1]
  BY DEF RunTool, SkipTool, RecordsInv, RestTyped
<1>2. RowTyped' /\ RowsMatch' /\ RowsGrow
  BY <1>1 DEF RecordsInv, RowTyped, RowsMatch, RowsGrow
<1>3. cont' \in [Servers -> [Requests -> Conts]] /\ ran' \in [Requests -> Nat]
  <2>1. cont' \in [Servers -> [Requests -> Conts]]
    BY <1>1, ContPcPut
  <2> QED
    BY <1>1, <2>1 DEF RecordsInv, RestTyped
<1>4. RestTyped'
  BY <1>1, <1>3 DEF RecordsInv, RestTyped
<1> QED
  BY <1>1, <1>2, <1>4, SilentStep

\* The continuation ends the run, or lets it wait again.
LEMMA EndContKeeps ==
    ASSUME RecordsInv, NEW p \in Servers, NEW d \in Requests, EndCont(p, d), spent' \subseteq Faults
    PROVE  RecordsInv'
<1> DEFINE t == cont[p][d].tok
<1>1. /\ UNCHANGED <<row, up, own, ref, net, adm, exec, res, call, ran>> /\ t \in 0..MaxToken
      /\ StopCont(p, d)
  BY ContFacts DEF EndCont
<1>2. cont' \in [Servers -> [Requests -> Conts]]
  BY <1>1, StopFacts
<1>3. CASE FinishFrom(p, t) /\ run' = run
  <2>1. RowTyped' /\ RowsMatch' /\ RowsGrow
    BY <1>1, <1>3 DEF RecordsInv, RowTyped, RowsMatch, RowsGrow
  <2>2. fin' \in [Servers -> 0..MaxToken]
    BY <1>1, <1>3, FinishFacts
  <2>3. RestTyped'
    BY <1>1, <1>2, <2>2 DEF RecordsInv, RestTyped
  <2> QED
    BY <1>1, <2>1, <2>3, SilentStep
<1>4. CASE run' = [run EXCEPT !.st = "waiting"] /\ fin' = fin
  <2>1. RowTyped' /\ RowsMatch' /\ RowsGrow
    BY <1>1, <1>4, RunStFacts, RunMoves
  <2>2. RestTyped'
    BY <1>1, <1>2, <1>4 DEF RecordsInv, RestTyped
  <2> QED
    BY <1>1, <2>1, <2>2, SilentStep
<1> QED
  BY <1>3, <1>4 DEF EndCont

\* A user aborts the run.
LEMMA AbortKeeps ==
    ASSUME RecordsInv, RequestAbort
    PROVE  RecordsInv' /\ run'.st = run.st /\ run'.tok = run.tok /\ run'.phase = run.phase
<1>1. /\ run' = [run EXCEPT !.abort = TRUE] /\ spent' \subseteq Faults
      /\ fin' = [p \in Servers |-> IF own[p] = run.tok THEN own[p] ELSE fin[p]]
      /\ UNCHANGED <<row, up, own, ref, net, adm, exec, res, call, cont, ran>>
  BY StrikesFaults DEF RequestAbort
<1>2. /\ run' \in RunRecs /\ run'.st = run.st /\ run'.tok = run.tok /\ run'.phase = run.phase
  BY <1>1 DEF RecordsInv, RowTyped, RunRecs
<1>3. RowTyped' /\ RowsMatch' /\ RowsGrow
  BY <1>1, <1>2, RunMoves
<1>4. RestTyped'
  BY <1>1 DEF RecordsInv, RestTyped
<1> QED
  BY <1>1, <1>2, <1>3, <1>4, SilentStep

\* The owner closes an open request of a run that ends.
LEMMA CancelRequestKeeps ==
    ASSUME RecordsInv, NEW p \in Servers, NEW d \in Requests, CancelRequest(p, d), spent' \subseteq Faults
    PROVE  RecordsInv'
<1> DEFINE n == [row[d] EXCEPT !.st = "cancelled"]
<1>1. /\ row[d].st = "pending" /\ row' = [row EXCEPT ![d].st = "cancelled"]
      /\ UNCHANGED <<run, up, own, ref, net, adm, exec, res, call, cont, fin, ran>>
      /\ row[d] \in RowRecs /\ row \in [Requests -> RowRecs]
  BY ContFacts DEF CancelRequest
<1>2. row' = [row EXCEPT ![d] = n] /\ n \in RowRecs /\ n.st = "cancelled" /\ n.ctl = row[d].ctl
  BY <1>1 DEF RowRecs
<1> HIDE DEF n
<1>3. /\ row' \in [Requests -> RowRecs]
      /\ \A x \in Requests : row'[x] = row[x] \/
               (row[x].st = "pending" /\ row'[x].st = "cancelled" /\ row'[x].ctl = row[x].ctl)
  BY <1>1, <1>2
<1>4. RowTyped' /\ RowsMatch' /\ RowsGrow
  BY <1>1, <1>3, ClosedKeeps
<1>5. RestTyped'
  BY <1>1 DEF RecordsInv, RestTyped
<1> QED
  BY <1>1, <1>4, <1>5, SilentStep

\* The requests of a run that was lost are closed.
LEMMA CancelLostKeeps ==
    ASSUME RecordsInv, NEW q \in Servers, CancelLost(q), spent' \subseteq Faults
    PROVE  RecordsInv'
<1>1. /\ row' = CancelledFor(run.tok)
      /\ UNCHANGED <<run, up, own, ref, net, adm, exec, res, call, cont, fin, ran>>
  BY DEF CancelLost
<1>2. RowTyped' /\ RowsMatch' /\ RowsGrow
  BY <1>1, CancelledForKeeps
<1>3. RestTyped'
  BY <1>1 DEF RecordsInv, RestTyped
<1> QED
  BY <1>1, <1>2, <1>3, SilentStep

\* The owner ends the run.
LEMMA EndRunKeeps ==
    ASSUME RecordsInv, NEW p \in Servers, EndRun(p), spent' \subseteq Faults
    PROVE  RecordsInv'
<1>1. /\ fin' = [fin EXCEPT ![p] = 0] /\ own' = [own EXCEPT ![p] = IF own[p] = fin[p] THEN 0 ELSE own[p]]
      /\ UNCHANGED <<row, up, net, adm, exec, res, call, cont, ran>>
      /\ run' = run \/ run' = [run EXCEPT !.st = "ended"]
      /\ ref' = ref \/ ref' = None
  BY DEF EndRun, RecordsInv, RestTyped
<1>2. RowTyped' /\ RowsMatch' /\ RowsGrow
  <2>1. CASE run' = run
    BY <1>1, <2>1 DEF RecordsInv, RowTyped, RowsMatch, RowsGrow
  <2>2. CASE run' = [run EXCEPT !.st = "ended"]
    BY <1>1, <2>2, RunStFacts, RunMoves
  <2> QED
    BY <1>1, <2>1, <2>2
<1>3. RestTyped'
  <2>1. 0 \in 0..MaxToken
    BY NoneFacts
  <2> QED
    BY <1>1, <2>1 DEF RecordsInv, RestTyped, Refs
<1> QED
  BY <1>1, <1>2, <1>3, SilentStep

\* The new reservation, or the end of a run nobody owns.
LEMMA RefStepKeeps ==
    ASSUME RecordsInv, NEW q \in Servers, Reserve(q) \/ Reap(q), spent' \subseteq Faults
    PROVE  RecordsInv'
<1>1. /\ UNCHANGED <<row, up, own, net, adm, exec, res, call, cont, fin, ran>>
      /\ run' = run \/ run' = [run EXCEPT !.st = "ended"]
  BY DEF Reserve, Reap
<1>2. ref' \in Refs
  <2>1. CASE Reserve(q)
    BY <2>1, NoneFacts DEF Reserve, Refs, Tokens, RecordsInv, RestTyped
  <2>2. CASE Reap(q)
    BY <2>2 DEF Reap, Refs
  <2> QED
    BY <2>1, <2>2
<1>3. RowTyped' /\ RowsMatch' /\ RowsGrow
  <2>1. CASE run' = run
    BY <1>1, <2>1 DEF RecordsInv, RowTyped, RowsMatch, RowsGrow
  <2>2. CASE run' = [run EXCEPT !.st = "ended"]
    BY <1>1, <2>2, RunStFacts, RunMoves
  <2> QED
    BY <1>1, <2>1, <2>2
<1>4. RestTyped'
  BY <1>1, <1>2 DEF RecordsInv, RestTyped
<1> QED
  BY <1>1, <1>3, <1>4, SilentStep

\* A waiting run moves to another owner with its open requests.
LEMMA RecoverKeeps ==
    ASSUME RecordsInv, NEW q \in Servers, Recover(q), spent' \subseteq Faults
    PROVE  /\ RecordsInv'
           /\ run'.st = run.st /\ run'.tok = run.tok + 1 /\ run'.phase = run.phase
           /\ \A d \in Requests : row'[d].st = row[d].st /\ row'[d].ans = row[d].ans
<1> DEFINE t == run.tok + 1
           n(d) == [row[d] EXCEPT !.tok = t]
<1>1. /\ run.tok < MaxToken /\ run' = [run EXCEPT !.tok = t]
      /\ row' = [d \in Requests |-> IF row[d].st = "pending" THEN n(d) ELSE row[d]]
      /\ own' = [own EXCEPT ![q] = t] /\ ref' = None
      /\ UNCHANGED <<up, net, adm, exec, res, call, cont, fin, ran>>
  BY DEF Recover, RecordsInv, RowTyped, RunRecs
<1>2. run \in RunRecs /\ run.tok \in Tokens /\ row \in [Requests -> RowRecs] /\ RowsMatch
  BY DEF RecordsInv, RowTyped, RunRecs
<1>3. t \in Tokens /\ t \in 0..MaxToken
  BY <1>1, <1>2, NoneFacts DEF Tokens
<1> HIDE DEF t
<1>4. /\ run' \in RunRecs /\ run'.st = run.st /\ run'.tok = t /\ run'.phase = run.phase
  BY <1>1, <1>2, <1>3 DEF RunRecs
<1>5. ASSUME NEW d \in Requests
      PROVE  /\ n(d) \in RowRecs /\ n(d).st = row[d].st /\ n(d).ans = row[d].ans /\ n(d).ctl = row[d].ctl
  BY <1>2, <1>3 DEF RowRecs
<1> HIDE DEF n
<1>6. /\ row' \in [Requests -> RowRecs]
      /\ \A d \in Requests : row'[d].st = row[d].st /\ row'[d].ctl = row[d].ctl /\ row'[d].ans = row[d].ans
      /\ \A d \in Requests : row[d].st = "decided" => row'[d] = row[d]
  BY <1>1, <1>2, <1>5
<1>7. RowTyped' /\ RowsMatch' /\ RowsGrow
  BY <1>2, <1>4, <1>6 DEF RowTyped, RowsMatch, RowsGrow
<1>8. RestTyped'
  BY <1>1, <1>3 DEF RecordsInv, RestTyped, Refs
<1>9. RecordsInv'
  BY <1>1, <1>7, <1>8, SilentStep
<1> QED
  BY <1>4, <1>6, <1>9 DEF t

\* A process stops: its calls end without an answer, its work is gone.
LEMMA CrashKeeps ==
    ASSUME RecordsInv, NEW p \in Servers, Crash(p)
    PROVE  RecordsInv'
<1> DEFINE Hit(c) == call[c].srv = p /\ call[c].pc \notin {"idle", "done"}
           r(c) == [call[c] EXCEPT !.pc = "done", !.out = "unknown"]
<1>1. /\ up' = up \ {p} /\ own' = [own EXCEPT ![p] = 0] /\ fin' = [fin EXCEPT ![p] = 0]
      /\ adm' = [adm EXCEPT ![p] = [i \in Ids |-> None]]
      /\ exec' = [exec EXCEPT ![p] = [i \in Ids |-> NoExec]]
      /\ cont' = [cont EXCEPT ![p] = [d \in Requests |-> NoCont]]
      /\ net' = {m \in net : m.to # p}
      /\ call' = [c \in Calls |-> IF Hit(c) THEN r(c) ELSE call[c]]
      /\ UNCHANGED <<row, run, ref, res, ran>> /\ spent' \subseteq Faults
  BY StrikesFaults DEF Crash
<1>2. RowTyped' /\ RowsMatch' /\ RowsGrow /\ TalkOk
  BY <1>1 DEF RecordsInv, RowTyped, RowsMatch, RowsGrow
<1>3. 0 \in 0..MaxToken /\ NoCont \in Conts /\ NoExec \in Execs /\ NoExec.pc = "no"
  BY NoneFacts DEF NoCont, Conts, NoExec, Execs
<1>4. RestTyped'
  <2>1. cont' \in [Servers -> [Requests -> Conts]]
    BY <1>1, <1>3 DEF RecordsInv, RestTyped
  <2> QED
    BY <1>1, <1>3, <2>1 DEF RecordsInv, RestTyped
<1>5. ASSUME NEW c \in Calls, Hit(c) PROVE r(c) \in CallRecs /\ CallOk(row, r(c))
  <2>1. "unknown" \in Outcomes /\ call[c].pc # "idle"
        /\ ("unknown" \in {"applied", "replayed"} => DecidedIn(row, IdOf(c), call[c].a))
    BY <1>5 DEF Outcomes
  <2> QED
    BY <1>5, <2>1, DoneRec
<1>6. /\ call' \in [Calls -> CallRecs] /\ \A c \in Calls : CallOk(row', call'[c])
      /\ \A c \in Calls : call[c].srv # p => call'[c] = call[c]
  <2> HIDE DEF r
  <2>1. \A c \in Calls : call[c] \in CallRecs /\ CallOk(row, call[c])
    BY CallFacts
  <2>2. row' = row
    BY <1>1
  <2> QED
    BY <1>1, <1>5, <2>1, <2>2
<1>7. /\ adm' \in [Servers -> [Ids -> Command \cup {None}]]
      /\ \A q \in Servers : q # p => adm'[q] = adm[q]
      /\ \A i \in Ids : adm'[p][i] = None
  BY <1>1, <1>2 DEF TalkOk, TalkTyped
<1>8. /\ exec' \in [Servers -> [Ids -> Execs]]
      /\ \A q \in Servers : q # p => exec'[q] = exec[q]
      /\ \A i \in Ids : exec'[p][i] = NoExec
  BY <1>1, <1>2, <1>3 DEF TalkOk, TalkTyped
<1>9. AdmOk'
  BY <1>2, <1>7 DEF TalkOk, AdmOk
<1>10. ExecsOk'
  <2> SUFFICES ASSUME NEW q \in Servers, NEW i \in Ids
               PROVE  ExecOk(row', call', adm'[q][i], q, i, exec'[q][i])
    BY DEF ExecsOk
  <2>1. CASE q = p
    BY <1>3, <1>8, <2>1 DEF ExecOk
  <2>2. CASE q # p
    <3>1. ExecOk(row, call, adm[q][i], q, i, exec[q][i])
      BY <1>2 DEF TalkOk, ExecsOk
    <3>2. exec[q][i].pc # "no" /\ exec[q][i].via # "routed" => call'[exec[q][i].via] = call[exec[q][i].via]
      BY <1>6, <2>2, <3>1 DEF ExecOk
    <3>3. exec[q][i].pc # "no" /\ exec[q][i].via = "routed" => adm'[q][i] = adm[q][i]
      BY <1>7, <2>2
    <3>4. exec'[q][i] = exec[q][i]
      BY <1>8, <2>2
    <3> QED
      BY <1>2, <3>1, <3>2, <3>3, <3>4, ExecGrows
  <2> QED
    BY <2>1, <2>2
<1>11. /\ net' \subseteq Command \cup Reply
       /\ \A x \in net' : x \in net \/ (x.kind = "reply" /\ x.ok => DecidedIn(row', x.id, x.a))
       /\ res' \in [Ids -> Answers \cup {None}] /\ ResOk'
  BY <1>1, <1>2 DEF TalkOk, TalkTyped, ResOk
<1>12. TalkOk'
  BY <1>2, <1>6, <1>7, <1>8, <1>9, <1>10, <1>11, TalkRenewed
<1> QED
  BY <1>2, <1>4, <1>12 DEF RecordsInv

\* A lease that is over.
LEMMA LeaseFacts ==
    ASSUME RecordsInv, LeaseOver
    PROVE  spent' \subseteq Faults /\ spent \subseteq spent'
<1>1. CASE ref # None /\ ref.srv \in up
  <2>1. Strikes("partition")
    BY <1>1 DEF LeaseOver
  <2> QED
    BY <2>1, StrikesFaults
<1>2. CASE ~(ref # None /\ ref.srv \in up)
  BY <1>2 DEF LeaseOver, RecordsInv, RestTyped
<1> QED
  BY <1>1, <1>2

\* Nothing has been said at first.
LEMMA InitRecords ==
    ASSUME DecisionsInit
    PROVE  RecordsInv
<1> DEFINE n == [st |-> "pending", ans |-> None, ctl |-> None, tok |-> 1]
           k == [pc |-> "idle", srv |-> None, d |-> None, k |-> None,
                 a |-> None, tok |-> 0, to |-> None, out |-> None]
<1>1. PICK p \in Servers :
        /\ row = [d \in Requests |-> n]
        /\ run = [st |-> "waiting", tok |-> 1, abort |-> FALSE, phase |-> [d \in Requests |-> "none"]]
        /\ up = Servers
        /\ own = [q \in Servers |-> IF q = p THEN 1 ELSE 0]
        /\ ref = [srv |-> p, tok |-> 1]
        /\ net = {}
        /\ adm = [q \in Servers |-> [i \in Ids |-> None]]
        /\ exec = [q \in Servers |-> [i \in Ids |-> NoExec]]
        /\ res = [i \in Ids |-> None]
        /\ call = [c \in Calls |-> k]
        /\ cont = [q \in Servers |-> [d \in Requests |-> NoCont]]
        /\ fin = [q \in Servers |-> 0]
        /\ ran = [d \in Requests |-> 0]
        /\ spent = {}
  BY DEF DecisionsInit
<1>2. 1 \in Tokens /\ 0 \in 0..MaxToken /\ 1 \in 0..MaxToken
  BY NoneFacts DEF Tokens
<1>3. n \in RowRecs /\ n.st = "pending" /\ n.ctl = None
  BY <1>2 DEF RowRecs
<1>4. NoCont \in Conts /\ NoExec \in Execs /\ NoExec.pc = "no"
  BY <1>2 DEF NoCont, Conts, NoExec, Execs
<1>5. k \in CallRecs /\ CallOk(row, k)
  BY <1>2, NoneFacts DEF CallRecs, CallOk, Outcomes
<1> HIDE DEF n, k
<1>6. RowTyped /\ RowsMatch
  BY <1>1, <1>2, <1>3 DEF RowTyped, RowsMatch, RunRecs
<1>7. TalkTyped /\ CallsOk /\ NetOk /\ ResOk /\ AdmOk
  BY <1>1, <1>4, <1>5 DEF TalkTyped, CallsOk, NetOk, ResOk, AdmOk
<1>8. ExecsOk
  <2>1. \A q \in Servers, i \in Ids : exec[q][i] = NoExec
    BY <1>1
  <2> QED
    BY <1>4, <2>1 DEF ExecsOk, ExecOk
<1>9. RestTyped
  BY <1>1, <1>2, <1>4 DEF RestTyped, Refs
<1> QED
  BY <1>6, <1>7, <1>8, <1>9 DEF RecordsInv, TalkOk

\* Every step keeps the records.
LEMMA NextRecords ==
    ASSUME RecordsInv, [DecisionsNext]_dvars
    PROVE  RecordsInv'
<1>1. CASE Step /\ UNCHANGED spent
  <2>1. spent' \subseteq Faults
    BY <1>1 DEF RecordsInv, RestTyped
  <2>2. ASSUME NEW c \in Calls, NEW p \in Servers, NEW d \in Requests, NEW k \in Controls,
               NEW a \in Answers, Respond(c, p, d, k, a)
        PROVE  RecordsInv'
    BY <2>1, <2>2, RespondKeeps
  <2>3. ASSUME NEW c \in Calls, CallStep(c) PROVE RecordsInv'
    BY <2>1, <2>3, ReadRowKeeps, ReadRunKeeps, RouteKeeps, FollowLocalKeeps, ResendKeeps, PollKeeps
       DEF CallStep
  <2>4. ASSUME NEW m \in net, TakeReply(m) \/ \E p \in Servers : Receive(p, m) PROVE RecordsInv'
    BY <2>1, <2>4, TakeReplyKeeps, ReceiveKeeps
  <2>5. ASSUME NEW p \in Servers, NEW i \in Ids, ExecStep(p, i) PROVE RecordsInv'
    BY <2>1, <2>5, BeginRoutedKeeps, FollowRoutedKeeps, CheckCommandKeeps, CommitAnswerKeeps,
       StoreResultKeeps DEF ExecStep
  <2>6. ASSUME NEW p \in Servers, NEW d \in Requests, ContStep(p, d) PROVE RecordsInv'
    BY <2>1, <2>6, BeginToolKeeps, ToolStepKeeps, EndContKeeps, CancelRequestKeeps DEF ContStep
  <2>7. ASSUME NEW p \in Servers, EndRun(p) \/ Reserve(p) \/ CancelLost(p) PROVE RecordsInv'
    BY <2>1, <2>7, EndRunKeeps, RefStepKeeps, CancelLostKeeps
  <2> QED
    BY <1>1, <2>2, <2>3, <2>4, <2>5, <2>6, <2>7 DEF Step
<1>2. CASE Fault
  BY <1>2, CommandLateKeeps, CommitUnsureKeeps, StoreFailsKeeps, ExpireKeeps, GiveUpKeeps,
     CrashKeeps, AbortKeeps DEF Fault
<1>3. ASSUME NEW p \in Servers, Recover(p) \/ Reap(p) PROVE RecordsInv'
  <2>1. spent' \subseteq Faults
    BY <1>3, LeaseFacts DEF Recover, Reap
  <2> QED
    BY <1>3, <2>1, RecoverKeeps, RefStepKeeps
<1>4. CASE UNCHANGED dvars
  <2>1. UNCHANGED <<row, run, up, own, ref, cont, fin, ran>> /\ spent' \subseteq Faults
        /\ UNCHANGED <<adm, exec, res, call, net>>
    BY <1>4 DEF dvars, RecordsInv, RestTyped
  <2>2. RowTyped' /\ RowsMatch' /\ RestTyped' /\ RowsGrow
    BY <2>1, RestKept
  <2> QED
    BY <2>1, <2>2, SilentStep
<1> QED
  BY <1>1, <1>2, <1>3, <1>4 DEF DecisionsNext
-----------------------------------------------------------------------------
(* Steps that only exchange words *)

\* The execution f goes on from e: it does not reach the commit unless its process owns
\* the run under its token.
GoesOn(p, e, f) == f.pc = "commit" => f = e \/ own[p] = f.tok

\* The requests, the run, its owners and continuations stay as they are.
Still ==
    /\ UNCHANGED <<row, run, up, own, ref, cont, fin, ran>> /\ spent \subseteq spent'
    /\ \A p \in Servers, i \in Ids : GoesOn(p, exec[p][i], exec'[p][i])

\* An execution that ends does not commit.
LEMMA ConcludeExec ==
    ASSUME RecordsInv, NEW p \in Servers, NEW i \in Ids, NEW ok, NEW a, Conclude(p, i, ok, a)
    PROVE  \A q \in Servers, j \in Ids : GoesOn(q, exec[q][j], exec'[q][j])
<1>1. /\ exec' = [exec EXCEPT ![p][i] = NoExec] /\ exec \in [Servers -> [Ids -> Execs]]
      /\ NoExec \in Execs /\ NoExec.pc = "no"
  BY NoneFacts DEF Conclude, RecordsInv, TalkOk, TalkTyped, NoExec, Execs
<1>2. /\ exec'[p][i] = NoExec
      /\ \A q \in Servers, j \in Ids : q # p \/ j # i => exec'[q][j] = exec[q][j]
  BY <1>1, PutAt
<1> QED
  BY <1>1, <1>2 DEF GoesOn

\* An execution that begins is checked first.
LEMMA BeginExec ==
    ASSUME RecordsInv, NEW p \in Servers, NEW i \in Ids, NEW t \in 0..MaxToken, NEW a \in Answers,
           NEW v \in Calls \cup {"routed"},
           exec' = [exec EXCEPT ![p][i] = [pc |-> "check", tok |-> t, a |-> a, via |-> v]]
    PROVE  \A q \in Servers, j \in Ids : GoesOn(q, exec[q][j], exec'[q][j])
<1> DEFINE e == [pc |-> "check", tok |-> t, a |-> a, via |-> v]
<1>1. exec' = [exec EXCEPT ![p][i] = e] /\ exec \in [Servers -> [Ids -> Execs]] /\ e \in Execs /\ e.pc = "check"
  BY DEF RecordsInv, TalkOk, TalkTyped, Execs
<1> HIDE DEF e
<1>2. /\ exec'[p][i] = e
      /\ \A q \in Servers, j \in Ids : q # p \/ j # i => exec'[q][j] = exec[q][j]
  BY <1>1, PutAt
<1> QED
  BY <1>1, <1>2 DEF GoesOn

\* The steps of a call.
LEMMA CallStill ==
    ASSUME RecordsInv, NEW c \in Calls, spent' = spent,
           ReadRow(c) \/ Route(c) \/ FollowLocal(c) \/ Resend(c) \/ Poll(c)
    PROVE  Still
<1>1. UNCHANGED <<row, run, up, own, ref, cont, fin, ran>>
  BY DEF ReadRow, Route, FollowLocal, Resend, Poll
<1>2. CASE exec' = exec
  BY <1>1, <1>2 DEF Still, GoesOn
<1>3. CASE exec' # exec
  <2>1. call[c].pc = "ref" /\ ref # None /\ RunHere(c)
    BY <1>3 DEF ReadRow, Route, FollowLocal, Resend, Poll
  <2>2. exec' = [exec EXCEPT ![call[c].srv][IdOf(c)] =
                    [pc |-> "check", tok |-> ref.tok, a |-> call[c].a, via |-> c]]
    BY <1>3, <2>1 DEF RunHere
  <2>3. call[c].srv \in Servers /\ IdOf(c) \in Ids /\ call[c].a \in Answers /\ ref.tok \in 0..MaxToken
    <3>1. call[c].srv \in Servers /\ IdOf(c) \in Ids /\ call[c].a \in Answers
      BY <2>1, CallFacts DEF CallOk
    <3> QED
      BY <2>1, <3>1, NoneFacts DEF RecordsInv, RestTyped, Refs, Tokens
  <2>4. \A q \in Servers, j \in Ids : GoesOn(q, exec[q][j], exec'[q][j])
    BY <2>2, <2>3, BeginExec
  <2> QED
    BY <1>1, <2>4 DEF Still
<1> QED
  BY <1>2, <1>3

\* The steps of the network and of the command loop.
LEMMA WordStill ==
    ASSUME RecordsInv, spent' = spent,
           \/ \E c \in Calls, p \in Servers, d \in Requests, k \in Controls, a \in Answers :
                  Respond(c, p, d, k, a)
           \/ \E m \in net : TakeReply(m) \/ \E p \in Servers : Receive(p, m)
           \/ \E p \in Servers, i \in Ids : FollowRouted(p, i)
    PROVE  Still
<1>1. UNCHANGED <<row, run, up, own, ref, cont, fin, ran>> /\ exec' = exec
  BY DEF Respond, TakeReply, Receive, FollowRouted
<1> QED
  BY <1>1 DEF Still, GoesOn

\* The steps of an execution, its commit apart.
LEMMA ExecStill ==
    ASSUME RecordsInv, NEW p \in Servers, NEW i \in Ids, spent' = spent,
           \/ BeginRouted(p, i) \/ CheckCommand(p, i) \/ StoreResult(p, i)
           \/ CommitAnswer(p, i) /\ ~MayCommit(i[1], exec[p][i].tok)
    PROVE  Still
<1>1. UNCHANGED <<row, run, up, own, ref, cont, fin, ran>>
  BY DEF BeginRouted, CheckCommand, StoreResult, CommitAnswer
<1>2. CASE exec' = exec
  BY <1>1, <1>2 DEF Still, GoesOn
<1>3. CASE BeginRouted(p, i) /\ exec' # exec
  <2> DEFINE m == adm[p][i]
  <2>1. /\ m # None
        /\ exec' = [exec EXCEPT ![p][i] = [pc |-> "check", tok |-> m.tok, a |-> m.a, via |-> "routed"]]
    BY <1>3 DEF BeginRouted
  <2>2. m \in Command /\ m.a \in Answers /\ m.tok \in 0..MaxToken
    BY <2>1, WorkFacts, NoneFacts DEF Command, Tokens
  <2> HIDE DEF m
  <2>3. \A q \in Servers, j \in Ids : GoesOn(q, exec[q][j], exec'[q][j])
    BY <2>1, <2>2, BeginExec
  <2> QED
    BY <1>1, <2>3 DEF Still
<1>4. CASE \E ok \in BOOLEAN : \E a : Conclude(p, i, ok, a)
  BY <1>1, <1>4, ConcludeExec DEF Still
<1>5. CASE own[p] = exec[p][i].tok /\ exec' = [exec EXCEPT ![p][i].pc = "commit"]
  <2> DEFINE f == [exec[p][i] EXCEPT !.pc = "commit"]
  <2>1. /\ exec[p][i] \in Execs /\ exec \in [Servers -> [Ids -> Execs]]
    BY WorkFacts DEF TalkOk, TalkTyped
  <2>2. exec' = [exec EXCEPT ![p][i] = f] /\ f \in Execs /\ f.tok = exec[p][i].tok
    BY <1>5, <2>1 DEF Execs
  <2> HIDE DEF f
  <2>3. /\ exec'[p][i] = f
        /\ \A q \in Servers, j \in Ids : q # p \/ j # i => exec'[q][j] = exec[q][j]
    BY <2>1, <2>2, PutAt
  <2> QED
    BY <1>1, <1>5, <2>2, <2>3 DEF Still, GoesOn
<1> QED
  BY <1>2, <1>3, <1>4, <1>5 DEF CheckCommand, StoreResult, CommitAnswer

\* The faults of words.
LEMMA FaultStill ==
    ASSUME RecordsInv,
           \/ \E p \in Servers, i \in Ids : CommandLate(p, i) \/ StoreFails(p, i)
           \/ \E i \in Ids : ExpireResult(i)
           \/ \E c \in Calls : GiveUp(c)
    PROVE  Still
<1>1. UNCHANGED <<row, run, up, own, ref, cont, fin, ran>> /\ spent \subseteq spent'
  BY StrikesFaults DEF CommandLate, StoreFails, ExpireResult, GiveUp
<1>2. CASE exec' = exec
  BY <1>1, <1>2 DEF Still, GoesOn
<1>3. CASE \E p \in Servers, i \in Ids : CommandLate(p, i) \/ StoreFails(p, i)
  <2>1. PICK p \in Servers, i \in Ids : \E ok \in BOOLEAN : \E a : Conclude(p, i, ok, a)
    BY <1>3 DEF CommandLate, StoreFails
  <2> QED
    BY <1>1, <2>1, ConcludeExec DEF Still
<1> QED
  BY <1>2, <1>3 DEF ExpireResult, GiveUp
-----------------------------------------------------------------------------
(* Tools *)

\* Nothing but the two steps of the tool itself touches it.
LEMMA ToolsQuiet ==
    ASSUME RecordsInv, ToolsInv, RowsGrow, ran' = ran,
           \A d \in Requests : run'.phase[d] = run.phase[d] \/
               (run.phase[d] = "none" /\ run'.phase[d] = "accepted"),
           \A p \in Servers, d \in Requests : cont'[p][d] = cont[p][d] \/ cont'[p][d].pc # "tool"
    PROVE  ToolsInv'
<1> SUFFICES ASSUME NEW d \in Requests
             PROVE  /\ run'.phase[d] = "executing" => row'[d].ans = "approve"
                    /\ ran'[d] =< 1 /\ (ran'[d] # 0 => run'.phase[d] = "executing")
                    /\ \A p \in Servers : cont'[p][d].pc = "tool" => run'.phase[d] = "executing" /\ ran'[d] = 0
                    /\ \A p, q \in Servers : cont'[p][d].pc = "tool" /\ cont'[q][d].pc = "tool" => p = q
  BY DEF ToolsInv
<1>1. run'.phase[d] = "executing" <=> run.phase[d] = "executing"
  OBVIOUS
<1>2. run.phase[d] = "executing" => row'[d] = row[d]
  BY DEF RecordsInv, RowsMatch, RowsGrow
<1> QED
  BY <1>1, <1>2 DEF ToolsInv

\* The checkpoint is written: its continuation is the only one about to invoke the tool.
LEMMA BeginToolTools ==
    ASSUME RecordsInv, ToolsInv, NEW p \in Servers, NEW d \in Requests, BeginTool(p, d)
    PROVE  ToolsInv'
<1>1. row' = row /\ ran' = ran /\ Approved(d) /\ RowsGrow
  BY DEF BeginTool, RowsGrow
<1>2. CASE Holds(cont[p][d].tok) /\ run.phase[d] = "accepted"
  <2>1. /\ run' = [run EXCEPT !.phase[d] = "executing"] /\ cont' = [cont EXCEPT ![p][d].pc = "tool"]
    BY <1>2 DEF BeginTool
  <2>2. run'.phase[d] = "executing" /\ \A x \in Requests : x # d => run'.phase[x] = run.phase[x]
    BY <1>1, <1>2, <2>1, CheckpointFacts
  <2>3. \A q \in Servers, g \in Requests : q # p \/ g # d => cont'[q][g] = cont[q][g]
    BY <2>1, ContPcPut
  <2>4. ran[d] = 0 /\ \A q \in Servers : cont[q][d].pc # "tool"
    BY <1>2 DEF ToolsInv
  <2> SUFFICES ASSUME NEW g \in Requests
               PROVE  /\ run'.phase[g] = "executing" => row'[g].ans = "approve"
                      /\ ran'[g] =< 1 /\ (ran'[g] # 0 => run'.phase[g] = "executing")
                      /\ \A q \in Servers : cont'[q][g].pc = "tool" => run'.phase[g] = "executing" /\ ran'[g] = 0
                      /\ \A q, r \in Servers : cont'[q][g].pc = "tool" /\ cont'[r][g].pc = "tool" => q = r
    BY DEF ToolsInv
  <2>5. CASE g = d
    BY <1>1, <2>2, <2>3, <2>4, <2>5 DEF Approved
  <2>6. CASE g # d
    BY <1>1, <2>2, <2>3, <2>6 DEF ToolsInv
  <2> QED
    BY <2>5, <2>6
<1>3. CASE ~(Holds(cont[p][d].tok) /\ run.phase[d] = "accepted")
  <2>1. StopCont(p, d) /\ run' = run
    BY <1>3 DEF BeginTool
  <2>2. \A q \in Servers, g \in Requests : cont'[q][g] = cont[q][g] \/ cont'[q][g].pc # "tool"
    BY <2>1, StopFacts, ContFacts
  <2> QED
    BY <1>1, <2>1, <2>2, ToolsQuiet
<1> QED
  BY <1>2, <1>3

\* The tool is invoked, for the first time.
LEMMA RunToolTools ==
    ASSUME RecordsInv, ToolsInv, NEW p \in Servers, NEW d \in Requests, RunTool(p, d)
    PROVE  ToolsInv'
<1>1. /\ cont[p][d].pc = "tool" /\ ran' = [ran EXCEPT ![d] = ran[d] + 1]
      /\ cont' = [cont EXCEPT ![p][d].pc = "model"] /\ row' = row /\ run' = run
  BY DEF RunTool, RecordsInv, RestTyped
<1>2. /\ ran[d] = 0 /\ run.phase[d] = "executing" /\ \A q \in Servers : q # p => cont[q][d].pc # "tool"
  BY <1>1 DEF ToolsInv
<1>3. /\ ran'[d] = 1 /\ \A g \in Requests : g # d => ran'[g] = ran[g]
  BY <1>1, <1>2 DEF RecordsInv, RestTyped
<1>4. /\ cont'[p][d].pc = "model"
      /\ \A q \in Servers, g \in Requests : q # p \/ g # d => cont'[q][g] = cont[q][g]
  BY <1>1, ContPcPut
<1> SUFFICES ASSUME NEW g \in Requests
             PROVE  /\ run'.phase[g] = "executing" => row'[g].ans = "approve"
                    /\ ran'[g] =< 1 /\ (ran'[g] # 0 => run'.phase[g] = "executing")
                    /\ \A q \in Servers : cont'[q][g].pc = "tool" => run'.phase[g] = "executing" /\ ran'[g] = 0
                    /\ \A q, r \in Servers : cont'[q][g].pc = "tool" /\ cont'[r][g].pc = "tool" => q = r
  BY DEF ToolsInv
<1>5. CASE g = d
  BY <1>1, <1>2, <1>3, <1>4, <1>5 DEF ToolsInv
<1>6. CASE g # d
  BY <1>1, <1>3, <1>4, <1>6 DEF ToolsInv
<1> QED
  BY <1>5, <1>6

\* Requests that are closed or moved to another token were not decided.
LEMMA RowStepGrows ==
    ASSUME RecordsInv,
           \/ \E c \in Calls : ReadRun(c)
           \/ \E p \in Servers, d \in Requests : CancelRequest(p, d)
           \/ \E p \in Servers : CancelLost(p) \/ Recover(p)
    PROVE  RowsGrow
<1> SUFFICES ASSUME NEW d \in Requests, row[d].st = "decided" PROVE row'[d] = row[d]
  BY DEF RowsGrow
<1>1. row \in [Requests -> RowRecs]
  BY DEF RecordsInv, RowTyped
<1>2. CASE row' = row \/ \E t : row' = CancelledFor(t)
  BY <1>2 DEF CancelledFor
<1>3. CASE \E p \in Servers, g \in Requests : CancelRequest(p, g)
  BY <1>1, <1>3 DEF CancelRequest
<1>4. CASE \E p \in Servers : Recover(p)
  BY <1>4 DEF Recover
<1> QED
  BY <1>2, <1>3, <1>4 DEF ReadRun, CancelLost

\* Every step keeps the tools.
LEMMA NextTools ==
    ASSUME RecordsInv, ToolsInv, [DecisionsNext]_dvars
    PROVE  ToolsInv'
<1>1. ASSUME Still PROVE ToolsInv'
  <2>1. RowsGrow /\ ran' = ran /\ run' = run /\ cont' = cont
    BY <1>1 DEF Still, RowsGrow
  <2> QED
    BY <2>1, ToolsQuiet
<1>2. ASSUME NEW p \in Servers, NEW i \in Ids, CommitAnswer(p, i) \/ CommitUnsure(p, i),
             MayCommit(i[1], exec[p][i].tok)
      PROVE  ToolsInv'
  <2> DEFINE d == i[1]
  <2>1. /\ CommitRow(i, exec[p][i].a, exec[p][i].tok) /\ ran' = ran /\ exec[p][i].pc = "commit"
        /\ cont' = cont \/ cont' = [cont EXCEPT ![p][d] = [pc |-> "ready", tok |-> exec[p][i].tok]]
    BY <1>2 DEF CommitAnswer, CommitUnsure
  <2>2. exec[p][i].a \in Answers /\ d \in Requests /\ exec[p][i].tok \in 0..MaxToken
    BY <2>1, WorkFacts DEF ExecOk, Execs
  <2>3. RowsGrow /\ run'.phase = [run.phase EXCEPT ![d] = "accepted"]
    BY <1>2, <2>1, <2>2, CommitRowFacts
  <2>4. run.phase[d] = "none" /\ run.phase \in [Requests -> {"none", "accepted", "executing"}]
    BY <1>2, <2>2 DEF MayCommit, RecordsInv, RowsMatch, RowTyped, RunRecs
  <2>5. \A g \in Requests : run'.phase[g] = run.phase[g] \/
               (run.phase[g] = "none" /\ run'.phase[g] = "accepted")
    BY <2>2, <2>3, <2>4
  <2>6. \A q \in Servers, g \in Requests : cont'[q][g] = cont[q][g] \/ cont'[q][g].pc # "tool"
    <3> DEFINE k == [pc |-> "ready", tok |-> exec[p][i].tok]
    <3>1. k \in Conts /\ k.pc = "ready"
      BY <2>2 DEF Conts
    <3> HIDE DEF k
    <3>2. CASE cont' = [cont EXCEPT ![p][d] = k]
      BY <2>2, <3>1, <3>2, PutAt DEF RecordsInv, RestTyped
    <3> QED
      BY <2>1, <3>2 DEF k
  <2> QED
    BY <2>1, <2>3, <2>5, <2>6, ToolsQuiet
<1>3. ASSUME NEW p \in Servers, NEW d \in Requests, ContStep(p, d) PROVE ToolsInv'
  <2>1. CASE BeginTool(p, d)
    BY <2>1, BeginToolTools
  <2>2. CASE RunTool(p, d)
    BY <2>2, RunToolTools
  <2>3. CASE SkipTool(p, d)
    <3>1. cont' = [cont EXCEPT ![p][d].pc = "model"] /\ RowsGrow /\ ran' = ran /\ run' = run
      BY <2>3 DEF SkipTool, RowsGrow
    <3>2. \A q \in Servers, g \in Requests : cont'[q][g] = cont[q][g] \/ cont'[q][g].pc # "tool"
      BY <3>1, ContPcPut
    <3> QED
      BY <3>1, <3>2, ToolsQuiet
  <2>4. CASE EndCont(p, d)
    <3>1. StopCont(p, d) /\ RowsGrow /\ ran' = ran
          /\ (run' = run \/ run' = [run EXCEPT !.st = "waiting"])
      BY <2>4 DEF EndCont, RowsGrow
    <3>2. \A q \in Servers, g \in Requests : cont'[q][g] = cont[q][g] \/ cont'[q][g].pc # "tool"
      BY <3>1, StopFacts, ContFacts
    <3>3. run'.phase = run.phase
      BY <3>1, RunStFacts
    <3> QED
      BY <3>1, <3>2, <3>3, ToolsQuiet
  <2>5. CASE CancelRequest(p, d)
    <3>1. RowsGrow /\ ran' = ran /\ run' = run /\ cont' = cont
      BY <2>5, RowStepGrows DEF CancelRequest
    <3> QED
      BY <3>1, ToolsQuiet
  <2> QED
    BY <1>3, <2>1, <2>2, <2>3, <2>4, <2>5 DEF ContStep
<1>4. ASSUME \E c \in Calls : ReadRun(c) PROVE ToolsInv'
  <2>1. RowsGrow /\ ran' = ran /\ run' = run /\ cont' = cont
    BY <1>4, RowStepGrows DEF ReadRun
  <2> QED
    BY <2>1, ToolsQuiet
<1>5. ASSUME NEW p \in Servers, EndRun(p) \/ Reserve(p) \/ CancelLost(p) \/ Reap(p) PROVE ToolsInv'
  <2>1. RowsGrow /\ ran' = ran /\ cont' = cont /\ (run' = run \/ run' = [run EXCEPT !.st = "ended"])
    BY <1>5, RowStepGrows DEF EndRun, Reserve, CancelLost, Reap, RowsGrow
  <2>2. run'.phase = run.phase
    BY <2>1, RunStFacts
  <2> QED
    BY <2>1, <2>2, ToolsQuiet
<1>6. ASSUME NEW p \in Servers, Recover(p) PROVE ToolsInv'
  <2>1. RowsGrow /\ ran' = ran /\ cont' = cont /\ spent' \subseteq Faults
    BY <1>6, RowStepGrows, LeaseFacts DEF Recover
  <2>2. run'.phase = run.phase
    BY <1>6, <2>1, RecoverKeeps
  <2> QED
    BY <2>1, <2>2, ToolsQuiet
<1>7. ASSUME NEW p \in Servers, Crash(p) PROVE ToolsInv'
  <2>1. /\ row' = row /\ ran' = ran /\ run' = run
        /\ cont' = [cont EXCEPT ![p] = [d \in Requests |-> NoCont]]
    BY <1>7 DEF Crash
  <2>2. \A q \in Servers, g \in Requests : cont'[q][g] = cont[q][g] \/ cont'[q][g].pc # "tool"
    BY <2>1 DEF RecordsInv, RestTyped, NoCont
  <2>3. RowsGrow
    BY <2>1 DEF RowsGrow
  <2> QED
    BY <2>1, <2>2, <2>3, ToolsQuiet
<1>8. ASSUME RequestAbort PROVE ToolsInv'
  <2>1. RowsGrow /\ ran' = ran /\ cont' = cont
    BY <1>8 DEF RequestAbort, RowsGrow
  <2>2. run'.phase = run.phase
    BY <1>8, AbortKeeps
  <2> QED
    BY <2>1, <2>2, ToolsQuiet
<1>9. CASE UNCHANGED dvars
  BY <1>9 DEF dvars, ToolsInv
<1>10. CASE Step /\ UNCHANGED spent
  <2>1. ASSUME NEW p \in Servers, NEW i \in Ids, ExecStep(p, i) PROVE ToolsInv'
    BY <1>1, <1>2, <1>10, <2>1, ExecStill, WordStill DEF ExecStep
  <2>2. ASSUME NEW c \in Calls, CallStep(c) PROVE ToolsInv'
    BY <1>1, <1>4, <1>10, <2>2, CallStill DEF CallStep
  <2> QED
    BY <1>1, <1>3, <1>5, <1>10, <2>1, <2>2, WordStill DEF Step
<1>11. CASE Fault
  <2>1. ASSUME NEW p \in Servers, NEW i \in Ids, CommitUnsure(p, i) PROVE ToolsInv'
    BY <1>2, <2>1 DEF CommitUnsure
  <2> QED
    BY <1>1, <1>7, <1>8, <1>11, <2>1, FaultStill DEF Fault
<1> QED
  BY <1>5, <1>6, <1>9, <1>10, <1>11 DEF DecisionsNext
-----------------------------------------------------------------------------
(* Owners *)

\* Tokens are numbers.
LEMMA TokenFacts ==
    ASSUME RecordsInv
    PROVE  /\ run \in RunRecs /\ run.tok \in Nat /\ run.tok # 0 /\ run.st \in {"waiting", "running", "ended"}
           /\ \A p \in Servers : own[p] \in Nat /\ fin[p] \in Nat
           /\ \A p \in Servers, i \in Ids : exec[p][i].tok \in Nat
           /\ \A p \in Servers, d \in Requests : cont[p][d].tok \in Nat
<1>1. run \in RunRecs /\ run.tok \in Nat /\ run.tok # 0 /\ run.st \in {"waiting", "running", "ended"}
  BY NoneFacts DEF RecordsInv, RowTyped, RunRecs, Tokens
<1>2. \A p \in Servers : own[p] \in Nat /\ fin[p] \in Nat
  BY NoneFacts DEF RecordsInv, RestTyped
<1>3. \A p \in Servers, i \in Ids : exec[p][i].tok \in Nat
  BY NoneFacts DEF RecordsInv, TalkOk, TalkTyped, Execs
<1>4. \A p \in Servers, d \in Requests : cont[p][d].tok \in Nat
  BY NoneFacts DEF RecordsInv, RestTyped, Conts
<1> QED
  BY <1>1, <1>2, <1>3, <1>4

\* Words change nothing for the owner.
LEMMA StillOwners ==
    ASSUME RecordsInv, OwnersInv, Still
    PROVE  OwnersInv'
<1>1. UNCHANGED <<row, run, up, own, ref, cont, fin, ran>> /\ spent \subseteq spent'
  BY DEF Still
<1>2. \A p \in Servers, i \in Ids : exec'[p][i].pc = "commit" => OwnedBy(p, exec'[p][i].tok)
  BY TokenFacts DEF Still, GoesOn, OwnersInv, OwnersMatch, OwnedBy
<1>3. OwnersMatch'
  <2>1. \A p \in Servers, i \in Ids : exec'[p][i].pc = "commit" =>
           exec'[p][i].tok =< run'.tok /\ (exec'[p][i].tok = run'.tok /\ run'.st # "ended" => own'[p] = exec'[p][i].tok)
    BY <1>1, <1>2 DEF OwnedBy
  <2> QED
    BY <1>1, <2>1 DEF OwnersInv, OwnersMatch, OwnedBy
<1>4. CarriedOut'
  BY <1>1 DEF OwnersInv, CarriedOut
<1> QED
  BY <1>3, <1>4 DEF OwnersInv

\* A step that keeps the run, its owners and executions keeps their order.
LEMMA OwnersKept ==
    ASSUME RecordsInv, OwnersInv, UNCHANGED <<own, ref, up, exec>>, spent \subseteq spent',
           run'.tok = run.tok, run'.st = "ended" <=> run.st = "ended",
           \A p \in Servers : fin'[p] = fin[p] \/ fin'[p] = own[p],
           \A p \in Servers, d \in Requests : cont'[p][d].pc # "no" =>
               \/ cont[p][d].pc # "no" /\ cont'[p][d].tok = cont[p][d].tok
               \/ cont'[p][d].tok = own[p]
    PROVE  OwnersMatch'
<1>1. \A p \in Servers : fin'[p] =< run.tok /\ (fin'[p] = run.tok /\ run.st # "ended" => own[p] = fin'[p])
  BY TokenFacts DEF OwnersInv, OwnersMatch, OwnedBy
<1>2. \A p \in Servers, d \in Requests : cont'[p][d].pc # "no" =>
         cont'[p][d].tok =< run.tok /\ (cont'[p][d].tok = run.tok /\ run.st # "ended" => own[p] = cont'[p][d].tok)
  BY TokenFacts DEF OwnersInv, OwnersMatch, OwnedBy
<1>3. \A p \in Servers, i \in Ids : exec'[p][i].pc = "commit" =>
         exec'[p][i].tok =< run'.tok /\ (exec'[p][i].tok = run'.tok /\ run'.st # "ended" => own'[p] = exec'[p][i].tok)
  BY DEF OwnersInv, OwnersMatch, OwnedBy
<1> QED
  BY <1>1, <1>2, <1>3 DEF OwnersInv, OwnersMatch, OwnedBy

\* A continuation at work goes on.
LEMMA ContGoesOn ==
    ASSUME RecordsInv, OwnersInv, NEW p \in Servers, NEW d \in Requests, cont[p][d].pc # "no",
           NEW pc \in {"tool", "model"}, cont' = [cont EXCEPT ![p][d].pc = pc],
           UNCHANGED <<own, ref, up, exec, fin, row>>, spent' = spent,
           run'.tok = run.tok, run'.st = run.st
    PROVE  OwnersInv'
<1>1. /\ cont'[p][d].pc = pc /\ cont'[p][d].tok = cont[p][d].tok
      /\ \A q \in Servers, g \in Requests : q # p \/ g # d => cont'[q][g] = cont[q][g]
  BY ContPcPut, ZenonT(60)
<1>2. OwnersMatch'
  <2>1. /\ \A q \in Servers : fin'[q] = fin[q] \/ fin'[q] = own[q]
        /\ \A q \in Servers, g \in Requests : cont'[q][g].pc # "no" =>
               \/ cont[q][g].pc # "no" /\ cont'[q][g].tok = cont[q][g].tok
               \/ cont'[q][g].tok = own[q]
        /\ UNCHANGED <<own, ref, up, exec>> /\ spent \subseteq spent'
        /\ run'.st = "ended" <=> run.st = "ended"
    BY <1>1
  <2> QED
    BY <2>1, OwnersKept
<1>3. CarriedOut'
  <2>1. \A q \in Servers, g \in Requests : cont[q][g].pc # "no" =>
          cont'[q][g].pc # "no" /\ cont'[q][g].tok = cont[q][g].tok
    BY <1>1
  <2> QED
    BY <2>1 DEF OwnersInv, CarriedOut
<1> QED
  BY <1>2, <1>3 DEF OwnersInv

\* A continuation stops: its process finishes the run if it still owns it.
LEMMA ContStops ==
    ASSUME RecordsInv, OwnersInv, NEW p \in Servers, NEW d \in Requests, cont[p][d].pc # "no",
           StopCont(p, d), FinishFrom(p, cont[p][d].tok),
           UNCHANGED <<own, ref, up, exec, row, run>>, spent' = spent
    PROVE  OwnersInv'
<1> DEFINE t == cont[p][d].tok
<1>0. t \in 0..MaxToken /\ NoCont.pc = "no"
  BY ContFacts
<1>1. /\ cont'[p][d] = NoCont
      /\ \A q \in Servers, g \in Requests : q # p \/ g # d => cont'[q][g] = cont[q][g]
  BY StopFacts
<1>2. /\ fin'[p] = IF own[p] = t THEN t ELSE fin[p]
      /\ \A q \in Servers : q # p => fin'[q] = fin[q]
  BY <1>0, FinishFacts
<1>3. OwnersMatch'
  <2>1. /\ \A q \in Servers : fin'[q] = fin[q] \/ fin'[q] = own[q]
        /\ \A q \in Servers, g \in Requests : cont'[q][g].pc # "no" =>
               \/ cont[q][g].pc # "no" /\ cont'[q][g].tok = cont[q][g].tok
               \/ cont'[q][g].tok = own[q]
        /\ UNCHANGED <<own, ref, up, exec>> /\ spent \subseteq spent'
        /\ run'.tok = run.tok
        /\ run'.st = "ended" <=> run.st = "ended"
    BY <1>0, <1>1, <1>2
  <2> QED
    BY <2>1, OwnersKept
<1>4. CarriedOut'
  <2> SUFFICES ASSUME "unsure" \notin spent, run.st # "ended", NEW q \in Servers, own[q] = run.tok
               PROVE  \/ fin'[q] = run.tok
                      \/ run.st = "running" /\ \E g \in Requests : cont'[q][g].pc # "no" /\ cont'[q][g].tok = run.tok
                      \/ run.st = "waiting" /\ \E g \in Requests : row[g].st = "pending"
    BY DEF CarriedOut
  <2>1. fin[q] = run.tok => fin'[q] = run.tok
    BY <1>2
  <2>2. \A g \in Requests : cont[q][g].pc # "no" /\ cont[q][g].tok = run.tok =>
           fin'[q] = run.tok \/ cont'[q][g] = cont[q][g]
    BY <1>1, <1>2
  <2> QED
    BY <2>1, <2>2 DEF OwnersInv, CarriedOut
<1> QED
  BY <1>3, <1>4 DEF OwnersInv

\* The owner commits an answer and continues.
LEMMA CommitOwners ==
    ASSUME RecordsInv, OwnersInv, NEW p \in Servers, NEW i \in Ids, spent \subseteq spent',
           CommitAnswer(p, i) \/ (CommitUnsure(p, i) /\ "unsure" \in spent'),
           MayCommit(i[1], exec[p][i].tok)
    PROVE  OwnersInv'
<1> DEFINE e == exec[p][i]
           d == i[1]
           k == [pc |-> "ready", tok |-> e.tok]
<1>1. /\ CommitRow(i, e.a, e.tok) /\ e.pc = "commit" /\ UNCHANGED <<up, own, ref, fin>>
      /\ \/ cont' = [cont EXCEPT ![p][d] = k] /\ exec' = [exec EXCEPT ![p][i].pc = "store"]
         \/ cont' = cont /\ "unsure" \in spent' /\ Conclude(p, i, FALSE, e.a)
  BY DEF CommitAnswer, CommitUnsure
<1>2. /\ e \in Execs /\ e.a \in Answers /\ d \in Requests /\ e.tok \in 0..MaxToken
      /\ exec \in [Servers -> [Ids -> Execs]] /\ cont \in [Servers -> [Requests -> Conts]]
  BY <1>1, WorkFacts DEF ExecOk, Execs, RecordsInv, TalkOk, TalkTyped, RestTyped
<1>3. run'.st = "running" /\ run'.tok = run.tok /\ run.tok = e.tok /\ run.st # "ended"
  <2>1. run'.st = "running" /\ run'.tok = run.tok
    BY <1>1, <1>2, CommitRowFacts
  <2> QED
    BY <2>1 DEF MayCommit
<1>4. own[p] = run.tok /\ \A q \in Servers : own[q] = run.tok => q = p
  BY <1>1, <1>3, TokenFacts DEF OwnersInv, OwnersMatch, OwnedBy
<1>5. \A q \in Servers, j \in Ids : exec'[q][j].pc = "commit" => exec'[q][j] = exec[q][j]
  <2>1. CASE exec' = [exec EXCEPT ![p][i].pc = "store"]
    <3> DEFINE f == [e EXCEPT !.pc = "store"]
    <3>1. exec' = [exec EXCEPT ![p][i] = f] /\ f \in Execs /\ f.pc = "store"
      BY <1>2, <2>1 DEF Execs
    <3> HIDE DEF f
    <3> QED
      BY <1>2, <3>1, PutAt
  <2>2. CASE Conclude(p, i, FALSE, e.a)
    <3>1. exec' = [exec EXCEPT ![p][i] = NoExec] /\ NoExec \in Execs /\ NoExec.pc = "no"
      BY <2>2, NoneFacts DEF Conclude, NoExec, Execs
    <3> QED
      BY <1>2, <3>1, PutAt
  <2> QED
    BY <1>1, <2>1, <2>2
<1>6. /\ \A q \in Servers, g \in Requests : cont'[q][g] = cont[q][g] \/ (q = p /\ cont'[q][g].tok = run.tok)
      /\ "unsure" \in spent' \/ (cont'[p][d].pc # "no" /\ cont'[p][d].tok = run.tok)
  <2>1. k \in Conts /\ k.pc = "ready" /\ k.tok = run.tok
    BY <1>2, <1>3 DEF Conts
  <2> HIDE DEF k
  <2>2. CASE cont' = [cont EXCEPT ![p][d] = k]
    BY <1>2, <2>1, <2>2, PutAt
  <2> QED
    BY <1>1, <2>2
<1>7. OwnersMatch'
  <2>1. \A q \in Servers, j \in Ids : exec'[q][j].pc = "commit" => OwnedBy(q, exec'[q][j].tok)
    BY <1>5 DEF OwnersInv, OwnersMatch
  <2>2. \A q \in Servers, g \in Requests : cont'[q][g].pc # "no" => OwnedBy(q, cont'[q][g].tok)
    BY <1>4, <1>6, TokenFacts DEF OwnersInv, OwnersMatch, OwnedBy
  <2>3. own' = own /\ up' = up /\ ref' = ref /\ fin' = fin
    BY <1>1
  <2> QED
    BY <1>3, <2>1, <2>2, <2>3 DEF OwnersInv, OwnersMatch, OwnedBy
<1>8. CarriedOut'
  BY <1>1, <1>2, <1>3, <1>4, <1>6 DEF CarriedOut
<1> QED
  BY <1>7, <1>8 DEF OwnersInv

\* Requests are closed by the owner that finishes the run, or after its end.
LEMMA CloseOwners ==
    ASSUME RecordsInv, OwnersInv, spent' = spent,
           \/ \E c \in Calls : ReadRun(c)
           \/ \E p \in Servers, d \in Requests : CancelRequest(p, d)
           \/ \E p \in Servers : CancelLost(p)
    PROVE  OwnersInv'
<1>1. /\ UNCHANGED <<run, up, own, ref, exec, cont, fin>>
      /\ \/ run.st = "ended" \/ row' = row
         \/ \E p \in Servers : fin[p] = run.tok
  BY DEF ReadRun, CancelRequest, CancelLost
<1>2. OwnersMatch'
  BY <1>1 DEF OwnersInv, OwnersMatch, OwnedBy
<1>3. CarriedOut'
  <2>1. CASE run.st = "ended" \/ row' = row
    BY <1>1, <2>1 DEF OwnersInv, CarriedOut
  <2>2. CASE run.st # "ended" /\ \E p \in Servers : fin[p] = run.tok
    <3>1. PICK p \in Servers : fin[p] = run.tok
      BY <2>2
    <3>2. \A q \in Servers : own[q] = run.tok => fin[q] = run.tok
      BY <2>2, <3>1, TokenFacts DEF OwnersInv, OwnersMatch, OwnedBy
    <3> QED
      BY <1>1, <3>2 DEF CarriedOut
  <2> QED
    BY <1>1, <2>1, <2>2
<1> QED
  BY <1>2, <1>3 DEF OwnersInv

\* A run that has ended has no owner to speak of.
LEMMA EndedOwners ==
    ASSUME RecordsInv, OwnersInv, run' = [run EXCEPT !.st = "ended"],
           UNCHANGED <<exec, cont, up>>, ref' = ref \/ ref' = None,
           \A p \in Servers : own'[p] = own[p] \/ own'[p] = 0,
           \A p \in Servers : fin'[p] = fin[p] \/ fin'[p] = 0
    PROVE  OwnersInv'
<1>1. run'.st = "ended" /\ run'.tok = run.tok
  BY RunStFacts
<1>2. OwnersMatch'
  BY <1>1, TokenFacts DEF OwnersInv, OwnersMatch, OwnedBy
<1>3. CarriedOut'
  BY <1>1 DEF CarriedOut
<1> QED
  BY <1>2, <1>3 DEF OwnersInv

\* The owner ends its run, or finds itself replaced.
LEMMA EndRunOwners ==
    ASSUME RecordsInv, OwnersInv, NEW p \in Servers, EndRun(p), spent' = spent
    PROVE  OwnersInv'
<1>1. /\ fin[p] # 0 /\ fin' = [fin EXCEPT ![p] = 0]
      /\ own' = [own EXCEPT ![p] = IF own[p] = fin[p] THEN 0 ELSE own[p]]
      /\ UNCHANGED <<row, up, exec, cont>>
      /\ own \in [Servers -> 0..MaxToken] /\ fin \in [Servers -> 0..MaxToken]
  BY DEF EndRun, RecordsInv, RestTyped
<1>2. /\ fin'[p] = 0 /\ \A q \in Servers : q # p => fin'[q] = fin[q] /\ own'[q] = own[q]
      /\ own'[p] = IF own[p] = fin[p] THEN 0 ELSE own[p]
  BY <1>1
<1>3. CASE run.tok = fin[p] /\ run.st # "ended"
  <2>1. run' = [run EXCEPT !.st = "ended"] /\ (ref' = ref \/ ref' = None)
    BY <1>3 DEF EndRun
  <2>2. /\ \A q \in Servers : own'[q] = own[q] \/ own'[q] = 0
        /\ \A q \in Servers : fin'[q] = fin[q] \/ fin'[q] = 0
        /\ UNCHANGED <<exec, cont, up>>
    BY <1>1, <1>2
  <2> QED
    BY <2>1, <2>2, EndedOwners
<1>4. CASE ~(run.tok = fin[p] /\ run.st # "ended")
  <2>1. run' = run /\ ref' = ref
    BY <1>4 DEF EndRun
  <2>2. \A q \in Servers : run.st # "ended" /\ own[q] = run.tok => own'[q] = own[q]
    BY <1>2, <1>4
  <2>3. OwnersMatch'
    <3>1. \A q \in Servers : own'[q] = own[q] \/ own'[q] = 0
      BY <1>2
    <3>2. \A q, r \in Servers : own'[q] # 0 /\ own'[q] = own'[r] => q = r
      BY <3>1 DEF OwnersInv, OwnersMatch
    <3>3. \A q \in Servers : own'[q] =< run.tok /\ fin'[q] =< run.tok
             /\ (fin'[q] = run.tok /\ run.st # "ended" => own'[q] = fin'[q])
      BY <1>2, <2>2, <3>1, TokenFacts DEF OwnersInv, OwnersMatch, OwnedBy
    <3>4. \A q \in Servers, i \in Ids : exec'[q][i].pc = "commit" => exec'[q][i].tok =< run.tok
             /\ (exec'[q][i].tok = run.tok /\ run.st # "ended" => own'[q] = exec'[q][i].tok)
      BY <1>1, <2>2 DEF OwnersInv, OwnersMatch, OwnedBy
    <3>5. \A q \in Servers, d \in Requests : cont'[q][d].pc # "no" => cont'[q][d].tok =< run.tok
             /\ (cont'[q][d].tok = run.tok /\ run.st # "ended" => own'[q] = cont'[q][d].tok)
      BY <1>1, <2>2 DEF OwnersInv, OwnersMatch, OwnedBy
    <3>6. ref' # None /\ run'.st # "ended" =>
             ref'.tok = run'.tok /\ (ref'.srv \in up' => own'[ref'.srv] = run'.tok)
      BY <1>1, <2>1, <2>2 DEF OwnersInv, OwnersMatch, RecordsInv, RestTyped, Refs
    <3> QED
      BY <2>1, <3>2, <3>3, <3>4, <3>5, <3>6 DEF OwnersMatch, OwnedBy
  <2>4. CarriedOut'
    <3>1. \A q \in Servers : run.st # "ended" /\ own'[q] = run.tok => own[q] = run.tok
      BY <1>2, TokenFacts
    <3>2. \A q \in Servers : run.st # "ended" /\ fin[q] = run.tok => fin'[q] = run.tok
      BY <1>2, <1>4
    <3> QED
      BY <1>1, <2>1, <3>1, <3>2 DEF OwnersInv, CarriedOut
  <2> QED
    BY <2>3, <2>4 DEF OwnersInv
<1> QED
  BY <1>3, <1>4

\* A waiting run moves to q, and only q owns it.
LEMMA RecoverOwners ==
    ASSUME RecordsInv, OwnersInv, NEW q \in Servers, Recover(q)
    PROVE  OwnersInv'
<1> DEFINE t == run.tok + 1
<1>1. spent' \subseteq Faults /\ spent \subseteq spent'
  BY LeaseFacts DEF Recover
<1>2. /\ run'.st = run.st /\ run'.tok = t /\ run.st = "waiting"
      /\ \A d \in Requests : row'[d].st = row[d].st
  BY <1>1, RecoverKeeps DEF Recover
<1>3. /\ \E d \in Requests : row[d].st = "pending"
      /\ own' = [own EXCEPT ![q] = t] /\ ref' = None /\ UNCHANGED <<up, exec, cont, fin>>
  BY DEF Recover
<1>4. own'[q] = t /\ \A p \in Servers : p # q => own'[p] = own[p]
  BY <1>3 DEF RecordsInv, RestTyped
<1>5. OwnersMatch'
  <2>1. t \in Nat /\ run.tok < t /\ run.tok \in Nat
    BY TokenFacts
  <2> HIDE DEF t
  <2>2. \A p \in Servers : own[p] < t /\ fin[p] < t /\ own[p] \in Nat /\ fin[p] \in Nat
    BY <2>1, TokenFacts DEF OwnersInv, OwnersMatch, OwnedBy
  <2>3. \A p \in Servers, i \in Ids : exec[p][i].pc = "commit" => exec[p][i].tok < t /\ exec[p][i].tok \in Nat
    BY <2>1, TokenFacts DEF OwnersInv, OwnersMatch, OwnedBy
  <2>4. \A p \in Servers, d \in Requests : cont[p][d].pc # "no" => cont[p][d].tok < t /\ cont[p][d].tok \in Nat
    BY <2>1, TokenFacts DEF OwnersInv, OwnersMatch, OwnedBy
  <2>5. \A p, r \in Servers : own'[p] # 0 /\ own'[p] = own'[r] => p = r
    BY <1>4, <2>1, <2>2 DEF OwnersInv, OwnersMatch
  <2>6. \A p \in Servers : own'[p] =< t
    BY <1>4, <2>1, <2>2
  <2> QED
    BY <1>2, <1>3, <2>1, <2>2, <2>3, <2>4, <2>5, <2>6 DEF OwnersMatch, OwnedBy
<1>6. CarriedOut'
  BY <1>2, <1>3 DEF CarriedOut
<1> QED
  BY <1>5, <1>6 DEF OwnersInv

\* A run is reserved by its owner, or found lost.
LEMMA RefOwners ==
    ASSUME RecordsInv, OwnersInv, NEW q \in Servers, (Reserve(q) /\ spent' = spent) \/ Reap(q)
    PROVE  OwnersInv'
<1>1. CASE Reserve(q) /\ spent' = spent
  <2>1. /\ own[q] = run.tok /\ ref' = [srv |-> q, tok |-> own[q]]
        /\ UNCHANGED <<row, run, up, own, exec, cont, fin>>
    BY <1>1 DEF Reserve
  <2>2. OwnersMatch' /\ CarriedOut'
    BY <1>1, <2>1 DEF OwnersInv, OwnersMatch, CarriedOut, OwnedBy
  <2> QED
    BY <2>2 DEF OwnersInv
<1>2. CASE Reap(q)
  <2>1. /\ run' = [run EXCEPT !.st = "ended"] /\ ref' = None /\ UNCHANGED <<exec, cont, up>>
        /\ \A p \in Servers : own'[p] = own[p] \/ own'[p] = 0
        /\ \A p \in Servers : fin'[p] = fin[p] \/ fin'[p] = 0
    BY <1>2 DEF Reap
  <2> QED
    BY <2>1, EndedOwners
<1> QED
  BY <1>1, <1>2

\* An owner that stops leaves the run to the reaper.
LEMMA CrashOwners ==
    ASSUME RecordsInv, OwnersInv, NEW p \in Servers, Crash(p)
    PROVE  OwnersInv'
<1>1. /\ spent \subseteq spent' /\ up' = up \ {p} /\ UNCHANGED <<row, run, ref>>
      /\ own' = [own EXCEPT ![p] = 0] /\ fin' = [fin EXCEPT ![p] = 0]
      /\ exec' = [exec EXCEPT ![p] = [i \in Ids |-> NoExec]]
      /\ cont' = [cont EXCEPT ![p] = [d \in Requests |-> NoCont]]
  BY StrikesFaults DEF Crash
<1>2. /\ own'[p] = 0 /\ fin'[p] = 0
      /\ \A q \in Servers : q # p => own'[q] = own[q] /\ fin'[q] = fin[q]
  BY <1>1 DEF RecordsInv, RestTyped
<1>3. /\ \A i \in Ids : exec'[p][i].pc = "no"
      /\ \A q \in Servers : q # p => exec'[q] = exec[q]
  BY <1>1 DEF RecordsInv, TalkOk, TalkTyped, NoExec
<1>4. /\ \A d \in Requests : cont'[p][d].pc = "no"
      /\ \A q \in Servers : q # p => cont'[q] = cont[q]
  BY <1>1 DEF RecordsInv, RestTyped, NoCont
<1>5. OwnersMatch'
  <2>1. \A q, r \in Servers : own'[q] # 0 /\ own'[q] = own'[r] => q = r
    BY <1>2 DEF OwnersInv, OwnersMatch
  <2>2. \A q \in Servers : own'[q] =< run.tok /\ fin'[q] =< run.tok
           /\ (fin'[q] = run.tok /\ run.st # "ended" => own'[q] = fin'[q])
    BY <1>2, TokenFacts DEF OwnersInv, OwnersMatch, OwnedBy
  <2>3. \A q \in Servers, i \in Ids : exec'[q][i].pc = "commit" => exec'[q][i].tok =< run.tok
           /\ (exec'[q][i].tok = run.tok /\ run.st # "ended" => own'[q] = exec'[q][i].tok)
    BY <1>2, <1>3 DEF OwnersInv, OwnersMatch, OwnedBy
  <2>4. \A q \in Servers, d \in Requests : cont'[q][d].pc # "no" => cont'[q][d].tok =< run.tok
           /\ (cont'[q][d].tok = run.tok /\ run.st # "ended" => own'[q] = cont'[q][d].tok)
    BY <1>2, <1>4 DEF OwnersInv, OwnersMatch, OwnedBy
  <2>5. ref' # None /\ run'.st # "ended" =>
           ref'.tok = run'.tok /\ (ref'.srv \in up' => own'[ref'.srv] = run'.tok)
    BY <1>1, <1>2 DEF OwnersInv, OwnersMatch, RecordsInv, RestTyped, Refs
  <2> QED
    BY <1>1, <2>1, <2>2, <2>3, <2>4, <2>5 DEF OwnersMatch, OwnedBy
<1>6. CarriedOut'
  <2>1. \A q \in Servers : own'[q] = run.tok => q # p
    BY <1>2, TokenFacts
  <2> QED
    BY <1>1, <1>2, <1>4, <2>1 DEF OwnersInv, CarriedOut
<1> QED
  BY <1>5, <1>6 DEF OwnersInv

\* An aborted run is finished by its owner.
LEMMA AbortOwners ==
    ASSUME RecordsInv, OwnersInv, RequestAbort
    PROVE  OwnersInv'
<1>1. /\ fin' = [p \in Servers |-> IF own[p] = run.tok THEN own[p] ELSE fin[p]]
      /\ UNCHANGED <<row, up, own, ref, exec, cont>> /\ spent \subseteq spent'
  BY StrikesFaults DEF RequestAbort
<1>2. run'.st = run.st /\ run'.tok = run.tok
  BY AbortKeeps
<1>3. \A p \in Servers : /\ own[p] = run.tok => fin'[p] = run.tok
                         /\ fin'[p] = fin[p] \/ fin'[p] = own[p]
  BY <1>1
<1>4. OwnersMatch'
  <2>1. /\ \A p \in Servers, d \in Requests : cont'[p][d].pc # "no" =>
               \/ cont[p][d].pc # "no" /\ cont'[p][d].tok = cont[p][d].tok
               \/ cont'[p][d].tok = own[p]
        /\ UNCHANGED <<own, ref, up, exec>>
        /\ \A p \in Servers : fin'[p] = fin[p] \/ fin'[p] = own[p]
    BY <1>1, <1>3
  <2>2. run'.st = "ended" <=> run.st = "ended"
    BY <1>2
  <2> QED
    BY <1>1, <1>2, <2>1, <2>2, OwnersKept
<1>5. CarriedOut'
  BY <1>1, <1>2, <1>3 DEF CarriedOut
<1> QED
  BY <1>4, <1>5 DEF OwnersInv

\* A continuation invokes its tool, goes on to the model, or stops.
LEMMA ToolOwners ==
    ASSUME RecordsInv, OwnersInv, NEW p \in Servers, NEW d \in Requests, spent' = spent,
           BeginTool(p, d) \/ RunTool(p, d) \/ SkipTool(p, d)
    PROVE  OwnersInv'
<1>1. UNCHANGED <<own, ref, up, exec, row>> /\ cont[p][d].pc # "no"
  BY DEF BeginTool, RunTool, SkipTool
<1>2. CASE BeginTool(p, d) /\ Holds(cont[p][d].tok) /\ run.phase[d] = "accepted"
  <2>1. /\ run' = [run EXCEPT !.phase[d] = "executing"] /\ cont' = [cont EXCEPT ![p][d].pc = "tool"]
        /\ fin' = fin
    BY <1>2 DEF BeginTool
  <2>2. run'.st = run.st /\ run'.tok = run.tok
    BY <1>1, <1>2, <2>1, CheckpointFacts
  <2>3. UNCHANGED <<own, ref, up, exec, fin, row>>
    BY <1>1, <2>1
  <2> QED
    BY <1>1, <2>1, <2>2, <2>3, ContGoesOn
<1>3. CASE BeginTool(p, d) /\ ~(Holds(cont[p][d].tok) /\ run.phase[d] = "accepted")
  <2>1. StopCont(p, d) /\ FinishFrom(p, cont[p][d].tok) /\ run' = run
    BY <1>3 DEF BeginTool
  <2>2. UNCHANGED <<own, ref, up, exec, row, run>>
    BY <1>1, <2>1
  <2> QED
    BY <1>1, <2>1, <2>2, ContStops
<1>4. CASE RunTool(p, d) \/ SkipTool(p, d)
  <2>1. /\ cont' = [cont EXCEPT ![p][d].pc = "model"] /\ run'.st = run.st /\ run'.tok = run.tok
        /\ UNCHANGED <<own, ref, up, exec, fin, row>>
    BY <1>4 DEF RunTool, SkipTool
  <2> QED
    BY <1>1, <2>1, ContGoesOn
<1> QED
  BY <1>2, <1>3, <1>4

\* The model turn ends the run, or the run waits again for an open request.
LEMMA EndContOwners ==
    ASSUME RecordsInv, OwnersInv, NEW p \in Servers, NEW d \in Requests, spent' = spent, EndCont(p, d)
    PROVE  OwnersInv'
<1>1. UNCHANGED <<own, ref, up, exec, row>> /\ cont[p][d].pc # "no" /\ StopCont(p, d)
  BY DEF EndCont
<1>2. CASE FinishFrom(p, cont[p][d].tok) /\ run' = run
  <2>1. UNCHANGED <<own, ref, up, exec, row, run>>
    BY <1>1, <1>2
  <2> QED
    BY <1>1, <1>2, <2>1, ContStops
<1>3. CASE /\ run.st = "running" /\ \E e \in Requests : row[e].st = "pending"
           /\ run' = [run EXCEPT !.st = "waiting"] /\ fin' = fin
  <2>1. run'.st = "waiting" /\ run'.tok = run.tok
    BY <1>3, RunStFacts
  <2>2. /\ cont'[p][d].pc = "no"
        /\ \A q \in Servers, g \in Requests : q # p \/ g # d => cont'[q][g] = cont[q][g]
    BY <1>1, StopFacts, ContFacts
  <2>3. OwnersMatch'
    <3>1. /\ \A q \in Servers, g \in Requests : cont'[q][g].pc # "no" =>
                 \/ cont[q][g].pc # "no" /\ cont'[q][g].tok = cont[q][g].tok
                 \/ cont'[q][g].tok = own[q]
          /\ \A q \in Servers : fin'[q] = fin[q] \/ fin'[q] = own[q]
          /\ UNCHANGED <<own, ref, up, exec>> /\ spent \subseteq spent'
      BY <1>1, <1>3, <2>2
    <3>2. run'.st = "ended" <=> run.st = "ended"
      BY <1>3, <2>1
    <3> QED
      BY <2>1, <3>1, <3>2, OwnersKept
  <2>4. CarriedOut'
    BY <1>1, <1>3, <2>1 DEF CarriedOut
  <2> QED
    BY <2>3, <2>4 DEF OwnersInv
<1> QED
  BY <1>2, <1>3 DEF EndCont, Holds

\* Every step keeps the owners.
LEMMA NextOwners ==
    ASSUME RecordsInv, OwnersInv, [DecisionsNext]_dvars
    PROVE  OwnersInv'
<1>1. CASE UNCHANGED dvars
  BY <1>1 DEF dvars, OwnersInv, OwnersMatch, CarriedOut, OwnedBy
<1>2. CASE Step /\ UNCHANGED spent
  <2>1. spent \subseteq spent' /\ spent' = spent
    BY <1>2
  <2>2. ASSUME NEW p \in Servers, NEW i \in Ids, ExecStep(p, i) PROVE OwnersInv'
    <3>1. CASE CommitAnswer(p, i) /\ MayCommit(i[1], exec[p][i].tok)
      BY <2>1, <3>1, CommitOwners
    <3>2. CASE \/ BeginRouted(p, i) \/ CheckCommand(p, i) \/ StoreResult(p, i)
               \/ CommitAnswer(p, i) /\ ~MayCommit(i[1], exec[p][i].tok)
      BY <2>1, <3>2, ExecStill, StillOwners
    <3>3. CASE FollowRouted(p, i)
      BY <2>1, <3>3, WordStill, StillOwners
    <3> QED
      BY <2>2, <3>1, <3>2, <3>3 DEF ExecStep
  <2>3. ASSUME NEW c \in Calls, CallStep(c) PROVE OwnersInv'
    BY <2>1, <2>3, CallStill, StillOwners, CloseOwners DEF CallStep
  <2>4. ASSUME NEW p \in Servers, NEW d \in Requests, ContStep(p, d) PROVE OwnersInv'
    BY <2>1, <2>4, ToolOwners, EndContOwners, CloseOwners DEF ContStep
  <2>5. ASSUME NEW p \in Servers, EndRun(p) \/ Reserve(p) \/ CancelLost(p) PROVE OwnersInv'
    BY <2>1, <2>5, EndRunOwners, RefOwners, CloseOwners
  <2> QED
    BY <1>2, <2>1, <2>2, <2>3, <2>4, <2>5, WordStill, StillOwners DEF Step
<1>3. CASE Fault
  <2>1. ASSUME NEW p \in Servers, NEW i \in Ids, CommitUnsure(p, i) PROVE OwnersInv'
    <3>1. Strikes("unsure") /\ MayCommit(i[1], exec[p][i].tok)
      BY <2>1 DEF CommitUnsure
    <3>2. spent \subseteq spent' /\ "unsure" \in spent'
      BY <3>1, StrikesFaults
    <3> QED
      BY <2>1, <3>1, <3>2, CommitOwners
  <2> QED
    BY <1>3, <2>1, FaultStill, StillOwners, CrashOwners, AbortOwners DEF Fault
<1>4. ASSUME NEW p \in Servers, Recover(p) \/ Reap(p) PROVE OwnersInv'
  BY <1>4, RecoverOwners, RefOwners
<1> QED
  BY <1>1, <1>2, <1>3, <1>4 DEF DecisionsNext
-----------------------------------------------------------------------------
(* Theorems *)

\* No tool has been invoked at first, and the owner waits for the requests.
LEMMA InitWork ==
    ASSUME DecisionsInit
    PROVE  ToolsInv /\ OwnersInv
<1>1. PICK p \in Servers :
        /\ row = [d \in Requests |-> [st |-> "pending", ans |-> None, ctl |-> None, tok |-> 1]]
        /\ run = [st |-> "waiting", tok |-> 1, abort |-> FALSE, phase |-> [d \in Requests |-> "none"]]
        /\ own = [q \in Servers |-> IF q = p THEN 1 ELSE 0]
        /\ ref = [srv |-> p, tok |-> 1]
        /\ exec = [q \in Servers |-> [i \in Ids |-> NoExec]]
        /\ cont = [q \in Servers |-> [d \in Requests |-> NoCont]]
        /\ fin = [q \in Servers |-> 0]
        /\ ran = [d \in Requests |-> 0]
  BY DEF DecisionsInit
<1>2. /\ run.st = "waiting" /\ run.tok = 1 /\ ref.srv = p /\ ref.tok = 1
      /\ \A d \in Requests : row[d].st = "pending" /\ run.phase[d] = "none" /\ ran[d] = 0
      /\ \A q \in Servers : own[q] = (IF q = p THEN 1 ELSE 0) /\ fin[q] = 0
      /\ \A q \in Servers, i \in Ids : exec[q][i].pc = "no"
      /\ \A q \in Servers, d \in Requests : cont[q][d].pc = "no"
  BY <1>1 DEF NoExec, NoCont
<1>3. ToolsInv
  BY <1>2 DEF ToolsInv
<1>4. OwnersMatch
  BY <1>2 DEF OwnersMatch, OwnedBy
<1>5. CarriedOut
  BY <1>2, DecisionsAssumption DEF CarriedOut
<1> QED
  BY <1>3, <1>4, <1>5 DEF OwnersInv

\* The records are well formed and agree with the database.
LEMMA RecordsSpec == DecisionsSpec => []RecordsInv
<1>1. DecisionsInit => RecordsInv
  BY InitRecords
<1>2. RecordsInv /\ [DecisionsNext]_dvars => RecordsInv'
  BY NextRecords
<1> QED
  BY <1>1, <1>2, PTL DEF DecisionsSpec

\* commands.go, commandResultErrorFor, and the unique control id of tool_approval.sql: the
\* records of processes, commands and replies are well formed, and a user who is told
\* that the answer was applied finds it in the request row under its control id.
THEOREM DecisionsTheorem == DecisionsSpec => []DecisionsInv
<1>1. RecordsInv => DecisionsTypeOK
  BY DEF RecordsInv, RowTyped, TalkOk, TalkTyped, RestTyped, RowRecs, RunRecs, Execs, CallRecs,
     Conts, Refs, DecisionsTypeOK
<1>2. RecordsInv => AppliedIsRecorded
  <2> SUFFICES ASSUME RecordsInv, NEW c \in Calls, call[c].out \in {"applied", "replayed"}
               PROVE  /\ row[call[c].d].st = "decided" /\ row[call[c].d].ans = call[c].a
                      /\ row[call[c].d].ctl = call[c].k
    BY DEF AppliedIsRecorded
  <2>1. DecidedIn(row, <<call[c].d, call[c].k>>, call[c].a)
    BY DEF RecordsInv, TalkOk, CallsOk, CallOk
  <2> QED
    BY <2>1 DEF DecidedIn
<1>3. RecordsInv => DecisionsInv
  BY <1>1, <1>2 DEF DecisionsInv
<1> QED
  BY <1>3, RecordsSpec, PTL

\* executeApprovedTool: an approved tool is invoked at most once and a rejected one never,
\* however often responses are retried and whichever owners execute them.
THEOREM ToolTheorem == DecisionsSpec => []ToolRunsAtMostOnce
<1>1. DecisionsInit => ToolsInv
  BY InitWork
<1>2. RecordsInv /\ ToolsInv /\ [DecisionsNext]_dvars => ToolsInv'
  BY NextTools
<1>3. RecordsInv /\ ToolsInv => ToolRunsAtMostOnce
  BY DEF ToolsInv, ToolRunsAtMostOnce
<1> QED
  BY <1>1, <1>2, <1>3, RecordsSpec, PTL DEF DecisionsSpec

\* handleRuntimeDecisionCommand: when everything has come to rest and the owner of the run
\* lives, the run has ended or waits for a request that can be answered: no recorded
\* answer is left that nobody carries out.
THEOREM CarriedOutTheorem == DecisionsSpec => []AnsweredRunIsCarriedOut
<1>1. DecisionsInit => OwnersInv
  BY InitWork
<1>2. RecordsInv /\ OwnersInv /\ [DecisionsNext]_dvars => OwnersInv'
  BY NextOwners
<1>3. RecordsInv /\ OwnersInv => AnsweredRunIsCarriedOut
  <2> SUFFICES ASSUME RecordsInv, OwnersInv, Quiet, "unsure" \notin spent, ref # None, ref.srv \in up,
                      run.st # "ended"
               PROVE  run.st = "waiting" /\ \E d \in Requests : row[d].st = "pending"
    BY DEF AnsweredRunIsCarriedOut
  <2>1. ref.srv \in Servers /\ own[ref.srv] = run.tok
    BY DEF RecordsInv, RestTyped, OwnersInv, OwnersMatch
  <2>2. fin[ref.srv] # run.tok /\ \A d \in Requests : cont[ref.srv][d].pc = "no"
    BY <2>1, TokenFacts DEF Quiet, NoCont
  <2> QED
    BY <2>1, <2>2 DEF OwnersInv, CarriedOut
<1> QED
  BY <1>1, <1>2, <1>3, RecordsSpec, PTL DEF DecisionsSpec
=============================================================================
