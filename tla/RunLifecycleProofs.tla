------------------------- MODULE RunLifecycleProofs -------------------------
(***************************************************************************)
(* Proofs about RunLifecycle, for any number of sessions, runs, processes, *)
(* reapers, tokens and incarnations of the live backend.                   *)
(*                                                                         *)
(* The argument has five layers.  LocalInv says of every control, pass,    *)
(* view and index entry how it relates to the one row it is about; rows    *)
(* only grow (RowGrows), so a step has to be looked at only where it       *)
(* writes.  FenceInv is about the fence a run works under, ShownInv about  *)
(* what the live view shows and the tokens it may come to show.  ParkedInv *)
(* and OwnerInv are about reapers that overlap with owners and each other. *)
(***************************************************************************)
EXTENDS RunLifecycle, SessionLedgerProofs

\* The local phases after a successful claim, and after the fence.
Beyond == {"claimed", "fenced", "abandoning", "shut"} \cup Holding
Past == {"fenced"} \cup Holding

Ended == {"finishing"} \cup TerminalStates
Unowned == {"none", "accepted"}

\* The generations of a row are incarnations of the backend, and its outcome
\* honours an abort.
RowOk(row) ==
    /\ row.gen # None => row.gen \in 1..MaxGen
    /\ row.state \in {"running", "waiting"} => row.gen # None
    /\ row.state = "accepted" => row.token = 0 /\ row.owner = None
    /\ row.state \in {"running", "waiting", "finishing"} => 1 =< row.token
    /\ (row.state \in TerminalStates /\ row.abort) => row.state \in {"aborted", "failed"}

\* What a control c of a run with this row may rely on; n is the last token.
CtlOk(c, row, n) ==
    /\ c \in Controls
    /\ c.token =< n
    /\ c.pc # "idle" => row.state # "none"
    /\ c.pc = "drawn" => 1 =< c.token /\ 1 =< c.gen
    /\ c.pc \in Beyond => row.state # "accepted" /\ 1 =< c.token /\ c.token =< row.token
    /\ c.pc = "canceled" => c.out = "aborted"
    /\ c.pc = "ending" => c.out \in OwnerStates
    /\ c.pc = "prepared" => c.out \in TerminalStates /\ row.state \in Ended /\ row.token = c.token
    /\ c.pc = "finalized" => row.state \in TerminalStates /\ c.out = row.state

\* What a pass x of a reaper on the run of this row may rely on.
PassOk(x, row, n) ==
    /\ x \in Passes
    /\ x.pc \notin {"idle", "sweep"} => x.run \in Runs /\ row.state # "none"
    /\ x.pc = "mark" =>
          /\ x.token =< row.token
          /\ x.expected \in {ActiveStates} \cup {{st} : st \in ActiveStates \cup TerminalStates}
    /\ x.pc = "reconcile" => row.state \in TerminalStates
    /\ x.pc = "release" => row.state \in TerminalStates \/ x.cand < row.token
    /\ x.pc \in {"reclaim", "rereserve"} =>
          row.state # "accepted" /\ 1 =< x.new /\ x.new =< n /\ x.cand < x.new /\ x.token =< n
    /\ x.pc = "reclaim" => 1 =< x.gen
    /\ x.pc = "rereserve" => x.new =< row.token

Views == [run : Runs \cup {None}, token : Nat,
          status : LiveStatuses \cup TerminalStates \cup {"none"}]

\* The view v of session s shows a run of s with this row, under a token that
\* the run has or had, and only an outcome that is durable.
ViewOk(v, s, row) ==
    /\ v \in Views
    /\ v.status # "none" => v.run \in Runs
    /\ v.run \in Runs => row.session = s /\ row.state \notin Unowned /\ v.token =< row.token
    /\ v.status \in TerminalStates => row.state = v.status

LiveOk ==
    /\ livegen \in 1..MaxGen
    /\ view \in [Sessions -> Views]
    /\ \A s \in Sessions : ViewOk(view[s], s, runs[view[s].run])
    /\ ref \in [Runs -> Nat]
    /\ \A r \in Runs : ref[r] =< runs[r].token
    /\ index \in SUBSET (Runs \X Nat)
    /\ \A e \in index : e[2] =< runs[e[1]].token /\ runs[e[1]].state \notin Unowned

LocalInv ==
    /\ LedgerInv
    /\ \A r \in Runs : RowOk(runs[r])
    /\ stat \in [Owners -> {"up", "closing", "down"}]
    /\ ctl \in [Owners -> [Runs -> Controls]]
    /\ \A p \in Owners, r \in Runs : CtlOk(ctl[p][r], runs[r], seq)
    /\ rp \in [Owners -> Passes]
    /\ \A p \in Owners : PassOk(rp[p], runs[rp[p].run], seq)
    /\ LiveOk

-----------------------------------------------------------------------------
\* Something works under the row's token.
UnderToken(r) ==
    \/ Shows(r, runs[r].token)
    \/ runs[r].state = "waiting"
    \/ \E p \in Owners : ctl[p][r].pc \in Past /\ Tok(p, r) = runs[r].token
    \/ \E p \in Owners : rp[p].pc = "rereserve" /\ rp[p].run = r /\ rp[p].new = runs[r].token

\* Whatever works under the token of an active run may persist with it.
Fenced ==
    \A r \in Runs : Active(r) /\ UnderToken(r) => fence[runs[r].session] = runs[r].token

\* A claim whose run was ended before the fence moved is behind every later one.
ClaimsBehind ==
    \A p \in Owners, q, r \in Runs :
        (ctl[p][q].pc = "claimed" /\ q # r /\ runs[q].session = runs[r].session /\ Active(r))
            => /\ runs[r].token > 0 => Tok(p, q) < runs[r].token
               /\ \A o \in Owners : ctl[o][r].pc = "drawn" => Tok(p, q) < Tok(o, r)

\* A lease under the row's token is in the index.
RefIndexed ==
    \A r \in Runs : (Active(r) /\ ref[r] # 0 /\ ref[r] = runs[r].token)
                        => <<r, runs[r].token>> \in index

FenceInv == Fenced /\ ClaimsBehind /\ RefIndexed

-----------------------------------------------------------------------------
\* Without a flush: who holds the run has its index entry, and a run that is parked
\* or on its way out has one, which no pass is about to take as the last.
HeldIndexed ==
    \A p \in Owners, r \in Runs :
        (ctl[p][r].pc \in Holding /\ Active(r) /\ Tok(p, r) = runs[r].token)
            => <<r, runs[r].token>> \in index

ParkedIndexed ==
    \A r \in Runs : runs[r].state \in {"waiting", "finishing"} => \E e \in index : e[1] = r

ReleaseLeaves ==
    \A p \in Owners : (rp[p].pc = "release" /\ ~Terminal(rp[p].run))
        => \E e \in index : e[1] = rp[p].run /\ rp[p].cand < e[2]

ParkedInv == HeldIndexed /\ ParkedIndexed /\ ReleaseLeaves

-----------------------------------------------------------------------------
\* Who presents the row's token is the row's owner.
OwnersMatch ==
    /\ \A p \in Owners, r \in Runs :
         (ctl[p][r].pc \in Beyond /\ Tok(p, r) = runs[r].token) => runs[r].owner = p
    /\ \A p \in Owners :
         (rp[p].pc = "rereserve" /\ rp[p].new = runs[rp[p].run].token)
             => runs[rp[p].run].owner = p

Unstarted(r) ==
    /\ \A e \in index : e[1] # r
    /\ \A p \in Owners : ~(rp[p].pc = "rereserve" /\ rp[p].run = r)

\* A claim that is not reserved yet is the first ownership of its run.
Starting ==
    \A p \in Owners, r \in Runs :
        (ctl[p][r].pc \in {"claimed", "fenced"} /\ Active(r))
            => runs[r].state = "running" /\ Tok(p, r) = runs[r].token /\ Unstarted(r)

\* A token that was reclaimed and not reserved yet is nobody else's.
RecoveryApart ==
    \A p \in Owners : rp[p].pc = "rereserve" =>
        LET r == rp[p].run IN
        /\ \A o \in Owners : ctl[o][r].pc \in Beyond => Tok(o, r) # rp[p].new
        /\ \A o \in Owners : (rp[o].pc = "rereserve" /\ rp[o].run = r /\ o # p)
                                => rp[o].new # rp[p].new
        /\ (Active(r) /\ rp[p].new = runs[r].token) => runs[r].state = "waiting"

\* A pass that is about to end a running run under its token found it without a
\* lease, and nobody can get one under that token any more.
MarkSpares ==
    \A p \in Owners :
        LET r == rp[p].run IN
        (rp[p].pc = "mark" /\ "running" \in rp[p].expected /\ Active(r)
             /\ rp[p].token = runs[r].token /\ rp[p].token # 0)
            => /\ ref[r] # runs[r].token
               /\ \A o \in Owners : ctl[o][r].pc \notin {"claimed", "fenced"}
               /\ \A o \in Owners : ~(rp[o].pc = "rereserve" /\ rp[o].run = r
                                         /\ rp[o].new = runs[r].token)

NoSweep == \A p \in Owners : rp[p].pc # "sweep"

OwnerInv == OwnersMatch /\ Starting /\ RecoveryApart /\ MarkSpares /\ NoSweep
-----------------------------------------------------------------------------
(* Rows grow.                                                              *)

Expectations == {ActiveStates} \cup {{x} : x \in ActiveStates}

\* What one process does to the row of run r under token t.
TokenMove(r, t) ==
    \/ SetWaitingDecision(r, t)
    \/ Resume(r, t)
    \/ \E b \in BOOLEAN : PersistAgentStep(r, t, b)
    \/ \E st \in OwnerStates : PrepareFinish(r, t, st)
    \/ \E st \in TerminalStates, e \in Expectations :
           Finalize(r, t, st, e) /\ (st \in {"failed", "lost"} \/ runs[r].state = "finishing")

\* What the processes do to the ledger.
Move ==
    \/ UNCHANGED lvars
    \/ NextFencingToken
    \/ \E r \in Runs : RequestAbort(r)
    \/ \E r \in Runs, s \in Sessions, i \in Invs : Admit(r, s, i)
    \/ \E r \in Runs, t \in 1..seq : runs[r].session \in Sessions /\ Activate(runs[r].session, t)
    \/ \E r \in Runs, p \in Owners, t \in 1..seq, g \in 1..MaxGen :
           Claim(r, p, t, g) \/ \E prev \in Tokens : ReclaimWaitingDecision(r, p, prev, t, g)
    \/ \E r \in Runs, t \in Tokens : TokenMove(r, t)

\* Every move is a step of the ledger.
LEMMA MoveIsNext == ASSUME Move PROVE [Next]_lvars
<1>1. CASE \E r \in Runs, p \in Owners, t \in 1..seq, g \in 1..MaxGen :
               Claim(r, p, t, g) \/ \E prev \in Tokens : ReclaimWaitingDecision(r, p, prev, t, g)
  <2>1. 1..MaxGen \subseteq Gens
    BY LifeAssumption
  <2> QED
    BY <1>1, <2>1 DEF Next
<1>2. CASE \E r \in Runs, t \in Tokens : TokenMove(r, t)
  <2>1. PICK r \in Runs, t \in Tokens : TokenMove(r, t)
    BY <1>2
  <2>2. Work(r, t)
    BY <2>1 DEF TokenMove, Work, Expectations
  <2> QED
    BY <2>2 DEF Next
<1> QED
  BY <1>1, <1>2 DEF Move, Next

\* What no step takes back in a row.
RowGrows(a, b) ==
    /\ a.state # "none" => b.state # "none" /\ b.session = a.session
    /\ a.state \notin Unowned => b.state \notin Unowned
    /\ a.token =< b.token
    /\ a.state \in Ended => b.state \in Ended /\ b.token = a.token
    /\ a.state \in TerminalStates => b = a

LEMMA MoveGrows ==
    ASSUME LedgerInv, \A r \in Runs : RowOk(runs[r]), Move
    PROVE  /\ LedgerInv' /\ seq \in Nat /\ seq' \in Nat /\ seq =< seq'
           /\ \A r \in Runs : /\ runs[r] \in Rows /\ runs'[r] \in Rows
                              /\ RowGrows(runs[r], runs'[r]) /\ RowOk(runs'[r])
<1>1. LedgerInv' /\ [Advance]_lvars
  BY MoveIsNext, NextLedgerInv, NextAdvances
<1>2. /\ seq \in Nat /\ seq' \in Nat /\ seq =< seq'
      /\ runs \in [Runs -> Rows] /\ runs' \in [Runs -> Rows]
  BY <1>1 DEF LedgerInv, TypeOK, Advance, lvars
<1>3. ASSUME NEW row \in Rows, RowOk(row) PROVE RowGrows(row, row)
  BY DEF RowGrows, Rows
<1> SUFFICES ASSUME NEW r \in Runs PROVE RowGrows(runs[r], runs'[r]) /\ RowOk(runs'[r])
  BY <1>1, <1>2
<1>4. CASE runs'[r] = runs[r]
  BY <1>2, <1>3, <1>4
<1>5. CASE runs'[r] # runs[r]
  <2> USE <1>2, <1>5 DEF Rows, ActiveStates, TerminalStates, OwnerStates, Unowned, Ended
  <2>1. \A q \in Runs : runs[q] \in Rows /\ RowOk(runs[q])
    OBVIOUS
  <2>2. CASE \E q \in Runs : RequestAbort(q)
    <3>1. PICK q \in Runs : RequestAbort(q)
      BY <2>2
    <3>2. q = r /\ CanAbort(r) /\ runs'[r] = [runs[r] EXCEPT !.abort = TRUE]
      BY <3>1 DEF RequestAbort
    <3> QED
      BY <2>1, <3>2 DEF CanAbort, RowGrows, RowOk
  <2>3. CASE \E q \in Runs, s \in Sessions, i \in Invs : Admit(q, s, i)
    <3>1. PICK q \in Runs, s \in Sessions, i \in Invs : Admit(q, s, i)
      BY <2>3
    <3>2. /\ q = r /\ runs[r] = NoRow
          /\ runs'[r] = [NoRow EXCEPT !.state = "accepted", !.session = s, !.inv = i,
                                      !.pos = nextPos[s]]
      BY <3>1 DEF Admit, LedgerInv, RowsNumbered
    <3> QED
      BY <3>2 DEF NoRow, RowGrows, RowOk
  <2>4. CASE \E q \in Runs, p \in Owners, t \in 1..seq, g \in 1..MaxGen :
               Claim(q, p, t, g) \/ \E prev \in Tokens : ReclaimWaitingDecision(q, p, prev, t, g)
    <3>1. PICK q \in Runs, p \in Owners, t \in 1..seq, g \in 1..MaxGen :
               Claim(q, p, t, g) \/ \E prev \in Tokens : ReclaimWaitingDecision(q, p, prev, t, g)
      BY <2>4
    <3>2. /\ q = r /\ runs[r].token < t
          /\ \/ /\ runs[r].state = "accepted"
                /\ runs'[r] = [runs[r] EXCEPT !.state = "running", !.owner = p, !.token = t, !.gen = g]
             \/ /\ runs[r].state = "waiting"
                /\ runs'[r] = [runs[r] EXCEPT !.owner = p, !.token = t, !.gen = g]
      <4>1. q = r
        BY <3>1 DEF Claim, ReclaimWaitingDecision
      <4>2. CASE Claim(r, p, t, g)
        BY <4>1, <4>2 DEF Claim, CanClaim
      <4>3. CASE \E prev \in Tokens : ReclaimWaitingDecision(r, p, prev, t, g)
        BY <4>1, <4>3 DEF ReclaimWaitingDecision, CanReclaim
      <4> QED
        BY <3>1, <4>1, <4>2, <4>3
    <3>3. g # None
      BY LifeAssumption, NoneAssumption
    <3>4. /\ runs'[r].session = runs[r].session /\ runs'[r].token = t /\ runs'[r].gen = g
          /\ runs[r].state \in {"accepted", "waiting"} /\ runs'[r].state \in {"running", "waiting"}
      BY <2>1, <3>2
    <3>5. runs[r].token \in Nat /\ t \in Nat /\ runs[r].token =< t
      BY <2>1, <3>2
    <3>6. RowGrows(runs[r], runs'[r])
      BY <3>4, <3>5 DEF RowGrows
    <3> QED
      BY <3>3, <3>4, <3>6 DEF RowOk
  <2>5. CASE \E q \in Runs, t \in Tokens : TokenMove(q, t)
    <3>1. PICK q \in Runs, t \in Tokens : TokenMove(q, t)
      BY <2>5
    <3>2. q = r
      BY <3>1 DEF TokenMove, SetWaitingDecision, Resume, PersistAgentStep, PrepareFinish, Finalize
    <3>3. CASE SetWaitingDecision(r, t) \/ Resume(r, t)
      <4>1. /\ runs[r].state \in {"running", "waiting"}
            /\ \E st \in {"running", "waiting"} : runs'[r] = [runs[r] EXCEPT !.state = st]
        BY <3>3 DEF SetWaitingDecision, Resume, Owned
      <4> QED
        BY <2>1, <4>1 DEF RowGrows, RowOk
    <3>4. CASE \E st \in OwnerStates : PrepareFinish(r, t, st)
      <4>1. PICK st \in OwnerStates : PrepareFinish(r, t, st)
        BY <3>4
      <4>2. /\ runs[r].state \in {"running", "waiting", "finishing"}
            /\ runs'[r] = [runs[r] EXCEPT !.state = "finishing", !.proposed = Proposal(runs[r], st)]
        BY <4>1 DEF PrepareFinish, CanPrepare, Owned
      <4> QED
        BY <2>1, <4>2 DEF RowGrows, RowOk
    <3>5. CASE \E st \in TerminalStates, e \in Expectations :
                 Finalize(r, t, st, e) /\ (st \in {"failed", "lost"} \/ runs[r].state = "finishing")
      <4>1. PICK st \in TerminalStates, e \in Expectations :
                 Finalize(r, t, st, e) /\ (st \in {"failed", "lost"} \/ runs[r].state = "finishing")
        BY <3>5
      <4>2. /\ runs[r].state \in ActiveStates
            /\ runs'[r] = [runs[r] EXCEPT !.state = Verdict(runs[r], st)]
        BY <4>1 DEF Finalize, CanFinalize, Owned
      <4>3. /\ Verdict(runs[r], st) \in TerminalStates
            /\ runs[r].abort => Verdict(runs[r], st) \in {"aborted", "failed"}
        <5>1. /\ runs[r].state = "finishing" => runs[r].proposed # "none"
              /\ runs[r].abort /\ runs[r].proposed # "none" => runs[r].proposed = "aborted"
          BY DEF LedgerInv, ProposalDecides, AbortBeatsProposal
        <5> QED
          BY <4>1, <5>1 DEF Verdict
      <4> QED
        BY <2>1, <4>2, <4>3 DEF RowGrows, RowOk
    <3>6. ~ \E b \in BOOLEAN : PersistAgentStep(r, t, b)
      BY DEF PersistAgentStep
    <3> QED
      BY <3>1, <3>2, <3>3, <3>4, <3>5, <3>6 DEF TokenMove
  <2>6. ~ UNCHANGED lvars /\ ~ NextFencingToken
    BY DEF lvars, NextFencingToken
  <2>7. ~ \E q \in Runs, t \in 1..seq : runs[q].session \in Sessions /\ Activate(runs[q].session, t)
    BY DEF Activate
  <2> QED
    BY <2>2, <2>3, <2>4, <2>5, <2>6, <2>7 DEF Move
<1> QED
  BY <1>4, <1>5

-----------------------------------------------------------------------------
(* What a control, a pass or a view relies on stays while rows grow.       *)

LEMMA CtlStays ==
    ASSUME NEW a \in Rows, NEW b \in Rows, RowGrows(a, b), NEW n \in Nat, NEW m \in Nat, n =< m,
           NEW c, CtlOk(c, a, n)
    PROVE  CtlOk(c, b, m)
<1>1. c \in Controls /\ c.token \in Nat /\ a.token \in Nat /\ b.token \in Nat
  BY DEF CtlOk, Controls, Rows
<1>2. c.pc \in Beyond => a.state \notin Unowned
  BY DEF CtlOk, Beyond, Holding, Unowned
<1> QED
  BY <1>1, <1>2 DEF CtlOk, RowGrows, Unowned, Ended, TerminalStates

LEMMA PassStays ==
    ASSUME NEW a, NEW b, NEW n \in Nat, NEW m \in Nat, n =< m,
           NEW x, PassOk(x, a, n),
           x.run \in Runs => a \in Rows /\ b \in Rows /\ RowGrows(a, b)
    PROVE  PassOk(x, b, m)
<1>1. x \in Passes /\ x.cand \in Nat /\ x.token \in Nat /\ x.new \in Nat
  BY DEF PassOk, Passes
<1>2. CASE x.pc \in {"idle", "sweep"}
  BY <1>1, <1>2 DEF PassOk
<1>3. CASE x.pc \notin {"idle", "sweep"}
  <2>1. x.run \in Runs /\ a \in Rows /\ b \in Rows /\ RowGrows(a, b)
    BY <1>3 DEF PassOk
  <2>2. a.token \in Nat /\ b.token \in Nat
    BY <2>1 DEF Rows
  <2>3. x.pc \in {"reclaim", "rereserve"} => a.state \notin Unowned
    BY <1>3 DEF PassOk, Unowned
  <2> QED
    BY <1>1, <1>3, <2>1, <2>2, <2>3 DEF PassOk, RowGrows, Unowned, TerminalStates
<1> QED
  BY <1>2, <1>3

LEMMA ViewStays ==
    ASSUME NEW a, NEW b, NEW s, NEW v, ViewOk(v, s, a),
           v.run \in Runs => a \in Rows /\ b \in Rows /\ RowGrows(a, b)
    PROVE  ViewOk(v, s, b)
<1>1. v \in Views /\ v.token \in Nat /\ (v.status \in TerminalStates => v.status # "none")
  BY DEF ViewOk, Views, TerminalStates
<1>2. v.run \in Runs => a.token \in Nat /\ b.token \in Nat
  BY DEF Rows
<1> QED
  BY <1>1, <1>2 DEF ViewOk, RowGrows, Unowned, TerminalStates

\* What a step has to show of the live half: what it writes there is in order.
LiveWrites ==
    /\ livegen' \in 1..MaxGen
    /\ view' \in [Sessions -> Views]
    /\ \A s \in Sessions :
         view'[s] # view[s] => ViewOk(view'[s], s, runs'[view'[s].run])
    /\ ref' \in [Runs -> Nat]
    /\ \A r \in Runs : ref'[r] # ref[r] => ref'[r] =< runs'[r].token
    /\ index' \in SUBSET (Runs \X Nat)
    /\ \A e \in index' : e \notin index =>
          e[2] =< runs'[e[1]].token /\ runs'[e[1]].state \notin Unowned

CtlWrites ==
    /\ ctl' \in [Owners -> [Runs -> Controls]]
    /\ \A p \in Owners, r \in Runs :
         ctl'[p][r] # ctl[p][r] => CtlOk(ctl'[p][r], runs'[r], seq')

PassWrites ==
    /\ rp' \in [Owners -> Passes]
    /\ \A p \in Owners : rp'[p] # rp[p] => PassOk(rp'[p], runs'[rp'[p].run], seq')

\* A step has to be looked at only where it writes.
LEMMA LocalStep ==
    ASSUME LocalInv, Move, stat' \in [Owners -> {"up", "closing", "down"}],
           CtlWrites, PassWrites, LiveWrites
    PROVE  LocalInv'
<1>1. /\ LedgerInv' /\ seq \in Nat /\ seq' \in Nat /\ seq =< seq'
      /\ \A r \in Runs : /\ runs[r] \in Rows /\ runs'[r] \in Rows
                         /\ RowGrows(runs[r], runs'[r]) /\ RowOk(runs'[r])
  BY MoveGrows DEF LocalInv
<1>2. \A p \in Owners, r \in Runs : CtlOk(ctl'[p][r], runs'[r], seq')
  <2> SUFFICES ASSUME NEW p \in Owners, NEW r \in Runs PROVE CtlOk(ctl'[p][r], runs'[r], seq')
    OBVIOUS
  <2>1. CASE ctl'[p][r] # ctl[p][r]
    BY <2>1 DEF CtlWrites
  <2>2. CASE ctl'[p][r] = ctl[p][r]
    <3>1. CtlOk(ctl[p][r], runs[r], seq)
      BY DEF LocalInv
    <3>2. CtlOk(ctl[p][r], runs'[r], seq')
      BY <1>1, <3>1, CtlStays
    <3> QED
      BY <2>2, <3>2
  <2> QED
    BY <2>1, <2>2
<1>3. \A p \in Owners : PassOk(rp'[p], runs'[rp'[p].run], seq')
  <2> SUFFICES ASSUME NEW p \in Owners PROVE PassOk(rp'[p], runs'[rp'[p].run], seq')
    OBVIOUS
  <2>1. CASE rp'[p] # rp[p]
    BY <2>1 DEF PassWrites
  <2>2. CASE rp'[p] = rp[p]
    <3>1. PassOk(rp[p], runs[rp[p].run], seq)
      BY DEF LocalInv
    <3> DEFINE a == runs[rp[p].run]  b == runs'[rp[p].run]  x == rp[p]
    <3>2. x.run \in Runs => a \in Rows /\ b \in Rows /\ RowGrows(a, b)
      BY <1>1
    <3>3. seq \in Nat /\ seq' \in Nat /\ seq =< seq'
      BY <1>1
    <3> HIDE DEF a, b, x
    <3>4. PassOk(x, b, seq')
      BY <3>1, <3>2, <3>3, PassStays DEF a, x
    <3> QED
      BY <2>2, <3>4 DEF b, x
  <2> QED
    BY <2>1, <2>2
<1>4. \A s \in Sessions : ViewOk(view'[s], s, runs'[view'[s].run])
  <2> SUFFICES ASSUME NEW s \in Sessions PROVE ViewOk(view'[s], s, runs'[view'[s].run])
    OBVIOUS
  <2>1. CASE view'[s] # view[s]
    BY <2>1 DEF LiveWrites
  <2>2. CASE view'[s] = view[s]
    <3>1. ViewOk(view[s], s, runs[view[s].run])
      BY DEF LocalInv, LiveOk
    <3>2. ViewOk(view[s], s, runs'[view[s].run])
      BY <1>1, <3>1, ViewStays
    <3> QED
      BY <2>2, <3>2
  <2> QED
    BY <2>1, <2>2
<1>5. \A r \in Runs : ref'[r] =< runs'[r].token
  <2> SUFFICES ASSUME NEW r \in Runs PROVE ref'[r] =< runs'[r].token
    OBVIOUS
  <2>1. ref[r] \in Nat /\ runs[r].token \in Nat /\ runs'[r].token \in Nat
    BY <1>1 DEF LocalInv, LiveOk, Rows
  <2>2. runs[r].token =< runs'[r].token /\ ref[r] =< runs[r].token
    BY <1>1 DEF RowGrows, LocalInv, LiveOk
  <2> QED
    BY <2>1, <2>2 DEF LiveWrites
<1>6. \A e \in index' : e[2] =< runs'[e[1]].token /\ runs'[e[1]].state \notin Unowned
  <2> SUFFICES ASSUME NEW e \in index', e \in index
               PROVE  e[2] =< runs'[e[1]].token /\ runs'[e[1]].state \notin Unowned
    BY DEF LiveWrites
  <2>1. e[1] \in Runs /\ e[2] \in Nat
    BY DEF LiveWrites
  <2>2. /\ runs[e[1]].token \in Nat /\ runs'[e[1]].token \in Nat
        /\ RowGrows(runs[e[1]], runs'[e[1]])
    BY <1>1, <2>1 DEF Rows
  <2>3. e[2] =< runs[e[1]].token /\ runs[e[1]].state \notin Unowned
    BY DEF LocalInv, LiveOk
  <2> QED
    BY <2>1, <2>2, <2>3 DEF RowGrows
<1>7. LiveOk'
  BY <1>4, <1>5, <1>6 DEF LiveOk, LiveWrites
<1> QED
  BY <1>1, <1>2, <1>3, <1>7 DEF LocalInv, CtlWrites, PassWrites

\* The records of a process that does nothing.
LEMMA RestOk ==
    /\ Idle \in Controls /\ Idle.pc = "idle" /\ Idle.token = 0 /\ Idle.gen = 0 /\ Idle.out = "none"
    /\ \A row, n : n \in Nat => CtlOk(Idle, row, n)
    /\ AtRest \in Passes /\ AtRest.pc = "idle" /\ AtRest.run = None
    /\ \A row, n : n \in Nat => PassOk(AtRest, row, n)
    /\ NoView \in Views /\ NoView.run = None /\ NoView.status = "none" /\ NoView.token = 0
    /\ None \notin Runs
    /\ \A s, row : ViewOk(NoView, s, row)
<1>1. /\ Idle \in Controls /\ Idle.pc = "idle" /\ Idle.token = 0 /\ Idle.gen = 0 /\ Idle.out = "none"
  BY LifeAssumption DEF Idle, Controls, Holding, TerminalStates
<1>2. AtRest \in Passes /\ AtRest.pc = "idle" /\ AtRest.run = None
  BY LifeAssumption DEF AtRest, Passes
<1>3. NoView \in Views /\ NoView.run = None /\ NoView.status = "none" /\ NoView.token = 0
  BY DEF NoView, Views
<1>4. None \notin Runs
  BY NoneAssumption
<1>5. \A row, n : n \in Nat => CtlOk(Idle, row, n)
  BY <1>1 DEF CtlOk, Beyond, Holding
<1>6. \A row, n : n \in Nat => PassOk(AtRest, row, n)
  BY <1>2 DEF PassOk
<1>7. \A s, row : ViewOk(NoView, s, row)
  BY <1>3, <1>4 DEF ViewOk, TerminalStates
<1> QED
  BY <1>1, <1>2, <1>3, <1>4, <1>5, <1>6, <1>7

LEMMA InitLocalInv == Init => LocalInv
<1> SUFFICES ASSUME Init PROVE LocalInv
  OBVIOUS
<1>1. LedgerInv /\ seq \in Nat
  BY InitLedgerInv DEF Init, LedgerInit
<1>2. \A r \in Runs : runs[r] = NoRow
  BY DEF Init, LedgerInit
<1>3. \A r \in Runs : RowOk(runs[r])
  BY <1>2 DEF RowOk, NoRow, TerminalStates
<1>4. LiveOk
  BY <1>2, RestOk, LifeAssumption DEF Init, LiveOk, NoRow
<1>5. /\ stat \in [Owners -> {"up", "closing", "down"}]
      /\ ctl \in [Owners -> [Runs -> Controls]]
      /\ rp \in [Owners -> Passes]
  BY RestOk DEF Init
<1>6. /\ \A p \in Owners, r \in Runs : CtlOk(ctl[p][r], runs[r], seq)
      /\ \A p \in Owners : PassOk(rp[p], runs[rp[p].run], seq)
  BY <1>1, RestOk DEF Init
<1> QED
  BY <1>1, <1>3, <1>4, <1>5, <1>6 DEF LocalInv

-----------------------------------------------------------------------------
(* The ways in which a step writes.                                        *)

LEMMA Unwritten ==
    ASSUME LocalInv
    PROVE  /\ UNCHANGED ctl => CtlWrites
           /\ UNCHANGED rp => PassWrites
           /\ UNCHANGED live => LiveWrites
           /\ UNCHANGED stat => stat' \in [Owners -> {"up", "closing", "down"}]
BY DEF LocalInv, LiveOk, CtlWrites, PassWrites, LiveWrites, live

\* Another record for one control.
LEMMA CtlWrite ==
    ASSUME LocalInv, NEW p \in Owners, NEW r \in Runs, NEW c,
           ctl' = [ctl EXCEPT ![p][r] = c], CtlOk(c, runs'[r], seq')
    PROVE  CtlWrites
<1>1. c \in Controls
  BY DEF CtlOk
<1>2. ctl \in [Owners -> [Runs -> Controls]]
  BY DEF LocalInv
<1> QED
  BY <1>1, <1>2 DEF CtlWrites

\* What is known of the control and the row a process works on.
LEMMA CtlFacts ==
    ASSUME LocalInv, NEW p \in Owners, NEW r \in Runs
    PROVE  /\ ctl[p][r] \in Controls /\ CtlOk(ctl[p][r], runs[r], seq)
           /\ Tok(p, r) = ctl[p][r].token /\ Tok(p, r) \in Nat /\ Tok(p, r) \in Tokens
           /\ runs \in [Runs -> Rows] /\ runs[r] \in Rows /\ runs[r].token \in Nat /\ seq \in Nat
           /\ runs[r].token =< seq /\ runs[r].token \in Tokens
           /\ runs[r].state # "none" => runs[r].session \in Sessions
           /\ RowOk(runs[r])
<1>1. ctl[p][r] \in Controls /\ CtlOk(ctl[p][r], runs[r], seq) /\ RowOk(runs[r])
  BY DEF LocalInv
<1>2. /\ runs \in [Runs -> Rows] /\ runs[r] \in Rows /\ seq \in Nat /\ runs[r].token =< seq
      /\ runs[r].state # "none" => runs[r].session \in Sessions
  BY DEF LocalInv, LedgerInv, TypeOK, TokensDrawn, RowsNumbered
<1>3. ctl[p][r].token \in Nat /\ ctl[p][r].token =< seq /\ runs[r].token \in Nat
  BY <1>1, <1>2 DEF Controls, CtlOk, Rows
<1> QED
  BY <1>1, <1>2, <1>3 DEF Tok, Tokens

Plain == {"fenced", "abandoning", "shut", "reserved", "running", "parking", "parked", "resuming"}

\* The control of a claimed run moves on under its token.
LEMMA CtlMoves ==
    ASSUME LocalInv, Move, NEW p \in Owners, NEW r \in Runs, ctl[p][r].pc \in Beyond,
           NEW c \in Controls, ctl' = [ctl EXCEPT ![p][r] = c], c.token = ctl[p][r].token,
           \/ c.pc = ctl[p][r].pc /\ c.out = ctl[p][r].out
           \/ c.pc \in Plain
           \/ c.pc = "canceled" /\ c.out = "aborted"
           \/ c.pc = "ending" /\ c.out \in OwnerStates
    PROVE  CtlWrites
<1>1. CtlOk(ctl[p][r], runs'[r], seq')
  <2>1. CtlOk(ctl[p][r], runs[r], seq)
    BY CtlFacts
  <2>2. /\ seq \in Nat /\ seq' \in Nat /\ seq =< seq' /\ runs[r] \in Rows /\ runs'[r] \in Rows
        /\ RowGrows(runs[r], runs'[r])
    BY MoveGrows DEF LocalInv
  <2> QED
    BY <2>1, <2>2, CtlStays
<1>2. CtlOk(c, runs'[r], seq')
  BY <1>1 DEF CtlOk, Beyond, Holding, Plain
<1> QED
  BY <1>2, CtlWrite

\* The same when only the phase is written.
LEMMA GotoMoves ==
    ASSUME LocalInv, Move, NEW p \in Owners, NEW r \in Runs, ctl[p][r].pc \in Beyond,
           NEW x \in Plain, Goto(p, r, x)
    PROVE  CtlWrites
<1> DEFINE c == [ctl[p][r] EXCEPT !.pc = x]
<1>1. ctl[p][r] \in Controls
  BY CtlFacts
<1>2. c \in Controls /\ c.pc = x /\ c.token = ctl[p][r].token
  BY <1>1 DEF Controls, Plain, Holding
<1>3. ctl' = [ctl EXCEPT ![p][r] = c]
  BY DEF Goto
<1> HIDE DEF c
<1> QED
  BY <1>2, <1>3, CtlMoves

LEMMA ForgetMoves ==
    ASSUME LocalInv, Move, NEW p \in Owners, NEW r \in Runs, Forget(p, r)
    PROVE  CtlWrites
<1>1. seq' \in Nat
  BY MoveGrows DEF LocalInv
<1> QED
  BY <1>1, RestOk, CtlWrite DEF Forget

LEMMA ShowMoves ==
    ASSUME LocalInv, UNCHANGED lvars, NEW r \in Runs, runs[r].state # "none",
           NEW st \in LiveStatuses \cup TerminalStates, Show(r, st), ViewOf(r).run = r,
           st \in TerminalStates => runs[r].state = st
    PROVE  /\ view' \in [Sessions -> Views]
           /\ \A s \in Sessions : view'[s] # view[s] => ViewOk(view'[s], s, runs'[view'[s].run])
<1> DEFINE s == runs[r].session
           v == [view[s] EXCEPT !.status = st]
<1>1. s \in Sessions /\ runs' = runs
  BY DEF LocalInv, LedgerInv, RowsNumbered, lvars
<1>2. /\ view \in [Sessions -> Views] /\ view[s] \in Views /\ view[s].run = r
      /\ ViewOk(view[s], s, runs[r])
  BY <1>1 DEF LocalInv, LiveOk, ViewOf
<1>3. v \in Views /\ v.status = st /\ v.run = r /\ v.token = view[s].token
  BY <1>2 DEF Views
<1>4. ViewOk(v, s, runs[r])
  BY <1>2, <1>3 DEF ViewOk
<1>5. view' = [view EXCEPT ![s] = v]
  BY DEF Show
<1> HIDE DEF v, s
<1> QED
  BY <1>1, <1>2, <1>3, <1>4, <1>5

\* A new view record of a session.
LEMMA ViewWrite ==
    ASSUME LocalInv, NEW r \in Runs, runs[r].state # "none", NEW v, v.run = r,
           view' = [view EXCEPT ![runs[r].session] = v], ViewOk(v, runs[r].session, runs'[r])
    PROVE  /\ view' \in [Sessions -> Views]
           /\ \A s \in Sessions : view'[s] # view[s] => ViewOk(view'[s], s, runs'[view'[s].run])
<1>1. runs[r].session \in Sessions /\ view \in [Sessions -> Views] /\ v \in Views
  BY DEF LocalInv, LiveOk, LedgerInv, RowsNumbered, ViewOk
<1> QED
  BY <1>1

LEMMA StartMoves ==
    ASSUME LocalInv, UNCHANGED lvars, NEW r \in Runs, runs[r].state \notin Unowned,
           NEW t \in Nat, t =< runs[r].token, NEW st \in LiveStatuses, StartLive(r, t, st)
    PROVE  LiveWrites
<1> DEFINE v == [run |-> r, token |-> t, status |-> st]
<1>1. runs' = runs
  BY DEF lvars
<1>2. ViewOk(v, runs[r].session, runs'[r])
  <2>1. v \in Views /\ v.run = r /\ v.token = t /\ v.status = st
    BY DEF Views
  <2>2. st \notin TerminalStates
    BY DEF LiveStatuses, TerminalStates
  <2> HIDE DEF v
  <2> QED
    BY <1>1, <2>1, <2>2 DEF ViewOk
<1>3. /\ view' \in [Sessions -> Views]
      /\ \A s \in Sessions : view'[s] # view[s] => ViewOk(view'[s], s, runs'[view'[s].run])
  <2>1. runs[r].state # "none" /\ v.run = r /\ view' = [view EXCEPT ![runs[r].session] = v]
    BY DEF StartLive, Unowned
  <2> HIDE DEF v
  <2> QED
    BY <1>2, <2>1, ViewWrite
<1>4. ref' \in [Runs -> Nat] /\ \A q \in Runs : ref'[q] # ref[q] => ref'[q] =< runs'[q].token
  BY <1>1 DEF StartLive, LocalInv, LiveOk
<1>5. /\ index' \in SUBSET (Runs \X Nat)
      /\ \A e \in index' : e \notin index =>
            e[2] =< runs'[e[1]].token /\ runs'[e[1]].state \notin Unowned
  BY <1>1 DEF StartLive, LocalInv, LiveOk
<1> QED
  BY <1>3, <1>4, <1>5 DEF LiveWrites, StartLive, LocalInv, LiveOk

LEMMA ReconcileMoves ==
    ASSUME LocalInv, UNCHANGED lvars, NEW r \in Runs, Terminal(r), ReconcileLive(r)
    PROVE  LiveWrites
<1>1. CASE ~ CanReconcile(r)
  BY <1>1, Unwritten DEF ReconcileLive
<1>2. CASE CanReconcile(r)
  <2> DEFINE v == [run |-> r, token |-> runs[r].token, status |-> runs[r].state]
  <2>1. /\ runs' = runs /\ runs[r].token \in Nat /\ runs[r].state # "none"
        /\ runs[r].state \in TerminalStates /\ runs[r].state \notin Unowned
    BY DEF lvars, Terminal, LocalInv, LedgerInv, TypeOK, Rows, TerminalStates, Unowned
  <2>2. v \in Views /\ v.run = r /\ v.token = runs[r].token /\ v.status = runs[r].state
    BY <2>1 DEF Views
  <2>3. view' = [view EXCEPT ![runs[r].session] = v]
    BY <1>2 DEF ReconcileLive
  <2> HIDE DEF v
  <2>4. ViewOk(v, runs[r].session, runs'[r])
    BY <2>1, <2>2 DEF ViewOk
  <2>5. /\ view' \in [Sessions -> Views]
        /\ \A s \in Sessions : view'[s] # view[s] => ViewOk(view'[s], s, runs'[view'[s].run])
    BY <2>1, <2>2, <2>3, <2>4, ViewWrite
  <2>6. /\ ref' = [ref EXCEPT ![r] = 0] /\ index' \subseteq index /\ livegen' = livegen
    BY <1>2 DEF ReconcileLive
  <2>7. ref' \in [Runs -> Nat] /\ \A q \in Runs : ref'[q] # ref[q] => ref'[q] =< runs'[q].token
    BY <2>1, <2>6 DEF LocalInv, LiveOk
  <2> QED
    BY <2>5, <2>6, <2>7 DEF LiveWrites, LocalInv, LiveOk
<1> QED
  BY <1>1, <1>2

\* Another record for one pass.
LEMMA PassWrite ==
    ASSUME LocalInv, NEW p \in Owners, NEW x, rp' = [rp EXCEPT ![p] = x],
           PassOk(x, runs'[x.run], seq')
    PROVE  PassWrites
<1>1. x \in Passes /\ rp \in [Owners -> Passes]
  BY DEF PassOk, LocalInv
<1> QED
  BY <1>1 DEF PassWrites

LEMMA RestMoves ==
    ASSUME LocalInv, Move, NEW p \in Owners, Rest(p)
    PROVE  PassWrites
<1>1. seq' \in Nat
  BY MoveGrows DEF LocalInv
<1> QED
  BY <1>1, RestOk, PassWrite DEF Rest

-----------------------------------------------------------------------------
(* LocalInv, action by action.                                             *)

LEMMA SubmitLocal ==
    ASSUME LocalInv, NEW p \in Owners, NEW r \in Runs, NEW s \in Sessions, NEW i \in Invs,
           Submit(p, r, s, i)
    PROVE  Move /\ LocalInv'
<1> DEFINE c == [ctl[p][r] EXCEPT !.pc = "admitted"]
<1>1. Move
  BY DEF Submit, Move
<1>2. /\ ctl[p][r] \in Controls /\ CtlOk(ctl[p][r], runs[r], seq)
      /\ runs[r].state = "none" /\ runs'[r].state = "accepted" /\ seq' = seq
  BY CtlFacts DEF Submit, Admit
<1>3. c \in Controls /\ c.pc = "admitted" /\ c.token = ctl[p][r].token
  BY <1>2 DEF Controls
<1>4. ctl' = [ctl EXCEPT ![p][r] = c]
  BY DEF Submit, Goto
<1> HIDE DEF c
<1>5. CtlOk(c, runs'[r], seq')
  BY <1>2, <1>3 DEF CtlOk, Beyond, Holding
<1>6. CtlWrites
  BY <1>4, <1>5, CtlWrite
<1> QED
  BY <1>1, <1>6, Unwritten, LocalStep DEF Submit

LEMMA ResubmitLocal ==
    ASSUME LocalInv, NEW p \in Owners, NEW r \in Runs, Resubmit(p, r)
    PROVE  Move /\ LocalInv'
<1> DEFINE c == [ctl[p][r] EXCEPT !.pc = "admitted"]
<1>1. Move
  BY DEF Resubmit, Move
<1>2. /\ ctl[p][r] \in Controls /\ CtlOk(ctl[p][r], runs[r], seq)
      /\ runs[r].state = "accepted" /\ runs' = runs /\ seq' = seq
  BY CtlFacts DEF Resubmit, lvars
<1>3. c \in Controls /\ c.pc = "admitted" /\ c.token = ctl[p][r].token
  BY <1>2 DEF Controls
<1>4. ctl' = [ctl EXCEPT ![p][r] = c]
  BY DEF Resubmit, Goto
<1> HIDE DEF c
<1>5. CtlOk(c, runs'[r], seq')
  BY <1>2, <1>3 DEF CtlOk, Beyond, Holding
<1>6. CtlWrites
  BY <1>4, <1>5, CtlWrite
<1> QED
  BY <1>1, <1>6, Unwritten, LocalStep DEF Resubmit

LEMMA DrawLocal ==
    ASSUME LocalInv, NEW p \in Owners, NEW r \in Runs, Draw(p, r)
    PROVE  Move /\ LocalInv'
<1> DEFINE c == [ctl[p][r] EXCEPT !.pc = "drawn", !.token = seq + 1, !.gen = livegen]
<1>1. Move
  BY DEF Draw, Move
<1>2. /\ ctl[p][r] \in Controls /\ CtlOk(ctl[p][r], runs[r], seq) /\ ctl[p][r].pc = "admitted"
      /\ runs' = runs /\ seq' = seq + 1 /\ seq \in Nat /\ livegen \in 1..MaxGen
  BY CtlFacts DEF Draw, At, NextFencingToken, LocalInv, LiveOk
<1>3. c \in Controls /\ c.pc = "drawn" /\ c.token = seq + 1 /\ c.gen = livegen
  <2>1. seq + 1 \in Nat /\ livegen \in 0..MaxGen
    BY <1>2, LifeAssumption
  <2> QED
    BY <1>2, <2>1 DEF Controls
<1>4. ctl' = [ctl EXCEPT ![p][r] = c]
  BY DEF Draw
<1> HIDE DEF c
<1>5. CtlOk(c, runs'[r], seq')
  BY <1>2, <1>3, LifeAssumption DEF CtlOk, Beyond, Holding
<1>6. CtlWrites
  BY <1>4, <1>5, CtlWrite
<1> QED
  BY <1>1, <1>6, Unwritten, LocalStep DEF Draw

LEMMA ClaimRunLocal ==
    ASSUME LocalInv, NEW p \in Owners, NEW r \in Runs, ClaimRun(p, r)
    PROVE  Move /\ LocalInv'
<1> DEFINE c == [ctl[p][r] EXCEPT !.pc = "claimed"]
<1>1. /\ ctl[p][r] \in Controls /\ CtlOk(ctl[p][r], runs[r], seq) /\ ctl[p][r].pc = "drawn"
      /\ Tok(p, r) = ctl[p][r].token /\ Tok(p, r) \in 1..seq /\ ctl[p][r].gen \in 1..MaxGen
      /\ runs[r] \in Rows
  BY CtlFacts, LifeAssumption DEF ClaimRun, At, CtlOk, Tokens, Controls
<1>2. CASE CanClaim(r, Tok(p, r))
  <2>1. Claim(r, p, Tok(p, r), ctl[p][r].gen)
    BY <1>2 DEF ClaimRun
  <2>2. Move
    BY <1>1, <2>1 DEF Move
  <2>3. /\ runs'[r].state = "running" /\ runs'[r].token = Tok(p, r) /\ seq' = seq
    BY <1>1, <2>1, CtlFacts DEF Claim, Rows
  <2>4. c \in Controls /\ c.pc = "claimed" /\ c.token = ctl[p][r].token
    BY <1>1 DEF Controls
  <2>5. ctl' = [ctl EXCEPT ![p][r] = c]
    BY <1>2 DEF ClaimRun, Goto
  <2> HIDE DEF c
  <2>6. CtlOk(c, runs'[r], seq')
    BY <1>1, <2>3, <2>4 DEF CtlOk, Beyond, Holding
  <2>7. CtlWrites
    BY <2>5, <2>6, CtlWrite
  <2> QED
    BY <2>2, <2>7, Unwritten, LocalStep DEF ClaimRun
<1>3. CASE ~ CanClaim(r, Tok(p, r))
  <2>1. Move /\ Forget(p, r)
    BY <1>3 DEF ClaimRun, Move
  <2> QED
    BY <2>1, ForgetMoves, Unwritten, LocalStep DEF ClaimRun
<1> QED
  BY <1>2, <1>3

\* Steps of a claimed run that leave the live half alone and move on.
LEMMA PlainLocal ==
    ASSUME LocalInv, Move, NEW p \in Owners, NEW r \in Runs, ctl[p][r].pc \in Beyond,
           (\E x \in Plain : Goto(p, r, x)) \/ Forget(p, r), UNCHANGED <<live, stat, rp>>
    PROVE  LocalInv'
<1>1. CtlWrites
  BY GotoMoves, ForgetMoves
<1> QED
  BY <1>1, Unwritten, LocalStep

LEMMA ActivateFenceLocal ==
    ASSUME LocalInv, NEW p \in Owners, NEW r \in Runs, ActivateFence(p, r)
    PROVE  Move /\ LocalInv'
<1>1. /\ ctl[p][r].pc = "claimed" /\ ctl[p][r].pc \in Beyond
      /\ Tok(p, r) \in 1..seq /\ runs[r].session \in Sessions
  BY CtlFacts DEF ActivateFence, At, CtlOk, Beyond, Tokens
<1>2. Move
  BY <1>1 DEF ActivateFence, Move
<1>3. \E x \in Plain : Goto(p, r, x)
  BY DEF ActivateFence, Plain
<1> QED
  BY <1>1, <1>2, <1>3, PlainLocal DEF ActivateFence

LEMMA ActivateFailsLocal ==
    ASSUME LocalInv, NEW p \in Owners, NEW r \in Runs, ActivateFails(p, r)
    PROVE  Move /\ LocalInv'
<1>1. ctl[p][r].pc \in Beyond /\ Move /\ \E x \in Plain : Goto(p, r, x)
  BY DEF ActivateFails, At, Beyond, Move, Plain
<1> QED
  BY <1>1, PlainLocal DEF ActivateFails

LEMMA ReserveLocal ==
    ASSUME LocalInv, NEW p \in Owners, NEW r \in Runs, Reserve(p, r) \/ ReserveFails(p, r)
    PROVE  Move /\ LocalInv'
<1>1. ctl[p][r].pc = "fenced" /\ ctl[p][r].pc \in Beyond /\ Move
      /\ \E x \in Plain : Goto(p, r, x)
  BY DEF Reserve, ReserveFails, At, Beyond, Move, Plain
<1>2. Tok(p, r) \in Nat /\ Tok(p, r) =< runs[r].token /\ runs[r].state \notin Unowned
  BY <1>1, CtlFacts DEF CtlOk, Unowned
<1>3. LiveWrites
  <2>1. UNCHANGED lvars /\ (UNCHANGED live \/ StartLive(r, Tok(p, r), "admitting"))
    BY DEF Reserve, ReserveFails
  <2>2. "admitting" \in LiveStatuses
    BY DEF LiveStatuses
  <2> QED
    BY <1>2, <2>1, <2>2, StartMoves, Unwritten
<1>4. CtlWrites
  BY <1>1, GotoMoves
<1> QED
  BY <1>1, <1>3, <1>4, Unwritten, LocalStep DEF Reserve, ReserveFails

\* A control that goes on to its end with an outcome of its own.
EndsWith(p, r, o) == ctl' = [ctl EXCEPT ![p][r].pc = "ending", ![p][r].out = o]

LEMMA EndingMoves ==
    ASSUME LocalInv, Move, NEW p \in Owners, NEW r \in Runs, ctl[p][r].pc \in Beyond,
           NEW o \in OwnerStates, EndsWith(p, r, o)
    PROVE  CtlWrites
<1> DEFINE c == [ctl[p][r] EXCEPT !.pc = "ending", !.out = o]
<1>1. ctl[p][r] \in Controls
  BY CtlFacts
<1>2. c \in Controls /\ c.pc = "ending" /\ c.out = o /\ c.token = ctl[p][r].token
  BY <1>1 DEF Controls, Holding, OwnerStates
<1>3. ctl' = [ctl EXCEPT ![p][r] = c]
  BY <1>1, CtlFacts DEF EndsWith, LocalInv
<1> HIDE DEF c
<1> QED
  BY <1>2, <1>3, CtlMoves

\* Steps of a holder that show a live status or leave the view alone.
LEMMA ShowsLocal ==
    ASSUME LocalInv, UNCHANGED <<lvars, livegen, ref, index, stat, rp>>, CtlWrites,
           NEW r \in Runs, runs[r].state # "none",
           UNCHANGED view \/ (ViewOf(r).run = r /\ \E st \in LiveStatuses : Show(r, st))
    PROVE  Move /\ LocalInv'
<1>1. Move
  BY DEF Move
<1>2. \A st \in LiveStatuses : st \notin TerminalStates
  BY DEF LiveStatuses, TerminalStates
<1>3. LiveWrites
  <2>1. CASE UNCHANGED view
    BY <2>1, Unwritten DEF live
  <2>2. CASE ViewOf(r).run = r /\ \E st \in LiveStatuses : Show(r, st)
    <3>1. /\ view' \in [Sessions -> Views]
          /\ \A s \in Sessions : view'[s] # view[s] => ViewOk(view'[s], s, runs'[view'[s].run])
      BY <1>2, <2>2, ShowMoves
    <3> QED
      BY <3>1 DEF LiveWrites, LocalInv, LiveOk
  <2> QED
    BY <2>1, <2>2
<1> QED
  BY <1>1, <1>3, Unwritten, LocalStep

LEMMA BeginLocal ==
    ASSUME LocalInv, NEW p \in Owners, NEW r \in Runs, Begin(p, r)
    PROVE  Move /\ LocalInv'
<1>1. ctl[p][r].pc = "reserved" /\ ctl[p][r].pc \in Beyond /\ Move
  BY DEF Begin, At, Beyond, Holding, Move
<1>2. runs[r].state # "none"
  BY <1>1, CtlFacts DEF CtlOk
<1>3. CtlWrites
  <2>1. \/ \E x \in Plain : Goto(p, r, x)
        \/ EndsWith(p, r, "failed")
    BY DEF Begin, Plain, EndsWith
  <2>2. "failed" \in OwnerStates
    BY DEF OwnerStates, TerminalStates
  <2> QED
    BY <1>1, <2>1, <2>2, GotoMoves, EndingMoves
<1>4. UNCHANGED view \/ (ViewOf(r).run = r /\ \E st \in LiveStatuses : Show(r, st))
  BY DEF Begin, Held, Shows, LiveStatuses
<1> QED
  BY <1>2, <1>3, <1>4, ShowsLocal DEF Begin

LEMMA AbandonClaimLocal ==
    ASSUME LocalInv, NEW p \in Owners, NEW r \in Runs, AbandonClaim(p, r)
    PROVE  Move /\ LocalInv'
<1>1. Tok(p, r) \in Tokens /\ ctl[p][r].pc \in Beyond
  BY CtlFacts DEF AbandonClaim, At, Beyond
<1>2. Move
  BY <1>1 DEF AbandonClaim, Move, TokenMove, Expectations, TerminalStates
<1> QED
  BY <1>1, <1>2, PlainLocal DEF AbandonClaim

LEMMA CommitStepLocal ==
    ASSUME LocalInv, NEW p \in Owners, NEW r \in Runs, CommitStep(p, r)
    PROVE  Move /\ LocalInv'
<1>1. Tok(p, r) \in Tokens /\ ctl[p][r].stop \in BOOLEAN
  BY CtlFacts DEF Controls
<1>2. Move
  BY <1>1 DEF CommitStep, Move, TokenMove
<1> QED
  BY <1>2, Unwritten, LocalStep DEF CommitStep

LEMMA ParkLocal ==
    ASSUME LocalInv, NEW p \in Owners, NEW r \in Runs, Park(p, r)
    PROVE  Move /\ LocalInv'
<1>1. /\ Tok(p, r) \in Tokens /\ ctl[p][r].pc \in Beyond /\ \E x \in Plain : Goto(p, r, x)
  BY CtlFacts DEF Park, At, Beyond, Holding, Plain
<1>2. Move
  BY <1>1 DEF Park, Move, TokenMove
<1> QED
  BY <1>1, <1>2, PlainLocal DEF Park

LEMMA ShowWaitingLocal ==
    ASSUME LocalInv, NEW p \in Owners, NEW r \in Runs, ShowWaiting(p, r) \/ ShowResumed(p, r)
    PROVE  Move /\ LocalInv'
<1>1. Move /\ ctl[p][r].pc \in Beyond /\ Goto(p, r, "running") /\ "running" \in Plain
  BY DEF ShowWaiting, ShowResumed, At, Beyond, Holding, Plain, Move
<1>2. runs[r].state # "none" /\ CtlWrites
  BY <1>1, CtlFacts, GotoMoves DEF CtlOk, Beyond, Holding
<1>3. UNCHANGED view \/ (ViewOf(r).run = r /\ \E st \in LiveStatuses : Show(r, st))
  BY DEF ShowWaiting, ShowResumed, Held, Shows, LiveStatuses
<1> QED
  BY <1>2, <1>3, ShowsLocal DEF ShowWaiting, ShowResumed

LEMMA AnswerLocal ==
    ASSUME LocalInv, NEW p \in Owners, NEW r \in Runs, Answer(p, r)
    PROVE  Move /\ LocalInv'
<1>1. Tok(p, r) \in Tokens /\ ctl[p][r].pc \in Beyond
  BY CtlFacts DEF Answer, At, Beyond, Holding
<1>2. Move
  BY <1>1 DEF Answer, Move, TokenMove
<1>3. CtlWrites
  <2>1. \/ Goto(p, r, "resuming") /\ "resuming" \in Plain
        \/ EndsWith(p, r, "failed") /\ "failed" \in OwnerStates
    BY DEF Answer, Plain, EndsWith, OwnerStates, TerminalStates
  <2> QED
    BY <1>1, <1>2, <2>1, GotoMoves, EndingMoves
<1> QED
  BY <1>2, <1>3, Unwritten, LocalStep DEF Answer

LEMMA AbortIntentLocal ==
    ASSUME LocalInv, NEW r \in Runs, AbortIntent(r)
    PROVE  Move /\ LocalInv'
<1>1. Move
  BY DEF AbortIntent, Move
<1> QED
  BY <1>1, Unwritten, LocalStep DEF AbortIntent

LEMMA AbortReadLocal ==
    ASSUME LocalInv, NEW p \in Owners, NEW r \in Runs, AbortRead(p, r)
    PROVE  Move /\ LocalInv'
<1> DEFINE x == IF Shows(r, Tok(p, r)) /\ ViewOf(r).status = "waiting" THEN "waiting" ELSE "other"
           c == [ctl[p][r] EXCEPT !.seen = x]
<1>1. Move /\ ctl[p][r].pc \in Beyond /\ ctl[p][r] \in Controls
  BY CtlFacts DEF AbortRead, At, Beyond, Holding, Move
<1>2. x \in {"waiting", "other"}
  OBVIOUS
<1>3. ctl' = [ctl EXCEPT ![p][r] = c]
  BY DEF AbortRead
<1> HIDE DEF x
<1>4. c \in Controls /\ c.pc = ctl[p][r].pc /\ c.token = ctl[p][r].token /\ c.out = ctl[p][r].out
  BY <1>1, <1>2 DEF Controls
<1> HIDE DEF c
<1>5. CtlWrites
  BY <1>1, <1>3, <1>4, CtlMoves
<1> QED
  BY <1>1, <1>5, Unwritten, LocalStep DEF AbortRead

\* The control after a stop was requested of it.
StoppedCtl(c, stopped) ==
    IF ~stopped THEN [c EXCEPT !.seen = "none"]
    ELSE IF c.pc = "reserved"
         THEN [c EXCEPT !.seen = "none", !.pc = "canceled", !.out = "aborted"]
    ELSE IF c.seen = "waiting"
         THEN [c EXCEPT !.seen = "none", !.stop = TRUE, !.pc = "ending", !.out = "aborted"]
         ELSE [c EXCEPT !.seen = "none", !.stop = TRUE]

LEMMA AbortLiveLocal ==
    ASSUME LocalInv, NEW p \in Owners, NEW r \in Runs, AbortLive(p, r)
    PROVE  Move /\ LocalInv'
<1> DEFINE stopped == ~ctl[p][r].lost /\ Held(r, Tok(p, r))
                         /\ ViewOf(r).status \in Abortable \ {"aborting"}
           c == StoppedCtl(ctl[p][r], stopped)
<1>1. /\ Move /\ ctl[p][r].pc \in Beyond /\ ctl[p][r] \in Controls /\ runs[r].state # "none"
      /\ ctl \in [Owners -> [Runs -> Controls]]
  BY CtlFacts DEF AbortLive, At, Beyond, Holding, Move, CtlOk, LocalInv
<1>2. ctl' = [ctl EXCEPT ![p][r] = c]
  BY <1>1 DEF AbortLive, StoppedCtl
<1>3. UNCHANGED view \/ (ViewOf(r).run = r /\ \E st \in LiveStatuses : Show(r, st))
  BY DEF AbortLive, Held, Shows, LiveStatuses
<1>4. /\ c \in Controls /\ c.token = ctl[p][r].token
      /\ \/ c.pc = ctl[p][r].pc /\ c.out = ctl[p][r].out
         \/ c.pc = "canceled" /\ c.out = "aborted"
         \/ c.pc = "ending" /\ c.out \in OwnerStates
  <2> HIDE DEF stopped
  <2> USE <1>1 DEF StoppedCtl, Controls, OwnerStates, TerminalStates
  <2>1. CASE ~stopped
    BY <2>1
  <2>2. CASE stopped /\ ctl[p][r].pc = "reserved"
    BY <2>2 DEF Holding
  <2>3. CASE stopped /\ ctl[p][r].pc # "reserved" /\ ctl[p][r].seen = "waiting"
    BY <2>3 DEF Holding
  <2>4. CASE stopped /\ ctl[p][r].pc # "reserved" /\ ctl[p][r].seen # "waiting"
    BY <2>4
  <2> QED
    BY <2>1, <2>2, <2>3, <2>4
<1> HIDE DEF c
<1>5. CtlWrites
  BY <1>1, <1>2, <1>4, CtlMoves
<1> QED
  BY <1>1, <1>3, <1>5, ShowsLocal DEF AbortLive

LEMMA UnwindLocal ==
    ASSUME LocalInv, NEW p \in Owners, NEW r \in Runs, Unwind(p, r)
    PROVE  Move /\ LocalInv'
<1> DEFINE c == [ctl[p][r] EXCEPT !.pc = "ending"]
<1>1. /\ Tok(p, r) \in Tokens /\ ctl[p][r].pc \in Beyond /\ ctl[p][r] \in Controls
      /\ ctl[p][r].out = "aborted"
  BY CtlFacts DEF Unwind, At, Beyond, Holding, CtlOk
<1>2. Move
  BY <1>1 DEF Unwind, Move, TokenMove, Expectations, TerminalStates
<1>3. /\ c \in Controls /\ c.pc = "ending" /\ c.token = ctl[p][r].token /\ c.out \in OwnerStates
  BY <1>1 DEF Controls, Holding, OwnerStates, TerminalStates
<1>4. ctl' = [ctl EXCEPT ![p][r] = c]
  BY DEF Unwind, Goto
<1> HIDE DEF c
<1>5. CtlWrites
  BY <1>1, <1>2, <1>3, <1>4, CtlMoves
<1> QED
  BY <1>2, <1>5, Unwritten, LocalStep DEF Unwind

LEMMA EndExecutionLocal ==
    ASSUME LocalInv, NEW p \in Owners, NEW r \in Runs, EndExecution(p, r)
    PROVE  Move /\ LocalInv'
<1>1. Move /\ ctl[p][r].pc \in Beyond
  BY DEF EndExecution, At, Beyond, Holding, Move
<1>2. \A o \in Outcomes(p, r) : o \in OwnerStates
  BY DEF Outcomes, OwnerStates, TerminalStates
<1>3. \/ \E o \in OwnerStates : EndsWith(p, r, o)
      \/ Goto(p, r, "parked") /\ "parked" \in Plain
      \/ Forget(p, r)
  BY <1>2 DEF EndExecution, EndsWith, Plain
<1>4. CtlWrites
  BY <1>1, <1>3, GotoMoves, ForgetMoves, EndingMoves
<1> QED
  BY <1>1, <1>4, Unwritten, LocalStep DEF EndExecution

\* The control that has a durable proposal, or whose run has ended.
LEMMA PreparedMoves ==
    ASSUME LocalInv, Move, NEW p \in Owners, NEW r \in Runs, ctl[p][r].pc \in Beyond,
           NEW x \in {"prepared", "finalized"}, NEW o \in TerminalStates,
           ctl' = [ctl EXCEPT ![p][r].pc = x, ![p][r].out = o],
           runs'[r].state \in Ended, runs'[r].token = Tok(p, r),
           x = "finalized" => runs'[r].state \in TerminalStates /\ o = runs'[r].state
    PROVE  CtlWrites
<1> DEFINE c == [ctl[p][r] EXCEPT !.pc = x, !.out = o]
<1>1. ctl[p][r] \in Controls /\ Tok(p, r) = ctl[p][r].token /\ CtlOk(ctl[p][r], runs[r], seq)
  BY CtlFacts
<1>2. c \in Controls /\ c.pc = x /\ c.out = o /\ c.token = ctl[p][r].token
  BY <1>1 DEF Controls, Holding
<1>3. ctl' = [ctl EXCEPT ![p][r] = c]
  BY <1>1 DEF LocalInv
<1>4. /\ seq \in Nat /\ seq' \in Nat /\ seq =< seq' /\ c.token \in Nat /\ c.token =< seq /\ 1 =< c.token
  BY <1>1, <1>2, MoveGrows DEF LocalInv, CtlOk, Controls
<1>5. runs'[r].state # "none" /\ runs'[r].state # "accepted" /\ runs'[r].token = c.token
  BY <1>1, <1>2 DEF Ended, TerminalStates
<1> HIDE DEF c
<1>6. c.token =< seq' /\ c.token =< runs'[r].token
  BY <1>4, <1>5
<1>7. CtlOk(c, runs'[r], seq')
  BY <1>2, <1>4, <1>5, <1>6 DEF CtlOk, Beyond, Holding
<1> QED
  BY <1>3, <1>7, CtlWrite

LEMMA PrepareLocal ==
    ASSUME LocalInv, NEW p \in Owners, NEW r \in Runs, Prepare(p, r)
    PROVE  Move /\ LocalInv'
<1>1. /\ Tok(p, r) \in Tokens /\ ctl[p][r].pc \in Beyond /\ ctl[p][r].out \in OwnerStates
      /\ runs[r] \in Rows /\ runs \in [Runs -> Rows] /\ TypeOK
  BY CtlFacts DEF Prepare, At, Beyond, Holding, CtlOk, LocalInv, LedgerInv
<1>2. CASE CanPrepare(r, Tok(p, r))
  <2>1. PrepareFinish(r, Tok(p, r), ctl[p][r].out)
    BY <1>2 DEF Prepare
  <2>2. Move
    BY <1>1, <2>1 DEF Move, TokenMove
  <2>3. Proposal(runs[r], ctl[p][r].out) \in TerminalStates
    BY <1>1, ProposalIsOwners DEF OwnerStates
  <2>4. runs'[r].state \in Ended /\ runs'[r].token = Tok(p, r)
    BY <1>1, <2>1 DEF PrepareFinish, CanPrepare, Owned, Ended, Rows
  <2>5. ctl' = [ctl EXCEPT ![p][r].pc = "prepared",
                           ![p][r].out = Proposal(runs[r], ctl[p][r].out)]
    BY <1>2 DEF Prepare
  <2>6. CtlWrites
    BY <1>1, <2>2, <2>3, <2>4, <2>5, PreparedMoves
  <2> QED
    BY <1>2, <2>2, <2>6, Unwritten, LocalStep DEF Prepare
<1>3. CASE ~ CanPrepare(r, Tok(p, r)) /\ runs[r].token = Tok(p, r) /\ Terminal(r)
  <2>1. UNCHANGED lvars /\ runs' = runs /\ Move
    BY <1>3 DEF Prepare, lvars, Move
  <2>2. runs[r].state \in TerminalStates /\ runs'[r].state \in Ended /\ runs'[r].token = Tok(p, r)
    BY <1>3, <2>1 DEF Terminal, Ended
  <2>3. ctl' = [ctl EXCEPT ![p][r].pc = "prepared", ![p][r].out = runs[r].state]
    BY <1>3 DEF Prepare
  <2>4. CtlWrites
    BY <1>1, <2>1, <2>2, <2>3, PreparedMoves
  <2> QED
    BY <1>3, <2>1, <2>4, Unwritten, LocalStep DEF Prepare
<1>4. CASE ~ CanPrepare(r, Tok(p, r)) /\ ~ (runs[r].token = Tok(p, r) /\ Terminal(r))
  <2>1. UNCHANGED lvars /\ Move /\ Forget(p, r) /\ UNCHANGED <<stat, rp>>
    BY <1>4 DEF Prepare, Move
  <2>2. UNCHANGED live \/ (Terminal(r) /\ ReconcileLive(r))
    BY <1>4 DEF Prepare
  <2>3. LiveWrites
    BY <2>1, <2>2, ReconcileMoves, Unwritten
  <2> QED
    BY <2>1, <2>3, ForgetMoves, Unwritten, LocalStep
<1> QED
  BY <1>2, <1>3, <1>4

LEMMA ShowFinishingLocal ==
    ASSUME LocalInv, NEW p \in Owners, NEW r \in Runs, ShowFinishing(p, r)
    PROVE  Move /\ LocalInv'
<1>1. runs[r].state # "none" /\ CtlWrites
  BY CtlFacts, Unwritten DEF ShowFinishing, At, CtlOk
<1>2. ViewOf(r).run = r /\ \E st \in LiveStatuses : Show(r, st)
  BY DEF ShowFinishing, Held, Shows, LiveStatuses
<1> QED
  BY <1>1, <1>2, ShowsLocal DEF ShowFinishing

LEMMA FinalizeRunLocal ==
    ASSUME LocalInv, NEW p \in Owners, NEW r \in Runs, FinalizeRun(p, r)
    PROVE  Move /\ LocalInv'
<1>1. /\ Tok(p, r) \in Tokens /\ ctl[p][r].pc = "prepared" /\ ctl[p][r].pc \in Beyond
      /\ ctl[p][r].out \in TerminalStates /\ runs[r].token = Tok(p, r)
      /\ runs[r].state \in Ended /\ runs[r] \in Rows /\ runs \in [Runs -> Rows]
      /\ TypeOK /\ ProposalDecides
  BY CtlFacts DEF FinalizeRun, At, Beyond, Holding, CtlOk, LocalInv, LedgerInv
<1>2. /\ Move /\ runs'[r].state \in TerminalStates /\ runs'[r].token = Tok(p, r)
  <2>1. CASE CanFinalize(r, Tok(p, r), ActiveStates)
    <3>1. Finalize(r, Tok(p, r), ctl[p][r].out, ActiveStates)
      BY <2>1 DEF FinalizeRun
    <3>2. runs[r].state = "finishing"
      BY <1>1, <2>1 DEF CanFinalize, Owned, Ended, ActiveStates, TerminalStates
    <3>3. Move
      BY <1>1, <3>1, <3>2 DEF Move, TokenMove, Expectations
    <3>4. Verdict(runs[r], ctl[p][r].out) \in TerminalStates
      BY <1>1, VerdictIsTerminal
    <3> QED
      BY <1>1, <3>1, <3>3, <3>4 DEF Finalize, Rows
  <2>2. CASE ~ CanFinalize(r, Tok(p, r), ActiveStates)
    <3>1. UNCHANGED lvars /\ runs' = runs
      BY <2>2 DEF FinalizeRun, lvars
    <3>2. runs[r].state \in TerminalStates
      BY <1>1, <2>2 DEF CanFinalize, Owned, Ended, ActiveStates
    <3> QED
      BY <1>1, <3>1, <3>2 DEF Move
  <2> QED
    BY <2>1, <2>2
<1>3. ctl' = [ctl EXCEPT ![p][r].pc = "finalized", ![p][r].out = runs'[r].state]
  BY DEF FinalizeRun
<1>4. CtlWrites
  BY <1>1, <1>2, <1>3, PreparedMoves DEF Ended
<1> QED
  BY <1>2, <1>4, Unwritten, LocalStep DEF FinalizeRun

LEMMA ReleaseLocal ==
    ASSUME LocalInv, NEW p \in Owners, NEW r \in Runs, Release(p, r)
    PROVE  Move /\ LocalInv'
<1>1. /\ Move /\ UNCHANGED lvars /\ runs' = runs /\ Forget(p, r)
      /\ runs[r].state \in TerminalStates /\ ctl[p][r].out = runs[r].state
      /\ runs[r].state # "none"
  BY CtlFacts DEF Release, At, Move, CtlOk, lvars
<1>2. LiveWrites
  <2>1. CASE ~ Held(r, Tok(p, r))
    BY <2>1, Unwritten DEF Release
  <2>2. CASE Held(r, Tok(p, r))
    <3>1. /\ Show(r, runs[r].state) /\ ViewOf(r).run = r
          /\ ref' = [ref EXCEPT ![r] = 0] /\ index' \subseteq index /\ livegen' = livegen
      BY <1>1, <2>2 DEF Release, Held, Shows
    <3>2. /\ view' \in [Sessions -> Views]
          /\ \A s \in Sessions : view'[s] # view[s] => ViewOk(view'[s], s, runs'[view'[s].run])
      BY <1>1, <3>1, ShowMoves
    <3>3. runs[r].token \in Nat
      BY CtlFacts
    <3>4. ref' \in [Runs -> Nat] /\ \A q \in Runs : ref'[q] # ref[q] => ref'[q] =< runs'[q].token
      BY <1>1, <3>1, <3>3 DEF LocalInv, LiveOk
    <3> QED
      BY <3>1, <3>2, <3>4 DEF LiveWrites, LocalInv, LiveOk
  <2> QED
    BY <2>1, <2>2
<1> QED
  BY <1>1, <1>2, ForgetMoves, Unwritten, LocalStep DEF Release

LEMMA GiveUpLocal ==
    ASSUME LocalInv, NEW p \in Owners, NEW r \in Runs, GiveUp(p, r)
    PROVE  Move /\ LocalInv'
<1>1. Move /\ ctl[p][r].pc \in Beyond
  BY DEF GiveUp, At, Beyond, Holding, Move
<1> QED
  BY <1>1, PlainLocal DEF GiveUp

\* Steps that only take something away from the live half, or empty it.
LEMMA LiveShrinks ==
    ASSUME LocalInv, UNCHANGED <<lvars, stat, ctl>>, PassWrites,
           livegen' \in 1..MaxGen, index' \subseteq index,
           UNCHANGED view \/ view' = [s \in Sessions |-> NoView],
           ref' \in [Runs -> Nat], \A r \in Runs : ref'[r] = ref[r] \/ ref'[r] = 0
    PROVE  Move /\ LocalInv'
<1>1. Move /\ runs' = runs
  BY DEF Move, lvars
<1>2. \A r \in Runs : runs[r].token \in Nat
  BY DEF LocalInv, LedgerInv, TypeOK, Rows
<1>3. LiveWrites
  BY <1>1, <1>2, RestOk DEF LiveWrites, LocalInv, LiveOk
<1> QED
  BY <1>1, <1>3, Unwritten, LocalStep

LEMMA LeaseExpireLocal ==
    ASSUME LocalInv, NEW r \in Runs, LeaseExpire(r)
    PROVE  Move /\ LocalInv'
<1>1. /\ ref' \in [Runs -> Nat] /\ \A q \in Runs : ref'[q] = ref[q] \/ ref'[q] = 0
      /\ livegen' \in 1..MaxGen
  BY DEF LeaseExpire, LocalInv, LiveOk
<1> QED
  BY <1>1, LiveShrinks, Unwritten DEF LeaseExpire

LEMMA FlushLocal ==
    ASSUME LocalInv, Flush
    PROVE  Move /\ LocalInv'
<1>1. livegen \in 1..MaxGen /\ DOMAIN ref = Runs
  BY DEF LocalInv, LiveOk
<1>2. livegen' \in 1..MaxGen
  BY <1>1, LifeAssumption DEF Flush
<1>3. ref' \in [Runs -> Nat] /\ \A q \in Runs : ref'[q] = ref[q] \/ ref'[q] = 0
  BY <1>1 DEF Flush
<1> QED
  BY <1>2, <1>3, LiveShrinks, Unwritten DEF Flush

LEMMA LoseOwnershipLocal ==
    ASSUME LocalInv, NEW p \in Owners, NEW r \in Runs, LoseOwnership(p, r)
    PROVE  Move /\ LocalInv'
<1> DEFINE c == [ctl[p][r] EXCEPT !.lost = TRUE]
<1>1. Move /\ ctl[p][r].pc \in Beyond /\ ctl[p][r] \in Controls
  BY CtlFacts DEF LoseOwnership, At, Beyond, Move
<1>2. c \in Controls /\ c.pc = ctl[p][r].pc /\ c.token = ctl[p][r].token /\ c.out = ctl[p][r].out
  BY <1>1 DEF Controls
<1>3. ctl' = [ctl EXCEPT ![p][r] = c]
  BY DEF LoseOwnership
<1> HIDE DEF c
<1>4. CtlWrites
  BY <1>1, <1>2, <1>3, CtlMoves
<1> QED
  BY <1>1, <1>4, Unwritten, LocalStep DEF LoseOwnership

LEMMA DownLocal ==
    ASSUME LocalInv, NEW p \in Owners, Down(p)
    PROVE  Move /\ LocalInv'
<1>1. Move /\ seq' = seq /\ seq \in Nat
  BY DEF Down, Move, lvars, LocalInv, LedgerInv, TypeOK
<1>2. stat' \in [Owners -> {"up", "closing", "down"}]
  BY DEF Down, LocalInv
<1>3. CtlWrites
  <2>1. ctl \in [Owners -> [Runs -> Controls]] /\ DOMAIN ctl[p] = Runs
    BY DEF LocalInv
  <2>2. ctl' = [ctl EXCEPT ![p] = [r \in Runs |-> Idle]]
    BY <2>1 DEF Down
  <2> QED
    BY <1>1, <2>1, <2>2, RestOk DEF CtlWrites
<1>4. PassWrites
  BY <1>1, RestOk, PassWrite DEF Down
<1> QED
  BY <1>1, <1>2, <1>3, <1>4, Unwritten, LocalStep DEF Down

LEMMA CloseLocal ==
    ASSUME LocalInv, NEW p \in Owners, Close(p)
    PROVE  Move /\ LocalInv'
<1>1. Move /\ stat' \in [Owners -> {"up", "closing", "down"}]
  BY DEF Close, Move, LocalInv
<1> QED
  BY <1>1, Unwritten, LocalStep DEF Close

LEMMA ReleaseOnShutdownLocal ==
    ASSUME LocalInv, NEW p \in Owners, NEW r \in Runs, ReleaseOnShutdown(p, r)
    PROVE  Move /\ LocalInv'
<1>1. /\ Tok(p, r) \in Tokens /\ ctl[p][r].pc \in Beyond /\ \E x \in Plain : Goto(p, r, x)
  BY CtlFacts DEF ReleaseOnShutdown, At, Beyond, Plain
<1>2. Move
  <2>1. CASE CanFinalize(r, Tok(p, r), ActiveStates)
    <3>1. runs[r].state \in ActiveStates /\ "lost" \in TerminalStates
      BY <2>1 DEF CanFinalize, Owned, TerminalStates
    <3>2. Finalize(r, Tok(p, r), "lost", {runs[r].state})
      BY <2>1 DEF ReleaseOnShutdown
    <3>3. {runs[r].state} \in Expectations
      BY <3>1 DEF Expectations
    <3> QED
      BY <1>1, <3>1, <3>2, <3>3 DEF Move, TokenMove
  <2>2. CASE ~ CanFinalize(r, Tok(p, r), ActiveStates)
    BY <2>2 DEF ReleaseOnShutdown, Move
  <2> QED
    BY <2>1, <2>2
<1> QED
  BY <1>1, <1>2, PlainLocal DEF ReleaseOnShutdown

LEMMA ReconcileOnShutdownLocal ==
    ASSUME LocalInv, NEW p \in Owners, NEW r \in Runs, ReconcileOnShutdown(p, r)
    PROVE  Move /\ LocalInv'
<1>1. Move /\ UNCHANGED lvars /\ Forget(p, r)
  BY DEF ReconcileOnShutdown, Move
<1>2. LiveWrites
  BY <1>1, ReconcileMoves, Unwritten DEF ReconcileOnShutdown
<1> QED
  BY <1>1, <1>2, ForgetMoves, Unwritten, LocalStep DEF ReconcileOnShutdown

-----------------------------------------------------------------------------
(* LocalInv: the reaper and the handoff.                                   *)

LEMMA PassFacts ==
    ASSUME LocalInv, NEW p \in Owners
    PROVE  /\ rp \in [Owners -> Passes] /\ rp[p] \in Passes /\ PassOk(rp[p], runs[rp[p].run], seq)
           /\ rp[p].pc \notin {"idle", "sweep"} =>
                /\ rp[p].run \in Runs /\ runs[rp[p].run] \in Rows
                /\ runs[rp[p].run].token \in Nat /\ runs[rp[p].run].state # "none"
                /\ runs[rp[p].run].session \in Sessions
           /\ rp[p].cand \in Nat /\ rp[p].token \in Nat /\ rp[p].new \in Nat
           /\ seq \in Nat /\ runs \in [Runs -> Rows]
<1>1. rp \in [Owners -> Passes] /\ rp[p] \in Passes /\ PassOk(rp[p], runs[rp[p].run], seq)
  BY DEF LocalInv
<1>2. /\ seq \in Nat /\ runs \in [Runs -> Rows]
      /\ \A r \in Runs : runs[r].state # "none" => runs[r].session \in Sessions
  BY DEF LocalInv, LedgerInv, TypeOK, RowsNumbered
<1>3. rp[p].cand \in Nat /\ rp[p].token \in Nat /\ rp[p].new \in Nat
  BY <1>1 DEF Passes
<1>4. rp[p].pc \notin {"idle", "sweep"} => rp[p].run \in Runs /\ runs[rp[p].run].state # "none"
  BY <1>1 DEF PassOk
<1>5. \A r \in Runs : runs[r] \in Rows /\ runs[r].token \in Nat
  BY <1>2 DEF Rows
<1> QED
  BY <1>1, <1>2, <1>3, <1>4, <1>5

\* What a pass starts with.
LEMMA RestFields ==
    /\ AtRest \in Passes /\ AtRest.kind = "none" /\ AtRest.run = None /\ AtRest.cand = 0
    /\ AtRest.token = 0 /\ AtRest.expected = {} /\ AtRest.new = 0 /\ AtRest.gen = 0
BY RestOk DEF AtRest

\* Only the pass of p is another one.
OnePass(p) == rp' \in [Owners -> Passes] /\ \A o \in Owners \ {p} : rp'[o] = rp[o]

LEMMA OnePassWrites ==
    ASSUME NEW p \in Owners, OnePass(p), PassOk(rp'[p], runs'[rp'[p].run], seq')
    PROVE  PassWrites
BY DEF OnePass, PassWrites

LEMMA HandOffPass ==
    ASSUME LocalInv, NEW p \in Owners, NEW r \in Runs, HandOff(p, r)
    PROVE  /\ OnePass(p) /\ rp'[p].pc = "reclaim" /\ rp'[p].kind = "handoff" /\ rp'[p].run = r
           /\ rp'[p].cand = 0 /\ rp'[p].token = runs[r].token /\ rp'[p].new = seq + 1
           /\ rp'[p].gen = runs[r].gen /\ runs[r].gen \in 1..MaxGen
<1> DEFINE x == [AtRest EXCEPT !.pc = "reclaim", !.kind = "handoff", !.run = r,
                     !.token = runs[r].token, !.new = seq + 1, !.gen = runs[r].gen]
<1>1. runs[r].gen \in 1..MaxGen
  BY CtlFacts DEF HandOff, RowOk
<1>2. runs[r].token \in Nat /\ seq + 1 \in Nat /\ runs[r].gen \in 0..MaxGen
  BY <1>1, CtlFacts, LifeAssumption
<1>3. /\ x \in Passes /\ x.pc = "reclaim" /\ x.kind = "handoff" /\ x.run = r /\ x.cand = 0
      /\ x.token = runs[r].token /\ x.new = seq + 1 /\ x.gen = runs[r].gen
  BY <1>2, RestFields DEF Passes
<1>4. rp' = [rp EXCEPT ![p] = x]
  BY DEF HandOff
<1> HIDE DEF x
<1>5. rp \in [Owners -> Passes]
  BY DEF LocalInv
<1> QED
  BY <1>1, <1>3, <1>4, <1>5 DEF OnePass

LEMMA RecoveryPass ==
    ASSUME LocalInv, NEW p \in Owners, NEW r \in Runs, NEW k \in {"lease", "sweep"},
           NEW cand \in Nat, StartRecovery(p, r, k, cand)
    PROVE  /\ OnePass(p) /\ rp'[p].pc = "reclaim" /\ rp'[p].kind = k /\ rp'[p].run = r
           /\ rp'[p].cand = cand /\ rp'[p].token = runs[r].token /\ rp'[p].new = seq + 1
           /\ rp'[p].gen = livegen /\ livegen \in 1..MaxGen
<1> DEFINE x == [AtRest EXCEPT !.pc = "reclaim", !.kind = k, !.run = r, !.cand = cand,
                     !.token = runs[r].token, !.new = seq + 1, !.gen = livegen]
<1>1. livegen \in 1..MaxGen
  BY DEF LocalInv, LiveOk
<1>2. runs[r].token \in Nat /\ seq + 1 \in Nat /\ livegen \in 0..MaxGen
  BY <1>1, CtlFacts, LifeAssumption
<1>3. /\ x \in Passes /\ x.pc = "reclaim" /\ x.kind = k /\ x.run = r /\ x.cand = cand
      /\ x.token = runs[r].token /\ x.new = seq + 1 /\ x.gen = livegen
  BY <1>2, RestFields DEF Passes
<1>4. rp' = [rp EXCEPT ![p] = x]
  BY DEF StartRecovery
<1> HIDE DEF x
<1>5. rp \in [Owners -> Passes]
  BY DEF LocalInv
<1> QED
  BY <1>1, <1>3, <1>4, <1>5 DEF OnePass

LEMMA MarkPass ==
    ASSUME LocalInv, NEW p \in Owners, NEW r \in Runs, NEW k \in {"lease", "sweep", "orphan"},
           NEW cand \in Nat, NEW e \in SUBSET (ActiveStates \cup TerminalStates),
           StartMark(p, r, k, cand, e)
    PROVE  /\ OnePass(p) /\ rp'[p].pc = "mark" /\ rp'[p].kind = k /\ rp'[p].run = r
           /\ rp'[p].cand = cand /\ rp'[p].token = runs[r].token /\ rp'[p].expected = e
<1> DEFINE x == [AtRest EXCEPT !.pc = "mark", !.kind = k, !.run = r, !.cand = cand,
                     !.token = runs[r].token, !.expected = e]
<1>1. runs[r].token \in Nat
  BY CtlFacts
<1>2. /\ x \in Passes /\ x.pc = "mark" /\ x.kind = k /\ x.run = r /\ x.cand = cand
      /\ x.token = runs[r].token /\ x.expected = e
  BY <1>1, RestFields DEF Passes
<1>3. rp' = [rp EXCEPT ![p] = x]
  BY DEF StartMark
<1> HIDE DEF x
<1>4. rp \in [Owners -> Passes]
  BY DEF LocalInv
<1> QED
  BY <1>2, <1>3, <1>4 DEF OnePass

LEMMA ConsumePass ==
    ASSUME LocalInv, NEW p \in Owners, NEW r \in Runs, NEW cand \in Nat, Consume(p, r, cand)
    PROVE  /\ OnePass(p) /\ rp'[p].pc = "release" /\ rp'[p].kind = "lease" /\ rp'[p].run = r
           /\ rp'[p].cand = cand
<1> DEFINE x == [AtRest EXCEPT !.pc = "release", !.kind = "lease", !.run = r, !.cand = cand]
<1>1. x \in Passes /\ x.pc = "release" /\ x.kind = "lease" /\ x.run = r /\ x.cand = cand
  BY RestFields DEF Passes
<1>2. rp' = [rp EXCEPT ![p] = x]
  BY DEF Consume
<1> HIDE DEF x
<1>3. rp \in [Owners -> Passes]
  BY DEF LocalInv
<1> QED
  BY <1>1, <1>2, <1>3 DEF OnePass

\* A pass, or a handoff, is about to reclaim a parked run.
LEMMA RecoveryMoves ==
    ASSUME LocalInv, NEW p \in Owners, NEW r \in Runs, runs[r].state \notin Unowned, OnePass(p),
           rp'[p].pc = "reclaim", rp'[p].run = r, rp'[p].cand =< runs[r].token,
           rp'[p].token = runs[r].token, rp'[p].new = seq + 1, 1 =< rp'[p].gen, NextFencingToken
    PROVE  PassWrites
<1> DEFINE x == rp'[p]
<1>1. /\ runs[r] \in Rows /\ runs[r].token \in Nat /\ seq \in Nat /\ runs[r].token =< seq
      /\ runs' = runs /\ seq' = seq + 1
  BY DEF LocalInv, LedgerInv, TypeOK, TokensDrawn, Rows, NextFencingToken
<1>2. x \in Passes /\ x.cand \in Nat
  BY DEF OnePass, Passes
<1>3. x.cand < seq + 1 /\ 1 =< seq + 1 /\ runs[r].token =< seq + 1
  BY <1>1, <1>2
<1>4. PassOk(x, runs'[x.run], seq')
  BY <1>1, <1>2, <1>3 DEF PassOk, Unowned
<1> QED
  BY <1>4, OnePassWrites

LEMMA HandOffLocal ==
    ASSUME LocalInv, NEW p \in Owners, NEW r \in Runs, HandOff(p, r)
    PROVE  Move /\ LocalInv'
<1>1. /\ Move /\ NextFencingToken /\ runs[r].state = "waiting" /\ runs[r].state \notin Unowned
      /\ runs[r].token \in Nat /\ 0 =< runs[r].token
  BY CtlFacts DEF HandOff, Move, Unowned
<1>2. PassWrites
  BY <1>1, HandOffPass, RecoveryMoves
<1> QED
  BY <1>1, <1>2, Unwritten, LocalStep DEF HandOff

LEMMA StartRecoveryLocal ==
    ASSUME LocalInv, NEW p \in Owners, NEW r \in Runs, runs[r].state \notin Unowned,
           NEW k \in {"lease", "sweep"}, NEW cand \in Nat, cand =< runs[r].token,
           StartRecovery(p, r, k, cand), UNCHANGED <<live, stat>>
    PROVE  Move /\ LocalInv'
<1>1. Move /\ NextFencingToken /\ Forget(p, r)
  BY DEF StartRecovery, Move
<1>2. PassWrites
  BY <1>1, RecoveryPass, RecoveryMoves
<1> QED
  BY <1>1, <1>2, ForgetMoves, Unwritten, LocalStep

LEMMA StartMarkLocal ==
    ASSUME LocalInv, NEW p \in Owners, NEW r \in Runs, runs[r].state # "none",
           NEW k \in {"lease", "sweep", "orphan"}, NEW cand \in Nat,
           NEW e, e = ActiveStates \/ e = {runs[r].state},
           StartMark(p, r, k, cand, e), UNCHANGED <<live, stat>>
    PROVE  Move /\ LocalInv'
<1> DEFINE x == rp'[p]
<1>1. Move /\ UNCHANGED <<lvars, ctl>> /\ runs' = runs
  BY DEF StartMark, Move, lvars
<1>2. runs[r] \in Rows /\ runs[r].token \in Nat /\ runs[r].state \in ActiveStates \cup TerminalStates
  BY DEF LocalInv, LedgerInv, TypeOK, Rows
<1>3. /\ e \in {ActiveStates} \cup {{st} : st \in ActiveStates \cup TerminalStates}
      /\ e \in SUBSET (ActiveStates \cup TerminalStates)
  BY <1>2
<1>4. OnePass(p) /\ x.pc = "mark" /\ x.run = r /\ x.token = runs[r].token /\ x.expected = e
  BY <1>3, MarkPass
<1>5. PassOk(x, runs'[x.run], seq')
  BY <1>1, <1>2, <1>3, <1>4 DEF PassOk, OnePass
<1>6. PassWrites
  BY <1>4, <1>5, OnePassWrites
<1> QED
  BY <1>1, <1>6, Unwritten, LocalStep

LEMMA ConsumeLocal ==
    ASSUME LocalInv, NEW p \in Owners, NEW r \in Runs, runs[r].state # "none",
           NEW cand \in Nat, cand < runs[r].token,
           Consume(p, r, cand), UNCHANGED <<live, stat>>
    PROVE  Move /\ LocalInv'
<1>1. Move /\ UNCHANGED <<lvars, ctl>> /\ runs' = runs
  BY DEF Consume, Move, lvars
<1>2. OnePass(p) /\ rp'[p].pc = "release" /\ rp'[p].run = r /\ rp'[p].cand = cand
  BY ConsumePass
<1>3. PassOk(rp'[p], runs'[rp'[p].run], seq')
  BY <1>1, <1>2 DEF PassOk, OnePass
<1>4. PassWrites
  BY <1>2, <1>3, OnePassWrites
<1> QED
  BY <1>1, <1>4, Unwritten, LocalStep

LEMMA ReapPickLocal ==
    ASSUME LocalInv, NEW p \in Owners, NEW r, NEW t, <<r, t>> \in index, ReapPick(p, r, t)
    PROVE  Move /\ LocalInv'
<1>1. /\ r \in Runs /\ t \in Nat /\ t =< runs[r].token /\ runs[r].state \notin Unowned
      /\ runs[r].state # "none" /\ runs[r].token \in Nat
      /\ ref[r] \in Nat /\ ref[r] =< runs[r].token /\ ref[r] # t
  BY DEF LocalInv, LiveOk, LedgerInv, TypeOK, Rows, Unowned, ReapPick
<1>2. UNCHANGED <<live, stat>>
  BY DEF ReapPick
<1>3. \/ Consume(p, r, t) /\ t < runs[r].token
      \/ StartRecovery(p, r, "lease", t)
      \/ StartMark(p, r, "lease", t, {runs[r].state})
  BY <1>1 DEF ReapPick
<1> QED
  BY <1>1, <1>2, <1>3, ConsumeLocal, StartRecoveryLocal, StartMarkLocal

LEMMA SweepPickLocal ==
    ASSUME LocalInv, NEW p \in Owners, NEW r \in Runs, SweepPick(p, r) \/ OrphanPick(p, r)
    PROVE  Move /\ LocalInv'
<1>1. runs[r].state # "none" /\ runs[r].token \in Nat /\ 0 =< runs[r].token
  BY CtlFacts DEF SweepPick, StaleGenerationRuns, OrphanPick, OrphanedRuns, Active, ActiveStates,
       LocalInv, LedgerInv, TypeOK, Rows
<1>2. /\ UNCHANGED <<live, stat>>
      /\ \/ StartRecovery(p, r, "sweep", 0) /\ runs[r].state \notin Unowned
         \/ StartMark(p, r, "sweep", 0, ActiveStates)
         \/ StartMark(p, r, "orphan", 0, ActiveStates)
  BY DEF SweepPick, OrphanPick, Recoverable, Unowned
<1> QED
  BY <1>1, <1>2, StartRecoveryLocal, StartMarkLocal

LEMMA SweepReadLocal ==
    ASSUME LocalInv, NEW p \in Owners, SweepRead(p)
    PROVE  Move /\ LocalInv'
<1> DEFINE x == [AtRest EXCEPT !.pc = "sweep", !.gen = livegen]
<1>1. Move
  BY DEF SweepRead, Move
<1>2. livegen \in 0..MaxGen
  BY LifeAssumption DEF LocalInv, LiveOk
<1>3. x \in Passes /\ x.pc = "sweep"
  BY <1>2, RestFields DEF Passes
<1>4. rp' = [rp EXCEPT ![p] = x]
  BY DEF SweepRead
<1> HIDE DEF x
<1>5. PassOk(x, runs'[x.run], seq')
  BY <1>3 DEF PassOk
<1>6. PassWrites
  BY <1>4, <1>5, PassWrite
<1> QED
  BY <1>1, <1>6, Unwritten, LocalStep DEF SweepRead

LEMMA RestLocal ==
    ASSUME LocalInv, NEW p \in Owners, SweepDone(p) \/ PassFails(p)
    PROVE  Move /\ LocalInv'
<1>1. Move /\ Rest(p) /\ UNCHANGED <<live, stat, ctl>>
  BY DEF SweepDone, PassFails, Move
<1> QED
  BY <1>1, RestMoves, Unwritten, LocalStep

\* A pass goes on to another phase.
LEMMA StepPass ==
    ASSUME LocalInv, NEW p \in Owners, NEW pc, Step(p, pc),
           pc \in {"mark", "reconcile", "release", "rereserve"}
    PROVE  /\ OnePass(p) /\ rp'[p].pc = pc /\ rp'[p].kind = rp[p].kind /\ rp'[p].run = rp[p].run
           /\ rp'[p].cand = rp[p].cand /\ rp'[p].token = rp[p].token
           /\ rp'[p].expected = rp[p].expected /\ rp'[p].new = rp[p].new
<1> DEFINE x == [rp[p] EXCEPT !.pc = pc]
<1>1. rp \in [Owners -> Passes] /\ rp[p] \in Passes
  BY DEF LocalInv
<1>2. /\ x \in Passes /\ x.pc = pc /\ x.kind = rp[p].kind /\ x.run = rp[p].run
      /\ x.cand = rp[p].cand /\ x.token = rp[p].token /\ x.expected = rp[p].expected
      /\ x.new = rp[p].new
  BY <1>1 DEF Passes
<1>3. rp' = [rp EXCEPT ![p] = x]
  BY DEF Step
<1> HIDE DEF x
<1> QED
  BY <1>1, <1>2, <1>3 DEF OnePass

LEMMA RestPass ==
    ASSUME LocalInv, NEW p \in Owners, Rest(p)
    PROVE  OnePass(p) /\ rp'[p].pc = "idle" /\ rp'[p].run = None
<1>1. rp \in [Owners -> Passes]
  BY DEF LocalInv
<1> QED
  BY <1>1, RestOk DEF Rest, OnePass

\* A pass on a run that is durably over goes on.
LEMMA OverMoves ==
    ASSUME LocalInv, Move, NEW p \in Owners, rp[p].pc \notin {"idle", "sweep"},
           runs'[rp[p].run].state \in TerminalStates,
           \/ Step(p, "reconcile")
           \/ Step(p, "release")
           \/ Rest(p)
    PROVE  PassWrites
<1>1. CASE Rest(p)
  BY <1>1, RestMoves
<1>2. CASE Step(p, "reconcile") \/ Step(p, "release")
  <2>1. /\ OnePass(p) /\ rp'[p].pc \in {"reconcile", "release"} /\ rp'[p].run = rp[p].run
        /\ rp[p].run \in Runs
    BY <1>2, StepPass, PassFacts
  <2>2. rp'[p] \in Passes /\ runs'[rp'[p].run].state \in TerminalStates
    BY <2>1 DEF OnePass
  <2>3. PassOk(rp'[p], runs'[rp'[p].run], seq')
    BY <2>1, <2>2 DEF PassOk, TerminalStates
  <2> QED
    BY <2>1, <2>3, OnePassWrites
<1> QED
  BY <1>1, <1>2

LEMMA MarkLocal ==
    ASSUME LocalInv, NEW p \in Owners, Mark(p)
    PROVE  Move /\ LocalInv'
<1> DEFINE r == rp[p].run
<1>1. /\ rp[p].pc = "mark" /\ r \in Runs /\ runs[r].state # "none"
      /\ rp[p].token \in Nat /\ rp[p].token =< runs[r].token /\ runs[r].token \in Nat
      /\ rp[p].expected \in {ActiveStates} \cup {{st} : st \in ActiveStates \cup TerminalStates}
  BY PassFacts DEF Mark, Working, PassOk
<1>2. rp[p].token \in Tokens
  <2>1. runs[r].token =< seq /\ seq \in Nat
    BY <1>1, CtlFacts DEF LocalInv, LedgerInv, TypeOK, TokensDrawn
  <2> QED
    BY <1>1, <2>1 DEF Tokens
<1>3. Move
  <2>1. CASE ~ CanFinalize(r, rp[p].token, rp[p].expected)
    BY <2>1 DEF Mark, Move
  <2>2. CASE CanFinalize(r, rp[p].token, rp[p].expected)
    <3>1. Finalize(r, rp[p].token, "lost", rp[p].expected)
      BY <2>2 DEF Mark
    <3>2. runs[r].state \in rp[p].expected /\ runs[r].state \in ActiveStates
      BY <2>2 DEF CanFinalize, Owned
    <3>3. rp[p].expected \in Expectations
      BY <1>1, <3>2 DEF Expectations
    <3>4. "lost" \in TerminalStates
      BY DEF TerminalStates
    <3>5. TokenMove(r, rp[p].token)
      BY <3>1, <3>3, <3>4 DEF TokenMove
    <3> QED
      BY <1>1, <1>2, <3>5 DEF Move
  <2> QED
    BY <2>1, <2>2
<1>4. PassWrites
  <2>1. CASE runs'[r].state \in TerminalStates
    <3>1. Step(p, "reconcile")
      BY <2>1 DEF Mark
    <3> QED
      BY <1>1, <1>3, <2>1, <3>1, OverMoves
  <2>2. CASE runs'[r].state \notin TerminalStates
    <3>1. Rest(p)
      BY <2>2 DEF Mark
    <3> QED
      BY <1>3, <3>1, RestMoves
  <2> QED
    BY <2>1, <2>2
<1> QED
  BY <1>3, <1>4, Unwritten, LocalStep DEF Mark

LEMMA ReconcileLocal ==
    ASSUME LocalInv, NEW p \in Owners, Reconcile(p)
    PROVE  Move /\ LocalInv'
<1> DEFINE r == rp[p].run
<1>1. /\ rp[p].pc = "reconcile" /\ r \in Runs /\ runs[r].state \in TerminalStates
  BY PassFacts DEF Reconcile, Working, PassOk
<1>2. Move /\ UNCHANGED lvars /\ runs' = runs /\ UNCHANGED stat
  BY DEF Reconcile, Move, lvars
<1>3. LiveWrites
  <2>1. UNCHANGED live \/ ReconcileLive(r)
    BY DEF Reconcile
  <2> QED
    BY <1>1, <1>2, <2>1, ReconcileMoves, Unwritten DEF Terminal
<1>4. CtlWrites
  <2>1. UNCHANGED ctl \/ Forget(p, r)
    BY DEF Reconcile
  <2> QED
    BY <1>1, <1>2, <2>1, ForgetMoves, Unwritten
<1>5. PassWrites
  <2>1. Step(p, "release") \/ Rest(p)
    BY DEF Reconcile
  <2> QED
    BY <1>1, <1>2, <2>1, OverMoves
<1> QED
  BY <1>2, <1>3, <1>4, <1>5, Unwritten, LocalStep

LEMMA ReleaseMemberLocal ==
    ASSUME LocalInv, NEW p \in Owners, ReleaseMember(p)
    PROVE  Move /\ LocalInv'
<1>1. Rest(p) /\ UNCHANGED <<lvars, livegen, view, ref, stat, ctl>> /\ index' \subseteq index
  BY DEF ReleaseMember
<1>2. Move
  BY <1>1 DEF Move
<1>3. /\ livegen' \in 1..MaxGen /\ ref' \in [Runs -> Nat]
      /\ \A r \in Runs : ref'[r] = ref[r] \/ ref'[r] = 0
  BY <1>1 DEF LocalInv, LiveOk
<1>4. PassWrites
  BY <1>1, <1>2, RestMoves
<1> QED
  BY <1>1, <1>3, <1>4, LiveShrinks

\* The row that a pass reclaims gets the new token.
LEMMA ReclaimedRow ==
    ASSUME LocalInv, NEW p \in Owners, Reclaim(p), CanReclaim(rp[p].run, rp[p].token, rp[p].new)
    PROVE  /\ ReclaimWaitingDecision(rp[p].run, p, rp[p].token, rp[p].new, rp[p].gen)
           /\ rp[p].run \in Runs /\ rp[p].new \in 1..seq /\ rp[p].gen \in 1..MaxGen
           /\ rp[p].token \in Tokens /\ Move
           /\ runs'[rp[p].run].token = rp[p].new /\ runs'[rp[p].run].state = "waiting"
           /\ runs[rp[p].run].state = "waiting" /\ ~ runs[rp[p].run].abort
           /\ runs[rp[p].run].token < rp[p].new /\ seq' = seq
<1> DEFINE r == rp[p].run
<1>1. /\ rp[p].pc = "reclaim" /\ r \in Runs /\ runs[r] \in Rows /\ runs \in [Runs -> Rows]
      /\ rp[p].new \in Nat /\ 1 =< rp[p].new /\ rp[p].new =< seq /\ seq \in Nat
      /\ rp[p].token \in Nat /\ rp[p].token =< seq
      /\ rp[p].gen \in 0..MaxGen /\ 1 =< rp[p].gen
  BY PassFacts DEF Reclaim, Working, PassOk, Passes
<1>2. ReclaimWaitingDecision(r, p, rp[p].token, rp[p].new, rp[p].gen)
  BY DEF Reclaim
<1>3. rp[p].new \in 1..seq /\ rp[p].gen \in 1..MaxGen /\ rp[p].token \in Tokens
  BY <1>1, LifeAssumption DEF Tokens
<1>4. Move
  BY <1>1, <1>2, <1>3 DEF Move
<1>5. /\ runs'[r] = [runs[r] EXCEPT !.owner = p, !.token = rp[p].new, !.gen = rp[p].gen]
      /\ runs[r].state = "waiting" /\ ~ runs[r].abort /\ runs[r].token < rp[p].new /\ seq' = seq
  BY <1>1, <1>2 DEF ReclaimWaitingDecision, CanReclaim
<1>6. runs'[r].token = rp[p].new /\ runs'[r].state = runs[r].state
  BY <1>1, <1>5 DEF Rows
<1> QED
  BY <1>1, <1>2, <1>3, <1>4, <1>5, <1>6

LEMMA ReclaimLocal ==
    ASSUME LocalInv, NEW p \in Owners, Reclaim(p)
    PROVE  Move /\ LocalInv'
<1> DEFINE r == rp[p].run
<1>1. /\ rp[p].pc = "reclaim" /\ r \in Runs /\ UNCHANGED <<live, stat>>
      /\ PassOk(rp[p], runs[r], seq) /\ rp[p].new \in Nat
  BY PassFacts DEF Reclaim, Working
<1>2. Move
  BY ReclaimedRow DEF Reclaim, Move
<1>3. PassWrites
  <2>1. CASE Rest(p)
    BY <1>2, <2>1, RestMoves
  <2>2. CASE CanReclaim(r, rp[p].token, rp[p].new) /\ Step(p, "rereserve")
    <3>1. /\ runs'[r].token = rp[p].new /\ runs'[r].state = "waiting" /\ seq' = seq
      BY <2>2, ReclaimedRow
    <3>2. /\ OnePass(p) /\ rp'[p].pc = "rereserve" /\ rp'[p].run = r /\ rp'[p].new = rp[p].new
          /\ rp'[p].cand = rp[p].cand /\ rp'[p].token = rp[p].token
      BY <2>2, StepPass
    <3>3. PassOk(rp'[p], runs'[rp'[p].run], seq')
      BY <1>1, <3>1, <3>2 DEF PassOk, OnePass
    <3> QED
      BY <3>2, <3>3, OnePassWrites
  <2> QED
    BY <2>1, <2>2 DEF Reclaim
<1>4. CtlWrites
  BY <1>1, <1>2, ForgetMoves, Unwritten DEF Reclaim
<1> QED
  BY <1>1, <1>2, <1>3, <1>4, Unwritten, LocalStep

LEMMA RereserveLocal ==
    ASSUME LocalInv, NEW p \in Owners, Rereserve(p)
    PROVE  Move /\ LocalInv'
<1> DEFINE r == rp[p].run
           c == [Idle EXCEPT !.pc = "parked", !.token = rp[p].new]
<1>1. /\ rp[p].pc = "rereserve" /\ r \in Runs /\ PassOk(rp[p], runs[r], seq)
      /\ runs[r].state \notin Unowned /\ rp[p].new \in Nat /\ rp[p].new =< runs[r].token
      /\ runs[r].token \in Nat /\ rp[p].cand \in Nat /\ rp[p].cand < rp[p].new
  BY PassFacts DEF Rereserve, Working, PassOk, Unowned
<1>2. Move /\ UNCHANGED <<lvars, stat>> /\ runs' = runs /\ seq' = seq
  BY DEF Rereserve, Move, lvars
<1>3. LiveWrites
  <2>1. StartLive(r, rp[p].new, "waiting") /\ "waiting" \in LiveStatuses
    BY DEF Rereserve, LiveStatuses
  <2> QED
    BY <1>1, <1>2, <2>1, StartMoves
<1>4. CtlWrites
  <2>1. c \in Controls /\ c.pc = "parked" /\ c.token = rp[p].new
    BY <1>1, RestOk DEF Controls, Holding
  <2>2. ctl' = [ctl EXCEPT ![p][r] = c]
    BY DEF Rereserve
  <2> HIDE DEF c
  <2>3. CtlOk(c, runs'[r], seq')
    BY <1>1, <1>2, <2>1 DEF CtlOk, PassOk, Unowned
  <2> QED
    BY <1>1, <2>2, <2>3, CtlWrite
<1>5. PassWrites
  <2>1. CASE Rest(p)
    BY <1>2, <2>1, RestMoves
  <2>2. CASE Step(p, "release")
    <3>1. /\ OnePass(p) /\ rp'[p].pc = "release" /\ rp'[p].run = r /\ rp'[p].cand = rp[p].cand
      BY <2>2, StepPass
    <3>2. rp[p].cand < runs[r].token
      BY <1>1
    <3>3. PassOk(rp'[p], runs'[rp'[p].run], seq')
      BY <1>1, <1>2, <3>1, <3>2 DEF PassOk, OnePass
    <3> QED
      BY <3>1, <3>3, OnePassWrites
  <2> QED
    BY <2>1, <2>2 DEF Rereserve
<1> QED
  BY <1>2, <1>3, <1>4, <1>5, Unwritten, LocalStep

LEMMA RereserveFailsPass ==
    ASSUME LocalInv, NEW p \in Owners, RereserveFails(p), rp[p].kind # "lease"
    PROVE  /\ OnePass(p) /\ rp'[p].pc = "mark" /\ rp'[p].kind = rp[p].kind
           /\ rp'[p].run = rp[p].run /\ rp'[p].cand = rp[p].cand /\ rp'[p].token = rp[p].new /\ rp'[p].expected = {"waiting"}
<1> DEFINE x == [rp[p] EXCEPT !.pc = "mark", !.token = rp[p].new, !.expected = {"waiting"}]
<1>1. rp \in [Owners -> Passes] /\ rp[p] \in Passes
  BY DEF LocalInv
<1>2. /\ x \in Passes /\ x.pc = "mark" /\ x.kind = rp[p].kind /\ x.run = rp[p].run
      /\ x.cand = rp[p].cand /\ x.token = rp[p].new /\ x.expected = {"waiting"}
  BY <1>1 DEF Passes, ActiveStates
<1>3. rp' = [rp EXCEPT ![p] = x]
  BY <1>1 DEF RereserveFails
<1> HIDE DEF x
<1> QED
  BY <1>1, <1>2, <1>3 DEF OnePass

LEMMA RereserveFailsLocal ==
    ASSUME LocalInv, NEW p \in Owners, RereserveFails(p)
    PROVE  Move /\ LocalInv'
<1>1. /\ rp[p].pc = "rereserve" /\ rp[p].run \in Runs /\ runs[rp[p].run].state # "none"
      /\ rp[p].new =< runs[rp[p].run].token
  BY PassFacts DEF RereserveFails, Working, PassOk
<1>2. Move /\ UNCHANGED <<lvars, live, stat, ctl>> /\ runs' = runs
  BY DEF RereserveFails, Move, lvars
<1>3. PassWrites
  <2>1. CASE rp[p].kind = "lease"
    BY <1>2, <2>1, RestMoves DEF RereserveFails
  <2>2. CASE rp[p].kind # "lease"
    <3>1. /\ OnePass(p) /\ rp'[p].pc = "mark" /\ rp'[p].run = rp[p].run
          /\ rp'[p].token = rp[p].new /\ rp'[p].expected = {"waiting"}
      BY <2>2, RereserveFailsPass
    <3>2. "waiting" \in ActiveStates
      BY DEF ActiveStates
    <3>3. PassOk(rp'[p], runs'[rp'[p].run], seq')
      BY <1>1, <1>2, <3>1, <3>2 DEF PassOk, OnePass
    <3> QED
      BY <3>1, <3>3, OnePassWrites
  <2> QED
    BY <2>1, <2>2
<1> QED
  BY <1>2, <1>3, Unwritten, LocalStep

-----------------------------------------------------------------------------
\* One step of one process.
LEMMA OwnLocal ==
    ASSUME LocalInv, NEW p \in Owners, NEW r \in Runs, Own(p, r)
    PROVE  Move /\ LocalInv'
BY DrawLocal, ClaimRunLocal, ActivateFenceLocal, ReserveLocal, BeginLocal, AbandonClaimLocal,
   UnwindLocal, ShowWaitingLocal, EndExecutionLocal, PrepareLocal, FinalizeRunLocal, ReleaseLocal
   DEF Own

LEMMA ReapLocal ==
    ASSUME LocalInv, NEW p \in Owners, Reap(p)
    PROVE  Move /\ LocalInv'
<1>1. CASE \E e \in index : ReapPick(p, e[1], e[2])
  <2>1. PICK e \in index : ReapPick(p, e[1], e[2])
    BY <1>1
  <2>2. e = <<e[1], e[2]>>
    BY DEF LocalInv, LiveOk
  <2> QED
    BY <2>1, <2>2, ReapPickLocal
<1>2. CASE ~ \E e \in index : ReapPick(p, e[1], e[2])
  BY <1>2, SweepPickLocal, SweepReadLocal, RestLocal, MarkLocal, ReconcileLocal,
     ReleaseMemberLocal, ReclaimLocal, RereserveLocal, RereserveFailsLocal DEF Reap
<1> QED
  BY <1>1, <1>2

LEMMA NextLocal ==
    ASSUME LocalInv, [LifeNext]_vars
    PROVE  Move /\ LocalInv'
<1>1. CASE UNCHANGED vars
  <2>1. Move /\ UNCHANGED <<live, stat, ctl, rp>>
    BY <1>1 DEF vars, Move
  <2> QED
    BY <2>1, Unwritten, LocalStep
<1>2. CASE Flush
  BY <1>2, FlushLocal
<1>3. CASE \E r \in Runs : AbortIntent(r) \/ LeaseExpire(r)
  BY <1>3, AbortIntentLocal, LeaseExpireLocal
<1>4. CASE \E p \in Owners : Reap(p) \/ PassFails(p) \/ Crash(p) \/ Close(p) \/ Exit(p)
  BY <1>4, ReapLocal, RestLocal, DownLocal, CloseLocal DEF Crash, Exit
<1>5. ASSUME NEW p \in Owners, NEW r \in Runs,
             \/ \E s \in Sessions, i \in Invs : Submit(p, r, s, i)
             \/ Resubmit(p, r) \/ Own(p, r)
             \/ ActivateFails(p, r) \/ ReserveFails(p, r) \/ ShowFinishing(p, r) \/ GiveUp(p, r)
      PROVE  Move /\ LocalInv'
  BY <1>5, SubmitLocal, ResubmitLocal, OwnLocal, ActivateFailsLocal, ReserveLocal,
     ShowFinishingLocal, GiveUpLocal
<1>6. ASSUME NEW p \in Owners, NEW r \in Runs,
             \/ CommitStep(p, r) \/ Park(p, r) \/ Answer(p, r)
             \/ AbortRead(p, r) \/ AbortLive(p, r) \/ LoseOwnership(p, r)
             \/ ReleaseOnShutdown(p, r) \/ ReconcileOnShutdown(p, r) \/ HandOff(p, r)
      PROVE  Move /\ LocalInv'
  BY <1>6, CommitStepLocal, ParkLocal, AnswerLocal, AbortReadLocal, AbortLiveLocal,
     LoseOwnershipLocal, ReleaseOnShutdownLocal, ReconcileOnShutdownLocal, HandOffLocal
<1> QED
  BY <1>1, <1>2, <1>3, <1>4, <1>5, <1>6 DEF LifeNext

-----------------------------------------------------------------------------
\* LocalInv, and what it says of what users see.
LEMMA LocalTheorem == LifeSpec => []LocalInv
<1>1. LocalInv /\ [LifeNext]_vars => LocalInv'
  BY NextLocal
<1> QED
  BY <1>1, InitLocalInv, PTL DEF LifeSpec

\* Every step of every process, in any interleaving and with any faults, is one
\* operation of the ledger or none: what SessionLedgerProofs proves of the
\* database transactions for arbitrary callers holds of this system.
THEOREM LedgerStepsTheorem == LifeSpec => LedgerSteps
<1>1. Init => LedgerInit
  BY DEF Init
<1>2. LocalInv /\ [LifeNext]_vars => [Next]_lvars
  BY NextLocal, MoveIsNext
<1> QED
  BY <1>1, <1>2, LocalTheorem, PTL DEF LifeSpec, LedgerSteps, Spec

\* Owners, callers and reapers together, with any faults, do what the abstract
\* specification of runs says: one live turn per session, one sealed verdict per turn,
\* a history in the order of turns (finalizeLedgerRun, markRunLost, claimAndStart).
THEOREM LifeImplementsRunOutcome == LifeSpec => ImplementsRunOutcome
BY LedgerStepsTheorem, LedgerImplementsRunOutcome, PTL DEF LedgerSteps

\* SR-DUR-002: no view, whoever wrote it and however late, shows an outcome that
\* the ledger does not have.
THEOREM DurableTheorem == LifeSpec => []LiveOutcomeIsDurable
<1>1. LocalInv => LiveOutcomeIsDurable
  BY DEF LocalInv, LiveOk, ViewOk, LiveOutcomeIsDurable
<1> QED
  BY <1>1, LocalTheorem, PTL

\* AbortControl: a run whose abort is durable ends as aborted or failed, whichever
\* of owner, aborter, shutdown and reaper ends it.
THEOREM AbortTheorem == LifeSpec => []AbortIsHonoured
<1>1. LocalInv => AbortIsHonoured
  BY DEF LocalInv, RowOk, AbortIsHonoured, Terminal
<1> QED
  BY <1>1, LocalTheorem, PTL

-----------------------------------------------------------------------------
(* Steps that move no ownership.                                           *)

\* A process holds r under the row's token.
HolderOf(r) == \E p \in Owners : ctl[p][r].pc \in Holding /\ Tok(p, r) = runs[r].token

\* The ledger: tokens, owners and fences stay, and only a holder changes the
\* state of an active run without ending it.
LedgerTame ==
    /\ fence' = fence
    /\ \A r \in Runs :
         /\ runs'[r].token = runs[r].token /\ runs'[r].owner = runs[r].owner
         /\ runs[r].state # "none" => runs'[r].session = runs[r].session
         /\ Active(r)' => \/ Active(r) /\ runs'[r].state = runs[r].state
                          \/ Active(r) /\ HolderOf(r)
                          \/ runs[r].state = "none" /\ runs'[r].state = "accepted"

\* The controls: a reservation is kept or dropped, a claim is kept or given up.
CtlTame ==
    \A p \in Owners, r \in Runs :
        \/ ctl'[p][r] = ctl[p][r]
        \/ ctl'[p][r].pc \in {"idle", "admitted"}
        \/ ctl'[p][r].pc = "drawn" /\ seq < ctl'[p][r].token /\ Draw(p, r)
        \/ /\ ctl'[p][r].token = ctl[p][r].token
           /\ \/ ctl[p][r].pc \in Beyond /\ ctl'[p][r].pc \in {"abandoning", "shut"}
              \/ ctl[p][r].pc \in Holding /\ ctl'[p][r].pc \in Holding

\* The views: another status of a run that is shown as active, an outcome, or none.
ViewTame ==
    \A s \in Sessions :
        \/ view'[s] = view[s]
        \/ /\ view'[s].status \notin LiveStatuses
           /\ view'[s].run = None \/ (view'[s].run \in Runs /\ Terminal(view'[s].run))
        \/ /\ view'[s].run = view[s].run /\ view'[s].token = view[s].token
           /\ view[s].status \in LiveStatuses

RefTame == \A r \in Runs : ref'[r] = ref[r] \/ ref'[r] = 0

\* The index: entries of ended runs go, and entries behind the row's token.
IndexTame ==
    /\ index' \subseteq index
    /\ \A e \in index \ index' : Terminal(e[1]) \/ e[2] < runs[e[1]].token

PassTame == \A p \in Owners : rp'[p].pc = "rereserve" => rp'[p] = rp[p]

LEMMA RunFacts ==
    ASSUME LocalInv, NEW r \in Runs
    PROVE  /\ runs \in [Runs -> Rows] /\ runs[r] \in Rows /\ runs[r].token \in Nat /\ seq \in Nat
           /\ runs[r].token =< seq /\ RowOk(runs[r])
           /\ runs[r].state # "none" => runs[r].session \in Sessions
           /\ ref[r] \in Nat /\ ref[r] =< runs[r].token
BY DEF LocalInv, LedgerInv, TypeOK, TokensDrawn, RowsNumbered, Rows, LiveOk

\* A session has one active run.
LEMMA OneActive ==
    ASSUME LocalInv, NEW r \in Runs, NEW q \in Runs, Active(r), Active(q),
           runs[r].session = runs[q].session
    PROVE  r = q
<1>1. ActiveRunIsNewestTurn
  BY DEF LocalInv, LedgerInv
<1>2. ~ (Active(r) /\ Terminal(r))
  BY DEF Active, Terminal, ActiveStates, TerminalStates
<1> QED
  BY <1>1, <1>2 DEF ActiveRunIsNewestTurn

\* What works under the token of an active run has an owned run.
LEMMA UnderOwned ==
    ASSUME LocalInv, NEW r \in Runs, Active(r), UnderToken(r)
    PROVE  runs[r].state \in {"running", "waiting", "finishing"} /\ 1 =< runs[r].token
<1>1. runs[r].session \in Sessions /\ RowOk(runs[r])
  BY RunFacts DEF Active, ActiveStates
<1>2. CASE Shows(r, runs[r].token)
  BY <1>1, <1>2 DEF Shows, ViewOf, LocalInv, LiveOk, ViewOk, Active, ActiveStates, Unowned, RowOk
<1>3. CASE \E p \in Owners : ctl[p][r].pc \in Past /\ Tok(p, r) = runs[r].token
  BY <1>1, <1>3 DEF LocalInv, CtlOk, Past, Beyond, Active, ActiveStates, RowOk
<1>4. CASE \E p \in Owners : rp[p].pc = "rereserve" /\ rp[p].run = r /\ rp[p].new = runs[r].token
  BY <1>1, <1>4 DEF LocalInv, PassOk, Active, ActiveStates, RowOk
<1> QED
  BY <1>1, <1>2, <1>3, <1>4 DEF UnderToken, Active, ActiveStates, RowOk

LEMMA UnderStays ==
    ASSUME LocalInv, LocalInv', LedgerTame, CtlTame, ViewTame, PassTame,
           NEW r \in Runs, Active(r)', UnderToken(r)'
    PROVE  Active(r) /\ UnderToken(r)
<1>1. /\ runs'[r].token = runs[r].token
      /\ runs[r].state # "none" => runs'[r].session = runs[r].session
      /\ \/ Active(r) /\ runs'[r].state = runs[r].state
         \/ Active(r) /\ HolderOf(r)
         \/ runs[r].state = "none" /\ runs'[r].state = "accepted"
  BY DEF LedgerTame
<1>2. runs'[r].session \in Sessions
  BY DEF LocalInv, LedgerInv, RowsNumbered, Active, ActiveStates
<1>3. ASSUME HolderOf(r) PROVE UnderToken(r)
  BY <1>3 DEF HolderOf, UnderToken, Past
<1>4. CASE Shows(r, runs[r].token)'
  <2> DEFINE s == runs'[r].session
  <2>1. view'[s].run = r /\ view'[s].token = runs[r].token
    BY <1>1, <1>4 DEF Shows, ViewOf
  <2>2. runs'[r].state \notin Unowned
    BY <1>2, <2>1 DEF LocalInv, LiveOk, ViewOk
  <2>3. Active(r) /\ runs'[r].session = runs[r].session
    BY <1>1, <2>2 DEF Unowned, Active, ActiveStates
  <2>4. r # None /\ ~ Terminal(r)
    BY <2>3, RestOk DEF Active, Terminal, ActiveStates, TerminalStates
  <2>5. view[s].run = r /\ view[s].token = runs[r].token
    BY <1>2, <2>1, <2>4 DEF ViewTame
  <2> QED
    BY <2>3, <2>5 DEF UnderToken, Shows, ViewOf
<1>5. CASE runs'[r].state = "waiting"
  BY <1>1, <1>3, <1>5 DEF UnderToken
<1>6. CASE \E p \in Owners : ctl'[p][r].pc \in Past /\ Tok(p, r)' = runs'[r].token
  <2>1. PICK p \in Owners : ctl'[p][r].pc \in Past /\ ctl'[p][r].token = runs[r].token
    BY <1>1, <1>6 DEF Tok
  <2>2. runs'[r].state # "accepted"
    BY <2>1 DEF LocalInv, CtlOk, Past, Beyond
  <2>3. ctl[p][r].pc \in Past /\ ctl[p][r].token = runs[r].token
    BY <2>1 DEF CtlTame, Past, Holding
  <2> QED
    BY <1>1, <2>2, <2>3 DEF UnderToken, Tok
<1>7. CASE \E p \in Owners : rp'[p].pc = "rereserve" /\ rp'[p].run = r /\ rp'[p].new = runs'[r].token
  <2>1. PICK p \in Owners : rp'[p].pc = "rereserve" /\ rp'[p].run = r /\ rp'[p].new = runs[r].token
    BY <1>1, <1>7
  <2>2. runs'[r].state # "accepted" /\ rp[p] = rp'[p]
    BY <2>1 DEF LocalInv, PassOk, PassTame
  <2> QED
    BY <1>1, <2>1, <2>2 DEF UnderToken
<1> QED
  BY <1>4, <1>5, <1>6, <1>7 DEF UnderToken

\* Fenced, when nothing new works under a token.
LEMMA FencedStep ==
    ASSUME LocalInv, Fenced, LedgerTame,
           \A r \in Runs : Active(r)' /\ UnderToken(r)' => Active(r) /\ UnderToken(r)
    PROVE  Fenced'
<1> SUFFICES ASSUME NEW r \in Runs, Active(r)', UnderToken(r)'
             PROVE  fence'[runs'[r].session] = runs'[r].token
  BY DEF Fenced
<1>1. fence[runs[r].session] = runs[r].token /\ runs[r].state # "none"
  BY DEF Fenced, Active, ActiveStates
<1> QED
  BY <1>1 DEF LedgerTame

\* The claims and the tokens that are drawn for a claim stay, or are new.
ClaimTame ==
    \A p \in Owners, r \in Runs : ctl'[p][r].pc \in {"drawn", "claimed"} =>
        \/ ctl'[p][r].pc = ctl[p][r].pc /\ ctl'[p][r].token = ctl[p][r].token
        \/ ctl'[p][r].pc = "drawn" /\ seq < ctl'[p][r].token

LEMMA CtlTameClaims == CtlTame => ClaimTame
BY DEF CtlTame, ClaimTame, Holding

LEMMA ClaimsStep ==
    ASSUME LocalInv, LocalInv', ClaimsBehind, ClaimTame, LedgerTame
    PROVE  ClaimsBehind'
<1> SUFFICES ASSUME NEW p \in Owners, NEW q \in Runs, NEW r \in Runs,
                    ctl'[p][q].pc = "claimed", q # r, runs'[q].session = runs'[r].session, Active(r)'
             PROVE  /\ runs'[r].token > 0 => Tok(p, q)' < runs'[r].token
                    /\ \A o \in Owners : ctl'[o][r].pc = "drawn" => Tok(p, q)' < Tok(o, r)'
  BY DEF ClaimsBehind
<1>1. ctl[p][q].pc = "claimed" /\ ctl'[p][q].token = ctl[p][q].token
  BY DEF ClaimTame
<1>2. /\ runs[q].state # "none" /\ ctl[p][q].token \in Nat /\ ctl[p][q].token =< seq /\ seq \in Nat
      /\ Tok(p, q) = ctl[p][q].token
  BY <1>1, CtlFacts DEF CtlOk
<1>3. /\ runs'[q].session = runs[q].session /\ runs'[r].token = runs[r].token
      /\ runs[r].state # "none" => runs'[r].session = runs[r].session
      /\ Active(r) \/ (runs[r].state = "none" /\ runs'[r].state = "accepted")
  BY <1>2 DEF LedgerTame
<1>4. ASSUME NEW o \in Owners, ctl'[o][r].pc = "drawn" PROVE Tok(p, q)' < Tok(o, r)'
  <2>1. CASE ctl[o][r].pc = "drawn" /\ ctl'[o][r].token = ctl[o][r].token
    <3>1. runs[r].state # "none"
      BY <2>1, CtlFacts DEF CtlOk
    <3>2. Active(r) /\ runs[q].session = runs[r].session
      BY <1>3, <3>1
    <3> QED
      BY <1>1, <2>1, <3>2 DEF ClaimsBehind, Tok
  <2>2. CASE seq < ctl'[o][r].token
    <3>1. ctl'[o][r].token \in Nat
      BY DEF LocalInv, Controls
    <3> QED
      BY <1>1, <1>2, <2>2, <3>1 DEF Tok
  <2> QED
    BY <1>4, <2>1, <2>2 DEF ClaimTame
<1>5. ASSUME runs'[r].token > 0 PROVE Tok(p, q)' < runs'[r].token
  <2>1. CASE Active(r)
    <3>1. runs[q].session = runs[r].session
      BY <1>3, <2>1 DEF Active, ActiveStates
    <3> QED
      BY <1>1, <1>3, <1>5, <2>1, <3>1 DEF ClaimsBehind, Tok
  <2>2. CASE runs[r].state = "none"
    <3>1. runs[r].token = 0
      BY <2>2 DEF LocalInv, LedgerInv, RowsNumbered, NoRow
    <3> QED
      BY <1>3, <1>5, <3>1
  <2> QED
    BY <1>3, <2>1, <2>2
<1> QED
  BY <1>4, <1>5

\* The index, when entries stay as long as they are needed.
LEMMA IndexStep ==
    ASSUME LocalInv, LocalInv', LedgerTame, RefTame, IndexTame, RefIndexed
    PROVE  RefIndexed'
<1>1. ASSUME NEW r \in Runs, Active(r)', <<r, runs[r].token>> \in index
      PROVE  <<r, runs'[r].token>> \in index'
  <2>1. runs'[r].token = runs[r].token /\ runs[r].token \in Nat
    BY RunFacts DEF LedgerTame
  <2>2. ~ Terminal(r)
    BY <1>1, RunFacts, RestOk DEF LedgerTame, Active, Terminal, ActiveStates, TerminalStates
  <2>3. PICK e \in index : e = <<r, runs[r].token>>
    BY <1>1
  <2>4. e[1] = r /\ e[2] = runs[r].token
    BY <2>3
  <2> QED
    BY <2>1, <2>2, <2>3, <2>4 DEF IndexTame
<1>2. ASSUME NEW r \in Runs, Active(r)', ref'[r] # 0, ref'[r] = runs'[r].token
      PROVE  <<r, runs'[r].token>> \in index'
  <2>1. ref[r] # 0 /\ ref[r] = runs[r].token
    BY <1>2 DEF RefTame, LedgerTame
  <2>2. runs[r].state # "none"
    BY <2>1 DEF LocalInv, LedgerInv, RowsNumbered, NoRow
  <2>3. Active(r)
    BY <1>2, <2>2 DEF LedgerTame
  <2> QED
    BY <1>1, <1>2, <2>1, <2>3 DEF RefIndexed
<1> QED
  BY <1>2 DEF RefIndexed

LEMMA FenceStep ==
    ASSUME LocalInv, LocalInv', FenceInv,
           LedgerTame, CtlTame, ViewTame, RefTame, IndexTame, PassTame
    PROVE  FenceInv'
<1>1. Fenced'
  BY UnderStays, FencedStep DEF FenceInv
<1>2. ClaimsBehind'
  BY ClaimsStep, CtlTameClaims DEF FenceInv
<1> QED
  BY <1>1, <1>2, IndexStep DEF FenceInv

-----------------------------------------------------------------------------
(* The steps that move no ownership, action by action.                     *)

\* The view shows entry e as an active run.
Shown(e) ==
    \E s \in Sessions : /\ view[s].status \in LiveStatuses
                       /\ view[s].run = e[1] /\ view[s].token = e[2]

IndexStrict ==
    /\ index' \subseteq index
    /\ \A e \in index \ index' : Terminal(e[1]) /\ ~ Shown(e)'

LiveQuiet == ViewTame /\ RefTame /\ IndexStrict

\* Pass p keeps its run and its candidate, or starts to recover a run.
Keeps(p) ==
    rp[p].pc \notin {"idle", "sweep"} /\ rp'[p].run = rp[p].run /\ rp'[p].cand = rp[p].cand

Recovers(p) ==
    /\ OnePass(p) /\ rp'[p].pc = "reclaim" /\ rp'[p].new = seq + 1
    /\ rp'[p].cand = 0 \/ <<rp'[p].run, rp'[p].cand>> \in index

\* The passes: none is about to reserve, to end a run, or to drop an entry of a
\* run that is not over or is shown as active.
PassQuiet ==
    \A p \in Owners :
        \/ rp'[p] = rp[p]
        \/ rp'[p].pc = "idle"
        \/ Recovers(p)
        \/ rp'[p].pc = "reconcile" /\ Keeps(p)
        \/ /\ rp'[p].pc = "release" /\ Keeps(p) /\ runs'[rp'[p].run].state \in TerminalStates
           /\ \A s \in Sessions :
                (view'[s].status \in LiveStatuses /\ view'[s].run = rp'[p].run) => view'[s].token = 0

Quiet == LedgerTame /\ CtlTame /\ LiveQuiet /\ PassQuiet

LEMMA QuietTame ==
    ASSUME Quiet
    PROVE  LedgerTame /\ CtlTame /\ ViewTame /\ RefTame /\ IndexTame /\ PassTame
BY DEF Quiet, LiveQuiet, IndexStrict, IndexTame, PassQuiet, PassTame, Recovers

\* What is not written is quiet.
LEMMA StillQuiet ==
    /\ UNCHANGED ctl => CtlTame
    /\ UNCHANGED live => LiveQuiet
    /\ UNCHANGED rp => PassQuiet
BY DEF CtlTame, LiveQuiet, ViewTame, RefTame, IndexStrict, PassQuiet, live

\* The moves of the ledger that leave ownership where it is.
TameMove ==
    \/ UNCHANGED lvars
    \/ NextFencingToken
    \/ \E r \in Runs : RequestAbort(r)
    \/ \E r \in Runs, s \in Sessions, i \in Invs : Admit(r, s, i)
    \/ \E r \in Runs : \E t, b : PersistAgentStep(r, t, b)
    \/ \E r \in Runs, p \in Owners :
         /\ ctl[p][r].pc \in Holding
         /\ \/ SetWaitingDecision(r, Tok(p, r))
            \/ Resume(r, Tok(p, r))
            \/ \E st : PrepareFinish(r, Tok(p, r), st)
    \/ \E r \in Runs, st \in TerminalStates : \E t, e : Finalize(r, t, st, e)

LEMMA TameMoves == ASSUME LocalInv, TameMove PROVE LedgerTame
<1>1. runs \in [Runs -> Rows] /\ \A r \in Runs : runs[r] \in Rows
  BY DEF LocalInv, LedgerInv, TypeOK
<1>2. CASE UNCHANGED lvars \/ NextFencingToken \/ \E r \in Runs : \E t, b : PersistAgentStep(r, t, b)
  <2>1. runs' = runs /\ fence' = fence
    BY <1>2 DEF lvars, NextFencingToken, PersistAgentStep
  <2> QED
    BY <2>1 DEF LedgerTame, Active
<1>3. CASE \E r \in Runs : RequestAbort(r)
  BY <1>1, <1>3 DEF LedgerTame, Active, RequestAbort, Rows
<1>4. CASE \E r \in Runs, s \in Sessions, i \in Invs : Admit(r, s, i)
  <2>1. PICK r \in Runs, s \in Sessions, i \in Invs : Admit(r, s, i)
    BY <1>4
  <2>2. runs[r] = NoRow /\ runs[r].state = "none"
    BY <2>1 DEF Admit, LocalInv, LedgerInv, RowsNumbered
  <2>3. runs'[r].state = "accepted" /\ runs'[r].token = runs[r].token /\ runs'[r].owner = runs[r].owner
    BY <1>1, <2>1, <2>2 DEF Admit, NoRow
  <2>4. fence' = fence /\ \A q \in Runs \ {r} : runs'[q] = runs[q]
    BY <1>1, <2>1 DEF Admit
  <2> QED
    BY <2>2, <2>3, <2>4 DEF LedgerTame, Active
<1>5. ASSUME NEW r \in Runs, NEW p \in Owners, ctl[p][r].pc \in Holding,
             \/ SetWaitingDecision(r, Tok(p, r))
             \/ Resume(r, Tok(p, r))
             \/ \E st : PrepareFinish(r, Tok(p, r), st)
      PROVE  LedgerTame
  <2>1. Tok(p, r) = runs[r].token /\ runs[r].state \in ActiveStates /\ fence' = fence
    BY <1>5 DEF SetWaitingDecision, Resume, PrepareFinish, CanPrepare, Owned, ActiveStates
  <2>2. Active(r) /\ HolderOf(r)
    BY <1>5, <2>1 DEF HolderOf, Active
  <2>3. /\ runs'[r].token = runs[r].token /\ runs'[r].owner = runs[r].owner
        /\ runs'[r].session = runs[r].session
        /\ \A q \in Runs \ {r} : runs'[q] = runs[q]
    <3>1. CASE \E st : PrepareFinish(r, Tok(p, r), st)
      <4>1. PICK pr : runs' = [runs EXCEPT ![r] = [@ EXCEPT !.state = "finishing", !.proposed = pr]]
        BY <3>1 DEF PrepareFinish
      <4> QED
        BY <1>1, <4>1 DEF Rows
    <3>2. CASE SetWaitingDecision(r, Tok(p, r)) \/ Resume(r, Tok(p, r))
      <4>1. PICK st : runs' = [runs EXCEPT ![r].state = st]
        BY <3>2 DEF SetWaitingDecision, Resume
      <4> QED
        BY <1>1, <4>1 DEF Rows
    <3> QED
      BY <1>5, <3>1, <3>2
  <2> QED
    BY <2>1, <2>2, <2>3 DEF LedgerTame, Active
<1>6. ASSUME NEW r \in Runs, NEW t, NEW st \in TerminalStates, NEW e, Finalize(r, t, st, e)
      PROVE  LedgerTame
  <2>1. Verdict(runs[r], st) \in TerminalStates /\ fence' = fence
    BY <1>6, VerdictIsTerminal DEF Finalize, LocalInv, LedgerInv
  <2>2. /\ runs'[r].token = runs[r].token /\ runs'[r].owner = runs[r].owner
        /\ runs'[r].session = runs[r].session /\ runs'[r].state \in TerminalStates
        /\ \A q \in Runs \ {r} : runs'[q] = runs[q]
    BY <1>1, <1>6, <2>1 DEF Finalize, Rows
  <2>3. ~ Active(r)'
    BY <2>2 DEF Active, ActiveStates, TerminalStates
  <2> QED
    BY <2>1, <2>2, <2>3 DEF LedgerTame, Active
<1> QED
  BY <1>2, <1>3, <1>4, <1>5, <1>6 DEF TameMove

\* The ways in which a control moves on without a new ownership.
LEMMA CtlQuiet ==
    ASSUME LocalInv, NEW p \in Owners, NEW r \in Runs, NEW c, ctl' = [ctl EXCEPT ![p][r] = c],
           \/ c.pc \in {"idle", "admitted"}
           \/ c.pc = "drawn" /\ seq < c.token /\ Draw(p, r)
           \/ /\ c.token = ctl[p][r].token
              /\ \/ ctl[p][r].pc \in Beyond /\ c.pc \in {"abandoning", "shut"}
                 \/ ctl[p][r].pc \in Holding /\ c.pc \in Holding
    PROVE  CtlTame
<1>1. ctl \in [Owners -> [Runs -> Controls]]
  BY DEF LocalInv
<1> QED
  BY <1>1 DEF CtlTame

LEMMA GotoQuiet ==
    ASSUME LocalInv, NEW p \in Owners, NEW r \in Runs, NEW x, Goto(p, r, x),
           \/ x = "admitted"
           \/ ctl[p][r].pc \in Beyond /\ x \in {"abandoning", "shut"}
           \/ ctl[p][r].pc \in Holding /\ x \in Holding
    PROVE  CtlTame
<1> DEFINE c == [ctl[p][r] EXCEPT !.pc = x]
<1>1. ctl[p][r] \in Controls
  BY CtlFacts
<1>2. c.pc = x /\ c.token = ctl[p][r].token
  BY <1>1 DEF Controls
<1>3. ctl' = [ctl EXCEPT ![p][r] = c]
  BY DEF Goto
<1> HIDE DEF c
<1> QED
  BY <1>2, <1>3, CtlQuiet

LEMMA ForgetQuiet ==
    ASSUME LocalInv, NEW p \in Owners, NEW r \in Runs, Forget(p, r)
    PROVE  CtlTame
BY CtlQuiet, RestOk DEF Forget

\* The holder goes on to x with outcome o.
GoesOn(p, r, x, o) == ctl' = [ctl EXCEPT ![p][r].pc = x, ![p][r].out = o]

LEMMA OutQuiet ==
    ASSUME LocalInv, NEW p \in Owners, NEW r \in Runs, ctl[p][r].pc \in Holding,
           NEW x \in Holding, NEW o, GoesOn(p, r, x, o)
    PROVE  CtlTame
<1> DEFINE c == [ctl[p][r] EXCEPT !.pc = x, !.out = o]
<1>1. ctl[p][r] \in Controls /\ ctl \in [Owners -> [Runs -> Controls]]
  BY CtlFacts DEF LocalInv
<1>2. c.pc = x /\ c.token = ctl[p][r].token
  BY <1>1 DEF Controls
<1>3. ctl' = [ctl EXCEPT ![p][r] = c]
  BY <1>1 DEF GoesOn
<1> HIDE DEF c
<1> QED
  BY <1>2, <1>3, CtlQuiet

LEMMA ShowQuiet ==
    ASSUME LocalInv, NEW r \in Runs, runs[r].state # "none", NEW t, Held(r, t), NEW st, Show(r, st),
           UNCHANGED <<ref, index>>
    PROVE  LiveQuiet
<1> DEFINE s == runs[r].session
           v == [view[s] EXCEPT !.status = st]
<1>1. /\ s \in Sessions /\ view \in [Sessions -> Views] /\ view[s] \in Views
      /\ view[s].status \in LiveStatuses
  BY RunFacts DEF LocalInv, LiveOk, Held, ViewOf
<1>2. v.run = view[s].run /\ v.token = view[s].token
  BY <1>1 DEF Views
<1>3. view' = [view EXCEPT ![s] = v]
  BY DEF Show
<1> HIDE DEF v, s
<1>4. ViewTame
  BY <1>1, <1>2, <1>3 DEF ViewTame
<1> QED
  BY <1>4 DEF LiveQuiet, RefTame, IndexStrict

LEMMA ReconcileQuiet ==
    ASSUME LocalInv, NEW r \in Runs, Terminal(r), ReconcileLive(r)
    PROVE  LiveQuiet
<1>1. CASE ~ CanReconcile(r)
  BY <1>1, StillQuiet DEF ReconcileLive
<1>2. CASE CanReconcile(r)
  <2> DEFINE v == [run |-> r, token |-> runs[r].token, status |-> runs[r].state]
  <2>1. /\ v.run = r /\ v.status = runs[r].state
        /\ view' = [view EXCEPT ![runs[r].session] = v]
    BY <1>2 DEF ReconcileLive
  <2> HIDE DEF v
  <2>2. view \in [Sessions -> Views] /\ ref \in [Runs -> Nat]
    BY DEF LocalInv, LiveOk
  <2>3. v.status \notin LiveStatuses
    BY <2>1 DEF Terminal, TerminalStates, LiveStatuses
  <2>4. ViewTame
    BY <2>1, <2>2, <2>3 DEF ViewTame
  <2>5. RefTame /\ \A e \in index \ index' : e[1] = r
    BY <1>2, <2>2 DEF ReconcileLive, RefTame
  <2>6. \A s \in Sessions : view'[s].run = r => view'[s].status \notin LiveStatuses
    <3>1. \A s \in Sessions : view[s].run = r => s = runs[r].session
      BY DEF LocalInv, LiveOk, ViewOk
    <3> QED
      BY <2>1, <2>2, <2>3, <3>1
  <2>7. IndexStrict
    BY <1>2, <2>5, <2>6 DEF ReconcileLive, IndexStrict, Shown
  <2> QED
    BY <2>4, <2>5, <2>7 DEF LiveQuiet
<1> QED
  BY <1>1, <1>2

LEMMA RestQuiet ==
    ASSUME LocalInv, NEW p \in Owners, Rest(p)
    PROVE  PassQuiet
BY RestPass DEF PassQuiet, OnePass

\* The steps of an owner outside of claim, fence and reservation.
LEMMA AdmissionQuiet ==
    ASSUME LocalInv, NEW p \in Owners, NEW r \in Runs,
           (\E s \in Sessions, i \in Invs : Submit(p, r, s, i)) \/ Resubmit(p, r)
    PROVE  Quiet
<1>1. TameMove /\ Goto(p, r, "admitted") /\ UNCHANGED <<live, rp>>
  BY DEF Submit, Resubmit, TameMove
<1> QED
  BY <1>1, TameMoves, GotoQuiet, StillQuiet DEF Quiet

LEMMA DrawQuiet ==
    ASSUME LocalInv, NEW p \in Owners, NEW r \in Runs, Draw(p, r)
    PROVE  Quiet
<1> DEFINE c == [ctl[p][r] EXCEPT !.pc = "drawn", !.token = seq + 1, !.gen = livegen]
<1>1. TameMove /\ UNCHANGED <<live, rp>>
  BY DEF Draw, TameMove
<1>2. ctl[p][r] \in Controls /\ seq \in Nat
  BY CtlFacts
<1>3. c.pc = "drawn" /\ seq < c.token
  BY <1>2 DEF Controls
<1>4. ctl' = [ctl EXCEPT ![p][r] = c]
  BY DEF Draw
<1> HIDE DEF c
<1> QED
  BY <1>1, <1>3, <1>4, TameMoves, CtlQuiet, StillQuiet DEF Quiet

LEMMA RefusedQuiet ==
    ASSUME LocalInv, NEW p \in Owners, NEW r \in Runs,
           \/ ClaimRun(p, r) /\ ~ CanClaim(r, Tok(p, r))
           \/ ActivateFence(p, r) /\ ~ CanActivate(runs[r].session, Tok(p, r))
           \/ ActivateFails(p, r)
           \/ (Reserve(p, r) \/ ReserveFails(p, r)) /\ Goto(p, r, "abandoning") /\ UNCHANGED live
    PROVE  Quiet
<1>1. /\ UNCHANGED <<lvars, live, rp>> /\ TameMove
      /\ \/ Forget(p, r)
         \/ ctl[p][r].pc \in Beyond /\ Goto(p, r, "abandoning")
  BY DEF ClaimRun, ActivateFence, ActivateFails, Reserve, ReserveFails, At, Beyond, TameMove
<1> QED
  BY <1>1, TameMoves, ForgetQuiet, GotoQuiet, StillQuiet DEF Quiet

LEMMA BeginQuiet ==
    ASSUME LocalInv, NEW p \in Owners, NEW r \in Runs, Begin(p, r)
    PROVE  Quiet
<1>1. /\ ctl[p][r].pc \in Holding /\ ctl[p][r].pc \in Beyond /\ runs[r].state # "none"
      /\ UNCHANGED <<lvars, livegen, ref, index, rp>> /\ TameMove
  BY CtlFacts DEF Begin, At, Holding, Beyond, TameMove, CtlOk
<1>2. CtlTame
  <2>1. \/ Goto(p, r, "running") \/ Goto(p, r, "abandoning")
        \/ GoesOn(p, r, "ending", "failed")
    BY DEF Begin, GoesOn
  <2>2. "running" \in Holding /\ "ending" \in Holding
    BY DEF Holding
  <2> QED
    BY <1>1, <2>1, <2>2, GotoQuiet, OutQuiet
<1>3. LiveQuiet
  <2>1. UNCHANGED view \/ (Held(r, Tok(p, r)) /\ Show(r, "running"))
    BY DEF Begin
  <2> QED
    BY <1>1, <2>1, ShowQuiet, StillQuiet DEF live
<1> QED
  BY <1>1, <1>2, <1>3, TameMoves, StillQuiet DEF Quiet

LEMMA AbandonClaimQuiet ==
    ASSUME LocalInv, NEW p \in Owners, NEW r \in Runs, AbandonClaim(p, r)
    PROVE  Quiet
<1>1. TameMove /\ Forget(p, r) /\ UNCHANGED <<live, rp>>
  BY DEF AbandonClaim, TameMove, TerminalStates
<1> QED
  BY <1>1, TameMoves, ForgetQuiet, StillQuiet DEF Quiet

LEMMA CommitStepQuiet ==
    ASSUME LocalInv, NEW p \in Owners, NEW r \in Runs, CommitStep(p, r)
    PROVE  Quiet
<1>1. TameMove /\ UNCHANGED <<live, ctl, rp>>
  BY DEF CommitStep, TameMove
<1> QED
  BY <1>1, TameMoves, StillQuiet DEF Quiet

LEMMA ParkQuiet ==
    ASSUME LocalInv, NEW p \in Owners, NEW r \in Runs, Park(p, r)
    PROVE  Quiet
<1>1. /\ ctl[p][r].pc \in Holding /\ "parking" \in Holding /\ Goto(p, r, "parking")
      /\ UNCHANGED <<live, rp>>
  BY DEF Park, At, Holding
<1>2. TameMove
  BY <1>1 DEF Park, TameMove
<1> QED
  BY <1>1, <1>2, TameMoves, GotoQuiet, StillQuiet DEF Quiet

LEMMA ShowWaitingQuiet ==
    ASSUME LocalInv, NEW p \in Owners, NEW r \in Runs, ShowWaiting(p, r) \/ ShowResumed(p, r)
    PROVE  Quiet
<1>1. /\ ctl[p][r].pc \in Holding /\ "running" \in Holding /\ Goto(p, r, "running")
      /\ UNCHANGED <<lvars, livegen, ref, index, rp>> /\ TameMove /\ runs[r].state # "none"
  BY CtlFacts DEF ShowWaiting, ShowResumed, At, Holding, TameMove, CtlOk
<1>2. LiveQuiet
  <2>1. UNCHANGED view \/ (Held(r, Tok(p, r)) /\ \E st : Show(r, st))
    BY DEF ShowWaiting, ShowResumed
  <2> QED
    BY <1>1, <2>1, ShowQuiet, StillQuiet DEF live
<1> QED
  BY <1>1, <1>2, TameMoves, GotoQuiet, StillQuiet DEF Quiet

LEMMA AnswerQuiet ==
    ASSUME LocalInv, NEW p \in Owners, NEW r \in Runs, Answer(p, r)
    PROVE  Quiet
<1>1. /\ ctl[p][r].pc \in Holding /\ "resuming" \in Holding /\ "ending" \in Holding
      /\ Goto(p, r, "resuming") \/ GoesOn(p, r, "ending", "failed")
      /\ UNCHANGED <<live, rp>>
  BY DEF Answer, At, Holding, GoesOn
<1>2. TameMove
  BY <1>1 DEF Answer, TameMove
<1>3. CtlTame
  BY <1>1, GotoQuiet, OutQuiet
<1> QED
  BY <1>1, <1>2, <1>3, TameMoves, StillQuiet DEF Quiet

LEMMA AbortReadQuiet ==
    ASSUME LocalInv, NEW p \in Owners, NEW r \in Runs, AbortRead(p, r)
    PROVE  Quiet
<1> DEFINE x == IF Shows(r, Tok(p, r)) /\ ViewOf(r).status = "waiting" THEN "waiting" ELSE "other"
           c == [ctl[p][r] EXCEPT !.seen = x]
<1>1. ctl[p][r].pc \in Holding /\ ctl[p][r] \in Controls /\ TameMove /\ UNCHANGED <<live, rp>>
  BY CtlFacts DEF AbortRead, At, Holding, TameMove
<1>2. ctl' = [ctl EXCEPT ![p][r] = c]
  BY DEF AbortRead
<1> HIDE DEF x
<1>3. c.pc = ctl[p][r].pc /\ c.token = ctl[p][r].token
  BY <1>1 DEF Controls
<1> HIDE DEF c
<1> QED
  BY <1>1, <1>2, <1>3, TameMoves, CtlQuiet, StillQuiet DEF Quiet

LEMMA AbortLiveQuiet ==
    ASSUME LocalInv, NEW p \in Owners, NEW r \in Runs, AbortLive(p, r)
    PROVE  Quiet
<1> DEFINE stopped == ~ctl[p][r].lost /\ Held(r, Tok(p, r))
                         /\ ViewOf(r).status \in Abortable \ {"aborting"}
           c == StoppedCtl(ctl[p][r], stopped)
<1>1. /\ ctl[p][r].pc \in Holding /\ ctl[p][r] \in Controls /\ runs[r].state # "none"
      /\ ctl \in [Owners -> [Runs -> Controls]]
      /\ UNCHANGED <<lvars, livegen, ref, index, rp>> /\ TameMove
  BY CtlFacts DEF AbortLive, At, Holding, TameMove, CtlOk, LocalInv
<1>2. ctl' = [ctl EXCEPT ![p][r] = c]
  BY <1>1 DEF AbortLive, StoppedCtl
<1>3. LiveQuiet
  <2>1. UNCHANGED view \/ (Held(r, Tok(p, r)) /\ Show(r, "aborting"))
    BY DEF AbortLive
  <2> QED
    BY <1>1, <2>1, ShowQuiet, StillQuiet DEF live
<1>4. c.pc \in Holding /\ c.token = ctl[p][r].token
  <2> HIDE DEF stopped
  <2> QED
    BY <1>1 DEF StoppedCtl, Controls, Holding
<1> HIDE DEF c
<1> QED
  BY <1>1, <1>2, <1>3, <1>4, TameMoves, CtlQuiet, StillQuiet DEF Quiet

LEMMA UnwindQuiet ==
    ASSUME LocalInv, NEW p \in Owners, NEW r \in Runs, Unwind(p, r)
    PROVE  Quiet
<1>1. /\ TameMove /\ ctl[p][r].pc \in Holding /\ "ending" \in Holding /\ Goto(p, r, "ending")
      /\ UNCHANGED <<live, rp>>
  BY DEF Unwind, At, Holding, TameMove, TerminalStates
<1> QED
  BY <1>1, TameMoves, GotoQuiet, StillQuiet DEF Quiet

LEMMA EndExecutionQuiet ==
    ASSUME LocalInv, NEW p \in Owners, NEW r \in Runs, EndExecution(p, r)
    PROVE  Quiet
<1>1. /\ TameMove /\ ctl[p][r].pc \in Holding /\ "ending" \in Holding /\ "parked" \in Holding
      /\ UNCHANGED <<live, rp>>
      /\ Goto(p, r, "parked") \/ Forget(p, r) \/ \E o : GoesOn(p, r, "ending", o)
  BY DEF EndExecution, At, Holding, TameMove, GoesOn
<1>2. CtlTame
  BY <1>1, GotoQuiet, ForgetQuiet, OutQuiet
<1> QED
  BY <1>1, <1>2, TameMoves, StillQuiet DEF Quiet

LEMMA PrepareQuiet ==
    ASSUME LocalInv, NEW p \in Owners, NEW r \in Runs, Prepare(p, r)
    PROVE  Quiet
<1>1. /\ ctl[p][r].pc \in Holding /\ "prepared" \in Holding /\ UNCHANGED rp
      /\ (\E o : GoesOn(p, r, "prepared", o)) \/ Forget(p, r)
      /\ UNCHANGED live \/ (Terminal(r) /\ ReconcileLive(r))
  BY DEF Prepare, At, Holding, GoesOn
<1>2. TameMove
  BY <1>1 DEF Prepare, TameMove
<1>3. CtlTame
  BY <1>1, ForgetQuiet, OutQuiet
<1>4. LiveQuiet
  BY <1>1, ReconcileQuiet, StillQuiet
<1> QED
  BY <1>1, <1>2, <1>3, <1>4, TameMoves, StillQuiet DEF Quiet

LEMMA ShowFinishingQuiet ==
    ASSUME LocalInv, NEW p \in Owners, NEW r \in Runs, ShowFinishing(p, r)
    PROVE  Quiet
<1>1. /\ TameMove /\ UNCHANGED <<ref, index, ctl, rp>> /\ runs[r].state # "none"
      /\ Held(r, Tok(p, r)) /\ Show(r, "finishing")
  BY CtlFacts DEF ShowFinishing, At, TameMove, CtlOk
<1> QED
  BY <1>1, TameMoves, ShowQuiet, StillQuiet DEF Quiet

LEMMA FinalizeRunQuiet ==
    ASSUME LocalInv, NEW p \in Owners, NEW r \in Runs, FinalizeRun(p, r)
    PROVE  Quiet
<1>1. /\ ctl[p][r].pc \in Holding /\ "finalized" \in Holding /\ UNCHANGED <<live, rp>>
      /\ \E o : GoesOn(p, r, "finalized", o) /\ ctl[p][r].out \in TerminalStates
  BY CtlFacts DEF FinalizeRun, At, Holding, GoesOn, CtlOk
<1>2. TameMove
  BY <1>1 DEF FinalizeRun, TameMove
<1> QED
  BY <1>1, <1>2, OutQuiet, TameMoves, StillQuiet DEF Quiet

LEMMA ReleaseQuiet ==
    ASSUME LocalInv, NEW p \in Owners, NEW r \in Runs, Release(p, r)
    PROVE  Quiet
<1>1. /\ TameMove /\ Forget(p, r) /\ UNCHANGED rp /\ Terminal(r) /\ runs[r].session \in Sessions
      /\ ctl[p][r].out \in TerminalStates
  BY CtlFacts DEF Release, At, TameMove, CtlOk, Terminal
<1>2. LiveQuiet
  <2>1. CASE ~ Held(r, Tok(p, r))
    BY <2>1, StillQuiet DEF Release
  <2>2. CASE Held(r, Tok(p, r))
    <3> DEFINE s == runs[r].session
               v == [view[s] EXCEPT !.status = ctl[p][r].out]
    <3>1. view \in [Sessions -> Views] /\ view[s] \in Views /\ view[s].run = r /\ ref \in [Runs -> Nat]
      BY <1>1, <2>2 DEF LocalInv, LiveOk, Held, Shows, ViewOf
    <3>2. v.run = r /\ v.status \notin LiveStatuses
      BY <1>1, <3>1 DEF Views, LiveStatuses, TerminalStates
    <3>3. view' = [view EXCEPT ![s] = v]
      BY <2>2 DEF Release, Show
    <3>4. \A o \in Sessions : view[o].run = r => o = s
      BY DEF LocalInv, LiveOk, ViewOk
    <3> HIDE DEF v, s
    <3>5. ViewTame
      BY <1>1, <3>1, <3>2, <3>3 DEF ViewTame
    <3>6. RefTame /\ index' \subseteq index /\ \A e \in index \ index' : e[1] = r
      BY <2>2, <3>1 DEF Release, RefTame
    <3>7. \A o \in Sessions : view'[o].run = r => view'[o].status \notin LiveStatuses
      BY <3>1, <3>2, <3>3, <3>4
    <3>8. IndexStrict
      BY <1>1, <3>6, <3>7 DEF IndexStrict, Shown
    <3> QED
      BY <3>5, <3>6, <3>8 DEF LiveQuiet
  <2> QED
    BY <2>1, <2>2
<1> QED
  BY <1>1, <1>2, TameMoves, ForgetQuiet, StillQuiet DEF Quiet

LEMMA GiveUpQuiet ==
    ASSUME LocalInv, NEW p \in Owners, NEW r \in Runs, GiveUp(p, r)
    PROVE  Quiet
<1>1. TameMove /\ Forget(p, r) /\ UNCHANGED <<live, rp>>
  BY DEF GiveUp, TameMove
<1> QED
  BY <1>1, TameMoves, ForgetQuiet, StillQuiet DEF Quiet

\* The steps of users, of leases and of processes.
LEMMA UserQuiet ==
    ASSUME LocalInv, NEW r \in Runs, LeaseExpire(r) \/ AbortIntent(r)
    PROVE  Quiet
<1>1. TameMove /\ UNCHANGED <<ctl, rp>>
  BY DEF LeaseExpire, AbortIntent, TameMove
<1>2. LiveQuiet
  <2>1. CASE UNCHANGED live
    BY <2>1, StillQuiet
  <2>2. CASE LeaseExpire(r)
    BY <2>2 DEF LeaseExpire, LiveQuiet, ViewTame, RefTame, IndexStrict, LocalInv, LiveOk
  <2> QED
    BY <2>1, <2>2 DEF AbortIntent
<1> QED
  BY <1>1, <1>2, TameMoves, StillQuiet DEF Quiet

LEMMA ProcessQuiet ==
    ASSUME LocalInv, NEW p \in Owners, Close(p) \/ Down(p)
    PROVE  Quiet
<1>1. TameMove /\ UNCHANGED live /\ (UNCHANGED rp \/ Rest(p))
  BY DEF Close, Down, TameMove, Rest
<1>2. CtlTame
  <2>1. CASE Down(p)
    <3>1. ctl \in [Owners -> [Runs -> Controls]] /\ DOMAIN ctl[p] = Runs
      BY DEF LocalInv
    <3>2. ctl' = [ctl EXCEPT ![p] = [q \in Runs |-> Idle]]
      BY <2>1, <3>1 DEF Down
    <3> QED
      BY <3>1, <3>2, RestOk DEF CtlTame
  <2>2. CASE Close(p)
    BY <2>2, StillQuiet DEF Close
  <2> QED
    BY <2>1, <2>2
<1> QED
  BY <1>1, <1>2, TameMoves, RestQuiet, StillQuiet DEF Quiet

LEMMA LoseOwnershipQuiet ==
    ASSUME LocalInv, NEW p \in Owners, NEW r \in Runs, LoseOwnership(p, r)
    PROVE  Quiet
<1> DEFINE c == [ctl[p][r] EXCEPT !.lost = TRUE]
<1>1. ctl[p][r].pc \in Holding /\ ctl[p][r] \in Controls /\ TameMove /\ UNCHANGED <<live, rp>>
  BY CtlFacts DEF LoseOwnership, At, TameMove
<1>2. c.pc = ctl[p][r].pc /\ c.token = ctl[p][r].token
  BY <1>1 DEF Controls
<1>3. ctl' = [ctl EXCEPT ![p][r] = c]
  BY DEF LoseOwnership
<1> HIDE DEF c
<1> QED
  BY <1>1, <1>2, <1>3, TameMoves, CtlQuiet, StillQuiet DEF Quiet

LEMMA ShutdownQuiet ==
    ASSUME LocalInv, NEW p \in Owners, NEW r \in Runs,
           ReleaseOnShutdown(p, r) \/ ReconcileOnShutdown(p, r)
    PROVE  Quiet
<1>1. TameMove /\ UNCHANGED rp
  BY DEF ReleaseOnShutdown, ReconcileOnShutdown, TameMove, TerminalStates
<1>2. Forget(p, r) \/ (ctl[p][r].pc \in Beyond /\ Goto(p, r, "shut"))
  BY DEF ReleaseOnShutdown, ReconcileOnShutdown, At, Beyond
<1>3. UNCHANGED live \/ (Terminal(r) /\ ReconcileLive(r))
  BY DEF ReleaseOnShutdown, ReconcileOnShutdown
<1>4. CtlTame
  BY <1>2, ForgetQuiet, GotoQuiet
<1>5. LiveQuiet
  BY <1>3, ReconcileQuiet, StillQuiet
<1> QED
  BY <1>1, <1>4, <1>5, TameMoves, StillQuiet DEF Quiet

\* The steps of a pass that neither reclaims nor reserves nor drops an entry.
LEMMA HandOffQuiet ==
    ASSUME LocalInv, NEW p \in Owners, NEW r \in Runs, HandOff(p, r)
    PROVE  Quiet
<1>1. TameMove /\ UNCHANGED <<live, ctl>>
  BY DEF HandOff, TameMove
<1>2. PassQuiet
  BY HandOffPass DEF PassQuiet, OnePass, Recovers
<1> QED
  BY <1>1, <1>2, TameMoves, StillQuiet DEF Quiet

LEMMA StartRecoveryQuiet ==
    ASSUME LocalInv, NEW p \in Owners, NEW r \in Runs, NEW k \in {"lease", "sweep"},
           NEW cand \in Nat, StartRecovery(p, r, k, cand), UNCHANGED live,
           cand = 0 \/ <<r, cand>> \in index
    PROVE  Quiet
<1>1. TameMove /\ Forget(p, r)
  BY DEF StartRecovery, TameMove
<1>2. PassQuiet
  BY RecoveryPass DEF PassQuiet, OnePass, Recovers
<1> QED
  BY <1>1, <1>2, TameMoves, ForgetQuiet, StillQuiet DEF Quiet

LEMMA RestedQuiet ==
    ASSUME LocalInv, NEW p \in Owners,
           \/ SweepDone(p) \/ PassFails(p)
           \/ RereserveFails(p) /\ Rest(p)
           \/ Reclaim(p) /\ ~ CanReclaim(rp[p].run, rp[p].token, rp[p].new)
    PROVE  Quiet
<1>1. TameMove /\ Rest(p) /\ UNCHANGED live /\ (UNCHANGED ctl \/ Forget(p, rp[p].run))
  BY DEF SweepDone, PassFails, RereserveFails, Reclaim, TameMove
<1>2. CtlTame
  <2>1. CASE UNCHANGED ctl
    BY <2>1, StillQuiet
  <2>2. CASE ~ UNCHANGED ctl
    <3>1. rp[p].run \in Runs
      BY <2>2, PassFacts DEF SweepDone, PassFails, RereserveFails, Reclaim, Working
    <3> QED
      BY <1>1, <2>2, <3>1, ForgetQuiet
  <2> QED
    BY <2>1, <2>2
<1> QED
  BY <1>1, <1>2, TameMoves, RestQuiet, StillQuiet DEF Quiet

LEMMA MarkQuiet ==
    ASSUME LocalInv, NEW p \in Owners, Mark(p)
    PROVE  Quiet
<1>1. rp[p].pc = "mark" /\ rp[p].run \in Runs /\ UNCHANGED <<live, ctl>> /\ (Step(p, "reconcile") \/ Rest(p))
  BY PassFacts DEF Mark, Working
<1>2. TameMove
  BY <1>1 DEF Mark, TameMove, TerminalStates
<1>3. PassQuiet
  BY <1>1, StepPass, RestQuiet DEF PassQuiet, OnePass, Keeps
<1> QED
  BY <1>1, <1>2, <1>3, TameMoves, StillQuiet DEF Quiet

\* Once a pass has brought an ended run to the view, nothing shows it as active.
LEMMA ReconciledUnshown ==
    ASSUME LocalInv, NEW p \in Owners, Reconcile(p), NEW s \in Sessions,
           view'[s].status \in LiveStatuses, view'[s].run = rp[p].run
    PROVE  view'[s].token = 0
<1> DEFINE r == rp[p].run
<1>1. r \in Runs /\ runs[r] \in Rows /\ runs[r].session \in Sessions /\ Terminal(r)
  BY PassFacts, RunFacts DEF Reconcile, Working, PassOk, Terminal
<1>2. view \in [Sessions -> Views] /\ view[s] \in Views /\ runs[r].token \in Nat
  BY <1>1 DEF LocalInv, LiveOk, Rows
<1>3. view[s].run = r => s = runs[r].session /\ view[s].token =< runs[r].token
  BY <1>1 DEF LocalInv, LiveOk, ViewOk
<1>4. CASE runs[r].token > 0 /\ CanReconcile(r)
  <2> DEFINE v == [run |-> r, token |-> runs[r].token, status |-> runs[r].state]
  <2>1. v.status = runs[r].state /\ view' = [view EXCEPT ![runs[r].session] = v]
    BY <1>4 DEF Reconcile, ReconcileLive
  <2>2. v.status \notin LiveStatuses
    BY <1>1, <2>1 DEF Terminal, TerminalStates, LiveStatuses
  <2> HIDE DEF v
  <2> QED
    BY <1>1, <1>2, <1>3, <2>1, <2>2
<1>5. CASE ~ (runs[r].token > 0 /\ CanReconcile(r))
  <2>1. view' = view /\ view[s].run = r
    BY <1>5 DEF Reconcile, ReconcileLive, live
  <2>2. s = runs[r].session /\ view[s].token =< runs[r].token /\ view[s].token \in Nat
    BY <1>2, <1>3, <2>1 DEF Views
  <2>3. CanReconcile(r)
    BY <2>1, <2>2 DEF CanReconcile, Shows, ViewOf
  <2> QED
    BY <1>2, <1>5, <2>1, <2>2, <2>3
<1> QED
  BY <1>4, <1>5

LEMMA ReconcilePassQuiet ==
    ASSUME LocalInv, NEW p \in Owners, Reconcile(p)
    PROVE  Quiet
<1> DEFINE r == rp[p].run
<1>1. /\ rp[p].pc = "reconcile" /\ r \in Runs /\ Terminal(r) /\ TameMove /\ runs' = runs
      /\ UNCHANGED live \/ ReconcileLive(r)
      /\ UNCHANGED ctl \/ Forget(p, r)
      /\ Step(p, "release") \/ Rest(p)
  BY PassFacts DEF Reconcile, Working, PassOk, Terminal, TameMove, lvars
<1>2. PassQuiet
  <2>1. CASE Step(p, "release")
    <3>1. /\ OnePass(p) /\ rp'[p].pc = "release" /\ rp'[p].run = r /\ rp'[p].cand = rp[p].cand
      BY <2>1, StepPass
    <3>2. \A s \in Sessions :
            (view'[s].status \in LiveStatuses /\ view'[s].run = r) => view'[s].token = 0
      BY ReconciledUnshown
    <3> QED
      BY <1>1, <3>1, <3>2 DEF PassQuiet, OnePass, Terminal, Keeps
  <2> QED
    BY <1>1, <2>1, RestQuiet
<1>3. CtlTame
  BY <1>1, ForgetQuiet, StillQuiet
<1>4. LiveQuiet
  BY <1>1, ReconcileQuiet, StillQuiet
<1> QED
  BY <1>1, <1>2, <1>3, <1>4, TameMoves DEF Quiet

-----------------------------------------------------------------------------
(* FenceInv: the steps that move ownership.                                *)

OneCtl(p, r) ==
    \A o \in Owners, q \in Runs : (o # p \/ q # r) => ctl'[o][q] = ctl[o][q]

LEMMA GotoCtl ==
    ASSUME LocalInv, NEW p \in Owners, NEW r \in Runs, NEW x, Goto(p, r, x)
    PROVE  OneCtl(p, r) /\ ctl'[p][r].pc = x /\ ctl'[p][r].token = ctl[p][r].token
<1>1. ctl \in [Owners -> [Runs -> Controls]] /\ ctl[p][r] \in Controls
  BY DEF LocalInv
<1> QED
  BY <1>1 DEF Goto, OneCtl, Controls

\* Nothing works on a run that nobody has claimed.
LEMMA AcceptedUnused ==
    ASSUME LocalInv, NEW r \in Runs, runs[r].state = "accepted"
    PROVE  /\ \A s \in Sessions : view[s].run # r
           /\ \A o \in Owners : ctl[o][r].pc \notin Beyond
           /\ \A o \in Owners : rp[o].pc \in {"reclaim", "rereserve"} => rp[o].run # r
           /\ \A e \in index : e[1] # r
<1>1. \A s \in Sessions : view[s].run # r
  BY DEF LocalInv, LiveOk, ViewOk, Unowned
<1>2. \A o \in Owners : ctl[o][r].pc \notin Beyond
  BY DEF LocalInv, CtlOk
<1>3. \A o \in Owners : rp[o].pc \in {"reclaim", "rereserve"} => rp[o].run # r
  BY DEF LocalInv, PassOk
<1>4. \A e \in index : e[1] # r
  BY DEF LocalInv, LiveOk, Unowned
<1> QED
  BY <1>1, <1>2, <1>3, <1>4

LEMMA ClaimEffect ==
    ASSUME LocalInv, NEW p \in Owners, NEW r \in Runs, ClaimRun(p, r), CanClaim(r, Tok(p, r))
    PROVE  /\ runs[r].state = "accepted" /\ runs'[r].state = "running"
           /\ runs'[r].token = Tok(p, r) /\ runs'[r].owner = p
           /\ runs'[r].session = runs[r].session /\ runs[r].session \in Sessions
           /\ runs[r].token < Tok(p, r) /\ runs[r].token \in Nat /\ Tok(p, r) \in Nat
           /\ \A q \in Runs \ {r} : runs'[q] = runs[q]
           /\ fence' = fence /\ UNCHANGED <<live, stat, rp>>
           /\ ctl[p][r].pc = "drawn" /\ Goto(p, r, "claimed")
<1>1. Claim(r, p, Tok(p, r), ctl[p][r].gen) /\ Goto(p, r, "claimed")
  BY DEF ClaimRun
<1>2. runs \in [Runs -> Rows] /\ runs[r] \in Rows /\ Tok(p, r) \in Nat /\ runs[r].token \in Nat
  BY CtlFacts
<1> QED
  BY <1>1, <1>2, RunFacts DEF Claim, CanClaim, ClaimRun, At, Rows

LEMMA ClaimFence ==
    ASSUME LocalInv, LocalInv', FenceInv, NEW p \in Owners, NEW r \in Runs, ClaimRun(p, r),
           CanClaim(r, Tok(p, r))
    PROVE  FenceInv'
<1>1. /\ runs[r].state = "accepted" /\ runs'[r].state = "running"
      /\ runs'[r].token = Tok(p, r) /\ runs'[r].session = runs[r].session
      /\ runs[r].session \in Sessions
      /\ runs[r].token < Tok(p, r) /\ runs[r].token \in Nat /\ Tok(p, r) \in Nat
      /\ \A q \in Runs \ {r} : runs'[q] = runs[q]
      /\ fence' = fence /\ view' = view /\ ref' = ref /\ index' = index /\ rp' = rp
      /\ ctl[p][r].pc = "drawn" /\ ctl[p][r].token = Tok(p, r)
  BY ClaimEffect DEF live, Tok
<1>2. OneCtl(p, r) /\ ctl'[p][r].pc = "claimed" /\ ctl'[p][r].token = ctl[p][r].token
  BY ClaimEffect, GotoCtl
<1>3. /\ \A s \in Sessions : view[s].run # r
      /\ \A o \in Owners : ctl[o][r].pc \notin Beyond
      /\ \A o \in Owners : rp[o].pc \in {"reclaim", "rereserve"} => rp[o].run # r
      /\ \A e \in index : e[1] # r
  BY <1>1, AcceptedUnused
<1>4. Active(r) /\ Active(r)'
  BY <1>1 DEF Active, ActiveStates
<1>5. Fenced'
  <2> SUFFICES ASSUME NEW q \in Runs, Active(q)', UnderToken(q)'
               PROVE  fence'[runs'[q].session] = runs'[q].token
    BY DEF Fenced
  <2>1. q # r
    <3> SUFFICES ASSUME q = r PROVE FALSE
      OBVIOUS
    <3>1. ~ Shows(r, runs[r].token)'
      BY <1>1, <1>3 DEF Shows, ViewOf
    <3>2. ASSUME NEW o \in Owners PROVE ctl'[o][r].pc \notin Past
      BY <1>2, <1>3 DEF OneCtl, Past, Beyond, Holding
    <3>3. runs'[r].state # "waiting"
      BY <1>1
    <3>4. ASSUME NEW o \in Owners PROVE ~ (rp'[o].pc = "rereserve" /\ rp'[o].run = r)
      BY <1>1, <1>3
    <3> QED
      BY <3>1, <3>2, <3>3, <3>4 DEF UnderToken
  <2>2. runs'[q] = runs[q] /\ Active(q)
    BY <1>1, <2>1 DEF Active
  <2>3. \A o \in Owners : ctl'[o][q] = ctl[o][q]
    BY <1>2, <2>1 DEF OneCtl
  <2>4. UnderToken(q)
    BY <1>1, <2>2, <2>3 DEF UnderToken, Shows, ViewOf, Tok
  <2> QED
    BY <1>1, <2>2, <2>4 DEF FenceInv, Fenced
<1>6. ClaimsBehind'
  <2> SUFFICES ASSUME NEW o \in Owners, NEW q \in Runs, NEW x \in Runs,
                      ctl'[o][q].pc = "claimed", q # x, runs'[q].session = runs'[x].session, Active(x)'
               PROVE  /\ runs'[x].token > 0 => Tok(o, q)' < runs'[x].token
                      /\ \A n \in Owners : ctl'[n][x].pc = "drawn" => Tok(o, q)' < Tok(n, x)'
    BY DEF ClaimsBehind
  <2>1. runs'[q].session = runs[q].session /\ runs'[x].session = runs[x].session /\ Active(x)
    BY <1>1, <1>4 DEF Active
  <2>2. q # r
    <3> SUFFICES ASSUME q = r PROVE FALSE
      OBVIOUS
    <3> QED
      BY <1>4, <2>1, OneActive
  <2>3. ctl'[o][q] = ctl[o][q] /\ Tok(o, q)' = Tok(o, q)
    BY <1>2, <2>2 DEF OneCtl, Tok
  <2>4. /\ runs[x].token > 0 => Tok(o, q) < runs[x].token
        /\ \A n \in Owners : ctl[n][x].pc = "drawn" => Tok(o, q) < Tok(n, x)
    BY <2>1, <2>3 DEF FenceInv, ClaimsBehind
  <2>5. CASE x = r
    <3>1. Tok(o, q) < Tok(p, r)
      BY <1>1, <2>4, <2>5
    <3>2. \A n \in Owners : ctl'[n][x].pc = "drawn" => ctl[n][x].pc = "drawn" /\ Tok(n, x)' = Tok(n, x)
      BY <1>2, <2>5 DEF OneCtl, Tok
    <3> QED
      BY <1>1, <2>3, <2>4, <2>5, <3>1, <3>2
  <2>6. CASE x # r
    <3>1. runs'[x] = runs[x] /\ \A n \in Owners : ctl'[n][x] = ctl[n][x]
      BY <1>1, <1>2, <2>6 DEF OneCtl
    <3> QED
      BY <2>3, <2>4, <3>1 DEF Tok
  <2> QED
    BY <2>5, <2>6
<1>7. RefIndexed'
  <2> SUFFICES ASSUME NEW q \in Runs, Active(q)', ref'[q] # 0, ref'[q] = runs'[q].token
               PROVE <<q, runs'[q].token>> \in index'
    BY DEF RefIndexed
  <2>1. q # r
    BY <1>1, RunFacts
  <2> QED
    BY <1>1, <2>1 DEF FenceInv, RefIndexed, Active
<1> QED
  BY <1>5, <1>6, <1>7 DEF FenceInv

\* Promoting a claim cannot take the fence from the run that has it: either it is
\* the same run's token, or the claim is behind and is refused.
LEMMA ActivateTaken ==
    ASSUME LocalInv, LocalInv', FenceInv, NEW p \in Owners, NEW r \in Runs, ActivateFence(p, r),
           CanActivate(runs[r].session, Tok(p, r))
    PROVE  FenceInv'
<1> DEFINE s == runs[r].session
<1>1. /\ runs' = runs /\ UNCHANGED <<live, rp, seq>> /\ Goto(p, r, "fenced")
      /\ fence' = [fence EXCEPT ![s] = Tok(p, r)] /\ fence[s] =< Tok(p, r)
      /\ ctl[p][r].pc = "claimed" /\ ctl[p][r].pc \in Beyond
  BY DEF ActivateFence, Activate, CanActivate, At, Beyond
<1>2. /\ s \in Sessions /\ Tok(p, r) \in Nat /\ Tok(p, r) =< runs[r].token /\ runs[r].token \in Nat
      /\ fence \in [Sessions -> Nat] /\ Tok(p, r) = ctl[p][r].token
  BY <1>1, CtlFacts DEF CtlOk, LocalInv, LedgerInv, TypeOK
<1>3. OneCtl(p, r) /\ ctl'[p][r].pc = "fenced" /\ ctl'[p][r].token = ctl[p][r].token
  BY <1>1, GotoCtl
<1>4. view' = view /\ ref' = ref /\ index' = index /\ rp' = rp
  BY <1>1 DEF live
<1>5. Fenced'
  <2> SUFFICES ASSUME NEW q \in Runs, Active(q)', UnderToken(q)'
               PROVE  fence'[runs'[q].session] = runs'[q].token
    BY DEF Fenced
  <2>1. Active(q)
    BY <1>1 DEF Active
  <2>2. runs[q].session \in Sessions /\ runs[q].token \in Nat
    BY <2>1, RunFacts DEF Active, ActiveStates
  <2>3. UnderToken(q) \/ (q = r /\ Tok(p, r) = runs[r].token)
    <3>1. CASE \E o \in Owners : ctl'[o][q].pc \in Past /\ Tok(o, q)' = runs'[q].token
      <4>1. PICK o \in Owners : ctl'[o][q].pc \in Past /\ ctl'[o][q].token = runs[q].token
        BY <1>1, <3>1 DEF Tok
      <4>2. CASE o = p /\ q = r
        BY <1>2, <1>3, <4>1, <4>2
      <4>3. CASE ~ (o = p /\ q = r)
        BY <1>3, <4>1, <4>3 DEF OneCtl, UnderToken, Tok
      <4> QED
        BY <4>2, <4>3
    <3>2. CASE ~ \E o \in Owners : ctl'[o][q].pc \in Past /\ Tok(o, q)' = runs'[q].token
      BY <1>1, <1>4, <3>2 DEF UnderToken, Shows, ViewOf
    <3> QED
      BY <3>1, <3>2
  <2>4. CASE q = r
    <3>1. Tok(p, r) = runs[r].token
      <4>1. CASE UnderToken(q)
        <5>1. fence[s] = runs[r].token
          BY <2>1, <2>4, <4>1 DEF FenceInv, Fenced
        <5> QED
          BY <1>1, <1>2, <5>1
      <4> QED
        BY <2>3, <4>1
    <3> QED
      BY <1>1, <1>2, <2>4, <3>1
  <2>5. CASE q # r
    <3>1. UnderToken(q)
      BY <2>3, <2>5
    <3>2. fence[runs[q].session] = runs[q].token /\ 1 =< runs[q].token
      BY <2>1, <3>1, UnderOwned DEF FenceInv, Fenced
    <3>3. runs[q].session # s
      <4> SUFFICES ASSUME runs[q].session = s PROVE FALSE
        OBVIOUS
      <4>1. runs[q].token > 0
        BY <2>2, <3>2
      <4>2. Tok(p, r) < runs[q].token
        BY <1>1, <2>1, <2>5, <4>1 DEF FenceInv, ClaimsBehind
      <4>3. runs[q].token =< Tok(p, r)
        BY <1>1, <3>2
      <4> QED
        BY <1>2, <2>2, <4>2, <4>3
    <3> QED
      BY <1>1, <1>2, <2>2, <3>2, <3>3
  <2> QED
    BY <2>4, <2>5
<1>6. ClaimsBehind'
  <2> SUFFICES ASSUME NEW o \in Owners, NEW q \in Runs, NEW x \in Runs,
                      ctl'[o][q].pc = "claimed", q # x, runs'[q].session = runs'[x].session, Active(x)'
               PROVE  /\ runs'[x].token > 0 => Tok(o, q)' < runs'[x].token
                      /\ \A n \in Owners : ctl'[n][x].pc = "drawn" => Tok(o, q)' < Tok(n, x)'
    BY DEF ClaimsBehind
  <2>1. ctl'[o][q] = ctl[o][q]
    BY <1>3 DEF OneCtl
  <2>2. \A n \in Owners : ctl'[n][x].pc = "drawn" => ctl[n][x] = ctl'[n][x]
    BY <1>3 DEF OneCtl
  <2> QED
    BY <1>1, <2>1, <2>2 DEF FenceInv, ClaimsBehind, Tok, Active
<1>7. RefIndexed'
  BY <1>1, <1>4 DEF FenceInv, RefIndexed, Active
<1> QED
  BY <1>5, <1>6, <1>7 DEF FenceInv

\* A reservation is made under a token that works already.
LEMMA StartFence ==
    ASSUME LocalInv, LocalInv', FenceInv, NEW r \in Runs, NEW t, NEW st, StartLive(r, t, st),
           UNCHANGED lvars, runs[r].state # "none", t = runs[r].token => UnderToken(r), ClaimTame,
           \A o \in Owners, q \in Runs : ctl'[o][q].pc \in Past =>
               \/ ctl[o][q].pc \in Past /\ ctl'[o][q].token = ctl[o][q].token
               \/ q = r /\ ctl'[o][q].token = t,
           PassTame
    PROVE  FenceInv'
<1> DEFINE s == runs[r].session
           v == [run |-> r, token |-> t, status |-> st]
<1>1. runs' = runs /\ fence' = fence /\ LedgerTame
  BY TameMoves DEF lvars, TameMove
<1>2. s \in Sessions /\ view \in [Sessions -> Views] /\ ref \in [Runs -> Nat]
  BY RunFacts DEF LocalInv, LiveOk
<1>3. /\ view' = [view EXCEPT ![s] = v] /\ v.run = r /\ v.token = t
      /\ ref' = [ref EXCEPT ![r] = t] /\ index' = index \cup {<<r, t>>}
  BY DEF StartLive
<1> HIDE DEF v
<1>4. ASSUME NEW q \in Runs, runs[q].state # "none", Shows(q, runs[q].token)'
      PROVE  \/ q = r /\ t = runs[r].token
             \/ runs[q].session # s /\ Shows(q, runs[q].token) /\ ViewOf(q)' = ViewOf(q)
  <2>1. runs[q].session \in Sessions
    BY <1>4, RunFacts
  <2>2. CASE runs[q].session = s
    BY <1>1, <1>2, <1>3, <1>4, <2>2 DEF Shows, ViewOf
  <2>3. CASE runs[q].session # s
    BY <1>1, <1>2, <1>3, <1>4, <2>1, <2>3 DEF Shows, ViewOf
  <2> QED
    BY <2>2, <2>3
<1>5. Fenced'
  <2> SUFFICES ASSUME NEW q \in Runs, Active(q)', UnderToken(q)' PROVE Active(q) /\ UnderToken(q)
    BY <1>1, FencedStep DEF FenceInv
  <2>1. Active(q) /\ runs[q].state # "none"
    BY <1>1 DEF Active, ActiveStates
  <2>2. CASE Shows(q, runs[q].token)'
    BY <1>4, <2>1, <2>2 DEF UnderToken
  <2>3. CASE runs'[q].state = "waiting"
    BY <1>1, <2>1, <2>3 DEF UnderToken
  <2>4. CASE \E o \in Owners : ctl'[o][q].pc \in Past /\ Tok(o, q)' = runs'[q].token
    <3>1. PICK o \in Owners : ctl'[o][q].pc \in Past /\ ctl'[o][q].token = runs[q].token
      BY <1>1, <2>4 DEF Tok
    <3>2. CASE ctl[o][q].pc \in Past /\ ctl'[o][q].token = ctl[o][q].token
      BY <2>1, <3>1, <3>2 DEF UnderToken, Tok
    <3> QED
      BY <2>1, <3>1, <3>2
  <2>5. CASE \E o \in Owners : rp'[o].pc = "rereserve" /\ rp'[o].run = q /\ rp'[o].new = runs'[q].token
    BY <1>1, <2>1, <2>5 DEF PassTame, UnderToken
  <2> QED
    BY <2>2, <2>3, <2>4, <2>5 DEF UnderToken
<1>6. ClaimsBehind'
  BY <1>1, ClaimsStep DEF FenceInv
<1>7. RefIndexed'
  BY <1>1, <1>2, <1>3 DEF FenceInv, RefIndexed, Active
<1> QED
  BY <1>5, <1>6, <1>7 DEF FenceInv

LEMMA ReserveFence ==
    ASSUME LocalInv, LocalInv', FenceInv, NEW p \in Owners, NEW r \in Runs,
           Reserve(p, r) \/ ReserveFails(p, r), StartLive(r, Tok(p, r), "admitting")
    PROVE  FenceInv'
<1>1. /\ ctl[p][r].pc = "fenced" /\ ctl[p][r].pc \in Beyond /\ ctl[p][r].pc \in Past
      /\ UNCHANGED lvars /\ rp' = rp /\ \E x \in {"reserved", "abandoning"} : Goto(p, r, x)
  BY DEF Reserve, ReserveFails, At, Beyond, Past
<1>2. runs[r].state # "none"
  BY <1>1, CtlFacts DEF CtlOk
<1>3. Tok(p, r) = runs[r].token => UnderToken(r)
  BY <1>1 DEF UnderToken
<1>4. /\ OneCtl(p, r) /\ ctl'[p][r].pc \in {"reserved", "abandoning"}
      /\ ctl'[p][r].token = ctl[p][r].token
  BY <1>1, GotoCtl
<1>5. /\ ClaimTame /\ PassTame
      /\ \A o \in Owners, q \in Runs : ctl'[o][q].pc \in Past =>
            ctl[o][q].pc \in Past /\ ctl'[o][q].token = ctl[o][q].token
  BY <1>1, <1>4 DEF ClaimTame, PassTame, OneCtl
<1> QED
  BY <1>1, <1>2, <1>3, <1>5, StartFence

LEMMA RereserveEffect ==
    ASSUME LocalInv, NEW p \in Owners, Rereserve(p)
    PROVE  /\ rp[p].pc = "rereserve" /\ rp[p].run \in Runs
           /\ StartLive(rp[p].run, rp[p].new, "waiting") /\ UNCHANGED <<lvars, stat>>
           /\ OneCtl(p, rp[p].run) /\ ctl[p][rp[p].run].pc = "idle"
           /\ ctl'[p][rp[p].run].pc = "parked" /\ ctl'[p][rp[p].run].token = rp[p].new
           /\ OnePass(p) /\ rp'[p].pc \in {"idle", "release"}
           /\ rp'[p].pc = "release" => rp'[p].run = rp[p].run /\ rp'[p].cand = rp[p].cand
           /\ runs[rp[p].run].state \notin Unowned /\ rp[p].new =< runs[rp[p].run].token
           /\ 1 =< rp[p].new /\ rp[p].cand < rp[p].new /\ rp[p].new \in Nat /\ rp[p].cand \in Nat
<1> DEFINE r == rp[p].run
           c == [Idle EXCEPT !.pc = "parked", !.token = rp[p].new]
<1>1. /\ rp[p].pc = "rereserve" /\ r \in Runs /\ runs[r].state \notin Unowned
      /\ rp[p].new =< runs[r].token /\ 1 =< rp[p].new /\ rp[p].cand < rp[p].new
      /\ rp[p].new \in Nat /\ rp[p].cand \in Nat
  BY PassFacts DEF Rereserve, Working, PassOk, Unowned
<1>2. /\ StartLive(r, rp[p].new, "waiting") /\ UNCHANGED <<lvars, stat>> /\ ctl[p][r].pc = "idle"
      /\ Step(p, "release") \/ Rest(p)
  BY DEF Rereserve, CanRereserve
<1>3. /\ OnePass(p) /\ rp'[p].pc \in {"idle", "release"}
      /\ rp'[p].pc = "release" => rp'[p].run = r /\ rp'[p].cand = rp[p].cand
  BY <1>2, StepPass, RestPass
<1>4. c.pc = "parked" /\ c.token = rp[p].new
  BY RestOk DEF Controls
<1>5. ctl' = [ctl EXCEPT ![p][r] = c] /\ ctl \in [Owners -> [Runs -> Controls]]
  BY DEF Rereserve, LocalInv
<1> HIDE DEF c
<1>6. OneCtl(p, r) /\ ctl'[p][r].pc = "parked" /\ ctl'[p][r].token = rp[p].new
  BY <1>1, <1>4, <1>5 DEF OneCtl
<1> QED
  BY <1>1, <1>2, <1>3, <1>6

LEMMA RereserveFence ==
    ASSUME LocalInv, LocalInv', FenceInv, NEW p \in Owners, Rereserve(p)
    PROVE  FenceInv'
<1> DEFINE r == rp[p].run
           t == rp[p].new
<1>1. /\ rp[p].pc = "rereserve" /\ r \in Runs /\ runs[r].state # "none"
      /\ StartLive(r, t, "waiting") /\ UNCHANGED lvars
      /\ OneCtl(p, r) /\ ctl'[p][r].pc = "parked" /\ ctl'[p][r].token = t
      /\ OnePass(p) /\ rp'[p].pc # "rereserve"
  BY RereserveEffect DEF Unowned
<1>2. t = runs[r].token => UnderToken(r)
  BY <1>1 DEF UnderToken
<1>3. ClaimTame /\ PassTame
  BY <1>1 DEF ClaimTame, PassTame, OneCtl, OnePass
<1>4. \A o \in Owners, q \in Runs : ctl'[o][q].pc \in Past =>
               \/ ctl[o][q].pc \in Past /\ ctl'[o][q].token = ctl[o][q].token
               \/ q = r /\ ctl'[o][q].token = t
  BY <1>1 DEF OneCtl
<1> HIDE DEF r, t
<1> QED
  BY <1>1, <1>2, <1>3, <1>4, StartFence

LEMMA ReclaimEffect ==
    ASSUME LocalInv, NEW p \in Owners, Reclaim(p), CanReclaim(rp[p].run, rp[p].token, rp[p].new)
    PROVE  /\ rp[p].run \in Runs /\ runs[rp[p].run].state = "waiting"
           /\ runs'[rp[p].run].state = "waiting" /\ runs'[rp[p].run].token = rp[p].new
           /\ runs'[rp[p].run].owner = p
           /\ runs'[rp[p].run].session = runs[rp[p].run].session
           /\ runs[rp[p].run].session \in Sessions
           /\ runs[rp[p].run].token < rp[p].new /\ 1 =< runs[rp[p].run].token
           /\ rp[p].new \in Nat /\ runs[rp[p].run].token \in Nat
           /\ \A q \in Runs \ {rp[p].run} : runs'[q] = runs[q]
           /\ fence' = [fence EXCEPT ![runs[rp[p].run].session] = rp[p].new]
           /\ UNCHANGED <<live, stat>> /\ (UNCHANGED ctl \/ Forget(p, rp[p].run))
           /\ OnePass(p) /\ rp'[p].pc \in {"idle", "rereserve"}
           /\ rp'[p].pc = "rereserve" =>
                 rp'[p].run = rp[p].run /\ rp'[p].new = rp[p].new /\ rp'[p].cand = rp[p].cand
           /\ rp[p].pc = "reclaim"
<1> DEFINE r == rp[p].run
<1>1. /\ ReclaimWaitingDecision(r, p, rp[p].token, rp[p].new, rp[p].gen) /\ r \in Runs
      /\ runs'[r].token = rp[p].new /\ runs'[r].state = "waiting"
      /\ runs[r].state = "waiting" /\ runs[r].token < rp[p].new
  BY ReclaimedRow
<1>2. /\ runs \in [Runs -> Rows] /\ runs[r] \in Rows /\ runs[r].session \in Sessions
      /\ runs[r].token \in Nat /\ 1 =< runs[r].token /\ rp[p].new \in Nat
  BY <1>1, RunFacts, PassFacts DEF RowOk
<1>3. /\ runs' = [runs EXCEPT ![r] = [@ EXCEPT !.owner = p, !.token = rp[p].new, !.gen = rp[p].gen]]
      /\ fence' = [fence EXCEPT ![runs[r].session] = rp[p].new]
  BY <1>1 DEF ReclaimWaitingDecision
<1>4. runs'[r].owner = p /\ runs'[r].session = runs[r].session /\ \A q \in Runs \ {r} : runs'[q] = runs[q]
  BY <1>1, <1>2, <1>3 DEF Rows
<1>5. /\ UNCHANGED <<live, stat>> /\ (UNCHANGED ctl \/ Forget(p, r))
      /\ Step(p, "rereserve") \/ Rest(p)
  BY DEF Reclaim
<1>6. /\ OnePass(p) /\ rp'[p].pc \in {"idle", "rereserve"}
      /\ rp'[p].pc = "rereserve" =>
            rp'[p].run = r /\ rp'[p].new = rp[p].new /\ rp'[p].cand = rp[p].cand
  BY <1>5, StepPass, RestPass
<1>7. rp[p].pc = "reclaim"
  BY DEF Reclaim, Working
<1> QED
  BY <1>1, <1>2, <1>3, <1>4, <1>5, <1>6, <1>7

LEMMA ForgetCtl ==
    ASSUME LocalInv, NEW p \in Owners, NEW r \in Runs, Forget(p, r)
    PROVE  OneCtl(p, r) /\ ctl'[p][r].pc = "idle"
<1>1. ctl \in [Owners -> [Runs -> Controls]] /\ Idle.pc = "idle"
  BY RestOk DEF LocalInv
<1> QED
  BY <1>1 DEF Forget, OneCtl

LEMMA FenceType == ASSUME LocalInv PROVE fence \in [Sessions -> Nat]
BY DEF LocalInv, LedgerInv, TypeOK

LEMMA ReclaimFence ==
    ASSUME LocalInv, LocalInv', FenceInv, NEW p \in Owners, Reclaim(p),
           CanReclaim(rp[p].run, rp[p].token, rp[p].new)
    PROVE  FenceInv'
<1> DEFINE r == rp[p].run
           s == runs[r].session
           n == rp[p].new
<1>1. /\ r \in Runs /\ runs[r].state = "waiting" /\ runs'[r].state = "waiting"
      /\ runs'[r].token = n /\ runs'[r].session = s /\ s \in Sessions
      /\ runs[r].token < n /\ 1 =< runs[r].token /\ n \in Nat /\ runs[r].token \in Nat
      /\ \A q \in Runs \ {r} : runs'[q] = runs[q]
      /\ fence' = [fence EXCEPT ![s] = n]
      /\ view' = view /\ ref' = ref /\ index' = index /\ (UNCHANGED ctl \/ Forget(p, r))
      /\ OnePass(p) /\ (rp'[p].pc = "rereserve" => rp'[p].run = r)
  BY ReclaimEffect DEF live
<1>2. Active(r) /\ fence \in [Sessions -> Nat]
  BY <1>1, FenceType DEF Active, ActiveStates
<1> HIDE DEF r, s, n
<1>3. \A o \in Owners, q \in Runs : ctl'[o][q] = ctl[o][q] \/ ctl'[o][q].pc = "idle"
  <2>1. CASE Forget(p, r)
    BY <1>1, <2>1, ForgetCtl DEF OneCtl
  <2>2. CASE UNCHANGED ctl
    BY <2>2
  <2> QED
    BY <1>1, <2>1, <2>2
<1>4. ASSUME NEW q \in Runs, q # r, Active(q)'
      PROVE  Active(q) /\ runs[q].session \in Sessions /\ runs[q].session # s /\ runs'[q] = runs[q]
  <2>1. runs'[q] = runs[q] /\ Active(q)
    BY <1>1, <1>4 DEF Active
  <2>2. runs[q].session \in Sessions
    BY <2>1, RunFacts DEF Active, ActiveStates
  <2> QED
    BY <1>1, <1>2, <1>4, <2>1, <2>2, OneActive DEF s
<1>5. Fenced'
  <2> SUFFICES ASSUME NEW q \in Runs, Active(q)', UnderToken(q)'
               PROVE  fence'[runs'[q].session] = runs'[q].token
    BY DEF Fenced
  <2>1. CASE q = r
    BY <1>1, <1>2, <2>1
  <2>2. CASE q # r
    <3>1. Active(q) /\ runs[q].session \in Sessions /\ runs[q].session # s /\ runs'[q] = runs[q]
      BY <1>4, <2>2
    <3>4. UnderToken(q)
      <4>1. CASE \E o \in Owners : ctl'[o][q].pc \in Past /\ Tok(o, q)' = runs'[q].token
        <5>1. PICK o \in Owners : ctl'[o][q].pc \in Past /\ ctl'[o][q].token = runs[q].token
          BY <3>1, <4>1 DEF Tok
        <5>2. ctl[o][q].pc \in Past /\ ctl[o][q].token = runs[q].token
          BY <1>3, <5>1 DEF Past, Holding
        <5> QED
          BY <5>2 DEF UnderToken, Tok
      <4>2. CASE \E o \in Owners : rp'[o].pc = "rereserve" /\ rp'[o].run = q
                                       /\ rp'[o].new = runs'[q].token
        BY <1>1, <2>2, <3>1, <4>2 DEF OnePass, UnderToken
      <4>3. CASE Shows(q, runs[q].token)' \/ runs'[q].state = "waiting"
        BY <1>1, <3>1, <4>3 DEF UnderToken, Shows, ViewOf
      <4> QED
        BY <4>1, <4>2, <4>3 DEF UnderToken
    <3>5. fence[runs[q].session] = runs[q].token
      BY <3>1, <3>4 DEF FenceInv, Fenced
    <3> QED
      BY <1>1, <1>2, <3>1, <3>5
  <2> QED
    BY <2>1, <2>2
<1>6. ClaimsBehind'
  <2> SUFFICES ASSUME NEW o \in Owners, NEW q \in Runs, NEW x \in Runs,
                      ctl'[o][q].pc = "claimed", q # x, runs'[q].session = runs'[x].session, Active(x)'
               PROVE  /\ runs'[x].token > 0 => Tok(o, q)' < runs'[x].token
                      /\ \A m \in Owners : ctl'[m][x].pc = "drawn" => Tok(o, q)' < Tok(m, x)'
    BY DEF ClaimsBehind
  <2>1. /\ runs'[q].session = runs[q].session /\ runs'[x].session = runs[x].session /\ Active(x)
    BY <1>1, <1>2 DEF Active, s
  <2>2. ctl'[o][q] = ctl[o][q]
    BY <1>3
  <2>3. \A m \in Owners : ctl'[m][x].pc = "drawn" => ctl'[m][x] = ctl[m][x]
    BY <1>3
  <2>4. /\ runs[x].token > 0 => Tok(o, q) < runs[x].token
        /\ \A m \in Owners : ctl[m][x].pc = "drawn" => Tok(o, q) < Tok(m, x)
    BY <2>1, <2>2 DEF FenceInv, ClaimsBehind
  <2>5. Tok(o, q) \in Nat /\ Tok(o, q)' = Tok(o, q)
    BY <2>2, CtlFacts DEF Tok
  <2>6. runs'[x].token > 0 => Tok(o, q) < runs'[x].token
    <3>1. CASE x = r
      <4>1. runs[r].token > 0 /\ Tok(o, q) < runs[r].token
        BY <1>1, <2>4, <3>1
      <4> QED
        BY <1>1, <2>5, <3>1, <4>1
    <3>2. CASE x # r
      BY <1>1, <2>4, <3>2
    <3> QED
      BY <3>1, <3>2
  <2> QED
    BY <2>3, <2>4, <2>5, <2>6 DEF Tok
<1>7. RefIndexed'
  <2> SUFFICES ASSUME NEW q \in Runs, Active(q)', ref'[q] # 0, ref'[q] = runs'[q].token
               PROVE <<q, runs'[q].token>> \in index'
    BY DEF RefIndexed
  <2>1. q # r
    BY <1>1, RunFacts
  <2> QED
    BY <1>1, <1>4, <2>1 DEF FenceInv, RefIndexed
<1> QED
  BY <1>5, <1>6, <1>7 DEF FenceInv

\* The backend comes back empty: nothing is reserved.
LEMMA FlushFence ==
    ASSUME LocalInv, LocalInv', FenceInv, Flush
    PROVE  FenceInv'
<1>1. /\ runs' = runs /\ fence' = fence /\ ctl' = ctl /\ rp' = rp /\ TameMove
      /\ \A s \in Sessions : view'[s].run = None /\ view'[s].status = "none"
      /\ \A r \in Runs : ref'[r] = 0
  BY RestOk DEF Flush, lvars, TameMove, LocalInv, LiveOk
<1>2. LedgerTame /\ CtlTame /\ ViewTame /\ PassTame /\ RefTame
  BY <1>1, TameMoves, StillQuiet DEF ViewTame, PassTame, RefTame, LiveStatuses
<1>3. Fenced' /\ ClaimsBehind'
  BY <1>2, UnderStays, FencedStep, ClaimsStep, CtlTameClaims DEF FenceInv
<1>4. RefIndexed'
  BY <1>1 DEF RefIndexed
<1> QED
  BY <1>3, <1>4 DEF FenceInv

-----------------------------------------------------------------------------
(* Every step is quiet or moves ownership in one of a few ways.            *)

\* A pass consumes a candidate that is behind the lease of its run.
Dropping(p, r, t) ==
    /\ <<r, t>> \in index /\ Active(r) /\ ref[r] # 0 /\ ref[r] = runs[r].token
    /\ t < runs[r].token
    /\ OnePass(p) /\ rp'[p].pc = "release" /\ rp'[p].run = r /\ rp'[p].cand = t
    /\ UNCHANGED <<lvars, live, ctl>>

\* A pass is about to end a run, found without a lease, never owned, listed by
\* the sweep, or parked and not to be reserved again.
Marking(p, r) ==
    /\ \/ /\ \E e \in index : e[1] = r
          /\ rp'[p].expected = {runs[r].state}
          /\ runs[r].state = "running" => ref[r] # runs[r].token
       \/ runs[r].token = 0 /\ rp'[p].token = runs[r].token
       \/ rp[p].pc = "sweep"
       \/ rp'[p].expected = {"waiting"}
    /\ OnePass(p) /\ rp'[p].pc = "mark" /\ rp'[p].run = r
    /\ rp'[p].cand = 0 \/ <<r, rp'[p].cand>> \in index \/ Keeps(p)
    /\ UNCHANGED <<lvars, live, ctl>>

Sweeping(p) ==
    /\ "flush" \in Faults
    /\ OnePass(p) /\ rp'[p].pc = "sweep"
    /\ UNCHANGED <<lvars, live, ctl>>

\* A reservation of a claim lands, whether or not its owner hears of it.
Reserving(p, r) ==
    (Reserve(p, r) \/ ReserveFails(p, r)) /\ StartLive(r, Tok(p, r), "admitting")

Moves ==
    \/ \E p \in Owners, r \in Runs :
         \/ ClaimRun(p, r) /\ CanClaim(r, Tok(p, r))
         \/ ActivateFence(p, r) /\ CanActivate(runs[r].session, Tok(p, r))
         \/ Reserving(p, r)
         \/ Marking(p, r)
         \/ \E t \in Nat : Dropping(p, r, t)
    \/ \E p \in Owners :
         \/ Rereserve(p)
         \/ Reclaim(p) /\ CanReclaim(rp[p].run, rp[p].token, rp[p].new)
         \/ ReleaseMember(p)
         \/ Sweeping(p)
    \/ Flush

LEMMA ReapPickMoves ==
    ASSUME LocalInv, NEW p \in Owners, NEW r, NEW t, <<r, t>> \in index, ReapPick(p, r, t)
    PROVE  Quiet \/ Moves
<1>1. /\ r \in Runs /\ t \in Nat /\ runs[r].token \in Nat
      /\ ref[r] \in Nat /\ ref[r] =< runs[r].token /\ runs[r].state \in ActiveStates \cup TerminalStates
      /\ runs[r].state = "running" => 1 =< runs[r].token
      /\ runs[r].state = "waiting" => 1 =< runs[r].token
  <2>1. r \in Runs /\ t \in Nat
    BY DEF LocalInv, LiveOk
  <2>2. runs[r].state \notin Unowned
    BY <2>1 DEF LocalInv, LiveOk
  <2> QED
    BY <2>1, <2>2, RunFacts DEF RowOk, Rows, Unowned
<1>2. UNCHANGED live /\ ref[r] # t /\ \E e \in index : e[1] = r
  BY DEF ReapPick
<1>3. \/ Consume(p, r, t) /\ t < runs[r].token /\ Active(r) /\ ref[r] # 0 /\ ref[r] = runs[r].token
      \/ StartRecovery(p, r, "lease", t)
      \/ /\ StartMark(p, r, "lease", t, {runs[r].state})
         /\ runs[r].state = "running" => ref[r] # runs[r].token
  <2>1. CASE Recoverable(r) /\ IF ref[r] = runs[r].token
                               THEN Consume(p, r, t) ELSE StartRecovery(p, r, "lease", t)
    <3>1. t =< runs[r].token
      BY DEF LocalInv, LiveOk
    <3> QED
      BY <1>1, <1>2, <2>1, <3>1 DEF Recoverable, Active, ActiveStates
  <2>2. CASE IF Active(r) /\ runs[r].state # "finishing"
             THEN IF ref[r] # 0 /\ ref[r] >= runs[r].token
                  THEN t < runs[r].token /\ Consume(p, r, t)
                  ELSE t =< runs[r].token /\ StartMark(p, r, "lease", t, {runs[r].state})
             ELSE StartMark(p, r, "lease", t, {runs[r].state})
    BY <1>1, <2>2 DEF Active, ActiveStates
  <2>3. \/ Recoverable(r) /\ IF ref[r] = runs[r].token
                               THEN Consume(p, r, t) ELSE StartRecovery(p, r, "lease", t)
        \/ IF Active(r) /\ runs[r].state # "finishing"
             THEN IF ref[r] # 0 /\ ref[r] >= runs[r].token
                  THEN t < runs[r].token /\ Consume(p, r, t)
                  ELSE t =< runs[r].token /\ StartMark(p, r, "lease", t, {runs[r].state})
             ELSE StartMark(p, r, "lease", t, {runs[r].state})
    BY ZenonT(30) DEF ReapPick
  <2> QED
    BY <2>1, <2>2, <2>3
<1>4. CASE StartRecovery(p, r, "lease", t)
  BY <1>1, <1>2, <1>4, StartRecoveryQuiet
<1>5. CASE Consume(p, r, t) /\ t < runs[r].token /\ Active(r) /\ ref[r] # 0 /\ ref[r] = runs[r].token
  <2>1. OnePass(p) /\ rp'[p].pc = "release" /\ rp'[p].run = r /\ rp'[p].cand = t
    BY <1>1, <1>5, ConsumePass
  <2>2. UNCHANGED <<lvars, ctl>>
    BY <1>5 DEF Consume
  <2>3. Dropping(p, r, t)
    BY <1>2, <1>5, <2>1, <2>2 DEF Dropping
  <2> QED
    BY <1>1, <2>3 DEF Moves
<1>6. CASE /\ StartMark(p, r, "lease", t, {runs[r].state})
           /\ runs[r].state = "running" => ref[r] # runs[r].token
  <2>1. UNCHANGED <<lvars, ctl>>
    BY <1>6 DEF StartMark
  <2>2. /\ OnePass(p) /\ rp'[p].pc = "mark" /\ rp'[p].run = r /\ rp'[p].expected = {runs[r].state}
        /\ rp'[p].cand = t
    BY <1>1, <1>6, MarkPass
  <2>3. Marking(p, r)
    BY <1>2, <1>6, <2>1, <2>2 DEF Marking
  <2> QED
    BY <1>1, <2>3 DEF Moves
<1> QED
  BY <1>3, <1>4, <1>5, <1>6

LEMMA SweepPickMoves ==
    ASSUME LocalInv, NEW p \in Owners, NEW r \in Runs, SweepPick(p, r) \/ OrphanPick(p, r)
    PROVE  Quiet \/ Moves
<1>1. UNCHANGED live
  BY DEF SweepPick, OrphanPick
<1>2. CASE StartRecovery(p, r, "sweep", 0)
  BY <1>1, <1>2, StartRecoveryQuiet
<1>3. CASE SweepPick(p, r) /\ StartMark(p, r, "sweep", 0, ActiveStates)
  <2>1. OnePass(p) /\ rp'[p].pc = "mark" /\ rp'[p].run = r /\ rp'[p].cand = 0
    BY <1>3, MarkPass
  <2>2. Marking(p, r)
    BY <1>1, <1>3, <2>1 DEF Marking, StartMark, SweepPick, Working
  <2> QED
    BY <2>2 DEF Moves
<1>4. CASE OrphanPick(p, r)
  <2>1. StartMark(p, r, "orphan", 0, ActiveStates) /\ runs[r].state = "accepted"
    BY <1>4 DEF OrphanPick, OrphanedRuns
  <2>2. /\ OnePass(p) /\ rp'[p].pc = "mark" /\ rp'[p].run = r /\ rp'[p].token = runs[r].token
        /\ rp'[p].cand = 0
    BY <2>1, MarkPass
  <2>3. runs[r].token = 0
    BY <2>1 DEF LocalInv, RowOk
  <2>4. Marking(p, r)
    BY <1>1, <2>1, <2>2, <2>3 DEF Marking, StartMark
  <2> QED
    BY <2>4 DEF Moves
<1> QED
  BY <1>2, <1>3, <1>4 DEF SweepPick

LEMMA SweepReadMoves ==
    ASSUME LocalInv, NEW p \in Owners, SweepRead(p)
    PROVE  Moves
<1> DEFINE x == [AtRest EXCEPT !.pc = "sweep", !.gen = livegen]
<1>1. livegen \in 0..MaxGen
  BY LifeAssumption DEF LocalInv, LiveOk
<1>2. x \in Passes /\ x.pc = "sweep"
  BY <1>1, RestFields DEF Passes
<1>3. rp' = [rp EXCEPT ![p] = x] /\ rp \in [Owners -> Passes]
  BY DEF SweepRead, LocalInv
<1> HIDE DEF x
<1>4. Sweeping(p)
  BY <1>2, <1>3 DEF Sweeping, SweepRead, OnePass
<1> QED
  BY <1>4 DEF Moves

LEMMA RereserveFailsMoves ==
    ASSUME LocalInv, NEW p \in Owners, RereserveFails(p)
    PROVE  Quiet \/ Moves
<1>1. CASE rp[p].kind = "lease"
  BY <1>1, RestedQuiet DEF RereserveFails
<1>2. CASE rp[p].kind # "lease"
  <2>1. rp[p].run \in Runs
    BY PassFacts DEF RereserveFails, Working
  <2>2. Marking(p, rp[p].run)
    BY <1>2, RereserveFailsPass DEF Marking, RereserveFails, Working, Keeps
  <2> QED
    BY <2>1, <2>2 DEF Moves
<1> QED
  BY <1>1, <1>2

LEMMA OwnMoves ==
    ASSUME LocalInv, NEW p \in Owners, NEW r \in Runs,
           Own(p, r) \/ ActivateFails(p, r) \/ ReserveFails(p, r)
    PROVE  Quiet \/ Moves
<1>1. CASE Reserve(p, r) \/ ReserveFails(p, r)
  <2>1. StartLive(r, Tok(p, r), "admitting") \/ (Goto(p, r, "abandoning") /\ UNCHANGED live)
    BY <1>1 DEF Reserve, ReserveFails
  <2> QED
    BY <1>1, <2>1, RefusedQuiet DEF Moves, Reserving
<1>2. CASE Draw(p, r) \/ ClaimRun(p, r) \/ ActivateFence(p, r) \/ ActivateFails(p, r)
           \/ Begin(p, r) \/ AbandonClaim(p, r)
  BY <1>2, DrawQuiet, RefusedQuiet, BeginQuiet, AbandonClaimQuiet DEF Moves
<1>3. CASE \/ Unwind(p, r) \/ ShowWaiting(p, r) \/ ShowResumed(p, r) \/ EndExecution(p, r)
           \/ Prepare(p, r) \/ FinalizeRun(p, r) \/ Release(p, r)
  BY <1>3, UnwindQuiet, ShowWaitingQuiet, EndExecutionQuiet, PrepareQuiet, FinalizeRunQuiet,
     ReleaseQuiet
<1> QED
  BY <1>1, <1>2, <1>3 DEF Own

LEMMA ReapMoves ==
    ASSUME LocalInv, NEW p \in Owners, Reap(p)
    PROVE  Quiet \/ Moves
<1>1. CASE \E e \in index : ReapPick(p, e[1], e[2])
  <2>1. PICK e \in index : ReapPick(p, e[1], e[2])
    BY <1>1
  <2>2. e = <<e[1], e[2]>>
    BY DEF LocalInv, LiveOk
  <2> QED
    BY <2>1, <2>2, ReapPickMoves
<1>2. CASE \E r \in Runs : OrphanPick(p, r) \/ SweepPick(p, r)
  BY <1>2, SweepPickMoves
<1>3. CASE \/ SweepRead(p) \/ SweepDone(p) \/ Mark(p) \/ Reconcile(p) \/ ReleaseMember(p)
           \/ Reclaim(p) \/ Rereserve(p) \/ RereserveFails(p)
  BY <1>3, SweepReadMoves, RestedQuiet, MarkQuiet, ReconcilePassQuiet, RereserveFailsMoves
     DEF Moves
<1> QED
  BY <1>1, <1>2, <1>3 DEF Reap

LEMMA NextMoves ==
    ASSUME LocalInv, [LifeNext]_vars
    PROVE  Quiet \/ Moves
<1>1. CASE UNCHANGED vars
  <2>1. TameMove
    BY <1>1 DEF vars, TameMove
  <2> QED
    BY <1>1, <2>1, TameMoves, StillQuiet DEF vars, Quiet
<1>2. CASE Flush
  BY <1>2 DEF Moves
<1>3. ASSUME NEW r \in Runs, AbortIntent(r) \/ LeaseExpire(r)
      PROVE  Quiet
  BY <1>3, UserQuiet
<1>4. ASSUME NEW p \in Owners, Reap(p) \/ PassFails(p) \/ Crash(p) \/ Close(p) \/ Exit(p)
      PROVE  Quiet \/ Moves
  BY <1>4, ReapMoves, RestedQuiet, ProcessQuiet DEF Crash, Exit
<1>5. ASSUME NEW p \in Owners, NEW r \in Runs,
             \/ \E s \in Sessions, i \in Invs : Submit(p, r, s, i)
             \/ Resubmit(p, r) \/ Own(p, r)
             \/ ActivateFails(p, r) \/ ReserveFails(p, r) \/ ShowFinishing(p, r) \/ GiveUp(p, r)
      PROVE  Quiet \/ Moves
  BY <1>5, AdmissionQuiet, OwnMoves, ShowFinishingQuiet, GiveUpQuiet
<1>6. ASSUME NEW p \in Owners, NEW r \in Runs,
             \/ CommitStep(p, r) \/ Park(p, r) \/ Answer(p, r)
             \/ AbortRead(p, r) \/ AbortLive(p, r) \/ LoseOwnership(p, r)
             \/ ReleaseOnShutdown(p, r) \/ ReconcileOnShutdown(p, r) \/ HandOff(p, r)
      PROVE  Quiet
  BY <1>6, CommitStepQuiet, ParkQuiet, AnswerQuiet, AbortReadQuiet, AbortLiveQuiet,
     LoseOwnershipQuiet, ShutdownQuiet, HandOffQuiet
<1> QED
  BY <1>1, <1>2, <1>3, <1>4, <1>5, <1>6 DEF LifeNext

-----------------------------------------------------------------------------
(* FenceInv.                                                               *)

\* A step of a pass that touches nothing else and reserves nothing.
LEMMA PassFence ==
    ASSUME LocalInv, LocalInv', FenceInv, NEW p \in Owners, OnePass(p), rp'[p].pc # "rereserve",
           UNCHANGED <<lvars, live, ctl>>
    PROVE  FenceInv'
<1>1. LedgerTame /\ CtlTame /\ LiveQuiet
  BY TameMoves, StillQuiet DEF TameMove
<1>2. PassTame
  BY DEF PassTame, OnePass
<1> QED
  BY <1>1, <1>2, FenceStep DEF LiveQuiet, IndexStrict, IndexTame

LEMMA ReleaseMemberEffect ==
    ASSUME LocalInv, NEW p \in Owners, ReleaseMember(p)
    PROVE  /\ rp[p].pc = "release" /\ rp[p].run \in Runs
           /\ index' = index \ {<<rp[p].run, rp[p].cand>>}
           /\ Terminal(rp[p].run) \/ rp[p].cand < runs[rp[p].run].token
           /\ OnePass(p) /\ rp'[p].pc = "idle" /\ UNCHANGED <<lvars, livegen, view, ref, stat, ctl>>
BY PassFacts, RestPass DEF ReleaseMember, Working, Entries, PassOk, Terminal

LEMMA ReleaseMemberFence ==
    ASSUME LocalInv, LocalInv', FenceInv, NEW p \in Owners, ReleaseMember(p)
    PROVE  FenceInv'
<1>1. LedgerTame /\ CtlTame
  BY ReleaseMemberEffect, TameMoves, StillQuiet DEF TameMove
<1>2. PassTame /\ ViewTame /\ RefTame
  BY ReleaseMemberEffect DEF PassTame, OnePass, ViewTame, RefTame
<1>3. IndexTame
  BY ReleaseMemberEffect DEF IndexTame
<1> QED
  BY <1>1, <1>2, <1>3, FenceStep

LEMMA InitFenceInv == Init => FenceInv
<1> SUFFICES ASSUME Init PROVE FenceInv
  OBVIOUS
<1>1. \A r \in Runs : runs[r].state = "none" /\ ~ Active(r)
  BY DEF Init, LedgerInit, NoRow, Active, ActiveStates
<1> QED
  BY <1>1 DEF FenceInv, Fenced, ClaimsBehind, RefIndexed

LEMMA NextFence ==
    ASSUME LocalInv, LocalInv', FenceInv, [LifeNext]_vars
    PROVE  FenceInv'
<1>1. CASE Quiet
  BY <1>1, QuietTame, FenceStep
<1>2. ASSUME NEW p \in Owners, NEW r \in Runs,
             \/ ClaimRun(p, r) /\ CanClaim(r, Tok(p, r))
             \/ ActivateFence(p, r) /\ CanActivate(runs[r].session, Tok(p, r))
             \/ Reserving(p, r)
      PROVE  FenceInv'
  BY <1>2, ClaimFence, ActivateTaken, ReserveFence DEF Reserving
<1>3. ASSUME NEW p \in Owners, NEW r \in Runs, NEW t \in Nat,
             Dropping(p, r, t)
      PROVE  FenceInv'
  BY <1>3, PassFence DEF Dropping
<1>4. ASSUME NEW p \in Owners, Sweeping(p)
      PROVE  FenceInv'
  BY <1>4, PassFence DEF Sweeping
<1>5. ASSUME NEW p \in Owners,
             \/ Rereserve(p) \/ ReleaseMember(p)
             \/ Reclaim(p) /\ CanReclaim(rp[p].run, rp[p].token, rp[p].new)
      PROVE  FenceInv'
  BY <1>5, RereserveFence, ReclaimFence, ReleaseMemberFence
<1>6. ASSUME NEW p \in Owners, NEW r \in Runs, Marking(p, r)
      PROVE  FenceInv'
  BY <1>6, PassFence DEF Marking
<1> QED
  BY <1>1, <1>2, <1>3, <1>4, <1>5, <1>6, FlushFence, NextMoves DEF Moves

\* claimAndStart, StartRun and the recovery of parked runs: whoever is shown as
\* working on a run that is not over may persist it (ReservedIsFenced), with any faults.
THEOREM FenceTheorem == LifeSpec => []ReservedIsFenced
<1>1. LocalInv /\ LocalInv' /\ FenceInv /\ [LifeNext]_vars => FenceInv'
  BY NextFence
<1>2. FenceInv => ReservedIsFenced
  BY DEF FenceInv, Fenced, ReservedIsFenced, Reserved, UnderToken
<1> QED
  BY <1>1, <1>2, InitFenceInv, LocalTheorem, PTL DEF LifeSpec

-----------------------------------------------------------------------------
(* ShownInv: what is shown as active stays in the index.                   *)

Bidding == {"drawn", "claimed", "fenced"}
Recovering == {"reclaim", "rereserve"}

\* p may still reserve r under token k: as its claimer, or as a reaper.
ClaimBid(p, r, k) == ctl[p][r].pc \in Bidding /\ Tok(p, r) = k
PassBid(p, r, k) == rp[p].pc \in Recovering /\ rp[p].run = r /\ rp[p].new = k

Carries(p, r) == rp[p].pc \notin {"idle", "sweep"} /\ rp[p].run = r

\* A token that somebody may still reserve with is in no index entry, and no pass
\* has picked it up there.
Free(r, k) == <<r, k>> \notin index /\ \A q \in Owners : Carries(q, r) => rp[q].cand # k

FreshBids ==
    \A p \in Owners, r \in Runs, k \in Nat :
        ClaimBid(p, r, k) \/ PassBid(p, r, k) => Free(r, k)

\* Nobody else may reserve with it.
BidsApart ==
    \A p, o \in Owners, r \in Runs, k \in Nat :
        /\ ClaimBid(p, r, k) /\ ClaimBid(o, r, k) => p = o
        /\ PassBid(p, r, k) /\ PassBid(o, r, k) => p = o
        /\ ~ (ClaimBid(p, r, k) /\ PassBid(o, r, k))

\* A pass has picked up a token that its run has or had.
CandsBehind ==
    \A p \in Owners, r \in Runs : Carries(p, r) => rp[p].cand =< runs[r].token

BidInv == FreshBids /\ BidsApart /\ CandsBehind

\* The lease of a run that is shown as active is the one that is shown, if any.
RefShown ==
    \A s \in Sessions : view[s].status \in LiveStatuses =>
        1 =< view[s].token /\ ref[view[s].run] \in {0, view[s].token}

\* An entry that a pass is about to drop is not the one of a run shown as active.
ReleasesApart ==
    \A p \in Owners : rp[p].pc = "release" => ~ Shown(<<rp[p].run, rp[p].cand>>)

ShownInv == BidInv /\ ShownIsIndexed /\ RefShown /\ ReleasesApart

-----------------------------------------------------------------------------
\* The claims that may still reserve stay as they are or are given up, or one is drawn.
ClaimsKept ==
    \A p \in Owners, r \in Runs : ctl'[p][r].pc \in Bidding =>
        \/ ctl[p][r].pc \in Bidding /\ ctl'[p][r].token = ctl[p][r].token
        \/ Draw(p, r)

\* So do the passes; and what they have picked up stays, or is in the index.
Picks(p) == Keeps(p) \/ rp'[p].cand = 0 \/ <<rp'[p].run, rp'[p].cand>> \in index

PassKept(p) ==
    \/ rp'[p] = rp[p]
    \/ Recovers(p)
    \/ /\ rp'[p].pc \in Recovering =>
             rp[p].pc \in Recovering /\ rp'[p].run = rp[p].run /\ rp'[p].new = rp[p].new
       /\ rp'[p].pc \notin {"idle", "sweep"} => Picks(p)

LEMMA BidFacts ==
    ASSUME LocalInv, NEW p \in Owners, NEW r \in Runs, NEW k, ClaimBid(p, r, k) \/ PassBid(p, r, k)
    PROVE  k \in Nat /\ 1 =< k /\ k =< seq /\ seq \in Nat
<1>1. /\ CtlOk(ctl[p][r], runs[r], seq) /\ ctl[p][r] \in Controls
      /\ PassOk(rp[p], runs[rp[p].run], seq) /\ seq \in Nat /\ rp[p] \in Passes
  BY RunFacts DEF LocalInv
<1>2. CASE ClaimBid(p, r, k)
  BY <1>1, <1>2 DEF ClaimBid, Bidding, Tok, CtlOk, Beyond, Controls
<1>3. CASE PassBid(p, r, k)
  BY <1>1, <1>3 DEF PassBid, Recovering, PassOk, Passes
<1> QED
  BY <1>2, <1>3

\* An entry of the index is behind its run's token.
LEMMA EntryBehind ==
    ASSUME LocalInv, NEW r, NEW k, <<r, k>> \in index
    PROVE  r \in Runs /\ k \in Nat /\ k =< runs[r].token
<1>1. PICK e \in index : e = <<r, k>>
  OBVIOUS
<1>2. e \in Runs \X Nat /\ e[2] =< runs[e[1]].token /\ e[1] = r /\ e[2] = k
  BY <1>1 DEF LocalInv, LiveOk
<1> QED
  BY <1>2

\* A token that was not drawn yet is free.
LEMMA NewIsFree ==
    ASSUME LocalInv, CandsBehind, NEW r \in Runs, NEW k \in Nat, seq < k
    PROVE  Free(r, k)
<1>1. runs[r].token =< seq /\ runs[r].token \in Nat /\ seq \in Nat
  BY RunFacts
<1>2. \A q \in Owners : Carries(q, r) => rp[q].cand =< runs[r].token /\ rp[q].cand \in Nat
  BY DEF CandsBehind, LocalInv, Passes
<1> QED
  BY <1>1, <1>2, EntryBehind DEF Free

\* What a pass picks up is behind the row's token, and was not free.
LEMMA CandStep ==
    ASSUME LocalInv, CandsBehind, NEW p \in Owners, NEW r \in Runs, runs[r].token =< runs'[r].token,
           runs'[r].token \in Nat, rp'[p].pc \notin {"idle", "sweep"}, rp'[p].run = r,
           rp'[p] = rp[p] \/ Picks(p)
    PROVE  /\ rp'[p].cand =< runs'[r].token
           /\ \A k \in Nat : 1 =< k /\ Free(r, k) => rp'[p].cand # k
<1>1. runs[r].token \in Nat /\ rp[p].cand \in Nat
  BY RunFacts DEF LocalInv, Passes
<1>2. CASE rp'[p] = rp[p] \/ Keeps(p)
  <2>1. Carries(p, r) /\ rp'[p].cand = rp[p].cand
    BY <1>2 DEF Carries, Keeps
  <2>2. rp[p].cand =< runs[r].token
    BY <2>1 DEF CandsBehind
  <2> QED
    BY <1>1, <2>1, <2>2 DEF Free
<1>3. CASE rp'[p].cand = 0
  BY <1>1, <1>3
<1>4. CASE <<r, rp'[p].cand>> \in index
  BY <1>1, <1>4, EntryBehind DEF Free
<1> QED
  BY <1>2, <1>3, <1>4 DEF Picks

LEMMA DrawEffect ==
    ASSUME LocalInv, NEW p \in Owners, NEW r \in Runs, Draw(p, r)
    PROVE  /\ OneCtl(p, r) /\ ctl'[p][r].pc = "drawn" /\ ctl'[p][r].token = seq + 1
           /\ rp' = rp /\ index' = index
<1> DEFINE c == [ctl[p][r] EXCEPT !.pc = "drawn", !.token = seq + 1, !.gen = livegen]
<1>1. ctl \in [Owners -> [Runs -> Controls]] /\ ctl[p][r] \in Controls
  BY DEF LocalInv
<1>2. c.pc = "drawn" /\ c.token = seq + 1
  BY <1>1 DEF Controls
<1>3. ctl' = [ctl EXCEPT ![p][r] = c] /\ rp' = rp /\ index' = index
  BY <1>1 DEF Draw, live
<1> HIDE DEF c
<1> QED
  BY <1>1, <1>2, <1>3 DEF OneCtl

\* Bids are made with new tokens, one at a time, and an entry ends the bid it comes from.
LEMMA BidStep ==
    ASSUME LocalInv, LocalInv', BidInv, \A r \in Runs : runs[r].token =< runs'[r].token,
           ClaimsKept, \A p \in Owners : PassKept(p),
           \A e \in index' : e \in index \/
               \A p \in Owners : ~ ClaimBid(p, e[1], e[2])' /\ ~ PassBid(p, e[1], e[2])'
    PROVE  BidInv'
<1>1. ASSUME NEW p \in Owners, NEW r \in Runs, NEW k \in Nat, ClaimBid(p, r, k)'
      PROVE  \/ ClaimBid(p, r, k)
             \/ k = seq + 1 /\ OneCtl(p, r) /\ rp' = rp
  <2>1. ctl'[p][r].pc \in Bidding /\ ctl'[p][r].token = k
    BY <1>1 DEF ClaimBid, Tok
  <2>2. CASE Draw(p, r)
    BY <2>1, <2>2, DrawEffect
  <2> QED
    BY <2>1, <2>2 DEF ClaimsKept, ClaimBid, Tok
<1>2. ASSUME NEW p \in Owners, NEW r \in Runs, NEW k \in Nat, PassBid(p, r, k)'
      PROVE  PassBid(p, r, k) \/ (k = seq + 1 /\ OnePass(p))
  BY <1>2 DEF PassBid, PassKept, Recovers
<1>3. BidsApart'
  <2> SUFFICES ASSUME NEW p \in Owners, NEW o \in Owners, NEW r \in Runs, NEW k \in Nat
               PROVE  /\ ClaimBid(p, r, k)' /\ ClaimBid(o, r, k)' => p = o
                      /\ PassBid(p, r, k)' /\ PassBid(o, r, k)' => p = o
                      /\ ~ (ClaimBid(p, r, k)' /\ PassBid(o, r, k)')
    BY DEF BidsApart
  <2>1. \A q \in Owners : ClaimBid(q, r, k) \/ PassBid(q, r, k) => k # seq + 1
    BY BidFacts
  <2>2. ASSUME ClaimBid(p, r, k)', ClaimBid(o, r, k)', p # o PROVE FALSE
    <3>1. OneCtl(p, r) => (ClaimBid(o, r, k)' => ClaimBid(o, r, k))
      BY <2>2 DEF OneCtl, ClaimBid, Tok
    <3>2. OneCtl(o, r) => (ClaimBid(p, r, k)' => ClaimBid(p, r, k))
      BY <2>2 DEF OneCtl, ClaimBid, Tok
    <3> QED
      BY <1>1, <2>1, <2>2, <3>1, <3>2 DEF BidInv, BidsApart
  <2>3. ASSUME PassBid(p, r, k)', PassBid(o, r, k)', p # o PROVE FALSE
    <3>1. OnePass(p) => (PassBid(o, r, k)' => PassBid(o, r, k))
      BY <2>3 DEF OnePass, PassBid
    <3>2. OnePass(o) => (PassBid(p, r, k)' => PassBid(p, r, k))
      BY <2>3 DEF OnePass, PassBid
    <3> QED
      BY <1>2, <2>1, <2>3, <3>1, <3>2 DEF BidInv, BidsApart
  <2>4. ASSUME ClaimBid(p, r, k)', PassBid(o, r, k)' PROVE FALSE
    <3>1. rp' = rp => (PassBid(o, r, k)' => PassBid(o, r, k))
      BY DEF PassBid
    <3>2. ClaimBid(p, r, k) \/ PassBid(o, r, k)
      BY <1>1, <2>4, <3>1
    <3>3. ClaimBid(p, r, k)
      BY <1>1, <2>1, <2>4, <3>2
    <3>4. PassBid(o, r, k)
      BY <1>2, <2>1, <2>4, <3>2
    <3> QED
      BY <3>3, <3>4 DEF BidInv, BidsApart
  <2> QED
    BY <2>2, <2>3, <2>4
<1>4. ASSUME NEW p \in Owners, NEW r \in Runs, Carries(p, r)'
      PROVE  /\ rp'[p].cand =< runs'[r].token
             /\ \A k \in Nat : 1 =< k /\ Free(r, k) => rp'[p].cand # k
  <2>1. rp'[p].pc \notin {"idle", "sweep"} /\ rp'[p].run = r
    BY <1>4 DEF Carries
  <2>2. rp'[p] = rp[p] \/ Picks(p)
    BY <2>1 DEF PassKept, Recovers, Picks
  <2>3. runs'[r].token \in Nat
    BY DEF LocalInv, LedgerInv, TypeOK, Rows
  <2> QED
    BY <2>1, <2>2, <2>3, CandStep DEF BidInv
<1>5. FreshBids'
  <2> SUFFICES ASSUME NEW p \in Owners, NEW r \in Runs, NEW k \in Nat,
                      ClaimBid(p, r, k)' \/ PassBid(p, r, k)'
               PROVE  Free(r, k)'
    BY DEF FreshBids
  <2>1. 1 =< k /\ Free(r, k)
    <3>1. CASE ClaimBid(p, r, k) \/ PassBid(p, r, k)
      BY <3>1, BidFacts DEF BidInv, FreshBids
    <3>2. CASE k = seq + 1
      BY <3>2, NewIsFree, RunFacts DEF BidInv
    <3> QED
      BY <1>1, <1>2, <3>1, <3>2
  <2>2. <<r, k>> \notin index'
    <3> SUFFICES ASSUME <<r, k>> \in index' PROVE FALSE
      OBVIOUS
    <3>1. PICK e \in index' : e = <<r, k>>
      OBVIOUS
    <3>2. e[1] = r /\ e[2] = k /\ e \notin index
      BY <2>1, <3>1 DEF Free
    <3> QED
      BY <3>2
  <2> QED
    BY <1>4, <2>1, <2>2 DEF Free
<1> QED
  BY <1>3, <1>4, <1>5 DEF BidInv, CandsBehind

\* The live half stays, and no pass is about to drop what is shown.
LEMMA StillShown ==
    ASSUME ShownIsIndexed, RefShown, ReleasesApart, UNCHANGED <<view, ref, index>>,
           \A p \in Owners : rp'[p].pc = "release" =>
               rp'[p] = rp[p] \/ ~ Shown(<<rp'[p].run, rp'[p].cand>>)
    PROVE  ShownIsIndexed' /\ RefShown' /\ ReleasesApart'
<1>1. ShownIsIndexed' /\ RefShown'
  BY DEF ShownIsIndexed, RefShown
<1>2. \A e : Shown(e)' => Shown(e)
  BY DEF Shown
<1>3. ReleasesApart'
  BY <1>2 DEF ReleasesApart
<1> QED
  BY <1>1, <1>3

LEMMA QuietShown ==
    ASSUME LocalInv, LocalInv', ShownInv, Quiet
    PROVE  ShownInv'
<1>1. LedgerTame /\ CtlTame /\ ViewTame /\ RefTame /\ IndexStrict /\ PassQuiet
  BY DEF Quiet, LiveQuiet
<1>2. BidInv'
  <2>1. \A r \in Runs : runs[r].token =< runs'[r].token
    BY <1>1, RunFacts DEF LedgerTame
  <2>2. ClaimsKept
    BY <1>1 DEF CtlTame, ClaimsKept, Bidding, Holding
  <2>3. \A p \in Owners : PassKept(p)
    BY <1>1 DEF PassQuiet, PassKept, Recovering, Picks
  <2> QED
    BY <1>1, <2>1, <2>2, <2>3, BidStep DEF ShownInv, IndexStrict
<1>3. ASSUME NEW s \in Sessions, view'[s].status \in LiveStatuses
      PROVE  /\ view[s].status \in LiveStatuses /\ view[s].run \in Runs
             /\ view'[s].run = view[s].run /\ view'[s].token = view[s].token
  <2>1. /\ view[s].status \in LiveStatuses
        /\ view'[s].run = view[s].run /\ view'[s].token = view[s].token
    BY <1>1, <1>3 DEF ViewTame
  <2> QED
    BY <2>1 DEF LocalInv, LiveOk, ViewOk, LiveStatuses
<1>4. \A e : Shown(e)' => Shown(e)
  BY <1>3 DEF Shown
<1>5. ShownIsIndexed'
  <2> SUFFICES ASSUME NEW s \in Sessions, view'[s].status \in LiveStatuses
               PROVE  <<view'[s].run, view'[s].token>> \in index'
    BY DEF ShownIsIndexed
  <2>1. PICK e \in index : e = <<view'[s].run, view'[s].token>>
    BY <1>3 DEF ShownInv, ShownIsIndexed
  <2>2. Shown(e)'
    BY <2>1 DEF Shown
  <2> QED
    BY <1>1, <2>1, <2>2 DEF IndexStrict
<1>6. RefShown'
  BY <1>1, <1>3 DEF ShownInv, RefShown, RefTame
<1>7. ReleasesApart'
  <2> SUFFICES ASSUME NEW p \in Owners, rp'[p].pc = "release",
                      Shown(<<rp[p].run, rp[p].cand>>)'
               PROVE  FALSE
    BY DEF ReleasesApart
  <2>1. CASE rp'[p] = rp[p]
    BY <1>4, <2>1 DEF ShownInv, ReleasesApart
  <2>2. PICK s \in Sessions : view'[s].status \in LiveStatuses /\ view'[s].run = rp'[p].run
    BY DEF Shown
  <2>3. view'[s].token # 0
    BY <1>6, <2>2 DEF RefShown
  <2> QED
    BY <1>1, <2>1, <2>2, <2>3 DEF PassQuiet, Recovers
<1> QED
  BY <1>2, <1>5, <1>6, <1>7 DEF ShownInv

\* A reservation lands under a token that is free.
LEMMA StartShown ==
    ASSUME LocalInv, ShownIsIndexed, RefShown, ReleasesApart, NEW r \in Runs, NEW t \in Nat, 1 =< t,
           Free(r, t), NEW st, StartLive(r, t, st), runs[r].state # "none",
           \A o \in Owners : rp'[o].pc = "release" =>
               rp'[o] = rp[o] \/ (rp'[o].run = r /\ rp'[o].cand # t)
    PROVE  ShownIsIndexed' /\ RefShown' /\ ReleasesApart'
<1> DEFINE s == runs[r].session
           v == [run |-> r, token |-> t, status |-> st]
<1>1. /\ s \in Sessions /\ view \in [Sessions -> Views] /\ ref \in [Runs -> Nat]
      /\ \A o \in Sessions : view[o].run = r => o = s
      /\ \A o \in Sessions : view[o].status \in LiveStatuses => view[o].run \in Runs
  BY RunFacts DEF LocalInv, LiveOk, ViewOk, LiveStatuses
<1>2. /\ v.run = r /\ v.token = t /\ view' = [view EXCEPT ![s] = v]
      /\ ref' = [ref EXCEPT ![r] = t] /\ index' = index \cup {<<r, t>>}
  BY DEF StartLive
<1> HIDE DEF s, v
<1>3. /\ view'[s].run = r /\ view'[s].token = t
      /\ \A o \in Sessions \ {s} : view'[o] = view[o] /\ view'[o].run # r
  BY <1>1, <1>2
<1>4. ShownIsIndexed'
  BY <1>2, <1>3 DEF ShownIsIndexed
<1>5. RefShown'
  BY <1>1, <1>2, <1>3 DEF RefShown
<1>6. ReleasesApart'
  <2> SUFFICES ASSUME NEW p \in Owners, rp'[p].pc = "release",
                      Shown(<<rp[p].run, rp[p].cand>>)'
               PROVE  FALSE
    BY DEF ReleasesApart
  <2>1. PICK o \in Sessions : /\ view'[o].status \in LiveStatuses
                              /\ view'[o].run = rp'[p].run /\ view'[o].token = rp'[p].cand
    BY DEF Shown
  <2>2. CASE o = s
    <3>1. rp'[p].run = r /\ rp'[p].cand = t
      BY <1>3, <2>1, <2>2
    <3>2. rp'[p] = rp[p]
      BY <3>1
    <3>3. Carries(p, r) /\ rp[p].cand = t
      BY <3>1, <3>2 DEF Carries
    <3> QED
      BY <3>3 DEF Free
  <2>3. CASE o # s
    <3>1. view[o] = view'[o] /\ rp'[p].run # r
      BY <1>3, <2>1, <2>3
    <3>2. rp'[p] = rp[p]
      BY <3>1
    <3>3. Shown(<<rp[p].run, rp[p].cand>>)
      BY <2>1, <3>1, <3>2 DEF Shown
    <3> QED
      BY <3>2, <3>3 DEF ReleasesApart
  <2> QED
    BY <2>2, <2>3
<1> QED
  BY <1>4, <1>5, <1>6

LEMMA ReserveShown ==
    ASSUME LocalInv, LocalInv', ShownInv, NEW p \in Owners, NEW r \in Runs, Reserving(p, r)
    PROVE  ShownInv'
<1>0. PICK t \in Nat : t = Tok(p, r)
  BY CtlFacts
<1>1. /\ ctl[p][r].pc = "fenced" /\ StartLive(r, t, "admitting") /\ runs' = runs /\ rp' = rp
      /\ \E x \in {"reserved", "abandoning"} : Goto(p, r, x)
  BY <1>0 DEF Reserving, Reserve, ReserveFails, At, lvars
<1>2. ClaimBid(p, r, t) /\ 1 =< t /\ runs[r].state # "none"
  BY <1>0, <1>1, CtlFacts DEF ClaimBid, Bidding, CtlOk, Beyond
<1>3. OneCtl(p, r) /\ ctl'[p][r].pc \in {"reserved", "abandoning"}
  BY <1>1, GotoCtl
<1>4. index' = index \cup {<<r, t>>}
  BY <1>1 DEF StartLive
<1>5. Free(r, t)
  BY <1>2 DEF ShownInv, BidInv, FreshBids
<1>6. BidInv'
  <2>1. \A o \in Owners : ~ ClaimBid(o, r, t)'
    <3> SUFFICES ASSUME NEW o \in Owners, ClaimBid(o, r, t)' PROVE FALSE
      OBVIOUS
    <3>1. o # p
      BY <1>3 DEF ClaimBid, Bidding
    <3>2. ClaimBid(o, r, t)
      BY <1>3, <3>1 DEF ClaimBid, OneCtl, Tok
    <3> QED
      BY <1>2, <3>1, <3>2 DEF ShownInv, BidInv, BidsApart
  <2>2. \A o \in Owners : ~ PassBid(o, r, t)'
    BY <1>1, <1>2 DEF PassBid, ShownInv, BidInv, BidsApart
  <2>3. \A e \in index' : e \in index \/
            \A o \in Owners : ~ ClaimBid(o, e[1], e[2])' /\ ~ PassBid(o, e[1], e[2])'
    BY <1>4, <2>1, <2>2
  <2>4. ClaimsKept
    BY <1>3 DEF ClaimsKept, OneCtl, Bidding
  <2>5. \A o \in Owners : PassKept(o)
    BY <1>1 DEF PassKept
  <2>6. \A q \in Runs : runs[q].token =< runs'[q].token
    BY <1>1, RunFacts
  <2> QED
    BY <2>3, <2>4, <2>5, <2>6, BidStep DEF ShownInv
<1> QED
  BY <1>1, <1>2, <1>5, <1>6, StartShown DEF ShownInv

LEMMA RereserveShown ==
    ASSUME LocalInv, LocalInv', ShownInv, NEW p \in Owners, Rereserve(p)
    PROVE  ShownInv'
<1>0. PICK r \in Runs, t \in Nat : r = rp[p].run /\ t = rp[p].new
  BY RereserveEffect
<1>1. /\ rp[p].pc = "rereserve" /\ StartLive(r, t, "waiting") /\ runs' = runs
      /\ OneCtl(p, r) /\ ctl'[p][r].pc = "parked" /\ OnePass(p) /\ rp'[p].pc \in {"idle", "release"}
      /\ rp'[p].pc = "release" => rp'[p].run = r /\ rp'[p].cand = rp[p].cand
      /\ runs[r].state # "none" /\ 1 =< t /\ rp[p].cand < t /\ rp[p].cand \in Nat
  BY <1>0, RereserveEffect DEF lvars, Unowned
<1>2. PassBid(p, r, t)
  BY <1>0, <1>1 DEF PassBid, Recovering
<1>3. index' = index \cup {<<r, t>>}
  BY <1>1 DEF StartLive
<1>4. Free(r, t)
  BY <1>1, <1>2 DEF ShownInv, BidInv, FreshBids
<1>5. BidInv'
  <2>1. \A o \in Owners : ~ PassBid(o, r, t)'
    <3> SUFFICES ASSUME NEW o \in Owners, PassBid(o, r, t)' PROVE FALSE
      OBVIOUS
    <3>1. o # p
      BY <1>1 DEF PassBid, Recovering
    <3>2. PassBid(o, r, t)
      BY <1>1, <3>1 DEF PassBid, OnePass
    <3> QED
      BY <1>1, <1>2, <3>1, <3>2 DEF ShownInv, BidInv, BidsApart
  <2>2. \A o \in Owners : ~ ClaimBid(o, r, t)'
    <3> SUFFICES ASSUME NEW o \in Owners, ClaimBid(o, r, t)' PROVE FALSE
      OBVIOUS
    <3>1. o # p
      BY <1>1 DEF ClaimBid, Bidding
    <3>2. ClaimBid(o, r, t)
      BY <1>1, <3>1 DEF ClaimBid, OneCtl, Tok
    <3> QED
      BY <1>1, <1>2, <3>2 DEF ShownInv, BidInv, BidsApart
  <2>3. \A e \in index' : e \in index \/
            \A o \in Owners : ~ ClaimBid(o, e[1], e[2])' /\ ~ PassBid(o, e[1], e[2])'
    BY <1>3, <2>1, <2>2
  <2>4. ClaimsKept
    BY <1>1 DEF ClaimsKept, OneCtl, Bidding
  <2>5. \A o \in Owners : PassKept(o)
    <3>1. ASSUME rp'[p].pc = "release" PROVE Keeps(p)
      BY <1>0, <1>1, <3>1 DEF Keeps
    <3> QED
      BY <1>1, <3>1 DEF PassKept, Recovering, Picks, OnePass
  <2>6. \A q \in Runs : runs[q].token =< runs'[q].token
    BY <1>1, RunFacts
  <2> QED
    BY <2>3, <2>4, <2>5, <2>6, BidStep DEF ShownInv
<1>6. \A o \in Owners : rp'[o].pc = "release" =>
          rp'[o] = rp[o] \/ (rp'[o].run = r /\ rp'[o].cand # t)
  BY <1>1 DEF OnePass
<1> QED
  BY <1>1, <1>4, <1>5, <1>6, StartShown DEF ShownInv

\* The steps that leave the live half alone: claim, fence, reclaim, and the passes.
LEMMA LedgerShown ==
    ASSUME LocalInv, LocalInv', ShownInv, NEW p \in Owners, NEW r \in Runs,
           \/ ClaimRun(p, r) /\ CanClaim(r, Tok(p, r))
           \/ ActivateFence(p, r) /\ CanActivate(runs[r].session, Tok(p, r))
    PROVE  ShownInv'
<1>1. /\ UNCHANGED live /\ rp' = rp /\ ctl[p][r].pc \in Bidding
      /\ \E x \in Bidding : Goto(p, r, x)
  BY DEF ClaimRun, ActivateFence, At, Bidding
<1>2. ClaimsKept
  <2>1. OneCtl(p, r) /\ ctl'[p][r].token = ctl[p][r].token
    BY <1>1, GotoCtl
  <2> QED
    BY <1>1, <2>1 DEF ClaimsKept, OneCtl
<1>3. \A q \in Runs : runs[q].token =< runs'[q].token
  <2>1. CASE ClaimRun(p, r) /\ CanClaim(r, Tok(p, r))
    BY <2>1, ClaimEffect, RunFacts
  <2>2. CASE ActivateFence(p, r) /\ CanActivate(runs[r].session, Tok(p, r))
    <3>1. runs' = runs
      BY <2>2 DEF ActivateFence, Activate
    <3> QED
      BY <3>1, RunFacts
  <2> QED
    BY <2>1, <2>2
<1>4. BidInv'
  BY <1>1, <1>2, <1>3, BidStep DEF ShownInv, PassKept, live
<1> QED
  BY <1>1, <1>4, StillShown DEF ShownInv, live

LEMMA ReclaimShown ==
    ASSUME LocalInv, LocalInv', ShownInv, NEW p \in Owners, Reclaim(p),
           CanReclaim(rp[p].run, rp[p].token, rp[p].new)
    PROVE  ShownInv'
<1> DEFINE r == rp[p].run
<1>1. /\ r \in Runs /\ runs'[r].token = rp[p].new /\ runs[r].token < rp[p].new
      /\ rp[p].new \in Nat /\ runs[r].token \in Nat /\ \A q \in Runs \ {r} : runs'[q] = runs[q]
      /\ UNCHANGED live /\ (UNCHANGED ctl \/ Forget(p, r))
      /\ OnePass(p) /\ rp'[p].pc \in {"idle", "rereserve"}
      /\ rp'[p].pc = "rereserve" =>
            rp'[p].run = r /\ rp'[p].new = rp[p].new /\ rp'[p].cand = rp[p].cand
      /\ rp[p].pc = "reclaim"
  BY ReclaimEffect
<1>2. ClaimsKept
  BY <1>1, ForgetCtl DEF ClaimsKept, OneCtl, Bidding
<1>3. \A q \in Runs : runs[q].token =< runs'[q].token
  BY <1>1, RunFacts
<1>4. \A o \in Owners : PassKept(o)
  BY <1>1 DEF PassKept, OnePass, Recovering, Picks, Keeps
<1>5. BidInv'
  BY <1>1, <1>2, <1>3, <1>4, BidStep DEF ShownInv, live
<1>6. \A o \in Owners : rp'[o].pc = "release" => rp'[o] = rp[o]
  BY <1>1 DEF OnePass
<1> QED
  BY <1>1, <1>5, <1>6, StillShown DEF ShownInv, live

\* A pass moves on and writes nothing but its own place.
LEMMA PassShown ==
    ASSUME LocalInv, LocalInv', ShownInv, NEW p \in Owners, OnePass(p), UNCHANGED <<lvars, live, ctl>>,
           rp'[p].pc \notin Recovering, rp'[p].pc \notin {"idle", "sweep"} => Picks(p),
           rp'[p].pc = "release" => ~ Shown(<<rp'[p].run, rp'[p].cand>>)
    PROVE  ShownInv'
<1>1. ClaimsKept /\ \A q \in Runs : runs[q].token =< runs'[q].token
  BY RunFacts DEF ClaimsKept, lvars
<1>2. \A o \in Owners : PassKept(o)
  BY DEF PassKept, OnePass
<1>3. BidInv'
  BY <1>1, <1>2, BidStep DEF ShownInv, live
<1>4. \A o \in Owners : rp'[o].pc = "release" =>
          rp'[o] = rp[o] \/ ~ Shown(<<rp'[o].run, rp'[o].cand>>)
  BY DEF OnePass
<1> QED
  BY <1>3, <1>4, StillShown DEF ShownInv, live

\* A candidate behind the lease of its run is not what is shown.
LEMMA DroppingShown ==
    ASSUME LocalInv, LocalInv', ShownInv, NEW p \in Owners, NEW r \in Runs, NEW t \in Nat,
           Dropping(p, r, t)
    PROVE  ShownInv'
<1>1. ~ Shown(<<r, t>>)
  <2> SUFFICES ASSUME NEW s \in Sessions, view[s].status \in LiveStatuses, view[s].run = r,
                      view[s].token = t
               PROVE  FALSE
    BY DEF Shown
  <2>1. ref[r] \in {0, t}
    BY DEF ShownInv, RefShown
  <2> QED
    BY <2>1, RunFacts DEF Dropping
<1>2. Picks(p)
  BY DEF Dropping, Picks
<1> QED
  BY <1>1, <1>2, PassShown DEF Dropping, Recovering

LEMMA ReleaseMemberShown ==
    ASSUME LocalInv, LocalInv', ShownInv, NEW p \in Owners, ReleaseMember(p)
    PROVE  ShownInv'
<1> DEFINE e == <<rp[p].run, rp[p].cand>>
<1>1. /\ rp[p].pc = "release" /\ index' = index \ {e}
      /\ OnePass(p) /\ rp'[p].pc = "idle" /\ UNCHANGED <<lvars, livegen, view, ref, stat, ctl>>
  BY ReleaseMemberEffect
<1>2. BidInv'
  <2>1. ClaimsKept /\ \A q \in Runs : runs[q].token =< runs'[q].token
    BY <1>1, RunFacts DEF ClaimsKept, lvars
  <2>2. \A o \in Owners : PassKept(o)
    BY <1>1 DEF PassKept, OnePass, Recovering
  <2> QED
    BY <1>1, <2>1, <2>2, BidStep DEF ShownInv
<1>3. ~ Shown(e)
  BY <1>1 DEF ShownInv, ReleasesApart
<1>4. ShownIsIndexed'
  <2> SUFFICES ASSUME NEW s \in Sessions, view[s].status \in LiveStatuses
               PROVE  <<view[s].run, view[s].token>> \in index'
    BY <1>1 DEF ShownIsIndexed
  <2>1. <<view[s].run, view[s].token>> \in index
    BY DEF ShownInv, ShownIsIndexed
  <2>2. <<view[s].run, view[s].token>> # e
    BY <1>3 DEF Shown
  <2> QED
    BY <1>1, <2>1, <2>2
<1>5. RefShown'
  BY <1>1 DEF ShownInv, RefShown
<1>6. ReleasesApart'
  <2>1. \A x : Shown(x)' => Shown(x)
    BY <1>1 DEF Shown
  <2> QED
    BY <1>1, <2>1 DEF ShownInv, ReleasesApart, OnePass
<1> QED
  BY <1>2, <1>4, <1>5, <1>6 DEF ShownInv

LEMMA FlushShown ==
    ASSUME LocalInv, LocalInv', ShownInv, Flush
    PROVE  ShownInv'
<1>1. /\ runs' = runs /\ ctl' = ctl /\ rp' = rp /\ index' = {}
      /\ \A s \in Sessions : view'[s].status \notin LiveStatuses
  BY RestOk DEF Flush, lvars, LiveStatuses
<1>2. BidInv'
  <2>1. ClaimsKept /\ (\A q \in Runs : runs[q].token =< runs'[q].token) /\ \A o \in Owners : PassKept(o)
    BY <1>1, RunFacts DEF ClaimsKept, PassKept
  <2> QED
    BY <1>1, <2>1, BidStep DEF ShownInv
<1>3. ShownIsIndexed' /\ RefShown' /\ ReleasesApart'
  BY <1>1 DEF ShownIsIndexed, RefShown, ReleasesApart, Shown
<1> QED
  BY <1>2, <1>3 DEF ShownInv

LEMMA InitShownInv == Init => ShownInv
<1> SUFFICES ASSUME Init PROVE ShownInv
  OBVIOUS
<1>1. \A s \in Sessions : view[s].status \notin LiveStatuses
  BY RestOk DEF Init, LiveStatuses
<1>2. /\ \A p \in Owners, r \in Runs : ctl[p][r].pc = "idle"
      /\ \A p \in Owners : rp[p].pc = "idle"
  BY RestOk DEF Init
<1>3. BidInv
  BY <1>2 DEF BidInv, FreshBids, BidsApart, CandsBehind, ClaimBid, PassBid, Carries, Bidding,
     Recovering
<1> QED
  BY <1>1, <1>2, <1>3 DEF ShownInv, ShownIsIndexed, RefShown, ReleasesApart

LEMMA NextShown ==
    ASSUME LocalInv, LocalInv', ShownInv, [LifeNext]_vars
    PROVE  ShownInv'
<1>1. ASSUME NEW p \in Owners, NEW r \in Runs, Marking(p, r) PROVE ShownInv'
  <2>1. OnePass(p) /\ rp'[p].pc = "mark" /\ Picks(p) /\ UNCHANGED <<lvars, live, ctl>>
    BY <1>1 DEF Marking, Picks
  <2> QED
    BY <2>1, PassShown DEF Recovering
<1>2. ASSUME NEW p \in Owners, Sweeping(p) PROVE ShownInv'
  BY <1>2, PassShown DEF Sweeping, Recovering
<1> QED
  BY <1>1, <1>2, QuietShown, ReserveShown, RereserveShown, LedgerShown, ReclaimShown,
     DroppingShown, ReleaseMemberShown, FlushShown, NextMoves DEF Moves

\* StartRun, reapExpiredLeases, ReleaseLeaseMember, reconcileTerminalLive and the release
\* of an ended run: whatever the live view shows as active has its entry in the index,
\* over or not, so that a pass will come for it.  Any faults may happen.
THEOREM ShownTheorem == LifeSpec => []ShownIsIndexed
<1>1. LocalInv /\ LocalInv' /\ ShownInv /\ [LifeNext]_vars => ShownInv'
  BY NextShown
<1>2. ShownInv => ShownIsIndexed
  BY DEF ShownInv
<1> QED
  BY <1>1, <1>2, InitShownInv, LocalTheorem, PTL DEF LifeSpec

-----------------------------------------------------------------------------
(* ParkedInv.                                                              *)

\* An active run was active, with the same token, before a step that changes
\* neither tokens nor owners, and it keeps its entries.
LEMMA StaysActive ==
    ASSUME LocalInv, LocalInv', LedgerTame, NEW r \in Runs, Active(r)', runs'[r].state # "accepted"
    PROVE  /\ Active(r) /\ runs'[r].token = runs[r].token /\ runs'[r].owner = runs[r].owner
           /\ runs'[r].state = runs[r].state \/ HolderOf(r)
           /\ ~ Terminal(r)
BY RestOk DEF LedgerTame, Active, Terminal, ActiveStates, TerminalStates

LEMMA TerminalStays ==
    ASSUME LocalInv, LocalInv', LedgerTame, NEW r \in Runs, runs[r].state # "none", Terminal(r),
           runs'[r].state # "none"
    PROVE  Terminal(r)'
<1>1. ~ Active(r)
  BY DEF Active, Terminal, ActiveStates, TerminalStates
<1>2. ~ Active(r)'
  BY <1>1 DEF LedgerTame
<1>3. runs' \in [Runs -> Rows]
  BY DEF LocalInv, LedgerInv, TypeOK
<1> QED
  BY <1>2, <1>3 DEF Rows, Active, Terminal

LEMMA ParkedQuiet ==
    ASSUME LocalInv, LocalInv', ParkedInv, Quiet
    PROVE  ParkedInv'
<1>1. LedgerTame /\ CtlTame /\ index' \subseteq index /\ PassQuiet
      /\ \A e \in index \ index' : Terminal(e[1])
  BY DEF Quiet, LiveQuiet, IndexStrict
<1>2. HeldIndexed'
  <2> SUFFICES ASSUME NEW p \in Owners, NEW r \in Runs, ctl'[p][r].pc \in Holding, Active(r)',
                      ctl'[p][r].token = runs'[r].token
               PROVE  <<r, runs'[r].token>> \in index'
    BY DEF HeldIndexed, Tok
  <2>1. ctl[p][r].pc \in Holding /\ ctl'[p][r].token = ctl[p][r].token
    BY <1>1 DEF CtlTame, Holding
  <2>2. runs'[r].state # "accepted"
    BY DEF LocalInv, CtlOk, Beyond
  <2>3. Active(r) /\ runs'[r].token = runs[r].token /\ ~ Terminal(r)
    BY <1>1, <2>2, StaysActive
  <2>4. <<r, runs[r].token>> \in index
    BY <2>1, <2>3 DEF ParkedInv, HeldIndexed, Tok
  <2> QED
    BY <1>1, <2>3, <2>4
<1>3. ParkedIndexed'
  <2> SUFFICES ASSUME NEW r \in Runs, runs'[r].state \in {"waiting", "finishing"}
               PROVE  \E e \in index' : e[1] = r
    BY DEF ParkedIndexed
  <2>1. /\ Active(r) /\ ~ Terminal(r)
        /\ runs[r].state \in {"waiting", "finishing"} \/ HolderOf(r)
    BY <1>1, StaysActive DEF Active, ActiveStates
  <2>2. \E e \in index : e[1] = r
    <3>1. CASE HolderOf(r)
      <4>1. <<r, runs[r].token>> \in index
        BY <2>1, <3>1 DEF HolderOf, ParkedInv, HeldIndexed
      <4> QED
        BY <4>1
    <3>2. CASE runs[r].state \in {"waiting", "finishing"}
      BY <3>2 DEF ParkedInv, ParkedIndexed
    <3> QED
      BY <2>1, <3>1, <3>2
  <2> QED
    BY <1>1, <2>1, <2>2
<1>4. ReleaseLeaves'
  <2> SUFFICES ASSUME NEW p \in Owners, rp'[p].pc = "release", runs'[rp'[p].run].state \notin TerminalStates
               PROVE  \E e \in index' : e[1] = rp'[p].run /\ rp'[p].cand < e[2]
    BY DEF ReleaseLeaves, Terminal
  <2>1. rp'[p] = rp[p]
    BY <1>1 DEF PassQuiet, Recovers, Terminal
  <2>2. rp[p].run \in Runs /\ runs[rp[p].run].state # "none" /\ runs'[rp[p].run].state # "none"
    BY <2>1 DEF LocalInv, PassOk
  <2>3. ~ Terminal(rp[p].run)
    BY <1>1, <2>1, <2>2, TerminalStays DEF Terminal
  <2> QED
    BY <1>1, <2>1, <2>3 DEF ParkedInv, ReleaseLeaves
<1> QED
  BY <1>2, <1>3, <1>4 DEF ParkedInv

\* A run whose ownership moves to a token above every other.
LEMMA ParkedMoved ==
    ASSUME LocalInv, LocalInv', ParkedInv, NEW r \in Runs, Active(r),
           \A q \in Runs \ {r} : runs'[q] = runs[q],
           runs[r].token < runs'[r].token, runs[r].token \in Nat, runs'[r].token \in Nat,
           runs'[r].state \in {"running", runs[r].state}, index' = index,
           \A o \in Owners, q \in Runs : ctl'[o][q].pc \in Holding => ctl'[o][q] = ctl[o][q],
           \A o \in Owners : rp'[o].pc = "release" => rp'[o] = rp[o]
    PROVE  ParkedInv'
<1>1. HeldIndexed'
  <2> SUFFICES ASSUME NEW o \in Owners, NEW q \in Runs, ctl'[o][q].pc \in Holding, Active(q)',
                      ctl'[o][q].token = runs'[q].token
               PROVE  <<q, runs'[q].token>> \in index'
    BY DEF HeldIndexed, Tok
  <2>1. ctl[o][q].pc \in Holding /\ ctl[o][q].token = runs'[q].token /\ ctl[o][q].token =< runs[q].token
    BY CtlFacts DEF CtlOk, Beyond
  <2>2. q # r
    BY <2>1
  <2> QED
    BY <2>1, <2>2 DEF ParkedInv, HeldIndexed, Tok, Active
<1>2. ParkedIndexed'
  BY DEF ParkedInv, ParkedIndexed
<1>3. ReleaseLeaves'
  <2> SUFFICES ASSUME NEW p \in Owners, rp'[p].pc = "release", runs'[rp'[p].run].state \notin TerminalStates
               PROVE  \E e \in index' : e[1] = rp'[p].run /\ rp'[p].cand < e[2]
    BY DEF ReleaseLeaves, Terminal
  <2>1. rp'[p] = rp[p] /\ rp[p].run \in Runs
    BY PassFacts
  <2>2. ~ Terminal(rp[p].run)
    <3>1. ~ Terminal(r)
      BY DEF Active, Terminal, ActiveStates, TerminalStates
    <3> QED
      BY <2>1, <3>1 DEF Terminal
  <2> QED
    BY <2>1, <2>2 DEF ParkedInv, ReleaseLeaves
<1> QED
  BY <1>1, <1>2, <1>3 DEF ParkedInv

\* A step that leaves the runs alone and takes no entry away.
LEMMA ParkedKept ==
    ASSUME ParkedInv, runs' = runs, index \subseteq index',
           \A o \in Owners, q \in Runs : ctl'[o][q].pc \in Holding =>
               \/ ctl[o][q].pc \in Holding /\ ctl'[o][q].token = ctl[o][q].token
               \/ <<q, ctl'[o][q].token>> \in index',
           \A o \in Owners : rp'[o].pc = "release" =>
               rp'[o] = rp[o] \/ \E e \in index' : e[1] = rp'[o].run /\ rp'[o].cand < e[2]
    PROVE  ParkedInv'
<1>1. HeldIndexed'
  BY DEF ParkedInv, HeldIndexed, Active, Tok
<1>2. ParkedIndexed'
  BY DEF ParkedInv, ParkedIndexed
<1>3. ReleaseLeaves'
  BY DEF ParkedInv, ReleaseLeaves, Terminal
<1> QED
  BY <1>1, <1>2, <1>3 DEF ParkedInv

LEMMA ParkedReleased ==
    ASSUME LocalInv, ParkedInv, NEW p \in Owners, ReleaseMember(p)
    PROVE  ParkedInv'
<1> DEFINE r == rp[p].run
           c == rp[p].cand
<1>1. /\ rp[p].pc = "release" /\ r \in Runs /\ index' = index \ {<<r, c>>}
      /\ Terminal(r) \/ c < runs[r].token
      /\ OnePass(p) /\ rp'[p].pc = "idle" /\ runs' = runs /\ ctl' = ctl
      /\ c \in Nat /\ runs[r].token \in Nat
  BY ReleaseMemberEffect, PassFacts DEF lvars
<1>2. ~ Terminal(r) => \E e \in index : e[1] = r /\ c < e[2] /\ e \in index'
  <2> SUFFICES ASSUME ~ Terminal(r) PROVE \E e \in index : e[1] = r /\ c < e[2] /\ e \in index'
    OBVIOUS
  <2>1. PICK e \in index : e[1] = r /\ c < e[2]
    BY <1>1 DEF ParkedInv, ReleaseLeaves
  <2>2. e # <<r, c>>
    BY <1>1, <2>1
  <2> QED
    BY <1>1, <2>1, <2>2
<1> HIDE DEF r, c
<1>3. HeldIndexed'
  <2> SUFFICES ASSUME NEW o \in Owners, NEW q \in Runs, ctl[o][q].pc \in Holding, Active(q),
                      ctl[o][q].token = runs[q].token
               PROVE  <<q, runs[q].token>> \in index'
    BY <1>1 DEF HeldIndexed, Tok, Active
  <2>1. <<q, runs[q].token>> \in index
    BY DEF ParkedInv, HeldIndexed, Tok
  <2>2. <<q, runs[q].token>> # <<r, c>>
    BY <1>1 DEF Active, Terminal, ActiveStates, TerminalStates
  <2> QED
    BY <1>1, <2>1, <2>2
<1>4. ParkedIndexed'
  <2> SUFFICES ASSUME NEW q \in Runs, runs[q].state \in {"waiting", "finishing"}
               PROVE  \E e \in index' : e[1] = q
    BY <1>1 DEF ParkedIndexed
  <2>1. PICK e \in index : e[1] = q
    BY DEF ParkedInv, ParkedIndexed
  <2>2. CASE q = r
    BY <1>2, <2>2 DEF Terminal, TerminalStates
  <2>3. CASE q # r
    BY <1>1, <2>1, <2>3
  <2> QED
    BY <2>2, <2>3
<1>5. ReleaseLeaves'
  <2> SUFFICES ASSUME NEW o \in Owners, rp'[o].pc = "release", runs'[rp'[o].run].state \notin TerminalStates
               PROVE  \E e \in index' : e[1] = rp'[o].run /\ rp'[o].cand < e[2]
    BY DEF ReleaseLeaves, Terminal
  <2>1. rp'[o] = rp[o] /\ ~ Terminal(rp[o].run) /\ rp[o].cand \in Nat /\ rp[o].run \in Runs
    BY <1>1, PassFacts DEF OnePass, Terminal
  <2>2. PICK e \in index : e[1] = rp[o].run /\ rp[o].cand < e[2]
    BY <2>1 DEF ParkedInv, ReleaseLeaves
  <2>3. CASE e = <<r, c>>
    <3>1. PICK d \in index : d[1] = r /\ c < d[2] /\ d \in index'
      BY <1>2, <2>1, <2>2, <2>3
    <3>2. d[2] \in Nat
      BY <3>1 DEF LocalInv, LiveOk
    <3> QED
      BY <1>1, <2>1, <2>2, <2>3, <3>1, <3>2
  <2>4. CASE e # <<r, c>>
    BY <1>1, <2>1, <2>2, <2>4
  <2> QED
    BY <2>3, <2>4
<1> QED
  BY <1>3, <1>4, <1>5 DEF ParkedInv

LEMMA ParkedReserving ==
    ASSUME LocalInv, ParkedInv, NEW p \in Owners, NEW r \in Runs, Reserving(p, r)
    PROVE  ParkedInv'
<1>1. /\ ctl[p][r].pc = "fenced" /\ runs' = runs /\ rp' = rp
      /\ index' = index \cup {<<r, Tok(p, r)>>} /\ \E x \in {"reserved", "abandoning"} : Goto(p, r, x)
  BY DEF Reserving, Reserve, ReserveFails, At, StartLive, lvars
<1>2. OneCtl(p, r) /\ ctl'[p][r].token = Tok(p, r)
  BY <1>1, GotoCtl DEF Tok
<1> QED
  BY <1>1, <1>2, ParkedKept DEF OneCtl

LEMMA ParkedRereserve ==
    ASSUME LocalInv, ParkedInv, NEW p \in Owners, Rereserve(p)
    PROVE  ParkedInv'
<1> DEFINE r == rp[p].run
           t == rp[p].new
<1>1. /\ r \in Runs /\ runs' = runs /\ index' = index \cup {<<r, t>>}
      /\ OneCtl(p, r) /\ ctl'[p][r].token = t
      /\ OnePass(p) /\ rp[p].cand < t
      /\ rp'[p].pc = "release" => rp'[p].run = r /\ rp'[p].cand = rp[p].cand
  <2>1. /\ r \in Runs /\ StartLive(r, t, "waiting") /\ UNCHANGED lvars
        /\ OneCtl(p, r) /\ ctl'[p][r].token = t /\ OnePass(p) /\ rp[p].cand < t
        /\ rp'[p].pc = "release" => rp'[p].run = r /\ rp'[p].cand = rp[p].cand
    BY RereserveEffect
  <2>2. runs' = runs /\ index' = index \cup {<<r, t>>}
    BY <2>1 DEF StartLive, lvars
  <2> QED
    BY <2>1, <2>2
<1>2. \A o \in Owners : rp'[o].pc = "release" =>
         rp'[o] = rp[o] \/ \E e \in index' : e[1] = rp'[o].run /\ rp'[o].cand < e[2]
  <2>1. <<r, t>> \in index' /\ <<r, t>>[1] = r /\ <<r, t>>[2] = t
    BY <1>1
  <2> QED
    BY <1>1, <2>1 DEF OnePass
<1> HIDE DEF r, t
<1> QED
  BY <1>1, <1>2, ParkedKept DEF OneCtl

LEMMA ParkedDropping ==
    ASSUME LocalInv, FenceInv, ParkedInv, NEW p \in Owners, NEW r \in Runs, NEW t \in Nat,
           Dropping(p, r, t)
    PROVE  ParkedInv'
<1>1. <<r, runs[r].token>> \in index
  BY DEF Dropping, FenceInv, RefIndexed
<1>2. \E e \in index : e[1] = r /\ t < e[2]
  BY <1>1 DEF Dropping
<1> QED
  BY <1>2, ParkedKept DEF Dropping, OnePass, lvars, live

LEMMA ParkedClaim ==
    ASSUME LocalInv, LocalInv', ParkedInv, NEW p \in Owners, NEW r \in Runs, ClaimRun(p, r),
           CanClaim(r, Tok(p, r))
    PROVE  ParkedInv'
<1>1. OneCtl(p, r) /\ ctl'[p][r].pc = "claimed"
  BY ClaimEffect, GotoCtl
<1>2. \A o \in Owners, q \in Runs : ctl'[o][q].pc \in Holding => ctl'[o][q] = ctl[o][q]
  BY <1>1 DEF OneCtl, Holding
<1> QED
  BY <1>2, ClaimEffect, ParkedMoved DEF Active, ActiveStates, live

LEMMA ParkedReclaim ==
    ASSUME LocalInv, LocalInv', ParkedInv, NEW p \in Owners, Reclaim(p),
           CanReclaim(rp[p].run, rp[p].token, rp[p].new)
    PROVE  ParkedInv'
<1> DEFINE r == rp[p].run
<1>1. /\ r \in Runs /\ runs[r].state = "waiting" /\ runs'[r].state = "waiting"
      /\ runs[r].token < runs'[r].token /\ runs[r].token \in Nat /\ runs'[r].token \in Nat
      /\ \A q \in Runs \ {r} : runs'[q] = runs[q]
      /\ index' = index /\ (UNCHANGED ctl \/ Forget(p, r))
      /\ OnePass(p) /\ rp'[p].pc # "release" /\ Active(r)
  BY ReclaimEffect DEF live, Active, ActiveStates
<1> HIDE DEF r
<1>2. \A o \in Owners, q \in Runs : ctl'[o][q].pc \in Holding => ctl'[o][q] = ctl[o][q]
  <2>1. CASE Forget(p, r)
    BY <1>1, <2>1, ForgetCtl DEF OneCtl, Holding
  <2> QED
    BY <1>1, <2>1
<1>3. \A o \in Owners : rp'[o].pc = "release" => rp'[o] = rp[o]
  BY <1>1 DEF OnePass
<1> QED
  BY <1>1, <1>2, <1>3, ParkedMoved

LEMMA ParkedPass ==
    ASSUME ParkedInv, NEW p \in Owners, OnePass(p), rp'[p].pc # "release",
           UNCHANGED <<lvars, live, ctl>>
    PROVE  ParkedInv'
BY ParkedKept DEF OnePass, lvars, live

LEMMA ParkedActivate ==
    ASSUME LocalInv, ParkedInv, NEW p \in Owners, NEW r \in Runs, ActivateFence(p, r),
           CanActivate(runs[r].session, Tok(p, r))
    PROVE  ParkedInv'
<1>1. runs' = runs /\ index' = index /\ rp' = rp /\ Goto(p, r, "fenced")
  BY DEF ActivateFence, Activate, live
<1>2. OneCtl(p, r) /\ ctl'[p][r].pc = "fenced"
  BY <1>1, GotoCtl
<1> QED
  BY <1>1, <1>2, ParkedKept DEF OneCtl, Holding

LEMMA NextParked ==
    ASSUME "flush" \notin Faults, LocalInv, LocalInv', FenceInv, ParkedInv, [LifeNext]_vars
    PROVE  ParkedInv'
<1>1. CASE Quiet
  BY <1>1, ParkedQuiet
<1>2. ASSUME NEW p \in Owners, NEW r \in Runs,
             \/ ClaimRun(p, r) /\ CanClaim(r, Tok(p, r))
             \/ ActivateFence(p, r) /\ CanActivate(runs[r].session, Tok(p, r))
             \/ Reserving(p, r)
             \/ Marking(p, r)
      PROVE  ParkedInv'
  BY <1>2, ParkedClaim, ParkedActivate, ParkedReserving, ParkedPass DEF Marking
<1>3. ASSUME NEW p \in Owners, NEW r \in Runs, NEW t \in Nat, Dropping(p, r, t)
      PROVE  ParkedInv'
  BY <1>3, ParkedDropping
<1>4. ASSUME NEW p \in Owners,
             \/ Rereserve(p) \/ ReleaseMember(p)
             \/ Reclaim(p) /\ CanReclaim(rp[p].run, rp[p].token, rp[p].new)
      PROVE  ParkedInv'
  BY <1>4, ParkedRereserve, ParkedReclaim, ParkedReleased
<1> QED
  BY <1>1, <1>2, <1>3, <1>4, NextMoves DEF Moves, Flush, Sweeping

LEMMA InitParkedInv == Init => ParkedInv
<1> SUFFICES ASSUME Init PROVE ParkedInv
  OBVIOUS
<1>1. \A r \in Runs : runs[r].state = "none" /\ ~ Active(r)
  BY DEF Init, LedgerInit, NoRow, Active, ActiveStates
<1>2. \A p \in Owners : rp[p].pc = "idle"
  BY RestOk DEF Init
<1> QED
  BY <1>1, <1>2 DEF ParkedInv, HeldIndexed, ParkedIndexed, ReleaseLeaves

LEMMA ParkedTheorem == ASSUME "flush" \notin Faults PROVE LifeSpec => []ParkedInv
<1>1. LocalInv /\ LocalInv' /\ FenceInv /\ ParkedInv /\ [LifeNext]_vars => ParkedInv'
  BY NextParked
<1>2. LocalInv /\ LocalInv' /\ FenceInv /\ [LifeNext]_vars => FenceInv'
  BY NextFence
<1> QED
  BY <1>1, <1>2, InitFenceInv, InitParkedInv, LocalTheorem, PTL DEF LifeSpec

\* An admission waits for its first owner among the orphans; a reservation and whatever
\* comes after it has an index entry.
LEMMA StrandedClaim ==
    ASSUME LocalInv, ShownIsIndexed, ParkedInv PROVE OnlyClaimsStrand
<1> SUFFICES ASSUME NEW r \in Runs, Active(r), ~ Findable(r)
             PROVE  runs[r].state = "running" /\ ~ Reserved(r)
  BY DEF OnlyClaimsStrand
<1>1. \A e \in index : e[1] # r
  BY DEF Findable
<1>2. runs[r].state # "accepted"
  BY DEF Findable, OrphanedRuns, LocalInv, RowOk
<1>3. runs[r].state \notin {"waiting", "finishing"}
  BY <1>1 DEF ParkedInv, ParkedIndexed
<1>4. ~ Reserved(r)
  <2>1. runs[r].session \in Sessions
    BY RunFacts DEF Active, ActiveStates
  <2> QED
    BY <1>1, <2>1 DEF ShownIsIndexed, Reserved, Shows, ViewOf
<1> QED
  BY <1>2, <1>3, <1>4 DEF Active, ActiveStates

\* claimAndStart, StartRun, recoverWaitingDecision and the handoff on shutdown:
\* who is shown as working on a run may persist it, a shown outcome is durable,
\* and a reserved or parked run, or one whose end was prepared, keeps the pointer a
\* successor finds it by, through crashes, partitions, refusals and overlapping
\* reapers.  What they lose is only a claim that was never reserved.
THEOREM LifeTheorem == ASSUME "flush" \notin Faults PROVE LifeSpec => []LifeInv
<1>1. LocalInv => LifeTypeOK /\ LiveOutcomeIsDurable
  BY DEF LocalInv, LedgerInv, LiveOk, ViewOk, Views, LifeTypeOK, LiveOutcomeIsDurable
<1>2. ParkedInv => ParkedIsFindable
  BY DEF ParkedInv, ParkedIndexed, ParkedIsFindable, Findable
<1>3. LifeTypeOK /\ LiveOutcomeIsDurable /\ ReservedIsFenced /\ ShownIsIndexed
        /\ ParkedIsFindable /\ OnlyClaimsStrand => LifeInv
  BY DEF LifeInv
<1>4. LocalInv /\ ShownIsIndexed /\ ParkedInv => OnlyClaimsStrand
  BY StrandedClaim
<1> QED
  BY <1>1, <1>2, <1>3, <1>4, LocalTheorem, FenceTheorem, ShownTheorem, ParkedTheorem, PTL

\* ReleaseLeaseMember and the cleanup of ended runs: no step takes the last entry of a run
\* that is not over.
LEMMA EntryStays ==
    ASSUME "flush" \notin Faults, LocalInv, LocalInv', ParkedInv, [LifeNext]_vars,
           NEW r \in Runs, NEW e \in index, e[1] = r, Active(r)'
    PROVE  \E d \in index' : d[1] = r
<1>1. ASSUME Quiet PROVE e \in index'
  <2>1. LedgerTame /\ \A d \in index \ index' : Terminal(d[1])
    BY <1>1 DEF Quiet, LiveQuiet, IndexStrict
  <2>2. runs[r].state # "none" /\ runs'[r].state # "none" /\ ~ Terminal(r)'
    BY DEF LocalInv, LiveOk, Unowned, Active, Terminal, ActiveStates, TerminalStates
  <2> QED
    BY <2>1, <2>2, TerminalStays
<1>2. ASSUME NEW p \in Owners, NEW q \in Runs,
             \/ ClaimRun(p, q) /\ CanClaim(q, Tok(p, q))
             \/ ActivateFence(p, q) /\ CanActivate(runs[q].session, Tok(p, q))
             \/ Reserving(p, q)
             \/ Marking(p, q)
      PROVE  e \in index'
  <2>1. CASE ClaimRun(p, q) /\ CanClaim(q, Tok(p, q))
    BY <2>1, ClaimEffect DEF live
  <2>2. CASE ActivateFence(p, q) \/ Marking(p, q)
    BY <2>2 DEF ActivateFence, Marking, live
  <2>3. CASE Reserving(p, q)
    BY <2>3 DEF Reserving, Reserve, ReserveFails, StartLive
  <2> QED
    BY <1>2, <2>1, <2>2, <2>3
<1>3. ASSUME NEW p \in Owners, NEW q \in Runs, NEW t \in Nat, Dropping(p, q, t)
      PROVE  e \in index'
  BY <1>3 DEF Dropping, live
<1>4. ASSUME NEW p \in Owners,
             \/ Rereserve(p)
             \/ Reclaim(p) /\ CanReclaim(rp[p].run, rp[p].token, rp[p].new)
      PROVE  e \in index'
  <2>1. CASE Rereserve(p)
    <3>1. StartLive(rp[p].run, rp[p].new, "waiting")
      BY <2>1, RereserveEffect
    <3> QED
      BY <3>1 DEF StartLive
  <2>2. CASE Reclaim(p) /\ CanReclaim(rp[p].run, rp[p].token, rp[p].new)
    BY <2>2, ReclaimEffect DEF live
  <2> QED
    BY <1>4, <2>1, <2>2
<1>5. ASSUME NEW p \in Owners, ReleaseMember(p)
      PROVE  \E d \in index' : d[1] = r
  <2> DEFINE q == rp[p].run
             c == rp[p].cand
  <2>1. /\ rp[p].pc = "release" /\ index' = index \ {<<q, c>>} /\ runs' = runs
        /\ c \in Nat
    BY <1>5, ReleaseMemberEffect, PassFacts DEF lvars
  <2>2. CASE e = <<q, c>>
    <3>1. ~ Terminal(q)
      BY <2>1, <2>2 DEF Active, Terminal, ActiveStates, TerminalStates
    <3>2. PICK d \in index : d[1] = q /\ c < d[2]
      BY <2>1, <3>1 DEF ParkedInv, ReleaseLeaves
    <3>3. d # <<q, c>>
      BY <2>1, <3>2
    <3> QED
      BY <2>1, <2>2, <3>2, <3>3
  <2>3. CASE e # <<q, c>>
    BY <2>1, <2>3
  <2> QED
    BY <2>2, <2>3
<1> QED
  BY <1>1, <1>2, <1>3, <1>4, <1>5, NextMoves DEF Moves, Flush, Sweeping

\* A run that was once reserved is found by a pass until it has ended, whoever dies.
THEOREM IndexedTheorem == ASSUME "flush" \notin Faults PROVE LifeSpec => StaysIndexed
<1>1. LocalInv /\ LocalInv' /\ ParkedInv /\ [LifeNext]_vars =>
        [\A r \in Runs : ((\E e \in index : e[1] = r) /\ Active(r)')
            => \E e \in index' : e[1] = r]_vars
  BY EntryStays
<1> QED
  BY <1>1, LocalTheorem, ParkedTheorem, PTL DEF LifeSpec, StaysIndexed

-----------------------------------------------------------------------------
(* OwnerInv.                                                               *)

\* A holder has the run's index entry, so that its run is not Unstarted.
LEMMA HolderStarted ==
    ASSUME ParkedInv, NEW r \in Runs, Active(r), HolderOf(r)
    PROVE  \E e \in index : e[1] = r
<1>1. <<r, runs[r].token>> \in index
  BY DEF HolderOf, ParkedInv, HeldIndexed
<1> QED
  BY <1>1

LEMMA QuietControls ==
    ASSUME LocalInv', CtlTame
    PROVE  /\ \A o \in Owners, r \in Runs : ctl'[o][r].pc \in Beyond =>
                 /\ ctl[o][r].pc \in Beyond /\ ctl'[o][r].token = ctl[o][r].token
                 /\ runs'[r].state # "accepted"
           /\ \A o \in Owners, r \in Runs : ctl'[o][r].pc \in {"claimed", "fenced"} =>
                 ctl'[o][r] = ctl[o][r]
<1>1. \A o \in Owners, r \in Runs : ctl'[o][r].pc \in Beyond => runs'[r].state # "accepted"
  BY DEF LocalInv, CtlOk
<1> QED
  BY <1>1 DEF CtlTame, Beyond, Holding

LEMMA OwnersQuiet ==
    ASSUME LocalInv, LocalInv', Quiet, ParkedInv, OwnerInv
    PROVE  OwnerInv'
<1>1. /\ LedgerTame /\ CtlTame /\ index' \subseteq index /\ PassQuiet
      /\ \A r \in Runs : ref'[r] = ref[r] \/ ref'[r] = 0
      /\ \A r \in Runs : runs'[r].token = runs[r].token /\ runs'[r].owner = runs[r].owner
  BY DEF Quiet, LiveQuiet, IndexStrict, RefTame, LedgerTame
<1>2. /\ \A o \in Owners, r \in Runs : ctl'[o][r].pc \in Beyond =>
            /\ ctl[o][r].pc \in Beyond /\ ctl'[o][r].token = ctl[o][r].token
            /\ runs'[r].state # "accepted"
      /\ \A o \in Owners, r \in Runs : ctl'[o][r].pc \in {"claimed", "fenced"} =>
            ctl'[o][r] = ctl[o][r]
  BY <1>1, QuietControls
<1>3. \A p \in Owners : rp'[p].pc \in {"mark", "rereserve"} =>
         /\ rp'[p] = rp[p] /\ rp[p].run \in Runs
         /\ rp[p].pc = "rereserve" => runs'[rp[p].run].state # "accepted"
  <2> SUFFICES ASSUME NEW p \in Owners, rp'[p].pc \in {"mark", "rereserve"}
               PROVE  /\ rp'[p] = rp[p] /\ rp[p].run \in Runs
                      /\ rp[p].pc = "rereserve" => runs'[rp[p].run].state # "accepted"
    OBVIOUS
  <2>1. rp'[p] = rp[p]
    BY <1>1 DEF PassQuiet, Recovers
  <2> QED
    BY <2>1 DEF LocalInv, PassOk
<1>4. OwnersMatch'
  BY <1>1, <1>2, <1>3 DEF OwnersMatch, OwnerInv, Tok
<1>5. Starting'
  <2> SUFFICES ASSUME NEW p \in Owners, NEW r \in Runs, ctl'[p][r].pc \in {"claimed", "fenced"},
                      Active(r)'
               PROVE  runs'[r].state = "running" /\ Tok(p, r)' = runs'[r].token /\ Unstarted(r)'
    BY DEF Starting
  <2>1. ctl'[p][r] = ctl[p][r] /\ runs'[r].state # "accepted"
    BY <1>2 DEF Beyond
  <2>2. Active(r) /\ (runs'[r].state = runs[r].state \/ HolderOf(r))
    BY <1>1, <2>1, StaysActive
  <2>3. runs[r].state = "running" /\ Tok(p, r) = runs[r].token /\ Unstarted(r)
    BY <2>1, <2>2 DEF OwnerInv, Starting
  <2>4. ~ HolderOf(r)
    BY <2>2, <2>3, HolderStarted DEF Unstarted
  <2>5. Unstarted(r)'
    BY <1>1, <1>3, <2>3 DEF Unstarted
  <2> QED
    BY <1>1, <2>1, <2>2, <2>3, <2>4, <2>5 DEF Tok
<1>6. RecoveryApart'
  <2> SUFFICES ASSUME NEW p \in Owners, rp'[p].pc = "rereserve"
               PROVE  LET r == rp'[p].run IN
                      /\ \A o \in Owners : ctl'[o][r].pc \in Beyond => ctl'[o][r].token # rp'[p].new
                      /\ \A o \in Owners : (rp'[o].pc = "rereserve" /\ rp'[o].run = r /\ o # p)
                                              => rp'[o].new # rp'[p].new
                      /\ (runs'[r].state \in ActiveStates /\ rp'[p].new = runs'[r].token)
                            => runs'[r].state = "waiting"
    BY DEF RecoveryApart, Tok, Active
  <2> DEFINE r == rp[p].run
  <2>1. rp'[p] = rp[p] /\ r \in Runs /\ rp[p].pc = "rereserve" /\ runs'[r].state # "accepted"
    BY <1>3
  <2>2. /\ \A o \in Owners : ctl[o][r].pc \in Beyond => ctl[o][r].token # rp[p].new
        /\ \A o \in Owners : (rp[o].pc = "rereserve" /\ rp[o].run = r /\ o # p)
                                => rp[o].new # rp[p].new
        /\ (Active(r) /\ rp[p].new = runs[r].token) => runs[r].state = "waiting"
    BY <2>1 DEF OwnerInv, RecoveryApart, Tok
  <2>3. ASSUME runs'[r].state \in ActiveStates, rp[p].new = runs'[r].token
        PROVE  runs'[r].state = "waiting"
    <3> HIDE DEF r
    <3>1. Active(r) /\ (runs'[r].state = runs[r].state \/ HolderOf(r))
      <4>1. ASSUME NEW q \in Runs, q = r PROVE Active(q) /\ (runs'[q].state = runs[q].state \/ HolderOf(q))
        BY <1>1, <2>1, <2>3, <4>1, StaysActive DEF Active
      <4> QED
        BY <2>1, <4>1
    <3>2. ~ HolderOf(r)
      BY <1>1, <2>1, <2>2, <2>3 DEF HolderOf, Tok, Beyond
    <3> QED
      BY <1>1, <2>1, <2>2, <2>3, <3>1, <3>2
  <2> QED
    BY <1>2, <1>3, <2>1, <2>2, <2>3
<1>7. MarkSpares'
  <2> SUFFICES ASSUME NEW p \in Owners, rp'[p].pc = "mark", "running" \in rp'[p].expected,
                      runs'[rp'[p].run].state \in ActiveStates,
                      rp'[p].token = runs'[rp'[p].run].token, rp'[p].token # 0
               PROVE  LET r == rp'[p].run IN
                      /\ ref'[r] # runs'[r].token
                      /\ \A o \in Owners : ctl'[o][r].pc \notin {"claimed", "fenced"}
                      /\ \A o \in Owners : ~(rp'[o].pc = "rereserve" /\ rp'[o].run = r
                                                /\ rp'[o].new = runs'[r].token)
    BY DEF MarkSpares, Active
  <2> DEFINE r == rp[p].run
  <2>1. rp'[p] = rp[p] /\ r \in Runs /\ rp[p].pc = "mark"
    BY <1>3
  <2>2. Active(r)
    <3>1. runs[r].state # "none"
      BY <2>1, PassFacts
    <3>2. runs'[r].state \in ActiveStates
      BY <2>1
    <3> QED
      BY <1>1, <2>1, <3>1, <3>2 DEF LedgerTame, Active
  <2>3. /\ ref[r] # runs[r].token
        /\ \A o \in Owners : ctl[o][r].pc \notin {"claimed", "fenced"}
        /\ \A o \in Owners : ~(rp[o].pc = "rereserve" /\ rp[o].run = r /\ rp[o].new = runs[r].token)
    BY <1>1, <2>1, <2>2 DEF OwnerInv, MarkSpares
  <2> QED
    BY <1>1, <1>2, <1>3, <2>1, <2>3
<1>8. NoSweep'
  BY <1>1 DEF PassQuiet, Recovers, NoSweep, OwnerInv
<1> QED
  BY <1>4, <1>5, <1>6, <1>7, <1>8 DEF OwnerInv

\* A step that leaves rows alone and gives nobody a claim, a recovered token or
\* a mark.  What is asked of a step in the index and the leases is only about
\* runs that are being started or marked.
LEMMA OwnersKept ==
    ASSUME OwnerInv, runs' = runs,
           \A o \in Owners, q \in Runs :
               /\ ctl'[o][q].pc \in Beyond => ctl[o][q].pc \in Beyond /\ ctl'[o][q].token = ctl[o][q].token
               /\ ctl'[o][q].pc \in {"claimed", "fenced"} => ctl[o][q].pc \in {"claimed", "fenced"},
           \A o \in Owners : rp'[o].pc \in {"mark", "rereserve"} => rp'[o] = rp[o] /\ rp[o].run \in Runs,
           \A o \in Owners : rp'[o].pc # "sweep",
           index' \subseteq index, ref' = ref
    PROVE  OwnerInv'
<1>1. OwnersMatch'
  BY DEF OwnersMatch, OwnerInv, Tok
<1>2. Starting'
  <2> SUFFICES ASSUME NEW o \in Owners, NEW q \in Runs, ctl'[o][q].pc \in {"claimed", "fenced"},
                      Active(q)
               PROVE  runs[q].state = "running" /\ Tok(o, q)' = runs[q].token /\ Unstarted(q)'
    BY DEF Starting, Active
  <2>1. ctl[o][q].pc \in {"claimed", "fenced"} /\ Tok(o, q)' = Tok(o, q)
    BY DEF Beyond, Tok
  <2>2. runs[q].state = "running" /\ Tok(o, q) = runs[q].token /\ Unstarted(q)
    BY <2>1 DEF OwnerInv, Starting
  <2> QED
    BY <2>1, <2>2 DEF Unstarted
<1>3. RecoveryApart'
  BY DEF RecoveryApart, OwnerInv, Tok, Active
<1>4. MarkSpares'
  BY DEF MarkSpares, OwnerInv, Active
<1> QED
  BY <1>1, <1>2, <1>3, <1>4 DEF OwnerInv, NoSweep

\* The same of one pass that goes on.
LEMMA OwnersPass ==
    ASSUME LocalInv, OwnerInv, NEW p \in Owners, OnePass(p),
           rp'[p].pc \notin {"mark", "rereserve", "sweep"},
           UNCHANGED <<lvars, ref, ctl>>, index' \subseteq index
    PROVE  OwnerInv'
<1>1. runs' = runs /\ ref' = ref /\ ctl' = ctl
  BY DEF lvars
<1>2. \A o \in Owners : rp'[o].pc \in {"mark", "rereserve"} => rp'[o] = rp[o] /\ rp[o].run \in Runs
  BY PassFacts DEF OnePass
<1>3. \A o \in Owners : rp'[o].pc # "sweep"
  BY DEF OwnerInv, NoSweep, OnePass
<1> QED
  BY <1>1, <1>2, <1>3, OwnersKept

LEMMA OwnersActivate ==
    ASSUME LocalInv, OwnerInv, NEW p \in Owners, NEW r \in Runs, ActivateFence(p, r),
           CanActivate(runs[r].session, Tok(p, r))
    PROVE  OwnerInv'
<1>1. /\ runs' = runs /\ index' = index /\ ref' = ref /\ rp' = rp /\ Goto(p, r, "fenced")
      /\ ctl[p][r].pc = "claimed"
  BY DEF ActivateFence, Activate, live, At
<1>2. OneCtl(p, r) /\ ctl'[p][r].pc = "fenced" /\ ctl'[p][r].token = ctl[p][r].token
  BY <1>1, GotoCtl
<1>3. \A o \in Owners : rp[o].pc \in {"mark", "rereserve"} => rp[o].run \in Runs
  BY PassFacts
<1>4. \A o \in Owners, q \in Runs :
         /\ ctl'[o][q].pc \in Beyond => ctl[o][q].pc \in Beyond /\ ctl'[o][q].token = ctl[o][q].token
         /\ ctl'[o][q].pc \in {"claimed", "fenced"} => ctl[o][q].pc \in {"claimed", "fenced"}
  BY <1>1, <1>2 DEF OneCtl, Beyond
<1>5. \A o \in Owners : rp'[o].pc # "sweep"
  BY <1>1 DEF OwnerInv, NoSweep
<1> QED
  BY <1>1, <1>3, <1>4, <1>5, OwnersKept

\* A reservation lands: the run had no other claim, and no pass marks it.
LEMMA OwnersReserving ==
    ASSUME LocalInv, OwnerInv, NEW p \in Owners, NEW r \in Runs, Reserving(p, r)
    PROVE  OwnerInv'
<1>1. /\ ctl[p][r].pc = "fenced" /\ runs' = runs /\ rp' = rp
      /\ index' = index \cup {<<r, Tok(p, r)>>} /\ ref' = [ref EXCEPT ![r] = Tok(p, r)]
      /\ \E x \in {"reserved", "abandoning"} : Goto(p, r, x)
  BY DEF Reserving, Reserve, ReserveFails, At, StartLive, lvars
<1>2. /\ OneCtl(p, r) /\ ctl'[p][r].pc \in {"reserved", "abandoning"}
      /\ ctl'[p][r].token = ctl[p][r].token
  BY <1>1, GotoCtl
<1>3. \A o \in Owners, q \in Runs :
         /\ ctl'[o][q].pc \in Beyond => ctl[o][q].pc \in Beyond /\ ctl'[o][q].token = ctl[o][q].token
         /\ ctl'[o][q].pc \in {"claimed", "fenced"} => ctl'[o][q] = ctl[o][q] /\ (o # p \/ q # r)
  BY <1>1, <1>2 DEF OneCtl, Beyond
<1>4. Active(r) => \A o \in Owners : ctl'[o][r].pc \notin {"claimed", "fenced"}
  <2> SUFFICES ASSUME Active(r), NEW o \in Owners, ctl'[o][r].pc \in {"claimed", "fenced"} PROVE FALSE
    OBVIOUS
  <2>1. o # p /\ ctl[o][r].pc \in {"claimed", "fenced"}
    BY <1>3
  <2>2. Tok(o, r) = runs[r].token /\ Tok(p, r) = runs[r].token
    BY <1>1, <2>1 DEF OwnerInv, Starting
  <2>3. runs[r].owner = o /\ runs[r].owner = p
    BY <1>1, <2>1, <2>2 DEF OwnerInv, OwnersMatch, Beyond
  <2> QED
    BY <2>1, <2>3
<1>5. OwnersMatch'
  BY <1>1, <1>3 DEF OwnersMatch, OwnerInv, Tok
<1>6. Starting'
  <2> SUFFICES ASSUME NEW o \in Owners, NEW q \in Runs, ctl'[o][q].pc \in {"claimed", "fenced"},
                      Active(q)
               PROVE  runs[q].state = "running" /\ Tok(o, q)' = runs[q].token /\ Unstarted(q)'
    BY <1>1 DEF Starting, Active
  <2>1. q # r /\ ctl'[o][q] = ctl[o][q]
    BY <1>3, <1>4
  <2>2. runs[q].state = "running" /\ Tok(o, q) = runs[q].token /\ Unstarted(q)
    BY <2>1 DEF OwnerInv, Starting
  <2> QED
    BY <1>1, <2>1, <2>2 DEF Unstarted, Tok
<1>7. RecoveryApart'
  <2>1. \A o \in Owners : rp[o].pc = "rereserve" => rp[o].run \in Runs
    BY PassFacts
  <2> QED
    BY <1>1, <1>3, <2>1 DEF RecoveryApart, OwnerInv, Tok, Active
<1>8. MarkSpares'
  <2> SUFFICES ASSUME NEW o \in Owners, rp[o].pc = "mark", "running" \in rp[o].expected,
                      Active(rp[o].run), rp[o].token = runs[rp[o].run].token, rp[o].token # 0
               PROVE  LET q == rp[o].run IN
                      /\ ref'[q] # runs[q].token
                      /\ \A n \in Owners : ctl'[n][q].pc \notin {"claimed", "fenced"}
                      /\ \A n \in Owners : ~(rp[n].pc = "rereserve" /\ rp[n].run = q
                                                /\ rp[n].new = runs[q].token)
    BY <1>1 DEF MarkSpares, Active
  <2> DEFINE q == rp[o].run
  <2>1. /\ ref[q] # runs[q].token /\ q \in Runs
        /\ \A n \in Owners : ctl[n][q].pc \notin {"claimed", "fenced"}
        /\ \A n \in Owners : ~(rp[n].pc = "rereserve" /\ rp[n].run = q /\ rp[n].new = runs[q].token)
    BY PassFacts DEF OwnerInv, MarkSpares
  <2>2. q # r
    BY <1>1, <2>1
  <2>3. ref'[q] = ref[q]
    BY <1>1, <2>1, <2>2 DEF LocalInv, LiveOk
  <2> QED
    BY <1>3, <2>1, <2>3
<1>9. NoSweep'
  BY <1>1 DEF NoSweep, OwnerInv
<1> QED
  BY <1>5, <1>6, <1>7, <1>8, <1>9 DEF OwnerInv

\* A reclaimed run is reserved: nobody else works under its token.
LEMMA OwnersRereserve ==
    ASSUME LocalInv, OwnerInv, NEW p \in Owners, Rereserve(p)
    PROVE  OwnerInv'
<1> DEFINE r == rp[p].run
           t == rp[p].new
<1>1. /\ rp[p].pc = "rereserve" /\ r \in Runs /\ runs' = runs
      /\ index' = index \cup {<<r, t>>} /\ ref' = [ref EXCEPT ![r] = t]
      /\ OneCtl(p, r) /\ ctl'[p][r].pc = "parked" /\ ctl'[p][r].token = t
      /\ OnePass(p) /\ rp'[p].pc \in {"idle", "release"}
  BY RereserveEffect DEF StartLive, lvars
<1>2. \A o \in Owners : rp'[o].pc \in {"mark", "rereserve"} =>
         rp'[o] = rp[o] /\ o # p /\ rp[o].run \in Runs
  BY <1>1, PassFacts DEF OnePass
<1>3. /\ t = runs[r].token => runs[r].owner = p
      /\ \A o \in Owners : (rp[o].pc = "rereserve" /\ rp[o].run = r /\ o # p) => rp[o].new # t
      /\ \A o \in Owners : Active(r) => ctl[o][r].pc \notin {"claimed", "fenced"}
  BY <1>1 DEF OwnerInv, OwnersMatch, RecoveryApart, Starting, Unstarted
<1> HIDE DEF r, t
<1>4. \A o \in Owners, q \in Runs :
         /\ ctl'[o][q].pc \in Beyond =>
               \/ ctl'[o][q] = ctl[o][q]
               \/ o = p /\ q = r /\ ctl'[o][q].token = t
         /\ ctl'[o][q].pc \in {"claimed", "fenced"} => ctl'[o][q] = ctl[o][q]
  BY <1>1 DEF OneCtl
<1>5. OwnersMatch'
  BY <1>1, <1>2, <1>3, <1>4 DEF OwnersMatch, OwnerInv, Tok
<1>6. Starting'
  <2> SUFFICES ASSUME NEW o \in Owners, NEW q \in Runs, ctl'[o][q].pc \in {"claimed", "fenced"},
                      Active(q)
               PROVE  runs[q].state = "running" /\ Tok(o, q)' = runs[q].token /\ Unstarted(q)'
    BY <1>1 DEF Starting, Active
  <2>1. q # r /\ ctl'[o][q] = ctl[o][q]
    BY <1>3, <1>4
  <2>2. runs[q].state = "running" /\ Tok(o, q) = runs[q].token /\ Unstarted(q)
    BY <2>1 DEF OwnerInv, Starting
  <2> QED
    BY <1>1, <1>2, <2>1, <2>2 DEF Unstarted, Tok
<1>7. RecoveryApart'
  <2> SUFFICES ASSUME NEW o \in Owners, rp'[o].pc = "rereserve"
               PROVE  LET q == rp'[o].run IN
                      /\ \A n \in Owners : ctl'[n][q].pc \in Beyond => ctl'[n][q].token # rp'[o].new
                      /\ \A n \in Owners : (rp'[n].pc = "rereserve" /\ rp'[n].run = q /\ n # o)
                                              => rp'[n].new # rp'[o].new
                      /\ (Active(q) /\ rp'[o].new = runs[q].token) => runs[q].state = "waiting"
    BY <1>1 DEF RecoveryApart, Tok, Active
  <2>1. rp'[o] = rp[o] /\ o # p /\ rp[o].run \in Runs /\ rp[o].pc = "rereserve"
    BY <1>2
  <2>2. LET q == rp[o].run IN
        /\ \A n \in Owners : ctl[n][q].pc \in Beyond => ctl[n][q].token # rp[o].new
        /\ \A n \in Owners : (rp[n].pc = "rereserve" /\ rp[n].run = q /\ n # o)
                                => rp[n].new # rp[o].new
        /\ (Active(q) /\ rp[o].new = runs[q].token) => runs[q].state = "waiting"
    BY <2>1 DEF OwnerInv, RecoveryApart, Tok
  <2>3. rp[o].run = r => rp[o].new # t
    BY <1>3, <2>1
  <2> QED
    BY <1>2, <1>4, <2>1, <2>2, <2>3
<1>8. MarkSpares'
  <2> SUFFICES ASSUME NEW o \in Owners, rp'[o].pc = "mark", "running" \in rp'[o].expected,
                      Active(rp'[o].run), rp'[o].token = runs[rp'[o].run].token, rp'[o].token # 0
               PROVE  LET q == rp'[o].run IN
                      /\ ref'[q] # runs[q].token
                      /\ \A n \in Owners : ctl'[n][q].pc \notin {"claimed", "fenced"}
                      /\ \A n \in Owners : ~(rp'[n].pc = "rereserve" /\ rp'[n].run = q
                                                /\ rp'[n].new = runs[q].token)
    BY <1>1 DEF MarkSpares, Active
  <2> DEFINE q == rp[o].run
  <2>1. rp'[o] = rp[o] /\ q \in Runs /\ rp[o].pc = "mark"
    BY <1>2
  <2>2. /\ ref[q] # runs[q].token
        /\ \A n \in Owners : ctl[n][q].pc \notin {"claimed", "fenced"}
        /\ \A n \in Owners : ~(rp[n].pc = "rereserve" /\ rp[n].run = q /\ rp[n].new = runs[q].token)
    BY <2>1 DEF OwnerInv, MarkSpares
  <2>3. ref'[q] # runs[q].token
    <3>1. CASE q = r
      BY <1>1, <2>1, <2>2, <3>1 DEF LocalInv, LiveOk, r, t
    <3>2. CASE q # r
      BY <1>1, <2>1, <2>2, <3>2 DEF LocalInv, LiveOk
    <3> QED
      BY <3>1, <3>2
  <2> QED
    BY <1>2, <1>4, <2>1, <2>2, <2>3
<1>9. NoSweep'
  BY <1>1 DEF NoSweep, OwnerInv, OnePass
<1> QED
  BY <1>5, <1>6, <1>7, <1>8, <1>9 DEF OwnerInv

\* The marks of runs other than the one that moves, and those that its new token
\* leaves behind.
LEMMA MarksBehind ==
    ASSUME LocalInv, OwnerInv, NEW r \in Runs,
           \A q \in Runs \ {r} : runs'[q] = runs[q],
           runs[r].token < runs'[r].token, runs[r].token \in Nat, runs'[r].token \in Nat,
           ref' = ref,
           \A o \in Owners, q \in Runs \ {r} :
               ctl'[o][q].pc \in {"claimed", "fenced"} => ctl[o][q].pc \in {"claimed", "fenced"},
           \A o \in Owners : rp'[o].pc = "mark" => rp'[o] = rp[o],
           \A o \in Owners : (rp'[o].pc = "rereserve" /\ rp'[o].run # r) => rp'[o] = rp[o]
    PROVE  MarkSpares'
<1> SUFFICES ASSUME NEW o \in Owners, rp'[o].pc = "mark", "running" \in rp'[o].expected,
                    runs'[rp'[o].run].state \in ActiveStates,
                    rp'[o].token = runs'[rp'[o].run].token, rp'[o].token # 0
             PROVE  LET q == rp'[o].run IN
                    /\ ref'[q] # runs'[q].token
                    /\ \A n \in Owners : ctl'[n][q].pc \notin {"claimed", "fenced"}
                    /\ \A n \in Owners : ~(rp'[n].pc = "rereserve" /\ rp'[n].run = q
                                              /\ rp'[n].new = runs'[q].token)
  BY DEF MarkSpares, Active
<1> DEFINE q == rp[o].run
<1>1. /\ rp'[o] = rp[o] /\ q \in Runs /\ rp[o].pc = "mark"
      /\ rp[o].token =< runs[q].token /\ rp[o].token \in Nat
  <2>1. rp'[o] = rp[o]
    OBVIOUS
  <2> QED
    BY <2>1, PassFacts DEF PassOk
<1>2. q # r
  BY <1>1
<1>3. runs'[q] = runs[q]
  BY <1>1, <1>2
<1>4. /\ ref[q] # runs[q].token
      /\ \A n \in Owners : ctl[n][q].pc \notin {"claimed", "fenced"}
      /\ \A n \in Owners : ~(rp[n].pc = "rereserve" /\ rp[n].run = q /\ rp[n].new = runs[q].token)
  BY <1>1, <1>3 DEF OwnerInv, MarkSpares, Active
<1> QED
  BY <1>1, <1>2, <1>3, <1>4

LEMMA OwnersClaim ==
    ASSUME LocalInv, OwnerInv, NEW p \in Owners, NEW r \in Runs, ClaimRun(p, r),
           CanClaim(r, Tok(p, r))
    PROVE  OwnerInv'
<1>1. /\ runs[r].state = "accepted" /\ runs'[r].state = "running" /\ runs'[r].token = Tok(p, r)
      /\ runs'[r].owner = p /\ runs[r].token < runs'[r].token /\ runs[r].token \in Nat
      /\ runs'[r].token \in Nat /\ \A q \in Runs \ {r} : runs'[q] = runs[q]
      /\ index' = index /\ ref' = ref /\ rp' = rp
  BY ClaimEffect DEF live
<1>2. OneCtl(p, r) /\ ctl'[p][r].pc = "claimed" /\ ctl'[p][r].token = Tok(p, r)
  BY ClaimEffect, GotoCtl DEF Tok
<1>3. /\ \A o \in Owners : ctl[o][r].pc \notin Beyond
      /\ \A o \in Owners : rp[o].pc = "rereserve" => rp[o].run \in Runs \ {r}
      /\ \A e \in index : e[1] # r
  BY <1>1, AcceptedUnused, PassFacts
<1>4. \A o \in Owners, q \in Runs : ctl'[o][q].pc \in Beyond =>
         (o = p /\ q = r) \/ (q # r /\ ctl'[o][q] = ctl[o][q])
  BY <1>2, <1>3 DEF OneCtl
<1>5. OwnersMatch'
  BY <1>1, <1>2, <1>3, <1>4 DEF OwnersMatch, OwnerInv, Tok
<1>6. Starting'
  <2> SUFFICES ASSUME NEW o \in Owners, NEW q \in Runs, ctl'[o][q].pc \in {"claimed", "fenced"},
                      Active(q)'
               PROVE  runs'[q].state = "running" /\ Tok(o, q)' = runs'[q].token /\ Unstarted(q)'
    BY DEF Starting
  <2>1. CASE o = p /\ q = r
    BY <1>1, <1>2, <1>3, <2>1 DEF Unstarted, Tok
  <2>2. CASE q # r /\ ctl'[o][q] = ctl[o][q]
    <3>1. runs[q].state = "running" /\ Tok(o, q) = runs[q].token /\ Unstarted(q)
      BY <1>1, <2>2 DEF OwnerInv, Starting, Active
    <3> QED
      BY <1>1, <2>2, <3>1 DEF Unstarted, Tok
  <2> QED
    BY <1>4, <2>1, <2>2 DEF Beyond
<1>7. RecoveryApart'
  BY <1>1, <1>3, <1>4 DEF RecoveryApart, OwnerInv, Tok, Active
<1>8. MarkSpares'
  <2>1. \A o \in Owners, q \in Runs \ {r} :
           ctl'[o][q].pc \in {"claimed", "fenced"} => ctl[o][q].pc \in {"claimed", "fenced"}
    BY <1>4 DEF Beyond
  <2> QED
    BY <1>1, <2>1, MarksBehind
<1>9. NoSweep'
  BY <1>1 DEF NoSweep, OwnerInv
<1> QED
  BY <1>5, <1>6, <1>7, <1>8, <1>9 DEF OwnerInv

\* Nobody presents the new token of a reclaimed run, and nobody has claimed it.
LEMMA OwnersReclaim ==
    ASSUME LocalInv, OwnerInv, NEW p \in Owners, Reclaim(p),
           CanReclaim(rp[p].run, rp[p].token, rp[p].new)
    PROVE  OwnerInv'
<1> DEFINE r == rp[p].run
           n == rp[p].new
<1>1. /\ r \in Runs /\ runs[r].state = "waiting" /\ runs'[r].state = "waiting"
      /\ runs'[r].token = n /\ runs'[r].owner = p /\ runs[r].token < n
      /\ runs[r].token \in Nat /\ n \in Nat /\ \A q \in Runs \ {r} : runs'[q] = runs[q]
      /\ index' = index /\ ref' = ref /\ (UNCHANGED ctl \/ Forget(p, r))
      /\ OnePass(p) /\ rp'[p].pc \in {"idle", "rereserve"}
      /\ rp'[p].pc = "rereserve" => rp'[p].run = r /\ rp'[p].new = n
  BY ReclaimEffect DEF live
<1>2. Active(r)
  BY <1>1 DEF Active, ActiveStates
<1> HIDE DEF r, n
<1>3. \A o \in Owners, q \in Runs : ctl'[o][q] = ctl[o][q] \/ ctl'[o][q].pc = "idle"
  <2>1. CASE Forget(p, r)
    BY <1>1, <2>1, ForgetCtl DEF OneCtl
  <2> QED
    BY <1>1, <2>1
<1>4. /\ \A o \in Owners, q \in Runs : ctl'[o][q].pc \in Beyond => ctl'[o][q] = ctl[o][q]
      /\ \A o \in Owners : ctl'[o][r].pc \in Beyond =>
            ctl'[o][r].token \in Nat /\ ctl'[o][r].token =< runs[r].token
  BY <1>1, <1>3, CtlFacts DEF CtlOk, Beyond, Holding, Tok
<1>5. \A o \in Owners : ctl'[o][r].pc \notin {"claimed", "fenced"}
  BY <1>1, <1>2, <1>4 DEF OwnerInv, Starting, Beyond
<1>6. /\ \A o \in Owners \ {p} : rp'[o] = rp[o]
      /\ \A o \in Owners : rp[o].pc = "rereserve" => rp[o].run \in Runs /\ rp[o].new \in Nat
      /\ \A o \in Owners : (rp[o].pc = "rereserve" /\ rp[o].run = r) => rp[o].new =< runs[r].token
  BY <1>1, PassFacts DEF OnePass, PassOk
<1>7. OwnersMatch'
  BY <1>1, <1>4, <1>6 DEF OwnersMatch, OwnerInv, Tok
<1>8. Starting'
  <2> SUFFICES ASSUME NEW o \in Owners, NEW q \in Runs, ctl'[o][q].pc \in {"claimed", "fenced"},
                      Active(q)'
               PROVE  runs'[q].state = "running" /\ Tok(o, q)' = runs'[q].token /\ Unstarted(q)'
    BY DEF Starting
  <2>1. q # r /\ ctl'[o][q] = ctl[o][q] /\ runs'[q] = runs[q]
    BY <1>1, <1>4, <1>5 DEF Beyond
  <2>2. runs[q].state = "running" /\ Tok(o, q) = runs[q].token /\ Unstarted(q)
    BY <2>1 DEF OwnerInv, Starting, Active
  <2> QED
    BY <1>1, <1>6, <2>1, <2>2 DEF Unstarted, Tok
<1>9. RecoveryApart'
  <2> SUFFICES ASSUME NEW o \in Owners, rp'[o].pc = "rereserve"
               PROVE  LET q == rp'[o].run IN
                      /\ \A m \in Owners : ctl'[m][q].pc \in Beyond => ctl'[m][q].token # rp'[o].new
                      /\ \A m \in Owners : (rp'[m].pc = "rereserve" /\ rp'[m].run = q /\ m # o)
                                              => rp'[m].new # rp'[o].new
                      /\ (runs'[q].state \in ActiveStates /\ rp'[o].new = runs'[q].token)
                             => runs'[q].state = "waiting"
    BY DEF RecoveryApart, Tok, Active
  <2>1. CASE o = p
    BY <1>1, <1>4, <1>6, <2>1
  <2>2. CASE o # p
    <3>1. rp'[o] = rp[o] /\ rp[o].run \in Runs /\ rp[o].pc = "rereserve"
      BY <1>6, <2>2
    <3>2. LET q == rp[o].run IN
          /\ \A m \in Owners : ctl[m][q].pc \in Beyond => ctl[m][q].token # rp[o].new
          /\ \A m \in Owners : (rp[m].pc = "rereserve" /\ rp[m].run = q /\ m # o)
                                  => rp[m].new # rp[o].new
          /\ (Active(q) /\ rp[o].new = runs[q].token) => runs[q].state = "waiting"
      BY <3>1 DEF OwnerInv, RecoveryApart, Tok
    <3> QED
      BY <1>1, <1>4, <1>6, <3>1, <3>2 DEF Active
  <2> QED
    BY <2>1, <2>2
<1>10. MarkSpares'
  <2>1. \A o \in Owners, q \in Runs \ {r} :
           ctl'[o][q].pc \in {"claimed", "fenced"} => ctl[o][q].pc \in {"claimed", "fenced"}
    BY <1>4 DEF Beyond
  <2>2. /\ \A o \in Owners : rp'[o].pc = "mark" => rp'[o] = rp[o]
        /\ \A o \in Owners : (rp'[o].pc = "rereserve" /\ rp'[o].run # r) => rp'[o] = rp[o]
    BY <1>1, <1>6
  <2>3. runs[r].token < runs'[r].token /\ runs'[r].token \in Nat
    BY <1>1
  <2> QED
    BY <1>1, <2>1, <2>2, <2>3, MarksBehind
<1>11. NoSweep'
  BY <1>1, <1>6 DEF NoSweep, OwnerInv
<1> QED
  BY <1>7, <1>8, <1>9, <1>10, <1>11 DEF OwnerInv

\* A pass marks a run that nobody starts and nobody recovers under its token.
LEMMA OwnersMarking ==
    ASSUME LocalInv, OwnerInv, NEW p \in Owners, NEW r \in Runs, Marking(p, r)
    PROVE  OwnerInv'
<1>1. /\ OnePass(p) /\ rp'[p].pc = "mark" /\ rp'[p].run = r
      /\ runs' = runs /\ ctl' = ctl /\ ref' = ref /\ index' = index
  BY DEF Marking, lvars, live
<1>2. \A o \in Owners : rp'[o].pc = "rereserve" => rp'[o] = rp[o] /\ o # p
  BY <1>1 DEF OnePass
<1>3. OwnersMatch' /\ RecoveryApart' /\ NoSweep'
  <2>1. OwnersMatch'
    BY <1>1, <1>2 DEF OwnersMatch, OwnerInv, Tok
  <2>2. RecoveryApart'
    BY <1>1, <1>2 DEF RecoveryApart, OwnerInv, Tok, Active
  <2>3. NoSweep'
    BY <1>1 DEF NoSweep, OwnerInv, OnePass
  <2> QED
    BY <2>1, <2>2, <2>3
<1>4. Starting'
  BY <1>1, <1>2 DEF Starting, OwnerInv, Unstarted, Tok, Active
<1>5. MarkSpares'
  <2> SUFFICES ASSUME NEW o \in Owners, rp'[o].pc = "mark", "running" \in rp'[o].expected,
                      Active(rp'[o].run), rp'[o].token = runs[rp'[o].run].token, rp'[o].token # 0
               PROVE  LET q == rp'[o].run IN
                      /\ ref[q] # runs[q].token
                      /\ \A n \in Owners : ctl[n][q].pc \notin {"claimed", "fenced"}
                      /\ \A n \in Owners : ~(rp'[n].pc = "rereserve" /\ rp'[n].run = q
                                                /\ rp'[n].new = runs[q].token)
    BY <1>1 DEF MarkSpares, Active
  <2>1. CASE o # p
    BY <1>1, <1>2, <2>1 DEF OwnerInv, MarkSpares, OnePass
  <2>2. CASE o = p
    <3>1. Active(r) /\ "running" \in rp'[p].expected /\ rp'[p].token = runs[r].token /\ rp'[p].token # 0
      BY <1>1, <2>2
    <3>2. /\ \E e \in index : e[1] = r
          /\ runs[r].state = "running" /\ ref[r] # runs[r].token
      BY <3>1 DEF Marking, OwnerInv, NoSweep
    <3>3. \A n \in Owners : ctl[n][r].pc \notin {"claimed", "fenced"}
      BY <3>1, <3>2 DEF OwnerInv, Starting, Unstarted
    <3>4. \A n \in Owners : ~(rp[n].pc = "rereserve" /\ rp[n].run = r /\ rp[n].new = runs[r].token)
      BY <3>1, <3>2 DEF OwnerInv, RecoveryApart
    <3> QED
      BY <1>1, <1>2, <2>2, <3>2, <3>3, <3>4
  <2> QED
    BY <2>1, <2>2
<1> QED
  BY <1>3, <1>4, <1>5 DEF OwnerInv

LEMMA NextOwners ==
    ASSUME "flush" \notin Faults, LocalInv, LocalInv', ParkedInv, OwnerInv, [LifeNext]_vars
    PROVE  OwnerInv'
<1>1. CASE Quiet
  BY <1>1, OwnersQuiet
<1>2. ASSUME NEW p \in Owners, NEW r \in Runs,
             \/ ClaimRun(p, r) /\ CanClaim(r, Tok(p, r))
             \/ ActivateFence(p, r) /\ CanActivate(runs[r].session, Tok(p, r))
             \/ Reserving(p, r)
             \/ Marking(p, r)
      PROVE  OwnerInv'
  BY <1>2, OwnersClaim, OwnersActivate, OwnersReserving, OwnersMarking
<1>3. ASSUME NEW p \in Owners, NEW r \in Runs, NEW t \in Nat, Dropping(p, r, t)
      PROVE  OwnerInv'
  BY <1>3, OwnersPass DEF Dropping, live
<1>4. ASSUME NEW p \in Owners, ReleaseMember(p)
      PROVE  OwnerInv'
  BY <1>4, ReleaseMemberEffect, OwnersPass
<1>5. ASSUME NEW p \in Owners,
             \/ Rereserve(p)
             \/ Reclaim(p) /\ CanReclaim(rp[p].run, rp[p].token, rp[p].new)
      PROVE  OwnerInv'
  BY <1>5, OwnersRereserve, OwnersReclaim
<1> QED
  BY <1>1, <1>2, <1>3, <1>4, <1>5, NextMoves DEF Moves, Flush, Sweeping

LEMMA InitOwnerInv == Init => OwnerInv
<1> SUFFICES ASSUME Init PROVE OwnerInv
  OBVIOUS
<1>1. /\ \A p \in Owners : rp[p].pc = "idle"
      /\ \A p \in Owners, r \in Runs : ctl[p][r].pc = "idle"
  BY RestOk DEF Init
<1> QED
  BY <1>1 DEF OwnerInv, OwnersMatch, Starting, RecoveryApart, MarkSpares, NoSweep, Beyond, Holding

-----------------------------------------------------------------------------
(* Who declares a run lost.                                                *)

Spare == \A r \in Runs : runs[r].state = "running" => runs'[r].state # "lost"

LEMMA SpareMoves ==
    ASSUME LocalInv,
           \/ UNCHANGED lvars
           \/ NextFencingToken
           \/ \E r \in Runs :
                \/ RequestAbort(r)
                \/ \E s, i : Admit(r, s, i)
                \/ \E s, t : Activate(s, t)
                \/ \E o, t, g : Claim(r, o, t, g)
                \/ \E o, prev, t, g : ReclaimWaitingDecision(r, o, prev, t, g)
                \/ \E t, b : PersistAgentStep(r, t, b)
                \/ \E t : SetWaitingDecision(r, t) \/ Resume(r, t)
                \/ \E t, st : PrepareFinish(r, t, st)
                \/ \E t, st, e : Finalize(r, t, st, e) /\ (st # "lost" \/ runs[r].state # "running")
    PROVE  Spare
<1> SUFFICES ASSUME NEW r \in Runs, runs[r].state = "running" PROVE runs'[r].state # "lost"
  BY DEF Spare
<1>1. runs \in [Runs -> Rows] /\ runs[r] \in Rows
  BY RunFacts
<1>2. CASE runs'[r].state = runs[r].state
  BY <1>2
<1>3. CASE \E q \in Runs : RequestAbort(q)
  BY <1>1, <1>3 DEF RequestAbort, Rows
<1>4. CASE \E q \in Runs : \/ \E s, i : Admit(q, s, i)
                           \/ \E o, t, g : Claim(q, o, t, g)
                           \/ \E o, prev, t, g : ReclaimWaitingDecision(q, o, prev, t, g)
  <2>1. PICK q \in Runs : runs[q].state # "running" /\ \E row : runs' = [runs EXCEPT ![q] = row]
    BY <1>4 DEF Admit, Claim, CanClaim, ReclaimWaitingDecision, CanReclaim
  <2> QED
    BY <1>1, <1>2, <2>1
<1>5. CASE \E q \in Runs : \/ \E t : SetWaitingDecision(q, t) \/ Resume(q, t)
                           \/ \E t, st : PrepareFinish(q, t, st)
  <2>1. PICK q \in Runs : \E row : runs' = [runs EXCEPT ![q] = row] /\ row.state # "lost"
    <3>1. CASE \E q \in Runs : \E t : SetWaitingDecision(q, t) \/ Resume(q, t)
      <4>1. PICK q \in Runs, st \in {"waiting", "running"} :
                runs' = [runs EXCEPT ![q] = [@ EXCEPT !.state = st]]
        BY <3>1 DEF SetWaitingDecision, Resume
      <4> DEFINE row == [runs[q] EXCEPT !.state = st]
      <4>2. row.state = st
        BY <1>1 DEF Rows
      <4>3. runs' = [runs EXCEPT ![q] = row]
        BY <4>1
      <4> HIDE DEF row
      <4> QED
        BY <4>2, <4>3
    <3>2. CASE \E q \in Runs : \E t, st : PrepareFinish(q, t, st)
      <4>1. PICK q \in Runs : \E t, st : PrepareFinish(q, t, st)
        BY <3>2
      <4> PICK x : runs' = [runs EXCEPT ![q] = [@ EXCEPT !.state = "finishing", !.proposed = x]]
        BY <4>1 DEF PrepareFinish
      <4> DEFINE row == [runs[q] EXCEPT !.state = "finishing", !.proposed = x]
      <4>2. row.state = "finishing"
        BY <1>1 DEF Rows
      <4>3. runs' = [runs EXCEPT ![q] = row]
        OBVIOUS
      <4> HIDE DEF row
      <4> QED
        BY <4>2, <4>3
    <3> QED
      BY <1>5, <3>1, <3>2
  <2> QED
    BY <1>1, <1>2, <2>1
<1>6. CASE \E q \in Runs : \E t, st, e : Finalize(q, t, st, e) /\ (st # "lost" \/ runs[q].state # "running")
  BY <1>1, <1>6 DEF Finalize, Verdict, Rows
<1>7. CASE \/ UNCHANGED lvars \/ NextFencingToken
           \/ \E s, t : Activate(s, t)
           \/ \E q \in Runs : \E t, b : PersistAgentStep(q, t, b)
  BY <1>2, <1>7 DEF lvars, NextFencingToken, Activate, PersistAgentStep
<1> QED
  BY <1>3, <1>4, <1>5, <1>6, <1>7

LEMMA OwnSpares ==
    ASSUME LocalInv, NEW p \in Owners, NEW r \in Runs, Own(p, r)
    PROVE  Spare
<1>1. CASE Draw(p, r) \/ ClaimRun(p, r) \/ ActivateFence(p, r) \/ Reserve(p, r) \/ Begin(p, r)
  BY <1>1, SpareMoves DEF Draw, ClaimRun, ActivateFence, Reserve, Begin
<1>2. CASE AbandonClaim(p, r) \/ Unwind(p, r)
  BY <1>2, SpareMoves DEF AbandonClaim, Unwind
<1>3. CASE \/ ShowWaiting(p, r) \/ ShowResumed(p, r) \/ EndExecution(p, r) \/ Prepare(p, r)
           \/ Release(p, r)
  BY <1>3, SpareMoves DEF ShowWaiting, ShowResumed, EndExecution, Prepare, Release
<1>4. CASE FinalizeRun(p, r)
  <2>1. runs[r].state # "running"
    BY <1>4, CtlFacts DEF FinalizeRun, At, CtlOk, Ended, TerminalStates
  <2> QED
    BY <1>4, <2>1, SpareMoves DEF FinalizeRun
<1> QED
  BY <1>1, <1>2, <1>3, <1>4 DEF Own

LEMMA ReapSpares ==
    ASSUME LocalInv, NEW p \in Owners, Reap(p), ~ Mark(p)
    PROVE  Spare
<1>1. CASE \E r, t : ReapPick(p, r, t)
  BY <1>1, SpareMoves DEF ReapPick, Consume, StartRecovery, StartMark
<1>2. CASE \E r \in Runs : OrphanPick(p, r) \/ SweepPick(p, r)
  BY <1>2, SpareMoves DEF OrphanPick, SweepPick, StartRecovery, StartMark
<1>3. CASE Reclaim(p)
  <2>1. rp[p].run \in Runs
    BY <1>3, PassFacts DEF Reclaim, Working
  <2> QED
    BY <1>3, <2>1, SpareMoves DEF Reclaim
<1>4. CASE \/ SweepRead(p) \/ SweepDone(p) \/ Reconcile(p) \/ ReleaseMember(p) \/ Rereserve(p)
           \/ RereserveFails(p)
  BY <1>4, SpareMoves DEF SweepRead, SweepDone, Reconcile, ReleaseMember, Rereserve, RereserveFails
<1> QED
  BY <1>1, <1>2, <1>3, <1>4 DEF Reap

\* A running run is declared lost by a pass that holds its token, or by its own
\* process on the way down.
LEMMA LostStep ==
    ASSUME LocalInv, [LifeNext]_vars, NEW r \in Runs, runs[r].state = "running",
           runs'[r].state = "lost"
    PROVE  \/ \E p \in Owners : /\ rp[p].pc = "mark" /\ rp[p].run = r
                                /\ rp[p].token = runs[r].token /\ "running" \in rp[p].expected
           \/ \E p \in Owners : /\ stat[p] = "closing" /\ ctl[p][r].pc \in Holding
                                /\ Tok(p, r) = runs[r].token
<1> SUFFICES ASSUME Spare \/ (\E p \in Owners : Mark(p))
                          \/ (\E p \in Owners, q \in Runs : ReleaseOnShutdown(p, q))
             PROVE  \/ \E p \in Owners : /\ rp[p].pc = "mark" /\ rp[p].run = r
                                         /\ rp[p].token = runs[r].token /\ "running" \in rp[p].expected
                    \/ \E p \in Owners : /\ stat[p] = "closing" /\ ctl[p][r].pc \in Holding
                                         /\ Tok(p, r) = runs[r].token
  <2>1. CASE UNCHANGED vars
    BY <2>1, SpareMoves DEF vars
  <2>2. CASE Flush
    BY <2>2, SpareMoves DEF Flush
  <2>3. CASE \E q \in Runs : AbortIntent(q) \/ LeaseExpire(q)
    BY <2>3, SpareMoves DEF AbortIntent, LeaseExpire
  <2>4. CASE \E p \in Owners : Reap(p) \/ PassFails(p) \/ Crash(p) \/ Close(p) \/ Exit(p)
    BY <2>4, ReapSpares, SpareMoves DEF PassFails, Crash, Close, Exit, Down
  <2>5. ASSUME NEW p \in Owners, NEW q \in Runs,
               \/ \E s \in Sessions, i \in Invs : Submit(p, q, s, i)
               \/ Resubmit(p, q) \/ Own(p, q)
               \/ ActivateFails(p, q) \/ ReserveFails(p, q) \/ ShowFinishing(p, q) \/ GiveUp(p, q)
        PROVE  Spare
    BY <2>5, OwnSpares, SpareMoves
       DEF Submit, Resubmit, ActivateFails, ReserveFails, ShowFinishing, GiveUp
  <2>6. ASSUME NEW p \in Owners, NEW q \in Runs,
               \/ CommitStep(p, q) \/ Park(p, q) \/ Answer(p, q)
               \/ AbortRead(p, q) \/ AbortLive(p, q) \/ LoseOwnership(p, q)
               \/ ReconcileOnShutdown(p, q) \/ HandOff(p, q)
        PROVE  Spare
    BY <2>6, SpareMoves DEF CommitStep, Park, Answer, AbortRead, AbortLive, LoseOwnership,
       ReconcileOnShutdown, HandOff
  <2> QED
    BY <2>1, <2>2, <2>3, <2>4, <2>5, <2>6 DEF LifeNext
<1>1. runs \in [Runs -> Rows]
  BY RunFacts
<1>2. ASSUME NEW p \in Owners, Mark(p)
      PROVE  /\ rp[p].pc = "mark" /\ rp[p].run = r
             /\ rp[p].token = runs[r].token /\ "running" \in rp[p].expected
  <2>1. Finalize(rp[p].run, rp[p].token, "lost", rp[p].expected) /\ rp[p].pc = "mark"
    BY <1>2 DEF Mark, Working, lvars
  <2>2. rp[p].run = r
    BY <1>1, <2>1 DEF Finalize
  <2> QED
    BY <2>1, <2>2 DEF Finalize, CanFinalize, Owned
<1>3. ASSUME NEW p \in Owners, NEW q \in Runs, ReleaseOnShutdown(p, q)
      PROVE  stat[p] = "closing" /\ ctl[p][r].pc \in Holding /\ Tok(p, r) = runs[r].token
  <2>1. /\ Finalize(q, Tok(p, q), "lost", {runs[q].state}) /\ stat[p] = "closing"
        /\ ctl[p][q].pc \in Holding
    BY <1>3 DEF ReleaseOnShutdown, At, lvars
  <2>2. q = r
    BY <1>1, <2>1 DEF Finalize
  <2> QED
    BY <2>1, <2>2 DEF Finalize, CanFinalize, Owned
<1> QED
  BY <1>2, <1>3 DEF Spare

\* reapExpiredLeases, and the shutdown of an owner: whatever reapers overlap and
\* however late they act, a running run is declared lost only when no lease of
\* its ownership is alive, or by its own process on the way down.
THEOREM SparesTheorem == ASSUME "flush" \notin Faults PROVE LifeSpec => LostSparesLiveOwner
<1>1. LocalInv /\ LocalInv' /\ ParkedInv /\ OwnerInv /\ [LifeNext]_vars => OwnerInv'
  BY NextOwners
<1>2. LocalInv /\ [LifeNext]_vars => LocalInv'
  BY NextLocal
<1>3. ASSUME LocalInv, OwnerInv, [LifeNext]_vars
      PROVE  [\A r \in Runs : (runs[r].state = "running" /\ runs'[r].state = "lost"
                                 /\ runs[r].gen = livegen)
                  => ref[r] # runs[r].token \/ stat[runs[r].owner] = "closing"]_vars
  <2> SUFFICES ASSUME NEW r \in Runs, runs[r].state = "running", runs'[r].state = "lost"
               PROVE  ref[r] # runs[r].token \/ stat[runs[r].owner] = "closing"
    OBVIOUS
  <2>1. runs[r].token # 0 /\ Active(r)
    BY <1>3, RunFacts DEF RowOk, Active, ActiveStates
  <2>2. CASE \E p \in Owners : /\ rp[p].pc = "mark" /\ rp[p].run = r
                               /\ rp[p].token = runs[r].token /\ "running" \in rp[p].expected
    BY <1>3, <2>1, <2>2 DEF OwnerInv, MarkSpares
  <2>3. CASE \E p \in Owners : /\ stat[p] = "closing" /\ ctl[p][r].pc \in Holding
                               /\ Tok(p, r) = runs[r].token
    BY <1>3, <2>3 DEF OwnerInv, OwnersMatch, Beyond
  <2> QED
    BY <1>3, <2>2, <2>3, LostStep
<1> QED
  BY <1>1, <1>2, <1>3, InitOwnerInv, LocalTheorem, ParkedTheorem, PTL
     DEF LifeSpec, LostSparesLiveOwner
=============================================================================
