------------------------- MODULE HistoryResetProofs -------------------------
(***************************************************************************)
(* Proofs about HistoryReset: the ledger keeps its invariant though whole  *)
(* histories are deleted under it, two resets never delete the same        *)
(* session, a reset deletes only what has no active run, and what was      *)
(* deleted stays forgotten.                                                *)
(*                                                                         *)
(* A step of the ledger keeps LedgerInv by SessionLedgerProofs; what is    *)
(* left are the resets.  The invariant is ResetIInv below: it adds to the  *)
(* properties that unexpired leases are apart, and that a run from before  *)
(* a deletion has ended and is either marked or behind the session's fence *)
(* (which is why nobody can take it up or report it again).                *)
(***************************************************************************)
EXTENDS HistoryReset, SessionLedgerProofs

ResetPcs == {"new", "drain", "stop", "delete", "release", "end"}

ResetTyped ==
    /\ lease \in [Scopes -> [by: Resets \cup {None}, live: BOOLEAN]]
    /\ rst \in [Resets -> [pc: ResetPcs, scope: Scopes \cup {"none"}, todo: SUBSET Seen]]
    /\ \A x \in Resets : rst[x].pc # "new" => rst[x].scope \in Scopes
    /\ gone \in [Sessions -> Nat]
    /\ hid \in SUBSET Runs

\* The sessions that are being reset are those under an unexpired lease.
ResettingIsLeased == resetting = UNION {Covers(k) : k \in {j \in Scopes : lease[j].live}}

\* No two unexpired leases have scopes that exclude each other.
LeasesApart ==
    \A j, k \in Scopes : (j # k /\ lease[j].live /\ lease[k].live) => j # "bot" /\ k # "bot"

\* A run of a deleted history has ended, and is marked or behind the fence.
PastEnded ==
    \A s \in Sessions : \A r \in Runs :
        (runs[r].session = s /\ runs[r].pos < gone[s]) =>
            /\ Terminal(r)
            /\ runs[r].token = 0 => r \in hid
            /\ runs[r].token > 0 => fence[s] > runs[r].token

\* What is in the history was written after the last deletion.
HistoryIsNew ==
    \A s \in Sessions :
        /\ gone[s] =< nextPos[s]
        /\ \A i \in 1..Len(hist[s]) : runs[hist[s][i]].pos >= gone[s]

ResetIInv ==
    /\ LedgerInv
    /\ ResetTyped
    /\ ResettingIsLeased
    /\ LeasesApart
    /\ DrainedStaysDrained
    /\ PastEnded
    /\ HistoryIsNew

-----------------------------------------------------------------------------
(* What the invariant says.                                                *)

\* It contains the checked one.
LEMMA ResetIInvImpliesInv == ResetIInv => ResetInv
<1> SUFFICES ASSUME ResetIInv PROVE ResetInv
  OBVIOUS
<1>1. ResetTypeOK
  BY DEF ResetIInv, ResetTyped, ResettingIsLeased, ResetTypeOK, ResetPcs
<1>2. ResetsExclude
  <2> SUFFICES ASSUME NEW x \in Resets, NEW y \in Resets, x # y, Holds(x), Holds(y)
               PROVE  Covers(rst[x].scope) \cap Covers(rst[y].scope) = {}
    BY DEF ResetsExclude
  <2>1. /\ rst[x].scope \in Scopes /\ rst[y].scope \in Scopes
        /\ lease[rst[x].scope] = [by |-> x, live |-> TRUE]
        /\ lease[rst[y].scope] = [by |-> y, live |-> TRUE]
    BY DEF ResetIInv, ResetTyped, Holds, Valid
  <2>2. rst[x].scope # rst[y].scope
    BY <2>1
  <2>3. rst[x].scope # "bot" /\ rst[y].scope # "bot"
    BY <2>1, <2>2 DEF ResetIInv, LeasesApart
  <2> QED
    BY <2>2, <2>3 DEF Covers
<1> QED
  BY <1>1, <1>2 DEF ResetIInv, ResetInv

\* And the promise of a deletion.
LEMMA ResetIInvForgets == ResetIInv => ClearedIsForgotten
<1> SUFFICES ASSUME ResetIInv, NEW s \in Sessions
             PROVE  /\ \A i \in DOMAIN hist[s] : runs[hist[s][i]].pos >= gone[s]
                    /\ \A r \in ActiveIn(s) \cup Reported(s) : runs[r].pos >= gone[s]
  BY DEF ClearedIsForgotten
<1>1. DOMAIN hist[s] = 1..Len(hist[s])
  BY DEF ResetIInv, LedgerInv, TypeOK
<1>2. \A i \in DOMAIN hist[s] : runs[hist[s][i]].pos >= gone[s]
  BY <1>1 DEF ResetIInv, HistoryIsNew
<1>3. ASSUME NEW r \in ActiveIn(s) \cup Reported(s) PROVE runs[r].pos >= gone[s]
  <2>1. r \in Runs /\ runs[r].session = s
    BY <1>3 DEF ActiveIn, Reported, Latest
  <2>2. runs[r].pos \in Nat /\ runs[r].token \in Nat /\ gone[s] \in Nat
    BY <2>1 DEF ResetIInv, LedgerInv, TypeOK, Rows, ResetTyped
  <2>3. SUFFICES ASSUME runs[r].pos < gone[s] PROVE FALSE
    BY <2>2
  <2>4. /\ Terminal(r)
        /\ runs[r].token = 0 => r \in hid
        /\ runs[r].token > 0 => fence[s] > runs[r].token
    BY <2>1, <2>3 DEF ResetIInv, PastEnded
  <2>5. r \notin ActiveIn(s)
    BY <2>4 DEF ActiveIn, Active, Terminal, ActiveStates, TerminalStates
  <2>6. r \notin Reported(s)
    BY <2>2, <2>4 DEF Reported
  <2> QED
    BY <1>3, <2>5, <2>6
<1> QED
  BY <1>2, <1>3

\* Nothing is reset or deleted at first.
LEMMA InitResetIInv == ResetInit => ResetIInv
<1> SUFFICES ASSUME ResetInit PROVE ResetIInv
  OBVIOUS
<1>1. LedgerInv
  BY InitLedgerInv DEF ResetInit
<1>2. ResetTyped
  BY DEF ResetInit, ResetTyped, NotBegun, ResetPcs
<1>3. ResettingIsLeased /\ LeasesApart
  BY DEF ResetInit, LedgerInit, ResettingIsLeased, LeasesApart
<1>4. DrainedStaysDrained
  BY DEF ResetInit, DrainedStaysDrained, NotBegun
<1>5. PastEnded
  BY DEF ResetInit, LedgerInit, PastEnded, NoRow
<1>6. HistoryIsNew
  BY DEF ResetInit, LedgerInit, HistoryIsNew
<1> QED
  BY <1>1, <1>2, <1>3, <1>4, <1>5, <1>6 DEF ResetIInv

-----------------------------------------------------------------------------
(* Steps of the ledger.                                                    *)

\* What a step of the ledger does to rows and history: it admits a run, persists a
\* step of an active one, or rewrites the row of an active one.
LEMMA NextShape ==
    ASSUME LedgerInv, Next
    PROVE  \/ \E r \in Runs, s \in Sessions, i \in Invs : Admit(r, s, i)
           \/ \E r \in Runs, t \in Tokens, b \in BOOLEAN : PersistAgentStep(r, t, b)
           \/ /\ UNCHANGED <<nextPos, hist>>
              /\ runs' = runs \/ \E r \in Runs : RowStep(r)
<1> DEFINE Quiet == /\ UNCHANGED <<nextPos, hist>>
                    /\ runs' = runs \/ \E r \in Runs : RowStep(r)
<1>0. seq \in Nat
  BY DEF LedgerInv, TypeOK
<1>1. CASE \/ NextFencingToken
           \/ \E s \in Sessions : AcquireReset(s) \/ EndReset(s)
           \/ \E s \in Sessions, t \in 1..seq : Activate(s, t)
  BY <1>1 DEF NextFencingToken, AcquireReset, EndReset, Activate
<1>2. ASSUME NEW r \in Runs, RequestAbort(r) PROVE Quiet
  <2>1. 0 \in Tokens
    BY <1>0 DEF Tokens
  <2>2. RowStep(r)
    BY <1>2, <2>1, StateKeepsLedgerInv
  <2> QED
    BY <1>2, <2>2 DEF RequestAbort
<1>3. ASSUME NEW r \in Runs, NEW t \in Tokens, Work(r, t)
      PROVE  Quiet \/ \E b \in BOOLEAN : PersistAgentStep(r, t, b)
  <2>1. CASE SetWaitingDecision(r, t) \/ Resume(r, t)
    <3>1. RowStep(r)
      BY <2>1, StateKeepsLedgerInv
    <3> QED
      BY <2>1, <3>1 DEF SetWaitingDecision, Resume
  <2>2. CASE \E st \in OwnerStates : PrepareFinish(r, t, st)
    <3>1. RowStep(r)
      BY <2>2, PrepareKeepsLedgerInv
    <3> QED
      BY <2>2, <3>1 DEF PrepareFinish
  <2>3. CASE \/ \E st \in TerminalStates : \E e : Finalize(r, t, st, e)
             \/ FenceAndFinalizeOrphan(r, t)
    <3>1. RowStep(r)
      BY <2>3, EndKeepsLedgerInv
    <3> QED
      BY <2>3, <3>1 DEF Finalize, FenceAndFinalizeOrphan
  <2> QED
    BY <1>3, <2>1, <2>2, <2>3 DEF Work
<1>4. ASSUME NEW r \in Runs, NEW t \in 1..seq, NEW o \in Owners, NEW g \in Gens,
             Claim(r, o, t, g) \/ \E p \in Tokens : ReclaimWaitingDecision(r, o, p, t, g)
      PROVE  Quiet
  <2>1. RowStep(r)
    BY <1>4, OwnershipKeepsLedgerInv
  <2> QED
    BY <1>4, <2>1 DEF Claim, ReclaimWaitingDecision
<1> QED
  BY <1>1, <1>2, <1>3, <1>4 DEF Next

\* No step of the ledger makes a run active in a session that is being reset, and none
\* moves a run to another session or position.
LEMMA NextKeepsTurns ==
    ASSUME LedgerInv, Next
    PROVE  /\ \A r \in Runs : runs[r].state # "none" =>
                  runs'[r].session = runs[r].session /\ runs'[r].pos = runs[r].pos
           /\ \A r \in Runs : (runs[r].state = "none" /\ runs'[r] # runs[r]) =>
                  \E s \in Sessions : /\ runs'[r].session = s /\ runs'[r].pos = nextPos[s]
                                      /\ s \notin resetting
           /\ \A r \in Runs : (Active(r))' => Active(r) \/ runs[r].state = "none"
<1>0. runs \in [Runs -> Rows]
  BY DEF LedgerInv, TypeOK
<1>1. CASE runs' = runs
  BY <1>1 DEF Active
<1>2. ASSUME NEW r \in Runs, RowStep(r)
      PROVE  /\ \A q \in Runs : /\ runs'[q].session = runs[q].session
                                /\ runs'[q].pos = runs[q].pos
             /\ \A q \in Runs : runs[q].state = "none" => runs'[q] = runs[q]
             /\ \A q \in Runs : (Active(q))' => Active(q)
  BY <1>2 DEF RowStep, Active, ActiveStates
<1>3. ASSUME NEW r \in Runs, NEW s \in Sessions, NEW i \in Invs, Admit(r, s, i)
      PROVE  /\ \A q \in Runs : q # r => runs'[q] = runs[q]
             /\ runs[r].state = "none"
             /\ runs'[r].session = s /\ runs'[r].pos = nextPos[s]
             /\ s \notin resetting
  <2>1. runs' = [runs EXCEPT ![r] = [NoRow EXCEPT !.state = "accepted", !.session = s,
                                                  !.inv = i, !.pos = nextPos[s]]]
    BY <1>3 DEF Admit
  <2>2. runs[r].state = "none" /\ s \notin resetting
    BY <1>3 DEF Admit, AdmitAnswer
  <2> QED
    BY <1>0, <2>1, <2>2 DEF NoRow
<1>4. ASSUME NEW r \in Runs, NEW t \in Tokens, NEW b \in BOOLEAN, PersistAgentStep(r, t, b)
      PROVE  runs' = runs
  BY <1>4 DEF PersistAgentStep
<1>5. CASE \E r \in Runs, s \in Sessions, i \in Invs : Admit(r, s, i)
  <2>1. PICK r \in Runs, s \in Sessions, i \in Invs : Admit(r, s, i)
    BY <1>5
  <2>2. /\ \A q \in Runs : q # r => runs'[q] = runs[q]
        /\ runs[r].state = "none"
        /\ runs'[r].session = s /\ runs'[r].pos = nextPos[s]
        /\ s \notin resetting
    BY <1>3, <2>1
  <2> QED
    BY <2>2 DEF Active
<1> QED
  BY <1>1, <1>2, <1>4, <1>5, NextShape
\* A step of the ledger leaves deleted histories forgotten, and a session that is being
\* reset without an active run.
LEMMA LedgerKeepsPast ==
    ASSUME ResetIInv, Next, UNCHANGED gone, hid \subseteq hid'
    PROVE  /\ LedgerInv' /\ PastEnded' /\ HistoryIsNew'
           /\ \A s \in resetting : ActiveIn(s) = {} => (ActiveIn(s))' = {}
<1>1. LedgerInv /\ LedgerInv'
  BY NextLedgerInv DEF ResetIInv
<1>2. /\ \A r \in Runs : runs[r].pos \in Nat /\ runs'[r].pos \in Nat
      /\ \A r \in Runs : runs[r].token \in Nat
      /\ \A s \in Sessions : gone[s] \in Nat /\ nextPos[s] \in Nat /\ gone[s] =< nextPos[s]
      /\ \A s \in Sessions : fence[s] \in Nat /\ fence'[s] \in Nat
      /\ \A s \in Sessions : hist[s] \in Seq(Runs)
  BY <1>1 DEF ResetIInv, LedgerInv, TypeOK, Rows, ResetTyped, HistoryIsNew
<1>3. Next => Advance \/ UNCHANGED lvars
  BY <1>1, NextAdvances
<1>4. \A s \in Sessions : fence[s] =< fence'[s]
  BY <1>2, <1>3 DEF Advance, lvars
<1>5. \A r \in Runs : Terminal(r) => runs'[r] = runs[r]
  BY <1>3 DEF Advance, lvars
<1>6. /\ \A r \in Runs : runs[r].state # "none" =>
             runs'[r].session = runs[r].session /\ runs'[r].pos = runs[r].pos
      /\ \A r \in Runs : (runs[r].state = "none" /\ runs'[r] # runs[r]) =>
             \E s \in Sessions : /\ runs'[r].session = s /\ runs'[r].pos = nextPos[s]
                                 /\ s \notin resetting
      /\ \A r \in Runs : (Active(r))' => Active(r) \/ runs[r].state = "none"
  BY <1>1, NextKeepsTurns
<1>7. PastEnded'
  <2> SUFFICES ASSUME NEW s \in Sessions, NEW r \in Runs,
                      runs'[r].session = s, runs'[r].pos < gone[s]
               PROVE  /\ (Terminal(r))'
                      /\ runs'[r].token = 0 => r \in hid'
                      /\ runs'[r].token > 0 => fence'[s] > runs'[r].token
    BY DEF PastEnded
  <2>1. runs[r].session = s /\ runs[r].pos = runs'[r].pos
    BY <1>2, <1>6
  <2>2. /\ Terminal(r)
        /\ runs[r].token = 0 => r \in hid
        /\ runs[r].token > 0 => fence[s] > runs[r].token
    BY <2>1 DEF ResetIInv, PastEnded
  <2>3. runs'[r] = runs[r]
    BY <1>5, <2>2
  <2> QED
    BY <1>2, <1>4, <2>2, <2>3 DEF Terminal
<1>8. HistoryIsNew'
  <2> SUFFICES ASSUME NEW s \in Sessions
               PROVE  /\ gone[s] =< nextPos'[s]
                      /\ \A i \in 1..Len(hist'[s]) : runs'[hist'[s][i]].pos >= gone[s]
    BY DEF HistoryIsNew
  <2>1. \A i \in 1..Len(hist[s]) : /\ runs[hist[s][i]].pos >= gone[s]
                                   /\ hist[s][i] \in Runs
                                   /\ runs[hist[s][i]].session = s
    BY <1>1, <1>2 DEF ResetIInv, HistoryIsNew, LedgerInv, HistoryOfSession
  <2>2. \A r \in Runs : runs[r].session \in Sessions => runs[r].state # "none"
    BY <1>1, NoneAssumption DEF LedgerInv, RowsNumbered, NoRow
  <2>3. \A i \in 1..Len(hist[s]) : runs'[hist[s][i]].pos >= gone[s]
    BY <1>6, <2>1, <2>2
  <2>4. CASE \E r \in Runs, q \in Sessions, i \in Invs : Admit(r, q, i)
    <3>1. PICK r \in Runs, q \in Sessions, i \in Invs : Admit(r, q, i)
      BY <2>4
    <3>2. hist' = hist /\ nextPos' = [nextPos EXCEPT ![q] = @ + 1]
      BY <3>1 DEF Admit
    <3>3. nextPos \in [Sessions -> Nat]
      BY <1>1 DEF LedgerInv, TypeOK
    <3> QED
      BY <1>2, <2>3, <3>2, <3>3
  <2>5. CASE \E r \in Runs, t \in Tokens, b \in BOOLEAN : PersistAgentStep(r, t, b)
    <3>1. PICK r \in Runs, t \in Tokens, b \in BOOLEAN : PersistAgentStep(r, t, b)
      BY <2>5
    <3>2. /\ hist' = [hist EXCEPT ![runs[r].session] = Append(@, r)]
          /\ runs' = runs /\ nextPos' = nextPos
          /\ runs[r].state \in {"running", "waiting"}
      BY <3>1 DEF PersistAgentStep, CanPersist, Owned
    <3>3. hist \in [Sessions -> Seq(Runs)]
      BY <1>1 DEF LedgerInv, TypeOK
    <3>4. CASE runs[r].session = s
      <4>1. hist'[s] = Append(hist[s], r)
        BY <3>2, <3>3, <3>4
      <4>2. runs[r].pos >= gone[s]
        <5>1. SUFFICES ASSUME runs[r].pos < gone[s] PROVE FALSE
          BY <1>2
        <5>2. Terminal(r)
          BY <3>4, <5>1 DEF ResetIInv, PastEnded
        <5> QED
          BY <3>2, <5>2 DEF Terminal, TerminalStates
      <4>3. /\ Len(hist'[s]) = Len(hist[s]) + 1 /\ Len(hist[s]) \in Nat
            /\ \A i \in 1..Len(hist[s]) : hist'[s][i] = hist[s][i]
            /\ hist'[s][Len(hist[s]) + 1] = r
        BY <1>2, <4>1
      <4>4. \A i \in 1..Len(hist'[s]) : i \in 1..Len(hist[s]) \/ i = Len(hist[s]) + 1
        BY <4>3
      <4> QED
        BY <1>2, <2>3, <3>2, <4>2, <4>3, <4>4
    <3>5. CASE runs[r].session # s
      <4>1. hist'[s] = hist[s]
        BY <3>2, <3>3, <3>5
      <4> QED
        BY <1>2, <2>3, <3>2, <4>1
    <3> QED
      BY <3>4, <3>5
  <2>6. CASE UNCHANGED <<nextPos, hist>>
    BY <1>2, <2>3, <2>6
  <2> QED
    BY <1>1, <2>4, <2>5, <2>6, NextShape
<1>9. ASSUME NEW s \in resetting, ActiveIn(s) = {} PROVE (ActiveIn(s))' = {}
  <2> SUFFICES ASSUME NEW r \in Runs, runs'[r].session = s, (Active(r))' PROVE FALSE
    BY DEF ActiveIn
  <2>0. s \in Sessions
    BY <1>1, <1>9 DEF LedgerInv, TypeOK
  <2>1. CASE runs[r].state = "none"
    <3>1. runs'[r] # runs[r]
      BY <2>1 DEF Active, ActiveStates
    <3> QED
      BY <1>6, <2>1, <3>1
  <2>2. CASE runs[r].state # "none"
    BY <1>6, <1>9, <2>2 DEF ActiveIn
  <2> QED
    BY <2>1, <2>2
<1> QED
  BY <1>1, <1>7, <1>8, <1>9

\* What callers other than resets do is a step of the ledger.
LEMMA LedgerStepIsNext ==
    ASSUME LedgerInv, NEW r \in Runs, LedgerStep(r)
    PROVE  Next /\ UNCHANGED resetting
<1>1. /\ seq \in Nat /\ runs[r].token \in Nat /\ runs[r].token =< seq
      /\ 1..seq \subseteq Tokens
  BY DEF LedgerInv, TypeOK, Rows, TokensDrawn, Tokens
<1>2. Unused \subseteq 1..seq /\ runs[r].token \in Tokens
  BY <1>1 DEF Unused, Tokens
<1>3. CASE RequestAbort(r) \/ \E s \in Sessions, i \in Invs : Admit(r, s, i)
  BY <1>3 DEF Next, RequestAbort, Admit
<1>4. CASE \E t \in Unused, o \in Owners, g \in Gens :
             Claim(r, o, t, g) \/ ReclaimWaitingDecision(r, o, runs[r].token, t, g)
  <2>1. PICK t \in Unused, o \in Owners, g \in Gens :
             Claim(r, o, t, g) \/ ReclaimWaitingDecision(r, o, runs[r].token, t, g)
    BY <1>4
  <2>2. t \in 1..seq
    BY <1>2
  <2>3. Next
    BY <1>2, <2>1, <2>2 DEF Next
  <2>4. UNCHANGED resetting
    BY <2>1 DEF Claim, ReclaimWaitingDecision
  <2> QED
    BY <2>3, <2>4
<1>5. CASE runs[r].token > 0 /\ Activate(runs[r].session, runs[r].token)
  <2>1. runs[r].session \in Sessions /\ runs[r].token \in 1..seq
    BY <1>1, <1>5 DEF LedgerInv, RowsNumbered, NoRow
  <2> QED
    BY <1>5, <2>1 DEF Next, Activate
<1>6. ASSUME NEW t \in Tokens,
             \/ SetWaitingDecision(r, t) \/ Resume(r, t)
             \/ \E b \in BOOLEAN : PersistAgentStep(r, t, b)
             \/ \E st \in OwnerStates : PrepareFinish(r, t, st)
             \/ \E st \in TerminalStates : Finalize(r, t, st, ActiveStates)
      PROVE  Next /\ UNCHANGED resetting
  <2>1. Work(r, t)
    BY <1>6 DEF Work
  <2>2. UNCHANGED resetting
    BY <1>6 DEF SetWaitingDecision, Resume, PersistAgentStep, PrepareFinish, Finalize
  <2> QED
    BY <2>1, <2>2 DEF Next
<1> QED
  BY <1>3, <1>4, <1>5, <1>6 DEF LedgerStep
-----------------------------------------------------------------------------
(* Steps of resets.                                                        *)

\* A step that leaves the rows alone keeps the ledger's invariant if the tokens stay
\* drawn; histories may be emptied.
LEMMA EmptyingKeepsLedgerInv ==
    ASSUME LedgerInv, UNCHANGED <<runs, nextPos>>,
           resetting' \in SUBSET Sessions, seq' \in Nat, seq =< seq',
           fence' \in [Sessions -> Nat], \A s \in Sessions : fence'[s] =< seq',
           hist' \in [Sessions -> Seq(Runs)],
           \A s \in Sessions : hist'[s] = hist[s] \/ hist'[s] = <<>>
    PROVE  LedgerInv'
<1>1. TypeOK'
  BY DEF LedgerInv, TypeOK
<1>2. TokensDrawn'
  BY DEF LedgerInv, TypeOK, Rows, TokensDrawn
<1>3. (RowsNumbered /\ ActiveRunIsNewestTurn /\ OneRunPerInvocation
        /\ ProposalDecides /\ ProposalEndsWork /\ AbortBeatsProposal)'
  BY DEF LedgerInv, RowsNumbered, ActiveRunIsNewestTurn, OneRunPerInvocation, ProposalDecides,
         ProposalEndsWork, AbortBeatsProposal, Active, Terminal
<1>4. \A s \in Sessions : hist'[s] # hist[s] => Len(hist'[s]) = 0
  OBVIOUS
<1>5. (HistoryOfSession)'
  BY <1>4 DEF LedgerInv, HistoryOfSession
<1>6. (HistoryInTurnOrder)'
  <2> SUFFICES ASSUME NEW s \in Sessions, NEW i \in 1..Len(hist'[s]), NEW j \in 1..Len(hist'[s]),
                      i =< j
               PROVE  runs[hist'[s][i]].pos =< runs[hist'[s][j]].pos
    BY DEF HistoryInTurnOrder
  <2>1. hist'[s] = hist[s]
    BY <1>4
  <2> QED
    BY <2>1 DEF LedgerInv, HistoryInTurnOrder
<1> QED
  BY <1>1, <1>2, <1>3, <1>5, <1>6 DEF LedgerInv

\* The sessions under a live lease are being reset.
LEMMA HeldIsResetting ==
    ASSUME ResetIInv, NEW x \in Resets, rst[x].pc # "new", Valid(x)
    PROVE  Covers(rst[x].scope) \subseteq resetting /\ rst[x].scope \in Scopes
BY DEF ResetIInv, ResetTyped, ResettingIsLeased, Valid

\* A reset keeps what it drained if no run starts where a lease is held and only a reset
\* that found nothing active becomes ready to delete.
LEMMA DrainedKept ==
    ASSUME ResetIInv,
           \A s \in resetting : ActiveIn(s) = {} => (ActiveIn(s))' = {},
           \A x \in Resets : (rst'[x].pc = "delete" /\ (Valid(x))') =>
               /\ Valid(x) /\ rst'[x].scope = rst[x].scope /\ rst[x].pc # "new"
               /\ rst[x].pc # "delete" => \A s \in Covers(rst[x].scope) : ActiveIn(s) = {}
    PROVE  DrainedStaysDrained'
<1> SUFFICES ASSUME NEW x \in Resets, rst'[x].pc = "delete", (Valid(x))',
                    NEW s \in Covers(rst'[x].scope)
             PROVE  (ActiveIn(s))' = {}
  BY DEF DrainedStaysDrained, Covers
<1>1. /\ Valid(x) /\ rst'[x].scope = rst[x].scope /\ rst[x].pc # "new"
      /\ rst[x].pc # "delete" => \A q \in Covers(rst[x].scope) : ActiveIn(q) = {}
  OBVIOUS
<1>2. s \in resetting
  BY <1>1, HeldIsResetting
<1>3. ActiveIn(s) = {}
  BY <1>1 DEF ResetIInv, DrainedStaysDrained
<1> QED
  BY <1>2, <1>3

\* Writing the lease of a scope keeps the leases apart if it ends one or was free.
LEMMA SetLeaseApart ==
    ASSUME ResetIInv, NEW k \in Scopes, NEW by \in Resets \cup {None}, NEW live \in BOOLEAN,
           live => Free(k), SetLease(k, by, live)
    PROVE  /\ lease' \in [Scopes -> [by: Resets \cup {None}, live: BOOLEAN]]
           /\ ResettingIsLeased' /\ LeasesApart' /\ resetting' \in SUBSET Sessions
           /\ \A j \in Scopes : lease'[j] = IF j = k THEN [by |-> by, live |-> live] ELSE lease[j]
<1>1. /\ lease \in [Scopes -> [by: Resets \cup {None}, live: BOOLEAN]]
      /\ lease' = [lease EXCEPT ![k] = [by |-> by, live |-> live]]
      /\ resetting' = UNION {Covers(j) : j \in {i \in Scopes : lease'[i].live}}
  BY DEF ResetIInv, ResetTyped, SetLease
<1>2. /\ lease' \in [Scopes -> [by: Resets \cup {None}, live: BOOLEAN]]
      /\ \A j \in Scopes : lease'[j] = IF j = k THEN [by |-> by, live |-> live] ELSE lease[j]
  BY <1>1
<1>3. LeasesApart'
  <2> SUFFICES ASSUME NEW i \in Scopes, NEW j \in Scopes, i # j, lease'[i].live, lease'[j].live
               PROVE  i # "bot" /\ j # "bot"
    BY DEF LeasesApart
  <2>1. CASE i # k /\ j # k
    BY <1>2, <2>1 DEF ResetIInv, LeasesApart
  <2>2. CASE i = k
    BY <1>2, <2>2 DEF Free, Excludes, Scopes
  <2>3. CASE j = k
    BY <1>2, <2>3 DEF Free, Excludes, Scopes
  <2> QED
    BY <2>1, <2>2, <2>3
<1>4. \A j \in Scopes : Covers(j) \subseteq Sessions
  BY DEF Covers, Scopes
<1> QED
  BY <1>1, <1>2, <1>3, <1>4 DEF ResettingIsLeased

\* A step that leaves rows, tokens and history alone leaves the past alone.
LEMMA QuietKeepsPast ==
    ASSUME ResetIInv, UNCHANGED <<runs, nextPos, fence, seq, hist, gone, hid>>,
           resetting' \in SUBSET Sessions
    PROVE  /\ LedgerInv' /\ PastEnded' /\ HistoryIsNew'
           /\ \A s \in resetting : ActiveIn(s) = {} => (ActiveIn(s))' = {}
<1>1. LedgerInv'
  <2>1. /\ LedgerInv /\ seq \in Nat /\ fence \in [Sessions -> Nat]
        /\ hist \in [Sessions -> Seq(Runs)] /\ \A s \in Sessions : fence[s] =< seq
    BY DEF ResetIInv, LedgerInv, TypeOK, TokensDrawn
  <2> QED
    BY <2>1, EmptyingKeepsLedgerInv
<1>2. PastEnded'
  BY DEF ResetIInv, PastEnded, Terminal
<1>3. HistoryIsNew'
  BY DEF ResetIInv, HistoryIsNew
<1> QED
  BY <1>1, <1>2, <1>3 DEF ActiveIn, Active
RstRows == [pc: ResetPcs, scope: Scopes \cup {"none"}, todo: SUBSET Seen]

\* Moving one reset on.
LEMMA RstMoves ==
    ASSUME ResetTyped, NEW x \in Resets, NEW row \in RstRows, rst' = [rst EXCEPT ![x] = row],
           row.pc # "new" => row.scope \in Scopes
    PROVE  /\ rst' \in [Resets -> RstRows]
           /\ \A y \in Resets : rst'[y] = IF y = x THEN row ELSE rst[y]
           /\ \A y \in Resets : rst'[y].pc # "new" => rst'[y].scope \in Scopes
<1>1. rst \in [Resets -> RstRows]
  BY DEF ResetTyped, RstRows
<1>2. \A y \in Resets : rst'[y] = IF y = x THEN row ELSE rst[y]
  BY <1>1
<1>3. rst' \in [Resets -> RstRows]
  BY <1>1
<1> QED
  BY <1>2, <1>3 DEF ResetTyped

\* The steps a reset takes on its own: they leave the leases and the ledger alone.
LEMMA OwnStepKeepsReset ==
    ASSUME ResetIInv, NEW x \in Resets,
           Drain(x) \/ GiveUp(x) \/ \E o \in rst[x].todo : StopRouted(x, o)
    PROVE  ResetIInv'
<1>1. UNCHANGED <<lvars, lease, gone, hid>>
  BY DEF Drain, GiveUp, StopRouted
<1>2. /\ LedgerInv' /\ PastEnded' /\ HistoryIsNew'
      /\ \A s \in resetting : ActiveIn(s) = {} => (ActiveIn(s))' = {}
  BY <1>1, QuietKeepsPast DEF lvars, ResetIInv, LedgerInv, TypeOK
<1>3. ResettingIsLeased' /\ LeasesApart'
  BY <1>1 DEF lvars, ResetIInv, ResettingIsLeased, LeasesApart
<1>4. /\ ResetTyped /\ rst[x] \in RstRows /\ rst \in [Resets -> RstRows]
      /\ rst[x].pc # "new" => rst[x].scope \in Scopes
  BY DEF ResetIInv, ResetTyped, RstRows
<1>5. ASSUME NEW row \in RstRows, rst' = [rst EXCEPT ![x] = row], row.scope = rst[x].scope,
             rst[x].pc # "new",
             row.pc = "delete" => \A s \in Covers(rst[x].scope) : ActiveIn(s) = {}
      PROVE  ResetIInv'
  <2>1. /\ rst' \in [Resets -> RstRows]
        /\ \A y \in Resets : rst'[y] = IF y = x THEN row ELSE rst[y]
        /\ \A y \in Resets : rst'[y].pc # "new" => rst'[y].scope \in Scopes
    BY <1>4, <1>5, RstMoves
  <2>2. ResetTyped'
    BY <1>1, <1>4, <2>1 DEF ResetTyped, RstRows
  <2>3. DrainedStaysDrained'
    <3>1. \A y \in Resets : (rst'[y].pc = "delete" /\ (Valid(y))') =>
              /\ Valid(y) /\ rst'[y].scope = rst[y].scope /\ rst[y].pc # "new"
              /\ rst[y].pc # "delete" => \A s \in Covers(rst[y].scope) : ActiveIn(s) = {}
      BY <1>1, <1>5, <2>1 DEF Valid
    <3> QED
      BY <1>2, <3>1, DrainedKept
  <2> QED
    BY <1>2, <1>3, <2>2, <2>3 DEF ResetIInv
<1>6. CASE Drain(x)
  <2> DEFINE active == UNION {ActiveIn(s) : s \in Covers(rst[x].scope)}
             seen == {[run |-> r, token |-> runs[r].token, owned |-> runs[r].owner # None]
                          : r \in active}
             row == [rst[x] EXCEPT !.pc = IF active = {} THEN "delete" ELSE "stop",
                                   !.todo = seen]
  <2>1. rst[x].pc = "drain" /\ rst' = [rst EXCEPT ![x] = row]
    BY <1>6 DEF Drain
  <2>2. seen \subseteq Seen
    <3>1. active \subseteq Runs
      BY DEF ActiveIn
    <3>2. \A r \in Runs : runs[r].token \in Nat
      BY DEF ResetIInv, LedgerInv, TypeOK, Rows
    <3>3. \A r \in Runs : [run |-> r, token |-> runs[r].token, owned |-> runs[r].owner # None] \in Seen
      BY <3>2, Zenon DEF Seen
    <3> QED
      BY <3>1, <3>3
  <2> HIDE DEF seen
  <2>3. /\ row \in RstRows /\ row.scope = rst[x].scope
        /\ row.pc = "delete" => active = {}
    <3> HIDE DEF active
    <3> QED
      BY <1>4, <2>2 DEF RstRows, ResetPcs
  <2>4. active = {} => \A s \in Covers(rst[x].scope) : ActiveIn(s) = {}
    OBVIOUS
  <2> QED
    BY <1>5, <2>1, <2>3, <2>4
<1>7. CASE GiveUp(x)
  <2> DEFINE row == [rst[x] EXCEPT !.pc = "release", !.todo = {}]
  <2>1. rst[x].pc # "new" /\ rst' = [rst EXCEPT ![x] = row]
    BY <1>7 DEF GiveUp
  <2>2. row \in RstRows /\ row.scope = rst[x].scope /\ row.pc # "delete"
    BY <1>4 DEF RstRows, ResetPcs
  <2> QED
    BY <1>5, <2>1, <2>2
<1>8. ASSUME NEW o \in rst[x].todo, StopRouted(x, o) PROVE ResetIInv'
  <2> DEFINE row == [rst[x] EXCEPT !.todo = @ \ {o},
                                   !.pc = IF rst[x].todo = {o} THEN "drain" ELSE @]
  <2>1. rst[x].pc = "stop" /\ rst' = [rst EXCEPT ![x] = row]
    BY <1>8 DEF StopRouted, Handled
  <2>2. row \in RstRows /\ row.scope = rst[x].scope /\ row.pc # "delete"
    BY <1>4, <2>1 DEF RstRows, ResetPcs
  <2> QED
    BY <1>5, <2>1, <2>2
<1> QED
  BY <1>6, <1>7, <1>8

\* Leases taken, expired and given back.
LEMMA LeaseKeepsReset ==
    ASSUME ResetIInv, ResetScopes \subseteq Scopes,
           \/ \E k \in Scopes : LeaseExpires(k)
           \/ \E x \in Resets, k \in ResetScopes : AcquireLease(x, k)
           \/ \E x \in Resets : Release(x)
    PROVE  ResetIInv'
<1>1. /\ ResetTyped /\ rst \in [Resets -> RstRows]
      /\ \A k \in Scopes : lease[k] \in [by: Resets \cup {None}, live: BOOLEAN]
      /\ \A y \in Resets : rst[y].pc # "new" => rst[y].scope \in Scopes
  BY DEF ResetIInv, ResetTyped, RstRows
<1>2. ASSUME UNCHANGED <<runs, nextPos, fence, seq, hist, gone, hid>>,
             rst' \in [Resets -> RstRows],
             \A y \in Resets : rst'[y].pc # "new" => rst'[y].scope \in Scopes,
             NEW k \in Scopes, NEW by \in Resets \cup {None}, NEW live \in BOOLEAN,
             live => Free(k), SetLease(k, by, live),
             \A y \in Resets : rst'[y].pc = "delete" =>
                rst'[y] = rst[y] /\ (live => by # y)
      PROVE  ResetIInv'
  <2>1. /\ lease' \in [Scopes -> [by: Resets \cup {None}, live: BOOLEAN]]
        /\ ResettingIsLeased' /\ LeasesApart' /\ resetting' \in SUBSET Sessions
        /\ \A j \in Scopes : lease'[j] = IF j = k THEN [by |-> by, live |-> live] ELSE lease[j]
    BY <1>2, SetLeaseApart
  <2>2. /\ LedgerInv' /\ PastEnded' /\ HistoryIsNew'
        /\ \A s \in resetting : ActiveIn(s) = {} => (ActiveIn(s))' = {}
    BY <1>2, <2>1, QuietKeepsPast
  <2>3. ResetTyped'
    BY <1>1, <1>2, <2>1 DEF ResetTyped, RstRows
  <2>4. DrainedStaysDrained'
    <3>1. \A y \in Resets : (rst'[y].pc = "delete" /\ (Valid(y))') =>
              /\ Valid(y) /\ rst'[y].scope = rst[y].scope /\ rst[y].pc # "new"
              /\ rst[y].pc # "delete" => \A s \in Covers(rst[y].scope) : ActiveIn(s) = {}
      BY <1>1, <1>2, <2>1 DEF Valid
    <3> QED
      BY <2>2, <3>1, DrainedKept
  <2> QED
    BY <2>1, <2>2, <2>3, <2>4 DEF ResetIInv
<1>3. ASSUME NEW k \in Scopes, LeaseExpires(k) PROVE ResetIInv'
  <2>1. SetLease(k, lease[k].by, FALSE) /\ rst' = rst
        /\ UNCHANGED <<runs, nextPos, fence, seq, hist, gone, hid>>
    BY <1>3 DEF LeaseExpires
  <2>2. lease[k].by \in Resets \cup {None}
    BY <1>1
  <2> QED
    BY <1>1, <1>2, <2>1, <2>2
<1>4. ASSUME NEW x \in Resets, NEW k \in ResetScopes, AcquireLease(x, k) PROVE ResetIInv'
  <2> DEFINE row == [rst[x] EXCEPT !.pc = "drain", !.scope = k]
  <2>1. /\ SetLease(k, x, TRUE) /\ Free(k) /\ rst' = [rst EXCEPT ![x] = row]
        /\ UNCHANGED <<runs, nextPos, fence, seq, hist, gone, hid>>
    BY <1>4 DEF AcquireLease
  <2>2. row \in RstRows /\ row.scope \in Scopes /\ row.pc = "drain" /\ k \in Scopes
    BY <1>1 DEF RstRows, ResetPcs
  <2>3. /\ rst' \in [Resets -> RstRows]
        /\ \A y \in Resets : rst'[y] = IF y = x THEN row ELSE rst[y]
        /\ \A y \in Resets : rst'[y].pc # "new" => rst'[y].scope \in Scopes
    BY <1>1, <2>1, <2>2, RstMoves
  <2>4. \A y \in Resets : rst'[y].pc = "delete" => rst'[y] = rst[y] /\ x # y
    BY <2>2, <2>3
  <2> HIDE DEF row
  <2> QED
    BY <1>2, <2>1, <2>2, <2>3, <2>4
<1>5. ASSUME NEW x \in Resets, Release(x) PROVE ResetIInv'
  <2> DEFINE row == [rst[x] EXCEPT !.pc = "end"]
  <2>1. /\ rst[x].pc = "release" /\ rst' = [rst EXCEPT ![x] = row]
        /\ UNCHANGED <<runs, nextPos, fence, seq, hist, gone, hid>>
        /\ \/ SetLease(rst[x].scope, None, FALSE)
           \/ UNCHANGED <<lease, resetting>>
    BY <1>5 DEF Release, Goto
  <2>2. row \in RstRows /\ row.scope \in Scopes /\ row.pc = "end" /\ rst[x].scope \in Scopes
    BY <1>1, <2>1 DEF RstRows, ResetPcs
  <2>3. /\ rst' \in [Resets -> RstRows]
        /\ \A y \in Resets : rst'[y] = IF y = x THEN row ELSE rst[y]
        /\ \A y \in Resets : rst'[y].pc # "new" => rst'[y].scope \in Scopes
    BY <1>1, <2>1, <2>2, RstMoves
  <2>4. \A y \in Resets : rst'[y].pc = "delete" => rst'[y] = rst[y]
    BY <2>2, <2>3
  <2>5. CASE SetLease(rst[x].scope, None, FALSE)
    BY <1>2, <2>1, <2>2, <2>3, <2>4, <2>5
  <2>6. CASE UNCHANGED <<lease, resetting>>
    <3>1. /\ LedgerInv' /\ PastEnded' /\ HistoryIsNew'
          /\ \A s \in resetting : ActiveIn(s) = {} => (ActiveIn(s))' = {}
      BY <2>1, <2>6, QuietKeepsPast DEF ResetIInv, LedgerInv, TypeOK
    <3>2. ResetTyped' /\ ResettingIsLeased' /\ LeasesApart'
      BY <1>1, <2>1, <2>3, <2>6
         DEF ResetIInv, ResetTyped, RstRows, ResettingIsLeased, LeasesApart
    <3>3. \A y \in Resets : (rst'[y].pc = "delete" /\ (Valid(y))') =>
              /\ Valid(y) /\ rst'[y].scope = rst[y].scope /\ rst[y].pc # "new"
              /\ rst[y].pc # "delete" => \A s \in Covers(rst[y].scope) : ActiveIn(s) = {}
      BY <2>4, <2>6 DEF Valid
    <3>4. DrainedStaysDrained'
      BY <3>1, <3>3, DrainedKept
    <3> QED
      BY <3>1, <3>2, <3>4 DEF ResetIInv
  <2> QED
    BY <2>1, <2>5, <2>6
<1> QED
  BY <1>3, <1>4, <1>5

\* A reset that fences out a run takes a step of the ledger.
LEMMA StopOrphanKeepsReset ==
    ASSUME ResetIInv, NEW x \in Resets, NEW o \in rst[x].todo, StopOrphan(x, o)
    PROVE  ResetIInv'
<1> DEFINE row == [rst[x] EXCEPT !.todo = @ \ {o},
                                 !.pc = IF rst[x].todo = {o} THEN "drain" ELSE @]
<1>1. /\ ResetTyped /\ rst[x] \in RstRows /\ o \in Seen
      /\ rst[x].pc = "stop" /\ rst[x].scope \in Scopes
      /\ rst' = [rst EXCEPT ![x] = row] /\ UNCHANGED <<lease, gone>>
  BY DEF ResetIInv, ResetTyped, RstRows, StopOrphan, Handled
<1>2. row \in RstRows /\ row.scope = rst[x].scope /\ row.pc # "delete"
  BY <1>1 DEF RstRows, ResetPcs
<1> HIDE DEF row
<1>3. /\ rst' \in [Resets -> RstRows]
      /\ \A y \in Resets : rst'[y] = IF y = x THEN row ELSE rst[y]
      /\ \A y \in Resets : rst'[y].pc # "new" => rst'[y].scope \in Scopes
  BY <1>1, <1>2, RstMoves
<1>4. /\ UNCHANGED resetting /\ hid' \in SUBSET Runs
      /\ LedgerInv' /\ PastEnded' /\ HistoryIsNew'
      /\ \A s \in resetting : ActiveIn(s) = {} => (ActiveIn(s))' = {}
  <2>1. CASE CanFinalize(o.run, o.token, ActiveStates)
    <3>1. /\ FenceAndFinalizeOrphan(o.run, o.token) /\ UNCHANGED gone
          /\ hid' = IF runs[o.run].state = "finishing" THEN hid ELSE hid \cup {o.run}
      BY <2>1 DEF StopOrphan
    <3>2. o.run \in Runs /\ o.token \in Nat
      BY <1>1 DEF Seen
    <3>3. o.token \in Tokens
      BY <2>1, <3>2 DEF CanFinalize, Owned, ResetIInv, LedgerInv, TokensDrawn, TypeOK, Tokens
    <3>4. Work(o.run, o.token)
      BY <3>1 DEF Work
    <3>5. Next
      BY <3>2, <3>3, <3>4 DEF Next
    <3>6. UNCHANGED resetting
      BY <3>1 DEF FenceAndFinalizeOrphan
    <3>7. hid \subseteq hid' /\ hid' \in SUBSET Runs
      BY <1>1, <3>1, <3>2 DEF ResetTyped
    <3> QED
      BY <3>1, <3>5, <3>6, <3>7, LedgerKeepsPast
  <2>2. CASE ~CanFinalize(o.run, o.token, ActiveStates)
    <3>1. UNCHANGED <<lvars, hid, gone>>
      BY <2>2 DEF StopOrphan
    <3> QED
      BY <1>1, <3>1, QuietKeepsPast DEF lvars, ResetIInv, LedgerInv, TypeOK, ResetTyped
  <2> QED
    BY <2>1, <2>2
<1>5. ResetTyped' /\ ResettingIsLeased' /\ LeasesApart'
  BY <1>1, <1>3, <1>4 DEF ResetIInv, ResetTyped, RstRows, ResettingIsLeased, LeasesApart
<1>6. DrainedStaysDrained'
  <2>1. \A y \in Resets : (rst'[y].pc = "delete" /\ (Valid(y))') =>
            /\ Valid(y) /\ rst'[y].scope = rst[y].scope /\ rst[y].pc # "new"
            /\ rst[y].pc # "delete" => \A s \in Covers(rst[y].scope) : ActiveIn(s) = {}
    BY <1>1, <1>2, <1>3 DEF Valid
  <2> QED
    BY <1>4, <2>1, DrainedKept
<1> QED
  BY <1>4, <1>5, <1>6 DEF ResetIInv

\* Deleting a history: nobody is active in it, every run of it has ended, and the new
\* fence is above all of their tokens.
LEMMA DeleteKeepsReset ==
    ASSUME ResetIInv, NEW x \in Resets, DeleteHistory(x)
    PROVE  ResetIInv'
<1> DEFINE row == [rst[x] EXCEPT !.pc = "release"]
           cleared == Covers(rst[x].scope)
<1>1. /\ ResetTyped /\ rst[x] \in RstRows
      /\ rst[x].pc = "delete" /\ Valid(x) /\ rst[x].scope \in Scopes
      /\ rst' = [rst EXCEPT ![x] = row]
      /\ UNCHANGED <<runs, nextPos, resetting, lease>>
      /\ seq' = seq + 1
  BY DEF ResetIInv, ResetTyped, RstRows, DeleteHistory, Goto
<1>2. /\ hist' = [s \in Sessions |-> IF s \in cleared THEN <<>> ELSE hist[s]]
      /\ fence' = [s \in Sessions |-> IF s \in cleared THEN seq + 1 ELSE fence[s]]
      /\ gone' = [s \in Sessions |-> IF s \in cleared THEN nextPos[s] ELSE gone[s]]
      /\ hid' = hid \cup UNION {Retired(s) : s \in cleared}
  BY DEF DeleteHistory, ClearedFence
<1>3. /\ LedgerInv /\ seq \in Nat /\ fence \in [Sessions -> Nat]
      /\ \A s \in Sessions : fence[s] \in Nat /\ fence[s] =< seq
      /\ \A r \in Runs : runs[r].token \in Nat /\ runs[r].token =< seq /\ runs[r].pos \in Nat
      /\ hist \in [Sessions -> Seq(Runs)]
      /\ nextPos \in [Sessions -> Nat] /\ gone \in [Sessions -> Nat]
  BY DEF ResetIInv, ResetTyped, LedgerInv, TypeOK, Rows, TokensDrawn
<1>4. row \in RstRows /\ row.scope = rst[x].scope /\ row.pc = "release"
  BY <1>1 DEF RstRows, ResetPcs
<1> HIDE DEF row
<1>5. /\ rst' \in [Resets -> RstRows]
      /\ \A y \in Resets : rst'[y] = IF y = x THEN row ELSE rst[y]
      /\ \A y \in Resets : rst'[y].pc # "new" => rst'[y].scope \in Scopes
  BY <1>1, <1>4, RstMoves
<1>6. \A s \in cleared : ActiveIn(s) = {}
  BY <1>1 DEF ResetIInv, DrainedStaysDrained
<1> HIDE DEF cleared
<1>7. LedgerInv'
  <2>1. /\ fence' \in [Sessions -> Nat] /\ seq' \in Nat /\ seq =< seq'
        /\ \A s \in Sessions : fence'[s] =< seq'
    BY <1>1, <1>2, <1>3
  <2>2. <<>> \in Seq(Runs)
    OBVIOUS
  <2>3. /\ hist' \in [Sessions -> Seq(Runs)]
        /\ \A s \in Sessions : hist'[s] = hist[s] \/ hist'[s] = <<>>
    BY <1>2, <1>3, <2>2
  <2>4. resetting' \in SUBSET Sessions
    BY <1>1 DEF ResetIInv, LedgerInv, TypeOK
  <2> QED
    BY <1>1, <1>3, <2>1, <2>3, <2>4, EmptyingKeepsLedgerInv
<1>8. ResetTyped'
  <2>1. gone' \in [Sessions -> Nat]
    BY <1>2, <1>3
  <2>2. hid' \in SUBSET Runs
    BY <1>1, <1>2 DEF ResetTyped, Retired
  <2> QED
    BY <1>1, <1>5, <2>1, <2>2 DEF ResetTyped, RstRows
<1>9. ResettingIsLeased' /\ LeasesApart'
  BY <1>1 DEF ResetIInv, ResettingIsLeased, LeasesApart
<1>10. DrainedStaysDrained'
  <2>1. \A y \in Resets : (rst'[y].pc = "delete" /\ (Valid(y))') =>
            /\ Valid(y) /\ rst'[y].scope = rst[y].scope /\ rst[y].pc # "new"
            /\ rst[y].pc # "delete" => \A s \in Covers(rst[y].scope) : ActiveIn(s) = {}
    BY <1>1, <1>4, <1>5 DEF Valid
  <2>2. \A s \in resetting : ActiveIn(s) = {} => (ActiveIn(s))' = {}
    BY <1>1 DEF ActiveIn, Active
  <2> QED
    BY <2>1, <2>2, DrainedKept
<1>11. PastEnded'
  <2> SUFFICES ASSUME NEW s \in Sessions, NEW r \in Runs,
                      runs[r].session = s, runs[r].pos < gone'[s]
               PROVE  /\ Terminal(r)
                      /\ runs[r].token = 0 => r \in hid'
                      /\ runs[r].token > 0 => fence'[s] > runs[r].token
    BY <1>1 DEF PastEnded, Terminal
  <2>1. CASE s \in cleared
    <3>1. runs[r].state # "none"
      BY <1>3, NoneAssumption DEF LedgerInv, RowsNumbered, NoRow
    <3>2. Terminal(r)
      BY <1>3, <1>6, <2>1, <3>1
         DEF ActiveIn, Active, Terminal, LedgerInv, TypeOK, Rows
    <3>3. runs[r].token = 0 => r \in hid'
      BY <1>2, <2>1, <3>2 DEF Retired, Terminal
    <3>4. fence'[s] = seq + 1
      BY <1>2, <2>1
    <3> QED
      BY <1>3, <3>2, <3>3, <3>4
  <2>2. CASE s \notin cleared
    <3>1. gone'[s] = gone[s] /\ fence'[s] = fence[s] /\ hid \subseteq hid'
      BY <1>2, <2>2
    <3> QED
      BY <3>1 DEF ResetIInv, PastEnded
  <2> QED
    BY <2>1, <2>2
<1>12. HistoryIsNew'
  <2> SUFFICES ASSUME NEW s \in Sessions
               PROVE  /\ gone'[s] =< nextPos[s]
                      /\ \A i \in 1..Len(hist'[s]) : runs[hist'[s][i]].pos >= gone'[s]
    BY <1>1 DEF HistoryIsNew
  <2>1. CASE s \in cleared
    BY <1>2, <1>3, <2>1
  <2>2. CASE s \notin cleared
    BY <1>2, <2>2 DEF ResetIInv, HistoryIsNew
  <2> QED
    BY <2>1, <2>2
<1> QED
  BY <1>7, <1>8, <1>9, <1>10, <1>11, <1>12 DEF ResetIInv

\* Every step keeps the invariant.
LEMMA NextResetIInv ==
    ASSUME ResetScopes \subseteq Scopes
    PROVE  ResetIInv /\ [ResetNext]_zvars => ResetIInv'
<1> SUFFICES ASSUME ResetIInv, [ResetNext]_zvars PROVE ResetIInv'
  OBVIOUS
<1>1. ASSUME UNCHANGED <<lease, rst, gone, hid, resetting>>, Next \/ UNCHANGED lvars
      PROVE  ResetIInv'
  <2>1. /\ LedgerInv' /\ PastEnded' /\ HistoryIsNew'
        /\ \A s \in resetting : ActiveIn(s) = {} => (ActiveIn(s))' = {}
    <3>1. CASE Next
      BY <1>1, <3>1, LedgerKeepsPast
    <3>2. CASE UNCHANGED lvars
      BY <1>1, <3>2, QuietKeepsPast DEF lvars, ResetIInv, LedgerInv, TypeOK
    <3> QED
      BY <1>1, <3>1, <3>2
  <2>2. ResetTyped' /\ ResettingIsLeased' /\ LeasesApart'
    BY <1>1 DEF ResetIInv, ResetTyped, ResettingIsLeased, LeasesApart
  <2>3. \A y \in Resets : (rst'[y].pc = "delete" /\ (Valid(y))') =>
            /\ Valid(y) /\ rst'[y].scope = rst[y].scope /\ rst[y].pc # "new"
            /\ rst[y].pc # "delete" => \A s \in Covers(rst[y].scope) : ActiveIn(s) = {}
    BY <1>1 DEF Valid
  <2>4. DrainedStaysDrained'
    BY <2>1, <2>3, DrainedKept
  <2> QED
    BY <2>1, <2>2, <2>4 DEF ResetIInv
<1>2. CASE UNCHANGED zvars
  BY <1>1, <1>2 DEF zvars, lvars
<1>3. CASE NextFencingToken /\ UNCHANGED <<lease, rst, gone, hid>>
  BY <1>1, <1>3 DEF Next, NextFencingToken
<1>4. ASSUME NEW r \in Runs, LedgerStep(r), UNCHANGED <<lease, rst, gone, hid>>
      PROVE  ResetIInv'
  BY <1>1, <1>4, LedgerStepIsNext DEF ResetIInv
<1>5. ASSUME NEW x \in Resets, NEW o \in rst[x].todo, StopOrphan(x, o) PROVE ResetIInv'
  BY <1>5, StopOrphanKeepsReset
<1>6. ASSUME NEW x \in Resets, DeleteHistory(x) PROVE ResetIInv'
  BY <1>6, DeleteKeepsReset
<1>7. ASSUME NEW x \in Resets,
             Drain(x) \/ GiveUp(x) \/ \E o \in rst[x].todo : StopRouted(x, o)
      PROVE  ResetIInv'
  BY <1>7, OwnStepKeepsReset
<1>8. CASE \/ \E k \in Scopes : LeaseExpires(k)
           \/ \E x \in Resets, k \in ResetScopes : AcquireLease(x, k)
           \/ \E x \in Resets : Release(x)
  BY <1>8, LeaseKeepsReset
<1> QED
  BY <1>2, <1>3, <1>4, <1>5, <1>6, <1>7, <1>8 DEF ResetNext

\* A reset deletes only what has no active run before it, two resets never cover the
\* same session, and the ledger keeps its invariant, whatever expires, fails or is late
\* (reset.go, ValidateResetLocked, AcquireLockedBotRuntimeReset).
THEOREM ResetTheorem ==
    ASSUME ResetScopes \subseteq Scopes
    PROVE  ResetSpec => []ResetInv
<1>1. ResetInit => ResetIInv
  BY InitResetIInv
<1>2. ResetIInv /\ [ResetNext]_zvars => ResetIInv'
  BY NextResetIInv
<1>3. ResetIInv => ResetInv
  BY ResetIInvImpliesInv
<1> QED
  BY <1>1, <1>2, <1>3, PTL DEF ResetSpec

\* What was deleted stays forgotten: none of its runs writes into the new history, is
\* active again or is reported to a client (ClearHistoryBySession, ClearHistoryByBot).
THEOREM ForgottenTheorem ==
    ASSUME ResetScopes \subseteq Scopes
    PROVE  ResetSpec => []ClearedIsForgotten
<1>1. ResetInit => ResetIInv
  BY InitResetIInv
<1>2. ResetIInv /\ [ResetNext]_zvars => ResetIInv'
  BY NextResetIInv
<1>3. ResetIInv => ClearedIsForgotten
  BY ResetIInvForgets
<1> QED
  BY <1>1, <1>2, <1>3, PTL DEF ResetSpec

-----------------------------------------------------------------------------
(* Resets beside the ledger keep what users are promised.                  *)

\* A deletion clears the histories of sessions that have no live turn.
LEMMA DeleteIsClear ==
    ASSUME ResetIInv, NEW x \in Resets, DeleteHistory(x)
    PROVE  Outcome!Next
<1> DEFINE cleared == Covers(rst[x].scope)
<1>1. /\ rst[x].pc = "delete" /\ Valid(x) /\ rst[x].scope \in Scopes
      /\ UNCHANGED <<runs, nextPos>>
      /\ hist' = [s \in Sessions |-> IF s \in cleared THEN <<>> ELSE hist[s]]
  BY DEF ResetIInv, ResetTyped, RstRows, DeleteHistory
<1>2. cleared \subseteq Sessions
  BY <1>1 DEF Covers, Scopes
<1>3. \A s \in cleared : ActiveIn(s) = {}
  BY <1>1 DEF ResetIInv, DrainedStaysDrained
<1> HIDE DEF cleared
<1>4. ASSUME NEW r \in Runs, PhaseOf(runs[r]) \in {"open", "sealed"}
      PROVE  runs[r].session \notin cleared
  <2>1. runs[r] \in Rows
    BY DEF ResetIInv, LedgerInv, TypeOK
  <2>2. Active(r)
    BY <1>4, <2>1, PhaseOfRow DEF Active, ActiveStates, OpenStates, Rows
  <2> QED
    BY <1>3, <2>2 DEF ActiveIn
<1>5. Outcome!Clear(cleared)
  BY <1>1, <1>4 DEF Outcome!Clear, Outcome!Live
<1> QED
  BY <1>2, <1>5 DEF Outcome!Next

\* Every step beside or of a reset is a step of RunOutcome or is not seen by it.
LEMMA ResetNextIsOutcome == ResetIInv /\ [ResetNext]_zvars => [Outcome!Next]_(Outcome!ovars)
<1> SUFFICES ASSUME ResetIInv, [ResetNext]_zvars PROVE [Outcome!Next]_(Outcome!ovars)
  OBVIOUS
<1>1. LedgerInv
  BY DEF ResetIInv
<1>2. ASSUME Next \/ UNCHANGED lvars PROVE [Outcome!Next]_(Outcome!ovars)
  BY <1>1, <1>2, NextIsOutcome
<1>3. ASSUME UNCHANGED <<runs, nextPos, hist>> PROVE UNCHANGED Outcome!ovars
  BY <1>3 DEF Outcome!ovars
<1>4. CASE UNCHANGED zvars
  BY <1>2, <1>4 DEF zvars
<1>5. CASE NextFencingToken
  BY <1>2, <1>5 DEF Next
<1>6. ASSUME NEW r \in Runs, LedgerStep(r) PROVE [Outcome!Next]_(Outcome!ovars)
  BY <1>1, <1>2, <1>6, LedgerStepIsNext
<1>7. ASSUME NEW x \in Resets, NEW o \in rst[x].todo, StopOrphan(x, o)
      PROVE  [Outcome!Next]_(Outcome!ovars)
  <2>1. CASE CanFinalize(o.run, o.token, ActiveStates)
    <3>1. FenceAndFinalizeOrphan(o.run, o.token)
      BY <1>7, <2>1 DEF StopOrphan
    <3>2. o.run \in Runs /\ o.token \in Nat
      BY DEF ResetIInv, ResetTyped, RstRows, Seen
    <3>3. o.token \in Tokens
      BY <1>1, <2>1, <3>2 DEF CanFinalize, Owned, LedgerInv, TokensDrawn, TypeOK, Tokens
    <3>4. Work(o.run, o.token)
      BY <3>1 DEF Work
    <3> QED
      BY <1>2, <3>2, <3>3, <3>4 DEF Next
  <2>2. CASE ~CanFinalize(o.run, o.token, ActiveStates)
    BY <1>2, <1>7, <2>2 DEF StopOrphan
  <2> QED
    BY <2>1, <2>2
<1>8. ASSUME NEW x \in Resets, DeleteHistory(x) PROVE [Outcome!Next]_(Outcome!ovars)
  BY <1>8, DeleteIsClear
<1>9. CASE \/ \E k \in Scopes : LeaseExpires(k)
           \/ \E x \in Resets :
                \/ \E k \in ResetScopes : AcquireLease(x, k)
                \/ Drain(x) \/ GiveUp(x) \/ Release(x)
                \/ \E o \in rst[x].todo : StopRouted(x, o)
  <2>1. UNCHANGED <<runs, nextPos, hist>>
    BY <1>9 DEF LeaseExpires, AcquireLease, Drain, GiveUp, Release, StopRouted, lvars
  <2> QED
    BY <1>3, <2>1
<1> QED
  BY <1>4, <1>5, <1>6, <1>7, <1>8, <1>9 DEF ResetNext

\* Deleting histories beside the runs keeps what users are promised: turns still take
\* one another's place in order, and a history goes only while none of them is live.
THEOREM ResetImplementsRunOutcome ==
    ASSUME ResetScopes \subseteq Scopes
    PROVE  ResetSpec => ImplementsRunOutcome
<1>1. ResetInit => ResetIInv
  BY InitResetIInv
<1>2. ResetIInv /\ [ResetNext]_zvars => ResetIInv'
  BY NextResetIInv
<1>3. ResetInit => Outcome!Init
  BY DEF ResetInit, LedgerInit, Outcome!Init, NoRow, PhaseOf, VerdictOf, TerminalStates
<1>4. ResetIInv /\ [ResetNext]_zvars => [Outcome!Next]_(Outcome!ovars)
  BY ResetNextIsOutcome
<1> QED
  BY <1>1, <1>2, <1>3, <1>4, PTL DEF ResetSpec, ImplementsRunOutcome, Outcome!Spec
=============================================================================
