------------------------ MODULE SessionLedgerProofs ------------------------
(***************************************************************************)
(* Proofs about SessionLedger, for any number of sessions, runs, owners,   *)
(* tokens and steps, and for callers that may present any token ever drawn.*)
(*                                                                         *)
(* Most operations rewrite one active row and leave its identity alone:    *)
(* RowStep is that shape, and RowStepKeepsStructure shows once that the    *)
(* shape keeps the structural half of LedgerInv.                           *)
(***************************************************************************)
EXTENDS SessionLedger, TLAPS

\* The active row r changes, keeps its identity, and ends up with a token that
\* is not smaller and was drawn.
RowStep(r) ==
    /\ Active(r)
    /\ runs' \in [Runs -> Rows]
    /\ \A q \in Runs : q # r => runs'[q] = runs[q]
    /\ runs'[r].session = runs[r].session
    /\ runs'[r].inv = runs[r].inv
    /\ runs'[r].pos = runs[r].pos
    /\ runs'[r].state \in ActiveStates \cup TerminalStates
    /\ runs[r].token =< runs'[r].token
    /\ runs'[r].token =< seq'

\* What RowStep keeps by itself.
Structure ==
    /\ RowsNumbered
    /\ ActiveRunIsNewestTurn
    /\ OneRunPerInvocation
    /\ HistoryOfSession
    /\ HistoryInTurnOrder

\* Rewriting one active row disturbs neither the turn order nor the history.
LEMMA RowStepKeepsStructure ==
    ASSUME NEW r \in Runs, TypeOK, Structure, RowStep(r), UNCHANGED <<nextPos, hist>>
    PROVE  Structure'
<1>1. \A q \in Runs : /\ runs'[q].session = runs[q].session
                      /\ runs'[q].inv = runs[q].inv
                      /\ runs'[q].pos = runs[q].pos
                      /\ runs'[q].state = "none" <=> runs[q].state = "none"
                      /\ runs'[q].state = "none" => runs'[q] = runs[q]
                      /\ runs'[q].state \in ActiveStates => runs[q].state \in ActiveStates
                      /\ runs[q].state \in TerminalStates => runs'[q].state \in TerminalStates
  BY DEF RowStep, Active, ActiveStates, TerminalStates
<1>2. RowsNumbered'
  <2> SUFFICES ASSUME NEW q \in Runs
               PROVE  /\ runs'[q].state = "none" => runs'[q] = NoRow
                      /\ runs'[q].state # "none" =>
                            /\ runs'[q].session \in Sessions
                            /\ runs'[q].inv \in Invs
                            /\ runs'[q].pos < nextPos'[runs'[q].session]
    BY DEF RowsNumbered, NoRow
  <2> QED
    BY <1>1 DEF Structure, RowsNumbered
<1>3. ActiveRunIsNewestTurn'
  BY <1>1 DEF Structure, ActiveRunIsNewestTurn, Active, Terminal
<1>4. OneRunPerInvocation'
  BY <1>1 DEF Structure, OneRunPerInvocation
<1>5. HistoryOfSession' /\ HistoryInTurnOrder'
  <2>1. \A s \in Sessions : \A i \in 1..Len(hist[s]) : hist[s][i] \in Runs
    BY DEF TypeOK
  <2>2. hist' = hist
    OBVIOUS
  <2>3. HistoryOfSession'
    BY <1>1, <2>1, <2>2 DEF Structure, HistoryOfSession
  <2>4. HistoryInTurnOrder'
    BY <1>1, <2>1, <2>2 DEF Structure, HistoryInTurnOrder
  <2> QED
    BY <2>3, <2>4
<1> QED
  BY <1>2, <1>3, <1>4, <1>5 DEF Structure

-----------------------------------------------------------------------------
(* Every operation on an existing row is a RowStep.                        *)

\* The verdict of an active run is a terminal state: a finishing run has a
\* proposal.
LEMMA VerdictIsTerminal ==
    ASSUME TypeOK, ProposalDecides, NEW r \in Runs, NEW st \in TerminalStates
    PROVE  Verdict(runs[r], st) \in TerminalStates
BY DEF TypeOK, ProposalDecides, Verdict, Rows, OwnerStates, TerminalStates

\* The proposal an owner's request leaves in the row is one an owner may make.
LEMMA ProposalIsOwners ==
    ASSUME TypeOK, NEW r \in Runs, NEW st \in OwnerStates
    PROVE  /\ Proposal(runs[r], st) \in OwnerStates
           /\ Proposal(runs[r], st) # "none"
BY DEF TypeOK, Proposal, Rows, OwnerStates, TerminalStates

\* Rewriting fields of a row leaves a row.
LEMMA RowWrites ==
    ASSUME NEW row \in Rows
    PROVE  /\ \A st \in ActiveStates \cup TerminalStates : [row EXCEPT !.state = st] \in Rows
           /\ [row EXCEPT !.abort = TRUE] \in Rows
           /\ \A p \in OwnerStates :
                [row EXCEPT !.state = "finishing", !.proposed = p] \in Rows
           /\ \A o \in Owners, t \in Nat, g \in Gens :
                /\ [row EXCEPT !.owner = o, !.token = t, !.gen = g] \in Rows
                /\ [row EXCEPT !.state = "running", !.owner = o, !.token = t, !.gen = g] \in Rows
<1>1. "finishing" \in ActiveStates /\ "running" \in ActiveStates
  BY DEF ActiveStates
<1>2. \A st \in ActiveStates \cup TerminalStates : [row EXCEPT !.state = st] \in Rows
  BY DEF Rows
<1>3. [row EXCEPT !.abort = TRUE] \in Rows
  BY DEF Rows
<1>4. \A p \in OwnerStates :
        [row EXCEPT !.state = "finishing", !.proposed = p] \in Rows
  BY <1>1, Zenon DEF Rows
<1>5. \A o \in Owners, t \in Nat, g \in Gens :
        [row EXCEPT !.owner = o, !.token = t, !.gen = g] \in Rows
  BY Zenon DEF Rows
<1>6. \A o \in Owners, t \in Nat, g \in Gens :
        [row EXCEPT !.state = "running", !.owner = o, !.token = t, !.gen = g] \in Rows
  BY <1>1, Zenon DEF Rows
<1> QED
  BY <1>2, <1>3, <1>4, <1>5, <1>6

\* A write of a row with the identity of runs[r] is a RowStep.
LEMMA WriteIsRowStep ==
    ASSUME runs \in [Runs -> Rows], NEW r \in Runs, Active(r), NEW row \in Rows,
           runs' = [runs EXCEPT ![r] = row],
           row.session = runs[r].session, row.inv = runs[r].inv, row.pos = runs[r].pos,
           row.state \in ActiveStates \cup TerminalStates,
           runs[r].token =< row.token, row.token =< seq'
    PROVE  RowStep(r) /\ runs'[r] = row
BY DEF RowStep

\* The facts a fenced write starts from.
LEMMA RowFacts ==
    ASSUME TypeOK, TokensDrawn, NEW r \in Runs
    PROVE  /\ runs \in [Runs -> Rows] /\ runs[r] \in Rows
           /\ runs[r].token \in Nat /\ seq \in Nat /\ runs[r].token =< seq
BY DEF TypeOK, TokensDrawn, Rows

\* A change of state under the run's own token.
LEMMA StateWriteIsRowStep ==
    ASSUME TypeOK, TokensDrawn, NEW r \in Runs, Active(r),
           NEW st \in ActiveStates \cup TerminalStates,
           runs' = [runs EXCEPT ![r].state = st], seq' \in Nat, seq =< seq'
    PROVE  RowStep(r) /\ runs'[r] = [runs[r] EXCEPT !.state = st]
<1> DEFINE row == [runs[r] EXCEPT !.state = st]
<1>1. /\ runs \in [Runs -> Rows] /\ runs[r] \in Rows
      /\ runs[r].token \in Nat /\ seq \in Nat /\ runs[r].token =< seq
  BY RowFacts
<1>2. row \in Rows
  BY <1>1, RowWrites
<1>3. /\ row.session = runs[r].session /\ row.inv = runs[r].inv /\ row.pos = runs[r].pos
      /\ row.token = runs[r].token /\ row.state = st
  BY <1>1 DEF Rows
<1>4. runs' = [runs EXCEPT ![r] = row]
  OBVIOUS
<1> HIDE DEF row
<1>5. runs[r].token =< row.token /\ row.token =< seq'
  BY <1>1, <1>3
<1>6. RowStep(r) /\ runs'[r] = row
  BY <1>1, <1>2, <1>3, <1>4, <1>5, WriteIsRowStep
<1> QED
  BY <1>6 DEF row

\* A change of owner: the new token was drawn and is larger.
LEMMA OwnerWriteIsRowStep ==
    ASSUME TypeOK, TokensDrawn, NEW r \in Runs, Active(r), UNCHANGED seq,
           NEW t \in 1..seq, runs[r].token < t, NEW row \in Rows,
           runs' = [runs EXCEPT ![r] = row],
           row.session = runs[r].session, row.inv = runs[r].inv, row.pos = runs[r].pos,
           row.state \in ActiveStates, row.token = t
    PROVE  RowStep(r) /\ runs'[r] = row
<1>1. /\ runs \in [Runs -> Rows] /\ runs[r] \in Rows
      /\ runs[r].token \in Nat /\ seq \in Nat /\ runs[r].token =< seq
  BY RowFacts
<1>2. runs[r].token =< row.token /\ row.token =< seq'
  BY <1>1
<1> QED
  BY <1>1, <1>2, WriteIsRowStep

-----------------------------------------------------------------------------
(* The inductive invariant.                                                *)

\* The proposal part of the invariant, of one row.
RowDecided(row) ==
    /\ row.state = "finishing" => row.proposed # "none"
    /\ (row.state \in TerminalStates /\ row.proposed # "none") => row.state = row.proposed
    /\ row.proposed # "none" => row.state \in TerminalStates \cup {"finishing"}
    /\ (row.abort /\ row.proposed # "none") => row.proposed = "aborted"

\* The three proposal invariants say that every row is decided.
LEMMA DecidedRows ==
    (ProposalDecides /\ ProposalEndsWork /\ AbortBeatsProposal)
        <=> \A r \in Runs : RowDecided(runs[r])
BY DEF ProposalDecides, ProposalEndsWork, AbortBeatsProposal, RowDecided, Terminal

\* The same of the next state.
LEMMA DecidedRowsNext ==
    (\A r \in Runs : RowDecided(runs'[r]))
        => (ProposalDecides /\ ProposalEndsWork /\ AbortBeatsProposal)'
BY DEF ProposalDecides, ProposalEndsWork, AbortBeatsProposal, RowDecided, Terminal

\* A RowStep keeps the invariant if the fence stays within the drawn tokens
\* and the row it leaves is decided.
LEMMA RowStepKeepsLedgerInv ==
    ASSUME LedgerInv, NEW r \in Runs, RowStep(r),
           UNCHANGED <<nextPos, hist, resetting>>,
           seq' \in Nat, seq =< seq',
           fence' \in [Sessions -> Nat], \A s \in Sessions : fence'[s] =< seq',
           RowDecided(runs'[r])
    PROVE  LedgerInv'
<1>1. TypeOK /\ Structure /\ TokensDrawn /\ \A q \in Runs : RowDecided(runs[q])
  BY DecidedRows DEF LedgerInv, Structure
<1>2. TypeOK'
  BY <1>1 DEF TypeOK, RowStep
<1>3. Structure'
  BY <1>1, RowStepKeepsStructure
<1>4. TokensDrawn'
  <2>1. \A q \in Runs : runs[q].token \in Nat /\ runs[q].token =< seq /\ seq \in Nat
    BY <1>1 DEF TokensDrawn, TypeOK, Rows
  <2>2. \A q \in Runs : runs'[q].token =< seq'
    BY <2>1 DEF RowStep
  <2> QED
    BY <2>2 DEF TokensDrawn
<1>5. \A q \in Runs : RowDecided(runs'[q])
  BY <1>1 DEF RowStep
<1> QED
  BY <1>2, <1>3, <1>4, <1>5, DecidedRowsNext DEF LedgerInv, Structure

\* An empty ledger satisfies the inductive invariant.
LEMMA InitLedgerInv == LedgerInit => LedgerInv
<1> SUFFICES ASSUME LedgerInit PROVE LedgerInv
  OBVIOUS
<1> USE DEF LedgerInit
<1>1. NoRow \in Rows
  BY DEF NoRow, Rows
<1>2. TypeOK
  BY <1>1 DEF TypeOK
<1>3. \A r \in Runs : runs[r] = NoRow
  OBVIOUS
<1>4. RowsNumbered /\ TokensDrawn /\ ActiveRunIsNewestTurn /\ OneRunPerInvocation
  BY <1>3 DEF RowsNumbered, TokensDrawn, ActiveRunIsNewestTurn, OneRunPerInvocation,
              Active, ActiveStates, NoRow
<1>5. HistoryOfSession /\ HistoryInTurnOrder
  BY DEF HistoryOfSession, HistoryInTurnOrder
<1>6. ProposalDecides /\ ProposalEndsWork /\ AbortBeatsProposal
  BY <1>3 DEF ProposalDecides, ProposalEndsWork, AbortBeatsProposal, Terminal, TerminalStates, NoRow
<1> QED
  BY <1>2, <1>4, <1>5, <1>6 DEF LedgerInv

\* A new row: the only run of its session that is active, at the counter's
\* position.
LEMMA AdmitKeepsLedgerInv ==
    ASSUME LedgerInv, NEW r \in Runs, NEW s \in Sessions, NEW i \in Invs, Admit(r, s, i)
    PROVE  LedgerInv'
<1> DEFINE row == [NoRow EXCEPT !.state = "accepted", !.session = s, !.inv = i,
                                !.pos = nextPos[s]]
<1>1. /\ TypeOK /\ Structure /\ TokensDrawn
      /\ \A q \in Runs : RowDecided(runs[q])
  BY DecidedRows DEF LedgerInv, Structure
<1>2. /\ row.state = "accepted" /\ row.session = s /\ row.inv = i
      /\ row.pos = nextPos[s] /\ row.token = 0 /\ row.proposed = "none"
      /\ row \in Rows
  BY <1>1 DEF NoRow, Rows, ActiveStates, TypeOK
<1> HIDE DEF row
<1>3. /\ runs[r].state = "none"
      /\ runs' = [runs EXCEPT ![r] = row]
      /\ nextPos' = [nextPos EXCEPT ![s] = @ + 1]
      /\ UNCHANGED <<fence, resetting, seq, hist>>
      /\ ActiveIn(s) = {} /\ Admitted(s, i) = {}
  BY DEF Admit, AdmitAnswer, row
<1>4. TypeOK'
  BY <1>1, <1>2, <1>3 DEF TypeOK
<1>5. runs'[r] = row /\ \A q \in Runs : q # r => runs'[q] = runs[q]
  BY <1>1, <1>3 DEF TypeOK
<1>6. \A q \in Runs : runs[q].session = s => Terminal(q) /\ runs[q].pos < nextPos[s]
  BY <1>1, <1>3, NoneAssumption
     DEF Structure, RowsNumbered, TypeOK, Rows, NoRow, ActiveIn, Active, Terminal
<1>7. RowsNumbered'
  <2> SUFFICES ASSUME NEW q \in Runs
               PROVE  /\ runs'[q].state = "none" => runs'[q] = NoRow
                      /\ runs'[q].state # "none" =>
                            /\ runs'[q].session \in Sessions
                            /\ runs'[q].inv \in Invs
                            /\ runs'[q].pos < nextPos'[runs'[q].session]
    BY DEF RowsNumbered, NoRow
  <2>1. \A x \in Sessions : nextPos[x] =< nextPos'[x] /\ nextPos[x] \in Nat /\ nextPos'[x] \in Nat
    BY <1>1, <1>3 DEF TypeOK
  <2>2. CASE q = r
    BY <2>2, <1>2, <1>3, <1>5, <1>1 DEF TypeOK
  <2>3. CASE q # r
    BY <2>1, <2>3, <1>5, <1>1 DEF Structure, RowsNumbered, TypeOK, Rows
  <2> QED
    BY <2>2, <2>3
<1>8. ActiveRunIsNewestTurn'
  BY <1>1, <1>2, <1>5, <1>6
     DEF Structure, ActiveRunIsNewestTurn, Active, Terminal, ActiveStates, TerminalStates
<1>9. OneRunPerInvocation'
  BY <1>1, <1>2, <1>3, <1>5 DEF Structure, OneRunPerInvocation, Admitted
<1>10. HistoryOfSession' /\ HistoryInTurnOrder'
  <2>1. \A x \in Sessions : \A k \in 1..Len(hist[x]) :
            hist[x][k] \in Runs /\ hist[x][k] # r
    BY <1>1, <1>3, NoneAssumption DEF Structure, HistoryOfSession, RowsNumbered, NoRow, TypeOK
  <2> QED
    BY <1>1, <1>3, <1>5, <2>1 DEF Structure, HistoryOfSession, HistoryInTurnOrder
<1>11. TokensDrawn'
  BY <1>1, <1>2, <1>3, <1>5 DEF TokensDrawn, TypeOK
<1>12. \A q \in Runs : RowDecided(runs'[q])
  BY <1>1, <1>2, <1>5 DEF RowDecided, TerminalStates
<1> QED
  BY <1>4, <1>7, <1>8, <1>9, <1>10, <1>11, <1>12, DecidedRowsNext DEF LedgerInv

\* Ownership changes: Claim and ReclaimWaitingDecision.
LEMMA OwnershipKeepsLedgerInv ==
    ASSUME LedgerInv, NEW r \in Runs, NEW t \in 1..seq, NEW o \in Owners, NEW g \in Gens,
           Claim(r, o, t, g) \/ \E p \in Tokens : ReclaimWaitingDecision(r, o, p, t, g)
    PROVE  LedgerInv' /\ RowStep(r)
<1> DEFINE claimed == [runs[r] EXCEPT !.state = "running", !.owner = o, !.token = t, !.gen = g]
           reclaimed == [runs[r] EXCEPT !.owner = o, !.token = t, !.gen = g]
<1>1. TypeOK /\ TokensDrawn /\ RowDecided(runs[r])
  BY DecidedRows DEF LedgerInv
<1>2. /\ runs \in [Runs -> Rows] /\ runs[r] \in Rows
      /\ runs[r].token \in Nat /\ seq \in Nat /\ runs[r].token =< seq
  BY <1>1, RowFacts
<1>3. claimed \in Rows /\ reclaimed \in Rows
  <2>1. t \in Nat
    BY <1>2
  <2> QED
    BY <1>2, <2>1, RowWrites
<1>4. /\ claimed.session = runs[r].session /\ claimed.inv = runs[r].inv
      /\ claimed.pos = runs[r].pos /\ claimed.token = t /\ claimed.state = "running"
      /\ claimed.proposed = runs[r].proposed
  BY <1>2 DEF Rows
<1>5. /\ reclaimed.session = runs[r].session /\ reclaimed.inv = runs[r].inv
      /\ reclaimed.pos = runs[r].pos /\ reclaimed.token = t
      /\ reclaimed.state = runs[r].state /\ reclaimed.proposed = runs[r].proposed
  BY <1>2 DEF Rows
<1>6. CASE Claim(r, o, t, g)
  <2>1. /\ runs' = [runs EXCEPT ![r] = claimed]
        /\ UNCHANGED <<nextPos, fence, resetting, seq, hist>>
    BY <1>6 DEF Claim
  <2>2. runs[r].state = "accepted" /\ runs[r].token < t
    BY <1>6 DEF Claim, CanClaim
  <2> HIDE DEF claimed
  <2>3. Active(r) /\ claimed.state \in ActiveStates
    BY <2>2, <1>4 DEF Active, ActiveStates
  <2>4. RowStep(r) /\ runs'[r] = claimed
    BY <1>1, <1>3, <1>4, <2>1, <2>2, <2>3, OwnerWriteIsRowStep
  <2>5. RowDecided(runs'[r])
    BY <1>1, <1>4, <2>2, <2>4 DEF RowDecided, TerminalStates
  <2>6. fence' \in [Sessions -> Nat] /\ \A s \in Sessions : fence'[s] =< seq'
    BY <1>1, <2>1 DEF TypeOK, TokensDrawn
  <2> QED
    BY <1>2, <2>1, <2>4, <2>5, <2>6, RowStepKeepsLedgerInv
<1>7. CASE \E p \in Tokens : ReclaimWaitingDecision(r, o, p, t, g)
  <2> PICK p \in Tokens : ReclaimWaitingDecision(r, o, p, t, g)
    BY <1>7
  <2>1. /\ runs' = [runs EXCEPT ![r] = reclaimed]
        /\ fence' = [fence EXCEPT ![runs[r].session] = t]
        /\ UNCHANGED <<nextPos, resetting, seq, hist>>
    BY DEF ReclaimWaitingDecision
  <2>2. runs[r].state = "waiting" /\ runs[r].token < t
    BY DEF ReclaimWaitingDecision, CanReclaim
  <2> HIDE DEF reclaimed
  <2>3. Active(r) /\ reclaimed.state \in ActiveStates
    BY <2>2, <1>5 DEF Active, ActiveStates
  <2>4. RowStep(r) /\ runs'[r] = reclaimed
    BY <1>1, <1>3, <1>5, <2>1, <2>2, <2>3, OwnerWriteIsRowStep
  <2>5. RowDecided(runs'[r])
    BY <1>1, <1>5, <2>2, <2>4 DEF RowDecided, TerminalStates
  <2>6. fence' \in [Sessions -> Nat] /\ \A s \in Sessions : fence'[s] =< seq'
    <3>1. fence \in [Sessions -> Nat] /\ \A s \in Sessions : fence[s] =< seq
      BY <1>1 DEF TypeOK, TokensDrawn
    <3>2. t \in Nat /\ t =< seq /\ seq' = seq
      BY <1>2, <2>1
    <3> QED
      BY <2>1, <3>1, <3>2
  <2> QED
    BY <1>2, <2>1, <2>4, <2>5, <2>6, RowStepKeepsLedgerInv
<1> QED
  BY <1>6, <1>7

\* Changes of state by the owner and the abort intent of a user.
LEMMA StateKeepsLedgerInv ==
    ASSUME LedgerInv, NEW r \in Runs, NEW t \in Tokens,
           SetWaitingDecision(r, t) \/ Resume(r, t) \/ RequestAbort(r)
    PROVE  LedgerInv' /\ RowStep(r)
<1>1. TypeOK /\ TokensDrawn /\ RowDecided(runs[r])
  BY DecidedRows DEF LedgerInv
<1>2. /\ runs \in [Runs -> Rows] /\ runs[r] \in Rows
      /\ runs[r].token \in Nat /\ seq \in Nat /\ runs[r].token =< seq
  BY <1>1, RowFacts
<1>3. /\ UNCHANGED <<nextPos, fence, resetting, seq, hist>>
      /\ runs[r].state \in {"accepted", "running", "waiting"}
  BY DEF SetWaitingDecision, Resume, RequestAbort, Owned, CanAbort
<1>4. fence' \in [Sessions -> Nat] /\ \A s \in Sessions : fence'[s] =< seq'
  BY <1>1, <1>3 DEF TypeOK, TokensDrawn
<1>5. Active(r)
  BY <1>3 DEF Active, ActiveStates
<1>6. RowStep(r) /\ RowDecided(runs'[r])
  <2>1. ASSUME NEW st \in {"waiting", "running"}, runs' = [runs EXCEPT ![r].state = st]
        PROVE  RowStep(r) /\ RowDecided(runs'[r])
    <3>1. st \in ActiveStates \cup TerminalStates
      BY DEF ActiveStates
    <3>2. RowStep(r) /\ runs'[r] = [runs[r] EXCEPT !.state = st]
      <4>1. seq' \in Nat /\ seq =< seq'
        BY <1>2, <1>3
      <4> QED
        BY <1>1, <1>5, <2>1, <3>1, <4>1, StateWriteIsRowStep
    <3>3. runs'[r].state = st /\ runs'[r].proposed = runs[r].proposed
      BY <1>2, <3>2 DEF Rows
    <3>4. runs[r].proposed = "none"
      BY <1>1, <1>3 DEF RowDecided, TerminalStates
    <3> QED
      BY <3>2, <3>3, <3>4 DEF RowDecided
  <2>2. CASE SetWaitingDecision(r, t)
    BY <2>1, <2>2 DEF SetWaitingDecision
  <2>3. CASE Resume(r, t)
    BY <2>1, <2>3 DEF Resume
  <2>4. CASE RequestAbort(r)
    <3> DEFINE row == [runs[r] EXCEPT !.abort = TRUE]
    <3>1. row \in Rows
      BY <1>2, RowWrites
    <3>2. /\ row.session = runs[r].session /\ row.inv = runs[r].inv /\ row.pos = runs[r].pos
          /\ row.token = runs[r].token /\ row.state = runs[r].state
          /\ row.proposed = runs[r].proposed
      BY <1>2 DEF Rows
    <3>3. runs' = [runs EXCEPT ![r] = row]
      BY <2>4 DEF RequestAbort
    <3> HIDE DEF row
    <3>4. row.state \in ActiveStates \cup TerminalStates
      BY <1>5, <3>2 DEF Active
    <3>5. RowStep(r) /\ runs'[r] = row
      <4>1. runs[r].token =< row.token /\ row.token =< seq'
        BY <1>2, <1>3, <3>2
      <4> QED
        BY <1>2, <1>5, <3>1, <3>2, <3>3, <3>4, <4>1, WriteIsRowStep
    <3>6. runs[r].proposed = "none"
      BY <1>1, <1>3 DEF RowDecided, TerminalStates
    <3> QED
      BY <1>3, <3>2, <3>5, <3>6 DEF RowDecided
  <2> QED
    BY <2>2, <2>3, <2>4
<1> QED
  BY <1>2, <1>3, <1>4, <1>6, RowStepKeepsLedgerInv

\* The durable proposal: kept if there is one, aborted if that was requested.
LEMMA PrepareKeepsLedgerInv ==
    ASSUME LedgerInv, NEW r \in Runs, NEW t \in Tokens, NEW st \in OwnerStates,
           PrepareFinish(r, t, st)
    PROVE  LedgerInv' /\ RowStep(r)
<1> DEFINE row == [runs[r] EXCEPT !.state = "finishing", !.proposed = Proposal(runs[r], st)]
<1>1. TypeOK /\ TokensDrawn /\ RowDecided(runs[r])
  BY DecidedRows DEF LedgerInv
<1>2. /\ runs \in [Runs -> Rows] /\ runs[r] \in Rows
      /\ runs[r].token \in Nat /\ seq \in Nat /\ runs[r].token =< seq
  BY <1>1, RowFacts
<1>3. Proposal(runs[r], st) \in OwnerStates /\ Proposal(runs[r], st) # "none"
  BY <1>1, ProposalIsOwners
<1>4. row \in Rows
  BY <1>2, <1>3, RowWrites
<1>5. /\ row.session = runs[r].session /\ row.inv = runs[r].inv /\ row.pos = runs[r].pos
      /\ row.token = runs[r].token /\ row.state = "finishing"
      /\ row.proposed = Proposal(runs[r], st) /\ row.abort = runs[r].abort
  BY <1>2 DEF Rows
<1>6. /\ runs' = [runs EXCEPT ![r] = row]
      /\ UNCHANGED <<nextPos, fence, resetting, seq, hist>>
  BY DEF PrepareFinish
<1> HIDE DEF row
<1>7. Active(r) /\ row.state \in ActiveStates
  BY <1>5 DEF PrepareFinish, CanPrepare, Owned, Active, ActiveStates
<1>8. RowStep(r) /\ runs'[r] = row
  <2>1. runs[r].token =< row.token /\ row.token =< seq'
    BY <1>2, <1>5, <1>6
  <2> QED
    BY <1>2, <1>4, <1>5, <1>6, <1>7, <2>1, WriteIsRowStep
<1>9. RowDecided(runs'[r])
  BY <1>1, <1>3, <1>5, <1>8 DEF RowDecided, Proposal, TerminalStates
<1>10. fence' \in [Sessions -> Nat] /\ \A s \in Sessions : fence'[s] =< seq'
  BY <1>1, <1>6 DEF TypeOK, TokensDrawn
<1> QED
  BY <1>2, <1>6, <1>8, <1>9, <1>10, RowStepKeepsLedgerInv

\* The end of a run, by its token holder or by a history reset.
LEMMA EndKeepsLedgerInv ==
    ASSUME LedgerInv, NEW r \in Runs, NEW t \in Tokens,
           \/ \E st \in TerminalStates : \E e : Finalize(r, t, st, e)
           \/ FenceAndFinalizeOrphan(r, t)
    PROVE  LedgerInv' /\ RowStep(r)
<1>1. TypeOK /\ TokensDrawn /\ RowDecided(runs[r]) /\ ProposalDecides
  BY DecidedRows DEF LedgerInv
<1>2. /\ runs \in [Runs -> Rows] /\ runs[r] \in Rows
      /\ runs[r].token \in Nat /\ seq \in Nat /\ runs[r].token =< seq
  BY <1>1, RowFacts
<1>3. PICK st \in TerminalStates : runs' = [runs EXCEPT ![r].state = Verdict(runs[r], st)]
  <2>1. CASE \E st \in TerminalStates : \E e : Finalize(r, t, st, e)
    BY <2>1 DEF Finalize
  <2>2. CASE FenceAndFinalizeOrphan(r, t)
    BY <2>2 DEF FenceAndFinalizeOrphan, TerminalStates
  <2> QED
    BY <2>1, <2>2
<1>4. UNCHANGED <<nextPos, resetting, hist>>
  BY DEF Finalize, FenceAndFinalizeOrphan
<1>5. Active(r)
  BY DEF Finalize, FenceAndFinalizeOrphan, CanFinalize, Owned, Active
<1>6. /\ seq' \in Nat /\ seq =< seq'
      /\ \/ fence' = fence
         \/ seq' = seq + 1 /\ fence' = [fence EXCEPT ![runs[r].session] = seq + 1]
  BY <1>2 DEF Finalize, FenceAndFinalizeOrphan
<1>7. fence' \in [Sessions -> Nat] /\ \A s \in Sessions : fence'[s] =< seq'
  <2>1. fence \in [Sessions -> Nat] /\ \A s \in Sessions : fence[s] =< seq
    BY <1>1 DEF TypeOK, TokensDrawn
  <2> QED
    BY <1>2, <1>6, <2>1
<1>8. Verdict(runs[r], st) \in TerminalStates
  BY <1>1, VerdictIsTerminal
<1>9. RowStep(r) /\ runs'[r] = [runs[r] EXCEPT !.state = Verdict(runs[r], st)]
  BY <1>1, <1>3, <1>5, <1>6, <1>8, StateWriteIsRowStep
<1>10. /\ runs'[r].state = Verdict(runs[r], st) /\ runs'[r].proposed = runs[r].proposed
       /\ runs'[r].abort = runs[r].abort
  BY <1>2, <1>9 DEF Rows
<1>11. RowDecided(runs'[r])
  <2>1. runs[r].proposed # "none" => runs[r].state = "finishing"
    BY <1>1, <1>5 DEF RowDecided, Active, ActiveStates, TerminalStates
  <2> QED
    BY <1>1, <1>8, <1>10, <2>1 DEF RowDecided, Verdict, TerminalStates
<1> QED
  BY <1>4, <1>6, <1>7, <1>9, <1>11, RowStepKeepsLedgerInv

\* A persisted step: the writer is the newest turn of its session, so the
\* history stays in turn order.
LEMMA PersistKeepsLedgerInv ==
    ASSUME LedgerInv, NEW r \in Runs, NEW t \in Tokens, NEW b \in BOOLEAN,
           PersistAgentStep(r, t, b)
    PROVE  LedgerInv'
<1> DEFINE s == runs[r].session
<1>1. TypeOK /\ Structure
  BY DEF LedgerInv, Structure
<1>2. /\ Active(r) /\ runs[r].state # "none"
      /\ hist' = [hist EXCEPT ![s] = Append(@, r)]
      /\ UNCHANGED <<runs, nextPos, fence, resetting, seq>>
  BY DEF PersistAgentStep, CanPersist, Owned, Active, ActiveStates
<1>3. s \in Sessions
  BY <1>1, <1>2 DEF Structure, RowsNumbered
<1>4. hist \in [Sessions -> Seq(Runs)] /\ hist' \in [Sessions -> Seq(Runs)]
  BY <1>1, <1>2, <1>3 DEF TypeOK
<1>5. TypeOK'
  BY <1>1, <1>2, <1>4 DEF TypeOK
<1>6. /\ \A x \in Sessions \ {s} : hist'[x] = hist[x]
      /\ Len(hist'[s]) = Len(hist[s]) + 1
      /\ \A i \in 1..Len(hist[s]) : hist'[s][i] = hist[s][i] /\ hist[s][i] \in Runs
      /\ hist'[s][Len(hist[s]) + 1] = r
      /\ Len(hist[s]) \in Nat
  BY <1>2, <1>3, <1>4
<1>7. \A q \in Runs : runs[q].session = s => runs[q].pos =< runs[r].pos
  <2>1. \A q \in Runs : runs[q].pos \in Nat
    BY <1>1 DEF TypeOK, Rows
  <2> QED
    BY <1>1, <1>2, <2>1 DEF Structure, ActiveRunIsNewestTurn
<1> HIDE DEF s
<1>8. HistoryOfSession'
  <2> SUFFICES ASSUME NEW x \in Sessions, NEW i \in 1..Len(hist'[x])
               PROVE  runs[hist'[x][i]].session = x
    BY <1>2 DEF HistoryOfSession
  <2>1. CASE x = s /\ i = Len(hist[s]) + 1
    BY <1>6, <2>1 DEF s
  <2>2. CASE x = s /\ i # Len(hist[s]) + 1
    BY <1>1, <1>3, <1>6, <2>2 DEF Structure, HistoryOfSession
  <2>3. CASE x # s
    BY <1>1, <1>6, <2>3 DEF Structure, HistoryOfSession
  <2> QED
    BY <2>1, <2>2, <2>3
<1>9. HistoryInTurnOrder'
  <2> SUFFICES ASSUME NEW x \in Sessions, NEW i \in 1..Len(hist'[x]),
                      NEW j \in 1..Len(hist'[x]), i =< j
               PROVE  runs[hist'[x][i]].pos =< runs[hist'[x][j]].pos
    BY <1>2 DEF HistoryInTurnOrder
  <2>1. CASE x = s /\ j = Len(hist[s]) + 1
    <3>1. hist'[x][i] \in Runs /\ runs[hist'[x][i]].session = s
      <4>1. CASE i = Len(hist[s]) + 1
        BY <1>6, <2>1, <4>1 DEF s
      <4>2. CASE i # Len(hist[s]) + 1
        BY <1>1, <1>3, <1>6, <2>1, <4>2 DEF Structure, HistoryOfSession
      <4> QED
        BY <4>1, <4>2
    <3> QED
      BY <1>6, <1>7, <2>1, <3>1
  <2>2. CASE x = s /\ j # Len(hist[s]) + 1
    <3>1. i \in 1..Len(hist[s]) /\ j \in 1..Len(hist[s])
      BY <1>6, <2>2
    <3>2. runs[hist[s][i]].pos =< runs[hist[s][j]].pos
      BY <1>1, <1>3, <3>1 DEF Structure, HistoryInTurnOrder
    <3> QED
      BY <1>6, <2>2, <3>1, <3>2
  <2>3. CASE x # s
    BY <1>1, <1>6, <2>3 DEF Structure, HistoryInTurnOrder
  <2> QED
    BY <2>1, <2>2, <2>3
<1>10. RowsNumbered' /\ TokensDrawn' /\ ActiveRunIsNewestTurn' /\ OneRunPerInvocation'
  BY <1>2 DEF LedgerInv, RowsNumbered, TokensDrawn, ActiveRunIsNewestTurn,
              OneRunPerInvocation, Active, Terminal
<1>11. ProposalDecides' /\ ProposalEndsWork' /\ AbortBeatsProposal'
  BY <1>2 DEF LedgerInv, ProposalDecides, ProposalEndsWork, AbortBeatsProposal, Terminal
<1> QED
  BY <1>5, <1>8, <1>9, <1>10, <1>11 DEF LedgerInv

-----------------------------------------------------------------------------
(* The theorems.                                                           *)

\* Every step of the ledger keeps the invariant, whoever takes it.
LEMMA NextLedgerInv == LedgerInv /\ [Next]_lvars => LedgerInv'
<1> SUFFICES ASSUME LedgerInv, [Next]_lvars PROVE LedgerInv'
  OBVIOUS
<1> USE DEF LedgerInv
<1>1. ASSUME UNCHANGED <<runs, nextPos, hist>>,
             resetting' \in SUBSET Sessions, seq' \in Nat, seq =< seq',
             fence' \in [Sessions -> Nat], \A s \in Sessions : fence'[s] =< seq'
      PROVE  LedgerInv'
  <2>1. TypeOK'
    BY <1>1 DEF TypeOK
  <2>2. TokensDrawn'
    <3>1. \A r \in Runs : runs[r].token \in Nat /\ runs[r].token =< seq /\ seq \in Nat
      BY DEF TypeOK, TokensDrawn, Rows
    <3> QED
      BY <1>1, <3>1 DEF TokensDrawn
  <2>3. RowsNumbered' /\ ActiveRunIsNewestTurn' /\ OneRunPerInvocation'
    BY <1>1 DEF RowsNumbered, ActiveRunIsNewestTurn, OneRunPerInvocation, Active, Terminal
  <2>4. HistoryOfSession' /\ HistoryInTurnOrder'
    BY <1>1 DEF HistoryOfSession, HistoryInTurnOrder
  <2>5. ProposalDecides' /\ ProposalEndsWork' /\ AbortBeatsProposal'
    BY <1>1 DEF ProposalDecides, ProposalEndsWork, AbortBeatsProposal, Terminal
  <2> QED
    BY <2>1, <2>2, <2>3, <2>4, <2>5
<1>2. /\ resetting \in SUBSET Sessions /\ seq \in Nat /\ fence \in [Sessions -> Nat]
      /\ \A s \in Sessions : fence[s] =< seq
  BY DEF TypeOK, TokensDrawn
<1>3. CASE NextFencingToken
  <2>1. UNCHANGED <<runs, nextPos, fence, resetting, hist>> /\ seq' = seq + 1
    BY <1>3 DEF NextFencingToken
  <2>2. seq' \in Nat /\ seq =< seq' /\ \A s \in Sessions : fence'[s] =< seq'
    BY <1>2, <2>1
  <2> QED
    BY <1>1, <1>2, <2>1, <2>2
<1>4. CASE \E s \in Sessions : AcquireReset(s) \/ EndReset(s)
  <2>1. /\ UNCHANGED <<runs, nextPos, fence, seq, hist>>
        /\ resetting' \in SUBSET Sessions
    BY <1>2, <1>4 DEF AcquireReset, EndReset
  <2> QED
    BY <1>1, <1>2, <2>1
<1>5. CASE \E s \in Sessions, t \in 1..seq : Activate(s, t)
  <2> PICK s \in Sessions, t \in 1..seq : Activate(s, t)
    BY <1>5
  <2>1. /\ UNCHANGED <<runs, nextPos, resetting, seq, hist>>
        /\ fence' = [fence EXCEPT ![s] = t]
    BY DEF Activate
  <2>2. fence' \in [Sessions -> Nat] /\ \A x \in Sessions : fence'[x] =< seq'
    BY <1>2, <2>1
  <2> QED
    BY <1>1, <1>2, <2>1, <2>2
<1>6. ASSUME NEW r \in Runs, RequestAbort(r)
      PROVE  LedgerInv'
  <2>1. 0 \in Tokens
    BY <1>2 DEF Tokens
  <2> QED
    BY <1>6, <2>1, StateKeepsLedgerInv
<1>7. ASSUME NEW r \in Runs, NEW s \in Sessions, NEW i \in Invs, Admit(r, s, i)
      PROVE  LedgerInv'
  BY <1>7, AdmitKeepsLedgerInv
<1>8. ASSUME NEW r \in Runs, NEW t \in Tokens, Work(r, t)
      PROVE  LedgerInv'
  <2>1. CASE SetWaitingDecision(r, t) \/ Resume(r, t)
    BY <2>1, StateKeepsLedgerInv
  <2>2. CASE \E b \in BOOLEAN : PersistAgentStep(r, t, b)
    BY <2>2, PersistKeepsLedgerInv
  <2>3. CASE \E st \in OwnerStates : PrepareFinish(r, t, st)
    BY <2>3, PrepareKeepsLedgerInv
  <2>4. CASE \/ \E st \in TerminalStates : \E e : Finalize(r, t, st, e)
             \/ FenceAndFinalizeOrphan(r, t)
    BY <2>4, EndKeepsLedgerInv
  <2> QED
    BY <1>8, <2>1, <2>2, <2>3, <2>4 DEF Work
<1>9. ASSUME NEW r \in Runs, NEW t \in 1..seq, NEW o \in Owners, NEW g \in Gens,
             Claim(r, o, t, g) \/ \E p \in Tokens : ReclaimWaitingDecision(r, o, p, t, g)
      PROVE  LedgerInv'
  BY <1>9, OwnershipKeepsLedgerInv
<1>10. CASE UNCHANGED lvars
  BY <1>1, <1>2, <1>10 DEF lvars
<1> QED
  BY <1>3, <1>4, <1>5, <1>6, <1>7, <1>8, <1>9, <1>10 DEF Next

\* The inductive invariant holds in every reachable state of the ledger.
THEOREM LedgerInvariant == Spec => []LedgerInv
<1>1. LedgerInit => LedgerInv
  BY InitLedgerInv
<1>2. LedgerInv /\ [Next]_lvars => LedgerInv'
  BY NextLedgerInv
<1> QED
  BY <1>1, <1>2, PTL DEF Spec

\* SR-OWN-001 for every number of runs and owners: a session's active run is
\* its only one and its newest turn.
THEOREM ActiveRunTheorem == Spec => []ActiveRunIsNewestTurn
<1>1. LedgerInv => ActiveRunIsNewestTurn
  BY DEF LedgerInv
<1> QED
  BY <1>1, LedgerInvariant, PTL

\* No fenced-out owner writes history behind a later turn.
THEOREM HistoryTheorem == Spec => []HistoryInTurnOrder
<1>1. LedgerInv => HistoryInTurnOrder
  BY DEF LedgerInv
<1> QED
  BY <1>1, LedgerInvariant, PTL

\* A run ends with its first durable proposal, and that proposal honours an
\* abort requested before it.
THEOREM ProposalTheorem == Spec => [](ProposalDecides /\ AbortBeatsProposal)
<1>1. LedgerInv => ProposalDecides /\ AbortBeatsProposal
  BY DEF LedgerInv
<1> QED
  BY <1>1, LedgerInvariant, PTL
-----------------------------------------------------------------------------
(* Ownership.                                                              *)

\* What OwnershipAdvances says of one step.
Advance ==
    /\ seq =< seq'
    /\ \A s \in Sessions : fence[s] =< fence'[s] /\ fence'[s] =< seq'
    /\ \A r \in Runs :
         /\ runs[r].token =< runs'[r].token /\ runs'[r].token =< seq'
         /\ Terminal(r) => runs'[r] = runs[r]

\* A step that moves sequence and fences forward, and either leaves the rows or
\* is a RowStep, is an advance.
LEMMA RowStepAdvances ==
    ASSUME LedgerInv, seq' \in Nat, seq =< seq',
           \A s \in Sessions : fence[s] =< fence'[s] /\ fence'[s] =< seq',
           runs' = runs \/ \E r \in Runs : RowStep(r)
    PROVE  Advance
<1>1. /\ seq \in Nat
      /\ \A r \in Runs : runs[r].token \in Nat /\ runs[r].token =< seq
  BY DEF LedgerInv, TypeOK, TokensDrawn, Rows
<1>2. CASE runs' = runs
  BY <1>1, <1>2 DEF Advance
<1>3. CASE \E r \in Runs : RowStep(r)
  <2> PICK r \in Runs : RowStep(r)
    BY <1>3
  <2>1. ASSUME NEW q \in Runs
        PROVE  /\ runs[q].token =< runs'[q].token /\ runs'[q].token =< seq'
               /\ Terminal(q) => runs'[q] = runs[q]
    <3>1. CASE q = r
      BY <3>1 DEF RowStep, Active, Terminal, ActiveStates, TerminalStates
    <3>2. CASE q # r
      BY <1>1, <3>2 DEF RowStep
    <3> QED
      BY <3>1, <3>2
  <2> QED
    BY <2>1 DEF Advance
<1> QED
  BY <1>2, <1>3


\* Every step of the ledger is an advance.
LEMMA NextAdvances == LedgerInv /\ [Next]_lvars => [Advance]_lvars
<1> SUFFICES ASSUME LedgerInv, Next PROVE Advance
  OBVIOUS
<1>1. /\ seq \in Nat /\ fence \in [Sessions -> Nat]
      /\ \A s \in Sessions : fence[s] \in Nat /\ fence[s] =< seq
  BY DEF LedgerInv, TypeOK, TokensDrawn
<1>2. ASSUME UNCHANGED <<seq, fence>>, runs' = runs \/ \E r \in Runs : RowStep(r)
      PROVE  Advance
  BY <1>1, <1>2, RowStepAdvances
<1>3. CASE NextFencingToken
  <2>1. seq' = seq + 1 /\ fence' = fence /\ runs' = runs
    BY <1>3 DEF NextFencingToken
  <2>2. /\ seq' \in Nat /\ seq =< seq'
        /\ \A s \in Sessions : fence[s] =< fence'[s] /\ fence'[s] =< seq'
    BY <1>1, <2>1
  <2> QED
    BY <2>1, <2>2, RowStepAdvances
<1>4. CASE \E s \in Sessions : AcquireReset(s) \/ EndReset(s)
  BY <1>2, <1>4 DEF AcquireReset, EndReset
<1>5. ASSUME NEW s \in Sessions, NEW t \in 1..seq, Activate(s, t)
      PROVE  Advance
  <2>1. fence[s] =< t /\ fence' = [fence EXCEPT ![s] = t] /\ seq' = seq /\ runs' = runs
    BY <1>5 DEF Activate, CanActivate
  <2>2. \A x \in Sessions : fence[x] =< fence'[x] /\ fence'[x] =< seq'
    BY <1>1, <2>1
  <2> QED
    BY <1>1, <2>1, <2>2, RowStepAdvances
<1>6. ASSUME NEW r \in Runs, RequestAbort(r)
      PROVE  Advance
  <2>1. 0 \in Tokens
    BY <1>1 DEF Tokens
  <2>2. RowStep(r) /\ UNCHANGED <<seq, fence>>
    BY <1>6, <2>1, StateKeepsLedgerInv DEF RequestAbort
  <2> QED
    BY <1>2, <2>2
<1>7. ASSUME NEW r \in Runs, NEW s \in Sessions, NEW i \in Invs, Admit(r, s, i)
      PROVE  Advance
  <2>1. /\ runs[r] = NoRow /\ UNCHANGED <<seq, fence>>
        /\ runs \in [Runs -> Rows]
        /\ \A q \in Runs : runs[q].token \in Nat /\ runs[q].token =< seq
    BY <1>7 DEF Admit, LedgerInv, RowsNumbered, TypeOK, TokensDrawn, Rows
  <2>2. /\ \A q \in Runs : q # r => runs'[q] = runs[q]
        /\ runs'[r].token = 0
    BY <1>7, <2>1 DEF Admit, NoRow
  <2>3. runs[r].token = 0 /\ ~Terminal(r)
    BY <2>1 DEF NoRow, Terminal, TerminalStates
  <2> QED
    BY <1>1, <2>1, <2>2, <2>3 DEF Advance
<1>8. ASSUME NEW r \in Runs, NEW t \in Tokens, Work(r, t)
      PROVE  Advance
  <2>1. CASE SetWaitingDecision(r, t) \/ Resume(r, t)
    <3>1. RowStep(r) /\ UNCHANGED <<seq, fence>>
      BY <2>1, StateKeepsLedgerInv DEF SetWaitingDecision, Resume
    <3> QED
      BY <1>2, <3>1
  <2>2. CASE \E b \in BOOLEAN : PersistAgentStep(r, t, b)
    BY <1>2, <2>2 DEF PersistAgentStep
  <2>3. CASE \E st \in OwnerStates : PrepareFinish(r, t, st)
    <3>1. RowStep(r) /\ UNCHANGED <<seq, fence>>
      BY <2>3, PrepareKeepsLedgerInv, Zenon DEF PrepareFinish
    <3> QED
      BY <1>2, <3>1
  <2>4. CASE \E st \in TerminalStates : \E e : Finalize(r, t, st, e)
    <3>1. RowStep(r) /\ UNCHANGED <<seq, fence>>
      BY <2>4, EndKeepsLedgerInv DEF Finalize
    <3> QED
      BY <1>2, <3>1
  <2>5. CASE FenceAndFinalizeOrphan(r, t)
    <3>1. RowStep(r)
      BY <2>5, EndKeepsLedgerInv
    <3>2. \/ UNCHANGED <<seq, fence>>
          \/ seq' = seq + 1 /\ fence' = [fence EXCEPT ![runs[r].session] = seq + 1]
      BY <2>5 DEF FenceAndFinalizeOrphan
    <3>3. /\ seq' \in Nat /\ seq =< seq'
          /\ \A s \in Sessions : fence[s] =< fence'[s] /\ fence'[s] =< seq'
      BY <1>1, <3>2
    <3> QED
      BY <3>1, <3>3, RowStepAdvances
  <2> QED
    BY <1>8, <2>1, <2>2, <2>3, <2>4, <2>5 DEF Work
<1>9. ASSUME NEW r \in Runs, NEW t \in 1..seq, NEW o \in Owners, NEW g \in Gens,
             Claim(r, o, t, g) \/ \E p \in Tokens : ReclaimWaitingDecision(r, o, p, t, g)
      PROVE  Advance
  <2>1. RowStep(r)
    BY <1>9, OwnershipKeepsLedgerInv
  <2>2. /\ seq' = seq
        /\ \/ fence' = fence
           \/ fence[runs[r].session] < t /\ fence' = [fence EXCEPT ![runs[r].session] = t]
    BY <1>9 DEF Claim, ReclaimWaitingDecision, CanReclaim
  <2>3. \A s \in Sessions : fence[s] =< fence'[s] /\ fence'[s] =< seq'
    BY <1>1, <2>2
  <2> QED
    BY <1>1, <2>1, <2>2, <2>3, RowStepAdvances
<1> QED
  BY <1>3, <1>4, <1>5, <1>6, <1>7, <1>8, <1>9 DEF Next

\* No step of any caller, however stale its token, takes ownership back or changes the
\* row of a run that has ended (ClaimLockedSessionRun, runtimefence.Activate).
THEOREM OwnershipTheorem == Spec => OwnershipAdvances
<1>1. LedgerInv /\ [Next]_lvars => [Advance]_lvars
  BY NextAdvances
<1> QED
  BY <1>1, LedgerInvariant, PTL DEF Spec, OwnershipAdvances, Advance

-----------------------------------------------------------------------------
(* The refinement of RunOutcome.                                           *)

OpenStates == {"accepted", "running", "waiting"}

\* The abstract variables the refinement mapping computes from the rows.
Phases == [r \in Runs |-> PhaseOf(runs[r])]
Homes == [r \in Runs |-> runs[r].session]
Verdicts == [r \in Runs |-> VerdictOf(runs[r])]
Places == [r \in Runs |-> runs[r].pos]

\* What a row contributes to them.
LEMMA PhaseOfRow ==
    ASSUME NEW row \in Rows
    PROVE  /\ row.state = "none" => PhaseOf(row) = "unborn" /\ VerdictOf(row) = None
           /\ row.state \in OpenStates => PhaseOf(row) = "open" /\ VerdictOf(row) = None
           /\ row.state = "finishing" => PhaseOf(row) = "sealed" /\ VerdictOf(row) = row.proposed
           /\ row.state \in TerminalStates => PhaseOf(row) = "closed" /\ VerdictOf(row) = row.state
BY DEF PhaseOf, VerdictOf, OpenStates, TerminalStates

\* What a RowStep has to respect to be a step of a turn: it is not opened again, and
\* its proposal stays and becomes its end.
Outward(r) ==
    /\ RowStep(r)
    /\ UNCHANGED <<nextPos, hist>>
    /\ runs'[r].state \in OpenStates => runs[r].state \in OpenStates
    /\ runs'[r].state = "finishing" => runs'[r].proposed \in TerminalStates
    /\ runs[r].state = "finishing" =>
         \/ runs'[r].state = "finishing" /\ runs'[r].proposed = runs[r].proposed
         \/ runs'[r].state = runs[r].proposed

\* Such a step seals or closes the turn, or is not seen.
LEMMA OutwardIsOutcome ==
    ASSUME TypeOK, NEW r \in Runs, Outward(r)
    PROVE  [Outcome!Next]_(Outcome!ovars)
<1>1. /\ runs[r] \in Rows /\ runs'[r] \in Rows
      /\ \A q \in Runs : q # r => runs'[q] = runs[q]
      /\ runs'[r].session = runs[r].session /\ runs'[r].pos = runs[r].pos
      /\ runs[r].state \in OpenStates \cup {"finishing"}
      /\ runs'[r].state \in OpenStates \cup {"finishing"} \cup TerminalStates
  BY DEF Outward, RowStep, TypeOK, Active, ActiveStates, OpenStates
<1>2. /\ Phases' = [Phases EXCEPT ![r] = PhaseOf(runs'[r])]
      /\ Verdicts' = [Verdicts EXCEPT ![r] = VerdictOf(runs'[r])]
      /\ Homes' = Homes /\ Places' = Places
      /\ nextPos' = nextPos /\ hist' = hist
  BY <1>1 DEF Phases, Verdicts, Homes, Places, Outward
<1>3. Phases[r] = PhaseOf(runs[r]) /\ Verdicts[r] = VerdictOf(runs[r])
  BY DEF Phases, Verdicts
<1>4. CASE runs'[r].state \in OpenStates
  <2>1. PhaseOf(runs'[r]) = PhaseOf(runs[r]) /\ VerdictOf(runs'[r]) = VerdictOf(runs[r])
    BY <1>1, <1>4, PhaseOfRow DEF Outward
  <2>2. Phases' = Phases /\ Verdicts' = Verdicts
    BY <1>2, <1>3, <2>1 DEF Phases, Verdicts
  <2> QED
    BY <1>2, <2>2 DEF Outcome!ovars, Phases, Verdicts, Homes, Places
<1>5. CASE runs'[r].state = "finishing" /\ runs[r].state = "finishing"
  <2>1. PhaseOf(runs'[r]) = PhaseOf(runs[r]) /\ VerdictOf(runs'[r]) = VerdictOf(runs[r])
    BY <1>1, <1>5, PhaseOfRow DEF Outward, OwnerStates, Rows, TerminalStates
  <2>2. Phases' = Phases /\ Verdicts' = Verdicts
    BY <1>2, <1>3, <2>1 DEF Phases, Verdicts
  <2> QED
    BY <1>2, <2>2 DEF Outcome!ovars, Phases, Verdicts, Homes, Places
<1>6. CASE runs'[r].state = "finishing" /\ runs[r].state # "finishing"
  <2>1. /\ PhaseOf(runs[r]) = "open" /\ PhaseOf(runs'[r]) = "sealed"
        /\ VerdictOf(runs'[r]) \in TerminalStates
    BY <1>1, <1>6, PhaseOfRow DEF Outward
  <2>2. Outcome!Seal(r, VerdictOf(runs'[r]))
    BY <1>2, <1>3, <2>1 DEF Outcome!Seal, Phases, Verdicts, Homes, Places
  <2> QED
    BY <2>1, <2>2 DEF Outcome!Next
<1>7. CASE runs'[r].state \in TerminalStates
  <2>1. /\ PhaseOf(runs[r]) \in {"open", "sealed"} /\ PhaseOf(runs'[r]) = "closed"
        /\ VerdictOf(runs'[r]) = runs'[r].state
        /\ PhaseOf(runs[r]) = "sealed" => VerdictOf(runs[r]) = runs'[r].state
    BY <1>1, <1>7, PhaseOfRow DEF Outward, TerminalStates
  <2>2. Outcome!Close(r, runs'[r].state)
    BY <1>2, <1>3, <2>1 DEF Outcome!Close, Outcome!Live, Phases, Verdicts, Homes, Places
  <2> QED
    BY <1>7, <2>2 DEF Outcome!Next
<1> QED
  BY <1>1, <1>4, <1>5, <1>6, <1>7

\* An admission opens a turn: the session has no live run, and the position is its next.
LEMMA AdmitIsOpen ==
    ASSUME LedgerInv, NEW r \in Runs, NEW s \in Sessions, NEW i \in Invs, Admit(r, s, i)
    PROVE  Outcome!Next
<1> DEFINE row == [NoRow EXCEPT !.state = "accepted", !.session = s, !.inv = i,
                                !.pos = nextPos[s]]
<1>1. /\ runs \in [Runs -> Rows] /\ runs[r] = NoRow /\ runs[r].state = "none"
      /\ nextPos[s] \in Nat
  BY DEF LedgerInv, TypeOK, RowsNumbered, Admit
<1>2. /\ row.state = "accepted" /\ row.session = s /\ row.pos = nextPos[s] /\ row \in Rows
  BY <1>1 DEF NoRow, Rows, ActiveStates
<1>3. /\ runs' = [runs EXCEPT ![r] = row]
      /\ nextPos' = [nextPos EXCEPT ![s] = @ + 1]
      /\ hist' = hist
      /\ ActiveIn(s) = {}
  BY DEF Admit, AdmitAnswer, row
<1> HIDE DEF row
<1>4. /\ PhaseOf(runs[r]) = "unborn" /\ VerdictOf(runs[r]) = None
      /\ PhaseOf(row) = "open" /\ VerdictOf(row) = None
  BY <1>1, <1>2, PhaseOfRow DEF OpenStates
<1>5. /\ Phases' = [Phases EXCEPT ![r] = "open"]
      /\ Homes' = [Homes EXCEPT ![r] = s]
      /\ Places' = [Places EXCEPT ![r] = nextPos[s]]
      /\ Verdicts' = Verdicts
  BY <1>1, <1>2, <1>3, <1>4 DEF Phases, Homes, Places, Verdicts
<1>6. \A q \in Runs : Phases[q] \in {"open", "sealed"} => Homes[q] # s
  <2> SUFFICES ASSUME NEW q \in Runs, PhaseOf(runs[q]) \in {"open", "sealed"}
               PROVE  runs[q].session # s
    BY DEF Phases, Homes
  <2>1. runs[q] \in Rows
    BY <1>1
  <2>2. Active(q)
    BY <2>1, PhaseOfRow DEF Active, ActiveStates, OpenStates, Rows
  <2> QED
    BY <1>3, <2>2 DEF ActiveIn
<1>7. Outcome!Open(r, s)
  BY <1>3, <1>4, <1>5, <1>6
     DEF Outcome!Open, Outcome!Live, Phases, Homes, Places, Verdicts
<1> QED
  BY <1>7 DEF Outcome!Next

\* A persisted step writes to the newest turn of its session.
LEMMA PersistIsWrite ==
    ASSUME LedgerInv, NEW r \in Runs, NEW t \in Tokens, NEW b \in BOOLEAN,
           PersistAgentStep(r, t, b)
    PROVE  Outcome!Next
<1> DEFINE s == runs[r].session
<1>1. /\ runs[r] \in Rows /\ runs[r].state \in OpenStates
      /\ s \in Sessions
      /\ \A q \in Runs : runs[q].pos \in Nat
  BY DEF LedgerInv, TypeOK, RowsNumbered, Rows, PersistAgentStep, CanPersist, Owned, OpenStates
<1>2. /\ hist' = [hist EXCEPT ![s] = Append(@, r)]
      /\ runs' = runs /\ nextPos' = nextPos
  BY DEF PersistAgentStep
<1>3. \A q \in Runs : runs[q].session = s => runs[q].pos =< runs[r].pos
  BY <1>1 DEF LedgerInv, ActiveRunIsNewestTurn, Active, ActiveStates, OpenStates
<1>4. PhaseOf(runs[r]) = "open"
  BY <1>1, PhaseOfRow
<1>5. Outcome!Write(r, s)
  BY <1>2, <1>3, <1>4 DEF Outcome!Write
<1> QED
  BY <1>1, <1>5 DEF Outcome!Next

\* Every step of the ledger is a step of RunOutcome or is not seen by it.
LEMMA NextIsOutcome == LedgerInv /\ [Next]_lvars => [Outcome!Next]_(Outcome!ovars)
<1> SUFFICES ASSUME LedgerInv, [Next]_lvars PROVE [Outcome!Next]_(Outcome!ovars)
  OBVIOUS
<1>1. TypeOK /\ seq \in Nat
  BY DEF LedgerInv, TypeOK
<1>2. ASSUME UNCHANGED <<runs, nextPos, hist>> PROVE UNCHANGED Outcome!ovars
  BY <1>2 DEF Outcome!ovars
<1>3. CASE \/ NextFencingToken \/ UNCHANGED lvars
           \/ \E s \in Sessions : AcquireReset(s) \/ EndReset(s)
           \/ \E s \in Sessions, t \in 1..seq : Activate(s, t)
  BY <1>2, <1>3 DEF NextFencingToken, AcquireReset, EndReset, Activate, lvars
<1>4. ASSUME NEW r \in Runs, RequestAbort(r)
      PROVE  [Outcome!Next]_(Outcome!ovars)
  <2>1. 0 \in Tokens
    BY <1>1 DEF Tokens
  <2>2. RowStep(r)
    BY <1>4, <2>1, StateKeepsLedgerInv
  <2>3. /\ runs'[r].state = runs[r].state /\ runs[r].state \in OpenStates
        /\ UNCHANGED <<nextPos, hist>>
    BY <1>1, <1>4 DEF RequestAbort, CanAbort, TypeOK, Rows, OpenStates
  <2> QED
    BY <1>1, <2>2, <2>3, OutwardIsOutcome DEF Outward, OpenStates
<1>5. ASSUME NEW r \in Runs, NEW s \in Sessions, NEW i \in Invs, Admit(r, s, i)
      PROVE  [Outcome!Next]_(Outcome!ovars)
  BY <1>5, AdmitIsOpen
<1>6. ASSUME NEW r \in Runs, NEW t \in Tokens, Work(r, t)
      PROVE  [Outcome!Next]_(Outcome!ovars)
  <2>1. CASE SetWaitingDecision(r, t) \/ Resume(r, t)
    <3>1. RowStep(r)
      BY <2>1, StateKeepsLedgerInv
    <3>2. /\ runs'[r].state \in OpenStates /\ runs[r].state \in OpenStates
          /\ UNCHANGED <<nextPos, hist>>
      BY <1>1, <2>1 DEF SetWaitingDecision, Resume, Owned, TypeOK, Rows, OpenStates
    <3> QED
      BY <1>1, <3>1, <3>2, OutwardIsOutcome DEF Outward, OpenStates
  <2>2. CASE \E b \in BOOLEAN : PersistAgentStep(r, t, b)
    BY <2>2, PersistIsWrite
  <2>3. CASE \E st \in OwnerStates : PrepareFinish(r, t, st)
    <3>1. PICK st \in OwnerStates : PrepareFinish(r, t, st)
      BY <2>3
    <3>2. RowStep(r)
      BY <3>1, PrepareKeepsLedgerInv
    <3>3. Proposal(runs[r], st) \in OwnerStates
      BY <1>1, ProposalIsOwners
    <3>4. /\ runs'[r].state = "finishing" /\ runs'[r].proposed = Proposal(runs[r], st)
          /\ UNCHANGED <<nextPos, hist>>
      BY <1>1, <3>1 DEF PrepareFinish, TypeOK, Rows
    <3>5. runs[r].state = "finishing" => Proposal(runs[r], st) = runs[r].proposed
      BY DEF LedgerInv, ProposalDecides, Proposal
    <3> QED
      BY <1>1, <3>2, <3>3, <3>4, <3>5, OutwardIsOutcome DEF Outward, OpenStates, OwnerStates
  <2>4. CASE \/ \E st \in TerminalStates : \E e : Finalize(r, t, st, e)
             \/ FenceAndFinalizeOrphan(r, t)
    <3>1. RowStep(r)
      BY <2>4, EndKeepsLedgerInv
    <3>2. PICK st \in TerminalStates : runs' = [runs EXCEPT ![r].state = Verdict(runs[r], st)]
      BY <2>4 DEF Finalize, FenceAndFinalizeOrphan, TerminalStates
    <3>3. Verdict(runs[r], st) \in TerminalStates
      BY <1>1, VerdictIsTerminal DEF LedgerInv
    <3>4. /\ runs'[r].state = Verdict(runs[r], st)
          /\ UNCHANGED <<nextPos, hist>>
      <4>1. runs'[r].state = Verdict(runs[r], st)
        BY <1>1, <3>2 DEF TypeOK, Rows
      <4>2. UNCHANGED <<nextPos, hist>>
        BY <2>4 DEF Finalize, FenceAndFinalizeOrphan
      <4> QED
        BY <4>1, <4>2
    <3>5. runs[r].state = "finishing" => Verdict(runs[r], st) = runs[r].proposed
      BY DEF Verdict
    <3> QED
      BY <1>1, <3>1, <3>3, <3>4, <3>5, OutwardIsOutcome DEF Outward, OpenStates, TerminalStates
  <2> QED
    BY <1>6, <2>1, <2>2, <2>3, <2>4 DEF Work
<1>7. ASSUME NEW r \in Runs, NEW t \in 1..seq, NEW o \in Owners, NEW g \in Gens,
             Claim(r, o, t, g) \/ \E p \in Tokens : ReclaimWaitingDecision(r, o, p, t, g)
      PROVE  [Outcome!Next]_(Outcome!ovars)
  <2>1. RowStep(r)
    BY <1>7, OwnershipKeepsLedgerInv
  <2>2. /\ runs'[r].state \in OpenStates /\ runs[r].state \in OpenStates
        /\ UNCHANGED <<nextPos, hist>>
    <3>1. CASE Claim(r, o, t, g)
      <4>1. /\ runs' = [runs EXCEPT ![r] = [@ EXCEPT !.state = "running", !.owner = o,
                                                      !.token = t, !.gen = g]]
            /\ runs[r].state = "accepted" /\ UNCHANGED <<nextPos, hist>>
        BY <3>1 DEF Claim, CanClaim
      <4> QED
        BY <1>1, <4>1 DEF TypeOK, Rows, OpenStates
    <3>2. CASE \E p \in Tokens : ReclaimWaitingDecision(r, o, p, t, g)
      <4>1. /\ runs' = [runs EXCEPT ![r] = [@ EXCEPT !.owner = o, !.token = t, !.gen = g]]
            /\ runs[r].state = "waiting" /\ UNCHANGED <<nextPos, hist>>
        BY <3>2 DEF ReclaimWaitingDecision, CanReclaim
      <4> QED
        BY <1>1, <4>1 DEF TypeOK, Rows, OpenStates
    <3> QED
      BY <1>7, <3>1, <3>2
  <2> QED
    BY <1>1, <2>1, <2>2, OutwardIsOutcome DEF Outward, OpenStates
<1> QED
  BY <1>3, <1>4, <1>5, <1>6, <1>7 DEF Next

\* The ledger keeps what users are promised: a session is a sequence of turns, one at a
\* time, each of which writes only while it is the newest and ends with one verdict.
THEOREM LedgerImplementsRunOutcome == Spec => ImplementsRunOutcome
<1>1. LedgerInit => Outcome!Init
  BY DEF LedgerInit, Outcome!Init, NoRow, PhaseOf, VerdictOf, TerminalStates
<1>2. LedgerInv /\ [Next]_lvars => [Outcome!Next]_(Outcome!ovars)
  BY NextIsOutcome
<1> QED
  BY <1>1, <1>2, LedgerInvariant, PTL DEF Spec, ImplementsRunOutcome, Outcome!Spec
=============================================================================
