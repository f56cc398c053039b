-------------------------- MODULE ReconcilersProofs --------------------------
(***************************************************************************)
(* Proofs about the two components that bring the world in line with what  *)
(* is stored: ChannelConnections and BotWorkspace.                         *)
(*                                                                         *)
(* Connections.  For any number of operations that interleave in any way,  *)
(* no connection runs outside the table without an operation that will     *)
(* stop it or enter it, and an operation that ran alone leaves the table   *)
(* as the stored configuration has it.  The second is a fact about a       *)
(* finished operation; its invariant follows the operation while it is     *)
(* alone (Placed): what it has read of the configuration is current, and   *)
(* once it has emptied the table nobody else has filled it.  Every step    *)
(* rewrites the row of one operation, so that what the steps have in       *)
(* common is proved once (OpStepKeeps).                                    *)
(*                                                                         *)
(* Workspaces.  The backend is set to work only on the latest intent       *)
(* (IntentTheorem), whoever reads, writes, observes and crashes.  The rest *)
(* rests on the lease, and holds while it is only taken by the loops of    *)
(* the servers: an Observe on behalf of a user takes it away (run          *)
(* workspace_shared).  Then one instance at a time drives the workspace    *)
(* (DrivesTheorem), and an answered removal has left no container          *)
(* (WorkspaceTheorem).                                                     *)
(***************************************************************************)
EXTENDS ChannelConnections, BotWorkspace, TLAPS

-----------------------------------------------------------------------------
(* Channel connections.                                                    *)


ChanPcs == {"idle", "list", "prev", "write", "ensure", "stopold", "check", "connect",
            "insert", "stopnew", "prune", "remove", "rollback", "done"}
OpRows == [kind: Kinds \cup {"none"}, pc: ChanPcs, on: BOOLEAN, ver: 0..ChanMaxVer,
           prev: {"none", "on", "off", "gone"}, conn: Conns \cup {NoConn}, tries: 0..2,
           err: BOOLEAN, alone: BOOLEAN]

\* What a row says by itself: these steps and no others hold a connection, and a step that
\* may connect has a try left.
RowOk(row) ==
    /\ row.conn # NoConn <=> row.pc \in {"stopold", "insert", "stopnew"}
    /\ row.pc \in {"list", "prev", "write", "ensure", "stopold", "check", "connect", "rollback"}
         => row.tries < 2

\* What an operation that is alone knows at its step.
Placed(row, cfg, ent) ==
    /\ row.pc \in {"ensure", "stopold", "check", "connect", "insert"} =>
         cfg.st = "on" /\ row.ver = cfg.ver /\ (row.kind = "refresh" => row.on)
    /\ row.pc \in {"stopold", "check", "connect", "insert"} => ent = NoEntry
    /\ row.pc = "stopnew" => row.kind = "stop"
    /\ row.pc = "prune" /\ ~row.err =>
         \/ row.on /\ cfg.st = "on" /\ ent.ver = cfg.ver
         \/ ~row.on /\ cfg.st # "on"
    /\ row.pc = "remove" /\ row.kind # "stop" => cfg.st # "on"
    /\ row.pc = "rollback" => row.err

\* What it leaves behind.
Settled(row, cfg, ent) ==
    (~row.err /\ row.kind # "stop") =>
        \/ cfg.st = "on" /\ ent.ver = cfg.ver
        \/ cfg.st # "on" /\ ent = NoEntry

ChanTyped ==
    /\ kcfg \in [st: {"none", "on", "off", "gone"}, ver: 0..ChanMaxVer]
    /\ kent \in [ver: 0..ChanMaxVer, conn: Conns \cup {NoConn}]
    /\ klive \in SUBSET Conns /\ kstuck \in SUBSET Conns
    /\ kop \in [ChanOps -> OpRows]
    /\ krest \in ChanOps \cup {NoConn}

\* No version is newer than the stored one.
VersionsBound == kent.ver =< kcfg.ver /\ \A o \in ChanOps : kop[o].ver =< kcfg.ver

\* An entry holds a connection.
EntryHolds == kent # NoEntry => kent.conn # NoConn

\* An operation that is alone is the only one at work, and the last one is over.
AloneIsAlone ==
    /\ \A o \in Busy : kop[o].alone => Busy = {o}
    /\ krest # NoConn => Busy = {}

AlonePlaced == \A o \in Busy : kop[o].alone => Placed(kop[o], kcfg, kent)
RestSettled == krest # NoConn => Settled(kop[krest], kcfg, kent)

ChanIInv ==
    /\ ChanTyped /\ VersionsBound /\ EntryHolds /\ AloneIsAlone /\ AlonePlaced /\ RestSettled
    /\ \A o \in ChanOps : RowOk(kop[o])
    /\ NoConnectionLeaks

-----------------------------------------------------------------------------
\* The invariant contains the checked ones.
LEMMA ChanIInvImplies == ChanIInv => ConnectionInv /\ LastOperationSettles
BY DEF ChanIInv, ChanTyped, OpRows, ChanPcs, RestSettled, Settled, ConnectionInv, ChannelTypeOK,
       LastOperationSettles

\* At first there is no operation, no connection and no configuration.
LEMMA InitChanIInv == ChannelInit => ChanIInv
<1> SUFFICES ASSUME ChannelInit PROVE ChanIInv
  OBVIOUS
<1> USE DEF ChannelInit
<1>1. NoOp \in OpRows /\ NoEntry \in [ver: 0..ChanMaxVer, conn: Conns \cup {NoConn}]
  BY ChannelAssumption DEF NoOp, OpRows, ChanPcs, NoEntry
<1>2. ChanTyped
  BY <1>1, ChannelAssumption DEF ChanTyped
<1>3. Busy = {}
  BY DEF Busy, NoOp
<1>4. VersionsBound /\ AloneIsAlone /\ AlonePlaced /\ RestSettled
  BY <1>3 DEF VersionsBound, AloneIsAlone, AlonePlaced, RestSettled, NoOp, NoEntry
<1>5. (\A o \in ChanOps : RowOk(kop[o])) /\ NoConnectionLeaks /\ EntryHolds
  BY DEF RowOk, NoOp, NoConnectionLeaks, EntryHolds
<1> QED
  BY <1>2, <1>4, <1>5 DEF ChanIInv

\* A step of operation o that leaves row behind.
LEMMA OpStepKeeps ==
    ASSUME ChanIInv, NEW o \in ChanOps, kop[o].pc \notin {"idle", "done"},
           NEW row \in OpRows, kop' = [kop EXCEPT ![o] = row],
           RowOk(row), row.alone = kop[o].alone, row.pc # "idle",
           krest' = IF row.pc = "done" /\ row.alone THEN o ELSE krest,
           kcfg' \in [st: {"none", "on", "off", "gone"}, ver: 0..ChanMaxVer],
           kent' \in [ver: 0..ChanMaxVer, conn: Conns \cup {NoConn}],
           klive' \in SUBSET Conns, kstuck' \in SUBSET Conns,
           kcfg.ver =< kcfg'.ver, row.ver =< kcfg'.ver, kent'.ver =< kcfg'.ver,
           kent' # NoEntry => kent'.conn # NoConn,
           \A c \in klive' : \/ kent'.conn = c \/ c \in kstuck' \/ row.conn = c
                             \/ \E p \in ChanOps \ {o} : kop[p].conn = c,
           row.alone => IF row.pc = "done" THEN Settled(row, kcfg', kent')
                        ELSE Placed(row, kcfg', kent')
    PROVE  ChanIInv'
<1>1. /\ ChanTyped /\ kop'[o] = row /\ kop' \in [ChanOps -> OpRows]
      /\ \A p \in ChanOps : p # o => kop'[p] = kop[p]
      /\ o \in Busy /\ krest = NoConn /\ NoConn \notin ChanOps
  BY ChannelAssumption DEF ChanIInv, ChanTyped, Busy, AloneIsAlone
<1>2. ChanTyped'
  BY <1>1 DEF ChanTyped
<1>3. VersionsBound'
  <2>1. \A p \in ChanOps : kop[p].ver \in Nat /\ kop[p].ver =< kcfg.ver
    BY <1>1 DEF ChanIInv, VersionsBound, ChanTyped, OpRows
  <2>2. kcfg.ver \in Nat /\ kcfg'.ver \in Nat
    BY <1>1 DEF ChanTyped
  <2> QED
    BY <1>1, <2>1, <2>2 DEF VersionsBound
<1>4. Busy' = IF row.pc = "done" THEN Busy \ {o} ELSE Busy
  BY <1>1 DEF Busy
<1>5. \A p \in Busy : p # o => ~kop[p].alone
  BY <1>1 DEF ChanIInv, AloneIsAlone
<1>6. row.alone => Busy = {o}
  BY <1>1 DEF ChanIInv, AloneIsAlone
<1>7. AloneIsAlone'
  BY <1>1, <1>4, <1>5, <1>6 DEF AloneIsAlone, Busy
<1>8. AlonePlaced'
  BY <1>1, <1>4, <1>5 DEF AlonePlaced, Busy
<1>9. RestSettled'
  BY <1>1 DEF RestSettled
<1>10. \A p \in ChanOps : RowOk(kop'[p])
  BY <1>1 DEF ChanIInv
<1>11. NoConnectionLeaks' /\ EntryHolds'
  BY <1>1 DEF NoConnectionLeaks, EntryHolds
<1> QED
  BY <1>2, <1>3, <1>7, <1>8, <1>9, <1>10, <1>11 DEF ChanIInv

\* What the invariant says of an operation at work.
LEMMA OpFacts ==
    ASSUME ChanIInv, NEW o \in ChanOps, kop[o].pc \notin {"idle", "done"}
    PROVE  /\ kop[o] \in OpRows /\ RowOk(kop[o]) /\ kop[o].ver =< kcfg.ver
           /\ krest = NoConn
           /\ kop[o].alone => Placed(kop[o], kcfg, kent)
           /\ \A c \in klive : \/ kent.conn = c \/ c \in kstuck \/ kop[o].conn = c
                               \/ \E p \in ChanOps \ {o} : kop[p].conn = c
           /\ kcfg \in [st: {"none", "on", "off", "gone"}, ver: 0..ChanMaxVer]
           /\ kent \in [ver: 0..ChanMaxVer, conn: Conns \cup {NoConn}]
           /\ klive \in SUBSET Conns /\ kstuck \in SUBSET Conns
           /\ kent.ver =< kcfg.ver /\ kcfg.ver \in Nat /\ kent.ver \in Nat
           /\ NoEntry \in [ver: 0..ChanMaxVer, conn: Conns \cup {NoConn}]
           /\ NoEntry.ver = 0 /\ NoEntry.conn = NoConn
           /\ NoConn \notin Conns /\ (kent # NoEntry => kent.conn # NoConn)
<1>1. ChanTyped /\ o \in Busy
  BY DEF ChanIInv, Busy
<1>2. /\ kop[o] \in OpRows /\ RowOk(kop[o]) /\ kop[o].ver =< kcfg.ver /\ krest = NoConn
      /\ kop[o].alone => Placed(kop[o], kcfg, kent)
  BY <1>1 DEF ChanIInv, ChanTyped, VersionsBound, AloneIsAlone, AlonePlaced
<1>3. \A c \in klive : \/ kent.conn = c \/ c \in kstuck \/ kop[o].conn = c
                       \/ \E p \in ChanOps \ {o} : kop[p].conn = c
  BY DEF ChanIInv, NoConnectionLeaks
<1>4. /\ kcfg \in [st: {"none", "on", "off", "gone"}, ver: 0..ChanMaxVer]
      /\ kent \in [ver: 0..ChanMaxVer, conn: Conns \cup {NoConn}]
      /\ klive \in SUBSET Conns /\ kstuck \in SUBSET Conns
      /\ kent.ver =< kcfg.ver /\ kcfg.ver \in Nat /\ kent.ver \in Nat
      /\ kent # NoEntry => kent.conn # NoConn
  BY <1>1 DEF ChanIInv, ChanTyped, VersionsBound, EntryHolds
<1>5. /\ NoEntry \in [ver: 0..ChanMaxVer, conn: Conns \cup {NoConn}]
      /\ NoEntry.ver = 0 /\ NoEntry.conn = NoConn /\ NoConn \notin Conns
  BY ChannelAssumption DEF NoEntry, Conns
<1> QED
  BY <1>2, <1>3, <1>4, <1>5

\* A step of operation o that touches neither the table nor the connections.
LEMMA QuietStepKeeps ==
    ASSUME ChanIInv, NEW o \in ChanOps, kop[o].pc \notin {"idle", "done"},
           NEW row \in OpRows, kop' = [kop EXCEPT ![o] = row],
           RowOk(row), row.alone = kop[o].alone, row.pc # "idle", row.conn = kop[o].conn,
           krest' = IF row.pc = "done" /\ row.alone THEN o ELSE krest,
           kcfg' \in [st: {"none", "on", "off", "gone"}, ver: 0..ChanMaxVer],
           kcfg.ver =< kcfg'.ver, row.ver =< kcfg'.ver,
           kent' = kent, klive' = klive, kstuck' = kstuck,
           row.alone => IF row.pc = "done" THEN Settled(row, kcfg', kent)
                        ELSE Placed(row, kcfg', kent)
    PROVE  ChanIInv'
<1>1. /\ kent \in [ver: 0..ChanMaxVer, conn: Conns \cup {NoConn}]
      /\ klive \in SUBSET Conns /\ kstuck \in SUBSET Conns
      /\ kent.ver =< kcfg.ver /\ kcfg.ver \in Nat /\ kent.ver \in Nat
      /\ \A c \in klive : \/ kent.conn = c \/ c \in kstuck \/ kop[o].conn = c
                          \/ \E p \in ChanOps \ {o} : kop[p].conn = c
      /\ kent # NoEntry => kent.conn # NoConn
  BY OpFacts
<1>2. kent'.ver =< kcfg'.ver /\ (kent' # NoEntry => kent'.conn # NoConn)
  BY <1>1
<1>3. \A c \in klive' : \/ kent'.conn = c \/ c \in kstuck' \/ row.conn = c
                        \/ \E p \in ChanOps \ {o} : kop[p].conn = c
  BY <1>1
<1>4. /\ kent' \in [ver: 0..ChanMaxVer, conn: Conns \cup {NoConn}]
      /\ klive' \in SUBSET Conns /\ kstuck' \in SUBSET Conns
      /\ row.alone => IF row.pc = "done" THEN Settled(row, kcfg', kent')
                      ELSE Placed(row, kcfg', kent')
  BY <1>1
<1> QED
  BY <1>2, <1>3, <1>4, OpStepKeeps

\* The operation o ends, or goes on after its attempt, with this row.
EndsWith(o, op, row) ==
    /\ kop' = [kop EXCEPT ![o] = row] /\ RowOk(row) /\ row.alone = op.alone
    /\ row.pc = "done" /\ row.conn = NoConn /\ row.ver = op.ver /\ row.err = op.err
    /\ row.kind = op.kind
    /\ krest' = IF row.pc = "done" /\ row.alone THEN o ELSE krest
GoesOnWith(o, op, row) ==
    /\ kop' = [kop EXCEPT ![o] = row] /\ RowOk(row) /\ row.alone = op.alone
    /\ row.conn = NoConn /\ row.ver = op.ver /\ row.err = op.err
    /\ row.kind = op.kind /\ row.on = op.on
    /\ \/ row.pc = "prune" /\ row.kind = "refresh"
       \/ row.pc = "rollback" /\ row.err
       \/ row.pc = "done"
    /\ krest' = IF row.pc = "done" /\ row.alone THEN o ELSE krest

\* The row EndOp leaves.
LEMMA EndOpRow ==
    ASSUME NEW o \in ChanOps, NEW op \in OpRows, EndOp(o, op), krest = NoConn
    PROVE  \E row \in OpRows : EndsWith(o, op, row)
<1> DEFINE row == [op EXCEPT !.pc = "done", !.conn = NoConn]
<1>1. kop' = [kop EXCEPT ![o] = row] /\ krest' = IF op.alone THEN o ELSE krest
  BY DEF EndOp
<1>2. /\ row \in OpRows /\ row.alone = op.alone /\ row.pc = "done" /\ row.conn = NoConn
      /\ row.ver = op.ver /\ row.err = op.err /\ row.kind = op.kind
  BY DEF OpRows, ChanPcs
<1> HIDE DEF row
<1>3. RowOk(row)
  BY <1>2 DEF RowOk
<1>4. EndsWith(o, op, row)
  BY <1>1, <1>2, <1>3 DEF EndsWith
<1> QED
  BY <1>2, <1>4

\* The row AfterEnsure leaves.
LEMMA AfterEnsureRow ==
    ASSUME NEW o \in ChanOps, NEW op \in OpRows, op.conn = NoConn, AfterEnsure(o, op),
           krest = NoConn
    PROVE  \E row \in OpRows : GoesOnWith(o, op, row)
<1>1. ASSUME NEW pc \in {"prune", "rollback", "done"},
             kop' = [kop EXCEPT ![o] = [op EXCEPT !.pc = pc]],
             pc = "rollback" => op.err /\ op.tries < 2, pc = "prune" => op.kind = "refresh",
             krest' = IF pc = "done" /\ op.alone THEN o ELSE krest
      PROVE  \E row \in OpRows : GoesOnWith(o, op, row)
  <2> DEFINE row == [op EXCEPT !.pc = pc]
  <2>1. /\ row \in OpRows /\ row.alone = op.alone /\ row.pc = pc /\ row.conn = NoConn
        /\ row.ver = op.ver /\ row.err = op.err /\ row.kind = op.kind /\ row.on = op.on
        /\ row.tries = op.tries
    BY DEF OpRows, ChanPcs
  <2>2. kop' = [kop EXCEPT ![o] = row]
    BY <1>1
  <2> HIDE DEF row
  <2>3. RowOk(row)
    BY <1>1, <2>1 DEF RowOk
  <2>4. GoesOnWith(o, op, row)
    BY <1>1, <2>1, <2>2, <2>3 DEF GoesOnWith
  <2> QED
    BY <2>1, <2>4
<1>2. CASE op.kind = "refresh"
  BY <1>1, <1>2 DEF AfterEnsure
<1>3. CASE op.kind # "refresh" /\ op.kind \in {"upsert", "status"} /\ op.err /\ op.tries < 2
  BY <1>1, <1>3 DEF AfterEnsure
<1>4. CASE op.kind # "refresh" /\ ~(op.kind \in {"upsert", "status"} /\ op.err /\ op.tries < 2)
  <2>1. EndOp(o, op)
    BY <1>4 DEF AfterEnsure
  <2>2. [op EXCEPT !.pc = "done", !.conn = NoConn] = [op EXCEPT !.pc = "done"]
    BY DEF OpRows
  <2> QED
    BY <1>1, <2>1, <2>2 DEF EndOp
<1> QED
  BY <1>2, <1>3, <1>4
-----------------------------------------------------------------------------
(* The steps.                                                              *)

\* The row of an operation that is not alone any more.
LEMMA JoinedRow ==
    ASSUME NEW op \in OpRows, NEW row, row = [op EXCEPT !.alone = FALSE]
    PROVE  /\ row \in OpRows /\ row.alone = FALSE /\ row.pc = op.pc /\ row.conn = op.conn
           /\ row.ver = op.ver /\ row.tries = op.tries
BY DEF OpRows

\* An operation begins: from now on no other one is alone.
LEMMA BeginKeeps ==
    ASSUME ChanIInv, NEW o \in ChanOps, NEW kind \in Kinds, NEW on \in BOOLEAN, Begin(o, kind, on)
    PROVE  ChanIInv'
<1> DEFINE pc == CASE kind = "refresh" -> "list" [] kind = "upsert" -> "prev"
                   [] kind = "stop" -> "remove" [] OTHER -> "write"
           al == (Busy = {})
           row == [NoOp EXCEPT !.kind = kind, !.on = on, !.alone = al, !.pc = pc]
<1>0. kop' = [p \in ChanOps |-> IF p = o THEN row ELSE [kop[p] EXCEPT !.alone = FALSE]]
  BY DEF Begin
<1>1. /\ ChanTyped /\ kop[o].pc = "idle" /\ krest' = NoConn
      /\ UNCHANGED <<kcfg, kent, klive, kstuck>>
      /\ kcfg.ver \in Nat
  <2>1. ChanTyped /\ kcfg.ver \in Nat
    BY DEF ChanIInv, ChanTyped
  <2> QED
    BY <2>1 DEF Begin
<1>2. /\ row \in OpRows /\ row.pc \in {"list", "prev", "remove", "write"}
      /\ row.pc = "remove" => row.kind = "stop"
      /\ row.conn = NoConn /\ row.tries = 0 /\ row.ver = 0
      /\ row.alone <=> Busy = {}
  <2>1. pc \in {"list", "prev", "remove", "write"} /\ (pc = "remove" => kind = "stop")
    OBVIOUS
  <2>2. al \in BOOLEAN
    OBVIOUS
  <2> HIDE DEF pc, al
  <2>3. pc \in ChanPcs
    BY <2>1 DEF ChanPcs
  <2>4. NoOp \in OpRows /\ NoOp.conn = NoConn /\ NoOp.tries = 0 /\ NoOp.ver = 0
    BY ChannelAssumption DEF NoOp, OpRows, ChanPcs
  <2> DEFINE r1 == [NoOp EXCEPT !.kind = kind]
             r2 == [r1 EXCEPT !.on = on]
             r3 == [r2 EXCEPT !.alone = al]
  <2>5. r1 \in OpRows /\ r1.conn = NoConn /\ r1.tries = 0 /\ r1.ver = 0 /\ r1.kind = kind
    BY <2>4 DEF OpRows
  <2>6. row = [r3 EXCEPT !.pc = pc]
    OBVIOUS
  <2> HIDE DEF r1, row
  <2>7. r2 \in OpRows /\ r2.conn = NoConn /\ r2.tries = 0 /\ r2.ver = 0 /\ r2.kind = kind
    BY <2>5 DEF OpRows
  <2> HIDE DEF r2
  <2>8. /\ r3 \in OpRows /\ r3.conn = NoConn /\ r3.tries = 0 /\ r3.ver = 0 /\ r3.kind = kind
        /\ r3.alone = al
    BY <2>2, <2>7 DEF OpRows
  <2> HIDE DEF r3
  <2>9. /\ row \in OpRows /\ row.pc = pc /\ row.kind = kind /\ row.alone = al
        /\ row.conn = NoConn /\ row.tries = 0 /\ row.ver = 0
    BY <2>3, <2>6, <2>8 DEF OpRows
  <2> QED
    BY <2>1, <2>9 DEF al
<1> HIDE DEF row
<1>3. ASSUME NEW p \in ChanOps, p # o
      PROVE  /\ kop'[p] \in OpRows /\ kop'[p].alone = FALSE /\ kop'[p].pc = kop[p].pc
             /\ kop'[p].conn = kop[p].conn /\ kop'[p].ver = kop[p].ver
             /\ kop'[p].tries = kop[p].tries
  <2>1. kop'[p] = [kop[p] EXCEPT !.alone = FALSE] /\ kop[p] \in OpRows
    BY <1>0, <1>1, <1>3 DEF ChanTyped
  <2> QED
    BY <2>1, JoinedRow
<1>4. kop'[o] = row /\ kop' \in [ChanOps -> OpRows]
  BY <1>0, <1>2, <1>3
<1>4a. \A p \in ChanOps : p # o =>
        /\ kop'[p].alone = FALSE /\ kop'[p].pc = kop[p].pc /\ kop'[p].conn = kop[p].conn
        /\ kop'[p].ver = kop[p].ver /\ kop'[p].tries = kop[p].tries
  BY <1>3
<1>5. ChanTyped'
  BY <1>1, <1>4 DEF ChanTyped
<1>6. VersionsBound'
  <2>1. kcfg' = kcfg /\ kent' = kent
    BY <1>1
  <2> QED
    BY <1>1, <1>2, <1>4, <1>4a, <2>1 DEF ChanIInv, VersionsBound
<1>7. Busy' = Busy \cup {o}
  BY <1>1, <1>2, <1>3, <1>4 DEF Busy
<1>8. AloneIsAlone' /\ RestSettled'
  BY <1>1, <1>2, <1>3, <1>4, <1>7 DEF AloneIsAlone, RestSettled, Busy
<1>9. AlonePlaced'
  <2>1. Placed(row, kcfg', kent')
    BY <1>2 DEF Placed
  <2> QED
    BY <1>3, <1>4, <2>1 DEF AlonePlaced, Busy
<1>10. \A p \in ChanOps : RowOk(kop'[p])
  BY <1>2, <1>4, <1>4a DEF ChanIInv, RowOk
<1>11. NoConnectionLeaks' /\ EntryHolds'
  <2>1. kop[o].conn = NoConn
    BY <1>1 DEF ChanIInv, RowOk
  <2>2. \A p \in ChanOps : kop'[p].conn = kop[p].conn
    BY <1>2, <1>3, <1>4, <2>1
  <2> QED
    BY <1>1, <2>2 DEF ChanIInv, NoConnectionLeaks, EntryHolds
<1> QED
  BY <1>5, <1>6, <1>8, <1>9, <1>10, <1>11 DEF ChanIInv

\* The operation reads the stored configuration.
LEMMA ReadKeeps ==
    ASSUME ChanIInv, NEW o \in ChanOps, ListConfigs(o) \/ ReadPrevious(o)
    PROVE  ChanIInv'
<1> DEFINE op == kop[o]
<1>0. /\ op.pc \in {"list", "prev"} /\ UNCHANGED <<kcfg, kent, klive, kstuck, krest>>
  BY DEF ListConfigs, ReadPrevious
<1>1. op.pc \notin {"idle", "done"}
  BY <1>0
<1>2. /\ op \in OpRows /\ RowOk(op) /\ op.ver =< kcfg.ver /\ krest = NoConn
      /\ op.alone => Placed(op, kcfg, kent)
      /\ \A c \in klive : \/ kent.conn = c \/ c \in kstuck \/ op.conn = c
                          \/ \E p \in ChanOps \ {o} : kop[p].conn = c
      /\ kcfg \in [st: {"none", "on", "off", "gone"}, ver: 0..ChanMaxVer]
      /\ kent \in [ver: 0..ChanMaxVer, conn: Conns \cup {NoConn}]
      /\ klive \in SUBSET Conns /\ kstuck \in SUBSET Conns
      /\ kent.ver =< kcfg.ver /\ kcfg.ver \in Nat /\ kent.ver \in Nat
      /\ kent # NoEntry => kent.conn # NoConn
  BY <1>1, OpFacts
<1>3. op.conn = NoConn /\ op.tries < 2
  BY <1>0, <1>2 DEF RowOk
<1>4. ASSUME NEW row \in OpRows, kop' = [kop EXCEPT ![o] = row],
             row.pc \in {"ensure", "prune", "write"}, row.alone = op.alone, row.conn = op.conn,
             row.tries = op.tries, row.ver =< kcfg.ver,
             row.alone => Placed(row, kcfg, kent)
      PROVE  ChanIInv'
  <2>1. RowOk(row)
    BY <1>3, <1>4 DEF RowOk
  <2>2. /\ row.pc # "idle" /\ row.pc # "done"
        /\ krest' = IF row.pc = "done" /\ row.alone THEN o ELSE krest
        /\ row.alone => IF row.pc = "done" THEN Settled(row, kcfg', kent')
                        ELSE Placed(row, kcfg', kent')
    BY <1>0, <1>4
  <2>3. /\ kcfg' = kcfg /\ kent' = kent /\ klive' = klive /\ kstuck' = kstuck
        /\ kcfg.ver =< kcfg'.ver /\ row.ver =< kcfg'.ver /\ kent'.ver =< kcfg'.ver
        /\ kent' # NoEntry => kent'.conn # NoConn
    BY <1>0, <1>2, <1>4
  <2>4. \A c \in klive' : \/ kent'.conn = c \/ c \in kstuck' \/ row.conn = c
                          \/ \E p \in ChanOps \ {o} : kop[p].conn = c
    BY <1>2, <1>4, <2>3
  <2> QED
    BY <1>1, <1>2, <1>4, <2>1, <2>2, <2>3, <2>4, OpStepKeeps
<1>5. CASE kop' = [kop EXCEPT ![o] = [op EXCEPT !.pc = IF kcfg.st = "on" THEN "ensure" ELSE "prune",
                                               !.on = (kcfg.st = "on"), !.ver = kcfg.ver]]
  <2> DEFINE row == [op EXCEPT !.pc = IF kcfg.st = "on" THEN "ensure" ELSE "prune",
                               !.on = (kcfg.st = "on"), !.ver = kcfg.ver]
  <2>1. /\ row \in OpRows /\ row.pc = (IF kcfg.st = "on" THEN "ensure" ELSE "prune")
        /\ row.on = (kcfg.st = "on") /\ row.ver = kcfg.ver /\ row.alone = op.alone
        /\ row.conn = op.conn /\ row.tries = op.tries
    BY <1>2 DEF OpRows, ChanPcs
  <2>2. kop' = [kop EXCEPT ![o] = row]
    BY <1>5
  <2> HIDE DEF row
  <2>3. Placed(row, kcfg, kent)
    BY <2>1 DEF Placed
  <2>4. row.pc \in {"ensure", "prune", "write"} /\ row.ver =< kcfg.ver
    BY <1>2, <2>1
  <2> QED
    BY <1>4, <2>1, <2>2, <2>3, <2>4
<1>6. CASE kop' = [kop EXCEPT ![o] = [op EXCEPT !.pc = "prune", !.on = FALSE, !.err = TRUE]]
  <2> DEFINE row == [op EXCEPT !.pc = "prune", !.on = FALSE, !.err = TRUE]
  <2>1. /\ row \in OpRows /\ row.pc = "prune" /\ row.err = TRUE /\ row.ver = op.ver
        /\ row.alone = op.alone /\ row.conn = op.conn /\ row.tries = op.tries
    BY <1>2 DEF OpRows, ChanPcs
  <2>2. kop' = [kop EXCEPT ![o] = row]
    BY <1>6
  <2> HIDE DEF row
  <2>3. Placed(row, kcfg, kent)
    BY <2>1 DEF Placed
  <2> QED
    BY <1>2, <1>4, <2>1, <2>2, <2>3
<1>7. CASE kop' = [kop EXCEPT ![o] = [op EXCEPT !.pc = "write", !.prev = kcfg.st]]
  <2> DEFINE row == [op EXCEPT !.pc = "write", !.prev = kcfg.st]
  <2>1. /\ row \in OpRows /\ row.pc = "write" /\ row.ver = op.ver
        /\ row.alone = op.alone /\ row.conn = op.conn /\ row.tries = op.tries
    BY <1>2 DEF OpRows, ChanPcs
  <2>2. kop' = [kop EXCEPT ![o] = row]
    BY <1>7
  <2> HIDE DEF row
  <2>3. Placed(row, kcfg, kent)
    BY <2>1 DEF Placed
  <2> QED
    BY <1>2, <1>4, <2>1, <2>2, <2>3
<1> QED
  BY <1>5, <1>6, <1>7 DEF ListConfigs, ReadPrevious

\* A call stores, enables, disables or deletes the configuration.
LEMMA StoreConfigKeeps ==
    ASSUME ChanIInv, NEW o \in ChanOps, StoreConfig(o)
    PROVE  ChanIInv'
<1> DEFINE op == kop[o]
<1>0. op.pc = "write" /\ kent' = kent /\ klive' = klive /\ kstuck' = kstuck
  BY DEF StoreConfig
<1>1. op.pc \notin {"idle", "done"}
  BY <1>0
<1>2. /\ op \in OpRows /\ RowOk(op) /\ op.ver =< kcfg.ver /\ krest = NoConn
      /\ kcfg \in [st: {"none", "on", "off", "gone"}, ver: 0..ChanMaxVer]
      /\ kcfg.ver \in Nat
  BY <1>1, OpFacts
<1>3. op.conn = NoConn /\ op.tries < 2
  BY <1>0, <1>2 DEF RowOk
<1>4. CASE kcfg' = kcfg /\ kcfg.st # "on" /\ At(o, "remove") /\ krest' = krest
  <2> DEFINE row == [op EXCEPT !.pc = "remove"]
  <2>1. /\ row \in OpRows /\ row.pc = "remove" /\ row.alone = op.alone /\ row.conn = op.conn
        /\ row.ver = op.ver
    BY <1>2 DEF OpRows, ChanPcs
  <2>2. kop' = [kop EXCEPT ![o] = row]
    BY <1>4 DEF At
  <2> HIDE DEF row
  <2>3. RowOk(row) /\ Placed(row, kcfg', kent)
    BY <1>3, <1>4, <2>1 DEF RowOk, Placed
  <2>4. /\ krest' = IF row.pc = "done" /\ row.alone THEN o ELSE krest
        /\ row.alone => IF row.pc = "done" THEN Settled(row, kcfg', kent)
                        ELSE Placed(row, kcfg', kent)
        /\ kcfg.ver =< kcfg'.ver /\ row.ver =< kcfg'.ver /\ row.pc # "idle"
        /\ kcfg' \in [st: {"none", "on", "off", "gone"}, ver: 0..ChanMaxVer]
    BY <1>2, <1>4, <2>1, <2>3
  <2> QED
    BY <1>0, <1>1, <2>1, <2>2, <2>3, <2>4, QuietStepKeeps
<1>5. CASE kcfg' = kcfg /\ EndOp(o, [op EXCEPT !.err = TRUE])
  <2> DEFINE op2 == [op EXCEPT !.err = TRUE]
  <2>1. op2 \in OpRows /\ op2.alone = op.alone /\ op2.ver = op.ver /\ op2.err
    BY <1>2 DEF OpRows
  <2>2. EndOp(o, op2)
    BY <1>5
  <2> HIDE DEF op2
  <2>3. PICK row \in OpRows : EndsWith(o, op2, row)
    BY <1>2, <2>1, <2>2, EndOpRow
  <2> USE <2>3 DEF EndsWith
  <2>4. Settled(row, kcfg', kent)
    BY <2>1 DEF Settled
  <2>5. /\ kcfg' \in [st: {"none", "on", "off", "gone"}, ver: 0..ChanMaxVer]
        /\ kcfg.ver =< kcfg'.ver /\ row.ver =< kcfg'.ver /\ row.pc # "idle"
        /\ row.alone = op.alone /\ row.conn = op.conn
        /\ row.alone => IF row.pc = "done" THEN Settled(row, kcfg', kent)
                        ELSE Placed(row, kcfg', kent)
    BY <1>2, <1>3, <1>5, <2>1, <2>4
  <2> QED
    BY <1>0, <1>1, <2>5, QuietStepKeeps
<1>6. CASE /\ kcfg.ver < ChanMaxVer
           /\ kcfg' = [st |-> CASE op.kind = "delete" -> "gone"
                                [] op.on /\ op.kind # "delete" -> "on" [] OTHER -> "off",
                       ver |-> kcfg.ver + 1]
           /\ kop' = [kop EXCEPT ![o].pc = IF op.on /\ op.kind # "delete" THEN "ensure" ELSE "remove",
                                 ![o].ver = kcfg.ver + 1]
           /\ krest' = krest
  <2> DEFINE starts == op.on /\ op.kind # "delete"
             pc == IF starts THEN "ensure" ELSE "remove"
             row == [op EXCEPT !.pc = pc, !.ver = kcfg.ver + 1]
  <2>1. kcfg.ver + 1 \in 0..ChanMaxVer
    BY <1>2, <1>6, ChannelAssumption
  <2>2. /\ kcfg'.ver = kcfg.ver + 1 /\ kcfg'.st \in {"gone", "on", "off"}
        /\ kcfg' \in [st: {"none", "on", "off", "gone"}, ver: 0..ChanMaxVer]
        /\ (kcfg'.st = "on") = starts
    BY <1>6, <2>1
  <2>3. kop' = [kop EXCEPT ![o] = row]
    BY <1>6
  <2>4. pc \in ChanPcs /\ pc \in {"ensure", "remove"} /\ (pc = "ensure") = starts
    BY DEF ChanPcs
  <2> HIDE DEF pc
  <2>5. /\ row \in OpRows /\ row.pc = pc /\ row.alone = op.alone /\ row.conn = op.conn
        /\ row.ver = kcfg.ver + 1 /\ row.tries = op.tries /\ row.on = op.on /\ row.kind = op.kind
    BY <1>2, <2>1, <2>4 DEF OpRows
  <2> HIDE DEF row
  <2>6. RowOk(row)
    BY <1>3, <2>4, <2>5 DEF RowOk
  <2>7. Placed(row, kcfg', kent)
    BY <2>2, <2>4, <2>5 DEF Placed
  <2>8. /\ krest' = IF row.pc = "done" /\ row.alone THEN o ELSE krest
        /\ row.alone => IF row.pc = "done" THEN Settled(row, kcfg', kent)
                        ELSE Placed(row, kcfg', kent)
        /\ kcfg.ver =< kcfg'.ver /\ row.ver =< kcfg'.ver /\ row.pc # "idle"
    BY <1>2, <1>6, <2>2, <2>4, <2>5, <2>7
  <2> QED
    BY <1>0, <1>1, <2>2, <2>3, <2>5, <2>6, <2>8, QuietStepKeeps
<1> QED
  BY <1>4, <1>5, <1>6 DEF StoreConfig

\* A step that ends the connection attempt of operation o, op being the operation then.
LEMMA AttemptEndKeeps ==
    ASSUME ChanIInv, NEW o \in ChanOps, kop[o].pc \notin {"idle", "done"},
           NEW op \in OpRows, op.conn = NoConn, op.alone = kop[o].alone, op.ver =< kcfg.ver,
           AfterEnsure(o, op), kcfg' = kcfg,
           kent' \in [ver: 0..ChanMaxVer, conn: Conns \cup {NoConn}], kent'.ver =< kcfg.ver,
           kent' # NoEntry => kent'.conn # NoConn,
           klive' \in SUBSET Conns, kstuck' \in SUBSET Conns,
           \A c \in klive' : \/ kent'.conn = c \/ c \in kstuck'
                             \/ \E p \in ChanOps \ {o} : kop[p].conn = c,
           op.alone /\ ~op.err /\ op.kind # "stop" =>
               kcfg.st = "on" /\ kent'.ver = kcfg.ver /\ (op.kind = "refresh" => op.on)
    PROVE  ChanIInv'
<1>1. /\ krest = NoConn /\ kcfg.ver \in Nat
      /\ kcfg \in [st: {"none", "on", "off", "gone"}, ver: 0..ChanMaxVer]
  BY OpFacts
<1>2. PICK row \in OpRows : GoesOnWith(o, op, row)
  BY <1>1, AfterEnsureRow
<1>3. /\ kop' = [kop EXCEPT ![o] = row] /\ RowOk(row) /\ row.alone = kop[o].alone
      /\ row.pc # "idle" /\ row.ver =< kcfg'.ver /\ kcfg.ver =< kcfg'.ver /\ kent'.ver =< kcfg'.ver
      /\ krest' = IF row.pc = "done" /\ row.alone THEN o ELSE krest
      /\ kcfg' \in [st: {"none", "on", "off", "gone"}, ver: 0..ChanMaxVer]
  BY <1>1, <1>2 DEF GoesOnWith
<1>4. row.alone /\ row.pc = "done" => Settled(row, kcfg', kent')
  BY <1>2 DEF GoesOnWith, Settled
<1>5. row.alone /\ row.pc # "done" => Placed(row, kcfg', kent')
  BY <1>2 DEF GoesOnWith, Placed
<1>6. row.alone => IF row.pc = "done" THEN Settled(row, kcfg', kent')
                   ELSE Placed(row, kcfg', kent')
  BY <1>4, <1>5
<1>7. \A c \in klive' : \/ kent'.conn = c \/ c \in kstuck' \/ row.conn = c
                        \/ \E p \in ChanOps \ {o} : kop[p].conn = c
  OBVIOUS
<1> QED
  BY <1>3, <1>6, <1>7, OpStepKeeps

\* ensureConnection finds the entry up to date, or takes it out.
LEMMA TakeEntryKeeps ==
    ASSUME ChanIInv, NEW o \in ChanOps, TakeEntry(o)
    PROVE  ChanIInv'
<1> DEFINE op == kop[o]
<1>0. op.pc = "ensure" /\ kcfg' = kcfg /\ klive' = klive /\ kstuck' = kstuck
  BY DEF TakeEntry
<1>1. op.pc \notin {"idle", "done"}
  BY <1>0
<1>2. /\ op \in OpRows /\ RowOk(op) /\ op.ver =< kcfg.ver /\ krest = NoConn
      /\ op.alone => Placed(op, kcfg, kent)
      /\ \A c \in klive : \/ kent.conn = c \/ c \in kstuck \/ op.conn = c
                          \/ \E p \in ChanOps \ {o} : kop[p].conn = c
      /\ kcfg \in [st: {"none", "on", "off", "gone"}, ver: 0..ChanMaxVer]
      /\ kent \in [ver: 0..ChanMaxVer, conn: Conns \cup {NoConn}]
      /\ klive \in SUBSET Conns /\ kstuck \in SUBSET Conns
      /\ kent.ver =< kcfg.ver /\ kcfg.ver \in Nat /\ kent.ver \in Nat
      /\ NoEntry \in [ver: 0..ChanMaxVer, conn: Conns \cup {NoConn}]
      /\ NoEntry.ver = 0 /\ NoEntry.conn = NoConn /\ NoConn \notin Conns
      /\ kent # NoEntry => kent.conn # NoConn
  BY <1>1, OpFacts
<1>3. op.conn = NoConn /\ op.tries < 2
  BY <1>0, <1>2 DEF RowOk
<1>4. op.alone => kcfg.st = "on" /\ op.ver = kcfg.ver /\ (op.kind = "refresh" => op.on)
  BY <1>0, <1>2 DEF Placed
<1>5. CASE UpToDate(op.ver) /\ AfterEnsure(o, op) /\ kent' = kent
  <2>1. op.alone => kent'.ver = kcfg.ver
    BY <1>2, <1>4, <1>5 DEF UpToDate
  <2>2. \A c \in klive' : \/ kent'.conn = c \/ c \in kstuck'
                          \/ \E p \in ChanOps \ {o} : kop[p].conn = c
    BY <1>0, <1>2, <1>3, <1>5
  <2>3. /\ kent' \in [ver: 0..ChanMaxVer, conn: Conns \cup {NoConn}] /\ kent'.ver =< kcfg.ver
        /\ klive' \in SUBSET Conns /\ kstuck' \in SUBSET Conns
        /\ kent' # NoEntry => kent'.conn # NoConn
    BY <1>0, <1>2, <1>5
  <2>4. op.alone /\ ~op.err /\ op.kind # "stop" =>
           kcfg.st = "on" /\ kent'.ver = kcfg.ver /\ (op.kind = "refresh" => op.on)
    BY <1>4, <2>1
  <2> HIDE DEF op
  <2>5. op \in OpRows /\ op.conn = NoConn /\ op.alone = kop[o].alone /\ op.ver =< kcfg.ver
    BY <1>2, <1>3 DEF op
  <2>6. AfterEnsure(o, op) /\ kop[o].pc \notin {"idle", "done"}
    BY <1>1, <1>5 DEF op
  <2> QED
    BY <1>0, <2>2, <2>3, <2>4, <2>5, <2>6, AttemptEndKeeps
<1>6. CASE /\ kop' = [kop EXCEPT ![o].pc = IF kent = NoEntry THEN "check" ELSE "stopold",
                                 ![o].conn = kent.conn]
           /\ kent' = NoEntry /\ krest' = krest
  <2> DEFINE pc == IF kent = NoEntry THEN "check" ELSE "stopold"
             row == [op EXCEPT !.pc = pc, !.conn = kent.conn]
  <2>1. /\ pc \in ChanPcs /\ pc \in {"check", "stopold"}
        /\ kent.conn # NoConn <=> pc = "stopold"
    BY <1>2 DEF ChanPcs
  <2>2. kop' = [kop EXCEPT ![o] = row]
    BY <1>6
  <2> HIDE DEF pc
  <2>3. /\ row \in OpRows /\ row.pc = pc /\ row.alone = op.alone /\ row.conn = kent.conn
        /\ row.ver = op.ver /\ row.tries = op.tries /\ row.on = op.on /\ row.kind = op.kind
    BY <1>2, <2>1 DEF OpRows
  <2> HIDE DEF row
  <2>4. RowOk(row)
    BY <1>3, <2>1, <2>3 DEF RowOk
  <2>5. row.alone => Placed(row, kcfg', kent')
    BY <1>0, <1>4, <1>6, <2>1, <2>3 DEF Placed
  <2>6. /\ krest' = IF row.pc = "done" /\ row.alone THEN o ELSE krest
        /\ row.alone => IF row.pc = "done" THEN Settled(row, kcfg', kent')
                        ELSE Placed(row, kcfg', kent')
        /\ row.pc # "idle"
    BY <1>6, <2>1, <2>3, <2>5
  <2>7. \A c \in klive' : \/ kent'.conn = c \/ c \in kstuck' \/ row.conn = c
                          \/ \E p \in ChanOps \ {o} : kop[p].conn = c
    <3>1. klive' = klive /\ kstuck' = kstuck /\ row.conn = kent.conn /\ op.conn \notin klive
      BY <1>0, <1>2, <1>3, <2>3
    <3> QED
      BY <1>2, <3>1
  <2>8. /\ kcfg.ver =< kcfg'.ver /\ row.ver =< kcfg'.ver /\ kent'.ver =< kcfg'.ver
        /\ kcfg' \in [st: {"none", "on", "off", "gone"}, ver: 0..ChanMaxVer]
        /\ kent' \in [ver: 0..ChanMaxVer, conn: Conns \cup {NoConn}]
        /\ klive' \in SUBSET Conns /\ kstuck' \in SUBSET Conns
        /\ kent' # NoEntry => kent'.conn # NoConn
    BY <1>0, <1>2, <1>6, <2>3
  <2> QED
    BY <1>1, <2>2, <2>3, <2>4, <2>6, <2>7, <2>8, OpStepKeeps
<1> QED
  BY <1>5, <1>6 DEF TakeEntry

\* ensureConnection looks at the table again, after it has stopped the old connection.
LEMMA CheckAgainKeeps ==
    ASSUME ChanIInv, NEW o \in ChanOps, CheckAgain(o)
    PROVE  ChanIInv'
<1> DEFINE op == kop[o]
<1>0. /\ op.pc = "check" /\ kcfg' = kcfg /\ kent' = kent /\ klive' = klive /\ kstuck' = kstuck
      /\ IF kent # NoEntry THEN AfterEnsure(o, op) ELSE At(o, "connect") /\ krest' = krest
  BY DEF CheckAgain
<1>1. op.pc \notin {"idle", "done"}
  BY <1>0
<1>2. /\ op \in OpRows /\ RowOk(op) /\ op.ver =< kcfg.ver /\ krest = NoConn
      /\ op.alone => Placed(op, kcfg, kent)
      /\ \A c \in klive : \/ kent.conn = c \/ c \in kstuck \/ op.conn = c
                          \/ \E p \in ChanOps \ {o} : kop[p].conn = c
      /\ kcfg \in [st: {"none", "on", "off", "gone"}, ver: 0..ChanMaxVer]
      /\ kent \in [ver: 0..ChanMaxVer, conn: Conns \cup {NoConn}]
      /\ klive \in SUBSET Conns /\ kstuck \in SUBSET Conns
      /\ kent.ver =< kcfg.ver /\ kcfg.ver \in Nat /\ kent.ver \in Nat
      /\ NoConn \notin Conns /\ (kent # NoEntry => kent.conn # NoConn)
  BY <1>1, OpFacts
<1>3. op.conn = NoConn /\ op.tries < 2
  BY <1>0, <1>2 DEF RowOk
<1>4. op.alone => /\ kcfg.st = "on" /\ op.ver = kcfg.ver /\ (op.kind = "refresh" => op.on)
                  /\ kent = NoEntry
  BY <1>0, <1>2 DEF Placed
<1>5. CASE kent # NoEntry /\ AfterEnsure(o, op)
  <2>1. \A c \in klive' : \/ kent'.conn = c \/ c \in kstuck'
                          \/ \E p \in ChanOps \ {o} : kop[p].conn = c
    BY <1>0, <1>2, <1>3
  <2>2. /\ kent' \in [ver: 0..ChanMaxVer, conn: Conns \cup {NoConn}] /\ kent'.ver =< kcfg.ver
        /\ klive' \in SUBSET Conns /\ kstuck' \in SUBSET Conns
        /\ kent' # NoEntry => kent'.conn # NoConn
    BY <1>0, <1>2
  <2>3. ~op.alone
    BY <1>4, <1>5
  <2> HIDE DEF op
  <2>4. op \in OpRows /\ op.conn = NoConn /\ op.alone = kop[o].alone /\ op.ver =< kcfg.ver
    BY <1>2, <1>3 DEF op
  <2>5. AfterEnsure(o, op) /\ kop[o].pc \notin {"idle", "done"}
    BY <1>1, <1>5 DEF op
  <2> QED
    BY <1>0, <2>1, <2>2, <2>3, <2>4, <2>5, AttemptEndKeeps
<1>6. CASE kent = NoEntry /\ At(o, "connect") /\ krest' = krest
  <2> DEFINE row == [op EXCEPT !.pc = "connect"]
  <2>1. /\ row \in OpRows /\ row.pc = "connect" /\ row.alone = op.alone /\ row.conn = op.conn
        /\ row.ver = op.ver /\ row.tries = op.tries /\ row.on = op.on /\ row.kind = op.kind
    BY <1>2 DEF OpRows, ChanPcs
  <2>2. kop' = [kop EXCEPT ![o] = row]
    BY <1>6 DEF At
  <2> HIDE DEF row
  <2>3. RowOk(row)
    BY <1>3, <2>1 DEF RowOk
  <2>4. row.alone => Placed(row, kcfg', kent)
    BY <1>0, <1>4, <2>1 DEF Placed
  <2>5. /\ krest' = IF row.pc = "done" /\ row.alone THEN o ELSE krest
        /\ row.alone => IF row.pc = "done" THEN Settled(row, kcfg', kent)
                        ELSE Placed(row, kcfg', kent)
        /\ kcfg.ver =< kcfg'.ver /\ row.ver =< kcfg'.ver /\ row.pc # "idle"
        /\ kcfg' \in [st: {"none", "on", "off", "gone"}, ver: 0..ChanMaxVer]
    BY <1>0, <1>2, <1>6, <2>1, <2>4
  <2> QED
    BY <1>0, <1>1, <2>1, <2>2, <2>3, <2>5, QuietStepKeeps
<1> QED
  BY <1>0, <1>5, <1>6

\* Stopping c takes it from the connections that run, or adds it to the stuck ones.
LEMMA StopConnFacts ==
    ASSUME NEW c \in Conns, NEW ok \in BOOLEAN, StopConn(c, ok),
           klive \in SUBSET Conns, kstuck \in SUBSET Conns
    PROVE  /\ klive' \in SUBSET Conns /\ kstuck' \in SUBSET Conns
           /\ klive' \subseteq klive /\ kstuck \subseteq kstuck'
           /\ c \in klive' => c \in kstuck'
<1>1. CASE ok
  BY <1>1 DEF StopConn
<1>2. CASE ~ok
  BY <1>2 DEF StopConn
<1> QED
  BY <1>1, <1>2

\* The connection taken out of the table is stopped.
LEMMA StopOldKeeps ==
    ASSUME ChanIInv, NEW o \in ChanOps, StopOld(o)
    PROVE  ChanIInv'
<1> DEFINE op == kop[o]
<1>0. op.pc = "stopold" /\ kcfg' = kcfg /\ kent' = kent
  BY DEF StopOld
<1>1. op.pc \notin {"idle", "done"}
  BY <1>0
<1>2. /\ op \in OpRows /\ RowOk(op) /\ op.ver =< kcfg.ver /\ krest = NoConn
      /\ op.alone => Placed(op, kcfg, kent)
      /\ \A c \in klive : \/ kent.conn = c \/ c \in kstuck \/ op.conn = c
                          \/ \E p \in ChanOps \ {o} : kop[p].conn = c
      /\ kcfg \in [st: {"none", "on", "off", "gone"}, ver: 0..ChanMaxVer]
      /\ kent \in [ver: 0..ChanMaxVer, conn: Conns \cup {NoConn}]
      /\ klive \in SUBSET Conns /\ kstuck \in SUBSET Conns
      /\ kent.ver =< kcfg.ver /\ kcfg.ver \in Nat /\ kent.ver \in Nat
      /\ NoEntry \in [ver: 0..ChanMaxVer, conn: Conns \cup {NoConn}]
      /\ NoEntry.ver = 0 /\ NoEntry.conn = NoConn /\ NoConn \notin Conns
      /\ kent # NoEntry => kent.conn # NoConn
  BY <1>1, OpFacts
<1>3. op.conn \in Conns /\ op.tries \in Nat /\ op.tries < 2
  BY <1>0, <1>2 DEF RowOk, OpRows
<1>4. op.alone => /\ kcfg.st = "on" /\ op.ver = kcfg.ver /\ (op.kind = "refresh" => op.on)
                  /\ kent = NoEntry
  BY <1>0, <1>2 DEF Placed
<1>5. PICK ok \in BOOLEAN :
        /\ StopConn(op.conn, ok)
        /\ IF ok THEN kop' = [kop EXCEPT ![o].pc = "check", ![o].conn = NoConn] /\ krest' = krest
           ELSE AfterEnsure(o, [op EXCEPT !.err = TRUE, !.conn = NoConn, !.tries = @ + 1])
  BY DEF StopOld
<1>6. /\ klive' \in SUBSET Conns /\ kstuck' \in SUBSET Conns
      /\ klive' \subseteq klive /\ kstuck \subseteq kstuck'
      /\ op.conn \in klive' => op.conn \in kstuck'
  <2> HIDE DEF op
  <2> QED
    BY <1>2, <1>3, <1>5, StopConnFacts
<1>7. \A c \in klive' : \/ kent'.conn = c \/ c \in kstuck'
                        \/ \E p \in ChanOps \ {o} : kop[p].conn = c
  BY <1>0, <1>2, <1>6
<1>8. CASE ok
  <2> DEFINE row == [op EXCEPT !.pc = "check", !.conn = NoConn]
  <2>1. /\ row \in OpRows /\ row.pc = "check" /\ row.alone = op.alone /\ row.conn = NoConn
        /\ row.ver = op.ver /\ row.tries = op.tries /\ row.on = op.on /\ row.kind = op.kind
    BY <1>2 DEF OpRows, ChanPcs
  <2>2. kop' = [kop EXCEPT ![o] = row] /\ krest' = krest
    BY <1>5, <1>8
  <2> HIDE DEF row
  <2>3. RowOk(row)
    BY <1>3, <2>1 DEF RowOk
  <2>4. row.alone => Placed(row, kcfg', kent')
    BY <1>0, <1>4, <2>1 DEF Placed
  <2>5. /\ krest' = IF row.pc = "done" /\ row.alone THEN o ELSE krest
        /\ row.alone => IF row.pc = "done" THEN Settled(row, kcfg', kent')
                        ELSE Placed(row, kcfg', kent')
        /\ row.pc # "idle"
    BY <2>1, <2>2, <2>4
  <2>6. \A c \in klive' : \/ kent'.conn = c \/ c \in kstuck' \/ row.conn = c
                          \/ \E p \in ChanOps \ {o} : kop[p].conn = c
    BY <1>7
  <2>7. /\ kcfg.ver =< kcfg'.ver /\ row.ver =< kcfg'.ver /\ kent'.ver =< kcfg'.ver
        /\ kcfg' \in [st: {"none", "on", "off", "gone"}, ver: 0..ChanMaxVer]
        /\ kent' \in [ver: 0..ChanMaxVer, conn: Conns \cup {NoConn}]
        /\ kent' # NoEntry => kent'.conn # NoConn
    BY <1>0, <1>2, <2>1
  <2> QED
    BY <1>1, <1>6, <2>1, <2>2, <2>3, <2>5, <2>6, <2>7, OpStepKeeps
<1>9. CASE ~ok
  <2> DEFINE op2 == [op EXCEPT !.err = TRUE, !.conn = NoConn, !.tries = @ + 1]
  <2>0. op \in OpRows /\ op.tries + 1 \in 0..2
    BY <1>2, <1>3
  <2>1. /\ op2 \in OpRows /\ op2.conn = NoConn /\ op2.alone = op.alone /\ op2.ver = op.ver
        /\ op2.err
    BY <1>3, <2>0 DEF OpRows
  <2>2. AfterEnsure(o, op2)
    BY <1>5, <1>9
  <2> HIDE DEF op2
  <2>3. /\ kent' \in [ver: 0..ChanMaxVer, conn: Conns \cup {NoConn}] /\ kent'.ver =< kcfg.ver
        /\ kent' # NoEntry => kent'.conn # NoConn
        /\ op2.ver =< kcfg.ver /\ op2.alone = kop[o].alone
    BY <1>0, <1>2, <2>1
  <2> QED
    BY <1>0, <1>1, <1>6, <1>7, <2>1, <2>2, <2>3, AttemptEndKeeps
<1> QED
  BY <1>8, <1>9

\* The adapter connects, or fails to.
LEMMA ConnectKeeps ==
    ASSUME ChanIInv, NEW o \in ChanOps, Connect(o)
    PROVE  ChanIInv'
<1> DEFINE op == kop[o]
           k == <<o, op.tries + 1>>
<1>0. op.pc = "connect" /\ kcfg' = kcfg /\ kent' = kent /\ kstuck' = kstuck
  BY DEF Connect
<1>1. op.pc \notin {"idle", "done"}
  BY <1>0
<1>2. /\ op \in OpRows /\ RowOk(op) /\ op.ver =< kcfg.ver /\ krest = NoConn
      /\ op.alone => Placed(op, kcfg, kent)
      /\ \A c \in klive : \/ kent.conn = c \/ c \in kstuck \/ op.conn = c
                          \/ \E p \in ChanOps \ {o} : kop[p].conn = c
      /\ kcfg \in [st: {"none", "on", "off", "gone"}, ver: 0..ChanMaxVer]
      /\ kent \in [ver: 0..ChanMaxVer, conn: Conns \cup {NoConn}]
      /\ klive \in SUBSET Conns /\ kstuck \in SUBSET Conns
      /\ kent.ver =< kcfg.ver /\ kcfg.ver \in Nat /\ kent.ver \in Nat
      /\ NoEntry \in [ver: 0..ChanMaxVer, conn: Conns \cup {NoConn}]
      /\ NoEntry.ver = 0 /\ NoEntry.conn = NoConn /\ NoConn \notin Conns
      /\ kent # NoEntry => kent.conn # NoConn
  BY <1>1, OpFacts
<1>3. op.conn = NoConn /\ op.tries \in 0..1 /\ k \in Conns
  BY <1>0, <1>2 DEF RowOk, OpRows, Conns
<1>4. op.alone => /\ kcfg.st = "on" /\ op.ver = kcfg.ver /\ (op.kind = "refresh" => op.on)
                  /\ kent = NoEntry
  BY <1>0, <1>2 DEF Placed
<1>5. \A c \in klive : \/ kent.conn = c \/ c \in kstuck
                       \/ \E p \in ChanOps \ {o} : kop[p].conn = c
  BY <1>2, <1>3
<1>6. /\ kent' \in [ver: 0..ChanMaxVer, conn: Conns \cup {NoConn}]
      /\ kent'.ver =< kcfg.ver /\ kstuck' \in SUBSET Conns
      /\ kent' # NoEntry => kent'.conn # NoConn
  BY <1>0, <1>2
<1>7. CASE /\ klive' = klive \cup {k}
           /\ kop' = [kop EXCEPT ![o].pc = "insert", ![o].conn = k, ![o].tries = @ + 1]
           /\ krest' = krest
  <2> HIDE DEF k
  <2> DEFINE row == [op EXCEPT !.pc = "insert", !.conn = k, !.tries = @ + 1]
  <2>0. op \in OpRows /\ op.tries + 1 \in 0..2
    BY <1>2, <1>3
  <2>1. /\ row \in OpRows /\ row.pc = "insert" /\ row.alone = op.alone /\ row.conn = k
        /\ row.ver = op.ver /\ row.on = op.on /\ row.kind = op.kind
    BY <1>3, <2>0 DEF OpRows, ChanPcs
  <2>2. kop' = [kop EXCEPT ![o] = row] /\ krest' = krest
    BY <1>7
  <2> HIDE DEF row
  <2>3. RowOk(row)
    BY <1>2, <1>3, <2>1 DEF RowOk
  <2>4. row.alone => Placed(row, kcfg', kent')
    BY <1>0, <1>4, <2>1 DEF Placed
  <2>5. /\ krest' = IF row.pc = "done" /\ row.alone THEN o ELSE krest
        /\ row.alone => IF row.pc = "done" THEN Settled(row, kcfg', kent')
                        ELSE Placed(row, kcfg', kent')
        /\ row.pc # "idle"
    BY <2>1, <2>2, <2>4
  <2>6. \A c \in klive' : \/ kent'.conn = c \/ c \in kstuck' \/ row.conn = c
                          \/ \E p \in ChanOps \ {o} : kop[p].conn = c
    BY <1>0, <1>5, <1>7, <2>1
  <2>7. /\ kcfg.ver =< kcfg'.ver /\ row.ver =< kcfg'.ver /\ kent'.ver =< kcfg'.ver
        /\ kcfg' \in [st: {"none", "on", "off", "gone"}, ver: 0..ChanMaxVer]
        /\ klive' \in SUBSET Conns
    BY <1>0, <1>2, <1>3, <1>6, <1>7, <2>1
  <2> QED
    BY <1>1, <1>6, <2>1, <2>2, <2>3, <2>5, <2>6, <2>7, OpStepKeeps
<1>8. CASE /\ AfterEnsure(o, [op EXCEPT !.err = TRUE, !.tries = @ + 1])
           /\ klive' = klive
  <2> DEFINE op2 == [op EXCEPT !.err = TRUE, !.tries = @ + 1]
  <2>0. op \in OpRows /\ op.tries + 1 \in 0..2
    BY <1>2, <1>3
  <2>1. /\ op2 \in OpRows /\ op2.conn = NoConn /\ op2.alone = op.alone /\ op2.ver = op.ver
        /\ op2.err
    BY <1>3, <2>0 DEF OpRows
  <2>2. AfterEnsure(o, op2)
    BY <1>8
  <2> HIDE DEF op2
  <2>3. op2.ver =< kcfg.ver /\ op2.alone = kop[o].alone /\ klive' \in SUBSET Conns
    BY <1>2, <1>8, <2>1
  <2>4. \A c \in klive' : \/ kent'.conn = c \/ c \in kstuck'
                          \/ \E p \in ChanOps \ {o} : kop[p].conn = c
    BY <1>0, <1>5, <1>8
  <2> QED
    BY <1>0, <1>1, <1>6, <2>1, <2>2, <2>3, <2>4, AttemptEndKeeps
<1> QED
  BY <1>7, <1>8 DEF Connect

\* The new connection enters the table, unless another operation's is there.
LEMMA InsertKeeps ==
    ASSUME ChanIInv, NEW o \in ChanOps, Insert(o)
    PROVE  ChanIInv'
<1> DEFINE op == kop[o]
<1>0. op.pc = "insert" /\ kcfg' = kcfg /\ klive' = klive /\ kstuck' = kstuck
  BY DEF Insert
<1>1. op.pc \notin {"idle", "done"}
  BY <1>0
<1>2. /\ op \in OpRows /\ RowOk(op) /\ op.ver =< kcfg.ver /\ krest = NoConn
      /\ op.alone => Placed(op, kcfg, kent)
      /\ \A c \in klive : \/ kent.conn = c \/ c \in kstuck \/ op.conn = c
                          \/ \E p \in ChanOps \ {o} : kop[p].conn = c
      /\ kcfg \in [st: {"none", "on", "off", "gone"}, ver: 0..ChanMaxVer]
      /\ kent \in [ver: 0..ChanMaxVer, conn: Conns \cup {NoConn}]
      /\ klive \in SUBSET Conns /\ kstuck \in SUBSET Conns
      /\ kent.ver =< kcfg.ver /\ kcfg.ver \in Nat /\ kent.ver \in Nat
      /\ NoEntry \in [ver: 0..ChanMaxVer, conn: Conns \cup {NoConn}]
      /\ NoEntry.ver = 0 /\ NoEntry.conn = NoConn /\ NoConn \notin Conns
      /\ kent # NoEntry => kent.conn # NoConn
  BY <1>1, OpFacts
<1>3. op.conn \in Conns /\ op.conn # NoConn /\ op.ver \in 0..ChanMaxVer
  BY <1>0, <1>2 DEF RowOk, OpRows
<1>4. op.alone => /\ kcfg.st = "on" /\ op.ver = kcfg.ver /\ (op.kind = "refresh" => op.on)
                  /\ kent = NoEntry
  BY <1>0, <1>2 DEF Placed
<1>5. CASE LosesRace /\ At(o, "stopnew") /\ kent' = kent /\ krest' = krest
  <2> DEFINE row == [op EXCEPT !.pc = "stopnew"]
  <2>1. /\ row \in OpRows /\ row.pc = "stopnew" /\ row.alone = op.alone /\ row.conn = op.conn
        /\ row.ver = op.ver
    BY <1>2 DEF OpRows, ChanPcs
  <2>2. kop' = [kop EXCEPT ![o] = row]
    BY <1>5 DEF At
  <2> HIDE DEF row
  <2>3. RowOk(row)
    BY <1>3, <2>1 DEF RowOk
  <2>4. ~row.alone
    BY <1>4, <1>5, <2>1 DEF LosesRace
  <2>5. /\ krest' = IF row.pc = "done" /\ row.alone THEN o ELSE krest
        /\ kcfg.ver =< kcfg'.ver /\ row.ver =< kcfg'.ver /\ row.pc # "idle"
        /\ kcfg' \in [st: {"none", "on", "off", "gone"}, ver: 0..ChanMaxVer]
    BY <1>0, <1>2, <1>5, <2>1
  <2> QED
    BY <1>0, <1>1, <1>5, <2>1, <2>2, <2>3, <2>4, <2>5, QuietStepKeeps
<1>6. CASE /\ ~LosesRace /\ kent' = [ver |-> op.ver, conn |-> op.conn]
           /\ AfterEnsure(o, [op EXCEPT !.conn = NoConn, !.err = FALSE])
  <2> DEFINE op2 == [op EXCEPT !.conn = NoConn, !.err = FALSE]
  <2>1. /\ op2 \in OpRows /\ op2.conn = NoConn /\ op2.alone = op.alone /\ op2.ver = op.ver
        /\ op2.kind = op.kind /\ op2.on = op.on
    BY <1>2 DEF OpRows
  <2>2. AfterEnsure(o, op2)
    BY <1>6
  <2> HIDE DEF op2
  <2>3. kent'.ver = op.ver /\ kent'.conn = op.conn
    BY <1>6
  <2>4. /\ kent' \in [ver: 0..ChanMaxVer, conn: Conns \cup {NoConn}] /\ kent'.ver =< kcfg.ver
        /\ kent' # NoEntry => kent'.conn # NoConn
        /\ op2.ver =< kcfg.ver /\ op2.alone = kop[o].alone
        /\ klive' \in SUBSET Conns /\ kstuck' \in SUBSET Conns
    BY <1>0, <1>2, <1>3, <1>6, <2>1, <2>3
  <2>5. kent = NoEntry
    BY <1>6 DEF LosesRace
  <2>6. \A c \in klive' : \/ kent'.conn = c \/ c \in kstuck'
                          \/ \E p \in ChanOps \ {o} : kop[p].conn = c
    BY <1>0, <1>2, <2>3, <2>5
  <2>7. op2.alone /\ ~op2.err /\ op2.kind # "stop" =>
           kcfg.st = "on" /\ kent'.ver = kcfg.ver /\ (op2.kind = "refresh" => op2.on)
    BY <1>4, <2>1, <2>3
  <2> QED
    BY <1>0, <1>1, <2>1, <2>2, <2>4, <2>6, <2>7, AttemptEndKeeps
<1> QED
  BY <1>5, <1>6 DEF Insert

\* The connection that lost the race, or that a stop took out, is stopped.
LEMMA StopNewKeeps ==
    ASSUME ChanIInv, NEW o \in ChanOps, StopNew(o)
    PROVE  ChanIInv'
<1> DEFINE op == kop[o]
<1>0. op.pc = "stopnew" /\ kcfg' = kcfg /\ kent' = kent
  BY DEF StopNew
<1>1. op.pc \notin {"idle", "done"}
  BY <1>0
<1>2. /\ op \in OpRows /\ RowOk(op) /\ op.ver =< kcfg.ver /\ krest = NoConn
      /\ op.alone => Placed(op, kcfg, kent)
      /\ \A c \in klive : \/ kent.conn = c \/ c \in kstuck \/ op.conn = c
                          \/ \E p \in ChanOps \ {o} : kop[p].conn = c
      /\ kcfg \in [st: {"none", "on", "off", "gone"}, ver: 0..ChanMaxVer]
      /\ kent \in [ver: 0..ChanMaxVer, conn: Conns \cup {NoConn}]
      /\ klive \in SUBSET Conns /\ kstuck \in SUBSET Conns
      /\ kent.ver =< kcfg.ver /\ kcfg.ver \in Nat /\ kent.ver \in Nat
      /\ NoEntry \in [ver: 0..ChanMaxVer, conn: Conns \cup {NoConn}]
      /\ NoEntry.ver = 0 /\ NoEntry.conn = NoConn /\ NoConn \notin Conns
      /\ kent # NoEntry => kent.conn # NoConn
  BY <1>1, OpFacts
<1>3. op.conn \in Conns
  BY <1>0, <1>2 DEF RowOk, OpRows
<1>4. op.alone => op.kind = "stop"
  BY <1>0, <1>2 DEF Placed
<1>5. PICK ok \in BOOLEAN : StopConn(op.conn, ok)
  BY DEF StopNew
<1>6. /\ klive' \in SUBSET Conns /\ kstuck' \in SUBSET Conns
      /\ klive' \subseteq klive /\ kstuck \subseteq kstuck'
      /\ op.conn \in klive' => op.conn \in kstuck'
  <2> HIDE DEF op
  <2> QED
    BY <1>2, <1>3, <1>5, StopConnFacts
<1>7. \A c \in klive' : \/ kent'.conn = c \/ c \in kstuck'
                        \/ \E p \in ChanOps \ {o} : kop[p].conn = c
  BY <1>0, <1>2, <1>6
<1> DEFINE op2 == [op EXCEPT !.conn = NoConn, !.err = FALSE]
<1>8. /\ op2 \in OpRows /\ op2.conn = NoConn /\ op2.alone = op.alone /\ op2.ver = op.ver
      /\ op2.kind = op.kind
  BY <1>2 DEF OpRows
<1>9. AfterEnsure(o, op2)
  BY DEF StopNew
<1> HIDE DEF op2
<1>10. /\ kent' \in [ver: 0..ChanMaxVer, conn: Conns \cup {NoConn}] /\ kent'.ver =< kcfg.ver
       /\ kent' # NoEntry => kent'.conn # NoConn
       /\ op2.ver =< kcfg.ver /\ op2.alone = kop[o].alone
       /\ ~(op2.alone /\ ~op2.err /\ op2.kind # "stop")
  BY <1>0, <1>2, <1>4, <1>8
<1> QED
  BY <1>0, <1>1, <1>6, <1>7, <1>8, <1>9, <1>10, AttemptEndKeeps

\* What DropEntry leaves: no entry, and its connection stopped or stuck.
LEMMA DropEntryFacts ==
    ASSUME DropEntry, klive \in SUBSET Conns, kstuck \in SUBSET Conns, NoConn \notin Conns,
           NoEntry.conn = NoConn, kent # NoEntry => kent.conn \in Conns
    PROVE  /\ kent' = NoEntry /\ klive' \in SUBSET Conns /\ kstuck' \in SUBSET Conns
           /\ klive' \subseteq klive /\ kstuck \subseteq kstuck'
           /\ kent.conn \in klive' => kent.conn \in kstuck'
<1>1. CASE kent = NoEntry
  BY <1>1 DEF DropEntry
<1>2. CASE kent # NoEntry
  <2> DEFINE c == kent.conn
  <2>1. PICK ok \in BOOLEAN : kent' = NoEntry /\ StopConn(c, ok)
    BY <1>2 DEF DropEntry
  <2>2. c \in Conns
    BY <1>2
  <2> HIDE DEF c
  <2>3. /\ klive' \in SUBSET Conns /\ kstuck' \in SUBSET Conns
        /\ klive' \subseteq klive /\ kstuck \subseteq kstuck'
        /\ c \in klive' => c \in kstuck'
    BY <2>1, <2>2, StopConnFacts
  <2> QED
    BY <2>1, <2>3 DEF c
<1> QED
  BY <1>1, <1>2

\* A refresh or a removal ends: an operation that was alone has settled the table.
LEMMA RemovalKeeps ==
    ASSUME ChanIInv, NEW o \in ChanOps, Prune(o) \/ RemoveConnection(o)
    PROVE  ChanIInv'
<1> DEFINE op == kop[o]
           drops == op.pc = "remove" \/ ~op.on
<1>0. /\ op.pc \in {"prune", "remove"} /\ kcfg' = kcfg /\ EndOp(o, op)
      /\ IF drops THEN DropEntry ELSE kent' = kent /\ klive' = klive /\ kstuck' = kstuck
  <2>1. CASE Prune(o)
    BY <2>1 DEF Prune, Obsolete
  <2>2. CASE RemoveConnection(o)
    BY <2>2 DEF RemoveConnection
  <2> QED
    BY <2>1, <2>2
<1>1. op.pc \notin {"idle", "done"}
  BY <1>0
<1>2. /\ op \in OpRows /\ RowOk(op) /\ op.ver =< kcfg.ver /\ krest = NoConn
      /\ op.alone => Placed(op, kcfg, kent)
      /\ \A c \in klive : \/ kent.conn = c \/ c \in kstuck \/ op.conn = c
                          \/ \E p \in ChanOps \ {o} : kop[p].conn = c
      /\ kcfg \in [st: {"none", "on", "off", "gone"}, ver: 0..ChanMaxVer]
      /\ kent \in [ver: 0..ChanMaxVer, conn: Conns \cup {NoConn}]
      /\ klive \in SUBSET Conns /\ kstuck \in SUBSET Conns
      /\ kent.ver =< kcfg.ver /\ kcfg.ver \in Nat /\ kent.ver \in Nat
      /\ NoEntry \in [ver: 0..ChanMaxVer, conn: Conns \cup {NoConn}]
      /\ NoEntry.ver = 0 /\ NoEntry.conn = NoConn /\ NoConn \notin Conns
      /\ kent # NoEntry => kent.conn # NoConn
  BY <1>1, OpFacts
<1>3. op.conn = NoConn /\ (kent # NoEntry => kent.conn \in Conns)
  BY <1>0, <1>2 DEF RowOk
<1> HIDE DEF drops
<1>4. /\ klive' \in SUBSET Conns /\ kstuck' \in SUBSET Conns
      /\ kent' = (IF drops THEN NoEntry ELSE kent)
      /\ \A c \in klive' : \/ kent'.conn = c \/ c \in kstuck'
                           \/ \E p \in ChanOps \ {o} : kop[p].conn = c
  <2>1. CASE drops
    <3>1. /\ kent' = NoEntry /\ klive' \in SUBSET Conns /\ kstuck' \in SUBSET Conns
          /\ klive' \subseteq klive /\ kstuck \subseteq kstuck'
          /\ kent.conn \in klive' => kent.conn \in kstuck'
      BY <1>0, <1>2, <1>3, <2>1, DropEntryFacts
    <3> QED
      BY <1>2, <1>3, <2>1, <3>1
  <2>2. CASE ~drops
    BY <1>0, <1>2, <1>3, <2>2
  <2> QED
    BY <2>1, <2>2
<1>5. /\ kent' \in [ver: 0..ChanMaxVer, conn: Conns \cup {NoConn}] /\ kent'.ver =< kcfg'.ver
      /\ kent' # NoEntry => kent'.conn # NoConn
      /\ kcfg.ver =< kcfg'.ver
      /\ kcfg' \in [st: {"none", "on", "off", "gone"}, ver: 0..ChanMaxVer]
  BY <1>0, <1>2, <1>4
<1>6. op.alone /\ ~op.err /\ op.kind # "stop" =>
        \/ kcfg'.st = "on" /\ kent'.ver = kcfg'.ver
        \/ kcfg'.st # "on" /\ kent' = NoEntry
  <2>1. CASE op.pc = "remove"
    BY <1>0, <1>2, <1>4, <2>1 DEF Placed, drops
  <2>2. CASE op.pc = "prune"
    BY <1>0, <1>2, <1>4, <2>2 DEF Placed, drops
  <2> QED
    BY <1>0, <2>1, <2>2
<1> HIDE DEF op
<1>7. op \in OpRows /\ EndOp(o, op) /\ krest = NoConn /\ op.alone = kop[o].alone
  BY <1>0, <1>2 DEF op
<1>8. PICK row \in OpRows : EndsWith(o, op, row)
  BY <1>7, EndOpRow
<1>9. /\ kop' = [kop EXCEPT ![o] = row] /\ RowOk(row) /\ row.alone = op.alone
      /\ row.pc = "done" /\ row.conn = NoConn /\ row.ver = op.ver /\ row.err = op.err
      /\ row.kind = op.kind /\ row.pc # "idle"
      /\ krest' = IF row.pc = "done" /\ row.alone THEN o ELSE krest
  BY <1>8 DEF EndsWith
<1>10. row.alone => Settled(row, kcfg', kent')
  BY <1>6, <1>9 DEF Settled
<1>11. /\ row.alone => IF row.pc = "done" THEN Settled(row, kcfg', kent')
                       ELSE Placed(row, kcfg', kent')
       /\ row.ver =< kcfg'.ver /\ row.alone = kop[o].alone
  BY <1>0, <1>2, <1>7, <1>9, <1>10
<1>12. \A c \in klive' : \/ kent'.conn = c \/ c \in kstuck' \/ row.conn = c
                         \/ \E p \in ChanOps \ {o} : kop[p].conn = c
  BY <1>4
<1>13. kop[o].pc \notin {"idle", "done"}
  BY <1>1 DEF op
<1> QED
  BY <1>4, <1>5, <1>9, <1>11, <1>12, <1>13, OpStepKeeps

\* A stop takes the entry out and keeps its connection to stop it.
LEMMA StopEntryKeeps ==
    ASSUME ChanIInv, NEW o \in ChanOps, StopEntry(o)
    PROVE  ChanIInv'
<1> DEFINE op == kop[o]
           row == [op EXCEPT !.pc = "stopnew", !.conn = kent.conn]
<1>0. /\ op.pc = "remove" /\ op.kind = "stop" /\ kent # NoEntry
      /\ kop' = [kop EXCEPT ![o] = row] /\ kent' = NoEntry
      /\ kcfg' = kcfg /\ klive' = klive /\ kstuck' = kstuck /\ krest' = krest
  BY DEF StopEntry
<1>1. op.pc \notin {"idle", "done"}
  BY <1>0
<1>2. /\ op \in OpRows /\ RowOk(op) /\ op.ver =< kcfg.ver /\ krest = NoConn
      /\ op.alone => Placed(op, kcfg, kent)
      /\ \A c \in klive : \/ kent.conn = c \/ c \in kstuck \/ op.conn = c
                          \/ \E p \in ChanOps \ {o} : kop[p].conn = c
      /\ kcfg \in [st: {"none", "on", "off", "gone"}, ver: 0..ChanMaxVer]
      /\ kent \in [ver: 0..ChanMaxVer, conn: Conns \cup {NoConn}]
      /\ klive \in SUBSET Conns /\ kstuck \in SUBSET Conns
      /\ kent.ver =< kcfg.ver /\ kcfg.ver \in Nat /\ kent.ver \in Nat
      /\ NoEntry \in [ver: 0..ChanMaxVer, conn: Conns \cup {NoConn}]
      /\ NoEntry.ver = 0 /\ NoEntry.conn = NoConn /\ NoConn \notin Conns
      /\ kent # NoEntry => kent.conn # NoConn
  BY <1>1, OpFacts
<1>3. op.conn = NoConn /\ kent.conn \in Conns
  BY <1>0, <1>2 DEF RowOk
<1>4. /\ row \in OpRows /\ row.pc = "stopnew" /\ row.alone = op.alone /\ row.conn = kent.conn
      /\ row.ver = op.ver /\ row.kind = op.kind
  BY <1>2, <1>3 DEF OpRows, ChanPcs
<1> HIDE DEF row
<1>5. RowOk(row)
  BY <1>2, <1>3, <1>4 DEF RowOk
<1>6. Placed(row, kcfg', kent')
  BY <1>0, <1>4 DEF Placed
<1>7. /\ krest' = IF row.pc = "done" /\ row.alone THEN o ELSE krest
      /\ row.alone => IF row.pc = "done" THEN Settled(row, kcfg', kent')
                      ELSE Placed(row, kcfg', kent')
      /\ row.pc # "idle"
  BY <1>0, <1>4, <1>6
<1>8. \A c \in klive' : \/ kent'.conn = c \/ c \in kstuck' \/ row.conn = c
                        \/ \E p \in ChanOps \ {o} : kop[p].conn = c
  <2>1. klive' = klive /\ kstuck' = kstuck /\ op.conn \notin klive
    BY <1>0, <1>2, <1>3
  <2> QED
    BY <1>2, <1>4, <2>1
<1>9. /\ kcfg.ver =< kcfg'.ver /\ row.ver =< kcfg'.ver /\ kent'.ver =< kcfg'.ver
      /\ kcfg' \in [st: {"none", "on", "off", "gone"}, ver: 0..ChanMaxVer]
      /\ kent' \in [ver: 0..ChanMaxVer, conn: Conns \cup {NoConn}]
      /\ kent' # NoEntry => kent'.conn # NoConn
      /\ klive' \in SUBSET Conns /\ kstuck' \in SUBSET Conns
  BY <1>0, <1>2, <1>4
<1> QED
  BY <1>0, <1>1, <1>4, <1>5, <1>7, <1>8, <1>9, OpStepKeeps

\* A call that could not connect restores or disables the configuration.
LEMMA RollbackKeeps ==
    ASSUME ChanIInv, NEW o \in ChanOps, Rollback(o)
    PROVE  ChanIInv'
<1> DEFINE op == kop[o]
           st == CASE op.kind = "status" -> "off" [] op.kind = "upsert" /\ op.prev = "none" -> "gone"
                   [] OTHER -> op.prev
<1>0. op.pc = "rollback" /\ kent' = kent /\ klive' = klive /\ kstuck' = kstuck
  BY DEF Rollback
<1>1. op.pc \notin {"idle", "done"}
  BY <1>0
<1>2. /\ op \in OpRows /\ RowOk(op) /\ op.ver =< kcfg.ver /\ krest = NoConn
      /\ op.alone => Placed(op, kcfg, kent)
      /\ \A c \in klive : \/ kent.conn = c \/ c \in kstuck \/ op.conn = c
                          \/ \E p \in ChanOps \ {o} : kop[p].conn = c
      /\ kcfg \in [st: {"none", "on", "off", "gone"}, ver: 0..ChanMaxVer]
      /\ kent \in [ver: 0..ChanMaxVer, conn: Conns \cup {NoConn}]
      /\ klive \in SUBSET Conns /\ kstuck \in SUBSET Conns
      /\ kent.ver =< kcfg.ver /\ kcfg.ver \in Nat /\ kent.ver \in Nat
      /\ NoEntry \in [ver: 0..ChanMaxVer, conn: Conns \cup {NoConn}]
      /\ NoEntry.ver = 0 /\ NoEntry.conn = NoConn /\ NoConn \notin Conns
      /\ kent # NoEntry => kent.conn # NoConn
  BY <1>1, OpFacts
<1>3. op.conn = NoConn /\ op.tries < 2
  BY <1>0, <1>2 DEF RowOk
<1>4. st \in {"none", "on", "off", "gone"}
  BY <1>2 DEF OpRows
<1>5. CASE kcfg' = kcfg /\ EndOp(o, op)
  <2>1. op.alone => op.err
    BY <1>0, <1>2 DEF Placed
  <2> HIDE DEF op
  <2>2. op \in OpRows /\ EndOp(o, op) /\ krest = NoConn
    BY <1>2, <1>5
  <2>3. PICK row \in OpRows : EndsWith(o, op, row)
    BY <2>2, EndOpRow
  <2>4. /\ kop' = [kop EXCEPT ![o] = row] /\ RowOk(row) /\ row.alone = op.alone
        /\ row.pc = "done" /\ row.conn = NoConn /\ row.ver = op.ver /\ row.err = op.err
        /\ krest' = IF row.pc = "done" /\ row.alone THEN o ELSE krest
    BY <2>3 DEF EndsWith
  <2>5. row.alone => Settled(row, kcfg', kent)
    BY <2>1, <2>4 DEF Settled
  <2>6. /\ row.alone => IF row.pc = "done" THEN Settled(row, kcfg', kent)
                        ELSE Placed(row, kcfg', kent)
        /\ row.ver =< kcfg'.ver /\ kcfg.ver =< kcfg'.ver /\ row.pc # "idle"
        /\ kcfg' \in [st: {"none", "on", "off", "gone"}, ver: 0..ChanMaxVer]
    BY <1>2, <1>5, <2>4, <2>5
  <2>7. kop[o].pc \notin {"idle", "done"} /\ row.alone = kop[o].alone /\ row.conn = kop[o].conn
    BY <1>1, <1>3, <2>4 DEF op
  <2> QED
    BY <1>0, <2>4, <2>6, <2>7, QuietStepKeeps
<1>6. CASE /\ kcfg.ver < ChanMaxVer
           /\ kcfg' = [st |-> st, ver |-> kcfg.ver + 1]
           /\ kop' = [kop EXCEPT ![o].pc = IF st = "on" THEN "ensure" ELSE "remove",
                                 ![o].ver = kcfg.ver + 1, ![o].on = (st = "on"), ![o].err = FALSE]
           /\ krest' = krest
  <2> HIDE DEF st
  <2> DEFINE pc == IF st = "on" THEN "ensure" ELSE "remove"
             on == (st = "on")
             op2 == [op EXCEPT !.pc = pc, !.ver = kcfg.ver + 1]
             row == [op2 EXCEPT !.on = on, !.err = FALSE]
  <2>1. kcfg.ver + 1 \in 0..ChanMaxVer
    BY <1>2, <1>6, ChannelAssumption
  <2>2. /\ kcfg'.ver = kcfg.ver + 1 /\ kcfg'.st = st
        /\ kcfg' \in [st: {"none", "on", "off", "gone"}, ver: 0..ChanMaxVer]
    BY <1>4, <1>6, <2>1
  <2>3. kop' = [kop EXCEPT ![o] = row]
    BY <1>6
  <2>4. pc \in ChanPcs /\ pc \in {"ensure", "remove"} /\ (pc = "ensure" <=> st = "on")
    BY DEF ChanPcs
  <2>5. on \in BOOLEAN /\ (on <=> st = "on")
    OBVIOUS
  <2> HIDE DEF pc, on
  <2>6. /\ op2 \in OpRows /\ op2.pc = pc /\ op2.alone = op.alone /\ op2.conn = op.conn
        /\ op2.ver = kcfg.ver + 1 /\ op2.tries = op.tries /\ op2.kind = op.kind
    BY <1>2, <2>1, <2>4 DEF OpRows
  <2> HIDE DEF op2
  <2>7. /\ row \in OpRows /\ row.pc = pc /\ row.alone = op.alone /\ row.conn = op.conn
        /\ row.ver = kcfg.ver + 1 /\ row.tries = op.tries /\ row.kind = op.kind /\ row.on = on
    BY <2>5, <2>6 DEF OpRows
  <2> HIDE DEF row
  <2>8. RowOk(row)
    BY <1>3, <2>4, <2>7 DEF RowOk
  <2>9. Placed(row, kcfg', kent)
    BY <2>2, <2>4, <2>5, <2>7 DEF Placed
  <2>10. /\ krest' = IF row.pc = "done" /\ row.alone THEN o ELSE krest
         /\ row.alone => IF row.pc = "done" THEN Settled(row, kcfg', kent)
                         ELSE Placed(row, kcfg', kent)
         /\ kcfg.ver =< kcfg'.ver /\ row.ver =< kcfg'.ver /\ row.pc # "idle"
    BY <1>2, <1>6, <2>2, <2>4, <2>7, <2>9
  <2> QED
    BY <1>0, <1>1, <2>2, <2>3, <2>7, <2>8, <2>10, QuietStepKeeps
<1> QED
  BY <1>5, <1>6 DEF Rollback

\* Every step keeps the invariant.
LEMMA NextChanIInv == ChanIInv /\ [ChannelNext]_kvars => ChanIInv'
<1> SUFFICES ASSUME ChanIInv, [ChannelNext]_kvars PROVE ChanIInv'
  OBVIOUS
<1>1. CASE UNCHANGED kvars
  BY <1>1 DEF kvars, ChanIInv, ChanTyped, VersionsBound, EntryHolds, AloneIsAlone, AlonePlaced,
              RestSettled, NoConnectionLeaks, Busy
<1>2. ASSUME NEW o \in ChanOps, \E kind \in Kinds, on \in BOOLEAN : Begin(o, kind, on)
      PROVE  ChanIInv'
  BY <1>2, BeginKeeps
<1>3. ASSUME NEW o \in ChanOps, ListConfigs(o) \/ ReadPrevious(o) \/ StoreConfig(o)
      PROVE  ChanIInv'
  BY <1>3, ReadKeeps, StoreConfigKeeps
<1>4. ASSUME NEW o \in ChanOps, \/ TakeEntry(o) \/ StopOld(o) \/ CheckAgain(o) \/ Connect(o)
                                \/ Insert(o) \/ StopNew(o)
      PROVE  ChanIInv'
  BY <1>4, TakeEntryKeeps, StopOldKeeps, CheckAgainKeeps, ConnectKeeps, InsertKeeps, StopNewKeeps
<1>5. ASSUME NEW o \in ChanOps, Prune(o) \/ RemoveConnection(o) \/ StopEntry(o) \/ Rollback(o)
      PROVE  ChanIInv'
  BY <1>5, RemovalKeeps, StopEntryKeeps, RollbackKeeps
<1> QED
  BY <1>1, <1>2, <1>3, <1>4, <1>5 DEF ChannelNext

\* ensureConnection, reconcile and removeConnection (connection.go): however many
\* operations run and however they interleave, every connection that runs is in the table,
\* in the hands of an operation, or one whose Stop failed.
THEOREM ConnectionTheorem == ChannelSpec => []ConnectionInv
<1>1. ChannelSpec => []ChanIInv
  BY InitChanIInv, NextChanIInv, PTL DEF ChannelSpec
<1> QED
  BY <1>1, ChanIInvImplies, PTL

\* Refresh as "a periodic safety net" (manager.go): whatever the operations before it did to
\* each other, one that ran alone and met no failure leaves the table as the stored
\* configuration has it.
THEOREM SettlesTheorem == ChannelSpec => []LastOperationSettles
<1>1. ChannelSpec => []ChanIInv
  BY InitChanIInv, NextChanIInv, PTL DEF ChannelSpec
<1> QED
  BY <1>1, ChanIInvImplies, PTL

-----------------------------------------------------------------------------
(* Bot workspaces.                                                         *)


WRows == [set: BOOLEAN, des: {"present", "absent"}, pres: BOOLEAN, caught: BOOLEAN,
          obs: ObservedStates, ever: BOOLEAN, att: 0..WsMaxAttempts,
          own: WsServers \cup {NoServer}, lease: BOOLEAN]
Passes == [pc: {"idle", "begin", "entered", "back", "record", "told", "release", "unmark"},
           act: {"none", "provision", "teardown"}, pres: BOOLEAN, fresh: BOOLEAN,
           out: {"none", "ok", "retry", "final"}, st: Statuses \cup {"none"}]
Observes == [pc: {"idle", "claim", "inspect", "write", "told", "release"},
             by: {"none", "loop", "user"}, insp: {"none", "absent", "running", "stopped"},
             fresh: BOOLEAN, st: Statuses \cup {"none"}]
Cancels == [pc: {"idle", "write", "told"}, insp: {"none", "absent", "running", "stopped"},
            st: Statuses \cup {"none"}]

Typed ==
    /\ wrow \in WRows /\ wbot \in Statuses /\ wbox \in Boxes /\ wints \in 0..WsMaxIntents
    /\ wpass \in [WsServers -> Passes] /\ wobs \in [WsServers -> Observes] /\ wcan \in Cancels

\* What is about to be written was decided on or read.
Filled ==
    /\ \A s \in WsServers :
         /\ wpass[s].pc \in {"entered", "back", "record"} => wpass[s].act # "none"
         /\ wobs[s].pc = "write" => wobs[s].insp # "none"
    /\ wcan.pc = "write" => wcan.insp # "none"

\* A pass whose version is the row's is the only one, and did not decide on another row.
DecidedOnRow ==
    \A s \in WsServers : wpass[s].fresh =>
        /\ \A t \in WsServers : wpass[t].fresh => t = s
        /\ wpass[s].pc = "begin" => wpass[s].act = Decide(wrow) /\ wpass[s].pres = wrow.pres

PassInv == Typed /\ Filled /\ DecidedOnRow

\* The passes and the observations whose version a write of the row overtakes.
LEMMA OutdatedReads ==
    ASSUME Typed
    PROVE  /\ Outdated(wpass) \in [WsServers -> Passes]
           /\ Outdated(wobs) \in [WsServers -> Observes]
           /\ \A s \in WsServers :
                /\ Outdated(wpass)[s].pc = wpass[s].pc /\ Outdated(wpass)[s].act = wpass[s].act
                /\ Outdated(wpass)[s].pres = wpass[s].pres /\ Outdated(wpass)[s].out = wpass[s].out
                /\ Outdated(wpass)[s].st = wpass[s].st /\ Outdated(wpass)[s].fresh = FALSE
                /\ Outdated(wobs)[s].pc = wobs[s].pc /\ Outdated(wobs)[s].by = wobs[s].by
                /\ Outdated(wobs)[s].insp = wobs[s].insp /\ Outdated(wobs)[s].st = wobs[s].st
                /\ Outdated(wobs)[s].fresh = FALSE
<1>1. ASSUME NEW p \in Passes
      PROVE  LET q == [p EXCEPT !.fresh = FALSE] IN
             q \in Passes /\ q.pc = p.pc /\ q.act = p.act /\ q.pres = p.pres /\ q.out = p.out
             /\ q.st = p.st /\ q.fresh = FALSE
  BY DEF Passes
<1>2. ASSUME NEW p \in Observes
      PROVE  LET q == [p EXCEPT !.fresh = FALSE] IN
             q \in Observes /\ q.pc = p.pc /\ q.by = p.by /\ q.insp = p.insp /\ q.st = p.st
             /\ q.fresh = FALSE
  BY DEF Observes
<1> QED
  BY <1>1, <1>2 DEF Outdated, Typed

\* What is computed from a row.
LEMMA RowOfWorkspace ==
    ASSUME NEW w \in WRows
    PROVE  /\ DeriveBotStatus(w) \in Statuses \cup {"none"}
           /\ Decide(w) \in {"none", "provision", "teardown"}
           /\ Freed(w) \in WRows
           /\ LET f == Freed(w) IN
                /\ f.set = w.set /\ f.des = w.des /\ f.pres = w.pres /\ f.caught = w.caught
                /\ f.obs = w.obs /\ f.own = NoServer /\ f.lease = FALSE
                /\ Decide(f) = Decide(w)
BY DEF DeriveBotStatus, Decide, Freed, WRows, Statuses

\* Another server's pass or observation, which a step leaves alone or makes stale.
PassStays(t) ==
    /\ wpass'[t].pc = wpass[t].pc /\ wpass'[t].act = wpass[t].act /\ wpass'[t].pres = wpass[t].pres
    /\ wpass'[t].out = wpass[t].out /\ (wpass'[t].fresh => wpass[t].fresh)
ObserveStays(t) ==
    /\ wobs'[t].pc = wobs[t].pc /\ wobs'[t].by = wobs[t].by /\ wobs'[t].insp = wobs[t].insp
    /\ (wobs'[t].fresh => wobs[t].fresh)
OthersStay(s) == \A t \in WsServers : t # s => PassStays(t) /\ ObserveStays(t)
AllStay == \A t \in WsServers : PassStays(t) /\ ObserveStays(t)
NoneFresh == \A t \in WsServers : ~wpass'[t].fresh /\ ~wobs'[t].fresh

\* RecordIntent
LEMMA IntentShape ==
    ASSUME Typed, NEW des \in {"present", "absent"}, NEW pres \in BOOLEAN, RecordIntent(des, pres)
    PROVE  /\ Typed' /\ AllStay /\ NoneFresh
           /\ wrow'.own = wrow.own /\ wrow'.lease = wrow.lease /\ ~wrow'.caught
           /\ UNCHANGED <<wbox, wcan>>
<1> DEFINE asked == [wrow EXCEPT !.set = TRUE, !.des = des, !.pres = pres]
<1>1. wrow \in WRows /\ 0 \in 0..WsMaxAttempts
  BY WorkspaceAssumption DEF Typed
<1>2. asked \in WRows /\ asked.own = wrow.own /\ asked.lease = wrow.lease
  BY <1>1 DEF WRows
<1>3. wrow' = [asked EXCEPT !.caught = FALSE, !.att = 0]
  BY DEF RecordIntent
<1> HIDE DEF asked
<1>4. wrow' \in WRows /\ wrow'.own = wrow.own /\ wrow'.lease = wrow.lease /\ ~wrow'.caught
  BY <1>1, <1>2, <1>3 DEF WRows
<1>5. wints' \in 0..WsMaxIntents
  BY WorkspaceAssumption DEF Typed, RecordIntent
<1>6. wpass' = Outdated(wpass) /\ wobs' = Outdated(wobs) /\ UNCHANGED <<wbot, wbox, wcan>>
  BY DEF RecordIntent
<1> QED
  BY <1>4, <1>5, <1>6, OutdatedReads DEF Typed, AllStay, NoneFresh, PassStays, ObserveStays

\* CancelRemoval
LEMMA CancelShape ==
    ASSUME Typed, Filled, CancelInspect \/ CancelWrite \/ CancelTold
    PROVE  /\ Typed' /\ AllStay /\ UNCHANGED wbox
           /\ wrow'.own = wrow.own /\ wrow'.lease = wrow.lease
           /\ wcan'.pc = "write" => wcan'.insp # "none"
           /\ \/ UNCHANGED <<wrow, wpass, wobs>>
              \/ NoneFresh /\ wrow'.des = "present"
<1>1. CASE CancelInspect
  <2>1. InspectionOf(wbox) \in {"absent", "running", "stopped"}
    BY DEF Typed, Boxes, InspectionOf
  <2>2. wcan' \in Cancels /\ wcan'.insp # "none"
    BY <1>1, <2>1 DEF CancelInspect, Typed, Cancels
  <2> QED
    BY <1>1, <2>2 DEF CancelInspect, Typed, AllStay, PassStays, ObserveStays
<1>2. CASE CancelTold
  <2>1. wcan' \in Cancels /\ wcan'.pc = "idle" /\ wbot' \in Statuses
    BY <1>2 DEF CancelTold, NoCancel, Typed, Cancels
  <2> QED
    BY <1>2, <2>1 DEF CancelTold, Typed, AllStay, PassStays, ObserveStays
<1>3. CASE CancelWrite
  <2> DEFINE row == [wrow EXCEPT !.des = "present", !.pres = FALSE, !.obs = wcan.insp, !.caught = TRUE,
                                 !.ever = @ \/ wcan.insp = "running", !.att = 0]
  <2>1. /\ wcan.pc = "write" /\ wcan.insp \in {"absent", "running", "stopped"}
        /\ UNCHANGED <<wbot, wbox, wints>>
    BY <1>3 DEF CancelWrite, Filled, Typed, Cancels
  <2>2. row \in WRows /\ row.own = wrow.own /\ row.lease = wrow.lease /\ row.des = "present"
    <3> DEFINE kept == [wrow EXCEPT !.des = "present", !.pres = FALSE, !.obs = wcan.insp]
    <3>1. /\ kept \in WRows /\ kept.own = wrow.own /\ kept.lease = wrow.lease
          /\ kept.des = "present" /\ kept.ever = wrow.ever
      BY <2>1 DEF Typed, WRows, ObservedStates
    <3>2. row = [kept EXCEPT !.caught = TRUE, !.ever = wrow.ever \/ wcan.insp = "running", !.att = 0]
      OBVIOUS
    <3>3. (wrow.ever \/ wcan.insp = "running") \in BOOLEAN /\ 0 \in 0..WsMaxAttempts
      BY WorkspaceAssumption
    <3> HIDE DEF row, kept
    <3> QED
      BY <3>1, <3>2, <3>3 DEF WRows
  <2>3. CASE wrow.des = "absent" /\ wrow.obs = "failed" /\ wrow.caught
    <3>1. /\ wrow' = row /\ wcan' = [wcan EXCEPT !.pc = "told", !.st = DeriveBotStatus(row)]
          /\ wpass' = Outdated(wpass) /\ wobs' = Outdated(wobs)
      BY <1>3, <2>3 DEF CancelWrite
    <3> HIDE DEF row
    <3>2. wcan' \in Cancels /\ wcan'.pc = "told"
      BY <2>2, <3>1, RowOfWorkspace DEF Typed, Cancels
    <3> QED
      BY <2>1, <2>2, <3>1, <3>2, OutdatedReads
         DEF Typed, AllStay, NoneFresh, PassStays, ObserveStays
  <2>4. CASE ~(wrow.des = "absent" /\ wrow.obs = "failed" /\ wrow.caught)
    <3>1. wcan' = NoCancel /\ UNCHANGED <<wrow, wpass, wobs>>
      BY <1>3, <2>4 DEF CancelWrite
    <3>2. NoCancel \in Cancels /\ NoCancel.pc = "idle"
      BY DEF NoCancel, Cancels
    <3> QED
      BY <2>1, <3>1, <3>2 DEF Typed, AllStay, PassStays, ObserveStays
  <2> QED
    BY <2>3, <2>4
<1> QED
  BY <1>1, <1>2, <1>3

\* The row, but for its lease, its attempts and what it remembers of earlier containers.
RowKept ==
    /\ wrow'.set = wrow.set /\ wrow'.des = wrow.des /\ wrow'.pres = wrow.pres
    /\ wrow'.caught = wrow.caught /\ wrow'.obs = wrow.obs

\* The decision does not look at the rest.
LEMMA KeptDecides ==
    ASSUME RowKept
    PROVE  Decide(wrow') = Decide(wrow) /\ wrow'.pres = wrow.pres
BY DEF RowKept, Decide

\* ClaimBotWorkspaces and markRunning
LEMMA ClaimShape ==
    ASSUME Typed, NEW s \in WsServers, ClaimRow(s)
    PROVE  /\ Typed' /\ RowKept /\ wrow'.own = s /\ wrow'.lease /\ ~wrow.lease /\ Due(wrow)
           /\ UNCHANGED <<wbox, wcan>> /\ wobs[s].by # "loop"
           /\ \A t \in WsServers : ObserveStays(t) /\ ~wobs'[t].fresh
           /\ \A t \in WsServers : t # s => PassStays(t) /\ ~wpass'[t].fresh
           /\ \/ PassStays(s) /\ ~wpass'[s].fresh
              \/ wpass'[s].pc = "begin" /\ wpass'[s].act = Decide(wrow) /\ wpass'[s].pres = wrow.pres
<1>1. wrow \in WRows /\ wpass \in [WsServers -> Passes]
  BY DEF Typed
<1>2. wrow' \in WRows /\ RowKept /\ wrow'.own = s /\ wrow'.lease
  BY <1>1 DEF ClaimRow, RowKept, WRows
<1>3. wobs' = Outdated(wobs) /\ UNCHANGED <<wbot, wbox, wcan, wints>> /\ wobs[s].by # "loop"
      /\ ~wrow.lease /\ Due(wrow)
  BY DEF ClaimRow, Due
<1>4. CASE wpass[s].pc = "idle"
  <2> DEFINE p == [NoPass EXCEPT !.pc = "begin", !.act = Decide(wrow), !.pres = wrow.pres, !.fresh = TRUE]
  <2>1. wrow.pres \in BOOLEAN /\ Decide(wrow) \in {"none", "provision", "teardown"}
    BY <1>1, RowOfWorkspace DEF WRows
  <2>2. p \in Passes /\ p.pc = "begin" /\ p.act = Decide(wrow) /\ p.pres = wrow.pres
    BY <2>1 DEF NoPass, Passes, Statuses
  <2>3. wpass' = [Outdated(wpass) EXCEPT ![s] = p]
    BY <1>4 DEF ClaimRow
  <2> HIDE DEF p
  <2>4. wpass' \in [WsServers -> Passes] /\ wpass'[s] = p
        /\ \A t \in WsServers : t # s => PassStays(t) /\ ~wpass'[t].fresh
    BY <2>2, <2>3, OutdatedReads DEF PassStays
  <2> QED
    BY <1>2, <1>3, <2>2, <2>4, OutdatedReads DEF Typed, ObserveStays
<1>5. CASE wpass[s].pc # "idle"
  <2>1. wpass' = Outdated(wpass)
    BY <1>5 DEF ClaimRow
  <2> QED
    BY <1>2, <1>3, <2>1, OutdatedReads DEF Typed, PassStays, ObserveStays
<1> QED
  BY <1>4, <1>5

\* A step of the pass of s.
LEMMA PassMoves ==
    ASSUME Typed, NEW s \in WsServers, NEW p \in Passes, wpass' = [wpass EXCEPT ![s] = p]
    PROVE  /\ wpass' \in [WsServers -> Passes] /\ wpass'[s] = p
           /\ \A t \in WsServers : t # s => PassStays(t) /\ wpass'[t] = wpass[t]
BY DEF Typed, PassStays

\* What such a step makes of its row in wpass: it gives up, or the pass is over.
LEMMA PassRows ==
    ASSUME NEW p \in Passes
    PROVE  /\ LET q == [p EXCEPT !.pc = "release", !.fresh = FALSE] IN
                 q \in Passes /\ q.pc = "release" /\ q.act = p.act /\ q.fresh = FALSE
           /\ \A pc \in {"told", "release", "unmark"}, st \in Statuses \cup {"none"} :
                 LET q == [NoPass EXCEPT !.pc = pc, !.st = st] IN
                 q \in Passes /\ q.pc = pc /\ q.fresh = FALSE
           /\ NoPass \in Passes /\ NoPass.pc = "idle" /\ NoPass.fresh = FALSE
<1>1. LET q == [p EXCEPT !.pc = "release", !.fresh = FALSE] IN
         q \in Passes /\ q.pc = "release" /\ q.act = p.act /\ q.fresh = FALSE
  BY DEF Passes
<1>2. \A pc \in {"told", "release", "unmark"}, st \in Statuses \cup {"none"} :
         LET q == [NoPass EXCEPT !.pc = pc, !.st = st] IN
         q \in Passes /\ q.pc = pc /\ q.fresh = FALSE
  BY DEF Passes, NoPass
<1>3. NoPass \in Passes /\ NoPass.pc = "idle" /\ NoPass.fresh = FALSE
  BY DEF Passes, NoPass
<1> QED
  BY <1>1, <1>2, <1>3

\* What all the steps of a pass after its claim have in common.
PassWalks(s) ==
    /\ Typed' /\ OthersStay(s) /\ ObserveStays(s) /\ UNCHANGED wcan

\* A step of a pass that writes the row overtakes every observation.
OvertakesObserves == \A t \in WsServers : ~wobs'[t].fresh

\* reconcileOne with nothing to do
LEMMA CatchUpShape ==
    ASSUME Typed, NEW s \in WsServers, CatchUp(s)
    PROVE  /\ PassWalks(s) /\ UNCHANGED wbox
           /\ wpass[s].pc = "begin" /\ wpass[s].act = "none"
           /\ wpass'[s].pc = "release" /\ ~wpass'[s].fresh
           /\ \/ UNCHANGED <<wrow, wobs>>
              \/ /\ MayWrite(s, wpass[s]) /\ ~wrow.caught /\ OvertakesObserves
                 /\ wrow'.des = wrow.des /\ ~wrow'.lease
<1>1. wrow \in WRows /\ wpass[s] \in Passes /\ 0 \in 0..WsMaxAttempts
  BY WorkspaceAssumption DEF Typed
<1>2. /\ wpass' \in [WsServers -> Passes] /\ wpass'[s].pc = "release" /\ ~wpass'[s].fresh
      /\ \A t \in WsServers : t # s => PassStays(t) /\ wpass'[t] = wpass[t]
  <2> DEFINE p == [wpass[s] EXCEPT !.pc = "release", !.fresh = FALSE]
  <2>1. p \in Passes /\ p.pc = "release" /\ ~p.fresh
    BY <1>1, PassRows
  <2>2. wpass' = [wpass EXCEPT ![s] = p]
    BY DEF CatchUp
  <2> HIDE DEF p
  <2> QED
    BY <2>1, <2>2, PassMoves
<1>3. /\ wpass[s].pc = "begin" /\ wpass[s].act = "none" /\ UNCHANGED <<wbot, wbox, wcan, wints>>
  BY DEF CatchUp
<1>4. CASE ~wrow.caught /\ MayWrite(s, wpass[s])
  <2> DEFINE w == [wrow EXCEPT !.caught = TRUE, !.att = 0]
  <2>1. w \in WRows /\ w.des = wrow.des
    BY <1>1 DEF WRows
  <2>2. wrow' = Freed(w) /\ wobs' = Outdated(wobs)
    BY <1>4 DEF CatchUp
  <2> HIDE DEF w
  <2>3. wrow' \in WRows /\ wrow'.des = wrow.des /\ wrow'.lease = FALSE
    BY <2>1, <2>2, RowOfWorkspace
  <2> QED
    BY <1>2, <1>3, <1>4, <2>2, <2>3, OutdatedReads
       DEF PassWalks, OthersStay, ObserveStays, OvertakesObserves, Typed
<1>5. CASE ~(~wrow.caught /\ MayWrite(s, wpass[s]))
  <2>1. UNCHANGED <<wrow, wobs>>
    BY <1>5 DEF CatchUp
  <2> QED
    BY <1>2, <1>3, <2>1 DEF PassWalks, OthersStay, ObserveStays, Typed
<1> QED
  BY <1>4, <1>5

\* provision and teardown, up to the backend
LEMMA EnterShape ==
    ASSUME Typed, NEW s \in WsServers, EnterPass(s)
    PROVE  /\ PassWalks(s) /\ UNCHANGED wbox
           /\ wpass[s].pc = "begin" /\ wpass[s].act # "none"
           /\ \/ /\ UNCHANGED <<wrow, wobs>>
                 /\ wpass'[s].pc = "release" /\ ~wpass'[s].fresh
              \/ /\ MayWrite(s, wpass[s]) /\ OvertakesObserves
                 /\ wpass'[s].pc \in {"entered", "back"} /\ wpass'[s].act = wpass[s].act
                 /\ \A t \in WsServers : t # s => ~wpass'[t].fresh
                 /\ wrow'.obs \in {"provisioning", "removing"}
                 /\ wrow'.own = wrow.own /\ wrow'.lease = wrow.lease
<1>1. wrow \in WRows /\ wpass[s] \in Passes
  BY DEF Typed
<1>2. wpass[s].pc = "begin" /\ wpass[s].act # "none" /\ UNCHANGED <<wbot, wbox, wcan, wints>>
  BY DEF EnterPass
<1>3. CASE MayWrite(s, wpass[s])
  <2> DEFINE o == IF wpass[s].act = "provision" THEN "provisioning" ELSE "removing"
             w == [wrow EXCEPT !.obs = o, !.caught = TRUE]
             st == IF wpass[s].act = "provision" THEN DeriveBotStatus(w) ELSE "none"
             pc == IF wpass[s].act = "provision" THEN "entered" ELSE "back"
             p == [wpass[s] EXCEPT !.fresh = TRUE, !.pc = pc, !.st = st]
  <2>1. /\ wrow' = w /\ wobs' = Outdated(wobs)
        /\ wpass' = [Outdated(wpass) EXCEPT ![s] = p]
    BY <1>3 DEF EnterPass
  <2>2. o \in {"provisioning", "removing"} /\ pc \in {"entered", "back"}
    OBVIOUS
  <2> HIDE DEF o, pc
  <2>3. w \in WRows /\ w.obs = o /\ w.own = wrow.own /\ w.lease = wrow.lease
    BY <1>1, <2>2 DEF WRows, ObservedStates
  <2>4. st \in Statuses \cup {"none"}
    BY <2>3, RowOfWorkspace
  <2> HIDE DEF w, st
  <2>5. p \in Passes /\ p.pc = pc /\ p.act = wpass[s].act
    BY <1>1, <2>2, <2>4 DEF Passes
  <2> HIDE DEF p
  <2>6. /\ wpass' \in [WsServers -> Passes] /\ wpass'[s] = p
        /\ \A t \in WsServers : t # s => PassStays(t) /\ ~wpass'[t].fresh
    BY <2>1, <2>5, OutdatedReads DEF PassStays
  <2> QED
    BY <1>2, <1>3, <2>1, <2>2, <2>3, <2>5, <2>6, OutdatedReads
       DEF PassWalks, OthersStay, ObserveStays, OvertakesObserves, Typed
<1>4. CASE ~MayWrite(s, wpass[s])
  <2> DEFINE p == [wpass[s] EXCEPT !.pc = "release", !.fresh = FALSE]
  <2>1. p \in Passes /\ p.pc = "release" /\ ~p.fresh
    BY <1>1, PassRows
  <2>2. wpass' = [wpass EXCEPT ![s] = p] /\ UNCHANGED <<wrow, wobs>>
    BY <1>4 DEF EnterPass
  <2> HIDE DEF p
  <2> QED
    BY <1>2, <2>1, <2>2, PassMoves DEF PassWalks, OthersStay, ObserveStays, Typed
<1> QED
  BY <1>3, <1>4

\* The status is told, the backend returns, the row is no longer marked as running.
LEMMA WalkShape ==
    ASSUME Typed, NEW s \in WsServers,
           \/ TellStatus(s) \/ UnmarkRunning(s)
           \/ \E out \in {"ok", "retry", "final"}, box \in Boxes : BackendReturns(s, out, box)
    PROVE  /\ PassWalks(s) /\ UNCHANGED <<wrow, wobs>>
           /\ wpass'[s].pc # "begin" /\ (wpass'[s].fresh => wpass[s].fresh)
           /\ \/ /\ UNCHANGED wbox
                 /\ \/ wpass'[s].pc \in {"release", "idle"}
                    \/ wpass[s].pc = "entered" /\ wpass'[s].pc = "back" /\ wpass'[s].act = wpass[s].act
              \/ /\ wpass[s].pc = "back" /\ wpass'[s].pc = "record" /\ wpass'[s].act = wpass[s].act
                 /\ wpass'[s].act = "teardown" /\ wpass'[s].out = "ok" => wbox' = "none"
<1>1. wpass[s] \in Passes
  BY DEF Typed
<1>2. CASE TellStatus(s)
  <2> DEFINE pc == IF wpass[s].pc = "entered" THEN "back" ELSE "release"
             p == [wpass[s] EXCEPT !.pc = pc, !.st = "none"]
  <2>1. wpass' = [wpass EXCEPT ![s] = p]
    BY <1>2 DEF TellStatus
  <2>2. pc \in {"back", "release"} /\ (pc = "back" => wpass[s].pc = "entered")
    OBVIOUS
  <2>3. wbot' \in Statuses /\ UNCHANGED <<wrow, wbox, wobs, wcan, wints>>
    BY <1>1, <1>2 DEF TellStatus, Typed, Passes
  <2> HIDE DEF pc
  <2>4. p \in Passes /\ p.pc = pc /\ p.act = wpass[s].act /\ p.fresh = wpass[s].fresh
    BY <1>1, <2>2 DEF Passes
  <2> HIDE DEF p
  <2> QED
    BY <2>1, <2>2, <2>3, <2>4, PassMoves DEF PassWalks, OthersStay, ObserveStays, Typed
<1>3. CASE UnmarkRunning(s)
  <2>1. wpass' = [wpass EXCEPT ![s] = NoPass] /\ UNCHANGED <<wrow, wbot, wbox, wobs, wcan, wints>>
    BY <1>3 DEF UnmarkRunning
  <2>2. NoPass \in Passes /\ NoPass.pc = "idle" /\ NoPass.fresh = FALSE
    BY <1>1, PassRows
  <2> QED
    BY <2>1, <2>2, PassMoves DEF PassWalks, OthersStay, ObserveStays, Typed
<1>4. ASSUME NEW out \in {"ok", "retry", "final"}, NEW box \in Boxes, BackendReturns(s, out, box)
      PROVE  /\ PassWalks(s) /\ UNCHANGED <<wrow, wobs>>
             /\ wpass'[s].fresh => wpass[s].fresh
             /\ wpass[s].pc = "back" /\ wpass'[s].pc = "record" /\ wpass'[s].act = wpass[s].act
             /\ wpass'[s].act = "teardown" /\ wpass'[s].out = "ok" => wbox' = "none"
  <2> DEFINE p == [wpass[s] EXCEPT !.pc = "record", !.out = out]
  <2>1. /\ wpass' = [wpass EXCEPT ![s] = p] /\ wpass[s].pc = "back"
        /\ wbox' = box /\ box \in Effects(wpass[s].act, out = "ok")
        /\ UNCHANGED <<wrow, wbot, wobs, wcan, wints>>
    BY <1>4 DEF BackendReturns
  <2>2. wpass[s].act = "teardown" /\ out = "ok" => wbox' = "none"
    BY <2>1 DEF Effects
  <2>3. /\ p \in Passes /\ p.pc = "record" /\ p.act = wpass[s].act /\ p.out = out
        /\ p.fresh = wpass[s].fresh
    BY <1>1 DEF Passes
  <2> HIDE DEF p
  <2> QED
    BY <2>1, <2>2, <2>3, PassMoves DEF PassWalks, OthersStay, ObserveStays, Typed
<1> QED
  BY <1>2, <1>3, <1>4

\* The row that provision, fail and teardown record
LEMMA RecordedRow ==
    ASSUME Typed, NEW p \in Passes, p.act # "none"
    PROVE  /\ Recorded(p) \in WRows
           /\ Recorded(p).des = wrow.des /\ Recorded(p).caught = wrow.caught
           /\ Recorded(p).obs = "absent" => p.act = "teardown" /\ p.out = "ok"
<1> DEFINE att == wrow.att + 1
           again == p.out = "retry" /\ att < WsMaxAttempts
           n == IF again THEN att ELSE WsMaxAttempts
           failed == [wrow EXCEPT !.att = n]
           o == IF again \/ wbox = "none" THEN "removing" ELSE "failed"
<1>1. /\ wrow \in WRows /\ wrow.att \in 0..WsMaxAttempts /\ 0 \in 0..WsMaxAttempts
      /\ p.act \in {"provision", "teardown"}
  BY WorkspaceAssumption DEF Typed, WRows, Passes
<1>2. n \in 0..WsMaxAttempts /\ o \in {"removing", "failed"}
  BY <1>1, WorkspaceAssumption
<1>3. /\ p.out = "ok" /\ p.act = "provision" =>
            Recorded(p) = [wrow EXCEPT !.obs = "running", !.ever = TRUE, !.att = 0]
      /\ p.out = "ok" /\ p.act = "teardown" => Recorded(p) = [wrow EXCEPT !.obs = "absent", !.att = 0]
      /\ p.out # "ok" /\ p.act = "provision" => Recorded(p) = [failed EXCEPT !.obs = "failed"]
      /\ p.out # "ok" /\ p.act = "teardown" => Recorded(p) = [failed EXCEPT !.obs = o]
  BY <1>1 DEF Recorded
<1> HIDE DEF n, o
<1>4. failed \in WRows /\ failed.des = wrow.des /\ failed.caught = wrow.caught
  BY <1>1, <1>2 DEF WRows
<1> HIDE DEF failed
<1>5. CASE p.out = "ok"
  BY <1>1, <1>3, <1>5 DEF WRows, ObservedStates
<1>6. CASE p.out # "ok"
  BY <1>1, <1>2, <1>3, <1>4, <1>6 DEF WRows, ObservedStates
<1> QED
  BY <1>5, <1>6

\* provision, fail and teardown, from the backend on
LEMMA RecordShape ==
    ASSUME Typed, Filled, NEW s \in WsServers, RecordOutcome(s)
    PROVE  /\ PassWalks(s) /\ UNCHANGED wbox /\ wpass[s].pc = "record"
           /\ wpass'[s].pc \in {"told", "release"} /\ ~wpass'[s].fresh
           /\ \/ UNCHANGED <<wrow, wobs>>
              \/ /\ MayWrite(s, wpass[s]) /\ OvertakesObserves
                 /\ ~wrow'.lease
                 /\ wrow'.obs = "absent" => wpass[s].act = "teardown" /\ wpass[s].out = "ok"
<1>1. /\ wpass[s] \in Passes /\ wpass[s].pc = "record" /\ wpass[s].act # "none"
      /\ UNCHANGED <<wbot, wbox, wcan, wints>>
  BY DEF Typed, Filled, RecordOutcome
<1>2. CASE MayWrite(s, wpass[s])
  <2> DEFINE w == Recorded(wpass[s])
             st == IF wpass[s].act = "provision" THEN DeriveBotStatus(w) ELSE "none"
             p == [NoPass EXCEPT !.pc = "told", !.st = st]
  <2>1. wrow' = Freed(w) /\ wobs' = Outdated(wobs) /\ wpass' = [wpass EXCEPT ![s] = p]
    BY <1>2 DEF RecordOutcome
  <2>2. /\ w \in WRows
        /\ w.obs = "absent" => wpass[s].act = "teardown" /\ wpass[s].out = "ok"
    BY <1>1, RecordedRow
  <2> HIDE DEF w
  <2>3. st \in Statuses \cup {"none"}
    BY <2>2, RowOfWorkspace
  <2> HIDE DEF st
  <2>4. p \in Passes /\ p.pc = "told" /\ ~p.fresh
    BY <1>1, <2>3, PassRows
  <2>5. wrow' \in WRows /\ wrow'.lease = FALSE /\ wrow'.obs = w.obs
    BY <2>1, <2>2, RowOfWorkspace
  <2> HIDE DEF p
  <2> QED
    BY <1>1, <1>2, <2>1, <2>2, <2>4, <2>5, PassMoves, OutdatedReads
       DEF PassWalks, OthersStay, ObserveStays, OvertakesObserves, Typed
<1>3. CASE ~MayWrite(s, wpass[s])
  <2> DEFINE p == [NoPass EXCEPT !.pc = "release"]
  <2>1. wpass' = [wpass EXCEPT ![s] = p] /\ UNCHANGED <<wrow, wobs>>
    BY <1>3 DEF RecordOutcome
  <2>2. p \in Passes /\ p.pc = "release" /\ ~p.fresh
    BY DEF Passes, NoPass
  <2> HIDE DEF p
  <2> QED
    BY <1>1, <2>1, <2>2, PassMoves DEF PassWalks, OthersStay, ObserveStays, Typed
<1> QED
  BY <1>2, <1>3

\* ReleaseBotWorkspaceLease
LEMMA ReleasedRow ==
    ASSUME Typed, NEW s \in WsServers, wrow' = Released(s)
    PROVE  /\ wrow' \in WRows /\ RowKept
           /\ wrow.own = s => ~wrow'.lease
           /\ wrow.own # s => wrow' = wrow
BY RowOfWorkspace DEF Released, RowKept, Typed

LEMMA ReleaseShape ==
    ASSUME Typed, NEW s \in WsServers, ReleaseRow(s)
    PROVE  /\ PassWalks(s) /\ UNCHANGED <<wbox, wobs>> /\ wpass[s].pc = "release" /\ RowKept
           /\ wpass'[s].pc = "unmark" /\ ~wpass'[s].fresh
           /\ wrow.own = s => ~wrow'.lease
           /\ wrow.own # s => wrow' = wrow
<1> DEFINE p == [NoPass EXCEPT !.pc = "unmark"]
<1>1. /\ wrow' = Released(s) /\ wpass' = [wpass EXCEPT ![s] = p] /\ wpass[s].pc = "release"
      /\ UNCHANGED <<wbot, wbox, wobs, wcan, wints>>
  BY DEF ReleaseRow
<1>2. p \in Passes /\ p.pc = "unmark" /\ ~p.fresh
  BY DEF Passes, NoPass
<1> HIDE DEF p
<1> QED
  BY <1>1, <1>2, ReleasedRow, PassMoves DEF PassWalks, OthersStay, ObserveStays, Typed
-----------------------------------------------------------------------------
(* Observations *)

\* What all the steps of an observation have in common.
ObserveWalks(s) == Typed' /\ OthersStay(s) /\ PassStays(s) /\ UNCHANGED <<wbox, wcan>>

LEMMA ObserveMoves ==
    ASSUME Typed, NEW s \in WsServers, NEW p \in Observes, wobs' = [wobs EXCEPT ![s] = p]
    PROVE  /\ wobs' \in [WsServers -> Observes] /\ wobs'[s] = p
           /\ \A t \in WsServers : t # s => ObserveStays(t)
BY DEF Typed, ObserveStays

LEMMA NoObserveTyped ==
    NoObserve \in Observes /\ NoObserve.pc = "idle" /\ NoObserve.fresh = FALSE
BY DEF NoObserve, Observes

\* The steps that leave the row alone, and the release.
LEMMA ObserveWalkShape ==
    ASSUME Typed, NEW s \in WsServers,
           \/ \E by \in {"loop", "user"} : ObserveGet(s, by)
           \/ ObserveInspect(s) \/ ObserveTold(s) \/ ObserveRelease(s)
    PROVE  /\ ObserveWalks(s) /\ UNCHANGED wpass /\ RowKept
           /\ \/ /\ UNCHANGED wrow /\ wobs'[s].pc = "claim"
                 /\ wobs'[s].by = "loop" \/ "observe" \in WsUsers
              \/ /\ UNCHANGED wrow /\ wobs[s].pc = "inspect" /\ wobs'[s].pc \in {"write", "release"}
                 /\ wobs'[s].by = wobs[s].by /\ wobs'[s].insp = InspectionOf(wbox)
                 /\ wobs'[s].fresh => wobs[s].fresh
              \/ /\ UNCHANGED wrow /\ wobs[s].pc = "told" /\ wobs'[s].pc = "release"
                 /\ wobs'[s].by = wobs[s].by
              \/ /\ wobs[s].pc = "release" /\ wobs'[s].pc = "idle"
                 /\ wrow.own = s => ~wrow'.lease
                 /\ wrow.own # s => wrow' = wrow
<1>1. wobs[s] \in Observes
  BY DEF Typed
<1>2. ASSUME NEW by \in {"loop", "user"}, ObserveGet(s, by)
      PROVE  /\ ObserveWalks(s) /\ UNCHANGED <<wrow, wpass>> /\ wobs'[s].pc = "claim"
             /\ wobs'[s].by = "loop" \/ "observe" \in WsUsers
  <2> DEFINE p == [wobs[s] EXCEPT !.pc = "claim", !.by = by]
  <2>1. /\ wobs' = [wobs EXCEPT ![s] = p] /\ (by = "loop" \/ "observe" \in WsUsers)
        /\ UNCHANGED <<wrow, wbot, wbox, wpass, wcan, wints>>
    BY <1>2 DEF ObserveGet
  <2>2. p \in Observes /\ p.pc = "claim" /\ p.by = by
    BY <1>1 DEF Observes
  <2> HIDE DEF p
  <2> QED
    BY <2>1, <2>2, ObserveMoves DEF ObserveWalks, OthersStay, PassStays, Typed
<1>3. CASE ObserveInspect(s)
  <2> DEFINE pc == IF wobs[s].fresh /\ InspectionOf(wbox) = wrow.obs THEN "release" ELSE "write"
             p == [wobs[s] EXCEPT !.insp = InspectionOf(wbox), !.pc = pc]
  <2>1. /\ wobs' = [wobs EXCEPT ![s] = p] /\ wobs[s].pc = "inspect"
        /\ UNCHANGED <<wrow, wbot, wbox, wpass, wcan, wints>>
    BY <1>3 DEF ObserveInspect
  <2>2. pc \in {"release", "write"} /\ InspectionOf(wbox) \in {"absent", "running", "stopped"}
    BY DEF Typed, Boxes, InspectionOf
  <2> HIDE DEF pc
  <2>3. /\ p \in Observes /\ p.pc = pc /\ p.by = wobs[s].by /\ p.insp = InspectionOf(wbox)
        /\ p.fresh = wobs[s].fresh
    BY <1>1, <2>2 DEF Observes
  <2> HIDE DEF p
  <2> QED
    BY <2>1, <2>2, <2>3, ObserveMoves DEF ObserveWalks, OthersStay, PassStays, RowKept, Typed
<1>4. CASE ObserveTold(s)
  <2> DEFINE p == [wobs[s] EXCEPT !.pc = "release", !.st = "none"]
  <2>1. /\ wobs' = [wobs EXCEPT ![s] = p] /\ wobs[s].pc = "told" /\ wbot' \in Statuses
        /\ UNCHANGED <<wrow, wbox, wpass, wcan, wints>>
    BY <1>1, <1>4 DEF ObserveTold, Typed, Observes
  <2>2. p \in Observes /\ p.pc = "release" /\ p.by = wobs[s].by
    BY <1>1 DEF Observes
  <2> HIDE DEF p
  <2> QED
    BY <2>1, <2>2, ObserveMoves DEF ObserveWalks, OthersStay, PassStays, RowKept, Typed
<1>5. CASE ObserveRelease(s)
  <2>1. /\ wobs' = [wobs EXCEPT ![s] = NoObserve] /\ wobs[s].pc = "release" /\ wrow' = Released(s)
        /\ UNCHANGED <<wbot, wbox, wpass, wcan, wints>>
    BY <1>5 DEF ObserveRelease
  <2> QED
    BY <2>1, NoObserveTyped, ReleasedRow, ObserveMoves DEF ObserveWalks, OthersStay, PassStays, Typed
<1> QED
  BY <1>2, <1>3, <1>4, <1>5 DEF RowKept

\* ClaimBotWorkspace
LEMMA ObserveClaimShape ==
    ASSUME Typed, NEW s \in WsServers, ObserveClaim(s)
    PROVE  /\ ObserveWalks(s) /\ RowKept /\ wobs[s].pc = "claim"
           /\ \/ UNCHANGED <<wrow, wpass>> /\ wobs'[s].pc = "idle"
              \/ /\ ~wrow.lease /\ wrow'.own = s /\ wrow'.lease
                 /\ wobs'[s].pc \in {"inspect", "release"} /\ wobs'[s].by = wobs[s].by
                 /\ \A t \in WsServers : ~wpass'[t].fresh /\ (t # s => ~wobs'[t].fresh)
<1>1. wobs[s] \in Observes /\ wrow \in WRows
  BY DEF Typed
<1>2. wobs[s].pc = "claim" /\ UNCHANGED <<wbot, wbox, wcan, wints>>
  BY DEF ObserveClaim
<1>3. CASE wrow.lease
  <2>1. wobs' = [wobs EXCEPT ![s] = NoObserve] /\ UNCHANGED <<wrow, wpass>>
    BY <1>3 DEF ObserveClaim
  <2> QED
    BY <1>2, <2>1, NoObserveTyped, ObserveMoves DEF ObserveWalks, OthersStay, PassStays, RowKept, Typed
<1>4. CASE ~wrow.lease
  <2> DEFINE pc == IF wrow.obs \in {"provisioning", "removing"} THEN "release" ELSE "inspect"
             p == [wobs[s] EXCEPT !.fresh = TRUE, !.pc = pc]
  <2>1. /\ wrow' = [wrow EXCEPT !.own = s, !.lease = TRUE]
        /\ wobs' = [Outdated(wobs) EXCEPT ![s] = p] /\ wpass' = Outdated(wpass)
    BY <1>4 DEF ObserveClaim
  <2>2. pc \in {"inspect", "release"}
    OBVIOUS
  <2>3. wrow' \in WRows /\ RowKept /\ wrow'.own = s /\ wrow'.lease
    BY <1>1, <2>1 DEF WRows, RowKept
  <2> HIDE DEF pc
  <2>4. p \in Observes /\ p.pc = pc /\ p.by = wobs[s].by
    BY <1>1, <2>2 DEF Observes
  <2> HIDE DEF p
  <2>5. /\ wobs' \in [WsServers -> Observes] /\ wobs'[s] = p
        /\ \A t \in WsServers : t # s => ObserveStays(t) /\ ~wobs'[t].fresh
    BY <2>1, <2>4, OutdatedReads DEF ObserveStays
  <2> QED
    BY <1>2, <1>4, <2>1, <2>2, <2>3, <2>4, <2>5, OutdatedReads
       DEF ObserveWalks, OthersStay, PassStays, Typed
<1> QED
  BY <1>3, <1>4

\* The write of what was observed
LEMMA ObserveWriteShape ==
    ASSUME Typed, Filled, NEW s \in WsServers, ObserveWrite(s)
    PROVE  /\ ObserveWalks(s) /\ wobs[s].pc = "write"
           /\ wobs'[s].pc \in {"told", "release"} /\ wobs'[s].by = wobs[s].by
           /\ \/ UNCHANGED <<wrow, wpass>>
              \/ /\ MayWrite(s, wobs[s]) /\ ~wrow'.lease /\ NoneFresh
                 /\ wrow'.obs = wobs[s].insp
<1>1. /\ wobs[s] \in Observes /\ wrow \in WRows /\ 0 \in 0..WsMaxAttempts
      /\ wobs[s].pc = "write" /\ wobs[s].insp \in {"absent", "running", "stopped"}
      /\ UNCHANGED <<wbot, wbox, wcan, wints>>
  BY WorkspaceAssumption DEF Typed, Filled, Observes, ObserveWrite
<1>2. CASE MayWrite(s, wobs[s])
  <2> DEFINE ever == wrow.ever \/ wobs[s].insp = "running"
             w == [wrow EXCEPT !.obs = wobs[s].insp, !.ever = ever, !.att = 0]
             st == DeriveBotStatus(w)
             p == [NoObserve EXCEPT !.pc = "told", !.by = wobs[s].by, !.st = st]
  <2>1. /\ wrow' = Freed(w) /\ wpass' = Outdated(wpass)
        /\ wobs' = [Outdated(wobs) EXCEPT ![s] = p]
    BY <1>2 DEF ObserveWrite
  <2>2. ever \in BOOLEAN
    OBVIOUS
  <2> HIDE DEF ever
  <2>3. w \in WRows /\ w.obs = wobs[s].insp
    BY <1>1, <2>2 DEF WRows, ObservedStates
  <2> HIDE DEF w
  <2>4. st \in Statuses \cup {"none"} /\ wrow' \in WRows /\ wrow'.lease = FALSE /\ wrow'.obs = w.obs
    BY <2>1, <2>3, RowOfWorkspace
  <2> HIDE DEF st
  <2>5. p \in Observes /\ p.pc = "told" /\ p.by = wobs[s].by /\ ~p.fresh
    BY <1>1, <2>4 DEF Observes, NoObserve
  <2> HIDE DEF p
  <2>6. /\ wobs' \in [WsServers -> Observes] /\ wobs'[s] = p
        /\ \A t \in WsServers : t # s => ObserveStays(t) /\ ~wobs'[t].fresh
    BY <2>1, <2>5, OutdatedReads DEF ObserveStays
  <2> QED
    BY <1>1, <1>2, <2>1, <2>3, <2>4, <2>5, <2>6, OutdatedReads
       DEF ObserveWalks, OthersStay, PassStays, NoneFresh, Typed
<1>3. CASE ~MayWrite(s, wobs[s])
  <2> DEFINE p == [NoObserve EXCEPT !.pc = "release", !.by = wobs[s].by]
  <2>1. wobs' = [wobs EXCEPT ![s] = p] /\ UNCHANGED <<wrow, wpass>>
    BY <1>3 DEF ObserveWrite
  <2>2. p \in Observes /\ p.pc = "release" /\ p.by = wobs[s].by
    BY <1>1 DEF Observes, NoObserve
  <2> HIDE DEF p
  <2> QED
    BY <1>1, <2>1, <2>2, ObserveMoves DEF ObserveWalks, OthersStay, PassStays, Typed
<1> QED
  BY <1>2, <1>3
-----------------------------------------------------------------------------
(* Users, faults and time *)

\* A server dies: its pass and its observation with it.
LEMMA CrashShape ==
    ASSUME Typed, NEW s \in WsServers, NEW box \in Boxes, CrashServer(s, box)
    PROVE  /\ Typed' /\ OthersStay(s) /\ UNCHANGED <<wrow, wcan>>
           /\ wpass'[s].pc = "idle" /\ ~wpass'[s].fresh
           /\ wobs'[s].pc = "idle" /\ ~wobs'[s].fresh
           /\ wbox' # wbox => wpass[s].pc = "back"
<1>1. /\ wpass' = [wpass EXCEPT ![s] = NoPass] /\ wobs' = [wobs EXCEPT ![s] = NoObserve]
      /\ wbox' = box /\ (wpass[s].pc # "back" => box \in {wbox})
      /\ UNCHANGED <<wrow, wbot, wcan, wints>>
  BY DEF CrashServer
<1>2. NoPass \in Passes /\ NoPass.pc = "idle" /\ NoPass.fresh = FALSE
  BY DEF NoPass, Passes
<1> QED
  BY <1>1, <1>2, NoObserveTyped, PassMoves, ObserveMoves DEF OthersStay, Typed

LEMMA TouchShape ==
    ASSUME Typed, NEW box \in Boxes, TouchContainer(box)
    PROVE  Typed' /\ wbox # "none" /\ UNCHANGED <<wrow, wpass, wobs, wcan>>
BY DEF TouchContainer, Typed

LEMMA LeaseShape ==
    ASSUME Typed, LeasePasses
    PROVE  /\ Typed' /\ RowKept /\ wrow.lease /\ ~wrow'.lease
           /\ UNCHANGED <<wbox, wpass, wobs, wcan>>
           /\ wpass[wrow.own].pc \notin {"begin", "entered", "back", "record"}
<1>1. wrow \in WRows /\ wrow' = [wrow EXCEPT !.lease = FALSE]
  BY DEF LeasePasses, Typed
<1>2. wrow' \in WRows /\ RowKept /\ ~wrow'.lease
  BY <1>1 DEF WRows, RowKept
<1> QED
  BY <1>2 DEF LeasePasses, Typed
-----------------------------------------------------------------------------
(* The backend works on the latest intent. *)

LEMMA InitPassInv == WorkspaceInit => PassInv
<1> SUFFICES ASSUME WorkspaceInit PROVE PassInv
  OBVIOUS
<1>1. NoPass \in Passes /\ NoPass.pc = "idle" /\ NoPass.fresh = FALSE
  BY DEF NoPass, Passes
<1>2. NoCancel \in Cancels /\ NoCancel.pc = "idle"
  BY DEF NoCancel, Cancels
<1>3. wrow \in WRows
  BY WorkspaceAssumption DEF WorkspaceInit, WRows, ObservedStates
<1>4. /\ wbot \in Statuses /\ wbox \in Boxes /\ wints \in 0..WsMaxIntents
      /\ wpass = [s \in WsServers |-> NoPass] /\ wobs = [s \in WsServers |-> NoObserve]
      /\ wcan = NoCancel
  BY WorkspaceAssumption DEF WorkspaceInit, Statuses, Boxes
<1> QED
  BY <1>1, <1>2, <1>3, <1>4, NoObserveTyped DEF PassInv, Typed, Filled, DecidedOnRow

\* Nobody learns of the row, and those who know it keep what they decided on.
LEMMA StaysDecided ==
    ASSUME DecidedOnRow, Decide(wrow') = Decide(wrow), wrow'.pres = wrow.pres,
           \A t \in WsServers : wpass'[t].fresh =>
               /\ wpass[t].fresh
               /\ \/ wpass'[t].pc # "begin"
                  \/ wpass[t].pc = "begin" /\ wpass'[t].act = wpass[t].act /\ wpass'[t].pres = wpass[t].pres
    PROVE  DecidedOnRow'
BY DEF DecidedOnRow, Decide

\* One pass has the row to itself.
LEMMA OneDecides ==
    ASSUME NEW s \in WsServers, \A t \in WsServers : t # s => ~wpass'[t].fresh,
           wpass'[s].fresh /\ wpass'[s].pc = "begin" =>
               wpass'[s].act = Decide(wrow') /\ wpass'[s].pres = wrow'.pres
    PROVE  DecidedOnRow'
BY DEF DecidedOnRow, Decide

\* A pass goes to work only on the row it decided on.
WorksOnRow ==
    \A s \in WsServers : wpass[s].pc = "begin" /\ wpass'[s].pc \in {"entered", "back"} =>
        wpass[s].fresh /\ wpass[s].act # "none"

\* A step of a pass writes only the row it knows, and overtakes the others.
LEMMA PassStepKeeps ==
    ASSUME PassInv, NEW s \in WsServers, PassStep(s)
    PROVE  PassInv' /\ WorksOnRow
<1>1. Typed /\ Filled /\ DecidedOnRow
  BY DEF PassInv
<1>2. CASE ClaimRow(s)
  <2>1. /\ Typed' /\ RowKept /\ UNCHANGED wcan
        /\ \A t \in WsServers : ObserveStays(t)
        /\ \A t \in WsServers : t # s => PassStays(t) /\ ~wpass'[t].fresh
        /\ \/ PassStays(s) /\ ~wpass'[s].fresh
           \/ wpass'[s].pc = "begin" /\ wpass'[s].act = Decide(wrow) /\ wpass'[s].pres = wrow.pres
    BY <1>1, <1>2, ClaimShape
  <2>2. DecidedOnRow'
    BY <2>1, KeptDecides, OneDecides
  <2>3. Filled' /\ WorksOnRow
    BY <1>1, <2>1 DEF Filled, WorksOnRow, PassStays, ObserveStays
  <2> QED
    BY <2>1, <2>2, <2>3 DEF PassInv
<1>3. CASE CatchUp(s)
  <2>1. /\ PassWalks(s) /\ wpass'[s].pc = "release" /\ ~wpass'[s].fresh
        /\ UNCHANGED wrow \/ MayWrite(s, wpass[s])
    BY <1>1, <1>3, CatchUpShape
  <2>2. DecidedOnRow'
    <3>1. CASE UNCHANGED wrow
      BY <1>1, <2>1, <3>1, StaysDecided DEF PassWalks, OthersStay, PassStays
    <3>2. CASE MayWrite(s, wpass[s])
      BY <1>1, <2>1, <3>2, OneDecides DEF PassWalks, OthersStay, PassStays, DecidedOnRow, MayWrite
    <3> QED
      BY <2>1, <3>1, <3>2
  <2> QED
    BY <1>1, <2>1, <2>2 DEF PassInv, Filled, WorksOnRow, PassWalks, OthersStay, PassStays, ObserveStays
<1>4. CASE EnterPass(s)
  <2>1. /\ PassWalks(s) /\ wpass[s].pc = "begin" /\ wpass[s].act # "none"
        /\ \/ UNCHANGED wrow /\ wpass'[s].pc = "release" /\ ~wpass'[s].fresh
           \/ /\ MayWrite(s, wpass[s]) /\ wpass'[s].pc \in {"entered", "back"}
              /\ wpass'[s].act = wpass[s].act
              /\ \A t \in WsServers : t # s => ~wpass'[t].fresh
    BY <1>1, <1>4, EnterShape
  <2>2. DecidedOnRow'
    <3>1. CASE UNCHANGED wrow /\ ~wpass'[s].fresh
      BY <1>1, <2>1, <3>1, StaysDecided DEF PassWalks, OthersStay, PassStays
    <3>2. CASE wpass'[s].pc # "begin" /\ \A t \in WsServers : t # s => ~wpass'[t].fresh
      BY <3>2, OneDecides
    <3> QED
      BY <2>1, <3>1, <3>2
  <2> QED
    BY <1>1, <2>1, <2>2
       DEF PassInv, Filled, WorksOnRow, PassWalks, OthersStay, PassStays, ObserveStays, MayWrite
<1>5. CASE \/ TellStatus(s) \/ UnmarkRunning(s)
           \/ \E out \in {"ok", "retry", "final"}, box \in Boxes : BackendReturns(s, out, box)
  <2>1. /\ PassWalks(s) /\ UNCHANGED wrow
        /\ wpass'[s].pc # "begin" /\ (wpass'[s].fresh => wpass[s].fresh)
        /\ \/ wpass'[s].pc \in {"release", "idle"}
           \/ wpass[s].pc \in {"entered", "back"} /\ wpass'[s].act = wpass[s].act
    BY <1>1, <1>5, WalkShape
  <2>2. DecidedOnRow'
    BY <1>1, <2>1, StaysDecided DEF PassWalks, OthersStay, PassStays
  <2> QED
    BY <1>1, <2>1, <2>2 DEF PassInv, Filled, WorksOnRow, PassWalks, OthersStay, PassStays, ObserveStays
<1>6. CASE RecordOutcome(s)
  <2>1. /\ PassWalks(s) /\ wpass'[s].pc \in {"told", "release"} /\ ~wpass'[s].fresh
        /\ UNCHANGED wrow \/ MayWrite(s, wpass[s])
    BY <1>1, <1>6, RecordShape
  <2>2. DecidedOnRow'
    <3>1. CASE UNCHANGED wrow
      BY <1>1, <2>1, <3>1, StaysDecided DEF PassWalks, OthersStay, PassStays
    <3>2. CASE MayWrite(s, wpass[s])
      BY <1>1, <2>1, <3>2, OneDecides DEF PassWalks, OthersStay, PassStays, DecidedOnRow, MayWrite
    <3> QED
      BY <2>1, <3>1, <3>2
  <2> QED
    BY <1>1, <2>1, <2>2 DEF PassInv, Filled, WorksOnRow, PassWalks, OthersStay, PassStays, ObserveStays
<1>7. CASE ReleaseRow(s)
  <2>1. PassWalks(s) /\ RowKept /\ wpass'[s].pc = "unmark" /\ ~wpass'[s].fresh
    BY <1>1, <1>7, ReleaseShape
  <2>2. DecidedOnRow'
    BY <1>1, <2>1, KeptDecides, StaysDecided DEF PassWalks, OthersStay, PassStays
  <2> QED
    BY <1>1, <2>1, <2>2 DEF PassInv, Filled, WorksOnRow, PassWalks, OthersStay, PassStays, ObserveStays
<1> QED
  BY <1>2, <1>3, <1>4, <1>5, <1>6, <1>7 DEF PassStep

\* So does a step of an observation.
LEMMA ObserveStepKeeps ==
    ASSUME PassInv, NEW s \in WsServers, ObserveStep(s)
    PROVE  PassInv' /\ WorksOnRow
<1>1. Typed /\ Filled /\ DecidedOnRow
  BY DEF PassInv
<1>2. /\ ObserveWalks(s) /\ (wobs'[s].pc = "write" => wobs'[s].insp # "none")
      /\ \/ RowKept
         \/ \A t \in WsServers : ~wpass'[t].fresh
  <2>1. CASE \/ \E by \in {"loop", "user"} : ObserveGet(s, by)
             \/ ObserveInspect(s) \/ ObserveTold(s) \/ ObserveRelease(s)
    <3>1. InspectionOf(wbox) # "none"
      BY DEF InspectionOf
    <3> QED
      BY <1>1, <2>1, <3>1, ObserveWalkShape
  <2>2. CASE ObserveClaim(s)
    BY <1>1, <2>2, ObserveClaimShape
  <2>3. CASE ObserveWrite(s)
    BY <1>1, <2>3, ObserveWriteShape DEF NoneFresh, RowKept
  <2> QED
    BY <2>1, <2>2, <2>3 DEF ObserveStep
<1>3. DecidedOnRow'
  <2>1. CASE RowKept
    BY <1>1, <1>2, <2>1, KeptDecides, StaysDecided DEF ObserveWalks, OthersStay, PassStays
  <2>2. CASE \A t \in WsServers : ~wpass'[t].fresh
    BY <2>2 DEF DecidedOnRow
  <2> QED
    BY <1>2, <2>1, <2>2
<1> QED
  BY <1>1, <1>2, <1>3 DEF PassInv, Filled, WorksOnRow, ObserveWalks, OthersStay, PassStays, ObserveStays

\* Every step keeps what the passes know of the row.
LEMMA NextPassInv ==
    ASSUME PassInv, [WorkspaceNext]_wvars
    PROVE  PassInv' /\ WorksOnRow
<1>1. Typed /\ Filled /\ DecidedOnRow
  BY DEF PassInv
<1>2. CASE UNCHANGED wvars
  <2>1. UNCHANGED <<wrow, wbot, wbox, wpass, wobs, wcan, wints>>
    BY <1>2 DEF wvars
  <2> QED
    BY <1>1, <2>1 DEF PassInv, Typed, Filled, DecidedOnRow, WorksOnRow
<1>3. ASSUME NEW des \in {"present", "absent"}, NEW pres \in BOOLEAN, RecordIntent(des, pres)
      PROVE  PassInv' /\ WorksOnRow
  <2>1. Typed' /\ AllStay /\ NoneFresh /\ UNCHANGED wcan
    BY <1>1, <1>3, IntentShape
  <2> QED
    BY <1>1, <2>1 DEF PassInv, Filled, DecidedOnRow, WorksOnRow, AllStay, NoneFresh, PassStays, ObserveStays
<1>4. CASE CancelInspect \/ CancelWrite \/ CancelTold
  <2>1. /\ Typed' /\ AllStay /\ (wcan'.pc = "write" => wcan'.insp # "none")
        /\ UNCHANGED wrow \/ NoneFresh
    BY <1>1, <1>4, CancelShape
  <2>2. DecidedOnRow'
    <3>1. CASE UNCHANGED wrow
      BY <1>1, <2>1, <3>1, StaysDecided DEF AllStay, PassStays
    <3>2. CASE NoneFresh
      BY <3>2 DEF NoneFresh, DecidedOnRow
    <3> QED
      BY <2>1, <3>1, <3>2
  <2> QED
    BY <1>1, <2>1, <2>2 DEF PassInv, Filled, WorksOnRow, AllStay, PassStays, ObserveStays
<1>5. ASSUME NEW s \in WsServers, PassStep(s) \/ ObserveStep(s) PROVE PassInv' /\ WorksOnRow
  BY <1>5, PassStepKeeps, ObserveStepKeeps
<1>6. ASSUME NEW box \in Boxes, TouchContainer(box) PROVE PassInv' /\ WorksOnRow
  <2>1. Typed' /\ UNCHANGED <<wrow, wpass, wobs, wcan>>
    BY <1>1, <1>6, TouchShape
  <2> QED
    BY <1>1, <2>1 DEF PassInv, Filled, DecidedOnRow, WorksOnRow
<1>7. ASSUME NEW s \in WsServers, NEW box \in Boxes, CrashServer(s, box) PROVE PassInv' /\ WorksOnRow
  <2>1. /\ Typed' /\ OthersStay(s) /\ UNCHANGED <<wrow, wcan>>
        /\ wpass'[s].pc = "idle" /\ ~wpass'[s].fresh /\ wobs'[s].pc = "idle"
    BY <1>1, <1>7, CrashShape
  <2>2. DecidedOnRow'
    BY <1>1, <2>1, StaysDecided DEF OthersStay, PassStays
  <2> QED
    BY <1>1, <2>1, <2>2 DEF PassInv, Filled, WorksOnRow, OthersStay, PassStays, ObserveStays
<1>8. CASE LeasePasses
  <2>1. Typed' /\ RowKept /\ UNCHANGED <<wpass, wobs, wcan>>
    BY <1>1, <1>8, LeaseShape
  <2>2. DecidedOnRow'
    BY <1>1, <2>1, KeptDecides, StaysDecided
  <2> QED
    BY <1>1, <2>1, <2>2 DEF PassInv, Filled, WorksOnRow
<1> QED
  BY <1>2, <1>3, <1>4, <1>5, <1>6, <1>7, <1>8 DEF WorkspaceNext

\* The backend is never set to work on an intent that was replaced: no container is removed
\* and no data dropped for a wish that is no longer there (provision, teardown and the
\* version that UpdateBotWorkspaceObserved compares).
THEOREM IntentTheorem == WorkspaceSpec => IntentIsCurrent
<1> DEFINE A == \A s \in WsServers :
         wpass[s].pc = "begin" /\ wpass'[s].pc \in {"entered", "back"}
           => /\ wpass[s].act = IF wrow.des = "absent" THEN "teardown" ELSE "provision"
              /\ wpass[s].act = "teardown" => wpass[s].pres = wrow.pres
<1>1. WorkspaceInit => PassInv
  BY InitPassInv
<1>2. PassInv /\ [WorkspaceNext]_wvars => PassInv'
  BY NextPassInv
<1>3. PassInv /\ [WorkspaceNext]_wvars => [A]_wvars
  <2> SUFFICES ASSUME PassInv, [WorkspaceNext]_wvars PROVE A
    OBVIOUS
  <2>1. WorksOnRow /\ DecidedOnRow
    BY NextPassInv DEF PassInv
  <2> QED
    BY <2>1 DEF WorksOnRow, DecidedOnRow, Decide
<1> QED
  BY <1>1, <1>2, <1>3, PTL DEF WorkspaceSpec, IntentIsCurrent
-----------------------------------------------------------------------------
(* One instance drives, and an answered removal has left nothing. *)

Working(s) == wpass[s].pc \in {"begin", "entered", "back", "record"}
Observing(s) == wobs[s].pc \in {"inspect", "write", "told", "release"}

\* Whoever works on the workspace has the lease.
LeaseHeld == \A s \in WsServers : Working(s) => wrow.own = s /\ wrow.lease

\* Only the loops observe, a server does not observe beside its own pass, and what was
\* read under a claim that still counts was read beside no pass at all.
ObserversApart ==
    \A s \in WsServers :
        /\ wobs[s].pc # "idle" => wobs[s].by = "loop"
        /\ Observing(s) => ~Working(s)
        /\ wobs[s].fresh /\ wobs[s].pc \in {"inspect", "write"} => \A t \in WsServers : ~Working(t)

\* Whoever is about to write that there is no container is right.
BoxGone ==
    \A s \in WsServers :
        /\ wpass[s].pc = "record" /\ wpass[s].act = "teardown" /\ wpass[s].out = "ok" => wbox = "none"
        /\ wobs[s].pc = "write" /\ wobs[s].fresh /\ wobs[s].insp = "absent" => wbox = "none"

\* Once a removal is answered, nobody works.
Answered == wrow.set /\ wrow.des = "absent" /\ wrow.caught /\ wrow.obs = "absent"
AnsweredRests == Answered => wbox = "none" /\ \A s \in WsServers : ~Working(s)

LeaseInv == LeaseHeld /\ ObserversApart /\ BoxGone /\ AnsweredRests

LEMMA InitLeaseInv == WorkspaceInit => LeaseInv
BY NoObserveTyped
   DEF WorkspaceInit, LeaseInv, LeaseHeld, ObserversApart, BoxGone, AnsweredRests, Answered,
       Working, Observing, NoPass

\* Who works is the only one.
LEMMA OneWorks ==
    ASSUME LeaseHeld, NEW s \in WsServers, Working(s)
    PROVE  wrow.own = s /\ wrow.lease /\ \A t \in WsServers : Working(t) => t = s
BY DEF LeaseHeld

\* A pass works under its lease and leaves nothing behind when it says so.
LEMMA PassStepKeepsLease ==
    ASSUME PassInv, LeaseInv, NEW s \in WsServers, PassStep(s)
    PROVE  LeaseInv'
<1> USE DEF LeaseInv
<1>1. Typed /\ Filled /\ DecidedOnRow
  BY DEF PassInv
<1>2. CASE ClaimRow(s)
  <2>1. /\ RowKept /\ wrow'.own = s /\ wrow'.lease /\ ~wrow.lease /\ Due(wrow)
        /\ UNCHANGED wbox /\ wobs[s].by # "loop"
        /\ \A t \in WsServers : ObserveStays(t) /\ ~wobs'[t].fresh
        /\ \A t \in WsServers : t # s => PassStays(t)
        /\ PassStays(s) \/ wpass'[s].pc = "begin"
    BY <1>1, <1>2, ClaimShape
  <2>2. \A t \in WsServers : ~Working(t)
    BY <2>1 DEF LeaseHeld
  <2>3. \A t \in WsServers : wpass'[t].pc # "record" /\ (t # s => ~(Working(t))')
    BY <2>1, <2>2 DEF PassStays, Working
  <2>4. LeaseHeld' /\ BoxGone'
    BY <2>1, <2>3 DEF LeaseHeld, BoxGone
  <2>5. ObserversApart'
    BY <2>1, <2>3 DEF ObserversApart, Observing, ObserveStays
  <2>6. ~Answered'
    BY <2>1 DEF Answered, RowKept, Due
  <2> QED
    BY <2>4, <2>5, <2>6 DEF AnsweredRests
<1>3. ASSUME PassWalks(s), Working(s), ~(Working(s))', UNCHANGED wbox,
             UNCHANGED wrow \/ ~Answered' \/ wbox' = "none"
      PROVE  LeaseInv'
  <2>1. \A t \in WsServers : ~(Working(t))'
    BY <1>3, OneWorks DEF PassWalks, OthersStay, PassStays, Working
  <2>2. LeaseHeld'
    BY <2>1 DEF LeaseHeld
  <2>3. ObserversApart'
    BY <1>3, <2>1 DEF PassWalks, OthersStay, ObserveStays, ObserversApart, Observing
  <2>4. BoxGone'
    BY <1>3, <2>1 DEF PassWalks, OthersStay, ObserveStays, BoxGone, Working
  <2>5. AnsweredRests'
    BY <1>3, <2>1 DEF AnsweredRests, Answered
  <2> QED
    BY <2>2, <2>3, <2>4, <2>5
<1>4. CASE CatchUp(s)
  <2>1. /\ PassWalks(s) /\ UNCHANGED wbox /\ wpass[s].pc = "begin" /\ wpass[s].act = "none"
        /\ wpass'[s].pc = "release"
        /\ \/ UNCHANGED wrow
           \/ MayWrite(s, wpass[s]) /\ ~wrow.caught /\ wrow'.des = wrow.des
    BY <1>1, <1>4, CatchUpShape
  <2>2. UNCHANGED wrow \/ ~Answered'
    BY <1>1, <2>1 DEF DecidedOnRow, MayWrite, Decide, Answered
  <2> QED
    BY <1>3, <2>1, <2>2 DEF Working
<1>5. CASE EnterPass(s)
  <2>1. /\ PassWalks(s) /\ UNCHANGED wbox /\ wpass[s].pc = "begin"
        /\ \/ UNCHANGED wrow /\ wpass'[s].pc = "release"
           \/ /\ OvertakesObserves /\ wpass'[s].pc \in {"entered", "back"}
              /\ wrow'.obs \in {"provisioning", "removing"}
              /\ wrow'.own = wrow.own /\ wrow'.lease = wrow.lease
    BY <1>1, <1>5, EnterShape
  <2>2. CASE UNCHANGED wrow /\ wpass'[s].pc = "release"
    BY <1>3, <2>1, <2>2 DEF Working
  <2>3. CASE /\ OvertakesObserves /\ wpass'[s].pc \in {"entered", "back"}
             /\ wrow'.obs \in {"provisioning", "removing"}
             /\ wrow'.own = wrow.own /\ wrow'.lease = wrow.lease
    <3>1. Working(s) /\ \A t \in WsServers : Working(t) => t = s
      BY <2>1, OneWorks DEF Working
    <3>2. \A t \in WsServers : wpass'[t].pc # "record" /\ (t # s => ~(Working(t))')
      BY <2>1, <2>3, <3>1 DEF PassWalks, OthersStay, PassStays, Working
    <3>3. LeaseHeld' /\ BoxGone'
      BY <2>3, <3>1, <3>2 DEF LeaseHeld, BoxGone, OvertakesObserves
    <3>4. ObserversApart'
      BY <2>1, <2>3, <3>1, <3>2
         DEF ObserversApart, Observing, OvertakesObserves, PassWalks, OthersStay, ObserveStays
    <3>5. AnsweredRests'
      BY <2>3 DEF AnsweredRests, Answered
    <3> QED
      BY <3>3, <3>4, <3>5
  <2> QED
    BY <2>1, <2>2, <2>3
<1>6. CASE \/ TellStatus(s) \/ UnmarkRunning(s)
           \/ \E out \in {"ok", "retry", "final"}, box \in Boxes : BackendReturns(s, out, box)
  <2>1. /\ PassWalks(s) /\ UNCHANGED <<wrow, wobs>>
        /\ wpass'[s].pc # "begin"
        /\ \/ /\ UNCHANGED wbox
              /\ \/ wpass'[s].pc \in {"release", "idle"}
                 \/ wpass[s].pc = "entered" /\ wpass'[s].pc = "back"
           \/ /\ wpass[s].pc = "back" /\ wpass'[s].pc = "record"
              /\ wpass'[s].act = "teardown" /\ wpass'[s].out = "ok" => wbox' = "none"
    BY <1>1, <1>6, WalkShape
  <2>2. \A t \in WsServers : (Working(t))' => Working(t)
    BY <2>1 DEF PassWalks, OthersStay, PassStays, Working
  <2>3. LeaseHeld' /\ ObserversApart'
    BY <2>1, <2>2 DEF LeaseHeld, ObserversApart, Observing
  <2>4. BoxGone' /\ AnsweredRests'
    <3>1. CASE UNCHANGED wbox /\ wpass'[s].pc # "record"
      BY <2>1, <2>2, <3>1 DEF BoxGone, AnsweredRests, Answered, PassWalks, OthersStay, PassStays
    <3>2. CASE /\ wpass[s].pc = "back" /\ wpass'[s].pc = "record"
               /\ wpass'[s].act = "teardown" /\ wpass'[s].out = "ok" => wbox' = "none"
      <4>1. Working(s) /\ ~Answered /\ \A t \in WsServers : Working(t) => t = s
        BY <3>2, OneWorks DEF AnsweredRests, Working
      <4>2. \A t \in WsServers : ~(wobs[t].pc = "write" /\ wobs[t].fresh)
        BY <4>1 DEF ObserversApart
      <4>3. \A t \in WsServers : t # s => wpass'[t].pc # "record"
        BY <2>2, <4>1 DEF Working
      <4> QED
        BY <2>1, <3>2, <4>1, <4>2, <4>3 DEF BoxGone, AnsweredRests, Answered
    <3> QED
      BY <2>1, <3>1, <3>2
  <2> QED
    BY <2>3, <2>4
<1>7. CASE RecordOutcome(s)
  <2>1. /\ PassWalks(s) /\ UNCHANGED wbox /\ wpass[s].pc = "record"
        /\ wpass'[s].pc \in {"told", "release"}
        /\ \/ UNCHANGED wrow
           \/ wrow'.obs = "absent" => wpass[s].act = "teardown" /\ wpass[s].out = "ok"
    BY <1>1, <1>7, RecordShape
  <2>2. UNCHANGED wrow \/ ~Answered' \/ wbox' = "none"
    BY <2>1 DEF BoxGone, Answered
  <2> QED
    BY <1>3, <2>1, <2>2 DEF Working
<1>8. CASE ReleaseRow(s)
  <2>1. /\ PassWalks(s) /\ UNCHANGED <<wbox, wobs>> /\ wpass[s].pc = "release" /\ RowKept
        /\ wpass'[s].pc = "unmark"
        /\ wrow.own # s => wrow' = wrow
    BY <1>1, <1>8, ReleaseShape
  <2>2. \A t \in WsServers : (Working(t))' => Working(t) /\ t # s
    BY <2>1 DEF PassWalks, OthersStay, PassStays, Working
  <2>3. LeaseHeld'
    BY <2>1, <2>2 DEF LeaseHeld
  <2>4. ObserversApart'
    BY <2>1, <2>2 DEF ObserversApart, Observing
  <2>5. BoxGone' /\ AnsweredRests'
    BY <2>1, <2>2 DEF BoxGone, AnsweredRests, Answered, RowKept, PassWalks, OthersStay, PassStays
  <2> QED
    BY <2>3, <2>4, <2>5
<1> QED
  BY <1>2, <1>4, <1>5, <1>6, <1>7, <1>8 DEF PassStep

\* An observation of the loop does not come between a pass and its lease, and what it
\* writes is still so.
LEMMA ObserveStepKeepsLease ==
    ASSUME "observe" \notin WsUsers, PassInv, LeaseInv, NEW s \in WsServers, ObserveStep(s)
    PROVE  LeaseInv'
<1> USE DEF LeaseInv
<1>1. Typed /\ Filled
  BY DEF PassInv
<1>2. ASSUME ObserveWalks(s), LeaseHeld', AnsweredRests',
             /\ wobs'[s].pc # "idle" => wobs'[s].by = "loop"
             /\ (Observing(s))' => ~Working(s)
             /\ wobs'[s].fresh /\ wobs'[s].pc \in {"inspect", "write"} =>
                  \A t \in WsServers : ~Working(t)
             /\ wobs'[s].pc = "write" /\ wobs'[s].fresh /\ wobs'[s].insp = "absent" => wbox = "none"
      PROVE  LeaseInv'
  <2>1. \A t \in WsServers : (Working(t))' = Working(t) /\ PassStays(t)
    BY <1>2 DEF ObserveWalks, OthersStay, PassStays, Working
  <2>2. ObserversApart'
    BY <1>2, <2>1 DEF ObserveWalks, OthersStay, ObserveStays, ObserversApart, Observing
  <2>3. BoxGone'
    BY <1>2, <2>1 DEF ObserveWalks, OthersStay, ObserveStays, PassStays, BoxGone
  <2> QED
    BY <1>2, <2>2, <2>3
<1>3. ASSUME ObserveWalks(s), RowKept, ASSUME NEW t \in WsServers, Working(t)
                                       PROVE  wrow' = wrow
      PROVE  LeaseHeld' /\ AnsweredRests'
  <2>1. \A t \in WsServers : (Working(t))' = Working(t)
    BY <1>3 DEF ObserveWalks, OthersStay, PassStays, Working
  <2> QED
    BY <1>3, <2>1 DEF LeaseHeld, AnsweredRests, Answered, RowKept, ObserveWalks
<1>4. CASE \/ \E by \in {"loop", "user"} : ObserveGet(s, by)
           \/ ObserveInspect(s) \/ ObserveTold(s) \/ ObserveRelease(s)
  <2>1. /\ ObserveWalks(s) /\ RowKept
        /\ \/ UNCHANGED wrow /\ wobs'[s].pc = "claim" /\ wobs'[s].by = "loop"
           \/ /\ UNCHANGED wrow /\ wobs[s].pc = "inspect" /\ wobs'[s].pc \in {"write", "release"}
              /\ wobs'[s].by = wobs[s].by /\ wobs'[s].insp = InspectionOf(wbox)
              /\ wobs'[s].fresh => wobs[s].fresh
           \/ /\ UNCHANGED wrow /\ wobs[s].pc = "told" /\ wobs'[s].pc = "release"
              /\ wobs'[s].by = wobs[s].by
           \/ /\ wobs[s].pc = "release" /\ wobs'[s].pc = "idle"
              /\ wrow.own # s => wrow' = wrow
    BY <1>1, <1>4, ObserveWalkShape
  <2>2. ASSUME NEW t \in WsServers, Working(t) PROVE wrow' = wrow
    BY <2>1, <2>2 DEF LeaseHeld, ObserversApart, Observing
  <2>3. LeaseHeld' /\ AnsweredRests'
    BY <1>3, <2>1, <2>2
  <2>4. InspectionOf(wbox) = "absent" => wbox = "none"
    BY <1>1 DEF InspectionOf, Typed, Boxes
  <2> QED
    BY <1>2, <2>1, <2>3, <2>4 DEF ObserversApart, Observing
<1>5. CASE ObserveClaim(s)
  <2>1. /\ ObserveWalks(s) /\ RowKept /\ wobs[s].pc = "claim"
        /\ \/ UNCHANGED wrow /\ wobs'[s].pc = "idle"
           \/ /\ ~wrow.lease /\ wobs'[s].pc \in {"inspect", "release"} /\ wobs'[s].by = wobs[s].by
    BY <1>1, <1>5, ObserveClaimShape
  <2>2. UNCHANGED wrow \/ \A t \in WsServers : ~Working(t)
    BY <2>1 DEF LeaseHeld
  <2>3. LeaseHeld' /\ AnsweredRests'
    BY <1>3, <2>1, <2>2
  <2>4. wobs'[s].pc # "idle" => \A t \in WsServers : ~Working(t)
    BY <2>1 DEF LeaseHeld
  <2> QED
    BY <1>2, <2>1, <2>3, <2>4 DEF ObserversApart, Observing
<1>6. CASE ObserveWrite(s)
  <2>1. /\ ObserveWalks(s) /\ wobs[s].pc = "write"
        /\ wobs'[s].pc \in {"told", "release"} /\ wobs'[s].by = wobs[s].by
        /\ UNCHANGED wrow \/ (MayWrite(s, wobs[s]) /\ wrow'.obs = wobs[s].insp)
    BY <1>1, <1>6, ObserveWriteShape
  <2>2. LeaseHeld' /\ AnsweredRests'
    <3>1. CASE UNCHANGED wrow
      BY <1>3, <2>1, <3>1 DEF RowKept
    <3>2. CASE MayWrite(s, wobs[s]) /\ wrow'.obs = wobs[s].insp
      <4>1. \A t \in WsServers : ~Working(t)
        BY <2>1, <3>2 DEF MayWrite, ObserversApart
      <4>2. \A t \in WsServers : ~(Working(t))'
        BY <2>1, <4>1 DEF ObserveWalks, OthersStay, PassStays, Working
      <4>3. wrow'.obs = "absent" => wbox' = "none"
        BY <2>1, <3>2 DEF MayWrite, BoxGone, ObserveWalks
      <4> QED
        BY <4>2, <4>3 DEF LeaseHeld, AnsweredRests, Answered
    <3> QED
      BY <2>1, <3>1, <3>2
  <2> QED
    BY <1>2, <2>1, <2>2 DEF ObserversApart, Observing
<1> QED
  BY <1>4, <1>5, <1>6 DEF ObserveStep

\* Every step keeps the lease with the one who works.
LEMMA NextLeaseInv ==
    ASSUME "observe" \notin WsUsers, PassInv, LeaseInv, [WorkspaceNext]_wvars
    PROVE  LeaseInv'
<1> USE DEF LeaseInv
<1>1. Typed /\ Filled
  BY DEF PassInv
<1>2. CASE UNCHANGED wvars
  <2>1. UNCHANGED <<wrow, wbot, wbox, wpass, wobs, wcan, wints>>
    BY <1>2 DEF wvars
  <2> QED
    BY <2>1 DEF LeaseHeld, ObserversApart, BoxGone, AnsweredRests, Answered, Working, Observing
<1>3. ASSUME AllStay, UNCHANGED wbox, wrow'.own = wrow.own, wrow'.lease = wrow.lease,
             UNCHANGED wrow \/ ~Answered'
      PROVE  LeaseInv'
  <2>1. \A t \in WsServers : (Working(t))' = Working(t) /\ (Observing(t))' = Observing(t)
    BY <1>3 DEF AllStay, PassStays, ObserveStays, Working, Observing
  <2>2. LeaseHeld' /\ AnsweredRests'
    BY <1>3, <2>1 DEF LeaseHeld, AnsweredRests, Answered
  <2>3. ObserversApart' /\ BoxGone'
    BY <1>3, <2>1 DEF AllStay, PassStays, ObserveStays, ObserversApart, BoxGone
  <2> QED
    BY <2>2, <2>3
<1>4. ASSUME NEW des \in {"present", "absent"}, NEW pres \in BOOLEAN, RecordIntent(des, pres)
      PROVE  LeaseInv'
  BY <1>1, <1>3, <1>4, IntentShape DEF Answered
<1>5. CASE CancelInspect \/ CancelWrite \/ CancelTold
  BY <1>1, <1>3, <1>5, CancelShape DEF Answered
<1>6. ASSUME NEW s \in WsServers, PassStep(s) \/ ObserveStep(s) PROVE LeaseInv'
  BY <1>6, PassStepKeepsLease, ObserveStepKeepsLease
<1>7. ASSUME NEW box \in Boxes, TouchContainer(box) PROVE LeaseInv'
  <2>1. wbox # "none" /\ UNCHANGED <<wrow, wpass, wobs>>
    BY <1>1, <1>7, TouchShape
  <2> QED
    BY <2>1 DEF LeaseHeld, ObserversApart, BoxGone, AnsweredRests, Answered, Working, Observing
<1>8. ASSUME NEW s \in WsServers, NEW box \in Boxes, CrashServer(s, box) PROVE LeaseInv'
  <2>1. /\ OthersStay(s) /\ UNCHANGED wrow /\ wpass'[s].pc = "idle" /\ wobs'[s].pc = "idle"
        /\ wbox' # wbox => wpass[s].pc = "back"
    BY <1>1, <1>8, CrashShape
  <2>2. \A t \in WsServers : (Working(t))' => Working(t) /\ t # s
    BY <2>1 DEF OthersStay, PassStays, Working
  <2>3. LeaseHeld' /\ ObserversApart'
    BY <2>1, <2>2 DEF LeaseHeld, ObserversApart, Observing, OthersStay, ObserveStays
  <2>4. CASE UNCHANGED wbox
    <3>1. BoxGone' /\ AnsweredRests'
      BY <2>1, <2>2, <2>4 DEF BoxGone, AnsweredRests, Answered, OthersStay, PassStays, ObserveStays
    <3> QED
      BY <2>3, <3>1
  <2>5. CASE wpass[s].pc = "back"
    <3>1. Working(s) /\ ~Answered /\ \A t \in WsServers : Working(t) => t = s
      BY <2>5, OneWorks DEF AnsweredRests, Working
    <3>2. \A t \in WsServers : ~(wobs[t].pc = "write" /\ wobs[t].fresh)
      BY <3>1 DEF ObserversApart
    <3>3. \A t \in WsServers : wpass'[t].pc # "record"
      BY <2>1, <2>2, <3>1 DEF Working
    <3>4. BoxGone' /\ AnsweredRests'
      BY <2>1, <3>1, <3>2, <3>3 DEF BoxGone, AnsweredRests, Answered, OthersStay, ObserveStays
    <3> QED
      BY <2>3, <3>4
  <2> QED
    BY <2>1, <2>4, <2>5
<1>9. CASE LeasePasses
  <2>1. /\ RowKept /\ UNCHANGED <<wbox, wpass, wobs>>
        /\ wpass[wrow.own].pc \notin {"begin", "entered", "back", "record"}
    BY <1>1, <1>9, LeaseShape
  <2>2. \A t \in WsServers : ~Working(t) /\ ~(Working(t))'
    BY <2>1 DEF LeaseHeld, Working
  <2> QED
    BY <2>1, <2>2
       DEF LeaseHeld, ObserversApart, BoxGone, AnsweredRests, Answered, RowKept, Observing
<1> QED
  BY <1>2, <1>4, <1>5, <1>6, <1>7, <1>8, <1>9 DEF WorkspaceNext

\* The lease is with the one who works, always.
LEMMA LeaseTheorem ==
    ASSUME "observe" \notin WsUsers
    PROVE  WorkspaceSpec => [](PassInv /\ LeaseInv)
<1>1. WorkspaceInit => PassInv /\ LeaseInv
  BY InitPassInv, InitLeaseInv
<1>2. PassInv /\ LeaseInv /\ [WorkspaceNext]_wvars => PassInv' /\ LeaseInv'
  BY NextPassInv, NextLeaseInv
<1> QED
  BY <1>1, <1>2, PTL DEF WorkspaceSpec

\* service.go, leasedContext ("so two instances never drive the same workspace at once"):
\* true of the loops of any number of servers, with their drift scans and crashes; only an
\* Observe for a user takes the lease away under a pass.
THEOREM DrivesTheorem ==
    ASSUME "observe" \notin WsUsers
    PROVE  WorkspaceSpec => []OneInstanceDrives
<1>1. PassInv /\ LeaseInv => OneInstanceDrives
  BY DEF LeaseInv, LeaseHeld, Working, OneInstanceDrives
<1> QED
  BY <1>1, LeaseTheorem, PTL

\* An answered removal has left no container and nobody who makes one, so the row of the
\* bot may be deleted (RequestAbsent, Recorded, ClaimBotWorkspaces).
THEOREM WorkspaceTheorem ==
    ASSUME "observe" \notin WsUsers
    PROVE  WorkspaceSpec => []WorkspaceInv
<1>1. Typed => WorkspaceTypeOK
  BY DEF Typed, WorkspaceTypeOK, WRows, Passes, Observes, Cancels
<1>2. AnsweredRests => AbsentMeansGone
  BY DEF AnsweredRests, Answered, AbsentMeansGone, Working
<1>3. PassInv /\ LeaseInv => WorkspaceInv
  BY <1>1, <1>2 DEF PassInv, LeaseInv, WorkspaceInv
<1> QED
  BY <1>3, LeaseTheorem, PTL
=============================================================================
