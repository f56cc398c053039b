------------------------ MODULE ChannelConnections ------------------------
(***************************************************************************)
(* The connection of a bot to one chat platform.  Users store, enable,     *)
(* disable and delete its configuration; each call then starts or stops    *)
(* the connection.  A periodic refresh compares the stored configurations  *)
(* with the table of connections.  Connecting and stopping an adapter are  *)
(* done outside the manager's lock, so that the operations interleave.     *)
(*   internal/channel/connection.go, manager.go, lifecycle.go              *)
(*                                                                         *)
(* Abstractions.  One configuration, which is not created again after it   *)
(* was deleted; its updated_at is a version.  An operation is run once.    *)
(* Adapters can be stopped.  The health shown to users is left out.        *)
(***************************************************************************)
EXTENDS Naturals, FiniteSets

CONSTANTS ChanOps,      \* operations (goroutines)
          ChanMaxVer,   \* bound: versions of the configuration
          ChanFaults,   \* subset of the faults below
          NoConn        \* no connection

AllChanFaults == {"connect", "stop", "list"}

ASSUME ChannelAssumption ==
    /\ ChanMaxVer \in Nat /\ ChanFaults \subseteq AllChanFaults
    /\ NoConn \notin ChanOps \cup (ChanOps \X {1, 2})

VARIABLES
    kcfg,    \* the stored configuration: state and version
    kent,    \* the entry of the connection table: version and connection
    klive,   \* the connections that run
    kstuck,  \* connections whose Stop failed
    kop,     \* kop[o]: the operation o
    krest    \* the last operation, if it ran alone and nothing has begun since

kvars == <<kcfg, kent, klive, kstuck, kop, krest>>

Kinds == {"refresh", "upsert", "status", "delete", "stop"}
Conns == ChanOps \X {1, 2}
NoOp == [kind |-> "none", pc |-> "idle", on |-> FALSE, ver |-> 0, prev |-> "none",
         conn |-> NoConn, tries |-> 0, err |-> FALSE, alone |-> FALSE]
NoEntry == [ver |-> 0, conn |-> NoConn]

ChannelTypeOK ==
    /\ kcfg \in [st: {"none", "on", "off", "gone"}, ver: 0..ChanMaxVer]
    /\ kent \in [ver: 0..ChanMaxVer, conn: Conns \cup {NoConn}]
    /\ klive \subseteq Conns /\ kstuck \subseteq Conns
    /\ kop \in [ChanOps -> [kind: Kinds \cup {"none"},
                            pc: {"idle", "list", "prev", "write", "ensure", "stopold", "check", "connect",
                                 "insert", "stopnew", "prune", "remove", "rollback", "done"},
                            on: BOOLEAN, ver: 0..ChanMaxVer, prev: {"none", "on", "off", "gone"},
                            conn: Conns \cup {NoConn}, tries: 0..2, err: BOOLEAN, alone: BOOLEAN]]
    /\ krest \in ChanOps \cup {NoConn}

ChannelInit ==
    /\ kcfg = [st |-> "none", ver |-> 0]
    /\ kent = NoEntry /\ klive = {} /\ kstuck = {}
    /\ kop = [o \in ChanOps |-> NoOp]
    /\ krest = NoConn

Busy == {o \in ChanOps : kop[o].pc \notin {"idle", "done"}}
At(o, pc) == kop' = [kop EXCEPT ![o].pc = pc]
\* The operation ends; it counts as the last one if nothing else ran with it.
EndOp(o, op) == /\ kop' = [kop EXCEPT ![o] = [op EXCEPT !.pc = "done", !.conn = NoConn]]
                /\ krest' = IF op.alone THEN o ELSE krest

\* Connection.Stop: c runs on when it fails.
StopConn(c, ok) ==
    /\ ok \/ "stop" \in ChanFaults
    /\ klive' = IF ok THEN klive \ {c} ELSE klive
    /\ kstuck' = IF ok THEN kstuck ELSE kstuck \cup {c}
-----------------------------------------------------------------------------
(* The operations begin *)

Begin(o, kind, on) ==
    /\ kop[o].pc = "idle"
    /\ kind = "refresh" => \A p \in Busy : kop[p].kind # "refresh"      \* refreshMu
    /\ kop' = [p \in ChanOps |->
         IF p = o THEN [NoOp EXCEPT !.kind = kind, !.on = on, !.alone = (Busy = {}),
                          !.pc = CASE kind = "refresh" -> "list" [] kind = "upsert" -> "prev"
                                   [] kind = "stop" -> "remove" [] OTHER -> "write"]
         ELSE [kop[p] EXCEPT !.alone = FALSE]]
    /\ krest' = NoConn
    /\ UNCHANGED <<kcfg, kent, klive, kstuck>>

\* refresh: the stored configurations; a listing that fails counts as an empty one.
ListConfigs(o) ==
    /\ kop[o].pc = "list"
    /\ \/ kop' = [kop EXCEPT ![o].pc = IF kcfg.st = "on" THEN "ensure" ELSE "prune",
                            ![o].on = (kcfg.st = "on"), ![o].ver = kcfg.ver]
       \/ /\ "list" \in ChanFaults
          /\ kop' = [kop EXCEPT ![o].pc = "prune", ![o].on = FALSE, ![o].err = TRUE]
    /\ UNCHANGED <<kcfg, kent, klive, kstuck, krest>>

\* UpsertBotChannelConfig reads what it may have to restore ...
ReadPrevious(o) ==
    /\ kop[o].pc = "prev"
    /\ kop' = [kop EXCEPT ![o].pc = "write", ![o].prev = kcfg.st]
    /\ UNCHANGED <<kcfg, kent, klive, kstuck, krest>>

\* ... and stores the configuration; SetBotChannelStatus and DeleteBotChannelConfig only write.
StoreConfig(o) ==
    LET op == kop[o] IN
    /\ op.pc = "write"
    /\ IF kcfg.st = "gone" \/ (op.kind # "upsert" /\ kcfg.st = "none")
       THEN /\ UNCHANGED kcfg
            /\ IF op.kind = "delete" THEN At(o, "remove") /\ UNCHANGED krest
               ELSE EndOp(o, [op EXCEPT !.err = TRUE])
       ELSE /\ kcfg.ver < ChanMaxVer
            /\ kcfg' = [st |-> CASE op.kind = "delete" -> "gone" [] op.on /\ op.kind # "delete" -> "on" [] OTHER -> "off",
                        ver |-> kcfg.ver + 1]
            /\ kop' = [kop EXCEPT ![o].pc = IF op.on /\ op.kind # "delete" THEN "ensure" ELSE "remove",
                                  ![o].ver = kcfg.ver + 1]
            /\ UNCHANGED krest
    /\ UNCHANGED <<kent, klive, kstuck>>
-----------------------------------------------------------------------------
(* ensureConnection *)

\* What follows the connection attempt of the operation.
AfterEnsure(o, op) ==
    CASE op.kind = "refresh" -> kop' = [kop EXCEPT ![o] = [op EXCEPT !.pc = "prune"]] /\ UNCHANGED krest
      [] op.kind \in {"upsert", "status"} /\ op.err /\ op.tries < 2 ->
             kop' = [kop EXCEPT ![o] = [op EXCEPT !.pc = "rollback"]] /\ UNCHANGED krest
      [] OTHER -> EndOp(o, op)

\* The entry is at least as new as the configuration.
UpToDate(ver) == kent # NoEntry /\ kent.ver >= ver

\* The entry is taken out before its connection is stopped.
TakeEntry(o) ==
    LET op == kop[o] IN
    /\ op.pc = "ensure"
    /\ IF UpToDate(op.ver)
       THEN AfterEnsure(o, op) /\ UNCHANGED kent
       ELSE /\ kop' = [kop EXCEPT ![o].pc = IF kent = NoEntry THEN "check" ELSE "stopold", ![o].conn = kent.conn]
            /\ kent' = NoEntry
            /\ UNCHANGED krest
    /\ UNCHANGED <<kcfg, klive, kstuck>>

StopOld(o) ==
    LET op == kop[o] IN
    /\ op.pc = "stopold"
    /\ \E ok \in BOOLEAN :
         /\ StopConn(op.conn, ok)
         /\ IF ok THEN kop' = [kop EXCEPT ![o].pc = "check", ![o].conn = NoConn] /\ UNCHANGED krest
            ELSE AfterEnsure(o, [op EXCEPT !.err = TRUE, !.conn = NoConn, !.tries = @ + 1])
    /\ UNCHANGED <<kcfg, kent>>

CheckAgain(o) ==
    /\ kop[o].pc = "check"
    /\ IF kent # NoEntry THEN AfterEnsure(o, kop[o]) ELSE At(o, "connect") /\ UNCHANGED krest
    /\ UNCHANGED <<kcfg, kent, klive, kstuck>>

Connect(o) ==
    LET op == kop[o]  c == <<o, op.tries + 1>> IN
    /\ op.pc = "connect"
    /\ \/ /\ klive' = klive \cup {c}
          /\ kop' = [kop EXCEPT ![o].pc = "insert", ![o].conn = c, ![o].tries = @ + 1]
          /\ UNCHANGED krest
       \/ /\ "connect" \in ChanFaults
          /\ AfterEnsure(o, [op EXCEPT !.err = TRUE, !.tries = @ + 1])
          /\ UNCHANGED klive
    /\ UNCHANGED <<kcfg, kent, kstuck>>

\* Mutant: the new connection replaces the entry of another operation.
LosesRaceNever == FALSE

\* Another operation has put its connection in the table meanwhile.
LosesRace == kent # NoEntry

Insert(o) ==
    LET op == kop[o] IN
    /\ op.pc = "insert"
    /\ IF LosesRace
       THEN At(o, "stopnew") /\ UNCHANGED <<kent, krest>>
       ELSE kent' = [ver |-> op.ver, conn |-> op.conn] /\ AfterEnsure(o, [op EXCEPT !.conn = NoConn, !.err = FALSE])
    /\ UNCHANGED <<kcfg, klive, kstuck>>

\* The error of this Stop is ignored.
StopNew(o) ==
    LET op == kop[o] IN
    /\ op.pc = "stopnew"
    /\ \E ok \in BOOLEAN : StopConn(op.conn, ok)
    /\ AfterEnsure(o, [op EXCEPT !.conn = NoConn, !.err = FALSE])
    /\ UNCHANGED <<kcfg, kent>>
-----------------------------------------------------------------------------
(* What removes a connection *)

\* Mutant: a refresh only starts connections.
ObsoleteNever(op) == FALSE

\* reconcile: the entry's configuration was not among the enabled ones.
Obsolete(op) == ~op.on

\* The connection is stopped under the lock.
DropEntry == IF kent = NoEntry THEN UNCHANGED <<kent, klive, kstuck>>
             ELSE kent' = NoEntry /\ \E ok \in BOOLEAN : StopConn(kent.conn, ok)

Prune(o) ==
    /\ kop[o].pc = "prune"
    /\ IF Obsolete(kop[o]) THEN DropEntry ELSE UNCHANGED <<kent, klive, kstuck>>
    /\ EndOp(o, kop[o])
    /\ UNCHANGED kcfg

\* RemoveConnection, and stopAll and RemoveAdapter, which leave the configuration alone.
RemoveConnection(o) ==
    /\ kop[o].pc = "remove"
    /\ DropEntry
    /\ EndOp(o, kop[o])
    /\ UNCHANGED kcfg

\* removeConnection, for Stop and StopByBot: the entry is taken out under the lock and
\* its connection stopped outside it, as StopNew does.
StopEntry(o) ==
    /\ kop[o].pc = "remove" /\ kop[o].kind = "stop" /\ kent # NoEntry
    /\ kop' = [kop EXCEPT ![o].pc = "stopnew", ![o].conn = kent.conn]
    /\ kent' = NoEntry
    /\ UNCHANGED <<kcfg, klive, kstuck, krest>>

\* A call that could not connect: rollbackUpsert restores the previous configuration and
\* its connection, SetBotChannelStatus disables.
Rollback(o) ==
    LET op == kop[o]
        st == CASE op.kind = "status" -> "off" [] op.kind = "upsert" /\ op.prev = "none" -> "gone"
                [] OTHER -> op.prev IN
    /\ op.pc = "rollback"
    /\ IF kcfg.st = "gone" \/ op.prev = "gone"
       THEN UNCHANGED kcfg /\ EndOp(o, op)
       ELSE /\ kcfg.ver < ChanMaxVer
            /\ kcfg' = [st |-> st, ver |-> kcfg.ver + 1]
            /\ kop' = [kop EXCEPT ![o].pc = IF st = "on" THEN "ensure" ELSE "remove",
                                  ![o].ver = kcfg.ver + 1, ![o].on = (st = "on"), ![o].err = FALSE]
            /\ UNCHANGED krest
    /\ UNCHANGED <<kent, klive, kstuck>>

ChannelNext ==
    \E o \in ChanOps :
        \/ \E kind \in Kinds, on \in BOOLEAN : Begin(o, kind, on)
        \/ ListConfigs(o) \/ ReadPrevious(o) \/ StoreConfig(o)
        \/ TakeEntry(o) \/ StopOld(o) \/ CheckAgain(o) \/ Connect(o) \/ Insert(o) \/ StopNew(o)
        \/ Prune(o) \/ RemoveConnection(o) \/ StopEntry(o) \/ Rollback(o)

ChannelSpec == ChannelInit /\ [][ChannelNext]_kvars
-----------------------------------------------------------------------------
(* Properties *)

\* connection.go, ensureConnection ("if another goroutine raced and inserted first, stop
\* our new connection and keep the existing one"): every connection that runs is in the
\* table or in the hands of an operation that will stop it or put it there, unless its
\* Stop failed.  A connection outside the table receives messages and cannot be stopped.
NoConnectionLeaks ==
    \A c \in klive : kent.conn = c \/ c \in kstuck \/ \E o \in ChanOps : kop[o].conn = c

\* manager.go, Refresh ("a periodic safety net"): whatever the operations did to each
\* other, once an operation other than a stop has run alone the table holds the connection
\* of the stored configuration, in its latest version, or none if it is not enabled;
\* unless a platform or the listing failed for that operation.
LastOperationSettles ==
    (krest # NoConn /\ ~kop[krest].err /\ kop[krest].kind # "stop") =>
        \/ kcfg.st = "on" /\ kent.ver = kcfg.ver
        \/ kcfg.st # "on" /\ kent = NoEntry

\* ensureConnection, reconcile and removeConnection keep the table of connections true.
ConnectionInv == ChannelTypeOK /\ NoConnectionLeaks
=============================================================================
