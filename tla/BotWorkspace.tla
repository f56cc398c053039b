---------------------------- MODULE BotWorkspace ----------------------------
(***************************************************************************)
(* The workspace of a bot: the API records whether it should be present or *)
(* absent, the reconcilers of the servers lease the row and bring the      *)
(* backend to it, users start and stop the container, and bots.status is   *)
(* derived from the row.                                                   *)
(*   internal/botworkspace (service.go, decision.go, repository.go,        *)
(*   types.go), internal/db/postgres/queries/bot_workspaces.sql            *)
(*                                                                         *)
(* Abstractions.  One bot.  Versions and generations are only compared for *)
(* equality with what a pass read: a pass knows whether the row changed    *)
(* since (fresh), the row whether its observation answers the latest       *)
(* intent (caught).  Time is left out: every row may be past its backoff.  *)
(* Images are left out, and with them the replacement of a container built *)
(* from another one.  The steps of a pass or an Observe are short against  *)
(* the lease (15 seconds against 2 minutes), which is renewed while the    *)
(* backend works: it expires only under a server that crashed, or that     *)
(* took it and skipped the row.                                            *)
(***************************************************************************)
EXTENDS Naturals

CONSTANTS WsServers,     \* server processes
          WsMaxAttempts, \* MaxAttempts
          WsMaxIntents,  \* bound: intents recorded
          WsUsers,       \* which of "observe", "cancel", "container" users do
          WsFaults,      \* subset of {"crash"}
          NoServer       \* no server

ASSUME WorkspaceAssumption ==
    /\ WsMaxAttempts \in Nat \ {0} /\ WsMaxIntents \in Nat /\ NoServer \notin WsServers

VARIABLES
    wrow,    \* the row of bot_workspaces
    wbot,    \* bots.status
    wbox,    \* the container
    wpass,   \* wpass[s]: the pass of server s over the row
    wobs,    \* wobs[s]: an Observe of server s, by its loop or for a user
    wcan,    \* a CancelRemoval
    wints    \* the intents so far

wvars == <<wrow, wbot, wbox, wpass, wobs, wcan, wints>>

Boxes == {"none", "running", "stopped"}
Statuses == {"creating", "ready", "failed"}
ObservedStates == {"absent", "provisioning", "running", "stopped", "failed", "removing"}
NoPass == [pc |-> "idle", act |-> "none", pres |-> FALSE, fresh |-> FALSE, out |-> "none", st |-> "none"]
NoObserve == [pc |-> "idle", by |-> "none", insp |-> "none", fresh |-> FALSE, st |-> "none"]
NoCancel == [pc |-> "idle", insp |-> "none", st |-> "none"]

WorkspaceTypeOK ==
    /\ wrow \in [set: BOOLEAN, des: {"present", "absent"}, pres: BOOLEAN, caught: BOOLEAN,
                 obs: ObservedStates, ever: BOOLEAN, att: 0..WsMaxAttempts,
                 own: WsServers \cup {NoServer}, lease: BOOLEAN]
    /\ wbot \in Statuses /\ wbox \in Boxes /\ wints \in 0..WsMaxIntents
    /\ wpass \in [WsServers -> [pc: {"idle", "begin", "entered", "back", "record", "told", "release", "unmark"},
                                act: {"none", "provision", "teardown"}, pres: BOOLEAN, fresh: BOOLEAN,
                                out: {"none", "ok", "retry", "final"}, st: Statuses \cup {"none"}]]
    /\ wobs \in [WsServers -> [pc: {"idle", "claim", "inspect", "write", "told", "release"},
                               by: {"none", "loop", "user"}, insp: {"none", "absent", "running", "stopped"},
                               fresh: BOOLEAN, st: Statuses \cup {"none"}]]
    /\ wcan \in [pc: {"idle", "write", "told"}, insp: {"none", "absent", "running", "stopped"},
                 st: Statuses \cup {"none"}]

WorkspaceInit ==
    /\ wrow = [set |-> FALSE, des |-> "absent", pres |-> FALSE, caught |-> FALSE, obs |-> "absent",
               ever |-> FALSE, att |-> 0, own |-> NoServer, lease |-> FALSE]
    /\ wbot = "creating" /\ wints = 0
    /\ wbox \in {"none", "running"}       \* a container may be older than the row
    /\ wpass = [s \in WsServers |-> NoPass]
    /\ wobs = [s \in WsServers |-> NoObserve]
    /\ wcan = NoCancel

\* Inspection.observed
InspectionOf(box) == IF box = "none" THEN "absent" ELSE box

\* DeriveBotStatus; "none" leaves bots.status alone.
DeriveBotStatus(w) ==
    IF w.des = "absent" THEN "none"
    ELSE IF w.obs \in {"running", "stopped"} \/ w.ever THEN "ready"
    ELSE IF w.obs = "failed" THEN "failed" ELSE "creating"

\* Mutant: "absent" is an answer, although it is also the column's default.
DecideDefault(w) ==
    IF w.des = "absent" THEN IF w.obs = "absent" THEN "none" ELSE "teardown"
    ELSE IF w.obs \in {"running", "stopped"} THEN "none" ELSE "provision"

Decide(w) ==
    IF w.des = "absent" THEN IF w.obs = "absent" /\ w.caught THEN "none" ELSE "teardown"
    ELSE IF w.obs \in {"running", "stopped"} THEN "none" ELSE "provision"

\* The WHERE clause of ClaimBotWorkspaces.
Due(w) ==
    /\ w.set /\ ~w.lease
    /\ \/ ~w.caught \/ w.obs \in {"provisioning", "removing"}
       \/ w.des = "present" /\ w.obs \in {"absent", "failed"}
       \/ w.des = "absent" /\ w.obs \notin {"absent", "failed"}

\* A write of the row makes what others read stale.
Outdated(reads) == [s \in WsServers |-> [reads[s] EXCEPT !.fresh = FALSE]]

\* Mutant: the version of the row is not compared.
MayWriteUnpinned(s, read) == wrow.own = s

\* UpdateBotWorkspaceObserved: the lease is the caller's and the version the one it read.
MayWrite(s, read) == wrow.own = s /\ read.fresh

Freed(w) == [w EXCEPT !.own = NoServer, !.lease = FALSE]
-----------------------------------------------------------------------------
(* Intents *)

\* UpsertBotWorkspaceIntent, through EnsurePresent and RequestAbsent
RecordIntent(des, pres) ==
    /\ wints < WsMaxIntents /\ wints' = wints + 1
    /\ des = "present" => ~pres
    /\ wrow' = [wrow EXCEPT !.set = TRUE, !.des = des, !.pres = pres, !.caught = FALSE, !.att = 0]
    /\ wpass' = Outdated(wpass) /\ wobs' = Outdated(wobs)
    /\ UNCHANGED <<wbot, wbox, wcan>>

\* CancelRemoval: it inspects, then withdraws a failed removal in one write.
CancelInspect ==
    /\ "cancel" \in WsUsers /\ wcan.pc = "idle" /\ wrow.set
    /\ wcan' = [wcan EXCEPT !.pc = "write", !.insp = InspectionOf(wbox)]
    /\ UNCHANGED <<wrow, wbot, wbox, wpass, wobs, wints>>

CancelWrite ==
    LET row == [wrow EXCEPT !.des = "present", !.pres = FALSE, !.obs = wcan.insp, !.caught = TRUE,
                            !.ever = @ \/ wcan.insp = "running", !.att = 0]
    IN  /\ wcan.pc = "write"
        /\ IF wrow.des = "absent" /\ wrow.obs = "failed" /\ wrow.caught
           THEN /\ wrow' = row
                /\ wcan' = [wcan EXCEPT !.pc = "told", !.st = DeriveBotStatus(row)]
                /\ wpass' = Outdated(wpass) /\ wobs' = Outdated(wobs)
           ELSE /\ wcan' = NoCancel
                /\ UNCHANGED <<wrow, wpass, wobs>>
        /\ UNCHANGED <<wbot, wbox, wints>>

CancelTold ==
    /\ wcan.pc = "told" /\ wcan' = NoCancel
    /\ wbot' = IF wcan.st = "none" THEN wbot ELSE wcan.st
    /\ UNCHANGED <<wrow, wbox, wpass, wobs, wints>>
-----------------------------------------------------------------------------
(* A pass *)

\* ClaimBotWorkspaces and markRunning: a row that still counts as running here is leased
\* and skipped.  The loop also runs the drift scan, so it is not claiming then.
ClaimRow(s) ==
    /\ Due(wrow) /\ wobs[s].by # "loop"
    /\ wrow' = [wrow EXCEPT !.own = s, !.lease = TRUE]
    /\ wobs' = Outdated(wobs)
    /\ wpass' = IF wpass[s].pc = "idle"
                THEN [Outdated(wpass) EXCEPT ![s] = [NoPass EXCEPT !.pc = "begin", !.act = Decide(wrow),
                                                                   !.pres = wrow.pres, !.fresh = TRUE]]
                ELSE Outdated(wpass)
    /\ UNCHANGED <<wbot, wbox, wcan, wints>>

\* reconcileOne: nothing to do but to catch up with the generation.
CatchUp(s) ==
    /\ wpass[s].pc = "begin" /\ wpass[s].act = "none"
    /\ IF ~wrow.caught /\ MayWrite(s, wpass[s])
       THEN wrow' = Freed([wrow EXCEPT !.caught = TRUE, !.att = 0]) /\ wobs' = Outdated(wobs)
       ELSE UNCHANGED <<wrow, wobs>>
    /\ wpass' = [wpass EXCEPT ![s].pc = "release", ![s].fresh = FALSE]
    /\ UNCHANGED <<wbot, wbox, wcan, wints>>

\* provision and teardown: the version-checked transition comes before the backend.
EnterPass(s) ==
    LET row == [wrow EXCEPT !.obs = IF wpass[s].act = "provision" THEN "provisioning" ELSE "removing",
                            !.caught = TRUE]
    IN  /\ wpass[s].pc = "begin" /\ wpass[s].act # "none"
        /\ IF MayWrite(s, wpass[s])
           THEN /\ wrow' = row /\ wobs' = Outdated(wobs)
                /\ wpass' = [Outdated(wpass) EXCEPT
                       ![s] = [wpass[s] EXCEPT !.fresh = TRUE,
                          !.pc = IF wpass[s].act = "provision" THEN "entered" ELSE "back",
                          !.st = IF wpass[s].act = "provision" THEN DeriveBotStatus(row) ELSE "none"]]
           ELSE /\ wpass' = [wpass EXCEPT ![s].pc = "release", ![s].fresh = FALSE]
                /\ UNCHANGED <<wrow, wobs>>
        /\ UNCHANGED <<wbot, wbox, wcan, wints>>

\* deriveBotStatus, after the row was written
TellStatus(s) ==
    /\ wpass[s].pc \in {"entered", "told"}
    /\ wbot' = IF wpass[s].st = "none" THEN wbot ELSE wpass[s].st
    /\ wpass' = [wpass EXCEPT ![s].pc = IF @ = "entered" THEN "back" ELSE "release", ![s].st = "none"]
    /\ UNCHANGED <<wrow, wbox, wobs, wcan, wints>>

\* What the backend may leave behind: a failed step leaves the container as it was, or
\* got as far as it would have when it succeeded.
Effects(act, ok) ==
    IF act = "provision" THEN IF ok THEN {"running"} ELSE {wbox, "running", "stopped"}
    ELSE IF ok THEN {"none"} ELSE {wbox, "none"}

\* Backend.Provision and Backend.Teardown return; a step that fails may be worth a retry.
BackendReturns(s, out, box) ==
    /\ wpass[s].pc = "back"
    /\ box \in Effects(wpass[s].act, out = "ok") /\ wbox' = box
    /\ wpass' = [wpass EXCEPT ![s].pc = "record", ![s].out = out]
    /\ UNCHANGED <<wrow, wbot, wobs, wcan, wints>>

\* The outcome that provision, fail and teardown record.
Recorded(p) ==
    LET att == wrow.att + 1
        again == p.out = "retry" /\ att < WsMaxAttempts
        failed == [wrow EXCEPT !.att = IF again THEN att ELSE WsMaxAttempts]
    IN  CASE p.out = "ok" /\ p.act = "provision" ->
                 [wrow EXCEPT !.obs = "running", !.ever = TRUE, !.att = 0]
          [] p.out = "ok" /\ p.act = "teardown" -> [wrow EXCEPT !.obs = "absent", !.att = 0]
          [] p.out # "ok" /\ p.act = "provision" -> [failed EXCEPT !.obs = "failed"]
          [] p.out # "ok" /\ p.act = "teardown" ->
                 [failed EXCEPT !.obs = IF again \/ wbox = "none" THEN "removing" ELSE "failed"]

RecordOutcome(s) ==
    LET row == Recorded(wpass[s])
    IN  /\ wpass[s].pc = "record"
        /\ IF MayWrite(s, wpass[s])
           THEN /\ wrow' = Freed(row) /\ wobs' = Outdated(wobs)
                /\ wpass' = [wpass EXCEPT ![s] = [NoPass EXCEPT !.pc = "told",
                       !.st = IF wpass[s].act = "provision" THEN DeriveBotStatus(row) ELSE "none"]]
           ELSE /\ wpass' = [wpass EXCEPT ![s] = [NoPass EXCEPT !.pc = "release"]]
                /\ UNCHANGED <<wrow, wobs>>
        /\ UNCHANGED <<wbot, wbox, wcan, wints>>

\* Mutant: the lease is released whoever owns it.
ReleasedAnyway(s) == Freed(wrow)

\* ReleaseBotWorkspaceLease
Released(s) == IF wrow.own = s THEN Freed(wrow) ELSE wrow

ReleaseRow(s) ==
    /\ wpass[s].pc = "release" /\ wrow' = Released(s)
    /\ wpass' = [wpass EXCEPT ![s] = [NoPass EXCEPT !.pc = "unmark"]]
    /\ UNCHANGED <<wbot, wbox, wobs, wcan, wints>>

UnmarkRunning(s) ==
    /\ wpass[s].pc = "unmark" /\ wpass' = [wpass EXCEPT ![s] = NoPass]
    /\ UNCHANGED <<wrow, wbot, wbox, wobs, wcan, wints>>
-----------------------------------------------------------------------------
(* Observe, from the drift scan or after a user's start or stop *)

ObserveGet(s, by) ==
    /\ wobs[s].pc = "idle" /\ wrow.set /\ wrow.des = "present"
    /\ IF by = "loop" THEN wrow.obs \in {"running", "stopped"} ELSE "observe" \in WsUsers
    /\ wobs' = [wobs EXCEPT ![s].pc = "claim", ![s].by = by]
    /\ UNCHANGED <<wrow, wbot, wbox, wpass, wcan, wints>>

\* ClaimBotWorkspace: a leased row is left to its owner, a row in transition too.
ObserveClaim(s) ==
    /\ wobs[s].pc = "claim"
    /\ IF wrow.lease
       THEN wobs' = [wobs EXCEPT ![s] = NoObserve] /\ UNCHANGED <<wrow, wpass>>
       ELSE /\ wrow' = [wrow EXCEPT !.own = s, !.lease = TRUE]
            /\ wobs' = [Outdated(wobs) EXCEPT ![s] = [wobs[s] EXCEPT !.fresh = TRUE,
                   !.pc = IF wrow.obs \in {"provisioning", "removing"} THEN "release" ELSE "inspect"]]
            /\ wpass' = Outdated(wpass)
    /\ UNCHANGED <<wbot, wbox, wcan, wints>>

ObserveInspect(s) ==
    /\ wobs[s].pc = "inspect"
    /\ wobs' = [wobs EXCEPT ![s].insp = InspectionOf(wbox),
                            ![s].pc = IF wobs[s].fresh /\ InspectionOf(wbox) = wrow.obs THEN "release" ELSE "write"]
    /\ UNCHANGED <<wrow, wbot, wbox, wpass, wcan, wints>>

ObserveWrite(s) ==
    LET row == [wrow EXCEPT !.obs = wobs[s].insp, !.ever = @ \/ wobs[s].insp = "running", !.att = 0]
    IN  /\ wobs[s].pc = "write"
        /\ IF MayWrite(s, wobs[s])
           THEN /\ wrow' = Freed(row) /\ wpass' = Outdated(wpass)
                /\ wobs' = [Outdated(wobs) EXCEPT
                       ![s] = [NoObserve EXCEPT !.pc = "told", !.by = wobs[s].by, !.st = DeriveBotStatus(row)]]
           ELSE /\ wobs' = [wobs EXCEPT ![s] = [NoObserve EXCEPT !.pc = "release", !.by = wobs[s].by]]
                /\ UNCHANGED <<wrow, wpass>>
        /\ UNCHANGED <<wbot, wbox, wcan, wints>>

ObserveTold(s) ==
    /\ wobs[s].pc = "told"
    /\ wbot' = IF wobs[s].st = "none" THEN wbot ELSE wobs[s].st
    /\ wobs' = [wobs EXCEPT ![s].pc = "release", ![s].st = "none"]
    /\ UNCHANGED <<wrow, wbox, wpass, wcan, wints>>

ObserveRelease(s) ==
    /\ wobs[s].pc = "release" /\ wrow' = Released(s)
    /\ wobs' = [wobs EXCEPT ![s] = NoObserve]
    /\ UNCHANGED <<wbot, wbox, wpass, wcan, wints>>
-----------------------------------------------------------------------------
(* Users and faults *)

\* A user starts or stops the container, or it is removed behind the server's back.
TouchContainer(box) ==
    /\ "container" \in WsUsers /\ wbox # "none" /\ wbox' = box
    /\ UNCHANGED <<wrow, wbot, wpass, wobs, wcan, wints>>

\* The backend may have got anywhere by the time its server dies.
CrashServer(s, box) ==
    /\ "crash" \in WsFaults
    /\ wpass[s].pc # "idle" \/ wobs[s].pc # "idle"
    /\ box \in IF wpass[s].pc = "back" THEN Effects(wpass[s].act, FALSE) ELSE {wbox}
    /\ wbox' = box
    /\ wpass' = [wpass EXCEPT ![s] = NoPass] /\ wobs' = [wobs EXCEPT ![s] = NoObserve]
    /\ UNCHANGED <<wrow, wbot, wcan, wints>>

\* lease_until passes.
LeasePasses ==
    /\ wrow.lease /\ wpass[wrow.own].pc \notin {"begin", "entered", "back", "record"}
    /\ wobs[wrow.own].pc \notin {"inspect", "write", "release"}
    /\ wrow' = [wrow EXCEPT !.lease = FALSE]
    /\ UNCHANGED <<wbot, wbox, wpass, wobs, wcan, wints>>

PassStep(s) ==
    \/ ClaimRow(s) \/ CatchUp(s) \/ EnterPass(s) \/ TellStatus(s)
    \/ \E out \in {"ok", "retry", "final"}, box \in Boxes : BackendReturns(s, out, box)
    \/ RecordOutcome(s) \/ ReleaseRow(s) \/ UnmarkRunning(s)

ObserveStep(s) ==
    \/ \E by \in {"loop", "user"} : ObserveGet(s, by)
    \/ ObserveClaim(s) \/ ObserveInspect(s) \/ ObserveWrite(s) \/ ObserveTold(s) \/ ObserveRelease(s)

WorkspaceNext ==
    \/ \E des \in {"present", "absent"}, pres \in BOOLEAN : RecordIntent(des, pres)
    \/ CancelInspect \/ CancelWrite \/ CancelTold
    \/ \E s \in WsServers : PassStep(s) \/ ObserveStep(s)
    \/ \E box \in Boxes : TouchContainer(box) \/ \E s \in WsServers : CrashServer(s, box)
    \/ LeasePasses

WorkspaceSpec == WorkspaceInit /\ [][WorkspaceNext]_wvars
-----------------------------------------------------------------------------
(* Properties *)

\* service.go, leasedContext: "so two instances never drive the same workspace at once".
OneInstanceDrives ==
    \A s, t \in WsServers : wpass[s].pc = "back" /\ wpass[t].pc = "back" => s = t

\* When the backend is set to work, the pass still does what the latest intent asks for:
\* no container is removed, and no data dropped, on an intent that was replaced after the
\* row was claimed.
IntentIsCurrent ==
    [][\A s \in WsServers :
         wpass[s].pc = "begin" /\ wpass'[s].pc \in {"entered", "back"}
           => /\ wpass[s].act = IF wrow.des = "absent" THEN "teardown" ELSE "provision"
              /\ wpass[s].act = "teardown" => wpass[s].pres = wrow.pres]_wvars

\* bots/service.go: "The bot row is deleted only once the workspace is observed absent, so
\* resources cannot be orphaned by a deleted bot".  An answered removal left no container
\* and nobody who is about to make one.
AbsentMeansGone ==
    wrow.set /\ wrow.des = "absent" /\ wrow.caught /\ wrow.obs = "absent"
        => wbox = "none" /\ \A s \in WsServers : wpass[s].pc # "back"

\* types.go: "so a lost request context or a crashed Server never strands a bot in a
\* transitional status".  When the workspace runs, no pass is due for it and nobody is at
\* work, the bot is not shown as being created.
NotStranded ==
    ( /\ wrow.set /\ wrow.des = "present" /\ wrow.obs = "running" /\ wrow.caught
      /\ wcan.pc = "idle"
      /\ \A s \in WsServers : wpass[s].pc = "idle" /\ wobs[s].pc = "idle" )
    => wbot # "creating"

\* The row of the workspace does not promise a removal that has not happened.
WorkspaceInv == WorkspaceTypeOK /\ AbsentMeansGone
=============================================================================
