----------------------------- MODULE MCServices -----------------------------
(* The services that share no state with one another, checked in one run:  *)
(* a behaviour exercises one of them and leaves the others in their        *)
(* initial states, so the states add up instead of multiplying.            *)
EXTENDS DecisionOutput, LiveView, BackgroundTasks, ChannelConnections,
        AgentProcesses, BotWorkspace, TLC

VARIABLE service   \* the one that runs

Services == {"output", "view", "agents", "commands", "channel", "processes", "workspace"}

ServicesInit ==
    /\ OutputInit /\ ViewInit /\ BackgroundInit /\ ChannelInit
    /\ AgentProcInit /\ WorkspaceInit
    /\ service \in Services
    /\ service = "workspace" \/ wbox = "none"

\* Some order of the elements of S.
Numbering(S) ==
    CHOOSE f \in [S -> 1..Cardinality(S)] : \A x, y \in S : f[x] = f[y] => x = y
TaskNumber == Numbering(AgentTasks)
OpNumber == Numbering(ChanOps)

\* The tasks of a subagent and the other kinds of tasks only share the waiter; the
\* tasks of a subagent are alike and are submitted in their order.
OnlyTasks(tasks) == \A t \in BgTasks \ tasks : bst'[t] = "none"
TasksInOrder == \A t, u \in AgentTasks : TaskNumber[t] < TaskNumber[u] /\ bst'[t] = "none" => bst'[u] = "none"

\* The operations on a channel are alike and begin in their order.
OpsInOrder == \A o, p \in ChanOps : OpNumber[o] < OpNumber[p] /\ kop'[o].kind = "none" => kop'[p].kind = "none"

\* At most one Observe or CancelRemoval is under way.
OneOnlooker ==
    LET observers == {s \in WsServers : wobs'[s].pc # "idle"}
    IN  Cardinality(observers) + (IF wcan'.pc = "idle" THEN 0 ELSE 1) <= 1

ServicesNext ==
    /\ \/ service = "output" /\ OutputNext
          /\ UNCHANGED <<vvars, bvars, kvars, gvars, wvars>>
       \/ service = "view" /\ ViewNext
          /\ UNCHANGED <<ovars, bvars, kvars, gvars, wvars>>
       \/ service = "agents" /\ BackgroundNext /\ OnlyTasks(AgentTasks) /\ TasksInOrder
          /\ UNCHANGED <<ovars, vvars, kvars, gvars, wvars>>
       \/ service = "commands" /\ BackgroundNext /\ OnlyTasks(ExecTasks \cup DepTasks)
          /\ UNCHANGED <<ovars, vvars, kvars, gvars, wvars>>
       \/ service = "channel" /\ ChannelNext /\ OpsInOrder
          /\ UNCHANGED <<ovars, vvars, bvars, gvars, wvars>>
       \/ service = "processes" /\ AgentProcNext
          /\ UNCHANGED <<ovars, vvars, bvars, kvars, wvars>>
       \/ service = "workspace" /\ WorkspaceNext /\ OneOnlooker
          /\ UNCHANGED <<ovars, vvars, bvars, kvars, gvars>>
    /\ UNCHANGED service

ServicesSpec ==
    ServicesInit /\ [][ServicesNext]_<<ovars, vvars, bvars, kvars, gvars, wvars, service>>

\* The services that do not run stay in their initial states.
ServicesView ==
    <<service, CASE service = "output" -> ovars
                 [] service = "view" -> vvars
                 [] service \in {"agents", "commands"} -> bvars
                 [] service = "channel" -> kvars
                 [] service = "processes" -> gvars
                 [] service = "workspace" -> wvars>>
=============================================================================
