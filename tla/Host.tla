-------------------------------- MODULE Host --------------------------------
(***************************************************************************)
(* What a pipeline run and the command line rely on outside of the hub:    *)
(* the checkout that merges are simulated in, the supervised runtimes and  *)
(* the MCP servers.  The three share no state, so a behaviour follows one  *)
(* of them.                                                                *)
(***************************************************************************)
EXTENDS MergeSimulation, RuntimeSupervisor, McpServers

VARIABLE part    \* "merge", "runtime" or "mcp"; it never changes

hostVars == <<mergeVars, supervisorVars, serverVars, part>>

HostInit ==
    /\ part \in {"merge", "runtime", "mcp"}
    /\ MergeInit
    /\ SupervisorInit
    /\ McpInit

Merge(A)   == part = "merge" /\ A /\ UNCHANGED <<supervisorVars, serverVars, part>>
Runtime(A) == part = "runtime" /\ A /\ UNCHANGED <<mergeVars, serverVars, part>>
Mcp(A)     == part = "mcp" /\ A /\ UNCHANGED <<mergeVars, supervisorVars, part>>

HostNext == Merge(MergeNext) \/ Runtime(SupervisorNext) \/ Mcp(McpNext)

\* A process that was sent SIGKILL ends; the commands' own steps wait for `kill`
\* and for a sleep only.
HostFairness ==
    /\ \A c \in Child : WF_hostVars(Runtime(c \in killed /\ Exit(c)))
    /\ \A k \in Command : WF_hostVars(Runtime(CommandStep(k)))

HostSpec == HostInit /\ [][HostNext]_hostVars /\ HostFairness
-----------------------------------------------------------------------------
\* (interrupt and shutdown take the mutex, signal, sleep and kill.)  Every
\* command is answered, whatever other calls are waiting and even if the agent
\* ignores its signal, and the agent it found ends.
EveryCommandEnds ==
    \A k \in Command :
        <>(part = "runtime" =>
              \/ at[k] = "unsupervised"
              \/ at[k] = "answered" /\ process[target[k]] # "running")
=============================================================================
