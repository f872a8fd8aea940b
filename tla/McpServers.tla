----------------------------- MODULE McpServers -----------------------------
(***************************************************************************)
(* McpManager: the MCP servers that agents share, and those that are       *)
(* started for one agent.                                                  *)
(*                                                                         *)
(* start looks for a shared server under the mutex, lets it go, starts a   *)
(* process and initializes it, which may take until its timeout, and takes *)
(* the mutex again to enter it.  The health found then is what every later *)
(* start is told.  An isolated server is asked to shut down before start   *)
(* returns.  shutdown takes a server out of the map and then asks it to    *)
(* end, without a timeout.  A call whose caller drops it ends at an await; *)
(* no process has kill_on_drop.                                            *)
(*                                                                         *)
(* A definition ending in Bug is a mistake the code could have had.        *)
(***************************************************************************)
EXTENDS Integers, FiniteSets

CONSTANTS
    Start,       \* calls of start, and the server process of each
    Stop,        \* calls of shutdown
    Name,        \* names of servers
    Isolated,    \* the names whose mode is isolated
    NameOf,      \* the server each call names
    WithAgent,   \* the starts that have an agent id
    NoServer

ASSUME NoServerAssumption == NoServer \notin Start
ASSUME StopAssumption == Start \cap Stop = {}
ASSUME NameOfAssumption == NameOf \in [Start \cup Stop -> Name]

VARIABLES
    shared,      \* the manager's map: the process of each name, or NoServer
    server,      \* of each process: "none", "running", "exited"
    health,      \* what initialize found: "none" yet, "healthy", "degraded"
    stage,       \* where each call is: "idle", "spawn", "initialize", "insert",
                 \* "shutdown", "asking", "started", "reused", "stopped",
                 \* "dropped", "error"
    given,       \* the process each start answered with and each shutdown took
                 \* out of the map, or NoServer
    stopped,     \* the processes that were asked to shut down
    entered      \* history: per start, the processes that had been entered
                 \* in the map when it looked

serverVars == <<shared, server, health, stage, given, stopped, entered>>

McpInit ==
    /\ shared = [n \in Name |-> NoServer]
    /\ server = [c \in Start |-> "none"]
    /\ health = [c \in Start |-> "none"]
    /\ stage = [c \in Start \cup Stop |-> "idle"]
    /\ given = [c \in Start \cup Stop |-> NoServer]
    /\ stopped = {}
    /\ entered = [c \in Start |-> {}]
-----------------------------------------------------------------------------
Shared(c) == NameOf[c] \notin Isolated

\* The processes that have been entered in the map.
Entered == {c \in Start : Shared(c) /\ stage[c] = "started"}

\* Every start starts a process.
LookUpBug(c) ==
    /\ stage[c] = "idle"
    /\ entered' = [entered EXCEPT ![c] = Entered]
    /\ stage' = [stage EXCEPT ![c] = "spawn"]
    /\ UNCHANGED <<shared, server, health, given, stopped>>

\* Is there a shared server to reuse?
LookUp(c) ==
    /\ stage[c] = "idle"
    /\ entered' = [entered EXCEPT ![c] = Entered]
    /\ IF Shared(c) /\ shared[NameOf[c]] # NoServer
       THEN /\ stage' = [stage EXCEPT ![c] = "reused"]
            /\ given' = [given EXCEPT ![c] = shared[NameOf[c]]]
       ELSE /\ stage' = [stage EXCEPT ![c] = "spawn"]
            /\ UNCHANGED given
    /\ UNCHANGED <<shared, server, health, stopped>>

\* The process is started.
SpawnServer(c) ==
    /\ stage[c] = "spawn"
    /\ Shared(c) \/ c \in WithAgent
    /\ server' = [server EXCEPT ![c] = "running"]
    /\ stage' = [stage EXCEPT ![c] = "initialize"]
    /\ UNCHANGED <<shared, health, given, stopped, entered>>

\* An isolated server without an agent, or a command that cannot be run.
SpawnServerFails(c) ==
    /\ stage[c] = "spawn"
    /\ stage' = [stage EXCEPT ![c] = "error"]
    /\ UNCHANGED <<shared, server, health, given, stopped, entered>>

\* initialize_stdio writes one request and awaits no answer: it fails when the
\* server is gone or does not read before the timeout.
Initialize(c) ==
    /\ stage[c] = "initialize"
    /\ \E found \in {"healthy", "degraded"} :
          health' = [health EXCEPT ![c] = found]
    /\ stage' = [stage EXCEPT ![c] = IF Shared(c) THEN "insert" ELSE "shutdown"]
    /\ UNCHANGED <<shared, server, given, stopped, entered>>

\* The process is entered; one that was in its place is dropped and runs on.
InsertServer(c) ==
    /\ stage[c] = "insert"
    /\ shared' = [shared EXCEPT ![NameOf[c]] = c]
    /\ stage' = [stage EXCEPT ![c] = "started"]
    /\ given' = [given EXCEPT ![c] = c]
    /\ UNCHANGED <<server, health, stopped, entered>>

\* shutdown_stdio, for the isolated server that was just initialized.
ShutDownIsolated(c) ==
    /\ stage[c] = "shutdown"
    /\ stopped' = stopped \cup {c}
    /\ stage' = [stage EXCEPT ![c] = "started"]
    /\ given' = [given EXCEPT ![c] = c]
    /\ UNCHANGED <<shared, server, health, entered>>

\* shutdown takes the server out of the map ...
TakeOut(k) ==
    /\ stage[k] = "idle"
    /\ LET c == shared[NameOf[k]] IN
          /\ stage' = [stage EXCEPT ![k] = IF c = NoServer THEN "error" ELSE "asking"]
          /\ given' = [given EXCEPT ![k] = c]
    /\ shared' = [shared EXCEPT ![NameOf[k]] = NoServer]
    /\ UNCHANGED <<server, health, stopped, entered>>

\* ... and, when shutdown_stdio has returned or failed, kills it.
StopServer(k) ==
    /\ stage[k] = "asking"
    /\ stopped' = stopped \cup {given[k]}
    /\ stage' = [stage EXCEPT ![k] = "stopped"]
    /\ UNCHANGED <<shared, server, health, given, entered>>

\* The future is dropped at an await; a child it held runs on.
DropCall(c) ==
    /\ stage[c] \in {"initialize", "insert", "shutdown", "asking"}
    /\ stage' = [stage EXCEPT ![c] = "dropped"]
    /\ UNCHANGED <<shared, server, health, given, stopped, entered>>

ServerExits(c) ==
    /\ server[c] = "running"
    /\ server' = [server EXCEPT ![c] = "exited"]
    /\ UNCHANGED <<shared, health, stage, given, stopped, entered>>

StartServer(c) ==
    \/ LookUp(c) \/ SpawnServer(c) \/ SpawnServerFails(c) \/ Initialize(c)
    \/ InsertServer(c) \/ ShutDownIsolated(c)

McpNext ==
    \/ \E c \in Start : StartServer(c) \/ ServerExits(c)
    \/ \E k \in Stop : TakeOut(k) \/ StopServer(k)
    \/ \E c \in Start \cup Stop : DropCall(c)

McpSpec == McpInit /\ [][McpNext]_serverVars
-----------------------------------------------------------------------------
\* A shutdown holds the server but has not killed it, or was dropped before.
HeldByShutDown(c) ==
    \E k \in Stop : given[k] = c /\ stage[k] \in {"asking", "dropped"}

\* (start looks and enters under separate locks; shutdown removes a server from
\* the map before it asks it to end.)  A shared server that runs, was not asked
\* to stop and is not in the map any more is held by a shutdown that hangs or was
\* dropped, or was replaced by a start that ran beside its own, neither finding the
\* other: otherwise there is one server of a name, and shutdown finds it.
LostOnlyByRace ==
    \A c \in Start :
        /\ Shared(c) /\ stage[c] = "started"
        /\ server[c] = "running" /\ c \notin stopped
        /\ shared[NameOf[c]] # c
        /\ ~HeldByShutDown(c)
        => \E d \in Start \ {c} :
              /\ Shared(d) /\ NameOf[d] = NameOf[c] /\ stage[d] = "started"
              /\ c \notin entered[d] /\ d \notin entered[c]
=============================================================================
