-------------------------- MODULE RuntimeSupervisor --------------------------
(***************************************************************************)
(* RuntimeManager: the agents that run as supervised child processes, and  *)
(* the calls that start, interrupt, shut down and await them.              *)
(*                                                                         *)
(* The manager's map is behind one mutex.  spawn_handle starts the process *)
(* first and takes the mutex to enter it; a child that was in its place is *)
(* dropped from the map and runs on.  wait_output takes the child out of   *)
(* the map and awaits it outside.  A command keeps the mutex from its look *)
(* into the map until it has signalled, slept and looked at the child      *)
(* again.  It signals by process id, which the system gives to another     *)
(* process once the child was reaped.                                      *)
(*                                                                         *)
(* A definition ending in Bug is a mistake the code could have had.        *)
(***************************************************************************)
EXTENDS Integers, FiniteSets

CONSTANTS
    Child,       \* calls of spawn_handle or send_task, and the child of each
    Command,     \* calls of interrupt or shutdown
    Waiter,      \* calls of wait_output
    Agent,       \* agent ids
    AgentOf,     \* the agent that each call is about
    Pid,         \* process ids
    NoPid,
    NoChild

ASSUME NoChildAssumption == NoChild \notin Child \cup Command
ASSUME NoPidAssumption == NoPid \notin Pid
ASSUME CallAssumption ==
    Child \cap Command = {} /\ Child \cap Waiter = {} /\ Command \cap Waiter = {}
ASSUME AgentOfAssumption == AgentOf \in [Child \cup Command \cup Waiter -> Agent]

VARIABLES
    children,    \* the manager's map: the child of each agent, or NoChild
    mutex,       \* the command that holds it, or NoChild
    process,     \* of each child: "none", "running", "exited", "reaped"
    pid,         \* the process id each was given, or NoPid
    strangers,   \* the ids that processes of others have
    killed,      \* the children that were sent SIGKILL
    at,          \* where each call is: "idle", "insert", "signal", "sleep",
                 \* "wait", "answered", "unsupervised"
    target,      \* the child each command or waiter found, or NoChild
    hit          \* history: per command, whom its signal reached: "none" yet,
                 \* "nobody", "child", or "stranger"

supervisorVars ==
    <<children, mutex, process, pid, strangers, killed, at, target, hit>>

Call == Child \cup Command \cup Waiter

SupervisorInit ==
    /\ children = [a \in Agent |-> NoChild]
    /\ mutex = NoChild
    /\ process = [c \in Child |-> "none"]
    /\ pid = [c \in Child |-> NoPid]
    /\ strangers = {}
    /\ killed = {}
    /\ at = [k \in Call |-> "idle"]
    /\ target = [k \in Command \cup Waiter |-> NoChild]
    /\ hit = [k \in Command |-> "none"]
-----------------------------------------------------------------------------
Free == mutex = NoChild

\* A process keeps its id until it is reaped.
Holds(c, p) == process[c] \in {"running", "exited"} /\ pid[c] = p

Available(p) == p \notin strangers /\ \A c \in Child : ~Holds(c, p)

\* spawn_handle starts the process, under any id that is free.
Spawn(c) ==
    /\ at[c] = "idle"
    /\ \E p \in Pid :
          /\ Available(p)
          /\ pid' = [pid EXCEPT ![c] = p]
    /\ process' = [process EXCEPT ![c] = "running"]
    /\ at' = [at EXCEPT ![c] = "insert"]
    /\ UNCHANGED <<children, mutex, strangers, killed, target, hit>>

SpawnFails(c) ==
    /\ at[c] = "idle"
    /\ at' = [at EXCEPT ![c] = "answered"]
    /\ UNCHANGED <<children, mutex, process, pid, strangers, killed, target, hit>>

\* It enters the child; that of an earlier call is dropped.
InsertChild(c) ==
    /\ at[c] = "insert"
    /\ Free
    /\ children' = [children EXCEPT ![AgentOf[c]] = c]
    /\ at' = [at EXCEPT ![c] = "answered"]
    /\ UNCHANGED <<mutex, process, pid, strangers, killed, target, hit>>

\* A child that nobody holds any more: it was replaced in the map.  The runtime
\* reaps it in the background when it has exited.
Orphan(c) ==
    /\ at[c] = "answered"
    /\ children[AgentOf[c]] # c
    /\ \A w \in Waiter : target[w] # c

\* A process ends by itself, or by a signal.
Exit(c) ==
    /\ process[c] = "running"
    /\ process' = [process EXCEPT ![c] = "exited"]
    /\ UNCHANGED <<children, mutex, pid, strangers, killed, at, target, hit>>

ReapOrphan(c) ==
    /\ process[c] = "exited"
    /\ Orphan(c)
    /\ process' = [process EXCEPT ![c] = "reaped"]
    /\ UNCHANGED <<children, mutex, pid, strangers, killed, at, target, hit>>

\* Other processes of the system come and go.
StrangerStarts(p) ==
    /\ Available(p)
    /\ strangers' = strangers \cup {p}
    /\ UNCHANGED <<children, mutex, process, pid, killed, at, target, hit>>

StrangerEnds(p) ==
    /\ p \in strangers
    /\ strangers' = strangers \ {p}
    /\ UNCHANGED <<children, mutex, process, pid, killed, at, target, hit>>

\* The mutex is let go after the look.
LockBug(k) ==
    /\ at[k] = "idle"
    /\ Free
    /\ LET c == children[AgentOf[k]] IN
       IF c = NoChild
       THEN /\ at' = [at EXCEPT ![k] = "unsupervised"]
            /\ UNCHANGED target
       ELSE /\ at' = [at EXCEPT ![k] = "signal"]
            /\ target' = [target EXCEPT ![k] = c]
    /\ UNCHANGED <<children, mutex, process, pid, strangers, killed, hit>>

\* signal_then_kill looks for the agent's child, and keeps the mutex with it.
Lock(k) ==
    /\ at[k] = "idle"
    /\ Free
    /\ LET c == children[AgentOf[k]] IN
       IF c = NoChild
       THEN /\ at' = [at EXCEPT ![k] = "unsupervised"]
            /\ UNCHANGED <<mutex, target>>
       ELSE /\ at' = [at EXCEPT ![k] = "signal"]
            /\ mutex' = k
            /\ target' = [target EXCEPT ![k] = c]
    /\ UNCHANGED <<children, process, pid, strangers, killed, hit>>

\* send_signal, by the id in the handle; the child may ignore it or Exit.
Signal(k) ==
    /\ at[k] = "signal"
    /\ at' = [at EXCEPT ![k] = "sleep"]
    /\ LET p == pid[target[k]] IN
       hit' = [hit EXCEPT ![k] =
                  IF Holds(target[k], p) THEN "child"
                  ELSE IF Available(p) THEN "nobody" ELSE "stranger"]
    /\ UNCHANGED <<children, mutex, process, pid, strangers, killed, target>>

\* The child is awaited instead of being looked at and killed.
TryWaitBug(k) ==
    /\ at[k] = "sleep"
    /\ at' = [at EXCEPT ![k] = "answered"]
    /\ mutex' = NoChild
    /\ process[target[k]] # "running"
    /\ process' = [process EXCEPT ![target[k]] = "reaped"]
    /\ UNCHANGED <<children, pid, strangers, killed, target, hit>>

\* After the sleep try_wait reaps a child that has exited, and one that has not
\* is killed.
TryWait(k) ==
    /\ at[k] = "sleep"
    /\ at' = [at EXCEPT ![k] = "answered"]
    /\ mutex' = NoChild
    /\ LET c == target[k] IN
       \/ /\ process[c] = "exited"
          /\ process' = [process EXCEPT ![c] = "reaped"]
          /\ UNCHANGED killed
       \/ /\ process[c] = "running"
          /\ killed' = killed \cup {c}
          /\ UNCHANGED process
       \/ /\ process[c] = "reaped"
          /\ UNCHANGED <<process, killed>>
    /\ UNCHANGED <<children, pid, strangers, target, hit>>

\* wait_output takes the child out of the map.
Take(w) ==
    /\ at[w] = "idle"
    /\ Free
    /\ LET c == children[AgentOf[w]] IN
       IF c = NoChild
       THEN /\ at' = [at EXCEPT ![w] = "unsupervised"]
            /\ UNCHANGED <<children, target>>
       ELSE /\ at' = [at EXCEPT ![w] = "wait"]
            /\ children' = [children EXCEPT ![AgentOf[w]] = NoChild]
            /\ target' = [target EXCEPT ![w] = c]
    /\ UNCHANGED <<mutex, process, pid, strangers, killed, hit>>

\* wait_with_output returns.
Output(w) ==
    /\ at[w] = "wait"
    /\ process[target[w]] \in {"exited", "reaped"}
    /\ process' = [process EXCEPT ![target[w]] = "reaped"]
    /\ at' = [at EXCEPT ![w] = "answered"]
    /\ UNCHANGED <<children, mutex, pid, strangers, killed, target, hit>>

CommandStep(k) == Lock(k) \/ Signal(k) \/ TryWait(k)

SupervisorNext ==
    \/ \E c \in Child :
          Spawn(c) \/ SpawnFails(c) \/ InsertChild(c) \/ Exit(c) \/ ReapOrphan(c)
    \/ \E p \in Pid : StrangerStarts(p) \/ StrangerEnds(p)
    \/ \E k \in Command : CommandStep(k)
    \/ \E w \in Waiter : Take(w) \/ Output(w)

SupervisorSpec == SupervisorInit /\ [][SupervisorNext]_supervisorVars
-----------------------------------------------------------------------------
\* (signal_then_kill signals the id in the handle.)  A signal that was meant for
\* an agent reaches another process only after an earlier command on that agent
\* found it ended, and left it in the map.  The mutex is held over the sleep, so
\* the two cannot overlap, nor can an insert or a wait_output in between.
StrangerOnlyAfterReap ==
    \A k \in Command : hit[k] = "stranger" =>
        \E j \in Command \ {k} : at[j] = "answered" /\ target[j] = target[k]
=============================================================================
