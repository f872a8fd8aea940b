----------------------------- MODULE Host_proofs -----------------------------
(***************************************************************************)
(* What module Host promises, for any number of calls: each part on its    *)
(* own first, and then the three beside each other.                        *)
(***************************************************************************)
EXTENDS Host, TLAPS

(***************************************************************************)
(* The checkout: FalseConflictHasCause and LeftoverIsCleared, whatever the *)
(* branches give.                                                          *)
(***************************************************************************)

\* The type invariant.
MergeTypeOK ==
    /\ phase \in [Simulation -> {"idle", "merge", "abort", "returned", "failed", "dropped"}]
    /\ git \in [Simulation -> {"none", "merge", "abort"}]
    /\ verdict \in [Simulation -> {"none", "clean", "unclean"}]
    /\ mergeHead \in Simulation \cup {NoSim}
    /\ cause \in [Simulation -> Simulation \cup {NoSim}]
    /\ earlier \in [Simulation -> SUBSET Simulation]
    /\ settled \in [Simulation -> SUBSET Simulation]

\* One process has the lock.
LockInv == \A s, t \in Simulation : Locks(s) /\ Locks(t) => s = t

\* A call that waits for git, or was dropped while it did, is the one git runs for.
GitInv ==
    \A s \in Simulation :
        /\ git[s] = "merge" => phase[s] \in {"merge", "dropped"} /\ verdict[s] = "none"
        /\ git[s] = "abort" => phase[s] \in {"abort", "dropped"}
        /\ phase[s] = "abort" => git[s] = "abort"
        /\ phase[s] = "idle" => verdict[s] = "none"

\* While git merges there is no MERGE_HEAD; and a call that has returned left none,
\* unless somebody's abort is about to remove it.
HeadInv ==
    /\ \A s \in Simulation : git[s] = "merge" => mergeHead = NoSim
    /\ \A s \in Simulation : Returned(s) /\ mergeHead = s =>
          \E u \in Simulation : git[u] = "abort"
    /\ mergeHead # NoSim => phase[mergeHead] # "idle"

\* A merge that has ended never runs again.
SettledInv == \A s \in Simulation : \A t \in settled[s] : MergeEnded(t)

MergeIInv ==
    /\ MergeTypeOK
    /\ LockInv
    /\ GitInv
    /\ HeadInv
    /\ SettledInv
    /\ FalseConflictHasCause
    /\ LeftoverIsCleared

\* The simulations begin in the invariant.
LEMMA MergeInitial == MergeInit => MergeIInv
  BY NoSimAssumption
     DEF MergeInit, MergeIInv, MergeTypeOK, LockInv, Locks, GitInv, HeadInv, Returned,
         SettledInv, MergeEnded, FalseConflictHasCause, LeftoverIsCleared

\* The call that keeps a merge from running has not returned.
LEMMA StartMergeStep ==
  ASSUME MergeIInv, NEW s \in Simulation, StartMerge(s)
  PROVE  MergeIInv'
<1> USE NoSimAssumption, BranchAssumption DEF MergeIInv
<1>1. /\ phase[s] = "idle" /\ phase'[s] = "merge"
      /\ \A t \in Simulation \ {s} :
            /\ phase'[t] = phase[t] /\ git'[t] = git[t] /\ verdict'[t] = verdict[t]
            /\ cause'[t] = cause[t] /\ earlier'[t] = earlier[t] /\ settled'[t] = settled[t]
      /\ earlier'[s] = {t \in Simulation : Returned(t)}
      /\ settled'[s] = {t \in Simulation : MergeEnded(t)}
      /\ mergeHead' = mergeHead
      /\ git[s] = "none" /\ verdict[s] = "none"
  BY DEF StartMerge, MergeTypeOK, GitInv
<1>2. MergeTypeOK'
  BY DEF StartMerge, MergeTypeOK
<1>3. \/ /\ ~Locked /\ mergeHead = NoSim
         /\ git'[s] = "merge" /\ verdict'[s] = "none"
      \/ /\ git' = git /\ verdict'[s] = "unclean"
         /\ cause'[s] \in Simulation /\ ~Returned(cause'[s])
  <2>1. CASE ~Locked /\ mergeHead = NoSim
    BY <2>1, <1>1 DEF StartMerge, MergeTypeOK, Locked, Locks
  <2>2. CASE Locked
    BY <2>2, <1>1 DEF StartMerge, MergeTypeOK, Locked, Locks, GitInv, Returned
  <2>3. CASE ~Locked /\ mergeHead # NoSim
    BY <2>3, <1>1 DEF StartMerge, MergeTypeOK, Locked, Locks, HeadInv, Returned
  <2> QED BY <2>1, <2>2, <2>3
<1>4. LockInv'
  BY <1>1, <1>3 DEF LockInv, Locks, Locked
<1>5. GitInv'
  BY <1>1, <1>3 DEF GitInv
<1>6. HeadInv'
  BY <1>1, <1>3 DEF HeadInv, Returned, MergeTypeOK
<1>7. SettledInv'
  BY <1>1, <1>3 DEF SettledInv, MergeEnded, MergeTypeOK
<1>8. FalseConflictHasCause'
  BY <1>1, <1>3 DEF FalseConflictHasCause, Returned, MergeTypeOK
<1>9. LeftoverIsCleared'
  BY <1>1, <1>3 DEF LeftoverIsCleared, Returned, MergeTypeOK
<1> QED BY <1>2, <1>4, <1>5, <1>6, <1>7, <1>8, <1>9

\* The end of a merge preserves it,
LEMMA FinishMergeStep ==
  ASSUME MergeIInv, NEW s \in Simulation, FinishMerge(s)
  PROVE  MergeIInv'
<1> USE NoSimAssumption, BranchAssumption DEF MergeIInv
<1>1. /\ git[s] = "merge" /\ git'[s] = "none"
      /\ \A t \in Simulation \ {s} : git'[t] = git[t] /\ verdict'[t] = verdict[t]
      /\ verdict'[s] = "unclean" => Branch[s] = "conflict"
      /\ mergeHead' \in {s, NoSim}
      /\ UNCHANGED <<phase, cause, earlier, settled>>
      /\ phase[s] \in {"merge", "dropped"}
  BY DEF FinishMerge, MergeTypeOK, GitInv
<1>2. MergeTypeOK'
  BY DEF FinishMerge, MergeTypeOK
<1>3. LockInv'
  BY <1>1 DEF LockInv, Locks
<1>4. GitInv'
  BY <1>1 DEF GitInv
<1>5. \A t \in Simulation : git'[t] # "merge"
  BY <1>1 DEF LockInv, Locks
<1>6. HeadInv'
  BY <1>1, <1>5 DEF HeadInv, Returned
<1>7. SettledInv'
  BY <1>1 DEF SettledInv, MergeEnded, MergeTypeOK
<1>8. FalseConflictHasCause'
  BY <1>1 DEF FalseConflictHasCause
<1>9. LeftoverIsCleared'
  BY <1>1 DEF LeftoverIsCleared, SettledInv, MergeEnded, MergeTypeOK
<1> QED BY <1>2, <1>3, <1>4, <1>6, <1>7, <1>8, <1>9

\* An abort that cannot run is another's, or there is nothing to abort.
LEMMA StartAbortStep ==
  ASSUME MergeIInv, NEW s \in Simulation, StartAbort(s)
  PROVE  MergeIInv'
<1> USE NoSimAssumption, BranchAssumption DEF MergeIInv
<1>1. /\ phase[s] = "merge" /\ verdict[s] # "none"
      /\ git[s] = "none"
      /\ \A t \in Simulation \ {s} : phase'[t] = phase[t] /\ git'[t] = git[t]
      /\ UNCHANGED <<verdict, mergeHead, cause, earlier, settled>>
  BY DEF StartAbort, MergeTypeOK, GitInv
<1>2. MergeTypeOK'
  BY DEF StartAbort, MergeTypeOK
<1>3. \/ /\ ~Locked /\ mergeHead # NoSim
         /\ git'[s] = "abort" /\ phase'[s] = "abort"
      \/ /\ git' = git /\ phase'[s] = "returned"
         /\ mergeHead = NoSim \/ \E u \in Simulation : git[u] = "abort"
  <2>1. CASE ~Locked /\ mergeHead # NoSim
    BY <2>1, <1>1 DEF StartAbort, MergeTypeOK
  <2>2. CASE mergeHead = NoSim
    BY <2>2, <1>1 DEF StartAbort, MergeTypeOK
  <2>3. CASE Locked /\ mergeHead # NoSim
    BY <2>3, <1>1 DEF StartAbort, MergeTypeOK, Locked, Locks, HeadInv
  <2> QED BY <2>1, <2>2, <2>3
<1>4. LockInv'
  BY <1>1, <1>3 DEF LockInv, Locks, Locked
<1>5. GitInv'
  BY <1>1, <1>3 DEF GitInv
<1>6. HeadInv'
  BY <1>1, <1>3 DEF HeadInv, Returned, Locked, Locks, MergeTypeOK
<1>7. SettledInv'
  BY <1>1, <1>3 DEF SettledInv, MergeEnded, MergeTypeOK
<1>8. FalseConflictHasCause'
  BY <1>1 DEF FalseConflictHasCause
<1>9. LeftoverIsCleared'
  BY <1>1, <1>3 DEF LeftoverIsCleared, Returned, MergeTypeOK, Locked, Locks
<1> QED BY <1>2, <1>4, <1>5, <1>6, <1>7, <1>8, <1>9

\* and so does the end of an abort.
LEMMA FinishAbortStep ==
  ASSUME MergeIInv, NEW s \in Simulation, FinishAbort(s)
  PROVE  MergeIInv'
<1> USE NoSimAssumption, BranchAssumption DEF MergeIInv
<1>1. /\ git[s] = "abort" /\ git'[s] = "none"
      /\ phase[s] \in {"abort", "dropped"} /\ phase'[s] \in {"returned", "dropped"}
      /\ \A t \in Simulation \ {s} : phase'[t] = phase[t] /\ git'[t] = git[t]
      /\ mergeHead' = NoSim
      /\ UNCHANGED <<verdict, cause, earlier, settled>>
  BY DEF FinishAbort, MergeTypeOK, GitInv
<1>2. MergeTypeOK'
  BY DEF FinishAbort, MergeTypeOK
<1>3. LockInv'
  BY <1>1 DEF LockInv, Locks
<1>4. GitInv'
  BY <1>1 DEF GitInv
<1>5. HeadInv'
  BY <1>1 DEF HeadInv
<1>6. SettledInv'
  BY <1>1 DEF SettledInv, MergeEnded, MergeTypeOK
<1>7. FalseConflictHasCause'
  BY <1>1 DEF FalseConflictHasCause
<1>8. LeftoverIsCleared'
  BY <1>1 DEF LeftoverIsCleared, MergeTypeOK
<1> QED BY <1>2, <1>3, <1>4, <1>5, <1>6, <1>7, <1>8

\* A call that ends without git: an error, or the timer.
LEMMA LeaveStep ==
  ASSUME MergeIInv, NEW s \in Simulation, GitMissing(s) \/ Drop(s)
  PROVE  MergeIInv'
<1> USE NoSimAssumption, BranchAssumption DEF MergeIInv
<1>1. /\ phase'[s] \in {"failed", "dropped"}
      /\ phase'[s] = "failed" => git[s] = "none"
      /\ \A t \in Simulation \ {s} : phase'[t] = phase[t]
      /\ UNCHANGED <<git, verdict, mergeHead, cause, earlier, settled>>
  BY DEF GitMissing, Drop, MergeTypeOK, GitInv
<1>2. MergeTypeOK'
  BY DEF GitMissing, Drop, MergeTypeOK
<1>3. LockInv'
  BY <1>1 DEF LockInv, Locks
<1>4. GitInv'
  BY <1>1 DEF GitInv
<1>5. HeadInv'
  BY <1>1 DEF HeadInv, Returned, MergeTypeOK
<1>6. SettledInv'
  BY <1>1 DEF SettledInv, MergeEnded, MergeTypeOK
<1>7. FalseConflictHasCause'
  BY <1>1 DEF FalseConflictHasCause
<1>8. LeftoverIsCleared'
  BY <1>1 DEF LeftoverIsCleared, Returned
<1> QED BY <1>2, <1>3, <1>4, <1>5, <1>6, <1>7, <1>8

\* Every step of the simulations preserves their invariant.
LEMMA MergeNextPreserves == MergeIInv /\ [MergeNext]_mergeVars => MergeIInv'
<1> SUFFICES ASSUME MergeIInv, [MergeNext]_mergeVars
             PROVE  MergeIInv'
  OBVIOUS
<1>1. ASSUME NEW s \in Simulation, SimulationStep(s) \/ GitMissing(s) \/ Drop(s)
      PROVE  MergeIInv'
  BY <1>1, StartMergeStep, FinishMergeStep, StartAbortStep, FinishAbortStep, LeaveStep
     DEF SimulationStep
<1>2. CASE UNCHANGED mergeVars
  BY <1>2 DEF mergeVars, MergeIInv, MergeTypeOK, LockInv, Locks, GitInv, HeadInv,
              Returned, SettledInv, MergeEnded, FalseConflictHasCause, LeftoverIsCleared
<1> QED BY <1>1, <1>2 DEF MergeNext

\* The invariant of the simulations holds always.
LEMMA MergeInductive == MergeSpec => []MergeIInv
  BY MergeInitial, MergeNextPreserves, PTL DEF MergeSpec

\* A conflict that the branch does not have is the doing of a simulation that had
\* not returned.
THEOREM FalseConflictsHaveCauses == MergeSpec => []FalseConflictHasCause
<1>1. MergeIInv => FalseConflictHasCause
  BY DEF MergeIInv
<1> QED BY <1>1, MergeInductive, PTL

\* What a dropped simulation leaves in the checkout, the next one that returns has
\* cleared.
THEOREM LeftoversAreCleared == MergeSpec => []LeftoverIsCleared
<1>1. MergeIInv => LeftoverIsCleared
  BY DEF MergeIInv
<1> QED BY <1>1, MergeInductive, PTL

-----------------------------------------------------------------------------
(***************************************************************************)
(* The supervised runtimes: StrangerOnlyAfterReap, for any number of       *)
(* agents and process ids.                                                 *)
(***************************************************************************)

\* The type invariant.
SupervisorTypeOK ==
    /\ children \in [Agent -> Child \cup {NoChild}]
    /\ mutex \in Command \cup {NoChild}
    /\ process \in [Child -> {"none", "running", "exited", "reaped"}]
    /\ pid \in [Child -> Pid \cup {NoPid}]
    /\ at \in [Call -> {"idle", "insert", "signal", "sleep", "wait", "answered",
                        "unsupervised"}]
    /\ target \in [Command \cup Waiter -> Child \cup {NoChild}]
    /\ hit \in [Command -> {"none", "nobody", "child", "stranger"}]

\* A child is started before it is entered.
StartedInv ==
    \A c \in Child :
        /\ at[c] = "insert" => process[c] \in {"running", "exited"}
        /\ at[c] \in {"idle", "insert", "answered"}

\* A command has found the child and reaped it, or killed it.
FinishedBy(c) == \E j \in Command : at[j] = "answered" /\ target[j] = c

\* A child in the map is its agent's; if it is reaped, a command did it.
ChildrenInv ==
    \A a \in Agent : children[a] # NoChild =>
        /\ AgentOf[children[a]] = a
        /\ at[children[a]] = "answered"
        /\ process[children[a]] # "none"
        /\ process[children[a]] = "reaped" => FinishedBy(children[a])

\* The command that has the mutex has its target in the map.
MutexInv ==
    \A k \in Command :
        /\ at[k] \in {"idle", "signal", "sleep", "answered", "unsupervised"}
        /\ at[k] \in {"signal", "sleep"} =>
              /\ mutex = k
              /\ target[k] # NoChild
              /\ children[AgentOf[k]] = target[k]
        /\ at[k] \in {"idle", "signal"} => hit[k] = "none"

\* What wait_output has taken is not in the map.
TakenInv ==
    \A w \in Waiter :
        /\ at[w] \in {"idle", "wait", "answered", "unsupervised"}
        /\ target[w] # NoChild =>
              /\ at[target[w]] = "answered"
              /\ children[AgentOf[target[w]]] # target[w]
        /\ at[w] = "wait" => target[w] # NoChild

SupervisorIInv ==
    /\ SupervisorTypeOK
    /\ StartedInv
    /\ ChildrenInv
    /\ MutexInv
    /\ TakenInv
    /\ StrangerOnlyAfterReap

\* The supervisor begins in the invariant.
LEMMA SupervisorInitial == SupervisorInit => SupervisorIInv
  BY NoChildAssumption, NoPidAssumption, CallAssumption, AgentOfAssumption
     DEF SupervisorInit, SupervisorIInv, SupervisorTypeOK, StartedInv, ChildrenInv, MutexInv,
         TakenInv, StrangerOnlyAfterReap, Call

\* The invariant but for the types speaks of what these steps leave alone.
LEMMA SpawnStep ==
  ASSUME SupervisorIInv, NEW c \in Child, Spawn(c) \/ SpawnFails(c)
  PROVE  SupervisorIInv'
<1> USE NoChildAssumption, NoPidAssumption, CallAssumption, AgentOfAssumption
<1> USE DEF SupervisorIInv
<1>1. SupervisorTypeOK'
  BY DEF Spawn, SpawnFails, SupervisorTypeOK, Call
<1>2. /\ at[c] = "idle" /\ at'[c] \in {"insert", "answered"}
      /\ at'[c] = "insert" => process'[c] = "running"
      /\ \A d \in Child \ {c} : process'[d] = process[d]
      /\ \A k \in Call \ {c} : at'[k] = at[k]
      /\ UNCHANGED <<children, mutex, target, hit>>
  BY DEF Spawn, SpawnFails, SupervisorTypeOK, Call
<1>3. StartedInv'
  BY <1>2 DEF StartedInv, Call
<1>4. ChildrenInv'
  BY <1>2 DEF ChildrenInv, FinishedBy, SupervisorTypeOK, Call
<1>5. MutexInv'
  BY <1>2 DEF MutexInv, Call
<1>6. TakenInv'
  BY <1>2 DEF TakenInv, SupervisorTypeOK, Call
<1>7. StrangerOnlyAfterReap'
  BY <1>2 DEF StrangerOnlyAfterReap, Call
<1> QED BY <1>1, <1>3, <1>4, <1>5, <1>6, <1>7

\* No command is in between, and so none loses its target.
LEMMA InsertChildStep ==
  ASSUME SupervisorIInv, NEW c \in Child, InsertChild(c)
  PROVE  SupervisorIInv'
<1> USE NoChildAssumption, NoPidAssumption, CallAssumption, AgentOfAssumption
<1> USE DEF SupervisorIInv
<1>1. SupervisorTypeOK'
  BY DEF InsertChild, SupervisorTypeOK, Call
<1>2. /\ at[c] = "insert" /\ at'[c] = "answered" /\ mutex = NoChild
      /\ AgentOf[c] \in Agent
      /\ children'[AgentOf[c]] = c
      /\ \A a \in Agent \ {AgentOf[c]} : children'[a] = children[a]
      /\ \A k \in Call \ {c} : at'[k] = at[k]
      /\ UNCHANGED <<mutex, process, target, hit>>
  BY DEF InsertChild, Free, SupervisorTypeOK, Call
<1>3. StartedInv'
  BY <1>2 DEF StartedInv, Call
<1>4. ChildrenInv'
  BY <1>2 DEF ChildrenInv, StartedInv, FinishedBy, SupervisorTypeOK, Call
<1>5. MutexInv'
  BY <1>2 DEF MutexInv, Call
<1>6. TakenInv'
  <2> SUFFICES ASSUME NEW w \in Waiter, target[w] # NoChild
               PROVE  /\ at'[target[w]] = "answered"
                      /\ children'[AgentOf[target[w]]] # target[w]
    BY <1>2 DEF TakenInv, Call
  <2>1. target[w] \in Child /\ AgentOf[target[w]] \in Agent
    BY DEF SupervisorTypeOK
  <2>2. at[target[w]] = "answered" /\ children[AgentOf[target[w]]] # target[w]
    BY DEF TakenInv
  <2> QED BY <1>2, <2>1, <2>2 DEF Call
<1>7. StrangerOnlyAfterReap'
  BY <1>2 DEF StrangerOnlyAfterReap, Call
<1> QED BY <1>1, <1>3, <1>4, <1>5, <1>6, <1>7

\* Processes end; an orphan is not in the map.
LEMMA ProcessStep ==
  ASSUME SupervisorIInv, NEW c \in Child, Exit(c) \/ ReapOrphan(c)
  PROVE  SupervisorIInv'
<1> USE NoChildAssumption, NoPidAssumption, CallAssumption, AgentOfAssumption
<1> USE DEF SupervisorIInv
<1>1. SupervisorTypeOK'
  BY DEF Exit, ReapOrphan, SupervisorTypeOK
<1>2. /\ process[c] \in {"running", "exited"} /\ process'[c] \in {"exited", "reaped"}
      /\ process'[c] = "reaped" => at[c] = "answered" /\ children[AgentOf[c]] # c
      /\ \A d \in Child \ {c} : process'[d] = process[d]
      /\ UNCHANGED <<children, mutex, at, target, hit>>
  BY DEF Exit, ReapOrphan, Orphan, SupervisorTypeOK
<1>3. StartedInv'
  BY <1>2 DEF StartedInv
<1>4. ChildrenInv'
  BY <1>2 DEF ChildrenInv, FinishedBy, SupervisorTypeOK
<1>5. MutexInv'
  BY <1>2 DEF MutexInv
<1>6. TakenInv'
  BY <1>2 DEF TakenInv
<1>7. StrangerOnlyAfterReap'
  BY <1>2 DEF StrangerOnlyAfterReap
<1> QED BY <1>1, <1>3, <1>4, <1>5, <1>6, <1>7

\* A process that is not an agent's starts, or ends.
LEMMA StrangerStep ==
  ASSUME SupervisorIInv, NEW p \in Pid, StrangerStarts(p) \/ StrangerEnds(p)
  PROVE  SupervisorIInv'
<1>1. UNCHANGED <<children, mutex, process, pid, at, target, hit>>
  BY DEF StrangerStarts, StrangerEnds
<1> QED
  BY <1>1 DEF SupervisorIInv, SupervisorTypeOK, StartedInv, ChildrenInv, FinishedBy, MutexInv,
              TakenInv, StrangerOnlyAfterReap

\* A command takes the lock of the map of children.
LEMMA LockStep ==
  ASSUME SupervisorIInv, NEW k \in Command, Lock(k)
  PROVE  SupervisorIInv'
<1> USE NoChildAssumption, NoPidAssumption, CallAssumption, AgentOfAssumption
<1> USE DEF SupervisorIInv
<1>1. SupervisorTypeOK'
  <2>1. AgentOf[k] \in Agent
    OBVIOUS
  <2> QED BY <2>1 DEF Lock, SupervisorTypeOK, Call
<1>2. /\ at[k] = "idle" /\ mutex = NoChild
      /\ at'[k] \in {"signal", "unsupervised"}
      /\ at'[k] = "signal" =>
            mutex' = k /\ target'[k] = children[AgentOf[k]] /\ target'[k] # NoChild
      /\ \A l \in Call \ {k} : at'[l] = at[l]
      /\ \A l \in (Command \cup Waiter) \ {k} : target'[l] = target[l]
      /\ UNCHANGED <<children, process, hit>>
      /\ hit[k] = "none"
  BY DEF Lock, Free, SupervisorTypeOK, Call, MutexInv
<1>3. StartedInv'
  BY <1>2 DEF StartedInv, Call
<1>4. ChildrenInv'
  BY <1>2 DEF ChildrenInv, FinishedBy, SupervisorTypeOK, Call
<1>5. MutexInv'
  BY <1>2 DEF MutexInv, Call
<1>6. TakenInv'
  BY <1>2 DEF TakenInv, SupervisorTypeOK, Call
<1>7. StrangerOnlyAfterReap'
  <2> SUFFICES ASSUME NEW l \in Command, hit[l] = "stranger"
               PROVE  \E j \in Command \ {l} : at'[j] = "answered" /\ target'[j] = target'[l]
    BY <1>2 DEF StrangerOnlyAfterReap
  <2>1. PICK j \in Command \ {l} : at[j] = "answered" /\ target[j] = target[l]
    BY DEF StrangerOnlyAfterReap
  <2>2. l # k
    BY <1>2
  <2> QED BY <1>2, <2>1 DEF Call
<1> QED BY <1>1, <1>3, <1>4, <1>5, <1>6, <1>7

\* The target is in the map, and so a command reaped it if anybody did.
LEMMA SignalStep ==
  ASSUME SupervisorIInv, NEW k \in Command, Signal(k)
  PROVE  SupervisorIInv'
<1> USE NoChildAssumption, NoPidAssumption, CallAssumption, AgentOfAssumption
<1> USE DEF SupervisorIInv
<1>1. SupervisorTypeOK'
  BY DEF Signal, SupervisorTypeOK, Call
<1>2. /\ at[k] = "signal" /\ at'[k] = "sleep"
      /\ \A l \in Call \ {k} : at'[l] = at[l]
      /\ \A l \in Command \ {k} : hit'[l] = hit[l]
      /\ hit'[k] = "stranger" => ~Holds(target[k], pid[target[k]])
      /\ UNCHANGED <<children, mutex, process, target>>
  BY DEF Signal, SupervisorTypeOK, Call
<1>3. StartedInv'
  BY <1>2 DEF StartedInv, Call
<1>4. ChildrenInv'
  BY <1>2 DEF ChildrenInv, FinishedBy, SupervisorTypeOK, Call
<1>5. MutexInv'
  BY <1>2 DEF MutexInv, Call
<1>6. TakenInv'
  BY <1>2 DEF TakenInv, SupervisorTypeOK, Call
<1>7. StrangerOnlyAfterReap'
  <2>1. ASSUME hit'[k] = "stranger"
        PROVE  FinishedBy(target[k])
    <3>1. /\ target[k] \in Child /\ AgentOf[k] \in Agent
          /\ children[AgentOf[k]] = target[k]
      BY <1>2 DEF MutexInv, SupervisorTypeOK
    <3>2. process[target[k]] = "reaped"
      BY <1>2, <2>1, <3>1 DEF Holds, ChildrenInv, SupervisorTypeOK
    <3> QED BY <3>1, <3>2 DEF ChildrenInv
  <2>2. ASSUME NEW l \in Command \ {k}, hit[l] = "stranger"
        PROVE  \E j \in Command \ {l} : at'[j] = "answered" /\ target'[j] = target'[l]
    <3>1. PICK j \in Command \ {l} : at[j] = "answered" /\ target[j] = target[l]
      BY <2>2 DEF StrangerOnlyAfterReap
    <3> QED BY <1>2, <3>1 DEF Call
  <2>3. ASSUME hit'[k] = "stranger"
        PROVE  \E j \in Command \ {k} : at'[j] = "answered" /\ target'[j] = target'[k]
    <3>1. PICK j \in Command : at[j] = "answered" /\ target[j] = target[k]
      BY <2>1, <2>3 DEF FinishedBy
    <3> QED BY <1>2, <3>1 DEF Call
  <2> QED BY <1>2, <2>2, <2>3 DEF StrangerOnlyAfterReap
<1> QED BY <1>1, <1>3, <1>4, <1>5, <1>6, <1>7

\* What this reaps is in the map, and the command that reaped it answers.
LEMMA TryWaitStep ==
  ASSUME SupervisorIInv, NEW k \in Command, TryWait(k)
  PROVE  SupervisorIInv'
<1> USE NoChildAssumption, NoPidAssumption, CallAssumption, AgentOfAssumption
<1> USE DEF SupervisorIInv
<1>0. /\ at[k] = "sleep" /\ target[k] \in Child
  BY DEF TryWait, MutexInv, SupervisorTypeOK
<1>1. SupervisorTypeOK'
  BY DEF TryWait, SupervisorTypeOK, Call
<1>2. /\ at'[k] = "answered" /\ mutex' = NoChild /\ mutex = k
      /\ \A l \in Call \ {k} : at'[l] = at[l]
      /\ \A d \in Child \ {target[k]} : process'[d] = process[d]
      /\ process[target[k]] # "none" => process'[target[k]] # "none"
      /\ UNCHANGED <<children, target, hit>>
  BY <1>0 DEF TryWait, SupervisorTypeOK, Call, MutexInv
<1>3. StartedInv'
  <2>1. at[target[k]] = "answered"
    BY <1>0 DEF MutexInv, ChildrenInv, SupervisorTypeOK
  <2> QED BY <1>0, <1>2, <2>1 DEF StartedInv, Call
<1>4. ChildrenInv'
  <2> SUFFICES ASSUME NEW a \in Agent, children[a] # NoChild
               PROVE  /\ AgentOf[children[a]] = a
                      /\ at'[children[a]] = "answered"
                      /\ process'[children[a]] # "none"
                      /\ process'[children[a]] = "reaped" => FinishedBy(children[a])'
    BY <1>2 DEF ChildrenInv
  <2>1. children[a] \in Child
    BY DEF SupervisorTypeOK
  <2>2. FinishedBy(target[k])'
    BY <1>0, <1>2 DEF FinishedBy
  <2>3. FinishedBy(children[a]) => FinishedBy(children[a])'
    BY <1>0, <1>2 DEF FinishedBy, Call
  <2> QED BY <1>0, <1>2, <2>1, <2>2, <2>3 DEF ChildrenInv, Call
<1>5. MutexInv'
  BY <1>0, <1>2 DEF MutexInv, Call
<1>6. TakenInv'
  BY <1>0, <1>2 DEF TakenInv, SupervisorTypeOK, Call
<1>7. StrangerOnlyAfterReap'
  BY <1>0, <1>2 DEF StrangerOnlyAfterReap, Call
<1> QED BY <1>1, <1>3, <1>4, <1>5, <1>6, <1>7

\* A waiter takes its agent's child out of the map.
LEMMA TakeStep ==
  ASSUME SupervisorIInv, NEW w \in Waiter, Take(w)
  PROVE  SupervisorIInv'
<1> USE NoChildAssumption, NoPidAssumption, CallAssumption, AgentOfAssumption
<1> USE DEF SupervisorIInv
<1>0. AgentOf[w] \in Agent
  OBVIOUS
<1>1. SupervisorTypeOK'
  BY <1>0 DEF Take, SupervisorTypeOK, Call
<1>2. /\ at[w] = "idle" /\ mutex = NoChild
      /\ \/ /\ at'[w] = "unsupervised"
            /\ UNCHANGED <<children, target>>
         \/ /\ at'[w] = "wait"
            /\ children[AgentOf[w]] \in Child
            /\ children'[AgentOf[w]] = NoChild
            /\ \A a \in Agent \ {AgentOf[w]} : children'[a] = children[a]
            /\ target'[w] = children[AgentOf[w]]
            /\ \A l \in (Command \cup Waiter) \ {w} : target'[l] = target[l]
      /\ \A l \in Call \ {w} : at'[l] = at[l]
      /\ UNCHANGED <<mutex, process, hit>>
  BY <1>0 DEF Take, Free, SupervisorTypeOK, Call
<1>3. StartedInv'
  BY <1>2 DEF StartedInv, Call
<1>4. ChildrenInv'
  BY <1>0, <1>2 DEF ChildrenInv, FinishedBy, SupervisorTypeOK, Call
<1>5. MutexInv'
  BY <1>2 DEF MutexInv, Call
<1>6. TakenInv'
  BY <1>0, <1>2 DEF TakenInv, ChildrenInv, SupervisorTypeOK, Call
<1>7. StrangerOnlyAfterReap'
  BY <1>2 DEF StrangerOnlyAfterReap, Call
<1> QED BY <1>1, <1>3, <1>4, <1>5, <1>6, <1>7

\* The output of a child ends.
LEMMA OutputStep ==
  ASSUME SupervisorIInv, NEW w \in Waiter, Output(w)
  PROVE  SupervisorIInv'
<1> USE NoChildAssumption, NoPidAssumption, CallAssumption, AgentOfAssumption
<1> USE DEF SupervisorIInv
<1>0. /\ at[w] = "wait" /\ target[w] \in Child
      /\ at[target[w]] = "answered"
      /\ children[AgentOf[target[w]]] # target[w]
  BY DEF Output, TakenInv, SupervisorTypeOK
<1>1. SupervisorTypeOK'
  BY DEF Output, SupervisorTypeOK, Call
<1>2. /\ at'[w] = "answered"
      /\ \A l \in Call \ {w} : at'[l] = at[l]
      /\ \A d \in Child \ {target[w]} : process'[d] = process[d]
      /\ UNCHANGED <<children, mutex, target, hit>>
  BY DEF Output, SupervisorTypeOK, Call
<1>3. StartedInv'
  BY <1>0, <1>2 DEF StartedInv, Call
<1>4. ChildrenInv'
  BY <1>0, <1>2 DEF ChildrenInv, FinishedBy, SupervisorTypeOK, Call
<1>5. MutexInv'
  BY <1>2 DEF MutexInv, Call
<1>6. TakenInv'
  BY <1>0, <1>2 DEF TakenInv, SupervisorTypeOK, Call
<1>7. StrangerOnlyAfterReap'
  BY <1>2 DEF StrangerOnlyAfterReap, Call
<1> QED BY <1>1, <1>3, <1>4, <1>5, <1>6, <1>7

\* Every step of the supervisor preserves its invariant.
LEMMA SupervisorNextPreserves ==
  SupervisorIInv /\ [SupervisorNext]_supervisorVars => SupervisorIInv'
<1> SUFFICES ASSUME SupervisorIInv, [SupervisorNext]_supervisorVars
             PROVE  SupervisorIInv'
  OBVIOUS
<1>1. ASSUME NEW c \in Child,
             Spawn(c) \/ SpawnFails(c) \/ InsertChild(c) \/ Exit(c) \/ ReapOrphan(c)
      PROVE  SupervisorIInv'
  BY <1>1, SpawnStep, InsertChildStep, ProcessStep
<1>2. ASSUME NEW p \in Pid, StrangerStarts(p) \/ StrangerEnds(p)
      PROVE  SupervisorIInv'
  BY <1>2, StrangerStep
<1>3. ASSUME NEW k \in Command, CommandStep(k)
      PROVE  SupervisorIInv'
  BY <1>3, LockStep, SignalStep, TryWaitStep DEF CommandStep
<1>4. ASSUME NEW w \in Waiter, Take(w) \/ Output(w)
      PROVE  SupervisorIInv'
  BY <1>4, TakeStep, OutputStep
<1>5. CASE UNCHANGED supervisorVars
  BY <1>5 DEF supervisorVars, SupervisorIInv, SupervisorTypeOK, StartedInv, ChildrenInv,
              FinishedBy, MutexInv, TakenInv, StrangerOnlyAfterReap
<1> QED BY <1>1, <1>2, <1>3, <1>4, <1>5 DEF SupervisorNext

\* A signal reaches another process only after an earlier command found the agent
\* ended: the mutex keeps commands, inserts and waits from overlapping.
THEOREM SignalsReachTheirAgent == SupervisorSpec => []StrangerOnlyAfterReap
<1>1. SupervisorSpec => []SupervisorIInv
  BY SupervisorInitial, SupervisorNextPreserves, PTL DEF SupervisorSpec
<1>2. SupervisorIInv => StrangerOnlyAfterReap
  BY DEF SupervisorIInv
<1> QED BY <1>1, <1>2, PTL

-----------------------------------------------------------------------------
(***************************************************************************)
(* The MCP servers: LostOnlyByRace.                                        *)
(***************************************************************************)

\* The type invariant.
McpTypeOK ==
    /\ shared \in [Name -> Start \cup {NoServer}]
    /\ server \in [Start -> {"none", "running", "exited"}]
    /\ health \in [Start -> {"none", "healthy", "degraded"}]
    /\ stage \in [Start \cup Stop ->
                    {"idle", "spawn", "initialize", "insert", "shutdown",
                     "asking", "started", "reused", "stopped", "dropped", "error"}]
    /\ given \in [Start \cup Stop -> Start \cup {NoServer}]
    /\ stopped \subseteq Start
    /\ entered \in [Start -> SUBSET Start]

\* The map holds a server under its name, entered and not asked to stop.
SharedInv ==
    \A n \in Name : shared[n] # NoServer =>
        /\ NameOf[shared[n]] = n
        /\ Shared(shared[n])
        /\ stage[shared[n]] = "started"
        /\ shared[n] \notin stopped

\* What was entered or asked to stop is done with.
DoneInv ==
    /\ \A c \in stopped : stage[c] = "started"
    /\ \A d \in Start : \A c \in entered[d] : Shared(c) /\ stage[c] = "started"

\* A start that is to enter a server did not find one in the map, and so none of
\* those that had been entered before is there now.
MissedInv ==
    \A d \in Start :
        stage[d] \in {"spawn", "initialize", "insert"} /\ Shared(d) =>
            shared[NameOf[d]] \notin entered[d]

\* Only shared servers are entered, and only isolated ones asked to end by start.
ModeInv ==
    \A c \in Start : /\ stage[c] = "insert" => Shared(c)
                     /\ stage[c] = "shutdown" => ~Shared(c)

\* What a shutdown is asking to end was entered and is not in the map any more.
AskingInv ==
    \A k \in Stop : stage[k] = "asking" =>
        /\ given[k] \in Start
        /\ stage[given[k]] = "started"
        /\ \A n \in Name : shared[n] # given[k]

McpIInv ==
    /\ McpTypeOK /\ ModeInv /\ SharedInv /\ DoneInv /\ MissedInv /\ AskingInv
    /\ LostOnlyByRace

\* The manager of the servers begins in the invariant.
LEMMA McpInitial == McpInit => McpIInv
  BY NoServerAssumption, NameOfAssumption
     DEF McpInit, McpIInv, McpTypeOK, ModeInv, SharedInv, DoneInv,
         MissedInv, AskingInv, LostOnlyByRace, HeldByShutDown, Shared

\* The steps of a start that touch neither the map nor what others look at.
LEMMA QuietStep ==
  ASSUME McpIInv, NEW c \in Start \cup Stop,
         \/ c \in Start /\ (\/ SpawnServer(c) \/ SpawnServerFails(c)
                           \/ Initialize(c) \/ ServerExits(c))
         \/ DropCall(c)
  PROVE  McpIInv'
<1> USE NoServerAssumption, StopAssumption, NameOfAssumption
<1> USE DEF SpawnServer, SpawnServerFails, Initialize, ServerExits, DropCall, McpIInv
<1>1. McpTypeOK'
  BY DEF McpTypeOK
<1>8. ModeInv'
  BY DEF McpTypeOK, ModeInv, Shared
<1>2. /\ UNCHANGED <<shared, stopped, entered, given>>
      /\ \A k \in Stop : /\ stage'[k] = "asking" => stage[k] = "asking"
                         /\ stage[k] \in {"asking", "dropped"} =>
                               stage'[k] \in {"asking", "dropped"}
      /\ \A d \in Start : stage'[d] = "started" <=> stage[d] = "started"
      /\ \A d \in Start : stage'[d] \in {"spawn", "initialize", "insert"} =>
            stage[d] \in {"spawn", "initialize", "insert"}
      /\ \A d \in Start : stage[d] = "started" /\ server'[d] = "running" =>
            server[d] = "running"
  BY DEF McpTypeOK
<1>3. SharedInv'
  BY <1>2 DEF SharedInv, McpTypeOK, Shared
<1>4. DoneInv'
  BY <1>2 DEF DoneInv, McpTypeOK, Shared
<1>5. MissedInv'
  BY <1>2 DEF MissedInv, Shared
<1>7. AskingInv'
  BY <1>2 DEF AskingInv
<1>6. LostOnlyByRace'
  BY <1>2 DEF LostOnlyByRace, HeldByShutDown, Shared
<1> QED BY <1>1, <1>8, <1>3, <1>4, <1>5, <1>7, <1>6

\* What is found in the map is one of those that have been entered.
LEMMA LookUpStep ==
  ASSUME McpIInv, NEW c \in Start, LookUp(c)
  PROVE  McpIInv'
<1> USE NoServerAssumption, StopAssumption, NameOfAssumption
<1> USE DEF LookUp, McpIInv
<1>1. McpTypeOK'
  <2>1. NameOf[c] \in Name /\ Entered \in SUBSET Start
    BY DEF Entered
  <2> QED BY <2>1 DEF McpTypeOK
<1>8. ModeInv'
  BY DEF McpTypeOK, ModeInv, Shared
<1>2. /\ stage[c] = "idle"
      /\ stage'[c] \in {"spawn", "reused"}
      /\ stage'[c] = "spawn" /\ Shared(c) => shared[NameOf[c]] = NoServer
      /\ entered'[c] = Entered
      /\ \A d \in Start \ {c} : stage'[d] = stage[d] /\ entered'[d] = entered[d]
      /\ UNCHANGED <<shared, server, stopped>>
  BY DEF McpTypeOK
<1>9. \A k \in Stop : stage'[k] = stage[k] /\ given'[k] = given[k]
  BY DEF McpTypeOK
<1>3. SharedInv'
  BY <1>2 DEF SharedInv, McpTypeOK, Shared
<1>4. DoneInv'
  BY <1>2 DEF DoneInv, McpTypeOK, Shared, Entered
<1>5. MissedInv'
  BY <1>2 DEF MissedInv, McpTypeOK, Shared, Entered
<1>7. AskingInv'
  BY <1>2, <1>9 DEF AskingInv
<1>6. LostOnlyByRace'
  BY <1>2, <1>9 DEF LostOnlyByRace, HeldByShutDown, McpTypeOK, Shared
<1> QED BY <1>1, <1>8, <1>3, <1>4, <1>5, <1>7, <1>6

\* The server that is replaced was not there at this start's look, nor was this
\* one at the other's: they are the race.
LEMMA InsertServerStep ==
  ASSUME McpIInv, NEW c \in Start, InsertServer(c)
  PROVE  McpIInv'
<1> USE NoServerAssumption, StopAssumption, NameOfAssumption
<1> USE DEF InsertServer, McpIInv
<1>1. McpTypeOK'
  BY DEF McpTypeOK
<1>8. ModeInv'
  BY DEF McpTypeOK, ModeInv, Shared
<1>2. /\ stage[c] = "insert" /\ stage'[c] = "started"
      /\ shared'[NameOf[c]] = c /\ NameOf[c] \in Name
      /\ Shared(c)
      /\ \A n \in Name \ {NameOf[c]} : shared'[n] = shared[n]
      /\ \A d \in Start \ {c} : stage'[d] = stage[d]
      /\ UNCHANGED <<server, stopped, entered>>
  BY DEF McpTypeOK, ModeInv
<1>3. c \notin stopped /\ \A d \in Start : c \notin entered[d]
  BY <1>2 DEF DoneInv
<1>4. SharedInv'
  BY <1>2, <1>3 DEF SharedInv, McpTypeOK, Shared
<1>5. DoneInv'
  BY <1>2, <1>3 DEF DoneInv, McpTypeOK, Shared
<1>6. MissedInv'
  BY <1>2, <1>3 DEF MissedInv, McpTypeOK, Shared
<1>9. \A k \in Stop : stage'[k] = stage[k] /\ given'[k] = given[k]
  BY DEF McpTypeOK
<1>10. AskingInv'
  BY <1>2, <1>9 DEF AskingInv, McpTypeOK
<1>7. LostOnlyByRace'
  <2> SUFFICES ASSUME NEW b \in Start, Shared(b), stage'[b] = "started",
                      server[b] = "running", b \notin stopped,
                      shared'[NameOf[b]] # b, ~HeldByShutDown(b)'
               PROVE  \E d \in Start \ {b} :
                         /\ Shared(d) /\ NameOf[d] = NameOf[b] /\ stage'[d] = "started"
                         /\ b \notin entered[d] /\ d \notin entered[b]
    BY <1>2 DEF LostOnlyByRace, HeldByShutDown, Shared
  <2>4. ~HeldByShutDown(b)
    BY <1>9 DEF HeldByShutDown
  <2>1. b # c /\ stage[b] = "started" /\ NameOf[b] \in Name
    BY <1>2
  <2>2. CASE shared[NameOf[b]] = b
    <3>1. NameOf[b] = NameOf[c]
      BY <1>2, <2>1, <2>2
    <3>2. b \notin entered[c]
      BY <1>2, <2>2, <3>1 DEF MissedInv
    <3> QED BY <1>2, <1>3, <2>1, <3>1, <3>2
  <2>3. CASE shared[NameOf[b]] # b
    BY <1>2, <2>1, <2>3, <2>4 DEF LostOnlyByRace, HeldByShutDown
  <2> QED BY <2>2, <2>3
<1> QED BY <1>1, <1>8, <1>4, <1>5, <1>6, <1>10, <1>7

\* An isolated server is never in the map.
LEMMA IsolatedStep ==
  ASSUME McpIInv, NEW c \in Start, ShutDownIsolated(c)
  PROVE  McpIInv'
<1> USE NoServerAssumption, StopAssumption, NameOfAssumption
<1> USE DEF ShutDownIsolated, McpIInv
<1>1. McpTypeOK'
  BY DEF McpTypeOK
<1>8. ModeInv'
  BY DEF McpTypeOK, ModeInv, Shared
<1>2. /\ stage'[c] = "started" /\ ~Shared(c)
      /\ \A d \in Start \ {c} : stage'[d] = stage[d]
      /\ stopped' = stopped \cup {c}
      /\ UNCHANGED <<shared, server, entered>>
  BY DEF McpTypeOK, ModeInv
<1>9. \A k \in Stop : stage'[k] = stage[k] /\ given'[k] = given[k]
  BY DEF McpTypeOK
<1>3. SharedInv'
  BY <1>2 DEF SharedInv, McpTypeOK, Shared
<1>4. DoneInv'
  BY <1>2 DEF DoneInv, McpTypeOK, Shared
<1>5. MissedInv'
  BY <1>2 DEF MissedInv, McpTypeOK, Shared
<1>7. AskingInv'
  BY <1>2, <1>9 DEF AskingInv
<1>6. LostOnlyByRace'
  BY <1>2, <1>9 DEF LostOnlyByRace, HeldByShutDown, McpTypeOK, Shared
<1> QED BY <1>1, <1>8, <1>3, <1>4, <1>5, <1>7, <1>6

\* A shutdown takes the server out, and then holds it.
LEMMA TakeOutStep ==
  ASSUME McpIInv, NEW k \in Stop, TakeOut(k)
  PROVE  McpIInv'
<1> USE NoServerAssumption, StopAssumption, NameOfAssumption
<1> USE DEF TakeOut, McpIInv
<1> DEFINE n == NameOf[k]
<1>1. McpTypeOK'
  BY DEF McpTypeOK
<1>2. /\ n \in Name /\ stage[k] = "idle"
      /\ \A c \in (Start \cup Stop) \ {k} : stage'[c] = stage[c] /\ given'[c] = given[c]
      /\ UNCHANGED <<server, stopped, entered>>
      /\ shared'[n] = NoServer
      /\ \A m \in Name \ {n} : shared'[m] = shared[m]
      /\ given'[k] = shared[n]
      /\ shared[n] = NoServer => stage'[k] = "error"
      /\ shared[n] # NoServer => stage'[k] = "asking"
  BY DEF McpTypeOK
<1>3. ModeInv'
  BY <1>2 DEF ModeInv, Shared
<1>4. SharedInv'
  BY <1>2 DEF SharedInv, McpTypeOK, Shared
<1>5. DoneInv'
  BY <1>2 DEF DoneInv, SharedInv, McpTypeOK, Shared
<1>6. MissedInv'
  BY <1>2 DEF MissedInv, McpTypeOK, Shared
<1>7. AskingInv'
  <2>1. \A c \in Stop \ {k} : stage'[c] = "asking" =>
           given[c] \in Start /\ given'[c] = given[c]
    BY <1>2 DEF AskingInv
  <2>2. stage'[k] = "asking" =>
           /\ shared[n] \in Start /\ stage[shared[n]] = "started"
           /\ NameOf[shared[n]] = n
    BY <1>2 DEF SharedInv, McpTypeOK
  <2>3. \A m \in Name \ {n} : shared[n] # NoServer => shared[m] # shared[n]
    BY <1>2 DEF SharedInv
  <2> QED BY <1>2, <2>1, <2>2, <2>3 DEF AskingInv
<1>8. LostOnlyByRace'
  BY <1>2 DEF LostOnlyByRace, HeldByShutDown, SharedInv, McpTypeOK, Shared
<1> QED BY <1>1, <1>3, <1>4, <1>5, <1>6, <1>7, <1>8

\* What it stops is not in the map.
LEMMA StopServerStep ==
  ASSUME McpIInv, NEW k \in Stop, StopServer(k)
  PROVE  McpIInv'
<1> USE NoServerAssumption, StopAssumption, NameOfAssumption
<1> USE DEF StopServer, McpIInv
<1>1. McpTypeOK'
  BY DEF McpTypeOK, AskingInv
<1>2. /\ \A c \in (Start \cup Stop) \ {k} : stage'[c] = stage[c]
      /\ UNCHANGED <<shared, server, given, entered>>
      /\ stage'[k] = "stopped"
      /\ stopped' = stopped \cup {given[k]}
      /\ given[k] \in Start /\ stage[given[k]] = "started"
      /\ \A n \in Name : shared[n] # given[k]
  BY DEF McpTypeOK, AskingInv
<1>3. ModeInv'
  BY <1>2 DEF ModeInv, Shared
<1>4. SharedInv'
  BY <1>2 DEF SharedInv, McpTypeOK, Shared
<1>5. DoneInv'
  BY <1>2 DEF DoneInv, McpTypeOK, Shared
<1>6. MissedInv'
  BY <1>2 DEF MissedInv, McpTypeOK, Shared
<1>7. AskingInv'
  BY <1>2 DEF AskingInv
<1>8. LostOnlyByRace'
  BY <1>2 DEF LostOnlyByRace, HeldByShutDown, McpTypeOK, Shared
<1> QED BY <1>1, <1>3, <1>4, <1>5, <1>6, <1>7, <1>8

\* Every step of the manager preserves its invariant.
LEMMA McpNextPreserves == McpIInv /\ [McpNext]_serverVars => McpIInv'
<1> SUFFICES ASSUME McpIInv, [McpNext]_serverVars
             PROVE  McpIInv'
  OBVIOUS
<1>1. ASSUME NEW c \in Start, StartServer(c) \/ ServerExits(c)
      PROVE  McpIInv'
  BY <1>1, QuietStep, LookUpStep, InsertServerStep, IsolatedStep DEF StartServer
<1>2. ASSUME NEW k \in Stop, TakeOut(k) \/ StopServer(k)
      PROVE  McpIInv'
  BY <1>2, TakeOutStep, StopServerStep
<1>4. ASSUME NEW c \in Start \cup Stop, DropCall(c)
      PROVE  McpIInv'
  BY <1>4, QuietStep
<1>3. CASE UNCHANGED serverVars
  BY <1>3 DEF serverVars, McpIInv, McpTypeOK, ModeInv, SharedInv, DoneInv, MissedInv,
              AskingInv, LostOnlyByRace, HeldByShutDown, Shared
<1> QED BY <1>1, <1>2, <1>3, <1>4 DEF McpNext

\* A shared server that runs, was not asked to stop and is not in the map was
\* replaced by a start that raced with its own.
THEOREM ServersAreLostByRaces == McpSpec => []LostOnlyByRace
<1>1. McpSpec => []McpIInv
  BY McpInitial, McpNextPreserves, PTL DEF McpSpec
<1>2. McpIInv => LostOnlyByRace
  BY DEF McpIInv
<1> QED BY <1>1, <1>2, PTL

-----------------------------------------------------------------------------
(***************************************************************************)
(* The three beside each other.                                            *)
(***************************************************************************)
\* What the host does to each part is what the part does alone.
LEMMA HostRunsParts == HostSpec => MergeSpec /\ SupervisorSpec /\ McpSpec
<1>1. HostInit => MergeInit /\ SupervisorInit /\ McpInit
  BY DEF HostInit
<1>2. [HostNext]_hostVars => [MergeNext]_mergeVars
  BY DEF HostNext, hostVars, Merge, Runtime, Mcp
<1>3. [HostNext]_hostVars => [SupervisorNext]_supervisorVars
  BY DEF HostNext, hostVars, Merge, Runtime, Mcp
<1>4. [HostNext]_hostVars => [McpNext]_serverVars
  BY DEF HostNext, hostVars, Merge, Runtime, Mcp
<1> QED BY <1>1, <1>2, <1>3, <1>4, PTL
       DEF HostSpec, MergeSpec, SupervisorSpec, McpSpec

\* A host on which all three run keeps what each of them promises.
THEOREM HostKeepsPromises ==
  HostSpec => [](/\ FalseConflictHasCause
                 /\ LeftoverIsCleared
                 /\ StrangerOnlyAfterReap
                 /\ LostOnlyByRace)
  BY HostRunsParts, FalseConflictsHaveCauses, LeftoversAreCleared, SignalsReachTheirAgent,
     ServersAreLostByRaces, PTL
=============================================================================
