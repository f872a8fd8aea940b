--------------------------- MODULE MergeSimulation ---------------------------
(***************************************************************************)
(* The merge simulations of a pipeline run: `git merge --no-commit` of an  *)
(* agent's branch, and then always `git merge --abort`, in the one         *)
(* checkout that all actions of a run share.                               *)
(*                                                                         *)
(* Two things are not in the hands of simulate_merge.  Other simulations   *)
(* run git in the same checkout, where a merge that is in progress or an   *)
(* index that is locked makes git fail.  And the timer of the step may     *)
(* drop a simulation at any await: the git process it waits for is not     *)
(* killed and runs to its end.                                             *)
(*                                                                         *)
(* Of git this module knows what simulate_merge relies on: a command takes *)
(* the lock of the index or fails; a merge that finds MERGE_HEAD fails and *)
(* changes nothing, and otherwise leaves MERGE_HEAD behind, with or        *)
(* without conflicts; an abort removes it.                                 *)
(***************************************************************************)
EXTENDS Integers, FiniteSets

CONSTANTS
    Simulation,   \* calls of simulate_merge
    NoSim,
    Branch        \* what merging the branch of each gives: "clean", "conflict",
                  \* or "current" when there is nothing to merge

ASSUME NoSimAssumption == NoSim \notin Simulation
ASSUME BranchAssumption == Branch \in [Simulation -> {"clean", "conflict", "current"}]

VARIABLES
    phase,      \* of each call: "idle", waiting for its "merge" or its "abort",
                \* "returned", "failed" because git cannot be run, or "dropped"
    git,        \* the git process of each call that runs, with the lock, or "none"
    verdict,    \* what each call found: "none" yet, "clean" or "unclean"
    mergeHead,  \* MERGE_HEAD: whose merge is in progress, or NoSim
    cause,      \* history: who kept the merge of each from running, or NoSim
    earlier,    \* history: per call, those that had returned when it began
    settled     \* history: per call, those whose merge had ended when it began

mergeVars == <<phase, git, verdict, mergeHead, cause, earlier, settled>>

MergeInit ==
    /\ phase = [s \in Simulation |-> "idle"]
    /\ git = [s \in Simulation |-> "none"]
    /\ verdict = [s \in Simulation |-> "none"]
    /\ mergeHead = NoSim
    /\ cause = [s \in Simulation |-> NoSim]
    /\ earlier = [s \in Simulation |-> {}]
    /\ settled = [s \in Simulation |-> {}]
-----------------------------------------------------------------------------
\* The process with the lock of the index.
Locks(s) == git[s] # "none"
Locked == \E s \in Simulation : Locks(s)

Returned(s) == phase[s] = "returned"

\* Its merge has been run, or was refused.
MergeEnded(s) == phase[s] # "idle" /\ git[s] # "merge"

\* git merge --no-commit --no-ff starts, if nobody else is merging.
StartMerge(s) ==
    /\ phase[s] = "idle"
    /\ phase' = [phase EXCEPT ![s] = "merge"]
    /\ earlier' = [earlier EXCEPT ![s] = {t \in Simulation : Returned(t)}]
    /\ settled' = [settled EXCEPT ![s] = {t \in Simulation : MergeEnded(t)}]
    /\ \/ /\ ~Locked /\ mergeHead = NoSim
          /\ git' = [git EXCEPT ![s] = "merge"]
          /\ UNCHANGED <<verdict, cause>>
       \/ /\ Locked \/ mergeHead # NoSim
          /\ verdict' = [verdict EXCEPT ![s] = "unclean"]
          /\ \E t \in Simulation :
                /\ IF Locked THEN Locks(t) ELSE t = mergeHead
                /\ cause' = [cause EXCEPT ![s] = t]
          /\ UNCHANGED git
    /\ UNCHANGED mergeHead

\* The merge ends; its exit status is the verdict.
FinishMerge(s) ==
    /\ git[s] = "merge"
    /\ git' = [git EXCEPT ![s] = "none"]
    /\ verdict' = [verdict EXCEPT ![s] =
                      IF Branch[s] = "conflict" THEN "unclean" ELSE "clean"]
    /\ mergeHead' = IF Branch[s] = "current" THEN NoSim ELSE s
    /\ UNCHANGED <<phase, cause, earlier, settled>>

\* The abort is skipped when the merge was not clean: nothing to undo.
StartAbortBug(s) ==
    /\ phase[s] = "merge"
    /\ verdict[s] # "none"
    /\ IF verdict[s] = "clean" /\ ~Locked /\ mergeHead # NoSim
       THEN /\ git' = [git EXCEPT ![s] = "abort"]
            /\ phase' = [phase EXCEPT ![s] = "abort"]
       ELSE /\ phase' = [phase EXCEPT ![s] = "returned"]
            /\ UNCHANGED git
    /\ UNCHANGED <<verdict, mergeHead, cause, earlier, settled>>

\* git merge --abort starts when the merge has ended.  It fails, which is
\* ignored, when the index is locked or there is nothing to abort.
StartAbort(s) ==
    /\ phase[s] = "merge"
    /\ verdict[s] # "none"
    /\ \/ /\ ~Locked /\ mergeHead # NoSim
          /\ git' = [git EXCEPT ![s] = "abort"]
          /\ phase' = [phase EXCEPT ![s] = "abort"]
       \/ /\ Locked \/ mergeHead = NoSim
          /\ phase' = [phase EXCEPT ![s] = "returned"]
          /\ UNCHANGED git
    /\ UNCHANGED <<verdict, mergeHead, cause, earlier, settled>>

\* The abort, whosever merge it was.
FinishAbort(s) ==
    /\ git[s] = "abort"
    /\ git' = [git EXCEPT ![s] = "none"]
    /\ mergeHead' = NoSim
    /\ phase' = [phase EXCEPT ![s] = IF @ = "abort" THEN "returned" ELSE @]
    /\ UNCHANGED <<verdict, cause, earlier, settled>>

\* git cannot be run: an error for the merge, which is ignored for the abort.
GitMissing(s) ==
    /\ \/ phase[s] = "idle"
       \/ phase[s] = "merge" /\ verdict[s] # "none"
    /\ phase' = [phase EXCEPT ![s] = "failed"]
    /\ UNCHANGED <<git, verdict, mergeHead, cause, earlier, settled>>

\* The step's timer drops the call; its process goes on.
Drop(s) ==
    /\ phase[s] \in {"merge", "abort"}
    /\ phase' = [phase EXCEPT ![s] = "dropped"]
    /\ UNCHANGED <<git, verdict, mergeHead, cause, earlier, settled>>

SimulationStep(s) ==
    StartMerge(s) \/ FinishMerge(s) \/ StartAbort(s) \/ FinishAbort(s)

MergeNext == \E s \in Simulation : SimulationStep(s) \/ GitMissing(s) \/ Drop(s)

MergeSpec == MergeInit /\ [][MergeNext]_mergeVars
-----------------------------------------------------------------------------
\* (simulate_merge.)  A conflict that is reported for a branch that has none was
\* caused by a simulation that had not returned when this one began: another
\* action's, or one that was dropped or could not run git.
FalseConflictHasCause ==
    \A s \in Simulation : verdict[s] = "unclean" /\ Branch[s] # "conflict" =>
        cause[s] # NoSim /\ cause[s] \notin earlier[s]

\* (merge.rs: "so the worktree is never left poisoned".)  A simulation that
\* returns has cleared every merge that had ended before it began, also one that
\* a dropped simulation left, unless another's abort is just doing so.
LeftoverIsCleared ==
    \A s, t \in Simulation : Returned(s) /\ t \in settled[s] =>
        mergeHead # t \/ \E u \in Simulation : git[u] = "abort"
=============================================================================
