-------------------------- MODULE WorkflowContract --------------------------
(***************************************************************************)
(* What running a workflow promises, whoever executes the actions: the     *)
(* steps are taken in the order of the file, every action of a step has    *)
(* one recorded result before the next step begins, only a conditional     *)
(* step may be passed over, and a run ends once, succeeded or failed.      *)
(* Module Pipeline, the orchestrator's execution loop with its parallel    *)
(* tasks, retries, timeouts and reassignments, implements it.              *)
(***************************************************************************)
EXTENDS Integers

CONSTANTS
    NSteps,       \* number of workflow steps
    Task,         \* the actions of all steps
    StepOf,       \* the step each action belongs to
    Conditional   \* the steps that may be passed over

VARIABLES
    at,           \* the step being executed; NSteps + 1 after the last
    recorded,     \* actions whose result is in the report
    skipped,      \* actions of conditional steps passed over
    outcome       \* "running", "succeeded" or "failed"

vars == <<at, recorded, skipped, outcome>>

ActionsOf(s) == {t \in Task : StepOf[t] = s}

Init ==
    /\ at = 1
    /\ recorded = {}
    /\ skipped = {}
    /\ outcome = "running"

Record(t) ==
    /\ outcome = "running"
    /\ StepOf[t] = at
    /\ t \notin recorded
    /\ recorded' = recorded \cup {t}
    /\ UNCHANGED <<at, skipped, outcome>>

Skip ==
    /\ outcome = "running"
    /\ at \in Conditional
    /\ ActionsOf(at) \cap recorded = {}
    /\ skipped' = skipped \cup ActionsOf(at)
    /\ at' = at + 1
    /\ UNCHANGED <<recorded, outcome>>

Advance ==
    /\ outcome = "running"
    /\ at <= NSteps
    /\ ActionsOf(at) \subseteq recorded
    /\ at' = at + 1
    /\ UNCHANGED <<recorded, skipped, outcome>>

Succeed ==
    /\ outcome = "running"
    /\ at = NSteps + 1
    /\ outcome' = "succeeded"
    /\ UNCHANGED <<at, recorded, skipped>>

Fail ==
    /\ outcome = "running"
    /\ outcome' = "failed"
    /\ UNCHANGED <<at, recorded, skipped>>

Next ==
    \/ \E t \in Task : Record(t)
    \/ Skip
    \/ Advance
    \/ Succeed
    \/ Fail

Spec == Init /\ [][Next]_vars
=============================================================================
