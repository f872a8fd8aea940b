------------------------------ MODULE Pipeline ------------------------------
(***************************************************************************)
(* The orchestrator's execution of one workflow: the step loop of          *)
(* run_local_pipeline_with_events and, per action, the attempt loop of     *)
(* run_action_with_recovery, which for the actions of a parallel step run  *)
(* as tokio tasks beside each other and beside the loop.                   *)
(*                                                                         *)
(* One action of the model is the code between two awaits that can really  *)
(* suspend: the spawned process, git, a contended lock, JoinSet.  The      *)
(* mutexes around handoff_contexts and slot_events are never held across   *)
(* an await, so they do not appear.  The RwLock around the assignments     *)
(* does: an attempt holds its read guard from choosing the runtime to the  *)
(* end of the merge simulation, and tokio's lock is fair, so a waiting     *)
(* writer (the adaptive refresh) blocks every later reader.                *)
(*                                                                         *)
(* Left out: prompt text, skills, compressors, embeddings, scores (the     *)
(* ranking they produce is the constant Ranking), and the report's own     *)
(* copy of the slot events.                                                *)
(***************************************************************************)
EXTENDS Integers, Sequences, FiniteSets

CONSTANTS
    NSteps,          \* number of workflow steps
    Kind,            \* what each step is, see StepKind
    Task,            \* one value per occurrence of an action in the steps
    StepOf,          \* the step of each action
    Position,        \* its place in the step's list
    Role,            \* the roles actions and slots name
    RoleOf,          \* the role an action names, action_role
    Slot,            \* the roles that the workflow gives a slot
    Runtime,         \* (runtime, model) pairs
    NoRuntime,       \* no override, nothing run yet
    Ranking,         \* candidates of each role by score, per profile
    InitialProfile,  \* the profile of the file
    Policy,          \* failure action of each role
    Outcomes,        \* what classify_output returns for the processes
    HasDeadline      \* whether timeouts.pipeline_minutes is given

StepKind == {"action", "parallel", "if_healthy", "if_unhealthy"}
Profile  == {"quality_first", "budget_first", "speed_first"}
Health   == {"healthy", "rate_limited", "auth_expired", "crashed"}

ASSUME WorkflowAssumption ==
    /\ NSteps \in Nat
    /\ Kind \in [1..NSteps -> StepKind]
    /\ StepOf \in [Task -> 1..NSteps]
    /\ Position \in [Task -> Nat]
    /\ RoleOf \in [Task -> Role]
    /\ \A t, u \in Task :
          StepOf[t] = StepOf[u] /\ Position[t] = Position[u] => t = u

ASSUME SchedulingAssumption ==
    /\ NoRuntime \notin Runtime
    /\ Ranking \in [Profile -> [Role -> Seq(Runtime)]]
    /\ InitialProfile \in Profile
    /\ Policy \in [Role -> [kind : {"retry", "skip", "ask_user", "fail"},
                            retries : Nat]]
    /\ Outcomes \subseteq Health
    /\ HasDeadline \in BOOLEAN
    /\ Slot \subseteq Role
    /\ \A p \in Profile, r \in Slot : Ranking[p][r] # <<>>
    /\ \A p \in Profile, r \in Role \ Slot : Ranking[p][r] = <<>>

ActionsOf(s) == {t \in Task : StepOf[t] = s}

VARIABLES
    main,         \* where the step loop is, see TypeOK
    step,         \* the step it is at
    pc,           \* where each action is, see TypeOK
    attempt,      \* attempts of the action that have failed
    override,     \* current_override: the runtime a retry must use
    out,          \* runtime and health of the action's latest attempt
    seen,         \* the handoff context its latest attempt was given
    assignments,  \* the shared table: candidates of each role, in order
    controller,   \* AdaptiveController
    lastHealth,   \* last_health
    contexts,     \* handoff_contexts
    slot,         \* the last status emitted for each role
    results,      \* step_results
    deadline      \* "none", "ahead" or "passed"

taskVars == <<attempt, override, out, seen>>
loopVars == <<controller, lastHealth, results>>
vars == <<main, step, pc, taskVars, assignments, loopVars, contexts, slot,
          deadline>>

\* The attempts that hold a read guard on the assignments, and the actions
\* whose timer is running.
Holding == {"running", "merging", "resolving"}
Timed   == Holding \cup {"lock", "fallback"}
InFlight == Timed \cup {"spawned"}

NoContext == [failure |-> {}, hints |-> FALSE]

-----------------------------------------------------------------------------
(***************************************************************************)
(* Decisions the code computes from its inputs.                            *)
(***************************************************************************)

\* Mutants, here and below: a definition ending in Bug is the one after it
\* with a mistake the code could have had.  A run checks that each property
\* notices one.
IsRecoverableBug(h) == h \in {"rate_limited", "crashed"}

\* is_recoverable: the healths that make an attempt count as failed.
IsRecoverable(h) == h \in {"rate_limited", "auth_expired", "crashed"}

MaxAttempts(r) ==
    IF Policy[r].kind = "retry" THEN Policy[r].retries + 1 ELSE 1

FallbackAssignmentBug(candidates) == candidates[1]

\* fallback_assignment: the first candidate that differs from the first one,
\* else the first one.  Which runtime failed is not asked.
FallbackAssignment(candidates) ==
    LET others == {i \in DOMAIN candidates : candidates[i] # candidates[1]}
    IN  IF others = {} THEN candidates[1]
        ELSE candidates[CHOOSE i \in others : \A j \in others : i <= j]

RecordStepBug(c, h) ==
    LET steps    == c.steps + 1
        failures == c.failures + (IF h = "healthy" THEN 0 ELSE 1)
    IN  [steps    |-> steps,
         failures |-> failures,
         profile  |-> IF /\ c.profile = "quality_first"
                         /\ 10 * failures > 3 * steps
                      THEN "speed_first" ELSE c.profile]

\* AdaptiveController::record_step; 0.30 as a fraction.
RecordStep(c, h) ==
    LET steps    == c.steps + 1
        failures == c.failures + (IF h = "healthy" THEN 0 ELSE 1)
    IN  [steps    |-> steps,
         failures |-> failures,
         profile  |-> IF /\ c.profile = "quality_first"
                         /\ steps >= 4
                         /\ 10 * failures > 3 * steps
                      THEN "speed_first" ELSE c.profile]

PassesOverBug(s) == lastHealth \notin {"none", "healthy"}

\* The condition of a conditional step: when_healthy = false has no effect.
PassesOver(s) ==
    Kind[s] = "if_healthy" /\ lastHealth \notin {"none", "healthy"}
-----------------------------------------------------------------------------
Init ==
    /\ main = "top"
    /\ step = 1
    /\ pc = [t \in Task |-> "unspawned"]
    /\ attempt = [t \in Task |-> 0]
    /\ override = [t \in Task |-> NoRuntime]
    /\ out = [t \in Task |-> [runtime |-> NoRuntime, health |-> "none"]]
    /\ seen = [t \in Task |-> NoContext]
    /\ assignments = Ranking[InitialProfile]
    /\ controller = [steps |-> 0, failures |-> 0, profile |-> InitialProfile]
    /\ lastHealth = "none"
    /\ contexts = [r \in Role |-> NoContext]
    /\ slot = [r \in Role |-> IF r \in Slot THEN "assigned" ELSE "none"]
    /\ results = <<>>
    /\ deadline = IF HasDeadline THEN "ahead" ELSE "none"
-----------------------------------------------------------------------------
(***************************************************************************)
(* One attempt of an action.                                               *)
(***************************************************************************)

\* The first poll: the slot becomes active, then working, and the handoff
\* context is read, before the assignments are locked.
Begin(t) ==
    /\ pc[t] = "spawned"
    /\ pc' = [pc EXCEPT ![t] = "lock"]
    /\ slot' = [slot EXCEPT ![RoleOf[t]] = "working"]
    /\ seen' = [seen EXCEPT ![t] = contexts[RoleOf[t]]]
    /\ UNCHANGED <<main, step, attempt, override, out, assignments, loopVars,
                   contexts, deadline>>

\* The read guard is granted and the runtime chosen; a role without a slot
\* is an error.
ChooseRuntime(t) ==
    /\ pc[t] = "lock"
    /\ main # "refresh"
    /\ \/ /\ override[t] = NoRuntime
          /\ assignments[RoleOf[t]] = <<>>
          /\ pc' = [pc EXCEPT ![t] = "errored"]
          /\ UNCHANGED out
       \/ /\ override[t] # NoRuntime \/ assignments[RoleOf[t]] # <<>>
          /\ pc' = [pc EXCEPT ![t] = "running"]
          /\ out' = [out EXCEPT ![t].runtime =
                        IF override[t] # NoRuntime THEN override[t]
                        ELSE assignments[RoleOf[t]][1]]
    /\ UNCHANGED <<main, step, attempt, override, seen, assignments, loopVars,
                   contexts, slot, deadline>>

\* The worktree cannot be added, the binary is missing, or the adapter's own
\* timeout ends the process: `?` leaves the attempt loop at once.
RuntimeError(t) ==
    /\ pc[t] = "running"
    /\ pc' = [pc EXCEPT ![t] = "errored"]
    /\ UNCHANGED <<main, step, taskVars, assignments, loopVars, contexts,
                   slot, deadline>>

RuntimeExit(t, h) ==
    /\ pc[t] = "running"
    /\ pc' = [pc EXCEPT ![t] = "merging"]
    /\ out' = [out EXCEPT ![t].health = h]
    /\ UNCHANGED <<main, step, attempt, override, seen, assignments, loopVars,
                   contexts, slot, deadline>>

\* The rest of the attempt, once run_action_with_context has returned: the
\* guard is dropped and the outcome handled.
AttemptReturns(t) ==
    LET r == RoleOf[t]
        last == attempt[t] + 1 >= MaxAttempts(r)
    IN  IF ~IsRecoverable(out[t].health)
        THEN /\ pc' = [pc EXCEPT ![t] = "ok"]
             /\ slot' = [slot EXCEPT ![r] = "waiting"]
             /\ UNCHANGED contexts
        ELSE /\ contexts' = [contexts EXCEPT
                                ![r] = [failure |-> {t}, hints |-> FALSE]]
             /\ pc' = [pc EXCEPT ![t] =
                          IF ~last THEN "fallback"
                          ELSE IF Policy[r].kind = "skip" THEN "ok"
                          ELSE "exhausted"]
             /\ slot' = [slot EXCEPT ![r] =
                            IF last /\ Policy[r].kind = "skip"
                            THEN "disabled" ELSE "vacant"]

\* git merge --no-commit, then --abort.  An unclean merge is handed to a
\* conflict resolver, which runs under the same read guard.
SimulateMerge(t) ==
    /\ pc[t] = "merging"
    /\ \/ AttemptReturns(t)
       \/ /\ pc' = [pc EXCEPT ![t] = "resolving"]
          /\ UNCHANGED <<contexts, slot>>
    /\ UNCHANGED <<main, step, taskVars, assignments, loopVars, deadline>>

\* Resolved or not, the attempt keeps the health of its own process.
ResolveConflict(t) ==
    /\ pc[t] = "resolving"
    /\ AttemptReturns(t)
    /\ UNCHANGED <<main, step, taskVars, assignments, loopVars, deadline>>

FallbackBug(t) ==
    /\ pc[t] = "fallback"
    /\ main # "refresh"
    /\ pc' = [pc EXCEPT ![t] = "lock"]
    /\ attempt' = [attempt EXCEPT ![t] = @ + 1]
    /\ override' = [override EXCEPT
                       ![t] = FallbackAssignment(assignments[RoleOf[t]])]
    /\ slot' = [slot EXCEPT ![RoleOf[t]] = "working"]
    /\ UNCHANGED <<main, step, out, seen, assignments, loopVars, contexts,
                   deadline>>

\* A second read of the assignments picks the fallback; the next attempt
\* starts in the same poll.
Fallback(t) ==
    LET r == RoleOf[t]
    IN  /\ pc[t] = "fallback"
        /\ main # "refresh"
        /\ pc' = [pc EXCEPT ![t] = "lock"]
        /\ attempt' = [attempt EXCEPT ![t] = @ + 1]
        /\ override' = [override EXCEPT
                           ![t] = FallbackAssignment(assignments[r])]
        /\ slot' = [slot EXCEPT ![r] = "working"]
        /\ seen' = [seen EXCEPT ![t] = contexts[r]]
        /\ UNCHANGED <<main, step, out, assignments, loopVars, contexts,
                       deadline>>

TimeoutBug(t) ==
    /\ pc[t] = "running"
    /\ pc' = [pc EXCEPT ![t] = "errored"]
    /\ UNCHANGED <<main, step, taskVars, assignments, loopVars, contexts,
                   slot, deadline>>

\* The timer around the whole action, min(step timeout, time to deadline),
\* drops the future: its guard is released and its process left alone.
Timeout(t) ==
    /\ pc[t] \in Timed
    /\ pc' = [pc EXCEPT ![t] = "errored"]
    /\ UNCHANGED <<main, step, taskVars, assignments, loopVars, contexts,
                   slot, deadline>>
-----------------------------------------------------------------------------
(***************************************************************************)
(* The step loop.                                                          *)
(***************************************************************************)

\* A conditional step whose condition fails: `continue`.
PassOver ==
    /\ main = "top"
    /\ step <= NSteps
    /\ PassesOver(step)
    /\ step' = step + 1
    /\ pc' = [t \in Task |-> IF StepOf[t] = step THEN "skipped" ELSE pc[t]]
    /\ UNCHANGED <<main, taskVars, assignments, loopVars, contexts, slot,
                   deadline>>

\* inject_semantic_context for every action of the step: a search of the
\* results indexed so far finds hints for some of their roles.
BeginStep ==
    /\ main = "top"
    /\ step <= NSteps
    /\ ~PassesOver(step)
    /\ main' = "running"
    /\ \E hinted \in SUBSET {RoleOf[t] : t \in ActionsOf(step)} :
          /\ results = <<>> => hinted = {}
          /\ contexts' = [r \in Role |->
                             IF r \in hinted
                             THEN [contexts[r] EXCEPT !.hints = TRUE]
                             ELSE contexts[r]]
    /\ UNCHANGED <<step, pc, taskVars, assignments, loopVars, slot, deadline>>

Unspawned == {t \in ActionsOf(step) : pc[t] = "unspawned"}

\* The actions start in the order of the file, each after a look at the
\* deadline.
Spawn(t) ==
    /\ main = "running"
    /\ t \in Unspawned
    /\ \A u \in Unspawned : Position[t] <= Position[u]
    /\ deadline # "passed"
    /\ pc' = [pc EXCEPT ![t] = "spawned"]
    /\ UNCHANGED <<main, step, taskVars, assignments, loopVars, contexts,
                   slot, deadline>>

\* The loop returns an error: the JoinSet is dropped and every action still
\* under way aborted; results finished but not joined are dropped with it.
Abandon ==
    /\ main' = "failed"
    /\ pc' = [t \in Task |-> IF pc[t] \in InFlight THEN "aborted" ELSE pc[t]]
    /\ UNCHANGED <<step, taskVars, assignments, loopVars, contexts, slot,
                   deadline>>

\* enforce_pipeline_deadline
DeadlineExceeded ==
    /\ main = "running"
    /\ Unspawned # {}
    /\ deadline = "passed"
    /\ Abandon

\* join_next returns an error: the first one ends the run.
JoinError(t) ==
    /\ main = "running"
    /\ Unspawned = {}
    /\ pc[t] \in {"errored", "exhausted"}
    /\ Abandon

ResultOf(t) == [task |-> t, health |-> out[t].health]

JoinBug(t) ==
    /\ main = "running"
    /\ Unspawned = {}
    /\ pc[t] = "ok"
    /\ lastHealth' = out[t].health
    /\ controller' = RecordStep(controller, out[t].health)
    /\ pc' = [pc EXCEPT ![t] = "joined"]
    /\ results' = IF out[t].health = "healthy"
                  THEN Append(results, ResultOf(t)) ELSE results
    /\ UNCHANGED <<main, step, taskVars, assignments, contexts, slot, deadline>>

\* current_profile is not brought up to date.
JoinRepeatsSwitchBug(t) ==
    /\ main = "running"
    /\ Unspawned = {}
    /\ pc[t] = "ok"
    /\ lastHealth' = out[t].health
    /\ controller' = RecordStep(controller, out[t].health)
    /\ \/ /\ controller'.profile = InitialProfile
          /\ pc' = [pc EXCEPT ![t] = "joined"]
          /\ results' = Append(results, ResultOf(t))
          /\ UNCHANGED <<main, slot>>
       \/ /\ controller'.profile # InitialProfile
          /\ pc' = [pc EXCEPT ![t] = "joining"]
          /\ main' = "refresh"
          /\ slot' = [r \in Role |->
                         IF r \in Slot THEN "assigned" ELSE slot[r]]
          /\ UNCHANGED results
    /\ UNCHANGED <<step, taskVars, assignments, contexts, deadline>>

\* join_next returns a result, in the order of completion.  If it makes the
\* controller switch profile, the new assignments are announced and the loop
\* waits for the write lock before the result is reported.
Join(t) ==
    /\ main = "running"
    /\ Unspawned = {}
    /\ pc[t] = "ok"
    /\ lastHealth' = out[t].health
    /\ controller' = RecordStep(controller, out[t].health)
    /\ \/ /\ controller'.profile = controller.profile
          /\ pc' = [pc EXCEPT ![t] = "joined"]
          /\ results' = Append(results, ResultOf(t))
          /\ UNCHANGED <<main, slot>>
       \/ /\ controller'.profile # controller.profile
          /\ pc' = [pc EXCEPT ![t] = "joining"]
          /\ main' = "refresh"
          /\ slot' = [r \in Role |->
                         IF r \in Slot THEN "assigned" ELSE slot[r]]
          /\ UNCHANGED results
    /\ UNCHANGED <<step, taskVars, assignments, contexts, deadline>>

RefreshUnlockedBug(t) ==
    /\ main = "refresh"
    /\ pc[t] = "joining"
    /\ assignments' = Ranking[controller.profile]
    /\ main' = "running"
    /\ pc' = [pc EXCEPT ![t] = "joined"]
    /\ results' = Append(results, ResultOf(t))
    /\ UNCHANGED <<step, taskVars, controller, lastHealth, contexts, slot,
                   deadline>>

RefreshUnreportedBug(t) ==
    /\ main = "refresh"
    /\ pc[t] = "joining"
    /\ \A u \in Task : pc[u] \notin Holding
    /\ assignments' = Ranking[controller.profile]
    /\ main' = "running"
    /\ pc' = [pc EXCEPT ![t] = "joined"]
    /\ UNCHANGED <<step, taskVars, loopVars, contexts, slot, deadline>>

\* refresh_assignments gets the write lock, and the result is reported.
Refresh(t) ==
    /\ main = "refresh"
    /\ pc[t] = "joining"
    /\ \A u \in Task : pc[u] \notin Holding
    /\ assignments' = Ranking[controller.profile]
    /\ main' = "running"
    /\ pc' = [pc EXCEPT ![t] = "joined"]
    /\ results' = Append(results, ResultOf(t))
    /\ UNCHANGED <<step, taskVars, controller, lastHealth, contexts, slot,
                   deadline>>

EndStepEarlyBug ==
    /\ main = "running"
    /\ Unspawned = {}
    /\ \E t \in ActionsOf(step) : pc[t] = "joined"
    /\ main' = "top"
    /\ step' = step + 1
    /\ UNCHANGED <<pc, taskVars, assignments, loopVars, contexts, slot,
                   deadline>>

EndStepTwiceBug ==
    /\ main = "running"
    /\ \A t \in ActionsOf(step) : pc[t] = "joined"
    /\ main' = "top"
    /\ step' = step + 2
    /\ UNCHANGED <<pc, taskVars, assignments, loopVars, contexts, slot,
                   deadline>>

\* Every action of the step has been joined.
EndStep ==
    /\ main = "running"
    /\ \A t \in ActionsOf(step) : pc[t] = "joined"
    /\ main' = "top"
    /\ step' = step + 1
    /\ UNCHANGED <<pc, taskVars, assignments, loopVars, contexts, slot,
                   deadline>>

\* The report is returned.
Finish ==
    /\ main = "top"
    /\ step = NSteps + 1
    /\ main' = "done"
    /\ UNCHANGED <<step, pc, taskVars, assignments, loopVars, contexts, slot,
                   deadline>>

DeadlinePasses ==
    /\ deadline = "ahead"
    /\ deadline' = "passed"
    /\ UNCHANGED <<main, step, pc, taskVars, assignments, loopVars, contexts,
                   slot>>
-----------------------------------------------------------------------------
LoopStep ==
    \/ PassOver
    \/ BeginStep
    \/ \E t \in Task : Spawn(t)
    \/ DeadlineExceeded
    \/ \E t \in Task : JoinError(t)
    \/ \E t \in Task : Join(t)
    \/ \E t \in Task : Refresh(t)
    \/ EndStep
    \/ Finish

ActionStep(t) ==
    \/ Begin(t)
    \/ ChooseRuntime(t)
    \/ RuntimeError(t)
    \/ \E h \in Outcomes : RuntimeExit(t, h)
    \/ SimulateMerge(t)
    \/ ResolveConflict(t)
    \/ Fallback(t)
    \/ Timeout(t)

Next ==
    \/ LoopStep
    \/ \E t \in Task : ActionStep(t)
    \/ DeadlinePasses

\* The loop and a spawned action are scheduled by tokio; a timer fires.
\* Processes and git may hang for ever: only the timers end them.
Fairness ==
    /\ WF_vars(LoopStep)
    /\ \A t \in Task : WF_vars(Begin(t)) /\ WF_vars(Timeout(t))

Spec == Init /\ [][Next]_vars

FairSpec == Spec /\ Fairness
=============================================================================
