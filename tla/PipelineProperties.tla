------------------------- MODULE PipelineProperties -------------------------
(***************************************************************************)
(* The properties of module Pipeline.                                      *)
(***************************************************************************)
EXTENDS Pipeline

Finished == {t \in Task : pc[t] \in {"joined", "skipped"}}

Reported == {results[i].task : i \in DOMAIN results}

\* The candidates an action can fall back on are not all the same.
HasAlternative(t) ==
    \E i \in DOMAIN assignments[RoleOf[t]] :
        assignments[RoleOf[t]][i] # assignments[RoleOf[t]][1]
-----------------------------------------------------------------------------
Place == InFlight \cup {"unspawned", "skipped", "aborted", "ok", "exhausted",
                        "errored", "joining", "joined"}

LatestAttempt == [runtime : Runtime \cup {NoRuntime},
                  health : Health \cup {"none"}]

Context == [failure : SUBSET Task, hints : BOOLEAN]

SlotStatus == {"none", "assigned", "working", "waiting", "vacant", "disabled"}

ControllerState == [steps : Nat, failures : Nat, profile : Profile]

Result == [task : Task, health : Health]

\* The values the variables take.
TypeOK ==
    /\ main \in {"top", "running", "refresh", "done", "failed"}
    /\ step \in 1..(NSteps + 1)
    /\ pc \in [Task -> Place]
    /\ attempt \in [Task -> Nat]
    /\ override \in [Task -> Runtime \cup {NoRuntime}]
    /\ out \in [Task -> LatestAttempt]
    /\ seen \in [Task -> Context]
    /\ assignments \in [Role -> Seq(Runtime)]
    /\ controller \in ControllerState
    /\ lastHealth \in Health \cup {"none"}
    /\ contexts \in [Role -> Context]
    /\ slot \in [Role -> SlotStatus]
    /\ results \in Seq(Result)
    /\ deadline \in {"none", "ahead", "passed"}

\* A result that is not healthy reaches the report only through the failure
\* action `skip` of its role: every other failure is retried or ends the run
\* (the ends of run_action_with_recovery).
HealthyUnlessSkip ==
    \A i \in DOMAIN results :
        \/ results[i].health = "healthy"
        \/ Policy[RoleOf[results[i].task]].kind = "skip"

\* "All must complete before the next step begins": when the loop is at a
\* step, the actions of the earlier steps are joined or were passed over, and
\* those of the later steps have not been spawned (the step loop and its
\* join_next loop).
StepBarrier ==
    \A t \in Task :
        /\ StepOf[t] < step => t \in Finished
        /\ StepOf[t] > step => pc[t] = "unspawned"

\* The report holds one result for each joined action and none for any other,
\* and a run that succeeds has one for every action it did not pass over,
\* whatever the order of completion and the profile switches in between.
OneResultEach ==
    /\ Reported = {t \in Task : pc[t] = "joined"}
    /\ \A i, j \in DOMAIN results :
          results[i].task = results[j].task => i = j
    /\ main = "done" => Finished = Task

\* The number of unhealthy results among the first n.
FailuresIn(n) ==
    Cardinality({i \in 1..n : results[i].health # "healthy"})

\* The first n results have made the controller leave quality_first.
Switched(n) ==
    /\ InitialProfile = "quality_first"
    /\ \E m \in 4..n : 10 * FailuresIn(m) > 3 * m

\* The controller has left its profile if and only if the profile was
\* quality_first and more than 30% of some prefix of at least four reported
\* results were failures, and the assignments are those of its profile
\* (AdaptiveController with refresh_assignments).
AdaptsOnFailureRate ==
    main # "refresh" =>
        /\ controller.profile # InitialProfile <=> Switched(Len(results))
        /\ controller.profile \in {InitialProfile, "speed_first"}
        /\ assignments = Ranking[controller.profile]

\* While an attempt that was not told its runtime is under way, it runs on
\* the first candidate of the table as it is now: the table does not change
\* under its read guard.
RunsFirstCandidate ==
    \A t \in Task :
        pc[t] \in Holding /\ override[t] = NoRuntime =>
            /\ assignments[RoleOf[t]] # <<>>
            /\ out[t].runtime = assignments[RoleOf[t]][1]

\* An action that no other action of its step shares its role with is
\* retried with the handoff context of its own last failure, not with that of
\* an earlier step.
RetryKnowsItsFailure ==
    \A t \in Task :
        /\ attempt[t] > 0
        /\ pc[t] \in Holding \cup {"lock"}
        /\ \A u \in ActionsOf(StepOf[t]) : RoleOf[u] = RoleOf[t] => u = t
        => seen[t].failure = {t}

\* No step has two actions of the role.
OncePerStep(r) ==
    \A t, u \in Task :
        StepOf[t] = StepOf[u] /\ RoleOf[t] = r /\ RoleOf[u] = r => t = u

\* When a run has succeeded, the last status emitted for each role agrees with
\* its last result: waiting after a healthy one, disabled after one that was
\* skipped over.  A profile switch announces every slot as assigned, over what
\* was announced before: so it stays for a role whose last result the switch
\* followed or came with, and it may stay for one whose action returned
\* before the switch and was joined after it, and for no role that had an
\* action in a later step.  (Two actions of one role in a parallel step may be
\* joined in another order than they announced.)
SlotsSettle ==
    main = "done" =>
        \A i \in DOMAIN results :
            LET t == results[i].task
                r == RoleOf[t]
                settled == IF results[i].health = "healthy" THEN "waiting" ELSE "disabled"
            IN  /\ OncePerStep(r)
                /\ \A j \in DOMAIN results : RoleOf[results[j].task] = r => j <= i
                => IF Switched(Len(results)) /\ ~Switched(i - 1)
                   THEN slot[r] = "assigned"
                   ELSE \/ slot[r] = settled
                        \/ /\ slot[r] = "assigned"
                           /\ Switched(i - 1)
                           /\ \A n \in 1..(i - 1) :
                                 Switched(n) => StepOf[results[n].task] = StepOf[t]
-----------------------------------------------------------------------------
\* The first retry of an action runs on another runtime than the one that
\* failed, if the role has another candidate and no profile switch has
\* reordered the candidates in between.
FirstRetrySwaps ==
    [][\A t \in Task :
          /\ attempt[t] = 0 /\ attempt'[t] = 1
          /\ controller.profile = InitialProfile
          /\ HasAlternative(t)
          => override'[t] # out[t].runtime]_vars

\* Every run ends, even if processes and git hang: the timers end every
\* action, and no action and the loop wait for each other's lock.
Terminates == <>(main \in {"done", "failed"})

\* The loop and its tasks implement the contract of a workflow run.
Contract ==
    INSTANCE WorkflowContract WITH
        at <- step,
        recorded <- Reported,
        skipped <- {t \in Task : pc[t] = "skipped"},
        outcome <- CASE main = "done"   -> "succeeded"
                     [] main = "failed" -> "failed"
                     [] OTHER           -> "running",
        Conditional <- {s \in 1..NSteps :
                           Kind[s] \in {"if_healthy", "if_unhealthy"}}

ImplementsContract == Contract!Spec
-----------------------------------------------------------------------------
\* Every retry runs on another runtime than the one that just failed, if the
\* role has another candidate: "if the assigned runtime hits a rate limit or
\* crashes, ACP hot-swaps to the next preferred candidate for that role".
EveryRetrySwaps ==
    [][\A t \in Task :
          attempt'[t] > attempt[t] /\ HasAlternative(t) =>
              override'[t] # out[t].runtime]_vars

\* A conditional step "only runs if the previous step completed with Healthy
\* status": all the results of the step before it are healthy.
ConditionalFollowsHealthy ==
    \A t \in Task :
        /\ Kind[StepOf[t]] = "if_healthy"
        /\ pc[t] \in InFlight
        => \A i \in DOMAIN results :
              StepOf[results[i].task] = StepOf[t] - 1 =>
                  results[i].health = "healthy"
-----------------------------------------------------------------------------
(***************************************************************************)
(* The inductive invariant of the proofs in Pipeline_proofs: what holds at *)
(* each place of the loop and of an action, so that the properties above   *)
(* follow.                                                                 *)
(***************************************************************************)

\* The assignments are the ranking of some profile, and an action past the
\* choice of its runtime has a slot, so its candidates are never empty.
TableInv ==
    /\ \E p \in Profile : assignments = Ranking[p]
    /\ \A t \in Task :
          \/ pc[t] \in Holding \cup {"fallback"}
          \/ override[t] # NoRuntime
          => RoleOf[t] \in Slot

\* After its process has exited an action has a health, and it returns
\* normally only healthy or skipped.
OutcomeInv ==
    \A t \in Task :
        /\ pc[t] \in {"merging", "resolving", "ok", "joining"} =>
              out[t].health \in Health
        /\ pc[t] \in {"ok", "joining"} =>
              \/ out[t].health = "healthy"
              \/ Policy[RoleOf[t]].kind = "skip"

\* Before a step begins none of its actions has been spawned, the loop waits
\* for the write lock exactly while it is joining an action, and it is done
\* only after the last step.
LoopInv ==
    /\ main = "top" => \A t \in ActionsOf(step) : pc[t] = "unspawned"
    /\ \A t \in Task : pc[t] = "joining" => main = "refresh"
    /\ \A t, u \in Task : pc[t] = "joining" /\ pc[u] = "joining" => t = u
    /\ main = "done" => step = NSteps + 1
    /\ main \in {"running", "refresh"} => step <= NSteps

\* A failure waiting for its fallback is the one in the role's context, and
\* an action that has not begun has no failure.
ContextInv ==
    \A t \in Task :
        /\ /\ pc[t] = "fallback"
           /\ \A u \in ActionsOf(StepOf[t]) : RoleOf[u] = RoleOf[t] => u = t
           => contexts[RoleOf[t]].failure = {t}
        /\ pc[t] \in {"unspawned", "spawned"} => attempt[t] = 0

IInv ==
    /\ TypeOK
    /\ TableInv
    /\ OutcomeInv
    /\ HealthyUnlessSkip
    /\ LoopInv
    /\ StepBarrier
    /\ OneResultEach
    /\ RunsFirstCandidate
    /\ ContextInv
    /\ RetryKnowsItsFailure
=============================================================================
