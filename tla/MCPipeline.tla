----------------------------- MODULE MCPipeline -----------------------------
(***************************************************************************)
(* Workflows on which TLC checks module Pipeline.  A workflow is written   *)
(* here as the YAML file is, a sequence of steps with their roles, and     *)
(* turned into the constants of Pipeline.                                  *)
(***************************************************************************)
EXTENDS PipelineProperties, FailurePolicy, RuntimeOutput

CONSTANTS r1, r2, r3   \* (runtime, model) pairs

Single(kind, a)       == [kind |-> kind, roles |-> <<a>>]
Parallel(roles)     == [kind |-> "parallel", roles |-> roles]

StepsIn(w) == Len(w)
KindIn(w)  == [s \in 1..Len(w) |-> w[s].kind]
TaskIn(w)  == UNION {{<<s, i>> : i \in 1..Len(w[s].roles)} : s \in 1..Len(w)}
StepIn(w)  == [t \in TaskIn(w) |-> t[1]]
PlaceIn(w) == [t \in TaskIn(w) |-> t[2]]
NamedIn(w) == [t \in TaskIn(w) |-> w[t[1]].roles[t[2]]]

\* on_failure: a default, and overrides by role.
OnFailure(default, overrides) == [default |-> default, overrides |-> overrides]
PolicyIn(section, roles) == [r \in roles |-> FailureActionForRole(section, r)]

(***************************************************************************)
(* core: two roles in parallel, one of which is skipped when it fails, a   *)
(* review only if that went well, then the first role once more.           *)
(***************************************************************************)
CoreWorkflow == <<Parallel(<<"backend", "frontend">>),
                  Single("if_healthy", "reviewer"),
                  Single("action", "backend")>>
CoreSteps  == StepsIn(CoreWorkflow)
CoreKind   == KindIn(CoreWorkflow)
CoreTask   == TaskIn(CoreWorkflow)
CoreStepOf == StepIn(CoreWorkflow)
CorePlace  == PlaceIn(CoreWorkflow)
CoreRoleOf == NamedIn(CoreWorkflow)
CoreRole   == {"backend", "frontend", "reviewer"}
CoreRanking ==
    [p \in Profile |->
        [r \in CoreRole |-> IF r = "reviewer" THEN <<r1>> ELSE <<r1, r2>>]]
CorePolicy ==
    PolicyIn(OnFailure(Written("ask_user"),
                       [backend |-> Retries(2), frontend |-> Written("skip")]),
             CoreRole)

\* Every way a process may end; one that succeeds or says "rate limit".
AllOutcomes == {ClassifyOutput(e) : e \in Ending}
TwoOutcomes ==
    {ClassifyOutput(e) : e \in {x \in Ending : x.code = 0 /\ x.says \subseteq {"rate limit"}}}

(***************************************************************************)
(* adaptive: enough skipped failures that the controller switches profile, *)
(* with a third action of the parallel step still under way, then a        *)
(* conditional step whose role has no slot and a step for recovery.        *)
(***************************************************************************)
AdaptiveWorkflow == <<Parallel(<<"docs", "tests">>),
                      Parallel(<<"docs", "tests", "backend">>),
                      Single("if_healthy", "nobody"),
                      Single("if_unhealthy", "tests")>>
AdaptiveSteps  == StepsIn(AdaptiveWorkflow)
AdaptiveKind   == KindIn(AdaptiveWorkflow)
AdaptiveTask   == TaskIn(AdaptiveWorkflow)
AdaptiveStepOf == StepIn(AdaptiveWorkflow)
AdaptivePlace  == PlaceIn(AdaptiveWorkflow)
AdaptiveRoleOf == NamedIn(AdaptiveWorkflow)
AdaptiveRole   == {"docs", "tests", "backend", "nobody"}
AdaptiveSlot   == {"docs", "tests", "backend"}
AdaptiveRanking ==
    [p \in Profile |->
        [r \in AdaptiveRole |->
            CASE r = "nobody" -> <<>>
              [] r = "backend" /\ p = "speed_first" -> <<r2, r1>>
              [] r = "backend" -> <<r1, r2>>
              [] OTHER -> <<r1>>]]
AdaptivePolicy ==
    PolicyIn(OnFailure(Written("skip"), [backend |-> Retries(NoNumber)]), AdaptiveRole)

(***************************************************************************)
(* hotswap: one action, three candidates and two retries.                  *)
(***************************************************************************)
SwapWorkflow == <<Single("action", "backend"), Single("action", "backend")>>
SwapSteps    == StepsIn(SwapWorkflow)
SwapKind     == KindIn(SwapWorkflow)
SwapTask     == TaskIn(SwapWorkflow)
SwapStepOf   == StepIn(SwapWorkflow)
SwapPlace    == PlaceIn(SwapWorkflow)
SwapRoleOf   == NamedIn(SwapWorkflow)
SwapRole     == {"backend"}
SwapRanking  == [p \in Profile |-> [r \in SwapRole |-> <<r1, r2, r3>>]]
SwapPolicy   == PolicyIn(OnFailure(Retries(2), <<>>), SwapRole)
=============================================================================
