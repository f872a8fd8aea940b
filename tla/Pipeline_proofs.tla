-------------------------- MODULE Pipeline_proofs --------------------------
(***************************************************************************)
(* Proofs about module Pipeline, for every workflow, ranking, policy and   *)
(* number of actions.                                                      *)
(***************************************************************************)
EXTENDS PipelineProperties, WellFoundedInduction, FiniteSetTheorems, TLAPS

USE DEF Holding, Timed, InFlight

-----------------------------------------------------------------------------
(***************************************************************************)
(* The pure decisions.                                                     *)
(***************************************************************************)

\* A set of naturals that is not empty has a least element.
LEMMA LeastNatural ==
    ASSUME NEW S \in SUBSET Nat, S # {}
    PROVE  \E m \in S : \A n \in S : m <= n
<1> DEFINE Less == OpToRel(<, Nat)
<1>1. \A m, n \in Nat : n < m => <<n, m>> \in Less
  BY DEF OpToRel
<1>2. IsWellFoundedOn(Less, Nat)
  BY NatLessThanWellFounded
<1> HIDE DEF Less
<1>3. PICK m \in S : \A n \in S : ~(<<n, m>> \in Less)
  BY <1>2, WFMin
<1>4. \A n \in S : ~(n < m)
  BY <1>1, <1>3
<1>5. \A n \in S : m <= n
  BY <1>4
<1> QED BY <1>5

\* fallback_assignment returns one of the candidates it is given.
LEMMA FallbackIsCandidate ==
    ASSUME NEW candidates \in Seq(Runtime), candidates # <<>>
    PROVE  FallbackAssignment(candidates) \in Runtime
<1> DEFINE others == {i \in DOMAIN candidates : candidates[i] # candidates[1]}
           first  == CHOOSE i \in others : \A j \in others : i <= j
<1>1. /\ candidates[1] \in Runtime
      /\ \A i \in DOMAIN candidates : candidates[i] \in Runtime
      /\ others \in SUBSET Nat
  OBVIOUS
<1>2. CASE others = {}
  BY <1>1, <1>2 DEF FallbackAssignment
<1>3. CASE others # {}
  <2>1. \E i \in others : \A j \in others : i <= j
    BY <1>1, <1>3, LeastNatural
  <2>2. first \in others
    BY <2>1
  <2>3. candidates[first] \in Runtime
    BY <1>1, <2>2
  <2>4. FallbackAssignment(candidates) = candidates[first]
    BY <1>3 DEF FallbackAssignment
  <2> QED BY <2>3, <2>4
<1> QED BY <1>2, <1>3

\* record_step keeps the counters natural and the profile a profile.
LEMMA RecordStepType ==
    ASSUME NEW c \in ControllerState, NEW h
    PROVE  RecordStep(c, h) \in ControllerState
  BY DEF RecordStep, Profile, ControllerState

\* The candidates of a role with a slot are runtimes, and there is one.
LEMMA RankingType ==
    ASSUME NEW p \in Profile
    PROVE  /\ Ranking[p] \in [Role -> Seq(Runtime)]
           /\ \A r \in Slot : Ranking[p][r] # <<>>
           /\ \A r \in Role \ Slot : Ranking[p][r] = <<>>
  BY SchedulingAssumption
\* Appending an element keeps the others where they are.
LEMMA AppendAt ==
    ASSUME NEW S, NEW q \in Seq(S), NEW e \in S
    PROVE  /\ Append(q, e) \in Seq(S)
           /\ DOMAIN Append(q, e) = DOMAIN q \cup {Len(q) + 1}
           /\ \A i \in DOMAIN q : i # Len(q) + 1 /\ Append(q, e)[i] = q[i]
           /\ Append(q, e)[Len(q) + 1] = e
  OBVIOUS
-----------------------------------------------------------------------------
(***************************************************************************)
(* The initial state.                                                      *)
(***************************************************************************)

LEMMA InitIInv == Init => IInv
<1> SUFFICES ASSUME Init PROVE IInv
  OBVIOUS
<1> USE WorkflowAssumption, SchedulingAssumption DEF Init
<1>1. TypeOK
  BY DEF TypeOK, NoContext, Profile, Place, LatestAttempt, Context, SlotStatus,
         ControllerState, Result
<1>2. TableInv
  BY DEF TableInv
<1>3. /\ OutcomeInv /\ HealthyUnlessSkip /\ LoopInv
      /\ RunsFirstCandidate /\ ContextInv /\ RetryKnowsItsFailure
  BY DEF OutcomeInv, HealthyUnlessSkip, LoopInv, ActionsOf,
         RunsFirstCandidate, ContextInv, RetryKnowsItsFailure
<1>4. StepBarrier
  BY DEF StepBarrier
<1>5. OneResultEach
  BY DEF OneResultEach, Reported
<1> QED BY <1>1, <1>2, <1>3, <1>4, <1>5 DEF IInv
-----------------------------------------------------------------------------
(***************************************************************************)
(* Type correctness is preserved.                                          *)
(***************************************************************************)

LEMMA TypeStep ==
    ASSUME IInv, [Next]_vars
    PROVE  TypeOK'
<1> USE WorkflowAssumption DEF TypeOK, taskVars, loopVars
<1>0. TypeOK /\ TableInv /\ OutcomeInv /\ LoopInv
  BY DEF IInv
<1>a. \A t \in Task : RoleOf[t] \in Role
  OBVIOUS
<1>1. ASSUME NEW t \in Task, Begin(t)
      PROVE  TypeOK'
  <2>1. pc' \in [Task -> Place]
    BY <1>0, <1>1 DEF Begin, Place
  <2>2. seen' \in [Task -> Context]
    BY <1>0, <1>1, <1>a DEF Begin
  <2>3. slot' \in [Role -> SlotStatus]
    BY <1>0, <1>1, <1>a DEF Begin, SlotStatus
  <2> QED BY <1>0, <1>1, <2>1, <2>2, <2>3 DEF Begin
<1>2. ASSUME NEW t \in Task, ChooseRuntime(t)
      PROVE  TypeOK'
  <2>1. pc' \in [Task -> Place]
    BY <1>0, <1>2 DEF ChooseRuntime, Place
  <2>2. \/ UNCHANGED out
        \/ \E r \in Runtime : out' = [out EXCEPT ![t].runtime = r]
    <3>1. assignments[RoleOf[t]] \in Seq(Runtime)
      BY <1>0
    <3>2. assignments[RoleOf[t]] # <<>> => assignments[RoleOf[t]][1] \in Runtime
      BY <3>1
    <3>3. override[t] # NoRuntime => override[t] \in Runtime
      BY <1>0
    <3>4. CASE pc' = [pc EXCEPT ![t] = "errored"] /\ UNCHANGED out
      BY <3>4
    <3>5. CASE /\ override[t] # NoRuntime
               /\ out' = [out EXCEPT ![t].runtime = override[t]]
      BY <3>3, <3>5, Zenon
    <3>6. CASE /\ override[t] = NoRuntime
               /\ assignments[RoleOf[t]] # <<>>
               /\ out' = [out EXCEPT ![t].runtime = assignments[RoleOf[t]][1]]
      BY <3>2, <3>6, Zenon
    <3> QED BY <1>2, <3>4, <3>5, <3>6 DEF ChooseRuntime
  <2>3. out' \in [Task -> LatestAttempt]
    <3>1. \A o \in LatestAttempt, r \in Runtime :
              [o EXCEPT !.runtime = r] \in LatestAttempt
      BY DEF LatestAttempt
    <3>2. CASE UNCHANGED out
      BY <1>0, <3>2
    <3>3. ASSUME NEW r \in Runtime, out' = [out EXCEPT ![t].runtime = r]
          PROVE  out' \in [Task -> LatestAttempt]
      BY <1>0, <3>1, <3>3
    <3> QED BY <2>2, <3>2, <3>3
  <2> QED BY <1>0, <1>2, <2>1, <2>3 DEF ChooseRuntime
<1>3. ASSUME NEW t \in Task, RuntimeError(t) \/ Timeout(t)
      PROVE  TypeOK'
  <2>1. pc' = [pc EXCEPT ![t] = "errored"]
    BY <1>3 DEF RuntimeError, Timeout
  <2>2. pc' \in [Task -> Place]
    BY <1>0, <2>1 DEF Place
  <2>3. UNCHANGED <<main, step, taskVars, assignments, loopVars, contexts,
                    slot, deadline>>
    BY <1>3 DEF RuntimeError, Timeout
  <2> QED BY <1>0, <2>2, <2>3
<1>4. ASSUME NEW t \in Task, NEW h \in Outcomes, RuntimeExit(t, h)
      PROVE  TypeOK'
  <2>1. h \in Health
    BY SchedulingAssumption
  <2>2. out' \in [Task -> LatestAttempt]
    BY <1>0, <1>4, <2>1 DEF RuntimeExit, LatestAttempt
  <2>3. pc' \in [Task -> Place]
    BY <1>0, <1>4 DEF RuntimeExit, Place
  <2> QED BY <1>0, <1>4, <2>2, <2>3 DEF RuntimeExit
<1>5. ASSUME NEW t \in Task, SimulateMerge(t) \/ ResolveConflict(t)
      PROVE  TypeOK'
  <2>1. CASE AttemptReturns(t)
    <3>1. \E p \in {"ok", "fallback", "exhausted"} : pc' = [pc EXCEPT ![t] = p]
      BY <2>1, Zenon DEF AttemptReturns
    <3>2. \/ UNCHANGED contexts
          \/ contexts' = [contexts EXCEPT
                 ![RoleOf[t]] = [failure |-> {t}, hints |-> FALSE]]
      BY <2>1 DEF AttemptReturns
    <3>3. \E x \in {"waiting", "disabled", "vacant"} :
              slot' = [slot EXCEPT ![RoleOf[t]] = x]
      BY <2>1, Zenon DEF AttemptReturns
    <3>4. pc' \in [Task -> Place]
      BY <1>0, <3>1 DEF Place
    <3>5. [failure |-> {t}, hints |-> FALSE] \in Context
      BY DEF Context
    <3>6. contexts' \in [Role -> Context]
      BY <1>0, <1>a, <3>2, <3>5
    <3>7. slot' \in [Role -> SlotStatus]
      BY <1>0, <1>a, <3>3 DEF SlotStatus
    <3> QED BY <1>0, <1>5, <3>4, <3>6, <3>7 DEF SimulateMerge, ResolveConflict
  <2>2. CASE /\ pc' = [pc EXCEPT ![t] = "resolving"]
             /\ UNCHANGED <<contexts, slot>>
    <3>1. pc' \in [Task -> Place]
      BY <1>0, <2>2 DEF Place
    <3> QED BY <1>0, <1>5, <2>2, <3>1 DEF SimulateMerge, ResolveConflict
  <2> QED BY <1>5, <2>1, <2>2 DEF SimulateMerge, ResolveConflict
<1>6. ASSUME NEW t \in Task, Fallback(t)
      PROVE  TypeOK'
  <2>1. /\ assignments[RoleOf[t]] \in Seq(Runtime)
        /\ assignments[RoleOf[t]] # <<>>
    BY <1>0, <1>6, SchedulingAssumption DEF Fallback, TableInv
  <2>2. FallbackAssignment(assignments[RoleOf[t]]) \in Runtime
    BY <2>1, FallbackIsCandidate
  <2>3. /\ pc' \in [Task -> Place]
        /\ slot' \in [Role -> SlotStatus]
    BY <1>0, <1>6, <1>a DEF Fallback, Place, SlotStatus
  <2>4. /\ seen' \in [Task -> Context]
        /\ attempt' \in [Task -> Nat]
    BY <1>0, <1>6, <1>a DEF Fallback
  <2>5. override' \in [Task -> Runtime \cup {NoRuntime}]
    BY <1>0, <1>6, <2>2 DEF Fallback
  <2> QED BY <1>0, <1>6, <2>3, <2>4, <2>5 DEF Fallback
<1>7. CASE PassOver
  <2>1. pc' \in [Task -> Place]
    BY <1>0, <1>7 DEF PassOver, Place
  <2> QED BY <1>0, <1>7, <2>1 DEF PassOver
<1>8. CASE BeginStep
  <2>1. PICK hinted \in SUBSET {RoleOf[t] : t \in ActionsOf(step)} :
          contexts' = [r \in Role |-> IF r \in hinted
                                     THEN [contexts[r] EXCEPT !.hints = TRUE]
                                     ELSE contexts[r]]
    BY <1>8 DEF BeginStep
  <2>2. \A c \in Context : [c EXCEPT !.hints = TRUE] \in Context
    BY DEF Context
  <2>3. contexts' \in [Role -> Context]
    BY <1>0, <2>1, <2>2
  <2>4. /\ main' = "running"
        /\ UNCHANGED <<step, pc, taskVars, assignments, loopVars, slot,
                       deadline>>
    BY <1>8 DEF BeginStep
  <2> QED BY <1>0, <2>3, <2>4
<1>9. ASSUME NEW t \in Task, Spawn(t)
      PROVE  TypeOK'
  <2>1. pc' \in [Task -> Place]
    BY <1>0, <1>9 DEF Spawn, Place
  <2> QED BY <1>0, <1>9, <2>1 DEF Spawn
<1>10. ASSUME Abandon
       PROVE  TypeOK'
  <2>1. pc' \in [Task -> Place]
    BY <1>0, <1>10 DEF Abandon, Place
  <2> QED BY <1>0, <1>10, <2>1 DEF Abandon
<1>11. ASSUME NEW t \in Task, Join(t)
       PROVE  TypeOK'
  <2>1. out[t].health \in Health
    BY <1>0, <1>11 DEF Join, OutcomeInv
  <2>2. controller' \in ControllerState
    BY <1>0, <1>11, RecordStepType DEF Join
  <2>3. ResultOf(t) \in Result
    BY <2>1 DEF ResultOf, Result
  <2>4. results' \in Seq(Result)
    <3>1. results' = Append(results, ResultOf(t)) \/ results' = results
      BY <1>11 DEF Join
    <3>2. results \in Seq(Result)
      BY <1>0
    <3>3. Append(results, ResultOf(t)) \in Seq(Result)
      BY <2>3, <3>2
    <3> QED BY <3>1, <3>2, <3>3
  <2>5. pc' \in [Task -> Place]
    BY <1>0, <1>11 DEF Join, Place
  <2>6. slot' \in [Role -> SlotStatus]
    BY <1>0, <1>11 DEF Join, SlotStatus
  <2>7. /\ main' \in {"top", "running", "refresh", "done", "failed"}
        /\ lastHealth' \in Health \cup {"none"}
        /\ UNCHANGED <<step, taskVars, assignments, contexts, deadline>>
    BY <1>0, <1>11, <2>1 DEF Join
  <2> QED BY <1>0, <2>2, <2>4, <2>5, <2>6, <2>7
<1>12. ASSUME NEW t \in Task, Refresh(t)
       PROVE  TypeOK'
  <2>1. ResultOf(t) \in Result
    BY <1>0, <1>12 DEF Refresh, OutcomeInv, ResultOf, Result
  <2>2. controller.profile \in Profile
    BY <1>0 DEF ControllerState
  <2>3. assignments' \in [Role -> Seq(Runtime)]
    BY <1>12, <2>2, SchedulingAssumption DEF Refresh
  <2>4. pc' \in [Task -> Place]
    BY <1>0, <1>12 DEF Refresh, Place
  <2> QED BY <1>0, <1>12, <2>1, <2>3, <2>4 DEF Refresh
<1>13. CASE EndStep
  BY <1>0, <1>13 DEF EndStep, LoopInv
<1>14. CASE Finish \/ DeadlinePasses
  BY <1>0, <1>14 DEF Finish, DeadlinePasses
<1>15. CASE UNCHANGED vars
  BY <1>0, <1>15 DEF vars
<1> QED
  BY <1>1, <1>2, <1>3, <1>4, <1>5, <1>6, <1>7, <1>8, <1>9, <1>10, <1>11,
     <1>12, <1>13, <1>14, <1>15
     DEF Next, LoopStep, ActionStep, DeadlineExceeded, JoinError
-----------------------------------------------------------------------------
\* The table stays the ranking of a profile, and only roles with a slot get
\* past the choice of a runtime.
LEMMA TableStep ==
    ASSUME IInv, [Next]_vars
    PROVE  TableInv'
<1> USE WorkflowAssumption DEF taskVars, loopVars
<1>0. /\ TableInv
      /\ pc \in [Task -> Place]
      /\ override \in [Task -> Runtime \cup {NoRuntime}]
      /\ controller \in ControllerState
  BY DEF IInv, TypeOK
<1>1. ASSUME NEW t \in Task, Begin(t)
      PROVE  TableInv'
  BY <1>0, <1>1 DEF Begin, TableInv
<1>2. ASSUME NEW t \in Task, ChooseRuntime(t)
      PROVE  TableInv'
  <2>1. assignments[RoleOf[t]] # <<>> => RoleOf[t] \in Slot
    BY <1>0, RankingType DEF TableInv
  <2> QED BY <1>0, <1>2, <2>1 DEF ChooseRuntime, TableInv
<1>3. ASSUME NEW t \in Task, RuntimeError(t) \/ Timeout(t)
      PROVE  TableInv'
  BY <1>0, <1>3 DEF RuntimeError, Timeout, TableInv
<1>4. ASSUME NEW t \in Task, NEW h \in Outcomes, RuntimeExit(t, h)
      PROVE  TableInv'
  BY <1>0, <1>4 DEF RuntimeExit, TableInv
<1>5. ASSUME NEW t \in Task, SimulateMerge(t) \/ ResolveConflict(t)
      PROVE  TableInv'
  BY <1>0, <1>5 DEF SimulateMerge, ResolveConflict, AttemptReturns, TableInv
<1>6. ASSUME NEW t \in Task, Fallback(t)
      PROVE  TableInv'
  BY <1>0, <1>6 DEF Fallback, TableInv
<1>7. CASE PassOver
  BY <1>0, <1>7 DEF PassOver, TableInv
<1>8. CASE BeginStep
  BY <1>0, <1>8 DEF BeginStep, TableInv
<1>9. ASSUME NEW t \in Task, Spawn(t)
      PROVE  TableInv'
  BY <1>0, <1>9 DEF Spawn, TableInv
<1>10. ASSUME Abandon
       PROVE  TableInv'
  BY <1>0, <1>10 DEF Abandon, TableInv
<1>11. ASSUME NEW t \in Task, Join(t)
      PROVE  TableInv'
  BY <1>0, <1>11 DEF Join, TableInv
<1>12. ASSUME NEW t \in Task, Refresh(t)
      PROVE  TableInv'
  <2>1. controller.profile \in Profile
    BY <1>0 DEF ControllerState
  <2> QED BY <1>0, <1>12, <2>1 DEF Refresh, TableInv
<1>13. CASE EndStep
  BY <1>0, <1>13 DEF EndStep, TableInv
<1>14. CASE Finish \/ DeadlinePasses
  BY <1>0, <1>14 DEF Finish, DeadlinePasses, TableInv
<1>15. CASE UNCHANGED vars
  BY <1>0, <1>15 DEF vars, TableInv
<1> QED
  BY <1>1, <1>2, <1>3, <1>4, <1>5, <1>6, <1>7, <1>8, <1>9, <1>10, <1>11,
     <1>12, <1>13, <1>14, <1>15
     DEF Next, LoopStep, ActionStep, DeadlineExceeded, JoinError

\* An action returns normally only healthy or skipped.
LEMMA OutcomeStep ==
    ASSUME IInv, [Next]_vars
    PROVE  OutcomeInv'
<1> USE WorkflowAssumption DEF taskVars, loopVars
<1>0. /\ OutcomeInv
      /\ pc \in [Task -> Place]
      /\ out \in [Task -> LatestAttempt]
  BY DEF IInv, TypeOK
<1>1. ASSUME NEW t \in Task, Begin(t)
      PROVE  OutcomeInv'
  BY <1>0, <1>1 DEF Begin, OutcomeInv
<1>2. ASSUME NEW t \in Task, ChooseRuntime(t)
      PROVE  OutcomeInv'
  BY <1>0, <1>2 DEF ChooseRuntime, OutcomeInv
<1>3. ASSUME NEW t \in Task, RuntimeError(t) \/ Timeout(t)
      PROVE  OutcomeInv'
  BY <1>0, <1>3 DEF RuntimeError, Timeout, OutcomeInv
<1>4. ASSUME NEW t \in Task, NEW h \in Outcomes, RuntimeExit(t, h)
      PROVE  OutcomeInv'
  <2>1. h \in Health
    BY SchedulingAssumption
  <2>2. /\ pc'[t] = "merging"
        /\ out'[t].health = h
    BY <1>0, <1>4 DEF RuntimeExit, LatestAttempt
  <2>3. \A u \in Task \ {t} : pc'[u] = pc[u] /\ out'[u] = out[u]
    BY <1>0, <1>4 DEF RuntimeExit
  <2> QED BY <1>0, <2>1, <2>2, <2>3 DEF OutcomeInv
<1>5. ASSUME NEW t \in Task, SimulateMerge(t) \/ ResolveConflict(t)
      PROVE  OutcomeInv'
  <2>1. out[t].health \in Health /\ UNCHANGED out
    BY <1>0, <1>5 DEF SimulateMerge, ResolveConflict, OutcomeInv
  <2>2. \A u \in Task \ {t} : pc'[u] = pc[u]
    BY <1>0, <1>5 DEF SimulateMerge, ResolveConflict, AttemptReturns
  <2>3. \/ pc'[t] \in {"resolving", "fallback", "exhausted"}
        \/ /\ pc'[t] = "ok"
           /\ \/ ~IsRecoverable(out[t].health)
              \/ Policy[RoleOf[t]].kind = "skip"
    BY <1>0, <1>5, Zenon DEF SimulateMerge, ResolveConflict, AttemptReturns
  <2>4. ~IsRecoverable(out[t].health) => out[t].health = "healthy"
    BY <2>1 DEF IsRecoverable, Health
  <2> QED BY <1>0, <2>1, <2>2, <2>3, <2>4 DEF OutcomeInv
<1>6. ASSUME NEW t \in Task, Fallback(t)
      PROVE  OutcomeInv'
  BY <1>0, <1>6 DEF Fallback, OutcomeInv
<1>7. CASE PassOver
  BY <1>0, <1>7 DEF PassOver, OutcomeInv
<1>8. CASE BeginStep
  BY <1>0, <1>8 DEF BeginStep, OutcomeInv
<1>9. ASSUME NEW t \in Task, Spawn(t)
      PROVE  OutcomeInv'
  BY <1>0, <1>9 DEF Spawn, OutcomeInv
<1>10. ASSUME Abandon
       PROVE  OutcomeInv'
  BY <1>0, <1>10 DEF Abandon, OutcomeInv
<1>11. ASSUME NEW t \in Task, Join(t)
      PROVE  OutcomeInv'
  BY <1>0, <1>11 DEF Join, OutcomeInv
<1>12. ASSUME NEW t \in Task, Refresh(t)
      PROVE  OutcomeInv'
  BY <1>0, <1>12 DEF Refresh, OutcomeInv
<1>13. CASE EndStep
  BY <1>0, <1>13 DEF EndStep, OutcomeInv
<1>14. CASE Finish \/ DeadlinePasses
  BY <1>0, <1>14 DEF Finish, DeadlinePasses, OutcomeInv
<1>15. CASE UNCHANGED vars
  BY <1>0, <1>15 DEF vars, OutcomeInv
<1> QED
  BY <1>1, <1>2, <1>3, <1>4, <1>5, <1>6, <1>7, <1>8, <1>9, <1>10, <1>11,
     <1>12, <1>13, <1>14, <1>15
     DEF Next, LoopStep, ActionStep, DeadlineExceeded, JoinError

\* An unhealthy result is reported only for a role whose policy is skip.
LEMMA HealthyStep ==
    ASSUME IInv, [Next]_vars
    PROVE  HealthyUnlessSkip'
<1> USE WorkflowAssumption DEF taskVars, loopVars
<1>0. /\ OutcomeInv
      /\ HealthyUnlessSkip
      /\ results \in Seq(Result)
  BY DEF IInv, TypeOK
<1>1. ASSUME NEW t \in Task, Begin(t)
      PROVE  HealthyUnlessSkip'
  BY <1>0, <1>1 DEF Begin, HealthyUnlessSkip
<1>2. ASSUME NEW t \in Task, ChooseRuntime(t)
      PROVE  HealthyUnlessSkip'
  BY <1>0, <1>2 DEF ChooseRuntime, HealthyUnlessSkip
<1>3. ASSUME NEW t \in Task, RuntimeError(t) \/ Timeout(t)
      PROVE  HealthyUnlessSkip'
  BY <1>0, <1>3 DEF RuntimeError, Timeout, HealthyUnlessSkip
<1>4. ASSUME NEW t \in Task, NEW h \in Outcomes, RuntimeExit(t, h)
      PROVE  HealthyUnlessSkip'
  BY <1>0, <1>4 DEF RuntimeExit, HealthyUnlessSkip
<1>5. ASSUME NEW t \in Task, SimulateMerge(t) \/ ResolveConflict(t)
      PROVE  HealthyUnlessSkip'
  BY <1>0, <1>5
     DEF SimulateMerge, ResolveConflict, AttemptReturns, HealthyUnlessSkip
<1>6. ASSUME NEW t \in Task, Fallback(t)
      PROVE  HealthyUnlessSkip'
  BY <1>0, <1>6 DEF Fallback, HealthyUnlessSkip
<1>7. CASE PassOver
  BY <1>0, <1>7 DEF PassOver, HealthyUnlessSkip
<1>8. CASE BeginStep
  BY <1>0, <1>8 DEF BeginStep, HealthyUnlessSkip
<1>9. ASSUME NEW t \in Task, Spawn(t)
      PROVE  HealthyUnlessSkip'
  BY <1>0, <1>9 DEF Spawn, HealthyUnlessSkip
<1>10. ASSUME Abandon
       PROVE  HealthyUnlessSkip'
  BY <1>0, <1>10 DEF Abandon, HealthyUnlessSkip
<1>11. ASSUME NEW t \in Task, Join(t)
      PROVE  HealthyUnlessSkip'
  <2>1. /\ ResultOf(t) \in Result
        /\ \/ ResultOf(t).health = "healthy"
           \/ Policy[RoleOf[ResultOf(t).task]].kind = "skip"
    BY <1>0, <1>11 DEF Join, OutcomeInv, ResultOf, Result
  <2>2. CASE UNCHANGED results
    BY <1>0, <2>2 DEF HealthyUnlessSkip
  <2>3. CASE results' = Append(results, ResultOf(t))
    BY <1>0, <2>1, <2>3, AppendAt DEF HealthyUnlessSkip
  <2> QED BY <1>11, <2>2, <2>3 DEF Join
<1>12. ASSUME NEW t \in Task, Refresh(t)
      PROVE  HealthyUnlessSkip'
  BY <1>0, <1>12, AppendAt DEF Refresh, HealthyUnlessSkip, OutcomeInv, ResultOf
<1>13. CASE EndStep
  BY <1>0, <1>13 DEF EndStep, HealthyUnlessSkip
<1>14. CASE Finish \/ DeadlinePasses
  BY <1>0, <1>14 DEF Finish, DeadlinePasses, HealthyUnlessSkip
<1>15. CASE UNCHANGED vars
  BY <1>0, <1>15 DEF vars, HealthyUnlessSkip
<1> QED
  BY <1>1, <1>2, <1>3, <1>4, <1>5, <1>6, <1>7, <1>8, <1>9, <1>10, <1>11,
     <1>12, <1>13, <1>14, <1>15
     DEF Next, LoopStep, ActionStep, DeadlineExceeded, JoinError

\* The loop keeps its own invariant.
LEMMA LoopInvStep ==
    ASSUME IInv, [Next]_vars
    PROVE  LoopInv'
<1> USE WorkflowAssumption DEF taskVars, loopVars
<1>0. /\ LoopInv
      /\ StepBarrier
      /\ pc \in [Task -> Place]
      /\ step \in 1..(NSteps + 1)
  BY DEF IInv, TypeOK
<1>1. ASSUME NEW t \in Task, Begin(t)
      PROVE  LoopInv'
  BY <1>0, <1>1 DEF Begin, LoopInv, ActionsOf
<1>2. ASSUME NEW t \in Task, ChooseRuntime(t)
      PROVE  LoopInv'
  BY <1>0, <1>2 DEF ChooseRuntime, LoopInv, ActionsOf
<1>3. ASSUME NEW t \in Task, RuntimeError(t) \/ Timeout(t)
      PROVE  LoopInv'
  BY <1>0, <1>3 DEF RuntimeError, Timeout, LoopInv, ActionsOf
<1>4. ASSUME NEW t \in Task, NEW h \in Outcomes, RuntimeExit(t, h)
      PROVE  LoopInv'
  BY <1>0, <1>4 DEF RuntimeExit, LoopInv, ActionsOf
<1>5. ASSUME NEW t \in Task, SimulateMerge(t) \/ ResolveConflict(t)
      PROVE  LoopInv'
  <2>1. /\ pc[t] \in {"merging", "resolving"}
        /\ \E p \in {"resolving", "ok", "fallback", "exhausted"} :
              pc' = [pc EXCEPT ![t] = p]
    BY <1>5, Zenon DEF SimulateMerge, ResolveConflict, AttemptReturns
  <2>2. UNCHANGED <<main, step>>
    BY <1>5 DEF SimulateMerge, ResolveConflict
  <2> QED BY <1>0, <2>1, <2>2 DEF LoopInv, ActionsOf
<1>6. ASSUME NEW t \in Task, Fallback(t)
      PROVE  LoopInv'
  BY <1>0, <1>6 DEF Fallback, LoopInv, ActionsOf
<1>7. CASE PassOver
  BY <1>0, <1>7 DEF PassOver, LoopInv, StepBarrier, ActionsOf
<1>8. CASE BeginStep
  BY <1>0, <1>8 DEF BeginStep, LoopInv, ActionsOf
<1>9. ASSUME NEW t \in Task, Spawn(t)
      PROVE  LoopInv'
  BY <1>0, <1>9 DEF Spawn, LoopInv, Unspawned, ActionsOf
<1>10. ASSUME main = "running", Abandon
       PROVE  LoopInv'
  BY <1>0, <1>10 DEF Abandon, LoopInv, ActionsOf
<1>11. ASSUME NEW t \in Task, Join(t)
      PROVE  LoopInv'
  BY <1>0, <1>11 DEF Join, LoopInv, ActionsOf
<1>12. ASSUME NEW t \in Task, Refresh(t)
      PROVE  LoopInv'
  BY <1>0, <1>12 DEF Refresh, LoopInv, ActionsOf
<1>13. CASE EndStep
  BY <1>0, <1>13 DEF EndStep, LoopInv, StepBarrier, ActionsOf
<1>14. CASE Finish \/ DeadlinePasses
  BY <1>0, <1>14 DEF Finish, DeadlinePasses, LoopInv, ActionsOf
<1>15. CASE UNCHANGED vars
  BY <1>0, <1>15 DEF vars, LoopInv, ActionsOf
<1> QED
  BY <1>1, <1>2, <1>3, <1>4, <1>5, <1>6, <1>7, <1>8, <1>9, <1>10, <1>11,
     <1>12, <1>13, <1>14, <1>15
     DEF Next, LoopStep, ActionStep, DeadlineExceeded, JoinError

\* No step of the loop or of an action crosses the barrier between steps.
LEMMA BarrierStep ==
    ASSUME IInv, [Next]_vars
    PROVE  StepBarrier'
<1> USE WorkflowAssumption DEF taskVars, loopVars
<1>0. /\ LoopInv
      /\ StepBarrier
      /\ pc \in [Task -> Place]
      /\ step \in 1..(NSteps + 1)
  BY DEF IInv, TypeOK
<1>1. ASSUME NEW t \in Task, Begin(t)
      PROVE  StepBarrier'
  BY <1>0, <1>1 DEF Begin, StepBarrier, Finished
<1>2. ASSUME NEW t \in Task, ChooseRuntime(t)
      PROVE  StepBarrier'
  BY <1>0, <1>2 DEF ChooseRuntime, StepBarrier, Finished
<1>3. ASSUME NEW t \in Task, RuntimeError(t) \/ Timeout(t)
      PROVE  StepBarrier'
  BY <1>0, <1>3 DEF RuntimeError, Timeout, StepBarrier, Finished
<1>4. ASSUME NEW t \in Task, NEW h \in Outcomes, RuntimeExit(t, h)
      PROVE  StepBarrier'
  BY <1>0, <1>4 DEF RuntimeExit, StepBarrier, Finished
<1>5. ASSUME NEW t \in Task, SimulateMerge(t) \/ ResolveConflict(t)
      PROVE  StepBarrier'
  BY <1>0, <1>5
     DEF SimulateMerge, ResolveConflict, AttemptReturns, StepBarrier, Finished
<1>6. ASSUME NEW t \in Task, Fallback(t)
      PROVE  StepBarrier'
  BY <1>0, <1>6 DEF Fallback, StepBarrier, Finished
<1>7. CASE PassOver
  BY <1>0, <1>7 DEF PassOver, LoopInv, StepBarrier, ActionsOf, Finished
<1>8. CASE BeginStep
  BY <1>0, <1>8 DEF BeginStep, StepBarrier, Finished
<1>9. ASSUME NEW t \in Task, Spawn(t)
      PROVE  StepBarrier'
  BY <1>0, <1>9 DEF Spawn, StepBarrier, ActionsOf, Unspawned, Finished
<1>10. ASSUME Abandon
       PROVE  StepBarrier'
  BY <1>0, <1>10 DEF Abandon, StepBarrier, Finished
<1>11. ASSUME NEW t \in Task, Join(t)
      PROVE  StepBarrier'
  BY <1>0, <1>11 DEF Join, StepBarrier, Finished
<1>12. ASSUME NEW t \in Task, Refresh(t)
      PROVE  StepBarrier'
  BY <1>0, <1>12 DEF Refresh, StepBarrier, Finished
<1>13. CASE EndStep
  BY <1>0, <1>13 DEF EndStep, StepBarrier, ActionsOf, Finished
<1>14. CASE Finish \/ DeadlinePasses
  BY <1>0, <1>14 DEF Finish, DeadlinePasses, StepBarrier, Finished
<1>15. CASE UNCHANGED vars
  BY <1>0, <1>15 DEF vars, StepBarrier, Finished
<1> QED
  BY <1>1, <1>2, <1>3, <1>4, <1>5, <1>6, <1>7, <1>8, <1>9, <1>10, <1>11,
     <1>12, <1>13, <1>14, <1>15
     DEF Next, LoopStep, ActionStep, DeadlineExceeded, JoinError

\* A step that reports and joins nothing keeps one result for each action.
LEMMA NothingReported ==
    ASSUME OneResultEach, UNCHANGED results,
           \A t \in Task : pc'[t] = "joined" <=> pc[t] = "joined",
           main' = "done" => \A t \in Task : pc'[t] \in {"joined", "skipped"}
    PROVE  OneResultEach'
<1>1. {t \in Task : pc'[t] = "joined"} = {t \in Task : pc[t] = "joined"}
  OBVIOUS
<1>2. main' = "done" => Finished' = Task
  BY DEF Finished
<1>3. Reported' = Reported
  BY DEF Reported
<1> QED BY <1>1, <1>2, <1>3 DEF OneResultEach

\* Nor does one that joins an action and reports its result.
LEMMA OneReported ==
    ASSUME NEW t \in Task, OneResultEach, results \in Seq(Result),
           ResultOf(t) \in Result, pc \in [Task -> Place],
           pc[t] # "joined", pc' = [pc EXCEPT ![t] = "joined"],
           results' = Append(results, ResultOf(t)), main' # "done"
    PROVE  OneResultEach'
<1>1. {u \in Task : pc'[u] = "joined"} =
          {u \in Task : pc[u] = "joined"} \cup {t}
  OBVIOUS
<1>2. /\ DOMAIN results' = DOMAIN results \cup {Len(results) + 1}
      /\ \A i \in DOMAIN results : /\ i # Len(results) + 1
                                   /\ results'[i] = results[i]
      /\ results'[Len(results) + 1].task = t
  BY AppendAt DEF ResultOf
<1>3. Reported' = Reported \cup {t}
  BY <1>2 DEF Reported
<1>4. t \notin Reported
  BY DEF OneResultEach
<1>5. \A i, j \in DOMAIN results' :
          results'[i].task = results'[j].task => i = j
  BY <1>2, <1>4 DEF OneResultEach, Reported
<1> QED BY <1>1, <1>3, <1>5 DEF OneResultEach

\* Each joined action keeps exactly one result.
LEMMA OneResultStep ==
    ASSUME IInv, [Next]_vars
    PROVE  OneResultEach'
<1> USE WorkflowAssumption DEF taskVars, loopVars
<1>0. /\ OneResultEach
      /\ LoopInv
      /\ StepBarrier
      /\ OutcomeInv
      /\ pc \in [Task -> Place]
      /\ results \in Seq(Result)
  BY DEF IInv, TypeOK
<1>00. main = "done" => \A u \in Task : pc[u] \in {"joined", "skipped"}
  BY <1>0 DEF OneResultEach, Finished
<1>1. ASSUME NEW t \in Task, Begin(t)
      PROVE  OneResultEach'
  BY <1>0, <1>00, <1>1, NothingReported DEF Begin
<1>2. ASSUME NEW t \in Task, ChooseRuntime(t)
      PROVE  OneResultEach'
  BY <1>0, <1>00, <1>2, NothingReported DEF ChooseRuntime
<1>3. ASSUME NEW t \in Task, RuntimeError(t) \/ Timeout(t)
      PROVE  OneResultEach'
  BY <1>0, <1>00, <1>3, NothingReported DEF RuntimeError, Timeout
<1>4. ASSUME NEW t \in Task, NEW h \in Outcomes, RuntimeExit(t, h)
      PROVE  OneResultEach'
  BY <1>0, <1>00, <1>4, NothingReported DEF RuntimeExit
<1>5. ASSUME NEW t \in Task, SimulateMerge(t) \/ ResolveConflict(t)
      PROVE  OneResultEach'
  BY <1>0, <1>00, <1>5, NothingReported
     DEF SimulateMerge, ResolveConflict, AttemptReturns
<1>6. ASSUME NEW t \in Task, Fallback(t)
      PROVE  OneResultEach'
  BY <1>0, <1>00, <1>6, NothingReported DEF Fallback
<1>7. CASE PassOver
  BY <1>0, <1>00, <1>7, NothingReported DEF PassOver, LoopInv, ActionsOf
<1>8. CASE BeginStep
  BY <1>0, <1>00, <1>8, NothingReported DEF BeginStep
<1>9. ASSUME NEW t \in Task, Spawn(t)
      PROVE  OneResultEach'
  BY <1>0, <1>00, <1>9, NothingReported DEF Spawn, Unspawned, ActionsOf
<1>10. ASSUME Abandon
       PROVE  OneResultEach'
  BY <1>0, <1>00, <1>10, NothingReported DEF Abandon
<1>11. ASSUME NEW t \in Task, Join(t)
      PROVE  OneResultEach'
  <2>1. ResultOf(t) \in Result
    BY <1>0, <1>00, <1>11 DEF Join, OutcomeInv, ResultOf, Result
  <2>2. CASE /\ pc' = [pc EXCEPT ![t] = "joining"]
             /\ main' = "refresh"
             /\ UNCHANGED results
    BY <1>0, <1>00, <1>11, <2>2, NothingReported DEF Join
  <2>3. CASE /\ pc' = [pc EXCEPT ![t] = "joined"]
             /\ UNCHANGED main
             /\ results' = Append(results, ResultOf(t))
    BY <1>0, <1>00, <1>11, <2>1, <2>3, OneReported DEF Join
  <2> QED BY <1>11, <2>2, <2>3 DEF Join
<1>12. ASSUME NEW t \in Task, Refresh(t)
      PROVE  OneResultEach'
  <2>1. ResultOf(t) \in Result
    BY <1>0, <1>00, <1>12 DEF Refresh, OutcomeInv, ResultOf, Result
  <2> QED BY <1>0, <1>00, <1>12, <2>1, OneReported DEF Refresh
<1>13. CASE EndStep
  BY <1>0, <1>00, <1>13, NothingReported DEF EndStep
<1>14. CASE Finish \/ DeadlinePasses
  BY <1>0, <1>00, <1>14, NothingReported
     DEF Finish, DeadlinePasses, StepBarrier, Finished
<1>15. CASE UNCHANGED vars
  BY <1>0, <1>00, <1>15, NothingReported DEF vars
<1> QED
  BY <1>1, <1>2, <1>3, <1>4, <1>5, <1>6, <1>7, <1>8, <1>9, <1>10, <1>11,
     <1>12, <1>13, <1>14, <1>15
     DEF Next, LoopStep, ActionStep, DeadlineExceeded, JoinError

\* The table does not change under an attempt that runs on its first entry.
LEMMA FirstCandidateStep ==
    ASSUME IInv, [Next]_vars
    PROVE  RunsFirstCandidate'
<1> USE WorkflowAssumption DEF taskVars, loopVars
<1>0. /\ RunsFirstCandidate
      /\ pc \in [Task -> Place]
      /\ override \in [Task -> Runtime \cup {NoRuntime}]
      /\ out \in [Task -> LatestAttempt]
  BY DEF IInv, TypeOK
<1>1. ASSUME NEW t \in Task, Begin(t)
      PROVE  RunsFirstCandidate'
  BY <1>0, <1>1 DEF Begin, RunsFirstCandidate
<1>2. ASSUME NEW t \in Task, ChooseRuntime(t)
      PROVE  RunsFirstCandidate'
  <2>1. \A u \in Task \ {t} : pc'[u] = pc[u] /\ out'[u] = out[u]
    BY <1>0, <1>2 DEF ChooseRuntime
  <2>2. UNCHANGED <<override, assignments>>
    BY <1>2 DEF ChooseRuntime
  <2>3. pc'[t] \in Holding /\ override[t] = NoRuntime =>
            /\ assignments[RoleOf[t]] # <<>>
            /\ out' = [out EXCEPT ![t].runtime = assignments[RoleOf[t]][1]]
    BY <1>0, <1>2 DEF ChooseRuntime
  <2>4. pc'[t] \in Holding /\ override[t] = NoRuntime =>
            out'[t].runtime = assignments[RoleOf[t]][1]
    BY <1>0, <2>3 DEF LatestAttempt
  <2> QED BY <1>0, <2>1, <2>2, <2>3, <2>4 DEF RunsFirstCandidate
<1>3. ASSUME NEW t \in Task, RuntimeError(t) \/ Timeout(t)
      PROVE  RunsFirstCandidate'
  BY <1>0, <1>3 DEF RuntimeError, Timeout, RunsFirstCandidate
<1>4. ASSUME NEW t \in Task, NEW h \in Outcomes, RuntimeExit(t, h)
      PROVE  RunsFirstCandidate'
  BY <1>0, <1>4 DEF RuntimeExit, RunsFirstCandidate
<1>5. ASSUME NEW t \in Task, SimulateMerge(t) \/ ResolveConflict(t)
      PROVE  RunsFirstCandidate'
  BY <1>0, <1>5
     DEF SimulateMerge, ResolveConflict, AttemptReturns, RunsFirstCandidate
<1>6. ASSUME NEW t \in Task, Fallback(t)
      PROVE  RunsFirstCandidate'
  BY <1>0, <1>6 DEF Fallback, RunsFirstCandidate
<1>7. CASE PassOver
  BY <1>0, <1>7 DEF PassOver, RunsFirstCandidate
<1>8. CASE BeginStep
  BY <1>0, <1>8 DEF BeginStep, RunsFirstCandidate
<1>9. ASSUME NEW t \in Task, Spawn(t)
      PROVE  RunsFirstCandidate'
  BY <1>0, <1>9 DEF Spawn, RunsFirstCandidate
<1>10. ASSUME Abandon
       PROVE  RunsFirstCandidate'
  BY <1>0, <1>10 DEF Abandon, RunsFirstCandidate
<1>11. ASSUME NEW t \in Task, Join(t)
      PROVE  RunsFirstCandidate'
  BY <1>0, <1>11 DEF Join, RunsFirstCandidate
<1>12. ASSUME NEW t \in Task, Refresh(t)
      PROVE  RunsFirstCandidate'
  BY <1>0, <1>12 DEF Refresh, RunsFirstCandidate
<1>13. CASE EndStep
  BY <1>0, <1>13 DEF EndStep, RunsFirstCandidate
<1>14. CASE Finish \/ DeadlinePasses
  BY <1>0, <1>14 DEF Finish, DeadlinePasses, RunsFirstCandidate
<1>15. CASE UNCHANGED vars
  BY <1>0, <1>15 DEF vars, RunsFirstCandidate
<1> QED
  BY <1>1, <1>2, <1>3, <1>4, <1>5, <1>6, <1>7, <1>8, <1>9, <1>10, <1>11,
     <1>12, <1>13, <1>14, <1>15
     DEF Next, LoopStep, ActionStep, DeadlineExceeded, JoinError

\* Between a failure and its fallback nothing replaces the handoff context of
\* a role that no other action of the step has.
LEMMA ContextStep ==
    ASSUME IInv, [Next]_vars
    PROVE  ContextInv'
<1> USE WorkflowAssumption DEF taskVars, loopVars
<1>0. /\ ContextInv
      /\ StepBarrier
      /\ step \in Nat
      /\ pc \in [Task -> Place]
      /\ contexts \in [Role -> Context]
      /\ attempt \in [Task -> Nat]
  BY DEF IInv, TypeOK
<1>1. ASSUME NEW t \in Task, Begin(t)
      PROVE  ContextInv'
  BY <1>0, <1>1 DEF Begin, ContextInv
<1>2. ASSUME NEW t \in Task, ChooseRuntime(t)
      PROVE  ContextInv'
  BY <1>0, <1>2 DEF ChooseRuntime, ContextInv
<1>3. ASSUME NEW t \in Task, RuntimeError(t) \/ Timeout(t)
      PROVE  ContextInv'
  BY <1>0, <1>3 DEF RuntimeError, Timeout, ContextInv
<1>4. ASSUME NEW t \in Task, NEW h \in Outcomes, RuntimeExit(t, h)
      PROVE  ContextInv'
  BY <1>0, <1>4 DEF RuntimeExit, ContextInv
<1>5. ASSUME NEW t \in Task, SimulateMerge(t) \/ ResolveConflict(t)
      PROVE  ContextInv'
  <2>1. SUFFICES ASSUME NEW u \in Task, u # t, pc'[u] = "fallback",
                        \A v \in ActionsOf(StepOf[u]) :
                            RoleOf[v] = RoleOf[u] => v = u
                 PROVE  contexts'[RoleOf[u]].failure = {u}
    <3>1. pc'[t] = "fallback" => contexts'[RoleOf[t]].failure = {t}
      BY <1>0, <1>5 DEF SimulateMerge, ResolveConflict, AttemptReturns
    <3>2. \A u \in Task :
              /\ UNCHANGED attempt
              /\ pc'[u] \in {"unspawned", "spawned"} => pc'[u] = pc[u]
      BY <1>0, <1>5 DEF SimulateMerge, ResolveConflict, AttemptReturns
    <3> QED BY <1>0, <3>1, <3>2 DEF ContextInv, ActionsOf
  <2>2. pc[u] = "fallback" /\ pc[t] \in {"merging", "resolving"}
    BY <1>0, <1>5, <2>1 DEF SimulateMerge, ResolveConflict, AttemptReturns
  <2>3. StepOf[u] = step /\ StepOf[t] = step
    <3>1. ASSUME NEW v \in Task,
                 pc[v] \in {"merging", "resolving", "fallback"}
          PROVE  StepOf[v] = step
      <4>1. StepOf[v] \in Int /\ step \in Int
        BY <1>0
      <4>2. ~(StepOf[v] < step) /\ ~(StepOf[v] > step)
        BY <1>0, <3>1 DEF StepBarrier, Finished
      <4> QED BY <4>1, <4>2
    <3> QED BY <2>2, <3>1
  <2>4. RoleOf[u] # RoleOf[t]
    BY <2>1, <2>3 DEF ActionsOf
  <2>5. contexts'[RoleOf[u]] = contexts[RoleOf[u]]
    BY <1>0, <1>5, <2>4 DEF SimulateMerge, ResolveConflict, AttemptReturns
  <2> QED BY <1>0, <2>1, <2>2, <2>5 DEF ContextInv
<1>6. ASSUME NEW t \in Task, Fallback(t)
      PROVE  ContextInv'
  BY <1>0, <1>6 DEF Fallback, ContextInv
<1>7. CASE PassOver
  BY <1>0, <1>7 DEF PassOver, ContextInv
<1>8. CASE BeginStep
  <2>1. \A r \in Role : contexts'[r].failure = contexts[r].failure
    BY <1>0, <1>8 DEF BeginStep, Context
  <2> QED BY <1>0, <1>8, <2>1 DEF BeginStep, ContextInv
<1>9. ASSUME NEW t \in Task, Spawn(t)
      PROVE  ContextInv'
  BY <1>0, <1>9 DEF Spawn, Unspawned, ContextInv
<1>10. ASSUME Abandon
       PROVE  ContextInv'
  BY <1>0, <1>10 DEF Abandon, ContextInv
<1>11. ASSUME NEW t \in Task, Join(t)
      PROVE  ContextInv'
  BY <1>0, <1>11 DEF Join, ContextInv
<1>12. ASSUME NEW t \in Task, Refresh(t)
      PROVE  ContextInv'
  BY <1>0, <1>12 DEF Refresh, ContextInv
<1>13. CASE EndStep
  BY <1>0, <1>13 DEF EndStep, ContextInv
<1>14. CASE Finish \/ DeadlinePasses
  BY <1>0, <1>14 DEF Finish, DeadlinePasses, ContextInv
<1>15. CASE UNCHANGED vars
  BY <1>0, <1>15 DEF vars, ContextInv
<1> QED
  BY <1>1, <1>2, <1>3, <1>4, <1>5, <1>6, <1>7, <1>8, <1>9, <1>10, <1>11,
     <1>12, <1>13, <1>14, <1>15
     DEF Next, LoopStep, ActionStep, DeadlineExceeded, JoinError

\* A retry of such an action reads the context of its own failure.
LEMMA RetryStep ==
    ASSUME IInv, [Next]_vars
    PROVE  RetryKnowsItsFailure'
<1> USE WorkflowAssumption DEF taskVars, loopVars
<1>0. /\ RetryKnowsItsFailure
      /\ ContextInv
      /\ pc \in [Task -> Place]
      /\ attempt \in [Task -> Nat]
      /\ seen \in [Task -> Context]
  BY DEF IInv, TypeOK
<1>1. ASSUME NEW t \in Task, Begin(t)
      PROVE  RetryKnowsItsFailure'
  BY <1>0, <1>1 DEF Begin, RetryKnowsItsFailure, ContextInv
<1>2. ASSUME NEW t \in Task, ChooseRuntime(t)
      PROVE  RetryKnowsItsFailure'
  BY <1>0, <1>2 DEF ChooseRuntime, RetryKnowsItsFailure
<1>3. ASSUME NEW t \in Task, RuntimeError(t) \/ Timeout(t)
      PROVE  RetryKnowsItsFailure'
  BY <1>0, <1>3 DEF RuntimeError, Timeout, RetryKnowsItsFailure
<1>4. ASSUME NEW t \in Task, NEW h \in Outcomes, RuntimeExit(t, h)
      PROVE  RetryKnowsItsFailure'
  BY <1>0, <1>4 DEF RuntimeExit, RetryKnowsItsFailure
<1>5. ASSUME NEW t \in Task, SimulateMerge(t) \/ ResolveConflict(t)
      PROVE  RetryKnowsItsFailure'
  BY <1>0, <1>5
     DEF SimulateMerge, ResolveConflict, AttemptReturns, RetryKnowsItsFailure
<1>6. ASSUME NEW t \in Task, Fallback(t)
      PROVE  RetryKnowsItsFailure'
  BY <1>0, <1>6 DEF Fallback, RetryKnowsItsFailure, ContextInv
<1>7. CASE PassOver
  BY <1>0, <1>7 DEF PassOver, RetryKnowsItsFailure
<1>8. CASE BeginStep
  BY <1>0, <1>8 DEF BeginStep, RetryKnowsItsFailure
<1>9. ASSUME NEW t \in Task, Spawn(t)
      PROVE  RetryKnowsItsFailure'
  BY <1>0, <1>9 DEF Spawn, RetryKnowsItsFailure
<1>10. ASSUME Abandon
       PROVE  RetryKnowsItsFailure'
  BY <1>0, <1>10 DEF Abandon, RetryKnowsItsFailure
<1>11. ASSUME NEW t \in Task, Join(t)
      PROVE  RetryKnowsItsFailure'
  BY <1>0, <1>11 DEF Join, RetryKnowsItsFailure
<1>12. ASSUME NEW t \in Task, Refresh(t)
      PROVE  RetryKnowsItsFailure'
  BY <1>0, <1>12 DEF Refresh, RetryKnowsItsFailure
<1>13. CASE EndStep
  BY <1>0, <1>13 DEF EndStep, RetryKnowsItsFailure
<1>14. CASE Finish \/ DeadlinePasses
  BY <1>0, <1>14 DEF Finish, DeadlinePasses, RetryKnowsItsFailure
<1>15. CASE UNCHANGED vars
  BY <1>0, <1>15 DEF vars, RetryKnowsItsFailure
<1> QED
  BY <1>1, <1>2, <1>3, <1>4, <1>5, <1>6, <1>7, <1>8, <1>9, <1>10, <1>11,
     <1>12, <1>13, <1>14, <1>15
     DEF Next, LoopStep, ActionStep, DeadlineExceeded, JoinError
-----------------------------------------------------------------------------
(***************************************************************************)
(* The theorems.                                                           *)
(***************************************************************************)

\* IInv is an inductive invariant of the loop and its actions, whatever the
\* workflow, the rankings, the policies and the outcomes of the processes.
THEOREM InductiveInvariant == Spec => []IInv
<1>1. Init => IInv
  BY InitIInv
<1>2. IInv /\ [Next]_vars => IInv'
  BY TypeStep, TableStep, OutcomeStep, HealthyStep, LoopInvStep, BarrierStep,
     OneResultStep, FirstCandidateStep, ContextStep, RetryStep DEF IInv
<1> QED BY <1>1, <1>2, PTL DEF Spec

\* The variables keep their types: in particular an attempt runs on a
\* runtime that exists, even when the candidates are reordered under it.
THEOREM TypeCorrect == Spec => []TypeOK
<1>1. IInv => TypeOK
  BY DEF IInv
<1> QED BY <1>1, InductiveInvariant, PTL

\* No unhealthy result reaches the report unless its role's policy is skip
\* (run_action_with_recovery).
THEOREM ReportsAreHealthyUnlessSkip == Spec => []HealthyUnlessSkip
<1>1. IInv => HealthyUnlessSkip
  BY DEF IInv
<1> QED BY <1>1, InductiveInvariant, PTL

\* The steps do not overlap (the spawn and join loops of the step loop).
THEOREM StepsDoNotOverlap == Spec => []StepBarrier
<1>1. IInv => StepBarrier
  BY DEF IInv
<1> QED BY <1>1, InductiveInvariant, PTL

\* The report holds exactly one result for each joined action, and a run that
\* succeeds has joined every action it did not pass over.
THEOREM ReportIsComplete == Spec => []OneResultEach
<1>1. IInv => OneResultEach
  BY DEF IInv
<1> QED BY <1>1, InductiveInvariant, PTL

\* The read guard held through an attempt keeps the table it chose its
\* runtime from.
THEOREM TableStableUnderAttempt == Spec => []RunsFirstCandidate
<1>1. IInv => RunsFirstCandidate
  BY DEF IInv
<1> QED BY <1>1, InductiveInvariant, PTL

\* A retry is given the context of the failure it retries, if no other action
\* of the step has its role.
THEOREM RetriesKnowTheirFailure == Spec => []RetryKnowsItsFailure
<1>1. IInv => RetryKnowsItsFailure
  BY DEF IInv
<1> QED BY <1>1, InductiveInvariant, PTL
-----------------------------------------------------------------------------
(***************************************************************************)
(* The loop implements the contract of a workflow run.                     *)
(***************************************************************************)

\* The sets of actions that the contract is about.
JoinedActions == {t \in Task : pc[t] = "joined"}
SkippedActions == {t \in Task : pc[t] = "skipped"}

Outcome == CASE main = "done"   -> "succeeded"
             [] main = "failed" -> "failed"
             [] OTHER           -> "running"

\* Steps that join and pass over nothing, and do not end the run, are
\* invisible to the contract.
LEMMA Invisible ==
    ASSUME IInv, IInv', UNCHANGED step,
           \A t \in Task : /\ pc'[t] = "joined" <=> pc[t] = "joined"
                           /\ pc'[t] = "skipped" <=> pc[t] = "skipped",
           Outcome' = Outcome
    PROVE  UNCHANGED Contract!vars
<1>1. JoinedActions' = JoinedActions /\ SkippedActions' = SkippedActions
  BY DEF JoinedActions, SkippedActions
<1>2. Reported = JoinedActions /\ Reported' = JoinedActions'
  BY DEF IInv, OneResultEach, JoinedActions
<1> QED BY <1>1, <1>2 DEF Contract!vars, SkippedActions, Outcome

\* An action that is joined and reported is recorded once, at its own step.
LEMMA Visible ==
    ASSUME IInv, IInv', NEW t \in Task, UNCHANGED <<step>>,
           pc[t] \in {"ok", "joining"}, pc' = [pc EXCEPT ![t] = "joined"],
           Outcome = "running", Outcome' = "running"
    PROVE  Contract!Record(t)
<1>1. pc \in [Task -> Place] /\ StepOf[t] \in Int /\ step \in Int
  <2>1. NSteps \in Int /\ StepOf[t] \in 1..NSteps
    BY WorkflowAssumption
  <2>2. pc \in [Task -> Place] /\ step \in 1..(NSteps + 1)
    BY DEF IInv, TypeOK
  <2> QED BY <2>1, <2>2
<1>2. StepOf[t] = step
  <2>1. ~(StepOf[t] < step) /\ ~(StepOf[t] > step)
    BY DEF IInv, StepBarrier, Finished
  <2> QED BY <1>1, <2>1
<1>3. Reported = JoinedActions /\ Reported' = JoinedActions'
  BY DEF IInv, OneResultEach, JoinedActions
<1>4. /\ t \notin JoinedActions
      /\ JoinedActions' = JoinedActions \cup {t}
      /\ SkippedActions' = SkippedActions
  BY <1>1 DEF JoinedActions, SkippedActions
<1> QED BY <1>2, <1>3, <1>4 DEF Contract!Record, SkippedActions, Outcome

\* Every step of the loop or of an action is a step of the contract or
\* invisible to it.
LEMMA RefinementStep ==
    ASSUME IInv, IInv', [Next]_vars
    PROVE  [Contract!Next]_(Contract!vars)
<1>0. /\ pc \in [Task -> Place]
      /\ LoopInv
  BY DEF IInv, TypeOK
<1>a. Reported = JoinedActions /\ Reported' = JoinedActions'
  BY DEF IInv, OneResultEach, JoinedActions
<1>1. ASSUME NEW t \in Task, ActionStep(t)
      PROVE  UNCHANGED Contract!vars
  <2>1. UNCHANGED <<step, main>>
    BY <1>1 DEF ActionStep, Begin, ChooseRuntime, RuntimeError, RuntimeExit,
                SimulateMerge, ResolveConflict, Fallback, Timeout
  <2>2. \E p \in {"lock", "running", "errored", "merging", "resolving", "ok",
                  "fallback", "exhausted"} :
            pc' = [pc EXCEPT ![t] = p] /\ pc[t] \in InFlight
    BY <1>1, Zenon
       DEF ActionStep, Begin, ChooseRuntime, RuntimeError, RuntimeExit,
           SimulateMerge, ResolveConflict, AttemptReturns, Fallback, Timeout
  <2> QED BY <1>0, <2>1, <2>2, Invisible DEF Outcome
<1>2. CASE PassOver
  <2>1. Kind[step] = "if_healthy" /\ step \in 1..NSteps
    BY <1>2 DEF PassOver, PassesOver, IInv, TypeOK
  <2>2. /\ JoinedActions' = JoinedActions
        /\ SkippedActions' = SkippedActions \cup ActionsOf(step)
        /\ ActionsOf(step) \cap JoinedActions = {}
    BY <1>0, <1>2
       DEF PassOver, LoopInv, ActionsOf, JoinedActions, SkippedActions
  <2>3. Contract!Skip
    BY <1>2, <1>a, <2>1, <2>2
       DEF Contract!Skip, Contract!ActionsOf, ActionsOf, PassOver,
           SkippedActions
  <2> QED BY <2>3 DEF Contract!Next
<1>3. CASE BeginStep
  BY <1>3, Invisible DEF BeginStep, Outcome
<1>4. ASSUME NEW t \in Task, Spawn(t)
      PROVE  UNCHANGED Contract!vars
  BY <1>0, <1>4, Invisible DEF Spawn, Unspawned, Outcome
<1>5. CASE main = "running" /\ Abandon
  <2>1. JoinedActions' = JoinedActions /\ SkippedActions' = SkippedActions
    BY <1>0, <1>5 DEF Abandon, JoinedActions, SkippedActions
  <2>2. Contract!Fail
    BY <1>5, <1>a, <2>1 DEF Contract!Fail, Abandon, SkippedActions
  <2> QED BY <2>2 DEF Contract!Next
<1>6. ASSUME NEW t \in Task, Join(t)
      PROVE  [Contract!Next]_(Contract!vars)
  <2>1. CASE /\ pc' = [pc EXCEPT ![t] = "joining"]
             /\ main' = "refresh"
    BY <1>0, <1>6, <2>1, Invisible DEF Join, Outcome
  <2>2. CASE /\ pc' = [pc EXCEPT ![t] = "joined"]
             /\ UNCHANGED main
    BY <1>6, <2>2, Visible DEF Join, Outcome, Contract!Next
  <2> QED BY <1>6, <2>1, <2>2 DEF Join
<1>7. ASSUME NEW t \in Task, Refresh(t)
      PROVE  Contract!Next
  BY <1>7, Visible DEF Refresh, Outcome, Contract!Next
<1>8. CASE EndStep
  <2>1. JoinedActions' = JoinedActions /\ SkippedActions' = SkippedActions
    BY <1>8 DEF EndStep, JoinedActions, SkippedActions
  <2>2. step <= NSteps
    BY <1>0, <1>8 DEF EndStep, LoopInv
  <2>3. Contract!Advance
    BY <1>8, <1>a, <2>1, <2>2
       DEF EndStep, Contract!Advance, Contract!ActionsOf, ActionsOf,
           JoinedActions, SkippedActions
  <2> QED BY <2>3 DEF Contract!Next
<1>9. CASE Finish
  <2>1. JoinedActions' = JoinedActions /\ SkippedActions' = SkippedActions
    BY <1>9 DEF Finish, JoinedActions, SkippedActions
  <2>2. Contract!Succeed
    BY <1>9, <1>a, <2>1 DEF Finish, Contract!Succeed, SkippedActions
  <2> QED BY <2>2 DEF Contract!Next
<1>10. CASE DeadlinePasses \/ UNCHANGED vars
  BY <1>10, Invisible DEF DeadlinePasses, vars, Outcome
<1> QED
  BY <1>1, <1>2, <1>3, <1>4, <1>5, <1>6, <1>7, <1>8, <1>9, <1>10
     DEF Next, LoopStep, DeadlineExceeded, JoinError

\* The execution loop, with its parallel tasks, retries, timeouts and profile
\* switches, implements the contract of a workflow run.
THEOREM PipelineImplementsContract == Spec => ImplementsContract
<1>1. Init => Contract!Init
  BY DEF Init, Contract!Init, Reported
<1>2. IInv /\ IInv' /\ [Next]_vars => [Contract!Next]_(Contract!vars)
  BY RefinementStep
<1> QED
  BY <1>1, <1>2, InductiveInvariant, PTL
     DEF Spec, ImplementsContract, Contract!Spec
-----------------------------------------------------------------------------
(***************************************************************************)
(* What a run reports, on top of IInv: the counts of the controller, the   *)
(* order of the results, the slots that returned actions leave, and the    *)
(* runtimes until a profile switch.                                        *)
(***************************************************************************)

\* The number of unhealthy results among the first n of s.
FailuresOf(s, n) == Cardinality({i \in 1..n : s[i].health # "healthy"})

\* The controller has counted the results s.
Counted(c, s) ==
    /\ c.steps = Len(s)
    /\ c.failures = FailuresOf(s, Len(s))
    /\ c.profile \in {InitialProfile, "speed_first"}
    /\ c.profile # InitialProfile <=>
          /\ InitialProfile = "quality_first"
          /\ \E n \in 4..Len(s) : 10 * FailuresOf(s, n) > 3 * n

\* It has counted the report, and while a switch waits for the lock, also the
\* result that is not reported yet.
CountInv ==
    /\ main # "refresh" =>
          /\ Counted(controller, results)
          /\ assignments = Ranking[controller.profile]
    /\ \A t \in Task : pc[t] = "joining" =>
          /\ Counted(controller, Append(results, ResultOf(t)))
          /\ controller.profile # InitialProfile

\* Results are reported in the order of the steps, each with the health of its
\* action.
ReportInv ==
    /\ \A i \in DOMAIN results : results[i].health = out[results[i].task].health
    /\ \A i, j \in DOMAIN results :
          i <= j => StepOf[results[i].task] <= StepOf[results[j].task]

\* An action that has not announced anything yet.
Quiet(t) == pc[t] \in {"unspawned", "spawned", "skipped"}

\* t is the last action of its role that has announced anything.
LastOfRole(t) ==
    \A u \in Task : RoleOf[u] = RoleOf[t] /\ u # t /\ StepOf[u] >= StepOf[t] => Quiet(u)

\* An action that has returned and was or will be reported.
Returned(t) == pc[t] \in {"ok", "joining", "joined"}

\* The last status an action announces when it returns.
OwnStatus(t) == IF out[t].health = "healthy" THEN "waiting" ELSE "disabled"

\* More than three in ten of the first n results of s are failures.
OverAt(s, n) == 10 * FailuresOf(s, n) > 3 * n

\* The switch came with the result of t or after it.
Early(t) ==
    \/ pc[t] = "joining"
    \/ \E i \in DOMAIN results :
          results[i].task = t /\ \A n \in 4..(i - 1) : ~OverAt(results, n)

\* The switch came in an earlier step than that of t.
Late(t) ==
    \E n \in 4..Len(results) :
        OverAt(results, n) /\ StepOf[results[n].task] < StepOf[t]

\* What the slot of t says once t has returned: what t announced last, unless a
\* switch has announced it as assigned since.
SlotSays(t) ==
    LET switched == controller.profile # InitialProfile
    IN  /\ slot[RoleOf[t]] = OwnStatus(t) \/ (switched /\ slot[RoleOf[t]] = "assigned")
        /\ switched /\ Early(t) => slot[RoleOf[t]] = "assigned"
        /\ switched /\ Late(t) => slot[RoleOf[t]] = OwnStatus(t)

\* Until a later action of its role begins, an action that has returned leaves
\* its slot so; and it had a slot.
SettledInv ==
    \A t \in Task : Returned(t) =>
        /\ RoleOf[t] \in Slot
        /\ OncePerStep(RoleOf[t]) /\ LastOfRole(t) => SlotSays(t)

\* The first attempt of an action runs on the first candidate.
FirstInv ==
    \A t \in Task : attempt[t] = 0 =>
        /\ override[t] = NoRuntime
        /\ controller.profile = InitialProfile /\ pc[t] \in Holding \cup {"fallback"} =>
              out[t].runtime = Ranking[InitialProfile][RoleOf[t]][1]

ReportIInv == CountInv /\ ReportInv /\ SettledInv /\ FirstInv
-----------------------------------------------------------------------------
(***************************************************************************)
(* Counting.                                                               *)
(***************************************************************************)

\* One more result adds one failure if it is one, and changes no earlier count.
LEMMA FailuresAppend ==
    ASSUME NEW s \in Seq(Result), NEW r \in Result
    PROVE  /\ \A n \in 0..Len(s) :
                 /\ FailuresOf(Append(s, r), n) = FailuresOf(s, n)
                 /\ FailuresOf(s, n) \in Nat
           /\ FailuresOf(Append(s, r), Len(s) + 1) =
                 FailuresOf(s, Len(s)) + (IF r.health = "healthy" THEN 0 ELSE 1)
<1> DEFINE bad(q, n) == {i \in 1..n : q[i].health # "healthy"}
<1>1. \A i \in 1..Len(s) : Append(s, r)[i] = s[i]
  OBVIOUS
<1>2. Append(s, r)[Len(s) + 1] = r
  OBVIOUS
<1>3. Len(s) \in Nat
  OBVIOUS
<1>4. ASSUME NEW n \in 0..Len(s)
      PROVE  /\ FailuresOf(Append(s, r), n) = FailuresOf(s, n)
             /\ FailuresOf(s, n) \in Nat
             /\ IsFiniteSet(bad(s, n))
  <2>1. bad(Append(s, r), n) = bad(s, n)
    BY <1>1, <1>3
  <2>2. IsFiniteSet(1..n)
    BY <1>3, FS_Interval
  <2>3. IsFiniteSet(bad(s, n))
    <3>1. bad(s, n) \in SUBSET (1..n)
      OBVIOUS
    <3> QED BY <2>2, <3>1, FS_Subset
  <2> QED BY <2>1, <2>3, FS_CardinalityType DEF FailuresOf
<1>5. bad(Append(s, r), Len(s) + 1) =
          bad(s, Len(s)) \cup (IF r.health = "healthy" THEN {} ELSE {Len(s) + 1})
  <2>1. ASSUME NEW i
        PROVE  i \in 1..(Len(s) + 1) <=> i \in 1..Len(s) \/ i = Len(s) + 1
    BY <1>3
  <2> QED BY <1>1, <1>2, <1>3, <2>1
<1>6. Len(s) + 1 \notin bad(s, Len(s))
  BY <1>3
<1>7. FailuresOf(Append(s, r), Len(s) + 1) =
          FailuresOf(s, Len(s)) + (IF r.health = "healthy" THEN 0 ELSE 1)
  <2>1. Len(s) \in 0..Len(s)
    BY <1>3
  <2>2. IsFiniteSet(bad(s, Len(s))) /\ FailuresOf(s, Len(s)) \in Nat
    BY <1>4, <2>1
  <2>3. CASE r.health = "healthy"
    <3>1. bad(Append(s, r), Len(s) + 1) = bad(s, Len(s))
      BY <1>5, <2>3
    <3>2. FailuresOf(Append(s, r), Len(s) + 1) = FailuresOf(s, Len(s))
      BY <3>1 DEF FailuresOf
    <3> QED BY <2>2, <2>3, <3>2
  <2>4. CASE r.health # "healthy"
    <3>1. bad(Append(s, r), Len(s) + 1) = bad(s, Len(s)) \cup {Len(s) + 1}
      BY <1>5, <2>4
    <3>2. Cardinality(bad(s, Len(s)) \cup {Len(s) + 1}) =
              Cardinality(bad(s, Len(s))) + 1
      BY <1>6, <2>2, FS_AddElement
    <3> QED BY <2>4, <3>1, <3>2 DEF FailuresOf
  <2> QED BY <2>3, <2>4
<1> QED BY <1>4, <1>7

\* record_step counts one more result, and switches exactly when it must.
LEMMA CountedAppend ==
    ASSUME NEW c \in ControllerState, NEW s \in Seq(Result), NEW r \in Result,
           Counted(c, s)
    PROVE  Counted(RecordStep(c, r.health), Append(s, r))
<1> DEFINE d == RecordStep(c, r.health)
           q == Append(s, r)
<1>1. /\ Len(s) \in Nat
      /\ Len(q) = Len(s) + 1
      /\ c.steps = Len(s)
      /\ c.failures = FailuresOf(s, Len(s))
  BY DEF Counted
<1>2. /\ d.steps = Len(s) + 1
      /\ d.failures = FailuresOf(q, Len(q))
  BY <1>1, FailuresAppend DEF RecordStep
<1>3. FailuresOf(q, Len(q)) \in Nat
  <2>1. FailuresOf(s, Len(s)) \in Nat
    BY <1>1, FailuresAppend
  <2> QED BY <1>1, <2>1, FailuresAppend
<1>4. d.profile = IF /\ c.profile = "quality_first"
                     /\ Len(q) >= 4
                     /\ 10 * FailuresOf(q, Len(q)) > 3 * Len(q)
                  THEN "speed_first" ELSE c.profile
  BY <1>1, <1>2 DEF RecordStep
<1>5. (\E n \in 4..Len(q) : 10 * FailuresOf(q, n) > 3 * n) <=>
          \/ \E n \in 4..Len(s) : 10 * FailuresOf(s, n) > 3 * n
          \/ Len(q) >= 4 /\ 10 * FailuresOf(q, Len(q)) > 3 * Len(q)
  <2>1. \A n \in 4..Len(s) : FailuresOf(q, n) = FailuresOf(s, n)
    BY <1>1, FailuresAppend
  <2>2. \A n : n \in 4..Len(q) <=> n \in 4..Len(s) \/ (n = Len(q) /\ Len(q) >= 4)
    BY <1>1
  <2> HIDE DEF q
  <2> QED BY <2>1, <2>2
<1> HIDE DEF d, q
<1> QED BY <1>1, <1>2, <1>4, <1>5, SchedulingAssumption DEF Counted, d, q
-----------------------------------------------------------------------------

LEMMA ReportInitial == Init => ReportIInv
<1> SUFFICES ASSUME Init PROVE ReportIInv
  OBVIOUS
<1>1. FailuresOf(<<>>, 0) = 0
  <2>1. {i \in 1..0 : <<>>[i].health # "healthy"} = {}
    BY SMT
  <2> QED BY <2>1, FS_EmptySet DEF FailuresOf
<1>2. CountInv
  <2>1. Counted(controller, results)
    BY <1>1 DEF Counted, Init
  <2> QED BY <2>1, WorkflowAssumption DEF Init, CountInv
<1>3. ReportInv
  BY DEF Init, ReportInv
<1>4. SettledInv
  BY DEF Init, SettledInv, Returned
<1>5. FirstInv
  BY DEF Init, FirstInv, Holding
<1> QED BY <1>2, <1>3, <1>4, <1>5 DEF ReportIInv

\* The report counts what the controller has counted.
LEMMA CountStep ==
    ASSUME IInv, CountInv, [Next]_vars
    PROVE  CountInv'
<1> USE WorkflowAssumption DEF taskVars, loopVars
<1>0. /\ CountInv
      /\ LoopInv
      /\ OutcomeInv
      /\ pc \in [Task -> Place]
      /\ out \in [Task -> LatestAttempt]
      /\ results \in Seq(Result)
      /\ controller \in ControllerState
  BY DEF IInv, TypeOK
\* What a step must leave alone to leave the counts alone.
<1>a. ASSUME UNCHANGED <<controller, results>>,
             main' = "refresh" \/ (main # "refresh" /\ UNCHANGED assignments),
             \A t \in Task : pc'[t] = "joining" =>
                 pc[t] = "joining" /\ out'[t] = out[t]
      PROVE  CountInv'
  <2>1. ASSUME main' # "refresh"
        PROVE  (Counted(controller, results) /\ assignments = Ranking[controller.profile])'
    <3>1. main # "refresh" /\ UNCHANGED <<controller, results, assignments>>
      BY <1>a, <2>1
    <3>2. Counted(controller, results) /\ assignments = Ranking[controller.profile]
      BY <1>0, <3>1 DEF CountInv
    <3>3. Counted(controller', results')
      BY <3>1, <3>2
    <3> QED BY <3>1, <3>2, <3>3 DEF Counted, FailuresOf
  <2>2. ASSUME NEW t \in Task, pc'[t] = "joining"
        PROVE  (/\ Counted(controller, Append(results, ResultOf(t)))
                /\ controller.profile # InitialProfile)'
    <3>1. UNCHANGED <<controller, results>> /\ pc[t] = "joining" /\ out'[t] = out[t]
      BY <1>a, <2>2
    <3>2. /\ Counted(controller, Append(results, ResultOf(t)))
          /\ controller.profile # InitialProfile
      BY <1>0, <3>1 DEF CountInv
    <3>3. ResultOf(t)' = ResultOf(t)
      BY <3>1 DEF ResultOf
    <3>4. Counted(controller', Append(results', ResultOf(t)'))
      BY <3>1, <3>2, <3>3
    <3> QED BY <3>1, <3>2, <3>4 DEF Counted, FailuresOf, ResultOf
  <2> QED BY <2>1, <2>2 DEF CountInv
<1>1. ASSUME NEW t \in Task, Begin(t)
      PROVE  CountInv'
  BY <1>0, <1>a, <1>1 DEF Begin
<1>2. ASSUME NEW t \in Task, ChooseRuntime(t)
      PROVE  CountInv'
  BY <1>0, <1>a, <1>2 DEF ChooseRuntime
<1>3. ASSUME NEW t \in Task, RuntimeError(t) \/ Timeout(t)
      PROVE  CountInv'
  BY <1>0, <1>a, <1>3 DEF RuntimeError, Timeout
<1>4. ASSUME NEW t \in Task, NEW h \in Outcomes, RuntimeExit(t, h)
      PROVE  CountInv'
  BY <1>0, <1>a, <1>4 DEF RuntimeExit
<1>5. ASSUME NEW t \in Task, SimulateMerge(t) \/ ResolveConflict(t)
      PROVE  CountInv'
  BY <1>0, <1>a, <1>5 DEF SimulateMerge, ResolveConflict, AttemptReturns
<1>6. ASSUME NEW t \in Task, Fallback(t)
      PROVE  CountInv'
  BY <1>0, <1>a, <1>6 DEF Fallback
<1>7. CASE PassOver \/ BeginStep \/ EndStep \/ Finish
  BY <1>0, <1>a, <1>7 DEF PassOver, BeginStep, EndStep, Finish
<1>8. ASSUME Abandon, main = "running"
      PROVE  CountInv'
  BY <1>0, <1>a, <1>8 DEF Abandon
<1>9. ASSUME NEW t \in Task, Spawn(t)
      PROVE  CountInv'
  BY <1>0, <1>a, <1>9 DEF Spawn
<1>11. ASSUME NEW t \in Task, Join(t)
       PROVE  CountInv'
  <2>1. /\ ResultOf(t) \in Result
        /\ ResultOf(t).health = out[t].health
    BY <1>0, <1>11 DEF Join, OutcomeInv, ResultOf, Result
  <2>2. main # "refresh" /\ \A u \in Task : pc[u] # "joining"
    BY <1>0, <1>11 DEF Join, LoopInv
  <2>3. controller' = RecordStep(controller, out[t].health)
    BY <1>11 DEF Join
  <2>4. Counted(controller', Append(results, ResultOf(t)))
    BY <1>0, <2>1, <2>2, <2>3, CountedAppend DEF CountInv
  <2>5. CASE controller'.profile = controller.profile
    <3>1. /\ pc' = [pc EXCEPT ![t] = "joined"]
          /\ results' = Append(results, ResultOf(t))
          /\ UNCHANGED <<main, assignments>>
      BY <1>11, <2>5 DEF Join
    <3>2. Counted(controller', results')
      BY <2>4, <3>1
    <3>3. Counted(controller, results)'
      BY <3>2 DEF Counted, FailuresOf
    <3> QED BY <1>0, <2>2, <2>5, <3>1, <3>3 DEF CountInv
  <2>6. CASE controller'.profile # controller.profile
    <3>1. /\ pc' = [pc EXCEPT ![t] = "joining"]
          /\ main' = "refresh"
          /\ UNCHANGED <<results, out>>
      BY <1>11, <2>6 DEF Join
    <3>2. \A u \in Task : pc'[u] = "joining" => u = t
      BY <1>0, <2>2, <3>1
    <3>3. controller'.profile # InitialProfile
      <4>1. controller.profile \in {InitialProfile, "speed_first"}
        BY <1>0, <2>2 DEF CountInv, Counted
      <4>2. controller.profile = "quality_first" /\ controller'.profile = "speed_first"
        BY <1>0, <2>3, <2>6 DEF RecordStep
      <4> QED BY <4>1, <4>2
    <3>4. Counted(controller, Append(results, ResultOf(t)))'
      BY <2>4, <3>1 DEF Counted, FailuresOf, ResultOf
    <3> QED BY <3>1, <3>2, <3>3, <3>4 DEF CountInv
  <2> QED BY <2>5, <2>6
<1>12. ASSUME NEW t \in Task, Refresh(t)
       PROVE  CountInv'
  <2>1. /\ pc[t] = "joining"
        /\ pc' = [pc EXCEPT ![t] = "joined"]
        /\ results' = Append(results, ResultOf(t))
        /\ assignments' = Ranking[controller.profile]
        /\ UNCHANGED controller
    BY <1>12 DEF Refresh
  <2>2. \A u \in Task : pc'[u] # "joining"
    BY <1>0, <2>1 DEF LoopInv
  <2>3. Counted(controller, results)'
    BY <1>0, <2>1 DEF CountInv, Counted, FailuresOf
  <2> QED BY <2>1, <2>2, <2>3 DEF CountInv
<1>13. CASE DeadlinePasses
  BY <1>0, <1>a, <1>13 DEF DeadlinePasses
<1>14. CASE UNCHANGED vars
  BY <1>0, <1>a, <1>14 DEF vars
<1> QED
  BY <1>1, <1>2, <1>3, <1>4, <1>5, <1>6, <1>7, <1>8, <1>9, <1>11, <1>12, <1>13, <1>14
     DEF Next, LoopStep, ActionStep, DeadlineExceeded, JoinError

\* An action that is being reported is one of the current step.
LEMMA CurrentStep ==
    ASSUME IInv, NEW t \in Task, pc[t] \notin {"unspawned", "joined", "skipped"}
    PROVE  StepOf[t] = step
<1>1. StepOf[t] \in Int /\ step \in Int
  BY WorkflowAssumption DEF IInv, TypeOK
<1>2. ~(StepOf[t] < step) /\ ~(StepOf[t] > step)
  BY DEF IInv, StepBarrier, Finished
<1> QED BY <1>1, <1>2

\* A report only grows, by an action of the current step.
LEMMA ReportStep ==
    ASSUME IInv, ReportInv, [Next]_vars
    PROVE  ReportInv'
<1> USE WorkflowAssumption DEF taskVars, loopVars
<1>0. /\ ReportInv
      /\ pc \in [Task -> Place]
      /\ out \in [Task -> LatestAttempt]
      /\ results \in Seq(Result)
      /\ \A i \in DOMAIN results : results[i].task \in Task /\ pc[results[i].task] = "joined"
  BY DEF IInv, TypeOK, OneResultEach, Reported
<1>a. ASSUME UNCHANGED results, \A t \in Task : pc[t] = "joined" => out'[t] = out[t]
      PROVE  ReportInv'
  BY <1>0, <1>a DEF ReportInv
<1>b. ASSUME NEW t \in Task, results' = Append(results, ResultOf(t)), UNCHANGED out,
             pc[t] \in {"ok", "joining"}
      PROVE  ReportInv'
  <2>1. StepOf[t] = step /\ step \in Nat
    <3>1. StepOf[t] = step
      BY <1>b, CurrentStep
    <3>2. StepOf[t] \in Nat
      OBVIOUS
    <3> QED BY <3>1, <3>2
  <2>2. \A i \in DOMAIN results :
            /\ StepOf[results[i].task] \in Nat
            /\ StepOf[results[i].task] <= step
    <3>1. ASSUME NEW i \in DOMAIN results
          PROVE  ~(StepOf[results[i].task] > step) /\ StepOf[results[i].task] \in Nat
      BY <1>0 DEF IInv, StepBarrier
    <3> QED BY <2>1, <3>1
  <2>3. /\ DOMAIN results' = DOMAIN results \cup {Len(results) + 1}
        /\ results'[Len(results) + 1] = ResultOf(t)
        /\ \A i \in DOMAIN results : results'[i] = results[i] /\ i < Len(results) + 1
        /\ Len(results) \in Nat
        /\ DOMAIN results = 1..Len(results)
    BY <1>0, <1>b
  <2>4. ASSUME NEW i \in DOMAIN results'
        PROVE  results'[i].health = out'[results'[i].task].health
    <3>1. CASE i \in DOMAIN results
      BY <1>0, <1>b, <2>3, <3>1 DEF ReportInv
    <3>2. CASE i = Len(results) + 1
      BY <1>b, <2>3, <3>2 DEF ResultOf
    <3> QED BY <2>3, <3>1, <3>2
  <2>5. ASSUME NEW i \in DOMAIN results', NEW j \in DOMAIN results', i <= j
        PROVE  StepOf[results'[i].task] <= StepOf[results'[j].task]
    <3>1. CASE j \in DOMAIN results
      <4>1. i \in DOMAIN results
        BY <2>3, <2>5, <3>1
      <4> QED BY <2>3, <2>5, <3>1, <4>1 DEF ReportInv
    <3>2. CASE j = Len(results) + 1
      <4>1. StepOf[results'[j].task] = step
        BY <2>1, <2>3, <3>2 DEF ResultOf
      <4>2. StepOf[results'[i].task] <= step
        BY <2>1, <2>2, <2>3, <2>5 DEF ResultOf
      <4> QED BY <4>1, <4>2
    <3> QED BY <2>3, <3>1, <3>2
  <2> QED BY <2>4, <2>5 DEF ReportInv
<1>1. ASSUME NEW t \in Task, Begin(t)
      PROVE  ReportInv'
  BY <1>0, <1>a, <1>1 DEF Begin
<1>2. ASSUME NEW t \in Task, ChooseRuntime(t)
      PROVE  ReportInv'
  BY <1>0, <1>a, <1>2 DEF ChooseRuntime
<1>3. ASSUME NEW t \in Task, RuntimeError(t) \/ Timeout(t)
      PROVE  ReportInv'
  BY <1>0, <1>a, <1>3 DEF RuntimeError, Timeout
<1>4. ASSUME NEW t \in Task, NEW h \in Outcomes, RuntimeExit(t, h)
      PROVE  ReportInv'
  BY <1>0, <1>a, <1>4 DEF RuntimeExit
<1>5. ASSUME NEW t \in Task, SimulateMerge(t) \/ ResolveConflict(t)
      PROVE  ReportInv'
  BY <1>0, <1>a, <1>5 DEF SimulateMerge, ResolveConflict, AttemptReturns
<1>6. ASSUME NEW t \in Task, Fallback(t)
      PROVE  ReportInv'
  BY <1>0, <1>a, <1>6 DEF Fallback
<1>7. CASE PassOver
  BY <1>0, <1>a, <1>7 DEF PassOver
<1>8. CASE BeginStep \/ EndStep \/ Finish
  BY <1>0, <1>a, <1>8 DEF BeginStep, EndStep, Finish
<1>9. ASSUME NEW t \in Task, Spawn(t)
      PROVE  ReportInv'
  BY <1>0, <1>a, <1>9 DEF Spawn, Unspawned
<1>10. ASSUME Abandon
      PROVE  ReportInv'
  BY <1>0, <1>a, <1>10 DEF Abandon
<1>13. CASE DeadlinePasses
  BY <1>0, <1>a, <1>13 DEF DeadlinePasses
<1>14. CASE UNCHANGED vars
  BY <1>0, <1>a, <1>14 DEF vars
<1>11. ASSUME NEW t \in Task, Join(t)
       PROVE  ReportInv'
  BY <1>a, <1>b, <1>11 DEF Join
<1>12. ASSUME NEW t \in Task, Refresh(t)
       PROVE  ReportInv'
  BY <1>b, <1>12 DEF Refresh
<1> QED
  BY <1>1, <1>2, <1>3, <1>4, <1>5, <1>6, <1>7, <1>8, <1>9, <1>10, <1>11, <1>12, <1>13, <1>14
     DEF Next, LoopStep, ActionStep, DeadlineExceeded, JoinError

\* The profile is left once.
LEMMA ProfileLeft ==
    ASSUME IInv, CountInv, [Next]_vars, controller'.profile = InitialProfile
    PROVE  controller.profile = InitialProfile
<1>1. CASE UNCHANGED controller
  BY <1>1
<1>2. ASSUME NEW t \in Task, Join(t)
      PROVE  controller.profile = InitialProfile
  <2>1. controller.profile \in {InitialProfile, "speed_first"}
    BY <1>2 DEF Join, CountInv, Counted
  <2>2. \/ controller'.profile = controller.profile
        \/ controller.profile = "quality_first" /\ controller'.profile = "speed_first"
    <3>1. controller' = RecordStep(controller, out[t].health)
      BY <1>2 DEF Join
    <3>2. controller \in ControllerState
      BY DEF IInv, TypeOK
    <3>3. ASSUME controller'.profile # controller.profile
          PROVE  controller.profile = "quality_first" /\ controller'.profile = "speed_first"
      BY <3>1, <3>2, <3>3 DEF RecordStep
    <3> QED BY <3>3
  <2> QED BY <2>1, <2>2
<1> QED
  BY <1>1, <1>2
     DEF Next, LoopStep, ActionStep, DeadlineExceeded, JoinError, vars, taskVars, loopVars,
         Begin, ChooseRuntime, RuntimeError, Timeout, RuntimeExit, SimulateMerge,
         ResolveConflict, Fallback, PassOver, BeginStep, EndStep, Finish, Spawn, Abandon,
         Refresh, DeadlinePasses

\* The first attempt's runtime.
LEMMA FirstStep ==
    ASSUME IInv, CountInv, FirstInv, [Next]_vars
    PROVE  FirstInv'
<1> USE WorkflowAssumption DEF taskVars, loopVars
<1>0. /\ FirstInv
      /\ pc \in [Task -> Place]
      /\ out \in [Task -> LatestAttempt]
      /\ attempt \in [Task -> Nat]
      /\ override \in [Task -> Runtime \cup {NoRuntime}]
      /\ controller'.profile = InitialProfile => controller.profile = InitialProfile
  BY ProfileLeft DEF IInv, TypeOK
<1>a. ASSUME UNCHANGED <<attempt, override>>,
             \A t \in Task : pc'[t] \in Holding \cup {"fallback"} =>
                 /\ pc[t] \in Holding \cup {"fallback"}
                 /\ out'[t].runtime = out[t].runtime
      PROVE  FirstInv'
  BY <1>0, <1>a DEF FirstInv
<1> USE DEF Holding
<1>1. ASSUME NEW t \in Task, Begin(t)
      PROVE  FirstInv'
  BY <1>0, <1>a, <1>1 DEF Begin
<1>3. ASSUME NEW t \in Task, RuntimeError(t) \/ Timeout(t)
      PROVE  FirstInv'
  BY <1>0, <1>a, <1>3 DEF RuntimeError, Timeout
<1>4. ASSUME NEW t \in Task, NEW h \in Outcomes, RuntimeExit(t, h)
      PROVE  FirstInv'
  BY <1>0, <1>a, <1>4 DEF RuntimeExit
<1>7. CASE PassOver
  BY <1>0, <1>a, <1>7 DEF PassOver
<1>8. CASE BeginStep \/ EndStep \/ Finish
  BY <1>0, <1>a, <1>8 DEF BeginStep, EndStep, Finish
<1>9. ASSUME NEW t \in Task, Spawn(t)
      PROVE  FirstInv'
  BY <1>0, <1>a, <1>9 DEF Spawn, Unspawned
<1>10. ASSUME Abandon
      PROVE  FirstInv'
  BY <1>0, <1>a, <1>10 DEF Abandon
<1>11. ASSUME NEW t \in Task, Join(t)
      PROVE  FirstInv'
  BY <1>0, <1>a, <1>11 DEF Join
<1>12. ASSUME NEW t \in Task, Refresh(t)
      PROVE  FirstInv'
  BY <1>0, <1>a, <1>12 DEF Refresh
<1>13. CASE DeadlinePasses
  BY <1>0, <1>a, <1>13 DEF DeadlinePasses
<1>14. CASE UNCHANGED vars
  BY <1>0, <1>a, <1>14 DEF vars
<1>2. ASSUME NEW t \in Task, ChooseRuntime(t)
      PROVE  FirstInv'
  <2>1. controller.profile = InitialProfile => assignments = Ranking[InitialProfile]
    BY <1>2 DEF ChooseRuntime, CountInv
  <2>2. attempt[t] = 0 /\ controller.profile = InitialProfile /\ pc'[t] = "running" =>
            out'[t].runtime = Ranking[InitialProfile][RoleOf[t]][1]
    <3>1. SUFFICES ASSUME attempt[t] = 0, controller.profile = InitialProfile,
                          pc'[t] = "running"
                   PROVE  out'[t].runtime = Ranking[InitialProfile][RoleOf[t]][1]
      OBVIOUS
    <3>2. override[t] = NoRuntime
      BY <1>0, <3>1 DEF FirstInv
    <3>3. out' = [out EXCEPT ![t].runtime = assignments[RoleOf[t]][1]]
      BY <1>0, <1>2, <3>1, <3>2 DEF ChooseRuntime
    <3> QED BY <1>0, <2>1, <3>1, <3>3 DEF LatestAttempt
  <2>3. \A u \in Task \ {t} : out'[u] = out[u] /\ pc'[u] = pc[u]
    BY <1>0, <1>2 DEF ChooseRuntime
  <2>4. pc'[t] \in {"running", "errored"}
    BY <1>0, <1>2 DEF ChooseRuntime
  <2> QED BY <1>0, <1>2, <2>2, <2>3, <2>4 DEF ChooseRuntime, FirstInv
<1>5. ASSUME NEW t \in Task, SimulateMerge(t) \/ ResolveConflict(t)
      PROVE  FirstInv'
  <2>1. /\ UNCHANGED <<attempt, override, out>>
        /\ pc[t] \in Holding
        /\ \A u \in Task \ {t} : pc'[u] = pc[u]
    BY <1>0, <1>5 DEF SimulateMerge, ResolveConflict, AttemptReturns
  <2> QED BY <1>a, <2>1
<1>6. ASSUME NEW t \in Task, Fallback(t)
      PROVE  FirstInv'
  <2>1. /\ attempt'[t] # 0
        /\ \A u \in Task \ {t} :
              attempt'[u] = attempt[u] /\ override'[u] = override[u] /\ pc'[u] = pc[u]
        /\ UNCHANGED <<out, controller>>
    BY <1>0, <1>6 DEF Fallback
  <2> QED BY <1>0, <2>1 DEF FirstInv
<1> QED
  BY <1>1, <1>2, <1>3, <1>4, <1>5, <1>6, <1>7, <1>8, <1>9, <1>10, <1>11, <1>12, <1>13, <1>14
     DEF Next, LoopStep, ActionStep, DeadlineExceeded, JoinError

\* What SlotSays depends on; a switch that is not early or late must stay so.
LEMMA SlotSaysKept ==
    ASSUME NEW t \in Task, SlotSays(t),
           slot'[RoleOf[t]] = slot[RoleOf[t]], out'[t] = out[t],
           controller'.profile = controller.profile,
           Early(t)' => Early(t), Late(t)' => Late(t)
    PROVE  SlotSays(t)'
<1>1. OwnStatus(t)' = OwnStatus(t)
  BY DEF OwnStatus
<1> QED BY <1>1 DEF SlotSays

\* A further result brings no earlier switch to an action that has returned.
LEMMA NoEarlierSwitch ==
    ASSUME IInv, NEW t \in Task, pc[t] \in {"ok", "joining"},
           results' = Append(results, ResultOf(t)),
           NEW u \in Task, Returned(u)
    PROVE  /\ Late(u)' => Late(u)
           /\ u # t /\ (pc'[u] = "joining" => pc[u] = "joining")
                 /\ Early(u)' => Early(u)
<1> USE WorkflowAssumption
<1>1. results \in Seq(Result) /\ ResultOf(t) \in Result
  BY DEF IInv, TypeOK, OutcomeInv, ResultOf, Result
<1>2. /\ Len(results) \in Nat
      /\ DOMAIN results = 1..Len(results)
      /\ DOMAIN results' = 1..(Len(results) + 1)
      /\ Len(results') = Len(results) + 1
      /\ results'[Len(results) + 1].task = t
      /\ \A i \in 1..Len(results) : results'[i] = results[i]
  BY <1>1 DEF ResultOf
<1>3. ASSUME NEW n \in 4..Len(results), OverAt(results, n)'
      PROVE  OverAt(results, n)
  <2>1. FailuresOf(Append(results, ResultOf(t)), n) = FailuresOf(results, n)
    BY <1>1, <1>2, FailuresAppend
  <2>2. FailuresOf(results, n)' = FailuresOf(results', n)
    BY DEF FailuresOf
  <2> QED BY <1>3, <2>1, <2>2 DEF OverAt
<1>4. ASSUME NEW n \in 4..Len(results), OverAt(results, n)
      PROVE  OverAt(results, n)'
  <2>1. FailuresOf(Append(results, ResultOf(t)), n) = FailuresOf(results, n)
    BY <1>1, <1>2, FailuresAppend
  <2>2. FailuresOf(results, n)' = FailuresOf(results', n)
    BY DEF FailuresOf
  <2> QED BY <1>4, <2>1, <2>2 DEF OverAt
<1>5. ASSUME Late(u)'
      PROVE  Late(u)
  <2>1. PICK n \in 4..(Len(results) + 1) :
            OverAt(results, n)' /\ StepOf[results'[n].task] < StepOf[u]
    BY <1>2, <1>5 DEF Late
  <2>2. n # Len(results) + 1
    <3>1. StepOf[t] = step
      BY CurrentStep
    <3>2. ~(StepOf[u] > step)
      BY DEF IInv, StepBarrier, Returned
    <3>3. StepOf[u] \in Int /\ step \in Int
      BY DEF IInv, TypeOK
    <3> QED BY <1>2, <2>1, <3>1, <3>2, <3>3
  <2>3. n \in 4..Len(results)
    BY <1>2, <2>1, <2>2
  <2> QED BY <1>2, <1>3, <2>1, <2>3 DEF Late
<1>6. ASSUME u # t, pc'[u] = "joining" => pc[u] = "joining", Early(u)'
      PROVE  Early(u)
  <2>1. CASE pc'[u] = "joining"
    BY <1>6, <2>1 DEF Early
  <2>2. CASE pc'[u] # "joining"
    <3>1. PICK i \in 1..(Len(results) + 1) :
              results'[i].task = u /\ \A n \in 4..(i - 1) : ~OverAt(results, n)'
      BY <1>2, <1>6, <2>2 DEF Early
    <3>2. i \in 1..Len(results) /\ results[i].task = u
      BY <1>2, <1>6, <3>1
    <3>3. \A n \in 4..(i - 1) : n \in 4..Len(results)
      BY <1>2, <3>2
    <3>4. \A n \in 4..(i - 1) : ~OverAt(results, n)
      BY <1>4, <3>1, <3>3
    <3> QED BY <1>2, <3>2, <3>4 DEF Early
  <2> QED BY <2>1, <2>2
<1> QED BY <1>5, <1>6

\* Between an action's return and the end of the run, only a later action of its
\* role or a profile switch announces anything.
LEMMA SettledStep ==
    ASSUME IInv, CountInv, SettledInv, [Next]_vars
    PROVE  SettledInv'
<1> USE WorkflowAssumption DEF taskVars, loopVars
<1>0. /\ SettledInv
      /\ OutcomeInv
      /\ LoopInv
      /\ TableInv
      /\ pc \in [Task -> Place]
      /\ out \in [Task -> LatestAttempt]
      /\ slot \in [Role -> SlotStatus]
      /\ step \in Nat
      /\ results \in Seq(Result)
      /\ controller \in ControllerState
      /\ \A i \in DOMAIN results : results[i].task \in Task /\ pc[results[i].task] = "joined"
  BY DEF IInv, TypeOK, OneResultEach, Reported
\* A step that announces nothing.
<1>a. ASSUME UNCHANGED <<slot, results, controller>>,
             \A t \in Task :
                 /\ Quiet(t)' => Quiet(t)
                 /\ Returned(t)' => pc'[t] = pc[t] /\ out'[t] = out[t]
      PROVE  SettledInv'
  <2>1. SUFFICES ASSUME NEW t \in Task, Returned(t)'
                 PROVE  /\ RoleOf[t] \in Slot
                        /\ OncePerStep(RoleOf[t]) /\ LastOfRole(t)' => SlotSays(t)'
    BY DEF SettledInv, OncePerStep
  <2>2. pc'[t] = pc[t] /\ out'[t] = out[t] /\ Returned(t)
    BY <1>a, <2>1 DEF Returned
  <2>3. LastOfRole(t)' => LastOfRole(t)
    BY <1>a DEF LastOfRole, Quiet
  <2>4. /\ Early(t)' => Early(t)
        /\ Late(t)' => Late(t)
    BY <1>a, <2>2 DEF Early, Late, OverAt, FailuresOf
  <2> QED BY <1>0, <1>a, <2>2, <2>3, <2>4, SlotSaysKept DEF SettledInv
\* One that announces something of an action's role.
<1>b. ASSUME NEW t \in Task,
             pc[t] \in {"spawned", "fallback", "merging", "resolving"},
             ~Quiet(t)', pc'[t] \notin {"joining", "joined"},
             \A u \in Task \ {t} : pc'[u] = pc[u],
             UNCHANGED <<out, results, controller>>,
             \A r \in Role \ {RoleOf[t]} : slot'[r] = slot[r],
             pc'[t] = "ok" => RoleOf[t] \in Slot /\ slot'[RoleOf[t]] = OwnStatus(t)
      PROVE  SettledInv'
  <2>1. ASSUME NEW u \in Task, u # t, Returned(u)'
        PROVE  /\ RoleOf[u] \in Slot
               /\ OncePerStep(RoleOf[u]) /\ LastOfRole(u)' => SlotSays(u)'
    <3>1. Returned(u) /\ pc'[u] = pc[u] /\ RoleOf[u] \in Slot
      BY <1>0, <1>b, <2>1 DEF Returned, SettledInv
    <3>2. SUFFICES ASSUME OncePerStep(RoleOf[u]), LastOfRole(u)'
                   PROVE  SlotSays(u)'
      BY <3>1
    <3>3. StepOf[t] = step
      BY <1>b, CurrentStep
    <3>4. StepOf[u] \in Nat /\ ~(StepOf[u] > step)
      BY <3>1 DEF IInv, StepBarrier, Returned
    <3>5. RoleOf[u] # RoleOf[t]
      <4>1. ASSUME RoleOf[u] = RoleOf[t]
            PROVE  FALSE
        <5>1. StepOf[t] >= StepOf[u]
          BY <1>0, <3>3, <3>4
        <5> QED BY <1>b, <2>1, <3>2, <4>1, <5>1 DEF LastOfRole
      <4> QED BY <4>1
    <3>6. LastOfRole(u)
      <4>1. ASSUME NEW v \in Task, RoleOf[v] = RoleOf[u], v # u, StepOf[v] >= StepOf[u]
            PROVE  Quiet(v)
        BY <1>b, <3>2, <3>5, <4>1 DEF LastOfRole, Quiet
      <4> QED BY <4>1 DEF LastOfRole
    <3>7. /\ Early(u)' => Early(u)
          /\ Late(u)' => Late(u)
      <4>1. pc'[u] = pc[u] /\ UNCHANGED results
        BY <1>b, <3>1
      <4> QED BY <4>1 DEF Early, Late, OverAt, FailuresOf
    <3>8. SlotSays(u)
      BY <1>0, <3>1, <3>2, <3>6 DEF SettledInv
    <3> QED BY <1>b, <3>5, <3>7, <3>8, SlotSaysKept
  <2>2. ASSUME Returned(t)'
        PROVE  RoleOf[t] \in Slot /\ SlotSays(t)'
    <3>1. pc'[t] = "ok" /\ OwnStatus(t)' = OwnStatus(t)
      BY <1>b, <2>2 DEF Returned, OwnStatus
    <3>2. ~Early(t)'
      BY <1>0, <1>b, <3>1 DEF Early
    <3> QED BY <1>b, <3>1, <3>2 DEF SlotSays
  <2> QED BY <2>1, <2>2 DEF SettledInv, OncePerStep
\* One that reports an action's result.
<1>c. ASSUME NEW t \in Task, pc[t] \in {"ok", "joining"},
             pc' = [pc EXCEPT ![t] = "joined"],
             results' = Append(results, ResultOf(t)),
             UNCHANGED <<slot, out>>,
             controller'.profile = controller.profile,
             pc[t] = "ok" => main = "running"
      PROVE  SettledInv'
  <2>1. SUFFICES ASSUME NEW u \in Task, Returned(u)'
                 PROVE  /\ RoleOf[u] \in Slot
                        /\ OncePerStep(RoleOf[u]) /\ LastOfRole(u)' => SlotSays(u)'
    BY DEF SettledInv, OncePerStep
  <2>2. Returned(u)
    BY <1>0, <1>c, <2>1 DEF Returned
  <2>3. LastOfRole(u)' => LastOfRole(u)
    BY <1>0, <1>c DEF LastOfRole, Quiet
  <2>4. Late(u)' => Late(u)
    BY <1>c, <2>2, NoEarlierSwitch
  <2>5. CASE u # t \/ pc[t] = "joining" \/ controller.profile = InitialProfile
    <3>1. controller.profile # InitialProfile /\ Early(u)' => Early(u)
      <4>1. CASE u # t
        <5>1. pc'[u] = pc[u]
          BY <1>0, <1>c, <4>1
        <5> QED BY <1>c, <2>2, <4>1, <5>1, NoEarlierSwitch
      <4>2. CASE u = t /\ pc[t] = "joining"
        BY <4>2 DEF Early
      <4> QED BY <2>5, <4>1, <4>2
    <3>2. OwnStatus(u)' = OwnStatus(u)
      BY <1>c DEF OwnStatus
    <3> QED BY <1>0, <1>c, <2>2, <2>3, <2>4, <3>1, <3>2 DEF SettledInv, SlotSays
  <2>6. CASE u = t /\ pc[t] = "ok" /\ controller.profile # InitialProfile
    <3>1. Counted(controller, results)
      BY <1>c, <2>6 DEF CountInv
    <3>2. PICK m \in 4..Len(results) : 10 * FailuresOf(results, m) > 3 * m
      BY <2>6, <3>1 DEF Counted
    <3>3. /\ Len(results) \in Nat
          /\ DOMAIN results' = 1..(Len(results) + 1)
          /\ \A i \in 1..Len(results) : results'[i] = results[i]
      BY <1>0, <1>c DEF ResultOf
    <3>4. OverAt(results, m)'
      <4>1. ResultOf(t) \in Result
        BY <1>0, <2>6 DEF OutcomeInv, ResultOf, Result
      <4>2. FailuresOf(Append(results, ResultOf(t)), m) = FailuresOf(results, m)
        BY <1>0, <3>3, <4>1, FailuresAppend
      <4>3. FailuresOf(results, m)' = FailuresOf(results', m)
        BY DEF FailuresOf
      <4> QED BY <1>c, <3>2, <4>2, <4>3 DEF OverAt
    <3>5. ~Early(t)'
      <4>1. ASSUME NEW i \in DOMAIN results', results'[i].task = t
            PROVE  m \in 4..(i - 1)
        <5>1. i \notin 1..Len(results)
          BY <1>0, <2>6, <3>3, <4>1
        <5> QED BY <3>3, <4>1, <5>1
      <4>2. pc'[t] # "joining"
        BY <1>0, <1>c
      <4> QED BY <3>4, <4>1, <4>2 DEF Early
    <3> QED BY <1>0, <1>c, <2>2, <2>3, <2>4, <2>6, <3>5, SlotSaysKept DEF SettledInv
  <2> QED BY <1>c, <2>5, <2>6
<1>1. ASSUME NEW t \in Task, Begin(t)
      PROVE  SettledInv'
  BY <1>0, <1>b, <1>1 DEF Begin, Quiet
<1>2. ASSUME NEW t \in Task, ChooseRuntime(t)
      PROVE  SettledInv'
  BY <1>0, <1>a, <1>2 DEF ChooseRuntime, Quiet, Returned
<1>3. ASSUME NEW t \in Task, RuntimeError(t) \/ Timeout(t)
      PROVE  SettledInv'
  BY <1>0, <1>a, <1>3 DEF RuntimeError, Timeout, Quiet, Returned
<1>4. ASSUME NEW t \in Task, NEW h \in Outcomes, RuntimeExit(t, h)
      PROVE  SettledInv'
  BY <1>0, <1>a, <1>4 DEF RuntimeExit, Quiet, Returned
<1>5. ASSUME NEW t \in Task, SimulateMerge(t) \/ ResolveConflict(t)
      PROVE  SettledInv'
  <2>1. /\ pc[t] \in {"merging", "resolving"}
        /\ \A u \in Task \ {t} : pc'[u] = pc[u]
        /\ pc'[t] \in {"ok", "fallback", "exhausted", "resolving"}
        /\ UNCHANGED <<out, results, controller>>
        /\ \A r \in Role \ {RoleOf[t]} : slot'[r] = slot[r]
    BY <1>0, <1>5 DEF SimulateMerge, ResolveConflict, AttemptReturns
  <2>2. out[t].health \in Health /\ RoleOf[t] \in Slot
    BY <1>0, <2>1 DEF OutcomeInv, TableInv, Holding
  <2>3. ASSUME pc'[t] = "ok"
        PROVE  slot'[RoleOf[t]] = OwnStatus(t)
    <3>1. AttemptReturns(t)
      BY <1>0, <1>5, <2>3 DEF SimulateMerge, ResolveConflict
    <3>2. CASE out[t].health = "healthy"
      BY <1>0, <3>1, <3>2 DEF AttemptReturns, IsRecoverable, OwnStatus
    <3>3. CASE out[t].health # "healthy"
      <4>1. IsRecoverable(out[t].health)
        BY <2>2, <3>3 DEF Health, IsRecoverable
      <4> QED BY <1>0, <2>3, <3>1, <3>3, <4>1 DEF AttemptReturns, OwnStatus
    <3> QED BY <3>2, <3>3
  <2> QED BY <1>b, <2>1, <2>2, <2>3 DEF Quiet
<1>6. ASSUME NEW t \in Task, Fallback(t)
      PROVE  SettledInv'
  BY <1>0, <1>b, <1>6 DEF Fallback, Quiet
<1>7. CASE PassOver
  <2>1. \A t \in Task : StepOf[t] = step => pc[t] = "unspawned"
    BY <1>0, <1>7 DEF PassOver, LoopInv, ActionsOf
  <2> QED BY <1>0, <1>a, <1>7, <2>1 DEF PassOver, Quiet, Returned
<1>8. CASE BeginStep \/ EndStep \/ Finish
  BY <1>0, <1>a, <1>8 DEF BeginStep, EndStep, Finish, Quiet, Returned
<1>9. ASSUME NEW t \in Task, Spawn(t)
      PROVE  SettledInv'
  BY <1>0, <1>a, <1>9 DEF Spawn, Unspawned, Quiet, Returned
<1>10. ASSUME Abandon
      PROVE  SettledInv'
  BY <1>0, <1>a, <1>10 DEF Abandon, Quiet, Returned
<1>11. ASSUME NEW t \in Task, Join(t)
       PROVE  SettledInv'
  <2>1. CASE controller'.profile = controller.profile
    BY <1>c, <1>11, <2>1 DEF Join
  \* Every slot is announced as assigned, and no result before was a switch.
  <2>2. CASE controller'.profile # controller.profile
    <3>1. /\ pc' = [pc EXCEPT ![t] = "joining"]
          /\ pc[t] = "ok"
          /\ slot' = [r \in Role |-> IF r \in Slot THEN "assigned" ELSE slot[r]]
          /\ UNCHANGED <<results, out>>
      BY <1>11, <2>2 DEF Join
    <3>2. Counted(controller, results)
      BY <1>11 DEF Join, CountInv
    <3>3. controller.profile = "quality_first" /\ controller'.profile = "speed_first"
      <4>1. controller' = RecordStep(controller, out[t].health)
        BY <1>11 DEF Join
      <4> QED BY <1>0, <2>2, <4>1 DEF RecordStep
    <3>4. controller.profile = InitialProfile /\ controller'.profile # InitialProfile
      BY <3>2, <3>3 DEF Counted
    <3>5. \A n \in 4..Len(results) : ~OverAt(results, n)
      BY <3>2, <3>3, <3>4 DEF Counted, OverAt
    <3>6. ASSUME NEW u \in Task, Returned(u)'
          PROVE  RoleOf[u] \in Slot /\ slot'[RoleOf[u]] = "assigned" /\ ~Late(u)'
      <4>1. Returned(u)
        BY <1>0, <3>1, <3>6 DEF Returned
      <4>2. RoleOf[u] \in Slot
        BY <1>0, <4>1 DEF SettledInv
      <4>3. ~Late(u)'
        BY <3>1, <3>5 DEF Late, OverAt, FailuresOf
      <4> QED BY <3>1, <4>2, <4>3
    <3>7. ASSUME NEW u \in Task, Returned(u)'
          PROVE  RoleOf[u] \in Slot /\ SlotSays(u)'
      BY <3>4, <3>6, <3>7 DEF SlotSays
    <3> QED BY <3>7 DEF SettledInv
  <2> QED BY <2>1, <2>2
<1>12. ASSUME NEW t \in Task, Refresh(t)
       PROVE  SettledInv'
  BY <1>c, <1>12 DEF Refresh
<1>13. CASE DeadlinePasses
  BY <1>0, <1>a, <1>13 DEF DeadlinePasses, Quiet, Returned
<1>14. CASE UNCHANGED vars
  BY <1>0, <1>a, <1>14 DEF vars, Quiet, Returned
<1> QED
  BY <1>1, <1>2, <1>3, <1>4, <1>5, <1>6, <1>7, <1>8, <1>9, <1>10, <1>11, <1>12, <1>13, <1>14
     DEF Next, LoopStep, ActionStep, DeadlineExceeded, JoinError
-----------------------------------------------------------------------------
(***************************************************************************)
(* What the report is proved to be.                                        *)
(***************************************************************************)

\* The four parts hold together with the invariant of Pipeline_proofs.
LEMMA ReportInductive == Spec => []ReportIInv
<1>1. Init => ReportIInv
  BY ReportInitial
<1>2. IInv /\ ReportIInv /\ [Next]_vars => ReportIInv'
  BY CountStep, ReportStep, SettledStep, FirstStep DEF ReportIInv
<1> QED BY <1>1, <1>2, InductiveInvariant, PTL DEF Spec

\* The profile is left exactly when more than three in ten of at least four
\* results have failed, however the results and the lock interleave
\* (AdaptiveController, refresh_assignments).
THEOREM AdaptsExactly == Spec => []AdaptsOnFailureRate
<1>1. ReportIInv => AdaptsOnFailureRate
  <2> SUFFICES ASSUME ReportIInv, main # "refresh"
               PROVE  /\ controller.profile # InitialProfile <=> Switched(Len(results))
                      /\ controller.profile \in {InitialProfile, "speed_first"}
                      /\ assignments = Ranking[controller.profile]
    BY DEF AdaptsOnFailureRate
  <2>1. Counted(controller, results) /\ assignments = Ranking[controller.profile]
    BY DEF ReportIInv, CountInv
  <2>2. \A n : FailuresIn(n) = FailuresOf(results, n)
    BY DEF FailuresIn, FailuresOf
  <2> QED BY <2>1, <2>2 DEF Counted, Switched
<1> QED BY <1>1, ReportInductive, PTL

\* A run that succeeds leaves each slot as the last result of its role says,
\* unless the profile was switched with that result or after it, or between the
\* action's return and its result (run_action_with_recovery and the step loop).
THEOREM SlotsAgreeWithResults == Spec => []SlotsSettle
<1>1. IInv /\ ReportIInv => SlotsSettle
  <2> SUFFICES ASSUME IInv, ReportIInv, main = "done",
                      NEW i \in DOMAIN results,
                      OncePerStep(RoleOf[results[i].task]),
                      \A j \in DOMAIN results :
                          RoleOf[results[j].task] = RoleOf[results[i].task] => j <= i
               PROVE  LET t == results[i].task
                          settled == IF results[i].health = "healthy"
                                     THEN "waiting" ELSE "disabled"
                      IN  IF Switched(Len(results)) /\ ~Switched(i - 1)
                          THEN slot[RoleOf[t]] = "assigned"
                          ELSE \/ slot[RoleOf[t]] = settled
                               \/ /\ slot[RoleOf[t]] = "assigned"
                                  /\ Switched(i - 1)
                                  /\ \A n \in 1..(i - 1) :
                                        Switched(n) =>
                                            StepOf[results[n].task] = StepOf[t]
    BY DEF SlotsSettle
  <2> DEFINE t == results[i].task
  <2>1. /\ Reported = {u \in Task : pc[u] = "joined"}
        /\ Finished = Task
        /\ t \in Task /\ pc[t] = "joined"
        /\ Len(results) \in Nat /\ DOMAIN results = 1..Len(results)
        /\ \A j \in DOMAIN results : results[j].task \in Task
    BY DEF IInv, OneResultEach, Reported, TypeOK
  <2>2. LastOfRole(t)
    <3>1. ASSUME NEW u \in Task, RoleOf[u] = RoleOf[t], u # t, StepOf[u] >= StepOf[t],
                 pc[u] = "joined"
          PROVE  FALSE
      <4>1. PICK j \in DOMAIN results : results[j].task = u
        BY <2>1, <3>1 DEF Reported
      <4>2. j <= i
        BY <3>1, <4>1
      <4>3. StepOf[u] <= StepOf[t]
        BY <4>1, <4>2 DEF ReportIInv, ReportInv
      <4>4. StepOf[u] = StepOf[t]
        BY <2>1, <3>1, <4>3, WorkflowAssumption
      <4> QED BY <2>1, <3>1, <4>4 DEF OncePerStep
    <3>2. \A u \in Task : pc[u] \in {"joined", "skipped"}
      BY <2>1 DEF Finished
    <3> QED BY <3>1, <3>2 DEF LastOfRole, Quiet
  <2>3. SlotSays(t)
    BY <2>1, <2>2 DEF ReportIInv, SettledInv, Returned
  <2>4. OwnStatus(t) = IF results[i].health = "healthy" THEN "waiting" ELSE "disabled"
    BY DEF ReportIInv, ReportInv, OwnStatus
  <2>5. \A n : Switched(n) <=> /\ InitialProfile = "quality_first"
                               /\ \E m \in 4..n : OverAt(results, m)
    BY DEF Switched, OverAt, FailuresIn, FailuresOf
  <2>6. controller.profile # InitialProfile <=> Switched(Len(results))
    <3>1. Counted(controller, results)
      BY DEF ReportIInv, CountInv
    <3> QED BY <2>5, <3>1 DEF Counted, OverAt
  <2>7. CASE ~Switched(Len(results))
    BY <2>3, <2>4, <2>6, <2>7 DEF SlotSays
  <2>8. CASE Switched(Len(results)) /\ ~Switched(i - 1)
    <3>1. \A n \in 4..(i - 1) : ~OverAt(results, n)
      BY <2>5, <2>8
    <3>2. Early(t)
      BY <3>1 DEF Early
    <3> QED BY <2>3, <2>6, <2>8, <3>2 DEF SlotSays
  <2>9. CASE Switched(Len(results)) /\ Switched(i - 1)
    <3>1. SUFFICES ASSUME slot[RoleOf[t]] # OwnStatus(t), NEW n \in 1..(i - 1), Switched(n)
                   PROVE  StepOf[results[n].task] = StepOf[t]
      BY <2>3, <2>4, <2>6, <2>9 DEF SlotSays
    <3>2. PICK m \in 4..n : OverAt(results, m)
      BY <2>5, <3>1
    <3>3. m \in DOMAIN results /\ n \in DOMAIN results /\ m <= n /\ n <= i
      BY <2>1, <3>2
    <3>4. ~(StepOf[results[m].task] < StepOf[t])
      <4>1. ~Late(t)
        BY <2>3, <2>6, <2>9, <3>1 DEF SlotSays
      <4>2. m \in 4..Len(results)
        BY <2>1, <3>2, <3>3
      <4> QED BY <3>2, <4>1, <4>2 DEF Late
    <3>5. /\ StepOf[results[m].task] <= StepOf[results[n].task]
          /\ StepOf[results[n].task] <= StepOf[t]
      BY <3>3 DEF ReportIInv, ReportInv
    <3>6. /\ StepOf[results[m].task] \in Int
          /\ StepOf[results[n].task] \in Int
          /\ StepOf[t] \in Int
      BY <2>1, <3>3, WorkflowAssumption
    <3> QED BY <3>4, <3>5, <3>6
  <2> QED BY <2>7, <2>8, <2>9
<1> QED BY <1>1, InductiveInvariant, ReportInductive, PTL

\* The first retry of an action leaves the runtime that failed, if the role has
\* another candidate (fallback_assignment).
THEOREM FirstRetriesSwap == Spec => FirstRetrySwaps
<1> DEFINE Swaps == \A t \in Task :
               /\ attempt[t] = 0 /\ attempt'[t] = 1
               /\ controller.profile = InitialProfile
               /\ HasAlternative(t)
               => override'[t] # out[t].runtime
<1>1. IInv /\ ReportIInv /\ [Next]_vars => [Swaps]_vars
  <2> SUFFICES ASSUME IInv, ReportIInv, [Next]_vars, NEW t \in Task,
                      attempt[t] = 0, attempt'[t] = 1,
                      controller.profile = InitialProfile, HasAlternative(t)
               PROVE  override'[t] # out[t].runtime
    OBVIOUS
  <2>1. Fallback(t)
    <3>1. attempt \in [Task -> Nat]
      BY DEF IInv, TypeOK
    <3>2. \A u \in Task : Fallback(u) => attempt' = [attempt EXCEPT ![u] = attempt[u] + 1]
      BY DEF Fallback
    <3>3. \/ UNCHANGED attempt
          \/ \E u \in Task : Fallback(u)
      BY DEF Next, LoopStep, ActionStep, DeadlineExceeded, JoinError, vars, taskVars, loopVars,
             Begin, ChooseRuntime, RuntimeError, Timeout, RuntimeExit, SimulateMerge,
             ResolveConflict, PassOver, BeginStep, EndStep, Finish, Spawn, Abandon,
             Join, Refresh, DeadlinePasses
    <3> QED BY <3>1, <3>2, <3>3
  <2>2. /\ assignments = Ranking[InitialProfile]
        /\ override'[t] = FallbackAssignment(assignments[RoleOf[t]])
    BY <2>1 DEF Fallback, ReportIInv, CountInv, IInv, TypeOK
  <2>3. out[t].runtime = assignments[RoleOf[t]][1]
    BY <2>1, <2>2 DEF Fallback, ReportIInv, FirstInv
  <2>4. assignments[RoleOf[t]] \in Seq(Runtime)
    BY WorkflowAssumption DEF IInv, TypeOK
  <2>5. FallbackAssignment(assignments[RoleOf[t]]) # assignments[RoleOf[t]][1]
    <3> DEFINE candidates == assignments[RoleOf[t]]
               others == {i \in DOMAIN candidates : candidates[i] # candidates[1]}
               first  == CHOOSE i \in others : \A j \in others : i <= j
    <3>1. others \in SUBSET Nat /\ others # {}
      BY <2>4 DEF HasAlternative
    <3>2. \E i \in others : \A j \in others : i <= j
      BY <3>1, LeastNatural
    <3>3. first \in others
      BY <3>2
    <3>4. FallbackAssignment(candidates) = candidates[first]
      BY <3>1 DEF FallbackAssignment
    <3> QED BY <3>3, <3>4
  <2> QED BY <2>2, <2>3, <2>5
<1> QED BY <1>1, InductiveInvariant, ReportInductive, PTL DEF FirstRetrySwaps, Spec
=============================================================================
