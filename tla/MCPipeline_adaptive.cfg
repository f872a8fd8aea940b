SPECIFICATION Spec
CONSTANTS
    r1 = r1
    r2 = r2
    r3 = r3
    NoRuntime = NoRuntime
    Runtime = {r1, r2}
    NSteps <- AdaptiveSteps
    Kind <- AdaptiveKind
    Task <- AdaptiveTask
    StepOf <- AdaptiveStepOf
    Position <- AdaptivePlace
    Role <- AdaptiveRole
    RoleOf <- AdaptiveRoleOf
    Slot <- AdaptiveSlot
    Ranking <- AdaptiveRanking
    InitialProfile = "quality_first"
    Policy <- AdaptivePolicy
    Outcomes <- TwoOutcomes
    HasDeadline = FALSE
INVARIANTS
    IInv
    AdaptsOnFailureRate
    RunsFirstCandidate
    SlotsSettle
CHECK_DEADLOCK FALSE
