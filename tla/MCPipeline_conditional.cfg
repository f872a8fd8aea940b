SPECIFICATION Spec
CONSTANTS
    r1 = r1
    r2 = r2
    r3 = r3
    NoRuntime = NoRuntime
    Runtime = {r1, r2}
    NSteps <- CoreSteps
    Kind <- CoreKind
    Task <- CoreTask
    StepOf <- CoreStepOf
    Position <- CorePlace
    Role <- CoreRole
    RoleOf <- CoreRoleOf
    Slot <- CoreRole
    Ranking <- CoreRanking
    InitialProfile = "budget_first"
    Policy <- CorePolicy
    Outcomes <- AllOutcomes
    HasDeadline = TRUE
INVARIANT ConditionalFollowsHealthy
CHECK_DEADLOCK FALSE
