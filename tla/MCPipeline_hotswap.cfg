SPECIFICATION FairSpec
CONSTANTS
    r1 = r1
    r2 = r2
    r3 = r3
    NoRuntime = NoRuntime
    Runtime = {r1, r2, r3}
    NSteps <- SwapSteps
    Kind <- SwapKind
    Task <- SwapTask
    StepOf <- SwapStepOf
    Position <- SwapPlace
    Role <- SwapRole
    RoleOf <- SwapRoleOf
    Slot <- SwapRole
    Ranking <- SwapRanking
    InitialProfile = "budget_first"
    Policy <- SwapPolicy
    Outcomes <- AllOutcomes
    HasDeadline = TRUE
PROPERTY EveryRetrySwaps
CHECK_DEADLOCK FALSE
