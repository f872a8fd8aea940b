SPECIFICATION RecordSpec
CONSTANTS
    r1 = r1
    r2 = r2
    NoRuntime = NoRuntime
    Runtime = {r1, r2}
    NSteps = 1
    Kind <- SoloKind
    Task <- SoloTask
    StepOf <- SoloStepOf
    Position <- SoloStepOf
    Role <- RecordRole
    RoleOf <- SoloRoleOf
    Slot <- RecordSlot
    Ranking <- RecordRanking
    InitialProfile = "budget_first"
    Policy <- RecordPolicy
    Outcomes <- TwoOutcomes
    HasDeadline = FALSE
    RowOf <- OtherRows
INVARIANT ExitSettlesStatus
CHECK_DEADLOCK FALSE
