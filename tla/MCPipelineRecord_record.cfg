SPECIFICATION RecordSpec
CONSTANTS
    r1 = r1
    r2 = r2
    NoRuntime = NoRuntime
    Runtime = {r1, r2}
    NSteps <- RecordSteps
    Kind <- RecordKind
    Task <- RecordTask
    StepOf <- RecordStepOf
    Position <- RecordPlace
    Role <- RecordRole
    RoleOf <- RecordRoleOf
    Slot <- RecordSlot
    Ranking <- RecordRanking
    InitialProfile = "budget_first"
    Policy <- RecordPolicy
    Outcomes <- TwoOutcomes
    HasDeadline = FALSE
    RowOf <- SameRows
INVARIANTS
    RecordIsPrefix
    SucceededIsComplete
    SucceededSlotsCurrent
    ExitSettlesStatus
    RunsOnlyWhenStarted
PROPERTY Exits
CHECK_DEADLOCK FALSE
