SPECIFICATION ServiceSpec
CONSTANTS
    h1 = h1
    h2 = h2
    Hub = {h1, h2}
    Scripts <- AllScripts
    Nobody = "nobody"
    NoRow = NoRow
    NoModel = NoModel
    WINDOW = 2
    MAX_REQUESTS = 3
    Workloads <- MCWorkloads
    Slots <- MCSlots
    Models <- MCModels
INVARIANTS
    StartIInv
    RecordsTypeOK
    ServesWholeSchema
    LaterClaimIsWarned
    LastWriteIsTold
    MessageHasThread
    OutcomesAreCounted
    RefusedCanBeSentAgain
    BurstBound
    AnalyticsAreRanks
    LearnedWithinBand
    ChosenIsFirstCandidate
PROPERTIES
    WedgedForEver
    OutcomeMovesScoreRightly
CHECK_DEADLOCK FALSE
