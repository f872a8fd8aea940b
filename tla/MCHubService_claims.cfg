SPECIFICATION ServiceSpec
CONSTANTS
    h1 = h1
    h2 = h2
    Hub = {h1, h2}
    Scripts <- AllScripts
    Nobody = "nobody"
    NoRow = NoRow
    NoModel = NoModel
    WINDOW = 2
    MAX_REQUESTS = 3
    Workloads <- MCClaims
    Slots <- MCSlots
    Models <- MCModels
INVARIANT
    OneIsWarned
CHECK_DEADLOCK FALSE
