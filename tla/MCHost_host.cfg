SPECIFICATION HostSpec
CONSTANTS
    s1 = s1
    s2 = s2
    s3 = s3
    c1 = c1
    c2 = c2
    k1 = k1
    k2 = k2
    w1 = w1
    a1 = a1
    m1 = m1
    m2 = m2
    m3 = m3
    x1 = x1
    x2 = x2
    Simulation = {s1, s2, s3}
    NoSim = NoSim
    Branch <- MCBranch
    Child = {c1, c2}
    Command = {k1, k2}
    Waiter = {w1}
    Agent = {a1}
    AgentOf <- MCAgentOf
    Pid = {1, 2}
    NoPid = NoPid
    NoChild = NoChild
    Start = {m1, m2, m3}
    Stop = {x1, x2}
    Name = {"docs", "git"}
    Isolated = {"git"}
    NameOf <- MCNameOf
    WithAgent = {m1, m3}
    NoServer = NoServer
INVARIANTS
    FalseConflictHasCause
    LeftoverIsCleared
    StrangerOnlyAfterReap
    LostOnlyByRace
PROPERTIES
    EveryCommandEnds
CHECK_DEADLOCK FALSE
