SPECIFICATION Spec
CONSTANTS
    ann = ann
    bob = bob
    toall = toall
    first = first
    second = second
    third = third
    NoMessage = NoMessage
    Agent <- Agents
    Follower <- Followers
    Watchers <- Nobody
    Request <- ToAnn
    Audience <- ResumeAudience
    Single <- ToAnn
    Capacity = 1
INVARIANTS
    ReceivedIsStored
    StreamIInv
    ResumeMissesOnlyOvertaken
CHECK_DEADLOCK FALSE
