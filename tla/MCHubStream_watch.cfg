SPECIFICATION FairSpec
CONSTANTS
    ann = ann
    bob = bob
    toall = toall
    first = first
    second = second
    third = third
    NoMessage = NoMessage
    Agent <- Agents
    Follower <- Followers
    Watchers <- Followers
    Request <- Messages
    Audience <- WatchAudience
    Single <- ToOne
    Capacity = 1
PROPERTY ClientsCatchUp
CHECK_DEADLOCK FALSE
