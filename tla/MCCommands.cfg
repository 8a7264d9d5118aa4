SPECIFICATION FairSpec
CONSTANTS
    Zones = {1, 2}
    Requests <- SomeRequests
    MaxMessages = 2
    MaxTurns = 1
    MaxRestarts = 1
    PublishFails = TRUE
INVARIANTS TypeOK DurationInPlace LastQueuedWins
PROPERTIES OtherZoneKept ServedOneByOne EveryCommandEnds
