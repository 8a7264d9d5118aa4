SPECIFICATION Spec
CONSTANTS
    Zones = {1, 2}
    Requests <- StatusRequests
    MaxMessages = 2
    MaxTurns = 0
    MaxRestarts = 0
    PublishFails = FALSE
INVARIANTS EveryCommandAnswered
