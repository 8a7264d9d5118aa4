SPECIFICATION Spec
CONSTANTS
    Zones = {1}
    StreamsSurvive = FALSE
    MaxChanges = 3
    MaxDrops = 0
    MaxRequests = 2
INVARIANTS LastWordIsTrue
