SPECIFICATION FairSpec
CONSTANTS
    Zones = {1}
    StreamsSurvive = TRUE
    MaxChanges = 2
    MaxDrops = 1
    MaxRequests = 1
PROPERTIES EventuallyConsistent
