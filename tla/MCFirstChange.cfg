SPECIFICATION Spec
CONSTANTS
    Zones = {1}
    StreamsSurvive = FALSE
    MaxChanges = 1
    MaxDrops = 0
    MaxRequests = 0
INVARIANTS EveryChangePushed
