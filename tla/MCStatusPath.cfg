SPECIFICATION Spec
CONSTANTS
    Zones = {1, 2}
    StreamsSurvive = TRUE
    MaxChanges = 3
    MaxDrops = 1
    MaxRequests = 2
INVARIANTS TypeOK CacheFresh BaselineIsCache PushesAreTrue NoPushTwice
INVARIANTS AnswersOfThisSession ReadyMeansSession
