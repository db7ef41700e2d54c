CONSTANTS
    NoLevel = NoLevel
    NoState = NoState
    Levels <- FewLevels
    Raws <- FewRaws
    Commands <- FewCommands
    MaxRetries = 2
    MaxCommands = 1
    MaxChanges = 0
    MaxDrops = 0
SPECIFICATION Spec
INVARIANTS FailedMeansTried
CHECK_DEADLOCK FALSE
