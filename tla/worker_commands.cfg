CONSTANTS
    NoLevel = NoLevel
    NoState = NoState
    Levels <- FewLevels
    Raws <- FewRaws
    Commands <- FewCommands
    MaxRetries = 2
    MaxCommands = 2
    MaxChanges = 0
    MaxDrops = 0
SPECIFICATION Spec
INVARIANTS TypeOK VerdictEarned PromiseKept OkMeansApplied LevelReadsBack LinkDiscipline
PROPERTIES LedgerKept PassesEnd
CHECK_DEADLOCK FALSE
