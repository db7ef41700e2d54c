CONSTANTS
    NoLevel = NoLevel
    NoState = NoState
    Levels <- FewLevels
    Raws <- FewRaws
    Commands <- TwoCommands
    MaxRetries = 2
    MaxCommands = 1
    MaxChanges = 1
    MaxDrops = 1
SPECIFICATION FairSpec
PROPERTIES TopicFollows StopReturns CommandsSettled StateLearned
CHECK_DEADLOCK FALSE
