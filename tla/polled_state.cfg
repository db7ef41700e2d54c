CONSTANTS
    NoLevel = NoLevel
    NoState = NoState
    Levels <- MCLevels
    Raws <- MCRaws
    Commands <- MCCommands
    MaxRetries = 2
    MaxCommands = 1
    MaxChanges = 0
    MaxDrops = 0
SPECIFICATION Spec
PROPERTIES PolledStatePublished
CHECK_DEADLOCK FALSE
