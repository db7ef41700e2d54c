CONSTANTS
    a = a
    b = b
    None = None
    Names <- OneName
    MaxRequests = 2
    MaxPolls = 2
    MaxFaults = 1
SPECIFICATION FairSpec
INVARIANTS TypeOK KeysReal BusyHonest
PROPERTIES AnswersReachTheirOwn NothingOverwritten TableCatchesUp BusyEnds
CHECK_DEADLOCK FALSE
