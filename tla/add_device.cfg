CONSTANTS
    a = a
    b = b
    None = None
    Names <- OneName
    MaxRequests = 1
    MaxPolls = 1
    MaxFaults = 0
SPECIFICATION Spec
PROPERTIES ValidFormAccepted
CHECK_DEADLOCK FALSE
