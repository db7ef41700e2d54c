CONSTANTS
    a = a
    b = b
    r1 = r1
    r2 = r2
    Main = Main
    Client = Client
    Nobody = Nobody
    Names <- OneName
    Requests <- MCRequests
    MaxEdits = 1
    MaxMessages = 0
    MaxLosses = 1
SPECIFICATION Spec
INVARIANTS DiscoveryComplete
CHECK_DEADLOCK FALSE
