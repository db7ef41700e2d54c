CONSTANTS
    a = a
    b = b
    r1 = r1
    r2 = r2
    Main = Main
    Client = Client
    Nobody = Nobody
    Names <- OneName
    Requests <- MCRequests
    MaxEdits = 1
    MaxMessages = 1
    MaxLosses = 0
SPECIFICATION FairSpec
PROPERTIES ReloadReturns
CHECK_DEADLOCK FALSE
