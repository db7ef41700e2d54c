CONSTANTS
    a = a
    b = b
    r1 = r1
    r2 = r2
    Main = Main
    Client = Client
    Nobody = Nobody
    Names <- MCNames
    Requests <- MCRequests
    MaxEdits = 2
    MaxMessages = 1
    MaxLosses = 1
SPECIFICATION Spec
SYMMETRY Alike
INVARIANTS TypeOK Converged NoStaleWorker Subscribed Available NoOtherDeadlock DiscoveryUnlessLost
CHECK_DEADLOCK FALSE
