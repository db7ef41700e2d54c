CONSTANTS
    a = a
    b = b
    x = x
    NoText = NoText
    Partial = Partial
    Missing = Missing
    Names <- MCNames
    Ids <- MCIds
    MaxEdits = 4
    MaxFaults = 2
SPECIFICATION Spec
SYMMETRY Alike
INVARIANTS TypeOK NamesDistinct RestartLosesNothing
PROPERTIES WrittenAtomically
CHECK_DEADLOCK FALSE
