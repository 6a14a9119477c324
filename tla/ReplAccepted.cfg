SPECIFICATION Spec
CONSTANTS
    f = f
    g = g
    x = x
    y = y
    Names = {f, g, x, y}
    NoName = NoName
    NoProgram = NoProgram
    Fragments <- AllFragments
CHECK_DEADLOCK FALSE
INVARIANTS PersistedIsAccepted
