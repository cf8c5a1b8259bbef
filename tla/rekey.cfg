SPECIFICATION Spec
CONSTANTS
    Names = {n1}
    Keys = {k1, k2}
    MaxFaults = 1
    MaxResets = 1
    MaxMoves = 2
    MaxWrites = 1
    n1 = n1
    k1 = k1
    k2 = k2
SYMMETRY Symmetry
VIEW Live
CONSTRAINT AnyTwo
INVARIANT RekeyInv NothingStranded SecretFollows
PROPERTY OneStepChange
CHECK_DEADLOCK FALSE
