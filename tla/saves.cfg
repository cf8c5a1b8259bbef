SPECIFICATION Spec
CONSTANTS
    Notes = {n1}
    Savers = {s1, s2}
    MaxSaves = 2
    MaxSweeps = 1
    MaxDeletes = 1
    MaxBoots = 1
    n1 = n1
    s1 = s1
    s2 = s2
SYMMETRY Symmetry
VIEW Live
INVARIANT SavesInv LastSaveKept
PROPERTY DeletesWhatWasChecked
CHECK_DEADLOCK FALSE
