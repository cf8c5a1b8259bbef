SPECIFICATION Spec
CONSTANTS
    Notes = {n1}
    Savers = {s1}
    MaxSaves = 1
    MaxSweeps = 1
    MaxDeletes = 0
    MaxBoots = 0
    n1 = n1
    s1 = s1
INVARIANT EvictionKeepsSaves
CHECK_DEADLOCK FALSE
