SPECIFICATION Spec
CONSTANTS
    Images = {shipped, newer, faulty}
    Good = {shipped, newer}
    Factory = shipped
    kOtaMaxBoots = 3
    MaxApplies = 3
    MaxResets = 3
    shipped = shipped
    newer = newer
    faulty = faulty
INVARIANT OtaInv BootsWhatWasAsked
PROPERTY SwitchesBack RollsBack
