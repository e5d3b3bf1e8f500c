CONSTANTS
    k1 = k1
    k2 = k2
    k3 = k3
    None = None
    Keys <- MC_Keys
    Stem <- MC_Stem
    NoKey <- None
    BadPattern <- MC_BadPattern
    Documents <- MC_Documents
    Flags <- MC_Flags
SPECIFICATION Spec
INVARIANT ReadNeverPanics
