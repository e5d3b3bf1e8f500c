CONSTANTS
    d1 = d1
    d2 = d2
    i1 = i1
    v1 = v1
    None = None
    Ids <- MC_Ids
    Indicators <- MC_Indicators
    Values <- MC_Values
    NoStatus <- None
    TTL = 1
    MaxTime = 3
SPECIFICATION RegSpec
INVARIANT ExpiredStatusUnreachable
