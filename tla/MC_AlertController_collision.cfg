CONSTANTS
    d1 = d1
    d2 = d2
    d3 = d3
    p1 = p1
    p2 = p2
    v1 = v1
    None = None
    Absent = Absent
    Ids <- MC_Ids
    Indicators = {}
    Values <- MC_Values
    NoStatus <- None
    TTL = 1
    MaxTime = 2
    Products <- MC_Products
    ProductOf <- MC_ProductOf
    NoFile <- Absent
SPECIFICATION Spec
INVARIANT CleanUpdateLoadsEveryListedDocument
