SPECIFICATION Spec
CONSTANTS
    b1 = b1  b2 = b2
    fa = fa  fb = fb
    Keys = {1, 2}
    Fields = {fa, fb}
    Times = {0, 1}
    MonthOf <- OneMonth
    Batches = {b1, b2}
    BatchRows <- AlignedRows
    NoBatch = NoBatch
    Blank = Blank
    NoCell = NoCell
    BatchSize = 9
    Sem = 2
    Straddle = FALSE
    Skew = 0
    Faults = {"s3", "db", "crash"}
    MaxFaults = 2
    MaxClock = 4
CHECK_DEADLOCK FALSE
INVARIANTS
    ArchivedInS3
    RunComplete
PROPERTIES
    StoreSpec
