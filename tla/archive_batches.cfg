SPECIFICATION Spec
CONSTANTS
    b1 = b1  b2 = b2
    fa = fa  fb = fb
    Keys = {1, 2}
    Fields = {fa}
    Times = {0, 1}
    MonthOf <- TwoMonths
    Batches = {b1, b2}
    BatchRows <- SpreadRows
    NoBatch = NoBatch
    Blank = Blank
    NoCell = NoCell
    BatchSize = 2
    Sem = 2
    Straddle = FALSE
    Skew = 0
    Faults = {}
    MaxFaults = 0
    MaxClock = 4
CHECK_DEADLOCK FALSE
INVARIANTS
    ArchivedInS3AtDelete
    RunComplete
PROPERTIES
    StoreSpec
