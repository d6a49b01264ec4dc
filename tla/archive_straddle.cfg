SPECIFICATION Spec
CONSTANTS
    b1 = b1  b2 = b2
    fa = fa  fb = fb
    Keys = {1}
    Fields = {fa}
    Times = {0, 1}
    MonthOf <- OneMonth
    Batches = {b1, b2}
    BatchRows <- LateRow
    NoBatch = NoBatch
    Blank = Blank
    NoCell = NoCell
    BatchSize = 9
    Sem = 2
    Straddle = TRUE
    Skew = 0
    Faults = {}
    MaxFaults = 0
    MaxClock = 3
CHECK_DEADLOCK FALSE
PROPERTY NothingLost
