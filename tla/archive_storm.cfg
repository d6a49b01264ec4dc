SPECIFICATION FairSpec
CONSTANTS
    b1 = b1  b2 = b2
    fa = fa  fb = fb
    Keys = {1, 2}
    Fields = {fa, fb}
    Times = {0, 1}
    MonthOf <- OneMonth
    Batches = {b1, b2}
    BatchRows <- MixedRows
    NoBatch = NoBatch
    Blank = Blank
    NoCell = NoCell
    BatchSize = 1
    Sem = 1
    Straddle = TRUE
    Skew = 1
    Faults = {"stream", "s3", "db", "crash"}
    MaxFaults = 1
    MaxClock = 4
CHECK_DEADLOCK FALSE
INVARIANTS
    TypeOK
PROPERTIES
    ArchiveGrows
    RunEnds
