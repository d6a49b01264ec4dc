SPECIFICATION FairSpec
CONSTANTS
    c1 = c1  c2 = c2
    m1 = m1  m2 = m2  m3 = m3  m4 = m4
    f1 = f1  f2 = f2  f3 = f3
    k1 = k1  k2 = k2  k3 = k3
    Consumers = {c1, c2}
    Messages = {m1, m2, m3}
    Files = {f1, f2}
    PKs = {k1, k2, k3}
    BadLine = BadLine
    NoFile = NoFile
    None = None
    Kind <- CleanKind
    FilesOf <- CleanFilesOf
    Content <- CleanContent
    MaxReceive = 2
    MaxConns = 3
    MaxFaults = 1
INVARIANTS
    TypeOK
    DeletedMeansStored
    AtomicNotification
PROPERTIES
    EveryMessageSettled
    CleanFilesStored
