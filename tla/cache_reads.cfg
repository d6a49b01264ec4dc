SPECIFICATION FairSpec
CONSTANTS
    h1 = h1  h2 = h2  ticker = ticker
    Domains = {1, 2}
    Fdmp = 2
    Keys = {1, 2}
    Series <- ThreeSeries
    Handlers = {h1}
    Ticker = ticker
    Asked <- OneAsked
    Expire = 0
    Window = 2
    Faults = {"query", "scan", "break", "die", "startup"}
    MaxFaults = 1
    MaxClock = 3
INVARIANTS
    TypeOK
    OneLoad
PROPERTIES
    CacheFollows
    RequestsEnd
