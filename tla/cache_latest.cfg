SPECIFICATION Spec
CONSTANTS
    h1 = h1  h2 = h2  ticker = ticker
    Domains = {1}
    Fdmp = 1
    Keys = {1, 2}
    Series <- TwoKeys
    Handlers = {h1, h2}
    Ticker = ticker
    Asked <- TwoKeys
    Expire = 0
    Window = 4
    Faults = {}
    MaxFaults = 0
    MaxClock = 3
INVARIANT EachKeyOnce
