SPECIFICATION Spec
CONSTANTS
    p1 = p1  p2 = p2
    wellington = wellington  auckland = auckland  raoul = raoul
    None = None
    Params = {p1, p2}
    Sites = {wellington, auckland, raoul}
    SitesOf <- MCSitesOf
    LatOf <- MCLatOf
    LngOf <- MCLngOf
    HomeView <- MCHomeView
    Views = {}
    Hooked = FALSE
    FirstParam = p1
    Picks <- MCPicks
    Slots = {1, 2}
CHECK_DEADLOCK FALSE
INVARIANTS
    SitesDataByParam
