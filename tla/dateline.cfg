SPECIFICATION MapSpec
CONSTANTS
    scott = scott  wellington = wellington  raoul = raoul
    tonga = tonga  cook = cook
    p1 = p1  p2 = p2  p3 = p3
    Params = {p1, p2, p3}
    Sites = {scott, wellington, raoul, tonga, cook}
    SitesOf <- MCSitesOf
    LatOf <- MCLatOf
    LngOf <- MCLngOf
    HomeView <- MCHomeView
    Views <- MCViews
    Hooked = TRUE
INVARIANTS
    MapTypeOK
    NoDrift
    OneLayerOfMarkers
    SeenIfSeeable
PROPERTIES
    ZoomedToMarkers
