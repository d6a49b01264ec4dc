---------------------------- MODULE FitsSiteMap ----------------------------
(***************************************************************************)
(* The Leaflet map of the chart page: the markers of the sites that        *)
(* ldr-map-charts.js puts on it, and L.GeoJSON1 of leaflet-patch180.js,    *)
(* which moves a marker by a whole turn when it lies on the other side of  *)
(* the date line than the centre of the map.                               *)
(*                                                                         *)
(* Places are in whole degrees.  Leaflet does not wrap longitudes: a view  *)
(* centred on 185 does not show a marker at -175.  The latitude of a       *)
(* marker is that of its site for good.  A longitude of exactly 0, for     *)
(* which the sign of the code is not a number, does not occur.  Features   *)
(* are points: /site returns nothing else.                                 *)
(***************************************************************************)
EXTENDS Integers, FiniteSetsExt

CONSTANTS
    Params,    \* the parameters (typeIDs) the page offers
    Sites,     \* site identifiers
    SitesOf,   \* the sites the server lists for a parameter
    LatOf,     \* latitude of a site as the server sends it
    LngOf,     \* its longitude
    HomeView,  \* the view of initBaseMap
    Views,     \* what the map may be dragged, zoomed or panned to
    Hooked     \* whether checkMapLayerLocations has been called

(***************************************************************************)
(* What a map shows: the longitudes from centre - reach to centre + reach  *)
(* and the latitudes from lat - span to lat + span.                        *)
(***************************************************************************)
View == [centre : Int \ {0}, reach : Nat, lat : Int, span : Nat]

ASSUME SitesAssumption ==
    /\ SitesOf \in [Params -> SUBSET Sites]
    /\ LatOf \in [Sites -> -90 .. 90]
    /\ LngOf \in [Sites -> (-180 .. 180) \ {0}]

ASSUME ViewsAssumption ==
    /\ HomeView \in View
    /\ HomeView.centre > 0
    /\ Views \subseteq View
    /\ Hooked \in BOOLEAN

VARIABLES
    view,           \* what the map shows
    layers,         \* sitesLayers: the layer made for a parameter
    allSiteMarkers  \* the sites whose marker can be asked for

mapVars == <<view, layers, allSiteMarkers>>

Layer == [sites : SUBSET Sites, at : [Sites -> Int],
          sign : {-1, 0, 1}, bounds : View]

(***************************************************************************)
(* A layer without features; sign 0: checkFeatureLocation has not run.     *)
(***************************************************************************)
NoLayer == [sites |-> {}, at |-> LngOf, sign |-> 0, bounds |-> HomeView]

Sign(lng) == IF lng > 0 THEN 1 ELSE -1

(***************************************************************************)
(* LatLngBounds of Leaflet: a place is in a view, two views overlap.       *)
(***************************************************************************)
Contains(v, lat, lng) ==
    /\ v.centre - v.reach <= lng /\ lng <= v.centre + v.reach
    /\ v.lat - v.span <= lat /\ lat <= v.lat + v.span

Intersects(v, w) ==
    /\ v.centre - v.reach <= w.centre + w.reach
    /\ w.centre - w.reach <= v.centre + v.reach
    /\ v.lat - v.span <= w.lat + w.span
    /\ w.lat - w.span <= v.lat + v.span

\* Mutant: whatever is out of view is moved.
MovedWhenOut(v, lat, lng) ==
    IF Contains(v, lat, lng) THEN lng ELSE Sign(v.centre) * 360 + lng

(***************************************************************************)
(* Where a marker at (lat, lng) belongs when the view is v: its longitude. *)
(* One that is too far north or south to be seen is moved as well.         *)
(***************************************************************************)
Moved(v, lat, lng) ==
    IF Contains(v, lat, lng) \/ Sign(lng) = Sign(v.centre)
    THEN lng
    ELSE Sign(v.centre) * 360 + lng

\* Mutant: only the first check counts as a change.
CentreFirstSet(layer, v) == layer.sign = 0

CentreChanged(layer, v) ==
    \/ layer.sign # Sign(v.centre)
    \/ ~Intersects(v, layer.bounds)

(***************************************************************************)
(* force: called without an event.                                         *)
(***************************************************************************)
CheckFeatureLocation(layer, v, force) ==
    [layer EXCEPT
        !.sign = Sign(v.centre),
        !.bounds = v,
        !.at = IF force \/ CentreChanged(layer, v)
               THEN [s \in Sites |-> IF s \in layer.sites
                                     THEN Moved(v, LatOf[s], @[s]) ELSE @[s]]
               ELSE @]

(***************************************************************************)
(* What the handler of moveend does to the layers, when there is one.  The *)
(* layers that have never been checked are those that do not exist.        *)
(***************************************************************************)
Moveend(ls, v) ==
    [p \in Params |-> IF Hooked /\ ls[p].sign # 0
                      THEN CheckFeatureLocation(ls[p], v, FALSE)
                      ELSE ls[p]]

\* Mutant: the layers of other parameters keep their markers.
OverlayersKept(ls) == ls

(***************************************************************************)
(* clearOverlayers empties every layer of the page; what an empty layer    *)
(* remembers of the map is never used again.                               *)
(***************************************************************************)
ClearOverlayers(ls) == [p \in Params |-> NoLayer]

Middle(S) == (Min(S) + Max(S) + 1) \div 2

Lats(points) == {q[1] : q \in points}
Lngs(points) == {q[2] : q \in points}

\* Mutant: the far corner is taken for the near one.
FitBoundsSwapped(points) ==
    [centre |-> Middle(Lngs(points)),
     reach  |-> Middle(Lngs(points)) - Max(Lngs(points)),
     lat    |-> Middle(Lats(points)),
     span   |-> Middle(Lats(points)) - Max(Lats(points))]

\* Mutant: the map is centred on the points, without the room for them.
FitBoundsCentre(points) ==
    [centre |-> Middle(Lngs(points)), reach |-> 0,
     lat |-> Middle(Lats(points)), span |-> 0]

(***************************************************************************)
(* Leaflet's fitBounds, in whole degrees: the least view with the points   *)
(* (Leaflet, whose zooms are whole numbers, may take a larger one).        *)
(***************************************************************************)
FitBounds(points) ==
    [centre |-> Middle(Lngs(points)),
     reach  |-> Middle(Lngs(points)) - Min(Lngs(points)),
     lat    |-> Middle(Lats(points)),
     span   |-> Middle(Lats(points)) - Min(Lats(points))]

\* sitePoints: the places of the sites east of Greenwich.
SitePoints(S) == {<<LatOf[s], LngOf[s]>> : s \in {s \in S : LngOf[s] > 0}}

InitBaseMap ==
    /\ view = HomeView
    /\ layers = [p \in Params |-> NoLayer]
    /\ allSiteMarkers = {}

(***************************************************************************)
(* The sites S are shown as those of parameter key.  The markers are put   *)
(* where the view before the call wants them; then the map is moved.       *)
(***************************************************************************)
ShowSitesDataOnMap(key, S) ==
    LET fresh == CheckFeatureLocation([NoLayer EXCEPT !.sites = S], view, TRUE)
        shown == [ClearOverlayers(layers) EXCEPT ![key] = fresh]
        points == SitePoints(S)
    IN  /\ view' = IF points # {} THEN FitBounds(points) ELSE HomeView
        /\ layers' = Moveend(shown, view')
        /\ allSiteMarkers' = S

(***************************************************************************)
(* The user drags or zooms the map, or Leaflet pans it.                    *)
(***************************************************************************)
MoveMap(v) ==
    /\ v # view
    /\ view' = v
    /\ layers' = Moveend(layers, v)
    /\ UNCHANGED allSiteMarkers

MapNext ==
    \/ \E key, p \in Params : ShowSitesDataOnMap(key, SitesOf[p])
    \/ \E v \in Views : MoveMap(v)

MapSpec == InitBaseMap /\ [][MapNext]_mapVars

----------------------------------------------------------------------------
MapTypeOK ==
    /\ view \in View
    /\ layers \in [Params -> Layer]
    /\ allSiteMarkers \in SUBSET Sites

(***************************************************************************)
(* However often the map is dragged across the date line, the patch leaves *)
(* a marker at the longitude of its site or one turn to the other side: it *)
(* adds a turn relative to where the marker is, never to where it was.     *)
(***************************************************************************)
NoDrift ==
    \A p \in Params : \A s \in layers[p].sites :
        LET lng == layers[p].at[s]
        IN  lng = LngOf[s] \/ lng = LngOf[s] - 360 * Sign(LngOf[s])

(***************************************************************************)
(* The layers of the parameters chosen before stay on the map, but they    *)
(* are empty: a site has one marker, in one layer, and the markers a popup *)
(* can be asked for are those on the map.                                  *)
(***************************************************************************)
OneLayerOfMarkers ==
    /\ \A p, q \in Params : p # q => layers[p].sites = {} \/ layers[q].sites = {}
    /\ allSiteMarkers = UNION {layers[p].sites : p \in Params}

(***************************************************************************)
(* "check layer location for dateline issues on map move": a marker that   *)
(* has a copy in the view, a turn to either side, is in the view itself.   *)
(* This is what the layer gives to a page that listens for moveend.        *)
(***************************************************************************)
SeenIfSeeable ==
    \A p \in Params : \A s \in layers[p].sites : \A turn \in {-360, 0, 360} :
        Contains(view, LatOf[s], LngOf[s] + turn) =>
            Contains(view, LatOf[s], layers[p].at[s])

(***************************************************************************)
(* "zoom the map to the polyline": the sites east of Greenwich for which   *)
(* the map is zoomed are there to be seen.  Their markers are put in place *)
(* before the map moves: without the hook that takes a map that was        *)
(* centred on an eastern longitude when the sites came.                    *)
(***************************************************************************)
ZoomedToMarkers ==
    [][\A key \in Params : \A S \in {SitesOf[p] : p \in Params} :
          (Hooked \/ view.centre > 0) /\ ShowSitesDataOnMap(key, S) =>
              \A s \in S : LngOf[s] > 0 =>
                  Contains(view, LatOf[s], layers[key].at[s])']_mapVars

(***************************************************************************)
(* Views whose longitudes keep to one side of Greenwich and to one turn.   *)
(***************************************************************************)
Sided(v) ==
    \/ 0 < v.centre - v.reach /\ v.centre + v.reach < 360
    \/ -360 < v.centre - v.reach /\ v.centre + v.reach < 0

DatelineViews == Sided(HomeView) /\ \A v \in Views : Sided(v)
============================================================================
