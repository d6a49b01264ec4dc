------------------------- MODULE FitsSiteMapProofs -------------------------
(***************************************************************************)
(* Proofs about FitsSiteMap: markers never drift, there is one set of      *)
(* them, and with the hook of checkMapLayerLocations every marker that has *)
(* a copy in the view is in the view.  The last rests on SideInv: a marker *)
(* is on the side of the date line the map is centred on.                  *)
(***************************************************************************)
EXTENDS FitsSiteMap, WellFoundedInduction, TLAPS

\* A layer that has never been checked has no markers.
FreshIsEmpty == \A p \in Params : layers[p].sign = 0 => layers[p].sites = {}

MapInv ==
    /\ MapTypeOK
    /\ FreshIsEmpty
    /\ NoDrift
    /\ OneLayerOfMarkers

\* The markers of a layer are where the centre of the map wants them.
OnSide(layer, v) ==
    /\ layer.sign = Sign(v.centre)
    /\ \A s \in layer.sites : Sign(layer.at[s]) = Sign(v.centre)

SideInv ==
    /\ Sided(view)
    /\ \A p \in Params : layers[p].sign # 0 => OnSide(layers[p], view)

(***************************************************************************)
(* The view that fitBounds makes.                                          *)
(***************************************************************************)

\* A bounded set of integers has a least and a greatest element.
LEMMA MinMax ==
    ASSUME NEW a \in Int, NEW b \in Int, NEW P \in SUBSET (a .. b), P # {}
    PROVE  /\ Min(P) \in P /\ \A x \in P : Min(P) <= x
           /\ Max(P) \in P /\ \A x \in P : x <= Max(P)
<1> DEFINE Less == OpToRel(<, Nat)
           Q == {b - x : x \in P}
           R == {x - a : x \in P}
<1>1. IsWellFoundedOn(Less, Nat)
    BY NatLessThanWellFounded
<1>2. ASSUME NEW T \in SUBSET Nat, T # {}
      PROVE  \E x \in T : \A y \in T : x <= y
    <2>1. PICK x \in T : \A y \in T : <<y, x>> \notin Less
        BY <1>1, <1>2, WFMin
    <2>2. ASSUME NEW y \in T PROVE x <= y
        <3>1. <<y, x>> \notin Less /\ x \in Nat /\ y \in Nat
            BY <2>1
        <3>2. QED
            BY <3>1 DEF OpToRel
    <2>3. QED
        BY <2>2
<1>3. \E x \in P : \A y \in P : x <= y
    <2>1. R \in SUBSET Nat /\ R # {}
        <3>1. PICK x \in P : TRUE
            OBVIOUS
        <3>2. x - a \in R
            BY <3>1
        <3>3. ASSUME NEW q \in R PROVE q \in Nat
            <4>1. PICK y \in P : q = y - a
                OBVIOUS
            <4>2. y \in a .. b
                OBVIOUS
            <4>3. QED
                BY <4>1, <4>2
        <3>4. QED
            BY <3>2, <3>3
    <2>2. PICK m \in R : \A y \in R : m <= y
        BY <1>2, <2>1
    <2>3. PICK x \in P : m = x - a
        OBVIOUS
    <2>4. ASSUME NEW y \in P PROVE x <= y
        <3>1. y - a \in R /\ x \in Int /\ y \in Int
            OBVIOUS
        <3>2. x - a <= y - a
            BY <2>2, <2>3, <3>1
        <3>3. QED
            BY <3>1, <3>2
    <2>5. QED
        BY <2>4
<1>4. \E x \in P : \A y \in P : x >= y
    <2>1. Q \in SUBSET Nat /\ Q # {}
        <3>1. PICK x \in P : TRUE
            OBVIOUS
        <3>2. b - x \in Q
            BY <3>1
        <3>3. ASSUME NEW q \in Q PROVE q \in Nat
            <4>1. PICK y \in P : q = b - y
                OBVIOUS
            <4>2. y \in a .. b
                OBVIOUS
            <4>3. QED
                BY <4>1, <4>2
        <3>4. QED
            BY <3>2, <3>3
    <2>2. PICK m \in Q : \A y \in Q : m <= y
        BY <1>2, <2>1
    <2>3. PICK x \in P : m = b - x
        OBVIOUS
    <2>4. ASSUME NEW y \in P PROVE x >= y
        <3>1. b - y \in Q /\ x \in Int /\ y \in Int
            OBVIOUS
        <3>2. b - x <= b - y
            BY <2>2, <2>3, <3>1
        <3>3. QED
            BY <3>1, <3>2
    <2>5. QED
        BY <2>4
<1>5. Min(P) \in P /\ \A x \in P : Min(P) <= x
    BY <1>3 DEF Min
<1>6. Max(P) \in P /\ \A x \in P : Max(P) >= x
    BY <1>4 DEF Max
<1>7. QED
    BY <1>5, <1>6

\* The middle of a set between a and b is as far from its greatest element as
\* from its least, or nearer.
Halved(P, a, b) ==
    /\ Min(P) \in a .. b /\ Middle(P) \in a .. b
    /\ Middle(P) - Min(P) \in Nat
    /\ 2 * Middle(P) <= Min(P) + b + 1
    /\ \A x \in P : Min(P) <= x /\ x <= Middle(P) + (Middle(P) - Min(P))

LEMMA MiddleOf ==
    ASSUME NEW a \in Int, NEW b \in Int, NEW P \in SUBSET (a .. b), P # {}
    PROVE  Halved(P, a, b)
<1> DEFINE lo == Min(P)
           hi == Max(P)
<1>1. lo \in P /\ hi \in P /\ \A x \in P : lo <= x /\ x <= hi
    BY MinMax
<1>2. lo \in a .. b /\ hi \in a .. b /\ lo <= hi
    BY <1>1
<1>3. Middle(P) = (lo + hi + 1) \div 2
    BY DEF Middle
<1> HIDE DEF lo, hi
<1>4. /\ Middle(P) \in Int /\ 2 * Middle(P) >= lo + hi /\ 2 * Middle(P) <= lo + hi + 1
      /\ lo <= Middle(P) /\ Middle(P) <= hi
    BY <1>2, <1>3
<1>5. ASSUME NEW x \in P PROVE lo <= x /\ x <= Middle(P) + (Middle(P) - lo)
    BY <1>1, <1>2, <1>4
<1>6. /\ lo \in a .. b /\ Middle(P) \in a .. b /\ Middle(P) - lo \in Nat
      /\ 2 * Middle(P) <= lo + b + 1
    BY <1>2, <1>4
<1>7. QED
    BY <1>5, <1>6 DEF lo, Halved

\* The least view with the given latitudes and eastern longitudes.
LEMMA LeastView ==
    ASSUME NEW A \in SUBSET (-90 .. 90), A # {}, NEW G \in SUBSET (1 .. 180), G # {},
           NEW v, v = [centre |-> Middle(G), reach |-> Middle(G) - Min(G),
                       lat |-> Middle(A), span |-> Middle(A) - Min(A)]
    PROVE  /\ v \in View /\ v.centre > 0 /\ Sided(v)
           /\ \A lat \in A, lng \in G : Contains(v, lat, lng)
<1> DEFINE west == Min(G)
           mid == Middle(G)
           south == Min(A)
           height == Middle(A)
<1>1. v = [centre |-> mid, reach |-> mid - west,
           lat |-> height, span |-> height - south]
    OBVIOUS
<1>2. /\ west \in 1 .. 180 /\ mid \in 1 .. 180 /\ mid - west \in Nat
      /\ 2 * mid <= west + 180 + 1
      /\ \A x \in G : west <= x /\ x <= mid + (mid - west)
    <2>1. 1 \in Int /\ 180 \in Int
        OBVIOUS
    <2>2. Halved(G, 1, 180)
        BY <2>1, MiddleOf, Zenon
    <2>3. QED
        BY <2>2 DEF Halved
<1>3. /\ south \in -90 .. 90 /\ height \in -90 .. 90 /\ height - south \in Nat
      /\ \A x \in A : south <= x /\ x <= height + (height - south)
    <2> DEFINE n == -90
    <2>1. n \in Int /\ 90 \in Int /\ A \in SUBSET (n .. 90)
        OBVIOUS
    <2>2. n = -90
        OBVIOUS
    <2> HIDE DEF n
    <2>3. Halved(A, n, 90)
        BY <2>1, MiddleOf, Zenon
    <2>4. QED
        BY <2>2, <2>3 DEF Halved
<1> HIDE DEF west, mid, south, height
<1>4. v \in View /\ v.centre > 0
    BY <1>1, <1>2, <1>3 DEF View
<1>5. Sided(v)
    BY <1>1, <1>2 DEF Sided
<1>6. ASSUME NEW lat \in A, NEW lng \in G PROVE Contains(v, lat, lng)
    <2>1. lng \in Int /\ west <= lng /\ lng <= mid + (mid - west)
        BY <1>2
    <2>2. lat \in Int /\ south <= lat /\ lat <= height + (height - south)
        BY <1>3
    <2>3. QED
        BY <1>1, <1>2, <1>3, <2>1, <2>2 DEF Contains
<1>7. QED
    BY <1>4, <1>5, <1>6

\* It holds the points, and nothing west of Greenwich or a turn further.
LEMMA FitBoundsView ==
    ASSUME NEW S \in SUBSET Sites, SitePoints(S) # {}
    PROVE  /\ FitBounds(SitePoints(S)) \in View
           /\ FitBounds(SitePoints(S)).centre > 0
           /\ Sided(FitBounds(SitePoints(S)))
           /\ \A s \in S : LngOf[s] > 0 =>
                  Contains(FitBounds(SitePoints(S)), LatOf[s], LngOf[s])
<1> DEFINE P == SitePoints(S)
           A == Lats(P)
           G == Lngs(P)
           v == FitBounds(P)
<1>1. /\ A \in SUBSET (-90 .. 90) /\ A # {}
      /\ G \in SUBSET (1 .. 180) /\ G # {}
    <2>1. ASSUME NEW q \in P PROVE q[1] \in -90 .. 90 /\ q[2] \in 1 .. 180
        <3>1. PICK s \in S : LngOf[s] > 0 /\ q = <<LatOf[s], LngOf[s]>>
            BY DEF SitePoints
        <3>2. LatOf[s] \in -90 .. 90 /\ LngOf[s] \in 1 .. 180
            BY <3>1, SitesAssumption
        <3>3. QED
            BY <3>1, <3>2
    <2>2. PICK q \in P : TRUE
        OBVIOUS
    <2> HIDE DEF P
    <2>3. QED
        BY <2>1, <2>2 DEF Lats, Lngs
<1>2. ASSUME NEW s \in S, LngOf[s] > 0 PROVE LatOf[s] \in A /\ LngOf[s] \in G
    <2>1. <<LatOf[s], LngOf[s]>> \in P
        BY <1>2 DEF SitePoints
    <2> HIDE DEF P
    <2>2. QED
        BY <2>1 DEF Lats, Lngs
<1>3. v = [centre |-> Middle(G), reach |-> Middle(G) - Min(G),
           lat |-> Middle(A), span |-> Middle(A) - Min(A)]
    BY DEF FitBounds
<1> HIDE DEF P, A, G, v
<1>4. /\ v \in View /\ v.centre > 0 /\ Sided(v)
      /\ \A lat \in A, lng \in G : Contains(v, lat, lng)
    BY <1>1, <1>3, LeastView, Zenon
<1>5. \A s \in S : LngOf[s] > 0 => Contains(v, LatOf[s], LngOf[s])
    BY <1>2, <1>4
<1>6. QED
    BY <1>4, <1>5 DEF P, v

(***************************************************************************)
(* What checkFeatureLocation does to a layer.                              *)
(***************************************************************************)

LEMMA CheckType ==
    ASSUME NEW l \in Layer, NEW v \in View, NEW force \in BOOLEAN
    PROVE  /\ CheckFeatureLocation(l, v, force) \in Layer
           /\ CheckFeatureLocation(l, v, force).sites = l.sites
           /\ CheckFeatureLocation(l, v, force).sign = Sign(v.centre)
           /\ Sign(v.centre) \in {-1, 1}
<1>1. Sign(v.centre) \in {-1, 1}
    BY DEF Sign
<1>2. ASSUME NEW lat, NEW lng \in Int PROVE Moved(v, lat, lng) \in Int
    BY <1>1 DEF Moved
<1>3. QED
    BY <1>1, <1>2 DEF CheckFeatureLocation, Layer

\* The same, for a check that an event asks for.
LEMMA EventCheckType ==
    ASSUME NEW l \in Layer, NEW v \in View
    PROVE  /\ CheckFeatureLocation(l, v, FALSE) \in Layer
           /\ CheckFeatureLocation(l, v, FALSE).sites = l.sites
           /\ CheckFeatureLocation(l, v, FALSE).sign = Sign(v.centre)
           /\ CheckFeatureLocation(l, v, FALSE).sign # 0
<1> DEFINE k == CheckFeatureLocation(l, v, FALSE)
<1>1. Sign(v.centre) \in {-1, 1}
    BY DEF Sign
<1>2. ASSUME NEW lat, NEW lng \in Int PROVE Moved(v, lat, lng) \in Int
    BY <1>1 DEF Moved
<1>3. k \in Layer
    BY <1>1, <1>2 DEF CheckFeatureLocation, Layer
<1>4. k.sites = l.sites /\ k.sign = Sign(v.centre)
    BY DEF CheckFeatureLocation, Layer
<1> HIDE DEF k
<1>5. /\ k \in Layer
      /\ k.sites = l.sites
      /\ k.sign = Sign(v.centre)
      /\ k.sign # 0
    BY <1>1, <1>3, <1>4
<1>6. QED
    BY <1>5, Zenon DEF k

\* The place of a marker after a check, in a layer that has the site.
LEMMA CheckPlace ==
    ASSUME NEW l \in Layer, NEW v \in View, NEW force \in BOOLEAN, NEW s \in l.sites
    PROVE  LET at == CheckFeatureLocation(l, v, force).at[s]
           IN  IF force \/ CentreChanged(l, v)
               THEN at = Moved(v, LatOf[s], l.at[s])
               ELSE at = l.at[s]
<1>1. s \in Sites
    BY DEF Layer
<1>2. QED
    BY <1>1 DEF CheckFeatureLocation, Layer

\* Where a marker may be: at its site, or a turn to the other side.
Placed(l) ==
    \A s \in l.sites : \/ l.at[s] = LngOf[s]
                       \/ l.at[s] = LngOf[s] - 360 * Sign(LngOf[s])

LEMMA CheckPlaced ==
    ASSUME NEW l \in Layer, NEW v \in View, NEW force \in BOOLEAN, Placed(l)
    PROVE  Placed(CheckFeatureLocation(l, v, force))
<1> DEFINE k == CheckFeatureLocation(l, v, force)
<1>1. ASSUME NEW s \in l.sites
      PROVE  \/ k.at[s] = LngOf[s]
             \/ k.at[s] = LngOf[s] - 360 * Sign(LngOf[s])
    <2>1. s \in Sites /\ LngOf[s] \in (-180 .. 180) \ {0}
        BY SitesAssumption DEF Layer
    <2>2. k.at[s] = Moved(v, LatOf[s], l.at[s]) \/ k.at[s] = l.at[s]
        BY CheckPlace
    <2>3. \/ l.at[s] = LngOf[s]
          \/ l.at[s] = LngOf[s] - 360 * Sign(LngOf[s])
        BY DEF Placed
    <2>4. v.centre \in Int
        BY DEF View
    <2>5. CASE LngOf[s] > 0
        BY <2>1, <2>2, <2>3, <2>4, <2>5 DEF Moved, Sign
    <2>6. CASE LngOf[s] < 0
        BY <2>1, <2>2, <2>3, <2>4, <2>6 DEF Moved, Sign
    <2>7. QED
        BY <2>1, <2>5, <2>6
<1>2. k.sites = l.sites
    BY CheckType
<1>3. QED
    BY <1>1, <1>2 DEF Placed

\* The new layer of showSitesDataOnMap.
Fresh(S, v) == CheckFeatureLocation([NoLayer EXCEPT !.sites = S], v, TRUE)

LEMMA NoLayerType == NoLayer \in Layer /\ Placed(NoLayer)
<1>1. LngOf \in [Sites -> Int]
    BY SitesAssumption
<1>2. QED
    BY <1>1, ViewsAssumption DEF NoLayer, Layer, Placed

LEMMA FreshType ==
    ASSUME NEW S \in SUBSET Sites, NEW v \in View
    PROVE  /\ Fresh(S, v) \in Layer
           /\ Fresh(S, v).sites = S
           /\ Fresh(S, v).sign = Sign(v.centre)
           /\ Fresh(S, v).sign # 0
           /\ Placed(Fresh(S, v))
           /\ \A s \in S : Fresh(S, v).at[s] = Moved(v, LatOf[s], LngOf[s])
<1> DEFINE l == [NoLayer EXCEPT !.sites = S]
<1>1. l \in Layer /\ l.sites = S /\ l.at = LngOf
    BY NoLayerType DEF Layer, NoLayer
<1>2. Placed(l)
    BY <1>1 DEF Placed
<1>3. ASSUME NEW s \in S PROVE Fresh(S, v).at[s] = Moved(v, LatOf[s], LngOf[s])
    BY <1>1, CheckPlace DEF Fresh
<1>4. Fresh(S, v) = CheckFeatureLocation(l, v, TRUE)
    BY DEF Fresh
<1> HIDE DEF l
<1>5. /\ Fresh(S, v) \in Layer
      /\ Fresh(S, v).sites = S
      /\ Fresh(S, v).sign = Sign(v.centre)
      /\ Sign(v.centre) \in {-1, 1}
    <2>1. l \in Layer /\ TRUE \in BOOLEAN
        BY <1>1
    <2>2. /\ CheckFeatureLocation(l, v, TRUE) \in Layer
          /\ CheckFeatureLocation(l, v, TRUE).sites = l.sites
          /\ CheckFeatureLocation(l, v, TRUE).sign = Sign(v.centre)
          /\ Sign(v.centre) \in {-1, 1}
        BY <2>1, CheckType, Zenon
    <2>3. QED
        BY <1>1, <1>4, <2>2
<1>6. Placed(Fresh(S, v))
    BY <1>1, <1>2, <1>4, CheckPlaced
<1>7. Fresh(S, v).sign # 0
    BY <1>5
<1>8. QED
    BY <1>3, <1>5, <1>6, <1>7

(***************************************************************************)
(* What the steps do to the layers.                                        *)
(***************************************************************************)

LEMMA MoveendLayers ==
    ASSUME NEW ls \in [Params -> Layer], NEW v \in View,
           \A p \in Params : Placed(ls[p])
    PROVE  /\ Moveend(ls, v) \in [Params -> Layer]
           /\ \A p \in Params :
                 /\ Moveend(ls, v)[p].sites = ls[p].sites
                 /\ Moveend(ls, v)[p].sign = 0 <=> ls[p].sign = 0
                 /\ Placed(Moveend(ls, v)[p])
<1>1. ASSUME NEW p \in Params
      PROVE  /\ CheckFeatureLocation(ls[p], v, FALSE) \in Layer
             /\ CheckFeatureLocation(ls[p], v, FALSE).sites = ls[p].sites
             /\ CheckFeatureLocation(ls[p], v, FALSE).sign # 0
             /\ Placed(CheckFeatureLocation(ls[p], v, FALSE))
    <2>1. ls[p] \in Layer /\ Placed(ls[p])
        OBVIOUS
    <2>2. Placed(CheckFeatureLocation(ls[p], v, FALSE))
        BY <2>1, CheckPlaced
    <2>3. /\ CheckFeatureLocation(ls[p], v, FALSE) \in Layer
          /\ CheckFeatureLocation(ls[p], v, FALSE).sites = ls[p].sites
          /\ CheckFeatureLocation(ls[p], v, FALSE).sign # 0
        BY <2>1, EventCheckType
    <2>4. QED
        BY <2>2, <2>3
<1>2. QED
    BY <1>1 DEF Moveend

\* The layers when new sites have been put on the map and before it moves.
Shown(key, S) == [ClearOverlayers(layers) EXCEPT ![key] = Fresh(S, view)]

LEMMA ShownLayers ==
    ASSUME NEW key \in Params, NEW S \in SUBSET Sites, view \in View
    PROVE  /\ Shown(key, S) \in [Params -> Layer]
           /\ Shown(key, S)[key] = Fresh(S, view)
           /\ \A p \in Params : p # key => Shown(key, S)[p] = NoLayer
           /\ \A p \in Params : Placed(Shown(key, S)[p])
BY NoLayerType, FreshType DEF Shown, ClearOverlayers

LEMMA NextView ==
    ASSUME NEW key \in Params, NEW S \in SUBSET Sites,
           ShowSitesDataOnMap(key, S)
    PROVE  view' \in View /\ view'.centre > 0
<1>1. CASE SitePoints(S) # {}
    BY <1>1, FitBoundsView DEF ShowSitesDataOnMap
<1>2. CASE SitePoints(S) = {}
    BY <1>2, ViewsAssumption DEF ShowSitesDataOnMap
<1>3. QED
    BY <1>1, <1>2

LEMMA ShowLayers ==
    ASSUME NEW key \in Params, NEW S \in SUBSET Sites, view \in View,
           ShowSitesDataOnMap(key, S)
    PROVE  layers' = Moveend(Shown(key, S), view') /\ allSiteMarkers' = S
BY DEF ShowSitesDataOnMap, Shown, Fresh

(***************************************************************************)
(* Types, drift and the one set of markers.                                *)
(***************************************************************************)

LEMMA InitInv == InitBaseMap => MapInv
<1> SUFFICES ASSUME InitBaseMap PROVE MapInv
    OBVIOUS
<1>1. \A p \in Params : layers[p] = NoLayer /\ layers[p].sites = {}
    BY DEF InitBaseMap, NoLayer
<1>2. MapTypeOK
    BY NoLayerType, ViewsAssumption DEF InitBaseMap, MapTypeOK
<1>3. FreshIsEmpty /\ NoDrift
    BY <1>1 DEF FreshIsEmpty, NoDrift
<1>4. OneLayerOfMarkers
    BY <1>1 DEF InitBaseMap, OneLayerOfMarkers
<1>5. QED
    BY <1>2, <1>3, <1>4 DEF MapInv

LEMMA ShowInv ==
    ASSUME NEW key \in Params, NEW S \in SUBSET Sites, MapInv,
           ShowSitesDataOnMap(key, S)
    PROVE  MapInv'
<1> DEFINE ls == Shown(key, S)
<1>1. view \in View /\ view' \in View
    BY NextView DEF MapInv, MapTypeOK
<1>2. layers' = Moveend(ls, view') /\ allSiteMarkers' = S
    BY <1>1, ShowLayers
<1>3. /\ ls \in [Params -> Layer]
      /\ ls[key] = Fresh(S, view)
      /\ \A p \in Params : p # key => ls[p] = NoLayer
      /\ \A p \in Params : Placed(ls[p])
    BY <1>1, ShownLayers
<1>4. ls[key].sites = S /\ ls[key].sign # 0
    <2>1. Fresh(S, view).sites = S /\ Fresh(S, view).sign # 0
        BY <1>1, FreshType
    <2>2. ls[key] = Fresh(S, view)
        BY <1>3
    <2> HIDE DEF ls
    <2>3. QED
        BY <2>1, <2>2
<1>5. \A p \in Params : p # key => ls[p].sites = {}
    BY <1>3 DEF NoLayer
<1> HIDE DEF ls
<1>6. /\ layers' \in [Params -> Layer]
      /\ \A p \in Params : /\ layers'[p].sites = ls[p].sites
                           /\ layers'[p].sign = 0 <=> ls[p].sign = 0
                           /\ Placed(layers'[p])
    BY <1>1, <1>2, <1>3, MoveendLayers
<1>7. MapTypeOK'
    BY <1>1, <1>2, <1>6 DEF MapTypeOK
<1>8. FreshIsEmpty'
    BY <1>4, <1>5, <1>6 DEF FreshIsEmpty
<1>9. NoDrift'
    BY <1>6 DEF NoDrift, Placed
<1>10. \A p \in Params : layers'[p].sites = IF p = key THEN S ELSE {}
    BY <1>4, <1>5, <1>6
<1>11. OneLayerOfMarkers'
    BY <1>2, <1>10 DEF OneLayerOfMarkers
<1>12. QED
    BY <1>7, <1>8, <1>9, <1>11 DEF MapInv

LEMMA MoveInv ==
    ASSUME NEW v \in Views, MapInv, MoveMap(v)
    PROVE  MapInv'
<1>1. v \in View /\ view' = v /\ layers' = Moveend(layers, v)
      /\ allSiteMarkers' = allSiteMarkers
    BY ViewsAssumption DEF MoveMap
<1>2. layers \in [Params -> Layer] /\ \A p \in Params : Placed(layers[p])
    BY DEF MapInv, MapTypeOK, NoDrift, Placed
<1>3. /\ layers' \in [Params -> Layer]
      /\ \A p \in Params : /\ layers'[p].sites = layers[p].sites
                           /\ layers'[p].sign = 0 <=> layers[p].sign = 0
                           /\ Placed(layers'[p])
    BY <1>1, <1>2, MoveendLayers
<1>4. MapTypeOK'
    BY <1>1, <1>3 DEF MapInv, MapTypeOK
<1>5. FreshIsEmpty'
    BY <1>3 DEF MapInv, FreshIsEmpty
<1>6. NoDrift'
    BY <1>3 DEF NoDrift, Placed
<1>7. OneLayerOfMarkers'
    BY <1>1, <1>3 DEF MapInv, OneLayerOfMarkers
<1>8. QED
    BY <1>4, <1>5, <1>6, <1>7 DEF MapInv

LEMMA MapInvStep == MapInv /\ [MapNext]_mapVars => MapInv'
<1> SUFFICES ASSUME MapInv, [MapNext]_mapVars PROVE MapInv'
    OBVIOUS
<1>1. CASE \E key, p \in Params : ShowSitesDataOnMap(key, SitesOf[p])
    <2>1. PICK key \in Params, p \in Params : ShowSitesDataOnMap(key, SitesOf[p])
        BY <1>1
    <2>2. SitesOf[p] \in SUBSET Sites
        BY SitesAssumption
    <2>3. QED
        BY <2>1, <2>2, ShowInv
<1>2. CASE \E v \in Views : MoveMap(v)
    BY <1>2, MoveInv
<1>3. CASE UNCHANGED mapVars
    BY <1>3 DEF mapVars, MapInv, MapTypeOK, FreshIsEmpty, NoDrift, OneLayerOfMarkers
<1>4. QED
    BY <1>1, <1>2, <1>3 DEF MapNext

\* Every state of the map has the invariant.
THEOREM MapInvariant == MapSpec => []MapInv
<1>1. QED
    BY InitInv, MapInvStep, PTL DEF MapSpec

\* The variables of the map keep their types.
THEOREM TypeCorrect == MapSpec => []MapTypeOK
<1>1. MapInv => MapTypeOK
    BY DEF MapInv
<1>2. QED
    BY <1>1, MapInvariant, PTL

\* However the map is dragged, with the hook or without, the patch leaves a
\* marker at its site or one turn to the other side.
THEOREM MarkersNeverDrift == MapSpec => []NoDrift
<1>1. MapInv => NoDrift
    BY DEF MapInv
<1>2. QED
    BY <1>1, MapInvariant, PTL

\* A site has at most one marker on the map, and it is the one a popup can
\* be asked for.
THEOREM OneSetOfMarkers == MapSpec => []OneLayerOfMarkers
<1>1. MapInv => OneLayerOfMarkers
    BY DEF MapInv
<1>2. QED
    BY <1>1, MapInvariant, PTL

(***************************************************************************)
(* With the hook: the markers are on the side of the centre.               *)
(***************************************************************************)

\* In a view that is sided, a place in view is on the side of the centre.
LEMMA InViewOnSide ==
    ASSUME NEW v \in View, Sided(v), NEW lat, NEW lng \in Int, Contains(v, lat, lng)
    PROVE  Sign(lng) = Sign(v.centre)
BY DEF View, Sided, Contains, Sign

\* A marker that is placed belongs to the side it is moved to.
LEMMA MovedOnSide ==
    ASSUME NEW l \in Layer, Placed(l), NEW v \in View, Sided(v), NEW s \in l.sites
    PROVE  Sign(Moved(v, LatOf[s], l.at[s])) = Sign(v.centre)
<1>1. s \in Sites /\ LngOf[s] \in (-180 .. 180) \ {0} /\ l.at[s] \in Int
    BY SitesAssumption DEF Layer
<1>2. \/ l.at[s] = LngOf[s]
      \/ l.at[s] = LngOf[s] - 360 * Sign(LngOf[s])
    BY DEF Placed
<1>3. CASE Contains(v, LatOf[s], l.at[s]) \/ Sign(l.at[s]) = Sign(v.centre)
    BY <1>1, <1>3, InViewOnSide DEF Moved
<1>4. CASE ~(Contains(v, LatOf[s], l.at[s]) \/ Sign(l.at[s]) = Sign(v.centre))
    <2>1. Moved(v, LatOf[s], l.at[s]) = Sign(v.centre) * 360 + l.at[s]
        BY <1>4 DEF Moved
    <2>2. Sign(l.at[s]) # Sign(v.centre) /\ v.centre \in Int
        BY <1>4 DEF View
    <2>3. CASE LngOf[s] > 0
        BY <1>1, <1>2, <2>1, <2>2, <2>3 DEF Sign
    <2>4. CASE LngOf[s] < 0
        BY <1>1, <1>2, <2>1, <2>2, <2>4 DEF Sign
    <2>5. QED
        BY <1>1, <2>3, <2>4
<1>5. QED
    BY <1>3, <1>4

\* A check of a layer on the side of an earlier view puts it on the side of
\* the new one, whether the markers are looked at or not.
LEMMA CheckOnSide ==
    ASSUME NEW l \in Layer, Placed(l), NEW v \in View, Sided(v), NEW force \in BOOLEAN,
           force \/ (\A s \in l.sites : Sign(l.at[s]) = l.sign)
    PROVE  OnSide(CheckFeatureLocation(l, v, force), v)
<1> DEFINE k == CheckFeatureLocation(l, v, force)
<1>1. k.sites = l.sites /\ k.sign = Sign(v.centre)
    BY CheckType
<1>2. ASSUME NEW s \in l.sites PROVE Sign(k.at[s]) = Sign(v.centre)
    <2>1. CASE force \/ CentreChanged(l, v)
        <3>1. k.at[s] = Moved(v, LatOf[s], l.at[s])
            BY <2>1, CheckPlace
        <3>2. QED
            BY <3>1, MovedOnSide
    <2>2. CASE ~(force \/ CentreChanged(l, v))
        <3>1. k.at[s] = l.at[s]
            BY <2>2, CheckPlace
        <3>2. l.sign = Sign(v.centre) /\ Sign(l.at[s]) = l.sign
            BY <2>2 DEF CentreChanged
        <3>3. QED
            BY <3>1, <3>2
    <2>3. QED
        BY <2>1, <2>2
<1> HIDE DEF k
<1>3. OnSide(k, v)
    BY <1>1, <1>2 DEF OnSide
<1>4. QED
    BY <1>3 DEF k

LEMMA MoveendOnSide ==
    ASSUME Hooked, NEW ls \in [Params -> Layer], NEW v \in View, Sided(v),
           \A p \in Params : Placed(ls[p]),
           \A p \in Params : ls[p].sign # 0 =>
               \A s \in ls[p].sites : Sign(ls[p].at[s]) = ls[p].sign
    PROVE  \A p \in Params : Moveend(ls, v)[p].sign # 0 =>
               OnSide(Moveend(ls, v)[p], v)
<1>1. ASSUME NEW p \in Params, Moveend(ls, v)[p].sign # 0
      PROVE  OnSide(Moveend(ls, v)[p], v)
    <2>1. ls[p].sign # 0
        BY <1>1, MoveendLayers
    <2>2. Moveend(ls, v)[p] = CheckFeatureLocation(ls[p], v, FALSE)
        BY <2>1 DEF Moveend
    <2>3. ls[p] \in Layer /\ Placed(ls[p])
        OBVIOUS
    <2>4. OnSide(CheckFeatureLocation(ls[p], v, FALSE), v)
        BY <2>1, <2>3, CheckOnSide
    <2>5. QED
        BY <2>2, <2>4
<1>2. QED
    BY <1>1

LEMMA ShowSide ==
    ASSUME Hooked, DatelineViews, MapInv, SideInv,
           NEW key \in Params, NEW S \in SUBSET Sites, ShowSitesDataOnMap(key, S)
    PROVE  SideInv'
<1> DEFINE ls == Shown(key, S)
           l == [NoLayer EXCEPT !.sites = S]
<1>1. view \in View /\ view' \in View /\ Sided(view)
    BY NextView DEF MapInv, MapTypeOK, SideInv
<1>2. Sided(view')
    <2>1. CASE SitePoints(S) # {}
        BY <2>1, FitBoundsView DEF ShowSitesDataOnMap
    <2>2. CASE SitePoints(S) = {}
        BY <2>2 DEF ShowSitesDataOnMap, DatelineViews
    <2>3. QED
        BY <2>1, <2>2
<1>3. /\ ls \in [Params -> Layer]
      /\ ls[key] = Fresh(S, view)
      /\ \A p \in Params : p # key => ls[p] = NoLayer
      /\ \A p \in Params : Placed(ls[p])
    BY <1>1, ShownLayers
<1>4. OnSide(Fresh(S, view), view)
    <2>1. l \in Layer /\ Placed(l)
        BY NoLayerType DEF Layer, NoLayer, Placed
    <2>2. Fresh(S, view) = CheckFeatureLocation(l, view, TRUE)
        BY DEF Fresh
    <2> HIDE DEF l
    <2>3. QED
        BY <1>1, <2>1, <2>2, CheckOnSide
<1> HIDE DEF ls
<1>5. ASSUME NEW p \in Params, ls[p].sign # 0
      PROVE  \A s \in ls[p].sites : Sign(ls[p].at[s]) = ls[p].sign
    <2>1. p = key
        BY <1>3, <1>5 DEF NoLayer
    <2>2. QED
        BY <1>3, <1>4, <2>1 DEF OnSide
<1>6. layers' = Moveend(ls, view')
    BY <1>1, ShowLayers DEF ls
<1>7. \A p \in Params : layers'[p].sign # 0 => OnSide(layers'[p], view')
    BY <1>1, <1>2, <1>3, <1>5, <1>6, MoveendOnSide
<1>8. QED
    BY <1>2, <1>7 DEF SideInv, OnSide

LEMMA MoveSide ==
    ASSUME Hooked, DatelineViews, MapInv, SideInv, NEW v \in Views, MoveMap(v)
    PROVE  SideInv'
<1>1. v \in View /\ view' = v /\ layers' = Moveend(layers, v) /\ Sided(v)
    BY ViewsAssumption DEF MoveMap, DatelineViews
<1>2. layers \in [Params -> Layer] /\ \A p \in Params : Placed(layers[p])
    BY DEF MapInv, MapTypeOK, NoDrift, Placed
<1>3. \A p \in Params : layers[p].sign # 0 =>
          \A s \in layers[p].sites : Sign(layers[p].at[s]) = layers[p].sign
    BY DEF SideInv, OnSide
<1>4. \A p \in Params : layers'[p].sign # 0 => OnSide(layers'[p], v)
    BY <1>1, <1>2, <1>3, MoveendOnSide
<1>5. QED
    BY <1>1, <1>4 DEF SideInv, OnSide

LEMMA SideInit == DatelineViews /\ InitBaseMap => SideInv
BY DEF DatelineViews, InitBaseMap, SideInv, NoLayer

LEMMA SideStep ==
    Hooked /\ DatelineViews /\ MapInv /\ SideInv /\ [MapNext]_mapVars => SideInv'
<1> SUFFICES ASSUME Hooked, DatelineViews, MapInv, SideInv, [MapNext]_mapVars
             PROVE  SideInv'
    OBVIOUS
<1>1. CASE \E key, p \in Params : ShowSitesDataOnMap(key, SitesOf[p])
    <2>1. PICK key \in Params, p \in Params : ShowSitesDataOnMap(key, SitesOf[p])
        BY <1>1
    <2>2. SitesOf[p] \in SUBSET Sites
        BY SitesAssumption
    <2>3. QED
        BY <2>1, <2>2, ShowSide
<1>2. CASE \E v \in Views : MoveMap(v)
    BY <1>2, MoveSide
<1>3. CASE UNCHANGED mapVars
    BY <1>3 DEF mapVars, SideInv, OnSide
<1>4. QED
    BY <1>1, <1>2, <1>3 DEF MapNext

\* A placed marker on the side of the view is in it when a copy of it is.
LEMMA SeenOnSide == MapInv /\ SideInv => SeenIfSeeable
<1> SUFFICES ASSUME MapInv, SideInv,
                    NEW p \in Params, NEW s \in layers[p].sites,
                    NEW turn \in {-360, 0, 360}, Contains(view, LatOf[s], LngOf[s] + turn)
             PROVE  Contains(view, LatOf[s], layers[p].at[s])
    BY DEF SeenIfSeeable
<1> DEFINE at == layers[p].at[s]
<1>1. s \in Sites /\ view \in View /\ layers[p] \in Layer
    BY DEF MapInv, MapTypeOK, Layer
<1>2. LngOf[s] \in (-180 .. 180) \ {0} /\ at \in Int
    BY <1>1, SitesAssumption DEF Layer
<1>3. at = LngOf[s] \/ at = LngOf[s] - 360 * Sign(LngOf[s])
    BY DEF MapInv, NoDrift
<1>4. Sign(at) = Sign(view.centre)
    <2>1. layers[p].sign # 0
        BY DEF MapInv, FreshIsEmpty
    <2>2. QED
        BY <2>1 DEF SideInv, OnSide
<1>5. Sign(LngOf[s] + turn) = Sign(view.centre)
    BY <1>1, <1>2, InViewOnSide DEF SideInv
<1>6. /\ -360 < LngOf[s] + turn /\ LngOf[s] + turn < 360
      /\ LngOf[s] + turn # 0
    <2>1. /\ view.centre \in Int /\ view.reach \in Nat /\ LngOf[s] + turn \in Int
          /\ view.centre - view.reach <= LngOf[s] + turn
          /\ LngOf[s] + turn <= view.centre + view.reach
        BY <1>1, <1>2 DEF Contains, View
    <2>2. Sided(view)
        BY DEF SideInv
    <2>3. QED
        BY <2>1, <2>2 DEF Sided
<1> HIDE DEF at
<1>7. at = LngOf[s] + turn
    <2>1. at < 360 /\ at > -360 /\ at # 0
        <3>1. CASE LngOf[s] > 0
            BY <1>2, <1>3, <3>1 DEF Sign
        <3>2. CASE LngOf[s] < 0
            BY <1>2, <1>3, <3>2 DEF Sign
        <3>3. QED
            BY <1>2, <3>1, <3>2
    <2>2. Sign(at) = Sign(LngOf[s] + turn)
        BY <1>4, <1>5
    <2>3. CASE at > 0
        BY <1>2, <1>3, <1>6, <2>1, <2>2, <2>3 DEF Sign
    <2>4. CASE at < 0
        BY <1>2, <1>3, <1>6, <2>1, <2>2, <2>4 DEF Sign
    <2>5. QED
        BY <1>2, <2>1, <2>3, <2>4
<1>8. QED
    BY <1>7 DEF at

\* With the hook of checkMapLayerLocations, and as long as the map stays on
\* one side of Greenwich at a time, no marker is off the map that has a copy
\* on it.
THEOREM SeenWhenHooked ==
    Hooked /\ DatelineViews /\ MapSpec => []SeenIfSeeable
<1> SUFFICES ASSUME Hooked, DatelineViews PROVE MapSpec => []SeenIfSeeable
    OBVIOUS
<1>1. InitBaseMap => SideInv
    BY SideInit
<1>2. MapInv /\ SideInv /\ [MapNext]_mapVars => SideInv'
    BY SideStep
<1>3. QED
    BY <1>1, <1>2, SeenOnSide, MapInvariant, PTL DEF MapSpec

(***************************************************************************)
(* The map is zoomed to markers.                                           *)
(***************************************************************************)

LEMMA ShowZooms ==
    ASSUME NEW key \in Params, NEW S \in SUBSET Sites, MapInv,
           ShowSitesDataOnMap(key, S), Hooked \/ view.centre > 0,
           NEW s \in S, LngOf[s] > 0
    PROVE  Contains(view', LatOf[s], layers'[key].at[s])
<1> DEFINE ls == Shown(key, S)
<1>1. s \in Sites /\ LngOf[s] \in 1 .. 180
    BY SitesAssumption
<1>2. view \in View /\ view' \in View /\ view'.centre > 0
    BY NextView DEF MapInv, MapTypeOK
<1>3. Contains(view', LatOf[s], LngOf[s]) /\ Sided(view')
    <2>1. SitePoints(S) # {}
        BY <1>1 DEF SitePoints
    <2>2. QED
        BY <2>1, FitBoundsView DEF ShowSitesDataOnMap
<1>4. layers' = Moveend(ls, view')
    BY <1>2, ShowLayers
<1>5. ls \in [Params -> Layer] /\ ls[key] = Fresh(S, view)
    BY <1>2, ShownLayers
<1> HIDE DEF ls
<1>6. /\ ls[key] \in Layer /\ ls[key].sites = S /\ s \in ls[key].sites
      /\ ls[key].sign # 0 /\ ls[key].sign = Sign(view.centre)
      /\ ls[key].at[s] = Moved(view, LatOf[s], LngOf[s])
    <2>1. /\ Fresh(S, view).sites = S
          /\ Fresh(S, view).sign # 0
          /\ Fresh(S, view).sign = Sign(view.centre)
        BY <1>2, FreshType
    <2>2. Fresh(S, view).at[s] = Moved(view, LatOf[s], LngOf[s])
        BY <1>2, FreshType
    <2>3. QED
        BY <1>5, <2>1, <2>2
<1>7. view.centre > 0 => ls[key].at[s] = LngOf[s]
    BY <1>1, <1>6 DEF Moved, Sign
<1>8. CASE Hooked
    <2>1. layers'[key] = CheckFeatureLocation(ls[key], view', FALSE)
        BY <1>4, <1>6, <1>8 DEF Moveend
    <2>2. CASE CentreChanged(ls[key], view')
        <3>1. layers'[key].at[s] = Moved(view', LatOf[s], ls[key].at[s])
            <4>1. FALSE \in BOOLEAN
                OBVIOUS
            <4>2. CheckFeatureLocation(ls[key], view', FALSE).at[s]
                      = Moved(view', LatOf[s], ls[key].at[s])
                BY <1>2, <1>6, <2>2, <4>1, CheckPlace
            <4>3. QED
                BY <2>1, <4>2
        <3>2. ls[key].at[s] = LngOf[s] \/ ls[key].at[s] = LngOf[s] - 360
            BY <1>1, <1>2, <1>6 DEF Moved, Sign, View
        <3>3. Moved(view', LatOf[s], LngOf[s]) = LngOf[s]
            BY <1>3 DEF Moved
        <3>4. Moved(view', LatOf[s], LngOf[s] - 360) = LngOf[s]
              \/ Contains(view', LatOf[s], Moved(view', LatOf[s], LngOf[s] - 360))
            BY <1>1, <1>2 DEF Moved, Sign, View
        <3>5. QED
            BY <1>3, <3>1, <3>2, <3>3, <3>4
    <2>3. CASE ~CentreChanged(ls[key], view')
        <3>1. layers'[key].at[s] = ls[key].at[s]
            BY <1>2, <1>6, <2>1, <2>3, CheckPlace
        <3>2. ls[key].sign = Sign(view'.centre)
            BY <2>3 DEF CentreChanged
        <3>3. view.centre > 0
            BY <1>2, <1>6, <3>2 DEF Sign, View
        <3>4. QED
            BY <1>3, <1>7, <3>1, <3>3
    <2>4. QED
        BY <2>2, <2>3
<1>9. CASE ~Hooked /\ view.centre > 0
    <2>1. layers'[key] = ls[key]
        BY <1>4, <1>9 DEF Moveend
    <2>2. QED
        BY <1>3, <1>7, <1>9, <2>1
<1>10. QED
    BY <1>8, <1>9

\* When sites are shown, those the map is zoomed to can be seen: always with
\* the hook, and without it on a map centred on an eastern longitude.
THEOREM MapZoomsToMarkers == MapSpec => ZoomedToMarkers
<1>1. MapInv /\ [MapNext]_mapVars =>
      [\A key \in Params : \A S \in {SitesOf[p] : p \in Params} :
          (Hooked \/ view.centre > 0) /\ ShowSitesDataOnMap(key, S) =>
              \A s \in S : LngOf[s] > 0 =>
                  Contains(view, LatOf[s], layers[key].at[s])']_mapVars
    <2> SUFFICES ASSUME MapInv,
                        NEW key \in Params, NEW S \in {SitesOf[p] : p \in Params},
                        Hooked \/ view.centre > 0, ShowSitesDataOnMap(key, S),
                        NEW s \in S, LngOf[s] > 0
                 PROVE  Contains(view, LatOf[s], layers[key].at[s])'
        OBVIOUS
    <2>1. S \in SUBSET Sites
        BY SitesAssumption
    <2>2. Contains(view', LatOf[s], layers'[key].at[s])
        BY <2>1, ShowZooms
    <2>3. QED
        BY <2>2 DEF Contains
<1>2. QED
    BY <1>1, MapInvariant, PTL DEF MapSpec, ZoomedToMarkers
============================================================================
