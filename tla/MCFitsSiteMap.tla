--------------------------- MODULE MCFitsSiteMap ---------------------------
(***************************************************************************)
(* The map with the hook of checkMapLayerLocations: five sites around the  *)
(* date line and views on both of its sides, some of them so wide that a   *)
(* step from one to the next keeps the bounds in touch, in a band that     *)
(* leaves out scott and in one that leaves out all the others.             *)
(***************************************************************************)
EXTENDS FitsSiteMap, TLC

CONSTANTS scott, wellington, raoul, tonga, cook, p1, p2, p3

MCSitesOf == (p1 :> {scott, wellington}) @@ (p2 :> {raoul, tonga, cook})
             @@ (p3 :> {wellington, raoul})

MCLngOf == (scott :> 166) @@ (wellington :> 174) @@ (raoul :> -178)
           @@ (tonga :> -175) @@ (cook :> -160)

MCLatOf == (scott :> -78) @@ (wellington :> -41) @@ (raoul :> -29)
           @@ (tonga :> -21) @@ (cook :> -21)

ViewAt(c, r, lat, span) ==
    [centre |-> c, reach |-> r, lat |-> lat, span |-> span]

MCHomeView == ViewAt(174, 14, -40, 15)

MCViews ==
    {ViewAt(c, r, b[1], b[2]) : c \in {-200, -186, -170, -60, 60, 160, 182, 200},
                                r \in {10, 40}, b \in {<<-30, 20>>, <<-75, 15>>}}
============================================================================
