---------------------------- MODULE MCFitsCharts ----------------------------
(***************************************************************************)
(* Two parameters: the only site of one, across the date line, is also one *)
(* of the other's three.                                                   *)
(***************************************************************************)
EXTENDS FitsCharts, TLC

CONSTANTS p1, p2, wellington, auckland, raoul

MCSitesOf == (p1 :> {wellington, auckland, raoul}) @@ (p2 :> {raoul})

MCLngOf == (wellington :> 172) @@ (auckland :> 176) @@ (raoul :> -178)

MCLatOf == (wellington :> -41) @@ (auckland :> -37) @@ (raoul :> -29)

ViewAt(c, r, lat, span) ==
    [centre |-> c, reach |-> r, lat |-> lat, span |-> span]

MCHomeView == ViewAt(174, 14, -40, 15)

MCViews == {ViewAt(-170, 20, -30, 15)}

MCPicks == {{}, {raoul}, {wellington, auckland}}
============================================================================
