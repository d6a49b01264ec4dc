--------------------------- MODULE MCDapperCache ---------------------------
(***************************************************************************)
(* Instances of DapperCache for TLC.                                       *)
(***************************************************************************)
EXTENDS DapperCache, TLC

CONSTANTS h1, h2, ticker

OneAsked == {<<2, 1>>}
TwoKeys == {<<1, 1>>, <<1, 2>>}
ThreeSeries == {<<1, 1>>, <<2, 1>>, <<2, 2>>}
=============================================================================
