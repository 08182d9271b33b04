------------------------ MODULE MCPresentationPacer ------------------------
(* Instances of PresentationPacer for TLC: a second has 960 units, so that   *)
(* 60, 120 and 240 Hz have intervals of 16, 8 and 4.                         *)
EXTENDS PresentationPacer

MCRates == {-1, 60, 120, 240}
=============================================================================
