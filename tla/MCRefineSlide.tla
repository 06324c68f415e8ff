--------------------------- MODULE MCRefineSlide ---------------------------
(* RefineSlide for TLC.  Model value for None; small numbers elsewhere.     *)
EXTENDS RefineSlide
=============================================================================
