---------------------------- MODULE MCFlexSlider ----------------------------
(* FlexSlider for TLC.  Model value for None; small numbers elsewhere.      *)
EXTENDS FlexSlider
=============================================================================
