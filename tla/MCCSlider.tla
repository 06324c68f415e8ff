----------------------------- MODULE MCCSlider -----------------------------
(* Instance of CSlider for TLC. *)
EXTENDS CSlider
=============================================================================
