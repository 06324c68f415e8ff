------------------------------ MODULE Carousel ------------------------------
(***************************************************************************)
(* What a slider of the report page promises: one slide is shown at a      *)
(* time, it is replaced only by a slide that was asked for while no other  *)
(* replacement was under way, and a replacement that has begun ends.       *)
(* CSlider, RefineSlide and FlexSlider are shown to implement it.          *)
(***************************************************************************)
EXTENDS Naturals

CONSTANTS
    Slides,     \* the slides
    Idle        \* no replacement is under way

VARIABLES
    shown,      \* the slide on show
    target      \* the slide that is replacing it, or Idle

vars == <<shown, target>>

Init ==
    /\ shown \in Slides
    /\ target = Idle

\* A replacement begins only when none is under way.
Begin(s) ==
    /\ target = Idle
    /\ target' = s
    /\ UNCHANGED shown

\* It ends with the slide that was asked for when it began.
End ==
    /\ target # Idle
    /\ shown' = target
    /\ target' = Idle

\* A browser that animates by itself may leave nothing to wait for.
Cut(s) ==
    /\ target = Idle
    /\ shown' = s
    /\ UNCHANGED target

Next ==
    \/ \E s \in Slides : Begin(s) \/ Cut(s)
    \/ End

Safe == Init /\ [][Next]_vars

Spec == Safe /\ WF_vars(End)
=============================================================================
