----------------------------- MODULE FlexSlider -----------------------------
(***************************************************************************)
(* jquery.flexslider.js, the second slider of the report page's scripts:    *)
(* plain sliders (no carousel of several items, no synchronised pair), in   *)
(* the three ways it animates: fading, moving the strip of slides with      *)
(* jQuery's animate, moving it with a CSS transition.  With animationLoop   *)
(* the strip has a clone of the last slide before the first one and a clone *)
(* of the first one after the last, and jumps back from a clone at the end  *)
(* of an animation.                                                         *)
(*                                                                         *)
(* An action is one callback of the page: arrows, keys and wheel, dots, the *)
(* slideshow's interval, hovering, the pause button, a finger, calls by the *)
(* page's own scripts, the end of an animation.  A transition that ends     *)
(* inside a slide bubbles to the strip, so wrapup may run at any time.      *)
(***************************************************************************)
EXTENDS Integers

CONSTANTS
    Count,      \* slider.count
    None,       \* undefined or null
    MaxLost     \* bound: intervals that animatedSlides no longer refers to

Slides == 0..(Count - 1)
Last == Count - 1

ASSUME FlexSliderAssumption ==
    /\ Count \in Nat /\ Count > 1
    /\ None \notin Int
    /\ MaxLost \in Nat

VARIABLES
    vars0,          \* the options, the browser and whether the page's scripts call the slider
    currentSlide, animatingTo, animating, atEnd, direction,
    moving,         \* an animation that will call wrapup is running
    bound,          \* the strip listens to transition ends
    position,       \* the cell of the strip that is or will be in view
    visible,        \* fade: the slides that the effects under way leave visible
    active,         \* the active dot of the control navigation
    playing, manualPause, manualPlay,
    interval,       \* the interval in animatedSlides runs
    lost,           \* running intervals that animatedSlides no longer refers to
    delayed,        \* the timeout of initDelay is pending
    hovered,        \* the pointer is over the slider
    finger          \* the touch session: listening, dx, scrolling, whether the strip is displaced

slideVars == <<currentSlide, animatingTo, animating, atEnd, moving, bound, position, visible, active>>
playVars == <<playing, interval, lost>>
manualVars == <<manualPause, manualPlay>>
vars == <<vars0, slideVars, direction, playVars, manualVars, delayed, hovered, finger>>

Options == [animation : {"fade", "animate", "css"}, touch : BOOLEAN, animationLoop : BOOLEAN,
            pauseOnAction : BOOLEAN, startAt : Slides, initDelay : BOOLEAN, scripted : BOOLEAN]

\* The strip's cells: one per slide, and with a loop a clone at each end.
CloneOffset == IF vars0.animationLoop THEN 1 ELSE 0
CellOf(s) == s + CloneOffset

\* Every variable has its kind of value; the strip shows one of its cells.
TypeOK ==
    /\ vars0 \in Options
    /\ {currentSlide, animatingTo, active} \subseteq Slides
    /\ {animating, atEnd, moving, bound, playing, manualPause, manualPlay, interval, delayed, hovered}
            \subseteq BOOLEAN
    /\ direction \in {"next", "prev", None}
    /\ position \in 0..(Last + 2 * CloneOffset)
    /\ visible \subseteq Slides
    /\ lost \in 0..MaxLost
    /\ finger \in [on : BOOLEAN, dx : {"undefined", "null", "small", "next", "prev"},
                   scrolling : BOOLEAN, dragged : BOOLEAN]
-----------------------------------------------------------------------------
(* Slideshow.                                                              *)

\* pause: the interval that animatedSlides refers to is cleared.
Pause ==
    /\ interval' = FALSE
    /\ playing' = FALSE
    /\ UNCHANGED lost

\* play: a new interval; one that runs already is not cleared.
Play ==
    /\ interval => lost < MaxLost
    /\ lost' = IF interval THEN lost + 1 ELSE lost
    /\ interval' = TRUE
    /\ playing' = TRUE

PauseIf(pause) == IF pause THEN Pause ELSE UNCHANGED playVars

\* The slider is entered or left; manual pause and manual play take precedence.
HoverIn ==
    /\ ~hovered
    /\ hovered' = TRUE
    /\ PauseIf(~manualPlay /\ ~manualPause)
    /\ UNCHANGED <<vars0, slideVars, direction, manualVars, delayed, finger>>

\* The pointer leaves the slider.
HoverOut ==
    /\ hovered
    /\ hovered' = FALSE
    /\ IF manualPause \/ manualPlay THEN UNCHANGED playVars ELSE Play
    /\ UNCHANGED <<vars0, slideVars, direction, manualVars, delayed, finger>>

\* The button shows "pause" from the start, and then what play and pause make of it.
PauseButton == playing \/ delayed

\* The pause/play button.
ClickPausePlay ==
    /\ manualPause' = PauseButton
    /\ manualPlay' = ~PauseButton
    /\ IF PauseButton THEN Pause ELSE Play
    /\ UNCHANGED <<vars0, slideVars, direction, delayed, hovered, finger>>

\* The timeout of initDelay: play, whatever has happened since.
DelayedPlay ==
    /\ delayed
    /\ delayed' = FALSE
    /\ Play
    /\ UNCHANGED <<vars0, slideVars, direction, manualVars, hovered, finger>>
-----------------------------------------------------------------------------
(* Animation.                                                              *)

\* Mutated form: the last slide has no next one.
GetTarget1(dir) ==
    IF dir = "next" THEN IF currentSlide = Last THEN Last ELSE currentSlide + 1
                    ELSE IF currentSlide = 0 THEN Last ELSE currentSlide - 1

\* getTarget
GetTarget(dir) ==
    IF dir = "next" THEN IF currentSlide = Last THEN 0 ELSE currentSlide + 1
                    ELSE IF currentSlide = 0 THEN Last ELSE currentSlide - 1

\* Mutated form: the ends are not checked without a loop.
CanAdvance1(target, dir) == target # currentSlide

\* canAdvance
CanAdvance(target, dir) ==
    /\ target # currentSlide
    /\ ~vars0.animationLoop =>
          /\ ~(atEnd /\ currentSlide = 0 /\ target = Last /\ dir # "next")
          /\ ~(atEnd /\ currentSlide = Last /\ target = 0 /\ dir = "next")

\* The cell that the strip moves to: over the end of the loop it is a clone.
CellFor(target, dir) ==
    CASE vars0.animationLoop /\ currentSlide = 0 /\ target = Last /\ dir # "next" -> 0
      [] vars0.animationLoop /\ currentSlide = Last /\ target = 0 /\ dir # "prev" -> Count + 1
      [] OTHER -> CellOf(target)

\* A fade of a touch device and, away from the ends of the loop, a CSS transition
\* are left to the browser: the slider is at its target at once.
Immediate(target) ==
    \/ vars0.animation = "fade" /\ vars0.touch
    \/ vars0.animation = "css" /\ (~vars0.animationLoop \/ target \notin {0, Last})

\* The strip is already where it should be, so that no transition takes place.
Unmoved(cell) == vars0.animation = "css" /\ cell = position /\ ~moving /\ ~finger.dragged

\* flexAnimate past its test.  The last slide of a slider without a loop pauses it.
Animate(target, dir, pause) ==
    LET strip == vars0.animation # "fade"
        cell == CellFor(target, dir)
    IN  /\ animatingTo' = target
        /\ active' = target
        /\ PauseIf(pause \/ (target = Last /\ ~vars0.animationLoop))
        /\ atEnd' = (target \in {0, Last})
        /\ position' = IF strip THEN cell ELSE position
        /\ visible' = IF strip THEN visible ELSE (visible \ {currentSlide}) \cup {target}
        /\ bound' = (bound \/ vars0.animation = "css")
        /\ moving' = IF strip THEN ~Unmoved(cell) ELSE ~vars0.touch
        /\ animating' = ~Immediate(target)
        /\ currentSlide' = IF Immediate(target) THEN target ELSE currentSlide

\* Mutated form: a request is accepted during an animation.
FlexAnimate1(target, dir, pause) ==
    /\ direction' = dir
    /\ IF CanAdvance(target, dir)
       THEN Animate(target, dir, pause) /\ finger' = [finger EXCEPT !.dragged = FALSE]
       ELSE UNCHANGED <<slideVars, playVars, finger>>

\* flexAnimate after direction has been set to dir.
FlexAnimate(target, dir, pause) ==
    /\ direction' = dir
    /\ IF ~animating /\ CanAdvance(target, dir)
       THEN Animate(target, dir, pause) /\ finger' = [finger EXCEPT !.dragged = FALSE]
       ELSE UNCHANGED <<slideVars, playVars, finger>>

\* An arrow, a key or the wheel.
Navigate(dir) ==
    /\ FlexAnimate(GetTarget(dir), dir, vars0.pauseOnAction)
    /\ UNCHANGED <<vars0, manualVars, delayed, hovered>>

\* A dot of the control navigation that is not the active one.
ClickDot(target) ==
    /\ target # active
    /\ FlexAnimate(target, IF target > currentSlide THEN "next" ELSE "prev", vars0.pauseOnAction)
    /\ UNCHANGED <<vars0, manualVars, delayed, hovered>>

\* animateSlides, by any interval that runs.
AnimateSlides ==
    /\ interval \/ lost > 0
    /\ ~animating
    /\ FlexAnimate(GetTarget("next"), "next", FALSE)
    /\ UNCHANGED <<vars0, manualVars, delayed, hovered>>

\* $(...).flexslider("play"), ("pause"), ("next"), ("prev") and (number); a number
\* leaves the direction of the last move.
Call ==
    /\ vars0.scripted
    /\ \/ (Play \/ Pause) /\ UNCHANGED <<slideVars, direction, finger>>
       \/ \E dir \in {"next", "prev"} : FlexAnimate(GetTarget(dir), dir, TRUE)
       \/ \E target \in Slides : FlexAnimate(target, direction, TRUE)
    /\ UNCHANGED <<vars0, manualVars, delayed, hovered>>

Strip == vars0.animation # "fade"
JumpsToEnd == Strip /\ vars0.animationLoop /\ currentSlide = 0 /\ animatingTo = Last
JumpsToStart == Strip /\ vars0.animationLoop /\ currentSlide = Last /\ animatingTo = 0

\* Mutated form: the strip is left on the clone.
Jump1 == UNCHANGED position

\* wrapup: jumpEnd and jumpStart take the strip from a clone to the slide itself.
Jump ==
    position' = IF JumpsToEnd THEN Count ELSE IF JumpsToStart THEN 1 ELSE position

\* Mutated form: wrapup forgets to open the slider.
Reopen1 == UNCHANGED animating

\* wrapup: further animations are accepted.
Reopen == animating' = FALSE

\* wrapup: the target is the current slide.
Arrive == currentSlide' = animatingTo

\* wrapup, and what is left of the animation under way.
Wrapup(rest) ==
    /\ Jump
    /\ Reopen
    /\ Arrive
    /\ moving' = (rest /\ ~JumpsToEnd /\ ~JumpsToStart)
    /\ UNCHANGED <<vars0, animatingTo, atEnd, bound, visible, active, direction, playVars, manualVars,
                   delayed, hovered>>

\* The animation ends.
AnimationEnd == moving /\ Wrapup(FALSE) /\ UNCHANGED finger

\* A transition inside a slide ends and bubbles to the strip.  A jump puts the
\* strip in place and cancels its transition.
StrayTransitionEnd ==
    /\ bound
    /\ Wrapup(moving)
    /\ finger' = [finger EXCEPT !.dragged = @ /\ ~JumpsToEnd /\ ~JumpsToStart]
-----------------------------------------------------------------------------
(* Touch.                                                                  *)

\* onTouchStart
TouchStart ==
    /\ vars0.touch /\ ~finger.on /\ ~animating
    /\ Pause
    /\ finger' = [finger EXCEPT !.on = TRUE]
    /\ UNCHANGED <<vars0, slideVars, direction, manualVars, delayed, hovered>>

\* onTouchMove: unless the page is being scrolled (or has been for 500 ms), a CSS
\* strip follows the finger, which cancels its transition.
TouchMove ==
    /\ finger.on
    /\ \E dx \in {"small", "next", "prev"}, scrolling \in BOOLEAN, late \in BOOLEAN :
          LET drags == vars0.animation = "css" /\ (~scrolling \/ late)
          IN  /\ finger' = [finger EXCEPT !.dx = dx, !.scrolling = scrolling, !.dragged = @ \/ drags]
              /\ moving' = (moving /\ ~drags)
    /\ UNCHANGED <<vars0, currentSlide, animatingTo, animating, atEnd, bound, position, visible, active,
                   direction, playVars, manualVars, delayed, hovered>>

\* onTouchEnd: a swipe moves on, anything shorter takes the strip back.  dx is
\* undefined until the first onTouchMove and null after each onTouchEnd.
TouchEnd ==
    /\ finger.on
    /\ LET lifted == [finger EXCEPT !.on = FALSE, !.dx = "null"]
           counts == animatingTo = currentSlide /\ ~finger.scrolling /\ finger.dx # "null"
           swipe == finger.dx \in {"next", "prev"}
       IN  IF ~counts THEN finger' = lifted /\ UNCHANGED <<slideVars, direction, playVars>>
           ELSE \E dir \in IF swipe THEN {finger.dx}
                           ELSE IF finger.dx = "small" THEN {"next", "prev"} ELSE {"prev"} :
                  LET target == IF swipe /\ CanAdvance(GetTarget(dir), dir) THEN GetTarget(dir) ELSE currentSlide
                      goes == ~animating /\ (target # currentSlide \/ Strip)
                  IN  /\ direction' = dir
                      /\ IF goes THEN Animate(target, dir, vars0.pauseOnAction)
                                 ELSE UNCHANGED <<slideVars, playVars>>
                      /\ finger' = [lifted EXCEPT !.dragged = @ /\ ~goes]
    /\ UNCHANGED <<vars0, manualVars, delayed, hovered>>
-----------------------------------------------------------------------------
\* init and setup.  atEnd is computed before slider.last is.
Init ==
    /\ vars0 \in Options
    /\ currentSlide = vars0.startAt
    /\ animatingTo = vars0.startAt
    /\ animating = FALSE
    /\ atEnd = (vars0.startAt = 0)
    /\ direction = None
    /\ moving = FALSE
    /\ bound = FALSE
    /\ position = CellOf(vars0.startAt)
    /\ visible = {vars0.startAt}
    /\ active = vars0.startAt
    /\ delayed = vars0.initDelay
    /\ interval = ~vars0.initDelay
    /\ playing = ~vars0.initDelay
    /\ lost = 0
    /\ manualPause = FALSE
    /\ manualPlay = FALSE
    /\ hovered = FALSE
    /\ finger = [on |-> FALSE, dx |-> "undefined", scrolling |-> FALSE, dragged |-> FALSE]

Next ==
    \/ HoverIn
    \/ HoverOut
    \/ ClickPausePlay
    \/ DelayedPlay
    \/ \E dir \in {"next", "prev"} : Navigate(dir)
    \/ \E target \in Slides : ClickDot(target)
    \/ AnimateSlides
    \/ Call
    \/ AnimationEnd
    \/ StrayTransitionEnd
    \/ TouchStart
    \/ TouchMove
    \/ TouchEnd

\* Intervals tick and animations end.
Fairness ==
    /\ WF_vars(AnimateSlides)
    /\ WF_vars(AnimationEnd)

Spec == Init /\ [][Next]_vars /\ Fairness
-----------------------------------------------------------------------------
\* When nothing moves and no finger has displaced the strip, what is seen is the
\* current slide itself and not a clone, so that the next animation starts from the
\* right place: the jumps of wrapup and what flexAnimate computed fit together for
\* every mix of requests and of stray transition ends.
ShowsCurrentSlide ==
    ~animating /\ ~moving /\ ~finger.dragged =>
        IF Strip THEN position = CellOf(currentSlide) ELSE visible = {currentSlide}

\* The dot that is lit is the slide that is shown or on its way, and while nothing
\* is animating the slider has no other target left over from an earlier request.
DotsAgree == active = animatingTo /\ (~animating => animatingTo = currentSlide)

\* A slideshow that is not playing has no interval running, and a playing one has
\* exactly one: no mix of hovering, the button and pauses by requests runs two.  It
\* takes initDelay, or a script that calls play, to lose an interval.
OneInterval == ~vars0.initDelay /\ ~vars0.scripted => lost = 0 /\ interval = playing

\* The three invariants hold together for every order of callbacks and all options.
SliderInv == TypeOK /\ ShowsCurrentSlide /\ DotsAgree /\ OneInterval

\* Without animationLoop neither the slideshow nor a next arrow, key or swipe goes
\* from the last slide to the first, provided that the slider did not start on the
\* last slide (atEnd is then wrong until the first move).
StopsAtLast ==
    [][~vars0.animationLoop /\ vars0.startAt # Last /\ currentSlide = Last /\ animatingTo = Last /\ direction' = "next"
            => animatingTo' # 0]_vars

\* Every animation ends, on devices without a touch screen.
AnimationEnds == ~vars0.touch => (animating ~> ~animating)

\* A looping slideshow that is not paused any more keeps changing slides.
SlideshowAdvances ==
    vars0.animationLoop /\ ~vars0.touch /\ <>[]playing => []<><<currentSlide' # currentSlide>>_vars

\* The slider is a carousel: a request made while it is animating changes nothing.
RefinedCarousel == INSTANCE Carousel WITH
    Idle <- None,
    shown <- currentSlide,
    target <- IF animating THEN animatingTo ELSE None
ImplementsCarousel == RefinedCarousel!Safe
=============================================================================
