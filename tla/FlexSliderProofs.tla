-------------------------- MODULE FlexSliderProofs --------------------------
(***************************************************************************)
(* FlexSlider for any number of slides and all options: what is in view at *)
(* rest is the current slide, no mix of hovering, button and requests runs *)
(* two intervals, a slider without a loop does not go on after its last    *)
(* slide, and the slider is a carousel.                                    *)
(***************************************************************************)
EXTENDS FlexSlider, TLAPS

-----------------------------------------------------------------------------
(* The inductive invariant                                                 *)

\* A strip shows its target, or on the way over an end of the loop the clone
\* that wrapup will leave; a fade leaves only its target visible.
DisplayInv ==
    IF Strip
    THEN \/ position = CellOf(animatingTo)
         \/ animating /\ (JumpsToEnd \/ JumpsToStart)
    ELSE visible = {animatingTo}

\* Since the first move atEnd says whether the target is an end.
AtEndInv == vars0.startAt # Last /\ animatingTo = Last => atEnd

\* With neither initDelay nor a script, a slideshow that has not been taken over
\* by hand rests while the pointer is over the slider.
PlayInv ==
    /\ delayed => vars0.initDelay
    /\ ~vars0.initDelay /\ ~vars0.scripted /\ hovered /\ ~manualPause /\ ~manualPlay => ~playing

IInv == TypeOK /\ DotsAgree /\ OneInterval /\ DisplayInv /\ AtEndInv /\ PlayInv

\* The invariant says what the page promises.
LEMMA InvImplies == IInv => SliderInv
BY DEF IInv, SliderInv, ShowsCurrentSlide, DotsAgree, DisplayInv, Strip

\* Whatever the options, the slider starts in it.
LEMMA InitInv == Init => IInv
<1> SUFFICES ASSUME Init PROVE IInv
  OBVIOUS
<1>0. vars0 \in Options /\ Count \in Nat /\ Count > 1 /\ vars0.startAt \in Slides /\ vars0.initDelay \in BOOLEAN
  BY FlexSliderAssumption DEF Init, Options
<1>1. TypeOK
  <2>1. position \in 0..(Last + 2 * CloneOffset)
    BY <1>0 DEF Init, CellOf, CloneOffset, Slides, Last
  <2>2. finger \in [on : BOOLEAN, dx : {"undefined", "null", "small", "next", "prev"},
                    scrolling : BOOLEAN, dragged : BOOLEAN]
    BY DEF Init
  <2>3. {animating, atEnd, moving, bound, playing, manualPause, manualPlay, interval, delayed, hovered}
          \subseteq BOOLEAN
    BY <1>0 DEF Init
  <2> QED BY <1>0, <2>1, <2>2, <2>3, FlexSliderAssumption DEF Init, TypeOK
<1>2. DotsAgree /\ OneInterval /\ DisplayInv /\ AtEndInv /\ PlayInv
  BY <1>0 DEF Init, DotsAgree, OneInterval, DisplayInv, AtEndInv, PlayInv
<1> QED BY <1>1, <1>2 DEF IInv

-----------------------------------------------------------------------------
(* Three kinds of steps                                                    *)

\* An animation begins: a request that was accepted, or a finger that lets go
\* of the strip.
Begins(target, dir, pause) ==
    /\ ~animating
    /\ direction' = dir
    /\ Animate(target, dir, pause)
    /\ CanAdvance(target, dir) \/ (target = currentSlide /\ Strip)

\* What is shown and what it will be replaced by stay as they are.
Rests == UNCHANGED <<currentSlide, animatingTo, animating, atEnd, position, visible, active>>

\* The slides that arrows and intervals ask for exist.
LEMMA TargetExists ==
    ASSUME TypeOK
    PROVE  \A dir \in {"next", "prev"} : GetTarget(dir) \in Slides
BY FlexSliderAssumption DEF TypeOK, GetTarget, Slides, Last

\* A request begins an animation or changes nothing.
LEMMA RequestKind ==
    ASSUME NEW target \in Slides, NEW dir \in {"next", "prev", None}, NEW pause \in BOOLEAN,
           FlexAnimate(target, dir, pause)
    PROVE  Rests \/ Begins(target, dir, pause)
BY DEF FlexAnimate, Begins, Rests, slideVars

\* Every step begins an animation, ends one, or leaves what is shown alone.
LEMMA StepKinds ==
    ASSUME TypeOK, [Next]_vars
    PROVE  /\ UNCHANGED vars0
           /\ \/ Rests
              \/ \E target \in Slides, dir \in {"next", "prev", None}, pause \in BOOLEAN : Begins(target, dir, pause)
              \/ \E rest \in BOOLEAN : Wrapup(rest)
<1> DEFINE Kind == /\ UNCHANGED vars0
                   /\ \/ Rests
                      \/ \E target \in Slides, dir \in {"next", "prev", None}, pause \in BOOLEAN :
                           Begins(target, dir, pause)
                      \/ \E rest \in BOOLEAN : Wrapup(rest)
<1>0. vars0.pauseOnAction \in BOOLEAN
  BY DEF TypeOK, Options
<1>1. CASE HoverIn \/ HoverOut \/ ClickPausePlay \/ DelayedPlay \/ TouchStart
  BY <1>1 DEF HoverIn, HoverOut, ClickPausePlay, DelayedPlay, TouchStart, Rests, slideVars
<1>2. CASE TouchMove
  BY <1>2 DEF TouchMove, Rests
<1>3. ASSUME NEW dir \in {"next", "prev"}, Navigate(dir) PROVE Kind
  BY <1>0, <1>3, TargetExists, RequestKind DEF Navigate
<1>4. ASSUME NEW target \in Slides, ClickDot(target) PROVE Kind
  BY <1>0, <1>4, RequestKind DEF ClickDot
<1>5. CASE AnimateSlides
  BY <1>5, TargetExists, RequestKind DEF AnimateSlides
<1>6. CASE Call
  <2>1. UNCHANGED vars0
    BY <1>6 DEF Call
  <2>2. CASE (Play \/ Pause) /\ UNCHANGED <<slideVars, direction, finger>>
    BY <2>1, <2>2 DEF Rests, slideVars
  <2>3. ASSUME NEW dir \in {"next", "prev"}, FlexAnimate(GetTarget(dir), dir, TRUE) PROVE Kind
    BY <2>1, <2>3, TargetExists, RequestKind
  <2>4. ASSUME NEW target \in Slides, FlexAnimate(target, direction, TRUE) PROVE Kind
    BY <2>1, <2>4, RequestKind DEF TypeOK
  <2> QED BY <1>6, <2>2, <2>3, <2>4 DEF Call
<1>7. CASE AnimationEnd
  BY <1>7 DEF AnimationEnd, Wrapup
<1>8. CASE StrayTransitionEnd
  BY <1>8 DEF StrayTransitionEnd, Wrapup, TypeOK
<1>9. CASE TouchEnd
  <2>1. CASE UNCHANGED slideVars
    BY <1>9, <2>1 DEF TouchEnd, Rests, slideVars
  <2>2. CASE ~UNCHANGED slideVars
    <3> DEFINE swipe == finger.dx \in {"next", "prev"}
               dirs == IF swipe THEN {finger.dx} ELSE IF finger.dx = "small" THEN {"next", "prev"} ELSE {"prev"}
               Target(dir) == IF swipe /\ CanAdvance(GetTarget(dir), dir) THEN GetTarget(dir) ELSE currentSlide
    <3>1. PICK dir \in dirs : /\ direction' = dir
                              /\ ~animating
                              /\ Target(dir) # currentSlide \/ Strip
                              /\ Animate(Target(dir), dir, vars0.pauseOnAction)
      BY <1>9, <2>2 DEF TouchEnd
    <3>2. dir \in {"next", "prev"}
      OBVIOUS
    <3>3. Target(dir) \in Slides
      BY <3>2, TargetExists DEF TypeOK
    <3>4. Begins(Target(dir), dir, vars0.pauseOnAction)
      BY <3>1 DEF Begins
    <3> HIDE DEF Target
    <3> QED BY <1>0, <1>9, <3>2, <3>3, <3>4 DEF TouchEnd
  <2> QED BY <2>1, <2>2
<1>10. CASE UNCHANGED vars
  BY <1>10 DEF vars, slideVars, Rests
<1> QED BY <1>1, <1>2, <1>3, <1>4, <1>5, <1>6, <1>7, <1>8, <1>9, <1>10 DEF Next

-----------------------------------------------------------------------------
(* What is shown                                                           *)

\* The strip always moves to one of its cells.
LEMMA CellsExist ==
    ASSUME TypeOK, NEW target \in Slides, NEW dir
    PROVE  /\ CellOf(target) \in 0..(Last + 2 * CloneOffset)
           /\ CellFor(target, dir) \in 0..(Last + 2 * CloneOffset)
<1>0. Count \in Nat /\ Count > 1 /\ vars0.animationLoop \in BOOLEAN
  BY FlexSliderAssumption DEF TypeOK, Options
<1>1. CellOf(target) \in 0..(Last + 2 * CloneOffset)
  BY <1>0 DEF CellOf, CloneOffset, Slides, Last
<1>2. CellFor(target, dir) \in {CellOf(target), 0} \/ (vars0.animationLoop /\ CellFor(target, dir) = Count + 1)
  BY DEF CellFor
<1> QED BY <1>0, <1>1, <1>2 DEF CloneOffset, Last

\* The values that the slides' own variables may have.
SlideTypes ==
    /\ {currentSlide, animatingTo, active} \subseteq Slides
    /\ {animating, atEnd} \subseteq BOOLEAN
    /\ position \in 0..(Last + 2 * CloneOffset)
    /\ visible \subseteq Slides

\* What is shown at rest does not depend on anything else.
DisplayPart == SlideTypes /\ DotsAgree /\ DisplayInv /\ AtEndInv

\* A step that leaves what is shown alone.
LEMMA RestsDisplay ==
    ASSUME DisplayPart, Rests, UNCHANGED vars0
    PROVE  DisplayPart'
BY DEF DisplayPart, SlideTypes, DotsAgree, DisplayInv, AtEndInv, Rests, Strip, JumpsToEnd, JumpsToStart,
       CellOf, CloneOffset

\* A step that begins an animation.
LEMMA BeginsDisplay ==
    ASSUME TypeOK, DisplayPart, UNCHANGED vars0,
           NEW target \in Slides, NEW dir, NEW pause, Begins(target, dir, pause)
    PROVE  DisplayPart'
<1>0. Count \in Nat /\ Count > 1 /\ vars0.animationLoop \in BOOLEAN
  BY FlexSliderAssumption DEF TypeOK, Options
<1>1. /\ animatingTo' = target
      /\ active' = target
      /\ atEnd' = (target \in {0, Last})
      /\ animating' = ~Immediate(target)
      /\ currentSlide' = IF Immediate(target) THEN target ELSE currentSlide
  BY DEF Begins, Animate
<1>2. /\ position' = IF Strip THEN CellFor(target, dir) ELSE position
      /\ visible' = IF Strip THEN visible ELSE (visible \ {currentSlide}) \cup {target}
  BY DEF Begins, Animate, Strip
<1>3. SlideTypes'
  <2>1. (0..(Last + 2 * CloneOffset))' = 0..(Last + 2 * CloneOffset)
    BY DEF CloneOffset
  <2>2. position' \in 0..(Last + 2 * CloneOffset)
    BY <1>2, CellsExist DEF DisplayPart, SlideTypes
  <2>3. {currentSlide', animatingTo', active'} \subseteq Slides /\ {animating', atEnd'} \subseteq BOOLEAN
    BY <1>1 DEF DisplayPart, SlideTypes
  <2>4. visible' \subseteq Slides
    BY <1>2 DEF DisplayPart, SlideTypes
  <2> QED BY <2>1, <2>2, <2>3, <2>4 DEF SlideTypes
<1>4. DotsAgree'
  BY <1>1 DEF DotsAgree
<1>5. DisplayInv'
  <2>1. CASE Strip
    <3>1. Strip'
      BY <2>1 DEF Strip
    <3>2. CASE CellFor(target, dir) = CellOf(target)
      BY <1>1, <1>2, <2>1, <3>1, <3>2 DEF DisplayInv, CellOf, CloneOffset
    <3>3. CASE CellFor(target, dir) # CellOf(target)
      <4>1. /\ vars0.animationLoop
            /\ \/ currentSlide = 0 /\ target = Last
               \/ currentSlide = Last /\ target = 0
        BY <3>3 DEF CellFor
      <4>2. ~Immediate(target)
        BY <2>1, <4>1 DEF Immediate, Strip
      <4> QED BY <1>1, <3>1, <4>1, <4>2 DEF DisplayInv, JumpsToEnd, JumpsToStart
    <3> QED BY <3>2, <3>3
  <2>2. CASE ~Strip
    <3>1. visible = {currentSlide}
      BY <2>2 DEF Begins, DisplayPart, DotsAgree, DisplayInv
    <3> QED BY <1>1, <1>2, <2>2, <3>1 DEF DisplayInv, Strip
  <2> QED BY <2>1, <2>2
<1>6. AtEndInv'
  BY <1>1 DEF AtEndInv
<1> QED BY <1>3, <1>4, <1>5, <1>6 DEF DisplayPart

\* A step that ends one: wrapup takes the strip from a clone to the slide itself.
LEMMA WrapupDisplay ==
    ASSUME TypeOK, DisplayPart, NEW rest, Wrapup(rest)
    PROVE  DisplayPart'
<1>0. Count \in Nat /\ Count > 1 /\ vars0.animationLoop \in BOOLEAN
  BY FlexSliderAssumption DEF TypeOK, Options
<1>1. /\ UNCHANGED <<vars0, animatingTo, atEnd, visible, active>>
      /\ animating' = FALSE
      /\ currentSlide' = animatingTo
      /\ position' = IF JumpsToEnd THEN Count ELSE IF JumpsToStart THEN 1 ELSE position
  BY DEF Wrapup, Jump, Reopen, Arrive
<1>2. Strip' = Strip /\ CloneOffset' = CloneOffset
  BY <1>1 DEF Strip, CloneOffset
<1>3. CASE JumpsToEnd \/ JumpsToStart
  <2>1. Strip /\ CloneOffset = 1 /\ position' = animatingTo + 1 /\ animatingTo \in {0, Last}
    BY <1>0, <1>1, <1>3 DEF JumpsToEnd, JumpsToStart, CloneOffset, Last
  <2>2. animatingTo \in Slides /\ position' \in 0..(Last + 2 * CloneOffset)
    BY <1>0, <2>1 DEF DisplayPart, SlideTypes, Slides, Last
  <2>3. SlideTypes'
    BY <1>1, <1>2, <2>2 DEF DisplayPart, SlideTypes
  <2>4. DotsAgree' /\ AtEndInv'
    BY <1>1 DEF DisplayPart, DotsAgree, AtEndInv
  <2>5. DisplayInv'
    BY <1>1, <1>2, <2>1 DEF DisplayInv, CellOf
  <2> QED BY <2>3, <2>4, <2>5 DEF DisplayPart
<1>4. CASE ~JumpsToEnd /\ ~JumpsToStart
  BY <1>1, <1>2, <1>4 DEF DisplayPart, SlideTypes, DotsAgree, DisplayInv, AtEndInv, CellOf
<1> QED BY <1>3, <1>4

-----------------------------------------------------------------------------
(* The slideshow                                                           *)

\* The values that the slideshow's variables may have.
PlayTypes ==
    /\ playing \in BOOLEAN /\ interval \in BOOLEAN /\ delayed \in BOOLEAN /\ hovered \in BOOLEAN
    /\ manualPause \in BOOLEAN /\ manualPlay \in BOOLEAN
    /\ lost \in 0..MaxLost

PlayPart == PlayTypes /\ OneInterval /\ PlayInv

\* Requests, fingers and the ends of animations at most pause the slideshow.
LEMMA PausesPlay ==
    ASSUME PlayPart, Pause \/ UNCHANGED playVars, UNCHANGED <<vars0, manualVars, delayed, hovered>>
    PROVE  PlayPart'
<1>1. PlayTypes'
  BY DEF PlayPart, PlayTypes, Pause, playVars, manualVars
<1>2. OneInterval'
  BY DEF PlayPart, OneInterval, Pause, playVars
<1>3. PlayInv'
  BY DEF PlayPart, PlayInv, Pause, playVars, manualVars
<1> QED BY <1>1, <1>2, <1>3 DEF PlayPart

\* play starts an interval, and loses the one that was running.
LEMMA PlayTypesKept ==
    ASSUME PlayTypes, Play \/ Pause \/ UNCHANGED playVars,
           manualPause' \in BOOLEAN, manualPlay' \in BOOLEAN, delayed' \in BOOLEAN, hovered' \in BOOLEAN
    PROVE  PlayTypes'
<1>1. playing' \in BOOLEAN /\ interval' \in BOOLEAN
  BY DEF PlayTypes, Play, Pause, playVars
<1>2. lost' \in 0..MaxLost
  BY FlexSliderAssumption DEF PlayTypes, Play, Pause, playVars
<1> QED BY <1>1, <1>2 DEF PlayTypes

\* A request pauses the slideshow or leaves it alone.
LEMMA RequestPauses ==
    ASSUME NEW target, NEW dir, NEW pause, FlexAnimate(target, dir, pause)
    PROVE  Pause \/ UNCHANGED playVars
BY DEF FlexAnimate, Animate, PauseIf

\* Every step keeps the slideshow's part of the invariant.  play is called with no
\* interval running, but by the timeout of initDelay and by scripts.
LEMMA PlayStep ==
    ASSUME TypeOK, PlayPart, [Next]_vars
    PROVE  PlayPart'
<1>0. vars0.initDelay \in BOOLEAN /\ vars0.scripted \in BOOLEAN /\ UNCHANGED vars0
  BY StepKinds DEF TypeOK, Options
<1>1. CASE HoverIn
  <2>1. UNCHANGED <<manualPause, manualPlay, delayed>> /\ hovered' = TRUE
    BY <1>1 DEF HoverIn, manualVars
  <2>2. IF manualPause \/ manualPlay THEN UNCHANGED playVars ELSE Pause
    BY <1>1 DEF HoverIn, PauseIf
  <2>3. PlayTypes'
    BY <2>1, <2>2, PlayTypesKept DEF PlayPart, PlayTypes
  <2>4. OneInterval'
    BY <1>0, <2>2 DEF PlayPart, OneInterval, Pause, playVars
  <2>5. PlayInv'
    BY <1>0, <2>1, <2>2 DEF PlayPart, PlayInv, Pause
  <2> QED BY <2>3, <2>4, <2>5 DEF PlayPart
<1>2. CASE HoverOut
  <2>1. UNCHANGED <<manualPause, manualPlay, delayed>> /\ hovered /\ hovered' = FALSE
    BY <1>2 DEF HoverOut, manualVars
  <2>2. IF manualPause \/ manualPlay THEN UNCHANGED playVars ELSE Play
    BY <1>2 DEF HoverOut
  <2>3. PlayTypes'
    BY <2>1, <2>2, PlayTypesKept DEF PlayPart, PlayTypes
  <2>4. OneInterval'
    <3>1. CASE manualPause \/ manualPlay
      BY <1>0, <2>2, <3>1 DEF PlayPart, OneInterval, playVars
    <3>2. CASE ~manualPause /\ ~manualPlay
      <4> SUFFICES ASSUME ~vars0.initDelay, ~vars0.scripted PROVE lost' = 0 /\ interval' = playing'
        BY <1>0 DEF OneInterval
      <4>1. Play /\ lost = 0 /\ interval = FALSE
        BY <2>1, <2>2, <3>2 DEF PlayPart, PlayTypes, OneInterval, PlayInv
      <4> QED BY <4>1 DEF Play
    <3> QED BY <3>1, <3>2
  <2>5. PlayInv'
    BY <1>0, <2>1 DEF PlayPart, PlayInv
  <2> QED BY <2>3, <2>4, <2>5 DEF PlayPart
<1>3. CASE ClickPausePlay
  <2>1. /\ UNCHANGED <<delayed, hovered>>
        /\ manualPause' = PauseButton
        /\ manualPlay' = ~PauseButton
        /\ IF PauseButton THEN Pause ELSE Play
    BY <1>3 DEF ClickPausePlay
  <2>2. PauseButton \in BOOLEAN
    BY DEF PauseButton
  <2>3. PlayTypes'
    BY <2>1, <2>2, PlayTypesKept DEF PlayPart, PlayTypes
  <2>4. OneInterval'
    BY <1>0, <2>1 DEF PlayPart, PlayTypes, OneInterval, PauseButton, Play, Pause
  <2>5. PlayInv'
    BY <1>0, <2>1 DEF PlayPart, PlayInv
  <2> QED BY <2>3, <2>4, <2>5 DEF PlayPart
<1>4. CASE DelayedPlay
  <2>1. UNCHANGED <<manualPause, manualPlay, hovered>> /\ delayed /\ delayed' = FALSE /\ Play
    BY <1>4 DEF DelayedPlay, manualVars
  <2>2. vars0.initDelay
    BY <2>1 DEF PlayPart, PlayInv
  <2>3. PlayTypes'
    BY <2>1, PlayTypesKept DEF PlayPart, PlayTypes
  <2> QED BY <1>0, <2>1, <2>2, <2>3 DEF PlayPart, OneInterval, PlayInv
<1>5. ASSUME NEW dir \in {"next", "prev"}, Navigate(dir) PROVE PlayPart'
  BY <1>5, RequestPauses, PausesPlay DEF Navigate
<1>6. ASSUME NEW target \in Slides, ClickDot(target) PROVE PlayPart'
  BY <1>6, RequestPauses, PausesPlay DEF ClickDot
<1>7. CASE AnimateSlides
  BY <1>7, RequestPauses, PausesPlay DEF AnimateSlides
<1>8. CASE Call
  <2>1. vars0.scripted /\ UNCHANGED <<vars0, manualPause, manualPlay, delayed, hovered>>
    BY <1>8 DEF Call, manualVars
  <2>2. Play \/ Pause \/ UNCHANGED playVars
    BY <1>8, RequestPauses DEF Call
  <2>3. PlayTypes'
    BY <2>1, <2>2, PlayTypesKept DEF PlayPart, PlayTypes
  <2> QED BY <2>1, <2>3 DEF PlayPart, OneInterval, PlayInv
<1>9. CASE AnimationEnd \/ StrayTransitionEnd \/ TouchMove
  BY <1>9, PausesPlay DEF AnimationEnd, StrayTransitionEnd, Wrapup, TouchMove
<1>10. CASE TouchStart
  BY <1>10, PausesPlay DEF TouchStart
<1>11. CASE TouchEnd
  <2>1. UNCHANGED <<vars0, manualVars, delayed, hovered>>
    BY <1>11 DEF TouchEnd
  <2>2. Pause \/ UNCHANGED playVars
    BY <1>11 DEF TouchEnd, Animate, PauseIf
  <2> QED BY <2>1, <2>2, PausesPlay
<1>12. CASE UNCHANGED vars
  BY <1>12, PausesPlay DEF vars
<1> QED BY <1>1, <1>2, <1>3, <1>4, <1>5, <1>6, <1>7, <1>8, <1>9, <1>10, <1>11, <1>12 DEF Next

-----------------------------------------------------------------------------
(* Every step keeps the invariant                                          *)

\* The values that the remaining variables may have.
OtherTypes ==
    /\ vars0 \in Options
    /\ moving \in BOOLEAN /\ bound \in BOOLEAN
    /\ direction \in {"next", "prev", None}
    /\ finger \in [on : BOOLEAN, dx : {"undefined", "null", "small", "next", "prev"},
                   scrolling : BOOLEAN, dragged : BOOLEAN]

LEMMA TypeParts == TypeOK <=> SlideTypes /\ PlayTypes /\ OtherTypes
BY DEF TypeOK, SlideTypes, PlayTypes, OtherTypes

\* The strip's flags, the direction and the finger.
LEMMA OtherStep ==
    ASSUME TypeOK, [Next]_vars
    PROVE  OtherTypes'
<1> DEFINE Fingers == [on : BOOLEAN, dx : {"undefined", "null", "small", "next", "prev"},
                       scrolling : BOOLEAN, dragged : BOOLEAN]
           Flags == moving' \in BOOLEAN /\ bound' \in BOOLEAN
           Directions == {"next", "prev", None}
<1>0. vars0' \in Options /\ finger \in Fingers /\ moving \in BOOLEAN /\ bound \in BOOLEAN /\ direction \in Directions
  BY StepKinds DEF TypeOK
<1>1. ASSUME NEW target, NEW dir, NEW pause, Animate(target, dir, pause) PROVE Flags
  BY <1>0, <1>1 DEF Animate
<1>2. ASSUME NEW target, NEW dir \in Directions, NEW pause, FlexAnimate(target, dir, pause)
      PROVE  Flags /\ direction' \in Directions /\ finger' \in Fingers
  BY <1>0, <1>1, <1>2 DEF FlexAnimate, slideVars
<1>3. Flags /\ direction' \in Directions /\ finger' \in Fingers
  <2>1. CASE HoverIn \/ HoverOut \/ ClickPausePlay \/ DelayedPlay
    BY <1>0, <2>1 DEF HoverIn, HoverOut, ClickPausePlay, DelayedPlay, slideVars
  <2>2. CASE \E dir \in {"next", "prev"} : Navigate(dir)
    BY <1>2, <2>2 DEF Navigate
  <2>3. CASE \E target \in Slides : ClickDot(target)
    BY <1>2, <2>3 DEF ClickDot
  <2>4. CASE AnimateSlides
    BY <1>2, <2>4 DEF AnimateSlides
  <2>5. CASE Call
    <3>1. CASE UNCHANGED <<slideVars, direction, finger>>
      BY <1>0, <3>1 DEF slideVars
    <3>2. ASSUME NEW dir \in {"next", "prev"}, FlexAnimate(GetTarget(dir), dir, TRUE)
          PROVE  Flags /\ direction' \in Directions /\ finger' \in Fingers
      BY <1>2, <3>2
    <3>3. ASSUME NEW target \in Slides, FlexAnimate(target, direction, TRUE)
          PROVE  Flags /\ direction' \in Directions /\ finger' \in Fingers
      BY <1>0, <1>2, <3>3
    <3> QED BY <2>5, <3>1, <3>2, <3>3 DEF Call
  <2>6. CASE AnimationEnd
    BY <1>0, <2>6 DEF AnimationEnd, Wrapup
  <2>7. CASE StrayTransitionEnd
    BY <1>0, <2>7 DEF StrayTransitionEnd, Wrapup
  <2>8. CASE TouchStart
    BY <1>0, <2>8 DEF TouchStart, slideVars
  <2>9. CASE TouchMove
    BY <1>0, <2>9 DEF TouchMove
  <2>10. CASE TouchEnd
    <3>1. Flags
      BY <1>0, <1>1, <2>10 DEF TouchEnd, slideVars
    <3>2. direction' \in Directions
      BY <1>0, <2>10 DEF TouchEnd
    <3>3. finger' \in Fingers
      BY <1>0, <2>10 DEF TouchEnd
    <3> QED BY <3>1, <3>2, <3>3
  <2>11. CASE UNCHANGED vars
    BY <1>0, <2>11 DEF vars, slideVars
  <2> QED BY <2>1, <2>2, <2>3, <2>4, <2>5, <2>6, <2>7, <2>8, <2>9, <2>10, <2>11 DEF Next
<1> QED BY <1>0, <1>3 DEF OtherTypes

\* Every callback keeps the invariant.
LEMMA StepInv == IInv /\ [Next]_vars => IInv'
<1> SUFFICES ASSUME IInv, [Next]_vars PROVE IInv'
  OBVIOUS
<1>0. TypeOK /\ DisplayPart /\ PlayPart
  BY TypeParts DEF IInv, DisplayPart, PlayPart
<1>1. DisplayPart'
  BY <1>0, StepKinds, RestsDisplay, BeginsDisplay, WrapupDisplay
<1>2. PlayPart' /\ OtherTypes'
  BY <1>0, PlayStep, OtherStep
<1>3. TypeOK'
  BY <1>1, <1>2 DEF DisplayPart, SlideTypes, PlayPart, PlayTypes, OtherTypes, TypeOK
<1> QED BY <1>1, <1>2, <1>3 DEF IInv, DisplayPart, PlayPart

LEMMA Invariant == Spec => []IInv
<1> QED BY InitInv, StepInv, PTL DEF Spec

-----------------------------------------------------------------------------
(* The theorems                                                            *)

\* Whatever the number of slides, the options and the order of callbacks, what is in
\* view at rest is the current slide, the lit dot is the slide shown or on its way,
\* and without initDelay and scripts the slideshow has one interval or none.
THEOREM SliderInvHolds == Spec => []SliderInv
<1> QED BY Invariant, InvImplies, PTL

\* Without animationLoop, nothing that moves to the next slide leaves the last one.
THEOREM StopsAtLastHolds == Spec => StopsAtLast
<1> DEFINE Stays == ~vars0.animationLoop /\ vars0.startAt # Last /\ currentSlide = Last /\ animatingTo = Last
                        /\ direction' = "next" => animatingTo' # 0
<1>1. ASSUME IInv, [Next]_vars PROVE [Stays]_vars
  <2> SUFFICES ASSUME ~vars0.animationLoop, vars0.startAt # Last, currentSlide = Last, animatingTo = Last,
                      direction' = "next"
               PROVE  animatingTo' # 0
    OBVIOUS
  <2>1. Last # 0
    BY FlexSliderAssumption DEF Last
  <2>2. TypeOK /\ atEnd
    BY <1>1 DEF IInv, AtEndInv
  <2>3. ASSUME NEW target, NEW dir, NEW pause, Begins(target, dir, pause) PROVE animatingTo' # 0
    BY <2>1, <2>2, <2>3 DEF Begins, Animate, CanAdvance
  <2>4. CASE Rests
    BY <2>1, <2>4 DEF Rests
  <2>5. ASSUME NEW rest, Wrapup(rest) PROVE animatingTo' # 0
    BY <2>1, <2>5 DEF Wrapup
  <2> QED BY <1>1, <2>2, <2>3, <2>4, <2>5, StepKinds
<1> QED BY <1>1, Invariant, PTL DEF Spec, StopsAtLast

\* Every callback is a step of the carousel or none: an animation begins only when
\* none is under way, or is over at once, and wrapup shows what it was for, or, when
\* a stray transition ends, what is shown already.
LEMMA CarouselStep ==
    ASSUME IInv, IInv', [Next]_vars
    PROVE  [RefinedCarousel!Next]_(RefinedCarousel!vars)
<1> USE DEF RefinedCarousel!vars
<1>0. TypeOK /\ TypeOK' /\ DotsAgree
  BY DEF IInv
<1>1. /\ animating \in BOOLEAN /\ animating' \in BOOLEAN
      /\ animatingTo \in Slides /\ animatingTo # None
      /\ animatingTo' \in Slides /\ animatingTo' # None
  BY <1>0, FlexSliderAssumption DEF TypeOK, Slides
<1>2. CASE Rests
  BY <1>2 DEF Rests
<1>3. ASSUME NEW target \in Slides, NEW dir, NEW pause, Begins(target, dir, pause)
      PROVE  RefinedCarousel!Next
  <2>1. /\ ~animating
        /\ animatingTo' = target
        /\ animating' = ~Immediate(target)
        /\ currentSlide' = IF Immediate(target) THEN target ELSE currentSlide
    BY <1>3 DEF Begins, Animate
  <2>2. RefinedCarousel!Begin(target) \/ RefinedCarousel!Cut(target)
    BY <2>1 DEF RefinedCarousel!Begin, RefinedCarousel!Cut
  <2> QED BY <2>2 DEF RefinedCarousel!Next
<1>4. ASSUME NEW rest, Wrapup(rest)
      PROVE  [RefinedCarousel!Next]_(RefinedCarousel!vars)
  <2>1. animating' = FALSE /\ currentSlide' = animatingTo /\ animatingTo' = animatingTo
    BY <1>4 DEF Wrapup, Reopen, Arrive
  <2>2. CASE animating
    BY <1>1, <2>1, <2>2 DEF RefinedCarousel!Next, RefinedCarousel!End
  <2>3. CASE ~animating
    BY <1>0, <2>1, <2>3 DEF DotsAgree
  <2> QED BY <1>1, <2>2, <2>3
<1> QED BY <1>0, <1>2, <1>3, <1>4, StepKinds

\* With clones or without, fading or moving, the slider implements the safety part of
\* Carousel: it shows one slide or is on its way to another, which was asked for when
\* nothing else was under way.
THEOREM CarouselHolds == Spec => ImplementsCarousel
<1>1. Init => RefinedCarousel!Init
  BY FlexSliderAssumption DEF Init, Options, RefinedCarousel!Init
<1> QED BY <1>1, Invariant, CarouselStep, PTL DEF Spec, ImplementsCarousel, RefinedCarousel!Safe
=============================================================================
