------------------------- MODULE RefineSlideProofs -------------------------
(***************************************************************************)
(* RefineSlide for any number of slides: between transitions the current   *)
(* slide and no other is shown, setup waits for all images, the slideshow  *)
(* is never left without a timeout, and the slider is a carousel.          *)
(***************************************************************************)
EXTENDS RefineSlide, FiniteSetTheorems, TLAPS

-----------------------------------------------------------------------------
(* The inductive invariant                                                 *)

\* "loaded" has each image once, and only images that have reported.
ImagesInv ==
    /\ \A i \in DOMAIN loaded : loaded[i] \in arrived
    /\ \A i, j \in DOMAIN loaded : loaded[i] = loaded[j] => i = j

Hidden == [opacity |-> 0, z |-> 0]
Shown == [opacity |-> 1, z |-> 2]

\* Between transitions the current slide alone may be seen, and is since setup.
RestInv ==
    ~inProgress =>
        /\ step.pc = "none"
        /\ currentPlace = currentSlide
        /\ \A s \in Slides : s # currentSlide => css[s] = Hidden
        /\ css[currentSlide] \in {Hidden, Shown}
        /\ stage = "ready" => css[currentSlide] = Shown
        /\ captions = {currentSlide}
        /\ grid = None

\* During one, its two slides are different ones and the others are hidden.
TransitionInv ==
    inProgress =>
        /\ nextSlide = currentPlace
        /\ nextSlide # currentSlide
        /\ \A s \in Slides \ {currentSlide, nextSlide} : css[s] = Hidden
        /\ captions = {nextSlide}

IInv == TypeOK /\ ImagesInv /\ SetupAfterImages /\ RestInv /\ TransitionInv /\ SlideshowArmed

\* The invariant says what the page promises.
LEMMA InvImplies == IInv => SliderInv
<1> SUFFICES ASSUME IInv, stage = "ready", ~inProgress
             PROVE  /\ css = [s \in Slides |-> IF s = currentPlace THEN Shown ELSE Hidden]
                    /\ captions = {currentPlace}
                    /\ grid = None
  BY DEF IInv, SliderInv, OneSlideShown, Shown, Hidden
<1>1. css = [s \in Slides |-> css[s]]
  BY DEF IInv, TypeOK
<1>2. \A s \in Slides : css[s] = IF s = currentPlace THEN Shown ELSE Hidden
  BY DEF IInv, RestInv
<1> QED BY <1>1, <1>2 DEF IInv, RestInv

-----------------------------------------------------------------------------
(* The images                                                              *)

ImagesPart ==
    /\ arrived \subseteq Slides
    /\ loaded \in Seq(Slides)
    /\ stage \in {"loading", "doneLoading", "clones", "ready"}
    /\ ImagesInv
    /\ SetupAfterImages

\* As many different images as there are slides are all of them.
LEMMA AllCounted ==
    ASSUME NEW seq \in Seq(Slides), Len(seq) = TotalSlides,
           \A i, j \in DOMAIN seq : seq[i] = seq[j] => i = j
    PROVE  \A s \in Slides : \E i \in DOMAIN seq : seq[i] = s
<1>0. TotalSlides \in Nat
  BY RefineSlideAssumption
<1>1. DOMAIN seq = 1..TotalSlides
  OBVIOUS
<1>2. seq \in Injection(1..TotalSlides, Slides)
  BY <1>1 DEF Injection, IsInjective
<1>3. IsFiniteSet(Slides) /\ Cardinality(Slides) = TotalSlides
  BY <1>0, FS_Interval DEF Slides
<1>4. Cardinality(1..TotalSlides) = TotalSlides
  BY <1>0, FS_Interval
<1>5. seq \in Surjection(1..TotalSlides, Slides)
  BY <1>2, <1>3, <1>4, FS_Injection
<1> QED BY <1>1, <1>5 DEF Surjection

\* Counting an image keeps the count right; the last one makes it complete.
LEMMA ImageEventKeeps ==
    ASSUME ImagesPart, NEW img \in Slides, ImageEvent(img)
    PROVE  ImagesPart'
<1>1. arrived' = arrived \cup {img}
  BY DEF ImageEvent
<1>2. loaded' \in Seq(Slides) /\ ImagesInv'
  <2>1. CASE \E i \in DOMAIN loaded : loaded[i] = img
    <3>1. loaded' = loaded
      BY <2>1 DEF ImageEvent, ImgLoaded
    <3> QED BY <1>1, <3>1 DEF ImagesPart, ImagesInv
  <2>2. CASE \A i \in DOMAIN loaded : loaded[i] # img
    <3>1. loaded' = Append(loaded, img)
      BY <2>2 DEF ImageEvent, ImgLoaded
    <3>2. /\ loaded' \in Seq(Slides)
          /\ DOMAIN loaded = 1..Len(loaded)
          /\ DOMAIN loaded' = 1..(Len(loaded) + 1)
          /\ \A i \in 1..Len(loaded) : loaded'[i] = loaded[i]
          /\ loaded'[Len(loaded) + 1] = img
      BY <3>1 DEF ImagesPart
    <3>3. Len(loaded) \in Nat
      BY DEF ImagesPart
    <3>4. \A i \in DOMAIN loaded' : i \in DOMAIN loaded \/ i = Len(loaded) + 1
      BY <3>2, <3>3
    <3>5. \A i \in DOMAIN loaded' : loaded'[i] \in arrived'
      BY <1>1, <3>2, <3>4 DEF ImagesPart, ImagesInv
    <3>6. \A i, j \in DOMAIN loaded' : loaded'[i] = loaded'[j] => i = j
      BY <2>2, <3>2, <3>4 DEF ImagesPart, ImagesInv
    <3> QED BY <3>2, <3>5, <3>6 DEF ImagesInv
  <2> QED BY <2>1, <2>2
<1>3. SetupAfterImages' /\ stage' \in {"loading", "doneLoading"}
  <2>1. stage' = IF Len(loaded') = TotalSlides THEN "doneLoading" ELSE "loading"
    BY DEF ImageEvent, ImgLoaded, NextStage
  <2>2. ASSUME Len(loaded') = TotalSlides PROVE arrived' = Slides
    <3>1. \A s \in Slides : \E i \in DOMAIN loaded' : loaded'[i] = s
      BY <1>2, <2>2, AllCounted DEF ImagesInv
    <3> QED BY <1>1, <1>2, <3>1 DEF ImagesPart, ImagesInv
  <2> QED BY <2>1, <2>2 DEF SetupAfterImages
<1> QED BY <1>1, <1>2, <1>3 DEF ImagesPart

\* Nothing else counts images, and setup is asked for by doneLoading alone.
LEMMA ImagesStep ==
    ASSUME ImagesPart, [Next]_vars
    PROVE  ImagesPart' /\ (stage' = "ready" => stage = "ready" \/ Setup)
<1>1. ASSUME NEW img \in Slides, ImageEvent(img) PROVE ImagesPart' /\ stage' # "ready"
  BY <1>1, ImageEventKeeps DEF ImageEvent, ImgLoaded, NextStage
<1>2. CASE DoneLoading
  BY <1>2 DEF DoneLoading, ImagesPart, ImagesInv, SetupAfterImages
<1>3. CASE Setup
  BY <1>3 DEF Setup, ImagesPart, ImagesInv, SetupAfterImages
<1>4. CASE UNCHANGED imageVars
  BY <1>4 DEF imageVars, ImagesPart, ImagesInv, SetupAfterImages
<1>5. CASE Execute
  BY <1>4, <1>5 DEF Execute
<1>6. CASE TransitionEnd
  BY <1>4, <1>6 DEF TransitionEnd
<1> QED BY <1>1, <1>2, <1>3, <1>4, <1>5, <1>6
        DEF Next, MouseEnter, MouseLeave, Navigate, ClickThumb, ClickTrigger, CyclingFires, vars

-----------------------------------------------------------------------------
(* What is shown                                                           *)

ShownTypes ==
    /\ currentPlace \in Slides
    /\ currentSlide \in Slides
    /\ nextSlide \in Slides \cup {None}
    /\ inProgress \in BOOLEAN
    /\ step \in [kind : Anims, pc : {"none", "setup", "running"}, ends : BOOLEAN]
    /\ css \in [Slides -> [opacity : 0..1, z : 0..2]]
    /\ captions \subseteq Slides
    /\ grid \in Slides \cup {None}
    /\ thumb \in Slides \cup {None}

ShownPart == ShownTypes /\ RestInv /\ TransitionInv

\* The slides next to the current one exist.
LEMMA PlacesExist ==
    ASSUME ShownTypes
    PROVE  /\ NextPlace \in Slides /\ NextPlace # currentPlace
           /\ PrevPlace \in Slides
BY RefineSlideAssumption DEF ShownTypes, NextPlace, PrevPlace, Slides

\* A transition starts between the current slide and another one.
LEMMA TransitionKeeps ==
    ASSUME ShownPart, settings \in Settings, NEW slideNum \in Slides, Accepts(slideNum), Transition(slideNum)
    PROVE  ShownPart'
<1>1. /\ ~inProgress /\ slideNum # currentPlace
      /\ nextSlide' = slideNum /\ currentPlace' = slideNum /\ inProgress' = TRUE
      /\ currentSlide' = currentSlide
      /\ thumb' = IF thumb = None THEN None ELSE slideNum
  BY DEF Accepts, Transition
<1>2. PICK kind \in {Played(k) : k \in Choices} : Before(kind, slideNum)
  BY DEF Transition
<1>3. kind \in Anims
  BY <1>2 DEF Played, Anims
<1>4. css[currentSlide].opacity \in 0..1 /\ css[currentSlide].z \in 0..2
  BY DEF ShownPart, ShownTypes
<1> DEFINE old == [opacity |-> IF ~settings.cssTransitions THEN 0 ELSE css[currentSlide].opacity, z |-> 2]
<1>5. old \in [opacity : 0..1, z : 0..2] /\ [opacity |-> 1, z |-> 1] \in [opacity : 0..1, z : 0..2]
  BY <1>4
<1>6. css' = [css EXCEPT ![currentSlide] = old, ![slideNum] = [opacity |-> 1, z |-> 1]]
  BY <1>2 DEF Before
<1> HIDE DEF old
<1>7. /\ css' \in [Slides -> [opacity : 0..1, z : 0..2]]
      /\ \A s \in Slides \ {currentSlide, slideNum} : css'[s] = css[s]
  BY <1>5, <1>6 DEF ShownPart, ShownTypes
<1>8. step' \in [kind : Anims, pc : {"none", "setup", "running"}, ends : BOOLEAN]
  <2>1. settings.cssTransitions \in BOOLEAN
    BY DEF Settings
  <2> QED BY <1>2, <1>3, <2>1 DEF Before
<1>9. captions' = {slideNum} /\ captions' \subseteq Slides
  BY <1>1, <1>2 DEF Before, ShownPart, RestInv
<1>10. grid' \in Slides \cup {None}
  BY <1>2 DEF Before, Gridlets, ShownPart, ShownTypes
<1>11. ShownTypes'
  BY <1>1, <1>7, <1>8, <1>9, <1>10 DEF ShownPart, ShownTypes
<1>12. RestInv'
  BY <1>1 DEF RestInv
<1>13. TransitionInv'
  <2>1. \A s \in Slides \ {currentSlide, slideNum} : css'[s] = Hidden
    BY <1>1, <1>7 DEF ShownPart, RestInv
  <2>2. slideNum # currentSlide
    BY <1>1 DEF ShownPart, RestInv
  <2> QED BY <1>1, <1>9, <2>1, <2>2 DEF TransitionInv, Hidden
<1> QED BY <1>11, <1>12, <1>13 DEF ShownPart

\* The timeout of a transition changes the style of the slide that leaves.
LEMMA ExecuteKeeps ==
    ASSUME ShownPart, settings \in Settings, Execute
    PROVE  ShownPart'
<1>1. /\ step.pc = "setup"
      /\ step' = [step EXCEPT !.pc = "running", !.ends = EndComes]
      /\ css' = IF step.kind = "fade" THEN [css EXCEPT ![currentSlide].opacity = 0] ELSE css
      /\ UNCHANGED <<currentPlace, currentSlide, nextSlide, inProgress, captions, grid, thumb>>
  BY DEF Execute
<1>2. inProgress
  BY <1>1 DEF ShownPart, RestInv
<1>3. EndComes \in BOOLEAN
  BY DEF EndComes, Settings
<1>4. step' \in [kind : Anims, pc : {"none", "setup", "running"}, ends : BOOLEAN]
  BY <1>1, <1>3 DEF ShownPart, ShownTypes
<1>5. /\ css' \in [Slides -> [opacity : 0..1, z : 0..2]]
      /\ \A s \in Slides \ {currentSlide} : css'[s] = css[s]
  BY <1>1 DEF ShownPart, ShownTypes
<1>6. ShownTypes'
  BY <1>1, <1>4, <1>5 DEF ShownPart, ShownTypes
<1>7. RestInv' /\ TransitionInv'
  BY <1>1, <1>2, <1>5 DEF ShownPart, RestInv, TransitionInv, Hidden
<1> QED BY <1>6, <1>7 DEF ShownPart

\* The end of a transition leaves the slide that was asked for, and it alone.
LEMMA TransitionEndKeeps ==
    ASSUME ShownPart, TransitionEnd
    PROVE  ShownPart'
<1>1. /\ step.pc = "running"
      /\ css' = [css EXCEPT ![currentSlide] = Hidden, ![nextSlide] = Shown]
      /\ grid' = None /\ currentSlide' = nextSlide /\ inProgress' = FALSE
      /\ step' = NoStep
      /\ UNCHANGED <<currentPlace, nextSlide, captions, thumb>>
  BY DEF TransitionEnd, ResetStyles, ArriveAt, Reopen, Hidden, Shown
<1>2. /\ nextSlide = currentPlace
      /\ nextSlide # currentSlide
      /\ nextSlide \in Slides
      /\ \A s \in Slides \ {currentSlide, nextSlide} : css[s] = Hidden
      /\ captions = {nextSlide}
  BY <1>1 DEF ShownPart, ShownTypes, RestInv, TransitionInv
<1>3. Hidden \in [opacity : 0..1, z : 0..2] /\ Shown \in [opacity : 0..1, z : 0..2]
  BY DEF Hidden, Shown
<1>4. /\ css' \in [Slides -> [opacity : 0..1, z : 0..2]]
      /\ css'[nextSlide] = Shown
      /\ \A s \in Slides \ {nextSlide} : css'[s] = Hidden
  BY <1>1, <1>2, <1>3 DEF ShownPart, ShownTypes
<1>5. NoStep \in [kind : Anims, pc : {"none", "setup", "running"}, ends : BOOLEAN] /\ NoStep.pc = "none"
  BY DEF NoStep, Anims
<1>6. ShownTypes'
  BY <1>1, <1>2, <1>4, <1>5 DEF ShownPart, ShownTypes
<1>7. RestInv'
  BY <1>1, <1>2, <1>4, <1>5 DEF RestInv, Hidden, Shown
<1>8. TransitionInv'
  BY <1>1 DEF TransitionInv
<1> QED BY <1>6, <1>7, <1>8 DEF ShownPart

\* setup shows the current slide, whether a transition is in progress or not.
LEMMA SetupKeeps ==
    ASSUME ShownPart, Setup
    PROVE  ShownPart'
<1>1. /\ thumb' = IF settings.controls = "thumbs" THEN StartSlide ELSE None
      /\ css' = [css EXCEPT ![currentSlide] = Shown]
      /\ step' = IF step.pc = "running" THEN [step EXCEPT !.ends = TRUE] ELSE step
      /\ UNCHANGED <<currentPlace, currentSlide, nextSlide, inProgress, captions, grid>>
  BY DEF Setup, Shown
<1>2. Shown \in [opacity : 0..1, z : 0..2]
  BY DEF Shown
<1>3. /\ css' \in [Slides -> [opacity : 0..1, z : 0..2]]
      /\ css'[currentSlide] = Shown
      /\ \A s \in Slides \ {currentSlide} : css'[s] = css[s]
  BY <1>1, <1>2 DEF ShownPart, ShownTypes
<1>4. step' \in [kind : Anims, pc : {"none", "setup", "running"}, ends : BOOLEAN] /\ step'.pc = step.pc
  BY <1>1 DEF ShownPart, ShownTypes
<1>5. thumb' \in Slides \cup {None}
  BY <1>1, RefineSlideAssumption
<1>6. ShownTypes'
  BY <1>1, <1>3, <1>4, <1>5 DEF ShownPart, ShownTypes
<1>7. RestInv' /\ TransitionInv'
  BY <1>1, <1>3, <1>4 DEF ShownPart, RestInv, TransitionInv, Hidden, Shown
<1> QED BY <1>6, <1>7 DEF ShownPart

\* A step that changes none of these, and does not make the slider ready.
LEMMA UntouchedKeeps ==
    ASSUME ShownPart, UNCHANGED <<slideVars, viewVars>>, stage' = "ready" => stage = "ready"
    PROVE  ShownPart'
BY DEF ShownPart, ShownTypes, RestInv, TransitionInv, slideVars, viewVars, Hidden, Shown

\* Every step keeps this part.
LEMMA ShownStep ==
    ASSUME TypeOK, ImagesPart, ShownPart, [Next]_vars
    PROVE  ShownPart'
<1>0. settings \in Settings /\ ShownTypes /\ (stage' = "ready" => stage = "ready" \/ Setup)
  BY ImagesStep DEF TypeOK, ShownPart
<1>1. ASSUME NEW img \in Slides, ImageEvent(img) PROVE ShownPart'
  <2>1. stage' # "ready"
    BY <1>1 DEF ImageEvent, ImgLoaded, NextStage
  <2> QED BY <1>1, <2>1, UntouchedKeeps DEF ImageEvent
<1>2. CASE DoneLoading
  BY <1>2, UntouchedKeeps DEF DoneLoading
<1>3. CASE MouseEnter \/ MouseLeave
  BY <1>3, UntouchedKeeps DEF MouseEnter, MouseLeave, imageVars
<1>4. CASE Navigate
  BY <1>0, <1>4, PlacesExist, TransitionKeeps DEF Navigate
<1>5. ASSUME NEW slideNum \in Slides, ClickThumb(slideNum) PROVE ShownPart'
  BY <1>0, <1>5, TransitionKeeps DEF ClickThumb
<1>6. ASSUME NEW kind, ClickTrigger(kind) PROVE ShownPart'
  BY <1>6, UntouchedKeeps DEF ClickTrigger, imageVars
<1>7. CASE CyclingFires
  BY <1>0, <1>7, PlacesExist, TransitionKeeps, UntouchedKeeps DEF CyclingFires, imageVars
<1>8. CASE UNCHANGED vars
  BY <1>8, UntouchedKeeps DEF vars, imageVars
<1> QED BY <1>0, <1>1, <1>2, <1>3, <1>4, <1>5, <1>6, <1>7, <1>8, ExecuteKeeps, TransitionEndKeeps, SetupKeeps DEF Next

-----------------------------------------------------------------------------
(* The timeouts of the slideshow                                           *)

TimerPart ==
    /\ settings \in Settings
    /\ transition \in Anims \cup {"random"}
    /\ cycling \in BOOLEAN
    /\ hovered \in BOOLEAN
    /\ lost \in 0..MaxLost
    /\ SlideshowArmed

\* A timeout that fires starts a transition, whose end sets the next one.
LEMMA TimerStep ==
    ASSUME TimerPart, ShownTypes, [Next]_vars
    PROVE  TimerPart'
<1>0. MaxLost \in Nat
  BY RefineSlideAssumption
<1>1. ASSUME NEW img \in Slides, ImageEvent(img) PROVE TimerPart'
  BY <1>1 DEF ImageEvent, TimerPart, SlideshowArmed, timerVars, slideVars
<1>2. CASE DoneLoading \/ Setup \/ Execute
  BY <1>2 DEF DoneLoading, Setup, Execute, TimerPart, SlideshowArmed, timerVars, slideVars
<1>3. CASE MouseEnter
  BY <1>3 DEF MouseEnter, TimerPart, SlideshowArmed
<1>4. CASE MouseLeave
  <2>1. UNCHANGED <<settings, transition>> /\ cycling' = TRUE /\ hovered' = FALSE
    BY <1>4 DEF MouseLeave, SetAutoPlay
  <2>2. lost < MaxLost /\ lost' \in {lost, lost + 1}
    BY <1>4 DEF MouseLeave, SetAutoPlay
  <2>3. lost' \in 0..MaxLost
    BY <1>0, <2>2 DEF TimerPart
  <2> QED BY <2>1, <2>3 DEF TimerPart, SlideshowArmed
<1>5. CASE Navigate
  BY <1>5 DEF Navigate, Transition, TimerPart, SlideshowArmed, timerVars
<1>6. ASSUME NEW slideNum \in Slides, ClickThumb(slideNum) PROVE TimerPart'
  BY <1>6 DEF ClickThumb, Transition, TimerPart, SlideshowArmed, timerVars
<1>7. ASSUME NEW kind \in Anims \cup {"random"}, ClickTrigger(kind) PROVE TimerPart'
  BY <1>7 DEF ClickTrigger, TimerPart, SlideshowArmed, timerVars, slideVars
<1>8. CASE CyclingFires
  <2>1. UNCHANGED <<settings, transition, hovered>>
    BY <1>8 DEF CyclingFires
  <2>2. inProgress'
    BY <1>8, PlacesExist DEF CyclingFires, Accepts, Transition, slideVars
  <2>3. cycling' \in BOOLEAN
    BY <1>8 DEF CyclingFires, TimerPart
  <2>4. lost' = lost \/ (lost > 0 /\ lost' = lost - 1)
    BY <1>8 DEF CyclingFires
  <2>5. lost' \in 0..MaxLost
    BY <1>0, <2>4 DEF TimerPart
  <2> QED BY <2>1, <2>2, <2>3, <2>5 DEF TimerPart, SlideshowArmed
<1>9. CASE TransitionEnd
  BY <1>9 DEF TransitionEnd, RestartSlideshow, TimerPart, SlideshowArmed, Settings
<1>10. CASE UNCHANGED vars
  BY <1>10 DEF vars, TimerPart, SlideshowArmed, timerVars, slideVars
<1> QED BY <1>1, <1>2, <1>3, <1>4, <1>5, <1>6, <1>7, <1>8, <1>9, <1>10 DEF Next

-----------------------------------------------------------------------------
(* The invariant and the theorems                                          *)

LEMMA Parts == IInv <=> ImagesPart /\ ShownPart /\ TimerPart
BY DEF IInv, TypeOK, ImagesPart, ShownPart, ShownTypes, TimerPart

\* Whatever the settings, whether or not the images are there already.
LEMMA InitInv == Init => IInv
<1> SUFFICES ASSUME Init PROVE ImagesPart /\ ShownPart /\ TimerPart
  BY Parts
<1>0. TotalSlides \in Nat /\ TotalSlides > 1 /\ StartSlide \in Slides /\ MaxLost \in Nat
  BY RefineSlideAssumption
<1>1. ImagesPart
  <2>1. CASE arrived = {}
    <3>1. loaded = <<>> /\ stage = "loading"
      BY <1>0, <2>1 DEF Init, NextStage
    <3> QED BY <2>1, <3>1 DEF ImagesPart, ImagesInv, SetupAfterImages
  <2>2. CASE arrived # {}
    <3>1. arrived = Slides /\ loaded = [i \in 1..TotalSlides |-> i - 1]
      BY <2>2 DEF Init
    <3>2. \A i \in 1..TotalSlides : i - 1 \in Slides
      BY <1>0 DEF Slides
    <3>3. loaded \in [1..TotalSlides -> Slides]
      BY <3>1, <3>2
    <3>4. loaded \in Seq(Slides)
      BY <1>0, <3>3
    <3>5. ImagesInv
      BY <1>0, <3>1, <3>2 DEF ImagesInv
    <3>6. stage \in {"loading", "doneLoading"}
      BY DEF Init, NextStage
    <3> QED BY <3>1, <3>4, <3>5, <3>6 DEF ImagesPart, SetupAfterImages
  <2> QED BY <2>1, <2>2
<1>2. ShownPart
  <2>1. step \in [kind : Anims, pc : {"none", "setup", "running"}, ends : BOOLEAN] /\ step.pc = "none"
    BY DEF Init, NoStep, Anims
  <2>2. css = [s \in Slides |-> Hidden] /\ Hidden \in [opacity : 0..1, z : 0..2]
    BY DEF Init, Hidden
  <2>3. stage # "ready"
    BY DEF Init, NextStage
  <2>4. css \in [Slides -> [opacity : 0..1, z : 0..2]] /\ \A s \in Slides : css[s] = Hidden
    BY <2>2
  <2>5. /\ currentPlace = StartSlide /\ currentSlide = StartSlide /\ nextSlide = None /\ inProgress = FALSE
        /\ captions = {StartSlide} /\ grid = None /\ thumb = None
    BY DEF Init
  <2>6. ShownTypes
    BY <1>0, <2>1, <2>4, <2>5 DEF ShownTypes
  <2>7. RestInv /\ TransitionInv
    BY <1>0, <2>1, <2>3, <2>4, <2>5 DEF RestInv, TransitionInv
  <2> QED BY <2>6, <2>7 DEF ShownPart
<1>3. TimerPart
  <2>1. settings \in Settings /\ settings.autoPlay \in BOOLEAN
    BY DEF Init, Settings
  <2>2. transition = "cube" /\ cycling = settings.autoPlay /\ lost = 0 /\ hovered = FALSE
    BY DEF Init
  <2>3. SlideshowArmed
    BY <2>2 DEF SlideshowArmed
  <2>4. lost \in 0..MaxLost /\ transition \in Anims
    BY <1>0, <2>2 DEF Anims
  <2> QED BY <2>1, <2>2, <2>3, <2>4 DEF TimerPart
<1> QED BY <1>1, <1>2, <1>3

\* Every callback keeps the invariant.
LEMMA StepInv == IInv /\ [Next]_vars => IInv'
<1> SUFFICES ASSUME IInv, [Next]_vars PROVE ImagesPart' /\ ShownPart' /\ TimerPart'
  <2>1. IInv' <=> ImagesPart' /\ ShownPart' /\ TimerPart'
    BY DEF IInv, TypeOK, ImagesPart, ShownPart, ShownTypes, TimerPart
  <2> QED BY <2>1
<1>1. TypeOK /\ ImagesPart /\ ShownPart /\ ShownTypes /\ TimerPart
  BY Parts DEF IInv, ShownPart
<1> QED BY <1>1, ImagesStep, ShownStep, TimerStep

LEMMA Invariant == Spec => []IInv
<1> QED BY InitInv, StepInv, PTL DEF Spec

\* However late the images load, whatever is clicked while they do, whichever
\* fallback a transition is played as and however often the pointer comes and goes:
\* between transitions one slide is shown, setup has waited for all images, and a
\* slideshow that nobody holds up has its timeout pending.
THEOREM SliderInvHolds == Spec => []SliderInv
<1> QED BY Invariant, InvImplies, PTL

\* Every callback is a step of the carousel or none.
LEMMA CarouselStep ==
    ASSUME IInv, [Next]_vars
    PROVE  [RefinedCarousel!Next]_(RefinedCarousel!vars)
<1> USE DEF RefinedCarousel!vars
<1>0. ShownTypes /\ RestInv /\ TransitionInv /\ None \notin Slides
  BY Parts, RefineSlideAssumption DEF ShownPart
<1>1. ASSUME NEW slideNum \in Slides, Accepts(slideNum), Transition(slideNum)
      PROVE  RefinedCarousel!Next
  <2>1. RefinedCarousel!Begin(slideNum)
    BY <1>0, <1>1 DEF Accepts, Transition, RefinedCarousel!Begin
  <2> QED BY <2>1 DEF RefinedCarousel!Next
<1>2. CASE UNCHANGED slideVars
  BY <1>2 DEF slideVars
<1>3. CASE Navigate
  BY <1>0, <1>1, <1>3, PlacesExist DEF Navigate
<1>4. ASSUME NEW slideNum \in Slides, ClickThumb(slideNum) PROVE [RefinedCarousel!Next]_(RefinedCarousel!vars)
  BY <1>1, <1>4 DEF ClickThumb
<1>5. CASE CyclingFires
  BY <1>0, <1>1, <1>2, <1>5, PlacesExist DEF CyclingFires
<1>6. CASE TransitionEnd
  <2>1. inProgress /\ nextSlide = currentPlace /\ currentPlace # None
    BY <1>0, <1>6 DEF TransitionEnd, RestInv, TransitionInv, ShownTypes
  <2>2. currentSlide' = nextSlide /\ inProgress' = FALSE
    BY <1>6 DEF TransitionEnd, ArriveAt, Reopen
  <2> QED BY <2>1, <2>2 DEF RefinedCarousel!Next, RefinedCarousel!End
<1>7. CASE Execute \/ Setup
  BY <1>7 DEF Execute, Setup
<1> QED BY <1>2, <1>3, <1>4, <1>5, <1>6, <1>7
        DEF Next, ImageEvent, DoneLoading, MouseEnter, MouseLeave, ClickTrigger, vars

\* The slider implements the safety part of Carousel for any number of slides: a
\* request made during a transition changes nothing, and a transition ends with
\* the slide that it was made for.
THEOREM SafeCarousel == Spec => RefinedCarousel!Safe
<1>1. Init => RefinedCarousel!Init
  BY RefineSlideAssumption DEF Init, RefinedCarousel!Init
<1> QED BY <1>1, Invariant, CarouselStep, PTL DEF Spec, RefinedCarousel!Safe
=============================================================================
