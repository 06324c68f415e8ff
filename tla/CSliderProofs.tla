--------------------------- MODULE CSliderProofs ---------------------------
(***************************************************************************)
(* CSlider for any number of slides: exactly the current slide is in view  *)
(* between moves, the slideshow's timeout is pending exactly while         *)
(* autoplay is on, and the slider is a carousel.                           *)
(***************************************************************************)
EXTENDS CSlider, TLAPS

-----------------------------------------------------------------------------
(* The inductive invariant                                                 *)

\* With CSS animations the classes are changed when a move begins, so that the
\* current slide is the one in view during the move too.
AnimatedView == cssAnimations => \A s \in Slides : InView(s) <=> s = current

\* Without them only the two slides of a move are under way, and nothing else
\* is in view.
FallbackView ==
    ~cssAnimations =>
        /\ ~isAnimating => \A s \in Slides : InView(s) <=> s = current
        /\ isAnimating => \A s \in Slides : InView(s) => s \in {leaving, current}

\* A move is between two different slides, and its dot is marked at once.
MoveInv == (isAnimating => leaving # current) /\ dot = current

IInv == TypeOK /\ AnimatedView /\ FallbackView /\ MoveInv /\ SlideshowArmed

-----------------------------------------------------------------------------
(* Lemmas                                                                  *)

\* The invariant says what the page promises.
LEMMA InvImplies == IInv => SliderInv
<1> SUFFICES ASSUME IInv, ~isAnimating PROVE {s \in Slides : InView(s)} = Eq(current) /\ dot = current
  BY DEF IInv, SliderInv, OneSlideInView
<1>1. \A s \in Slides : InView(s) <=> s = current
  BY DEF IInv, AnimatedView, FallbackView, TypeOK
<1> QED BY <1>1 DEF IInv, MoveInv, Eq

\* Whatever the options and the number of slides, the page starts in it.
LEMMA InitInv == Init => IInv
<1> SUFFICES ASSUME Init PROVE IInv
  OBVIOUS
<1>1. TypeOK
  <2>1. slidesCount \in 0..MaxSlides /\ {cssAnimations, autoplay, isAnimating, slideshow} \subseteq BOOLEAN
    BY DEF Init
  <2>2. current \in IF slidesCount = 0 THEN {-1, 0} ELSE Slides
    BY CSliderAssumption DEF Init, Slides
  <2>3. current \in Indices /\ leaving = current /\ dot = current /\ marked \subseteq Slides
    BY CSliderAssumption DEF Init, Indices, Eq
  <2>4. /\ classes \in [0..(MaxSlides - 1) -> SUBSET {"to", "from"}]
        /\ left \in [0..(MaxSlides - 1) -> {"unset", "moving", "here", "away"}]
    BY DEF Init
  <2> QED BY <2>1, <2>2, <2>3, <2>4 DEF TypeOK
<1>2. AnimatedView /\ FallbackView /\ MoveInv /\ SlideshowArmed
  BY CSliderAssumption DEF Init, AnimatedView, FallbackView, MoveInv, SlideshowArmed, InView, Slides, Eq
<1> QED BY <1>1, <1>2 DEF IInv

\* The arrows lead to slides that exist, if there are any.
LEMMA PagesExist ==
    ASSUME TypeOK
    PROVE  \A page \in {NextPage, PrevPage} :
             /\ page \in Indices
             /\ page \in IF slidesCount = 0 THEN {-1, 0} ELSE Slides
BY CSliderAssumption DEF TypeOK, NextPage, PrevPage, Slides, Indices

\* What a request for a page keeps, whoever makes it.
LEMMA NavigateInv ==
    ASSUME IInv, NEW page, page \in IF slidesCount = 0 THEN {-1, 0} ELSE Slides, page \in Indices,
           Navigate(page), UNCHANGED <<slidesCount, cssAnimations>>,
           autoplay' \in BOOLEAN, slideshow' = autoplay'
    PROVE  IInv'
<1>1. CASE current = page \/ isAnimating
  BY <1>1, CSliderAssumption
     DEF IInv, Navigate, slideVars, viewVars, TypeOK, AnimatedView, FallbackView, MoveInv, SlideshowArmed, InView,
         Slides, Indices
<1>2. CASE ~(current = page \/ isAnimating)
  <2>1. /\ isAnimating' = TRUE /\ leaving' = current /\ current' = page /\ dot' = page
        /\ IF cssAnimations THEN Restyle(page) ELSE Fallback(page)
    BY <1>2 DEF Navigate
  <2>2. TypeOK'
    <3>1. marked' \subseteq Slides
      BY <2>1 DEF IInv, TypeOK, Restyle, Fallback, Eq
    <3>2. classes' \in [0..(MaxSlides - 1) -> SUBSET {"to", "from"}]
      BY <2>1 DEF IInv, TypeOK, Restyle, Fallback
    <3>3. left' \in [0..(MaxSlides - 1) -> {"unset", "moving", "here", "away"}]
      BY <2>1 DEF IInv, TypeOK, Restyle, Fallback
    <3>4. current \in Indices
      BY CSliderAssumption DEF IInv, TypeOK, Slides, Indices
    <3> QED BY <2>1, <3>1, <3>2, <3>3, <3>4 DEF IInv, TypeOK, Slides
  <2>3. AnimatedView'
    <3> SUFFICES ASSUME cssAnimations, NEW s \in Slides PROVE InView(s)' <=> s = page
      BY <2>1 DEF AnimatedView, Slides
    <3>1. s \in DOMAIN classes
      BY CSliderAssumption DEF IInv, TypeOK, Slides
    <3>2. /\ classes'[s] = IF s = current THEN {"to"} ELSE IF s = page THEN {"from"} ELSE classes[s]
          /\ s \notin {current, page} => (s \in marked' <=> s \in marked)
      BY <2>1, <3>1 DEF Restyle, Eq
    <3>3. s # current => ~InView(s)
      BY DEF IInv, AnimatedView
    <3> QED BY <1>2, <3>2, <3>3 DEF InView
  <2>4. FallbackView'
    <3> SUFFICES ASSUME ~cssAnimations, NEW s \in Slides, s \notin {current, page} PROVE ~InView(s)'
      BY <2>1 DEF FallbackView, Slides
    <3>1. s \in DOMAIN left
      BY CSliderAssumption DEF IInv, TypeOK, Slides
    <3>2. left'[s] = left[s] /\ marked' = marked
      BY <2>1, <3>1 DEF Fallback, Eq
    <3>3. ~InView(s)
      BY <1>2 DEF IInv, FallbackView
    <3> QED BY <3>2, <3>3 DEF InView
  <2>5. MoveInv' /\ SlideshowArmed'
    BY <1>2, <2>1 DEF MoveInv, SlideshowArmed
  <2> QED BY <2>2, <2>3, <2>4, <2>5 DEF IInv
<1> QED BY <1>1, <1>2

\* What the end of a move keeps.
LEMMA MoveEndInv ==
    ASSUME IInv, MoveEnd
    PROVE  IInv'
<1> USE DEF MoveEnd
<1>1. TypeOK'
  BY DEF IInv, TypeOK, Slides, Indices, Eq
<1>2. AnimatedView'
  BY DEF IInv, AnimatedView, InView, Slides, TypeOK
<1>3. FallbackView'
  <2> SUFFICES ASSUME ~cssAnimations, NEW s \in Slides PROVE InView(s)' <=> s = current
    BY DEF FallbackView, Slides
  <2>1. s \in DOMAIN left
    BY CSliderAssumption DEF IInv, TypeOK, Slides
  <2>2. /\ left'[s] = IF s = leaving THEN "away" ELSE IF s = current THEN "here" ELSE left[s]
        /\ s # leaving => (s \in marked' <=> s \in marked)
    BY <2>1 DEF Eq
  <2>3. s \notin {leaving, current} => ~InView(s)
    BY DEF IInv, FallbackView
  <2>4. leaving # current
    BY DEF IInv, MoveInv
  <2> QED BY <2>2, <2>3, <2>4 DEF InView
<1>4. MoveInv' /\ SlideshowArmed'
  BY DEF IInv, MoveInv, SlideshowArmed
<1> QED BY <1>1, <1>2, <1>3, <1>4 DEF IInv

\* Every callback of the page keeps the invariant.
LEMMA StepInv == IInv /\ [Next]_vars => IInv'
<1> SUFFICES ASSUME IInv, [Next]_vars PROVE IInv'
  OBVIOUS
<1>0. TypeOK /\ autoplay \in BOOLEAN /\ slideshow = autoplay
  BY DEF IInv, TypeOK, SlideshowArmed
<1>1. CASE ClickNext
  BY <1>0, <1>1, PagesExist, NavigateInv DEF ClickNext, StopSlideshow
<1>2. CASE ClickPrev
  BY <1>0, <1>2, PagesExist, NavigateInv DEF ClickPrev, StopSlideshow
<1>3. ASSUME NEW idx \in Indices, Page(idx) PROVE IInv'
  <2>1. idx \in IF slidesCount = 0 THEN {-1, 0} ELSE Slides
    BY <1>3 DEF Page, Slides
  <2> QED BY <1>0, <1>3, <2>1, NavigateInv DEF Page, StopSlideshow
<1>4. CASE SlideshowFires
  BY <1>0, <1>4, PagesExist, NavigateInv DEF SlideshowFires
<1>5. CASE MoveEnd
  BY <1>5, MoveEndInv
<1>6. CASE UNCHANGED vars
  BY <1>6 DEF vars, slideVars, viewVars, IInv, TypeOK, AnimatedView, FallbackView, MoveInv, SlideshowArmed, InView,
              Slides, Indices
<1> QED BY <1>1, <1>2, <1>3, <1>4, <1>5, <1>6 DEF Next

\* The inductive invariant holds in every behaviour.
LEMMA Invariant == Spec => []IInv
BY InitInv, StepInv, PTL DEF Spec

-----------------------------------------------------------------------------
(* Theorems                                                                *)

\* After any sequence of clicks, timeouts and ends of moves, between moves the
\* current slide and no other is in view and its dot is marked, and a timeout is
\* pending exactly while autoplay is on; in browsers with CSS animations and
\* without, for any number of slides, none included.
THEOREM SliderInvHolds == Spec => []SliderInv
BY Invariant, InvImplies, PTL

\* Every step of the slider is a step of the carousel or none: a request is
\* taken only between moves, and a move ends with the slide it was made for.
LEMMA CarouselStep ==
    ASSUME IInv, IInv', [Next]_vars
    PROVE  [RefinedCarousel!Next]_(RefinedCarousel!vars)
<1> USE DEF RefinedCarousel!vars
<1>1. ASSUME NEW page \in IF slidesCount = 0 THEN {-1, 0} ELSE Slides, Navigate(page), UNCHANGED slidesCount
      PROVE  [RefinedCarousel!Next]_(RefinedCarousel!vars)
  <2>1. CASE slidesCount = 0 \/ current = page \/ isAnimating
    BY <1>1, <2>1 DEF Navigate, slideVars
  <2>2. CASE ~(slidesCount = 0 \/ current = page \/ isAnimating)
    <3>1. page \in 0..(MaxSlides - 1) /\ slidesCount > 0 /\ slidesCount' = slidesCount
      BY <1>1, <2>2, CSliderAssumption DEF IInv, TypeOK, Slides
    <3>2. ~isAnimating /\ isAnimating' /\ leaving' = current /\ current' = page
      BY <1>1, <2>2 DEF Navigate
    <3>3. RefinedCarousel!Begin(page)
      BY <3>1, <3>2 DEF RefinedCarousel!Begin
    <3> QED BY <3>1, <3>3 DEF RefinedCarousel!Next
  <2> QED BY <2>1, <2>2
<1>0. TypeOK
  BY DEF IInv
<1>2. CASE ClickNext
  BY <1>0, <1>1, <1>2, PagesExist DEF ClickNext
<1>3. CASE ClickPrev
  BY <1>0, <1>1, <1>3, PagesExist DEF ClickPrev
<1>4. ASSUME NEW idx \in Indices, Page(idx) PROVE [RefinedCarousel!Next]_(RefinedCarousel!vars)
  <2>1. idx \in IF slidesCount = 0 THEN {-1, 0} ELSE Slides
    BY <1>4 DEF Page, Slides
  <2> QED BY <1>1, <1>4, <2>1 DEF Page
<1>5. CASE SlideshowFires
  BY <1>0, <1>1, <1>5, PagesExist DEF SlideshowFires
<1>6. CASE MoveEnd
  <2>1. CASE slidesCount = 0
    BY <1>6, <2>1 DEF MoveEnd
  <2>2. CASE slidesCount # 0
    <3>1. isAnimating /\ isAnimating' = FALSE /\ UNCHANGED <<slidesCount, current>>
      BY <1>6 DEF MoveEnd
    <3>2. slidesCount > 0 /\ current # MaxSlides
      BY <2>2, CSliderAssumption DEF IInv, TypeOK, Slides
    <3> QED BY <3>1, <3>2 DEF RefinedCarousel!Next, RefinedCarousel!End
  <2> QED BY <2>1, <2>2
<1>7. CASE UNCHANGED vars
  BY <1>7 DEF vars, slideVars
<1> QED BY <1>2, <1>3, <1>4, <1>5, <1>6, <1>7 DEF Next

\* The slider implements the safety part of Carousel for any number of slides.
THEOREM SafeCarousel == Spec => RefinedCarousel!Safe
<1>1. Init => RefinedCarousel!Init
  BY CSliderAssumption DEF Init, RefinedCarousel!Init
<1> QED BY <1>1, Invariant, CarouselStep, PTL DEF Spec, RefinedCarousel!Safe
=============================================================================
