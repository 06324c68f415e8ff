------------------------------ MODULE CSlider ------------------------------
(***************************************************************************)
(* jquery.cslider.js, the slider at the head of the report page: the page   *)
(* makes slides of its latest tweets, at most three and possibly none, and  *)
(* starts the slider with autoplay and a moving background.                 *)
(*                                                                         *)
(* An action is one callback of the page: a click, a call of the method     *)
(* page, the slideshow's timeout, the end of a move.  The background's      *)
(* position is left out: every move changes it by one increment, so every   *)
(* move is followed by one end of its transition.                           *)
(***************************************************************************)
EXTENDS Integers

CONSTANTS
    MaxSlides   \* bound: the most slides the page makes

ASSUME CSliderAssumption == MaxSlides \in Nat \ {0}

VARIABLES
    slidesCount,    \* number of slides
    cssAnimations,  \* Modernizr.cssanimations
    autoplay,       \* options.autoplay
    current,        \* index of the current slide
    isAnimating,    \* a move is under way
    leaving,        \* $current of the last move: the slide it moves away
    marked,         \* slides with the class da-slide-current
    classes,        \* their da-slide-to... and da-slide-from... classes
    left,           \* left of each slide as the fallback has set it
    dot,            \* the page with the class da-dots-current
    slideshow       \* the slideshow's timeout is pending

slideVars == <<current, isAnimating, leaving>>
viewVars == <<marked, classes, left, dot>>
vars == <<slidesCount, cssAnimations, autoplay, slideVars, viewVars, slideshow>>

\* Without tweets there is no slide, but prev still computes -1.
Indices == -1..(MaxSlides - 1)
Slides == 0..(slidesCount - 1)

\* Every variable has its kind of value, and the current slide exists if any does.
TypeOK ==
    /\ slidesCount \in 0..MaxSlides
    /\ {cssAnimations, autoplay, isAnimating, slideshow} \subseteq BOOLEAN
    /\ current \in IF slidesCount = 0 THEN {-1, 0} ELSE Slides
    /\ leaving \in Indices
    /\ marked \subseteq Slides
    /\ classes \in [0..(MaxSlides - 1) -> SUBSET {"to", "from"}]
    /\ left \in [0..(MaxSlides - 1) -> {"unset", "moving", "here", "away"}]
    /\ dot \in Indices
-----------------------------------------------------------------------------
\* $slides.eq(i): no slide if there is none.
Eq(i) == {i} \cap Slides

\* Mutated form: the slide that leaves keeps its classes.
Restyle1(page) ==
    /\ classes' = [s \in DOMAIN classes |->
                     IF s \in Eq(current) THEN classes[s] \cup {"to"}
                     ELSE IF s \in Eq(page) THEN {"from"} ELSE classes[s]]
    /\ marked' = (marked \ Eq(current)) \cup Eq(page)
    /\ UNCHANGED left

\* The classes of the two slides of a move are replaced, the new slide is marked.
Restyle(page) ==
    /\ classes' = [s \in DOMAIN classes |->
                     IF s \in Eq(current) THEN {"to"}
                     ELSE IF s \in Eq(page) THEN {"from"} ELSE classes[s]]
    /\ marked' = (marked \ Eq(current)) \cup Eq(page)
    /\ UNCHANGED left

\* Without CSS animations both slides are moved by jQuery.
Fallback(page) ==
    /\ left' = [s \in DOMAIN left |-> IF s \in Eq(current) \cup Eq(page) THEN "moving" ELSE left[s]]
    /\ UNCHANGED <<classes, marked>>

\* Mutated form: a request during a move is taken.
Navigate1(page) ==
    IF current = page THEN UNCHANGED <<slideVars, viewVars>>
    ELSE
        /\ isAnimating' = TRUE
        /\ leaving' = current
        /\ current' = page
        /\ IF cssAnimations THEN Restyle(page) ELSE Fallback(page)
        /\ dot' = page

\* A request during a move is dropped, and so is one for the current slide.
Navigate(page) ==
    IF current = page \/ isAnimating THEN UNCHANGED <<slideVars, viewVars>>
    ELSE
        /\ isAnimating' = TRUE
        /\ leaving' = current
        /\ current' = page
        /\ IF cssAnimations THEN Restyle(page) ELSE Fallback(page)
        /\ dot' = page

\* Mutated form: the last slide is left out.
NextPage1 == IF current < slidesCount - 2 THEN current + 1 ELSE 0

NextPage == IF current < slidesCount - 1 THEN current + 1 ELSE 0

PrevPage == IF current > 0 THEN current - 1 ELSE slidesCount - 1

\* Whoever moves the slides by hand ends the slideshow, also when the move is dropped.
StopSlideshow ==
    /\ autoplay' = FALSE
    /\ slideshow' = (slideshow /\ ~autoplay)

ClickNext ==
    /\ StopSlideshow
    /\ Navigate(NextPage)
    /\ UNCHANGED <<slidesCount, cssAnimations>>

ClickPrev ==
    /\ StopSlideshow
    /\ Navigate(PrevPage)
    /\ UNCHANGED <<slidesCount, cssAnimations>>

\* A click on a dot, or a call of the method page, which refuses other indices.
Page(idx) ==
    /\ idx \in Slides
    /\ StopSlideshow
    /\ Navigate(idx)
    /\ UNCHANGED <<slidesCount, cssAnimations>>

\* The timeout fires, in the middle of a move or not, and is set again.
SlideshowFires ==
    /\ slideshow
    /\ Navigate(NextPage)
    /\ slideshow' = autoplay
    /\ UNCHANGED <<slidesCount, cssAnimations, autoplay>>

\* The background's transition has ended, or the two animations of the fallback,
\* which end in the same tick; without a slide nothing is animated and none ends.
MoveEnd ==
    /\ isAnimating
    /\ cssAnimations \/ slidesCount > 0
    /\ isAnimating' = FALSE
    /\ IF cssAnimations THEN UNCHANGED <<left, marked>>
       ELSE /\ left' = [s \in DOMAIN left |->
                          IF s \in Eq(leaving) THEN "away" ELSE IF s \in Eq(current) THEN "here" ELSE left[s]]
            /\ marked' = marked \ Eq(leaving)
    /\ UNCHANGED <<slidesCount, cssAnimations, autoplay, current, leaving, classes, dot, slideshow>>

\* The page's options; a browser with CSS animations has CSS transitions too.
Init ==
    /\ slidesCount \in 0..MaxSlides
    /\ cssAnimations \in BOOLEAN
    /\ autoplay \in BOOLEAN
    /\ current \in 0..(MaxSlides - 1)
    /\ current >= slidesCount => current = 0
    /\ isAnimating = FALSE
    /\ leaving = current
    /\ marked = Eq(current)
    /\ classes = [s \in 0..(MaxSlides - 1) |-> {}]
    /\ left = [s \in 0..(MaxSlides - 1) |-> "unset"]
    /\ dot = current
    /\ slideshow = autoplay

Next ==
    \/ ClickNext
    \/ ClickPrev
    \/ \E idx \in Indices : Page(idx)
    \/ SlideshowFires
    \/ MoveEnd

\* Timeouts fire and moves end; nothing is expected of the reader.
Fairness ==
    /\ WF_vars(SlideshowFires)
    /\ WF_vars(MoveEnd)

Spec == Init /\ [][Next]_vars /\ Fairness
-----------------------------------------------------------------------------
\* What the style sheet makes of the classes and of left: a slide that came in
\* stays, one that left is gone, any other is seen if it is marked.
InView(s) ==
    IF cssAnimations THEN "from" \in classes[s] \/ (s \in marked /\ classes[s] = {})
    ELSE left[s] = "here" \/ (left[s] = "unset" /\ s \in marked)

\* Between moves exactly the current slide is in view, and its dot is the one
\* marked, after any sequence of moves and in browsers with and without animations
\* (where the class da-slide-current is taken away and never given again).
OneSlideInView ==
    ~isAnimating => {s \in Slides : InView(s)} = Eq(current) /\ (dot = current)

\* The slideshow's timeout is pending exactly while autoplay is on: it survives
\* firing during a move, and a reader who takes over is never interrupted by a
\* timeout that was set before.
SlideshowArmed == slideshow = autoplay

\* The two invariants hold together for every order of callbacks.
SliderInv == TypeOK /\ OneSlideInView /\ SlideshowArmed

\* A slideshow that nobody stops shows every slide again and again, although the
\* timeouts that fire during a move are dropped.
SlideshowShowsAll ==
    []autoplay => \A s \in 0..(MaxSlides - 1) : []<>(s < slidesCount => current = s)

\* The slider is a carousel, one that rests if it has no slides: a request made
\* during a move changes nothing.
RefinedCarousel == INSTANCE Carousel WITH
    Slides <- 0..(MaxSlides - 1),
    Idle <- MaxSlides,
    shown <- IF slidesCount = 0 THEN 0 ELSE IF isAnimating THEN leaving ELSE current,
    target <- IF slidesCount > 0 /\ isAnimating THEN current ELSE MaxSlides
ImplementsCarousel == RefinedCarousel!Spec
=============================================================================
