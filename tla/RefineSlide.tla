---------------------------- MODULE RefineSlide ----------------------------
(***************************************************************************)
(* jquery.refineslide.js, the image slider of the report page's scripts,    *)
(* with the settings and the transition menu of custom_refine_slider.js.    *)
(*                                                                         *)
(* A page runs one callback at a time, so an action is one callback: a key, *)
(* a click, the pointer entering or leaving, an image that has loaded, a    *)
(* timeout, the end of an animation.  What is hard is their order: the      *)
(* images may load after the first transitions, timeouts outlive what they *)
(* were set for, and the end of a transition finds the slider as the        *)
(* callbacks in between have left it.                                       *)
(*                                                                         *)
(* Of the style sheet only what decides which slide is seen is kept.  The   *)
(* browser fires the 40 ms timeout of a transition before the transition,   *)
(* which lasts transitionDuration (800 ms), can end.                        *)
(***************************************************************************)
EXTENDS Naturals, Sequences, FiniteSets

CONSTANTS
    TotalSlides,    \* number of slides
    StartSlide,     \* settings['startSlide']
    None,           \* undefined
    MaxLost         \* bound: pending timeouts that no property refers to any more

Slides == 0..(TotalSlides - 1)

ASSUME RefineSlideAssumption ==
    /\ TotalSlides \in Nat /\ TotalSlides > 1
    /\ StartSlide \in Slides
    /\ None \notin Slides
    /\ MaxLost \in Nat

VARIABLES
    settings,       \* what does not change: the settings, the browser, whether slides have captions
    transition,     \* settings['transition']
    arrived,        \* images the browser has loaded or given up
    loaded,         \* imagesLoaded: the array "loaded"
    stage,          \* "loading", then "doneLoading", "clones" (timeouts pending), "ready"
    currentPlace,   \* index of the slide asked for last
    currentSlide,   \* jQuerycurrentSlide
    nextSlide,      \* jQuerynextSlide
    inProgress,     \* a Transition object is alive
    step,           \* its kind, whether its 40 ms timeout is pending, whether an end event will come
    css,            \* opacity and z-index of each slide
    captions,       \* slides whose caption has opacity 1
    grid,           \* the slide covered by gridlets
    thumb,          \* the active thumbnail, None before setThumbs
    cycling,        \* the timeout in RS.cycling is pending
    lost,           \* pending slideshow timeouts that RS.cycling no longer holds
    hovered         \* the pointer is over the slider

imageVars == <<arrived, loaded, stage>>
slideVars == <<currentPlace, currentSlide, nextSlide, inProgress, step>>
viewVars == <<css, captions, grid, thumb>>
timerVars == <<cycling, lost>>
vars == <<settings, transition, imageVars, slideVars, viewVars, timerVars, hovered>>

\* The settings that matter here and what testBrowser finds the browser to support.
Settings == [controls : {"thumbs", "arrows"}, autoPlay : BOOLEAN, captions : BOOLEAN,
             cssTransitions : BOOLEAN, cssTransforms3d : BOOLEAN]

\* The transitions, those of a family (cubeH, sliceV, blindH...) taken together.
Anims == {"cube", "grid", "fade"}
NoStep == [kind |-> "fade", pc |-> "none", ends |-> FALSE]

\* Every variable has its kind of value.
TypeOK ==
    /\ settings \in Settings
    /\ transition \in Anims \cup {"random"}
    /\ arrived \subseteq Slides
    /\ loaded \in Seq(Slides)
    /\ stage \in {"loading", "doneLoading", "clones", "ready"}
    /\ {currentPlace, currentSlide} \subseteq Slides
    /\ nextSlide \in Slides \cup {None}
    /\ {inProgress, cycling, hovered} \subseteq BOOLEAN
    /\ step \in [kind : Anims, pc : {"none", "setup", "running"}, ends : BOOLEAN]
    /\ css \in [Slides -> [opacity : 0..1, z : 0..2]]
    /\ captions \subseteq Slides
    /\ {grid, thumb} \subseteq Slides \cup {None}
    /\ lost \in 0..MaxLost
-----------------------------------------------------------------------------
(* imagesLoaded: each image is counted once, whether it loads or fails.    *)

NextStage(imgs) == IF Len(imgs) = TotalSlides THEN "doneLoading" ELSE "loading"

\* imgLoaded; the handlers are unbound when the last image has been counted.
ImgLoaded(img) ==
    /\ loaded' = IF \E i \in DOMAIN loaded : loaded[i] = img THEN loaded ELSE Append(loaded, img)
    /\ stage' = NextStage(loaded')

\* A load or an error event.  An image whose src is set anew reports again.
ImageEvent(img) ==
    /\ stage = "loading"
    /\ arrived' = arrived \cup {img}
    /\ ImgLoaded(img)
    /\ UNCHANGED <<settings, transition, slideVars, viewVars, timerVars, hovered>>

\* doneLoading: the callback makes the clones and asks for setup in a timeout.
DoneLoading ==
    /\ stage = "doneLoading"
    /\ stage' = "clones"
    /\ UNCHANGED <<settings, transition, arrived, loaded, slideVars, viewVars, timerVars, hovered>>
-----------------------------------------------------------------------------
(* The slideshow's timeout.                                                *)

\* Mutated form: the slideshow is not resumed.
SetAutoPlay1 == UNCHANGED timerVars

\* setAutoPlay: a timeout that is pending is not cleared, only forgotten.
SetAutoPlay ==
    /\ lost' = IF cycling THEN lost + 1 ELSE lost
    /\ cycling' = TRUE

\* The pointer enters: the timeout held by cycling is cleared.
MouseEnter ==
    /\ settings.autoPlay /\ ~hovered
    /\ hovered' = TRUE
    /\ cycling' = FALSE
    /\ UNCHANGED <<settings, transition, imageVars, slideVars, viewVars, lost>>

\* The pointer leaves: a new timeout, whatever is pending.
MouseLeave ==
    /\ settings.autoPlay /\ hovered
    /\ lost < MaxLost
    /\ hovered' = FALSE
    /\ SetAutoPlay
    /\ UNCHANGED <<settings, transition, imageVars, slideVars, viewVars>>
-----------------------------------------------------------------------------
(* Transitions.                                                            *)

\* cube falls back to sliceV, a grid; grid and its presets fall back to fade.
Played(kind) ==
    IF kind = "cube" /\ settings.cssTransitions /\ settings.cssTransforms3d THEN "cube"
    ELSE IF kind \in {"cube", "grid"} /\ settings.cssTransitions THEN "grid"
    ELSE "fade"

\* The transitions that the name in the settings may stand for.
Choices == IF transition = "random" THEN Anims ELSE {transition}

\* next and prev go round.
NextPlace == IF currentPlace = TotalSlides - 1 THEN 0 ELSE currentPlace + 1

PrevPlace == IF currentPlace = 0 THEN TotalSlides - 1 ELSE currentPlace - 1

\* grid covers the old slide with gridlets, and its reset removes them.
Gridlets(kind) == grid' = IF kind = "grid" THEN currentSlide ELSE grid

\* Transition.before, and for a fade without CSS transitions, which has no
\* setup, its execute: jQuery's animate takes the old slide's opacity to 0.
Before(kind, slide) ==
    LET js == ~settings.cssTransitions
        old == [opacity |-> IF js THEN 0 ELSE css[currentSlide].opacity, z |-> 2]
    IN  /\ css' = [css EXCEPT ![currentSlide] = old, ![slide] = [opacity |-> 1, z |-> 1]]
        /\ captions' = (captions \ {currentSlide}) \cup {slide}
        /\ step' = [kind |-> kind, pc |-> IF js THEN "running" ELSE "setup", ends |-> js]
        /\ Gridlets(kind)

\* RS.transition(slideNum), once it is known that nothing is in progress and the
\* slide is another one.  Without the thumbnails' wrapper the last lines throw,
\* after the Transition has been started.
Transition(slideNum) ==
    /\ nextSlide' = slideNum
    /\ currentPlace' = slideNum
    /\ inProgress' = TRUE
    /\ \E kind \in {Played(k) : k \in Choices} : Before(kind, slideNum)
    /\ thumb' = IF thumb = None THEN None ELSE slideNum
    /\ UNCHANGED currentSlide

Accepts(slideNum) == ~inProgress /\ slideNum # currentPlace

\* A left or right key, or an arrow.
Navigate ==
    /\ \E slideNum \in {NextPlace, PrevPlace} : Accepts(slideNum) /\ Transition(slideNum)
    /\ UNCHANGED <<settings, transition, imageVars, timerVars, hovered>>

\* A thumbnail is clicked.
ClickThumb(slideNum) ==
    /\ thumb # None
    /\ Accepts(slideNum)
    /\ Transition(slideNum)
    /\ UNCHANGED <<settings, transition, imageVars, timerVars, hovered>>

\* A slideshow timeout fires: next(), which does nothing during a transition.
CyclingFires ==
    /\ \/ cycling /\ cycling' = FALSE /\ UNCHANGED lost
       \/ lost > 0 /\ lost' = lost - 1 /\ UNCHANGED cycling
    /\ IF Accepts(NextPlace) THEN Transition(NextPlace)
                             ELSE UNCHANGED <<slideVars, viewVars>>
    /\ UNCHANGED <<settings, transition, imageVars, hovered>>

\* The transition menu of custom_refine_slider.js; which entries the page marks as
\* unsupported is up to its markup.
ClickTrigger(kind) ==
    /\ kind # transition
    /\ transition' = kind
    /\ UNCHANGED <<settings, imageVars, slideVars, viewVars, timerVars, hovered>>

\* A fade whose slide is not visible yet animates nothing; only a caption's
\* transition can then end on the slide.
EndComes == step.kind # "fade" \/ settings.captions \/ css[currentSlide].opacity = 1

\* The 40 ms timeout: execute.
Execute ==
    /\ step.pc = "setup"
    /\ step' = [step EXCEPT !.pc = "running", !.ends = EndComes]
    /\ css' = IF step.kind = "fade" THEN [css EXCEPT ![currentSlide].opacity = 0] ELSE css
    /\ UNCHANGED <<settings, transition, imageVars, currentPlace, currentSlide, nextSlide, inProgress,
                   captions, grid, thumb, timerVars, hovered>>

\* Mutated form: the old slide keeps its styles.
ResetStyles1 == css' = [css EXCEPT ![nextSlide] = [opacity |-> 1, z |-> 2]]

\* The styles that after() leaves.
ResetStyles ==
    css' = [css EXCEPT ![currentSlide] = [opacity |-> 0, z |-> 0], ![nextSlide] = [opacity |-> 1, z |-> 2]]

\* after() clears the timeout and sets a new one, even if the pointer is over the slider.
RestartSlideshow == cycling' = settings.autoPlay /\ UNCHANGED lost

\* Mutated form: the slider stays where it was.
ArriveAt1 == UNCHANGED currentSlide

\* after(): the slide asked for is the current one.
ArriveAt == currentSlide' = nextSlide

\* after(): further transitions are accepted.
Reopen == inProgress' = FALSE

\* The end of the CSS transition, or of a caption's, or of jQuery's animation: after().
TransitionEnd ==
    /\ step.pc = "running" /\ step.ends
    /\ ResetStyles
    /\ grid' = None
    /\ RestartSlideshow
    /\ ArriveAt
    /\ Reopen
    /\ step' = NoStep
    /\ UNCHANGED <<settings, transition, imageVars, currentPlace, nextSlide, captions, thumb, hovered>>

\* setup: the current slide is displayed, which on a fading slide is a transition
\* that ends; the thumbnails show the starting slide as the active one.
Setup ==
    /\ stage = "clones"
    /\ stage' = "ready"
    /\ thumb' = IF settings.controls = "thumbs" THEN StartSlide ELSE None
    /\ css' = [css EXCEPT ![currentSlide] = [opacity |-> 1, z |-> 2]]
    /\ step' = IF step.pc = "running" THEN [step EXCEPT !.ends = TRUE] ELSE step
    /\ UNCHANGED <<settings, transition, arrived, loaded, currentPlace, currentSlide, nextSlide, inProgress,
                   captions, grid, timerVars, hovered>>
-----------------------------------------------------------------------------
\* The constructor and init: some images may be there already.
Init ==
    /\ settings \in Settings
    /\ transition = "cube"
    /\ arrived \in {{}, Slides}
    /\ loaded = IF arrived = {} THEN <<>> ELSE [i \in 1..TotalSlides |-> i - 1]
    /\ stage = NextStage(loaded)
    /\ currentPlace = StartSlide
    /\ currentSlide = StartSlide
    /\ nextSlide = None
    /\ inProgress = FALSE
    /\ step = NoStep
    /\ css = [s \in Slides |-> [opacity |-> 0, z |-> 0]]
    /\ captions = {StartSlide}
    /\ grid = None
    /\ thumb = None
    /\ cycling = settings.autoPlay
    /\ lost = 0
    /\ hovered = FALSE

Next ==
    \/ \E img \in Slides : ImageEvent(img)
    \/ DoneLoading
    \/ Setup
    \/ MouseEnter
    \/ MouseLeave
    \/ Navigate
    \/ \E slideNum \in Slides : ClickThumb(slideNum)
    \/ \E kind \in Anims \cup {"random"} : ClickTrigger(kind)
    \/ CyclingFires
    \/ Execute
    \/ TransitionEnd

\* Images load or fail, timeouts fire and transitions end; nothing is expected
\* of the pointer, the keys and the menu.
Fairness ==
    /\ \A img \in Slides : WF_vars(ImageEvent(img) /\ img \notin arrived)
    /\ WF_vars(DoneLoading)
    /\ WF_vars(Setup)
    /\ WF_vars(CyclingFires)
    /\ WF_vars(Execute)
    /\ WF_vars(TransitionEnd)

Spec == Init /\ [][Next]_vars /\ Fairness
-----------------------------------------------------------------------------
\* Between transitions, once setup has run, exactly the current slide is visible
\* and on top, its caption is the only one, and no gridlets are left over, however
\* late the images loaded and whichever fallback was played.
OneSlideShown ==
    stage = "ready" /\ ~inProgress =>
        /\ css = [s \in Slides |-> IF s = currentPlace THEN [opacity |-> 1, z |-> 2] ELSE [opacity |-> 0, z |-> 0]]
        /\ captions = {currentPlace}
        /\ grid = None

\* setup measures the images, so it is asked for only when every image has loaded
\* or failed, also when an image reports more than once.
SetupAfterImages == stage # "loading" => arrived = Slides

\* A slideshow that nobody holds up has its timeout pending: no order of hovering,
\* key presses and timeouts that fire in the middle of a transition stops it.
SlideshowArmed == settings.autoPlay /\ ~inProgress /\ ~hovered => cycling

\* The three invariants hold together for every order of callbacks.
SliderInv == TypeOK /\ OneSlideShown /\ SetupAfterImages /\ SlideshowArmed

\* The slideshow goes on for ever once the pointer stays away: timeouts lost to
\* hovering and timeouts that fire during a transition do not end it.
SlideshowGoesOn == settings.autoPlay /\ <>[]~hovered => []<>inProgress

\* The slider is a carousel: a request made during a transition changes nothing.
RefinedCarousel == INSTANCE Carousel WITH
    Idle <- None,
    shown <- currentSlide,
    target <- IF inProgress THEN currentPlace ELSE None
ImplementsCarousel == RefinedCarousel!Spec
=============================================================================
