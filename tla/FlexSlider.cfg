SPECIFICATION Spec
CONSTANTS
    Count = 3
    MaxLost = 1
    None = None
INVARIANTS
    SliderInv
PROPERTIES
    StopsAtLast
    AnimationEnds
    SlideshowAdvances
    ImplementsCarousel
