SPECIFICATION Spec
CONSTANTS
    TotalSlides = 3
    StartSlide = 0
    MaxLost = 1
    None = None
INVARIANTS
    SliderInv
PROPERTIES
    SlideshowGoesOn
    ImplementsCarousel
