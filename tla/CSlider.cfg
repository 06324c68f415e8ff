SPECIFICATION Spec
CONSTANTS
    MaxSlides = 3
INVARIANTS
    SliderInv
PROPERTIES
    SlideshowShowsAll
    ImplementsCarousel
