CONSTANTS
    Pins = {2, 4}
    Nums = {2}
    Levels = {0, 2, 100}
SPECIFICATION Spec
INVARIANTS DoneAsAsked
PROPERTIES NoGlitch
