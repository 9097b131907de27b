\* Comparisons, and one subtraction.
CONSTANTS
    WordBits = 3
    Starts <- MCStarts
SPECIFICATION Spec
INVARIANT FlagsAsMeant
CHECK_DEADLOCK FALSE
