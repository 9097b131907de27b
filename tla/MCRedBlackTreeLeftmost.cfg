\* Three nodes with one key.
CONSTANTS
    RbtNodes = {41, 42, 43}
    BstNodes = {41, 42, 43}
    Key <- MCKey
    MaxNodes = 3
    Infinite = 7
SPECIFICATION Spec
INVARIANT FoundLeftmost
