\* One of two keys is above infinity.
CONSTANTS
    RbtNodes = {40, 80}
    BstNodes = {40, 80}
    Key <- MCKey
    MaxNodes = 3
    Infinite = 7
SPECIFICATION Spec
INVARIANT AboveFound
