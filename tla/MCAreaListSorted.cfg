\* Areas of one or two pages in seven pages: three areas are enough.
CONSTANTS
    Areas <- MCAreas
    MaxAreas = 4
SPECIFICATION Spec
INVARIANT Sorted
CHECK_DEADLOCK FALSE
