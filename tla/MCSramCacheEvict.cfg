\* The instance of MCHardware.cfg: where a dirty block is written to.
CONSTANTS
    x1 = x1
    x2 = x2
    x3 = x3
    a = a
    b = b
    NoTag = NoTag
    NoByte = NoByte
    Tag = {x1, x2, x3}
    Offset = {0, 1}
    ByteValue = {a, b}
    NLine = 2
    MaxTime = 3
SPECIFICATION SetSpec
PROPERTIES WrittenBack
