\* Page tables: four processes, one code page and two writable pages, but only
\* three slots per frame and six frames: fork and copy on write run out of both.
\* Switches: three processes, so that one may fork while another waits; rax
\* takes four values, and there is room to go to and fro in stack and code.
\* Cache: three blocks of two bytes, so that one can be written and the other
\* kept, compete for two lines; a line may stay unused while the other is
\* accessed three times.
CONSTANTS
    p1 = p1
    p2 = p2
    p3 = p3
    x1 = x1
    x2 = x2
    x3 = x3
    a = a
    b = b
    zero = zero
    NULL = NULL
    Handler = Handler
    NoFrame = NoFrame
    Unset = Unset
    NoTag = NoTag
    NoByte = NoByte
    Proc = {p1, x1, x2, x3}
    FirstProc = p1
    NPage = 4
    NArea = 3
    Writable = {1, 2}
    NFrame = 6
    MaxMap = 3
    Value = {a, b}
    Pcb = {p1, p2, p3}
    FirstPcb = p1
    Rest = {zero}
    Zero = zero
    StackSize = 1
    CodeSize = 2
    Tag = {x1, x2, x3}
    Offset = {0, 1}
    ByteValue = {a, b}
    NLine = 2
    MaxTime = 3
SPECIFICATION PartsSpec
SYMMETRY Symmetry
INVARIANTS ReverseMapExact WriterOwnsFrame OnlyResourcesRunOut CodeShared
    StackPointerAsserted OneCurrentProcess WaitingReady
PROPERTIES PrivateToProcess RegistersPrivate HoldsRecent CacheTransparent
\* a failed assertion ends the emulator, and the cache's ages are bounded
CHECK_DEADLOCK FALSE
