\* Nine tree nodes, two with one key and one above "infinite"; five list
\* nodes; four areas of one or two pages in seven pages; two or three files
\* of three symbols, with tables that some of them overflow; object files
\* of two symbols and two relocations, changed in a row or with a line more; seven keys with
\* six hashes in buckets of two; texts of five characters; words of six bits
\* and floats of 3 for eight; instructions on words of three bits.
CONSTANTS
    NULL = NULL
    n1 = n1
    n2 = n2
    n3 = n3
    n4 = n4
    n5 = n5
    ListNodes = {n1, n2, n3, n4, n5}
    RbtNodes <- MCRbtNodes
    BstNodes <- MCBstNodes
    Key <- MCKey
    MaxNodes = 9
    Infinite = 7
    Areas <- MCAreas
    MaxAreas = 4
    Inputs <- MCInputs
    MaxSymbols = 4
    MaxLines = 18
    InstructionChar = 64
    InstructionSize = 88
    DataSize = 8
    Base = 4194304
    Files <- ElfFiles
    Numeral <- ElfNumeral
    Constant <- ElfConstant
    MaxRows = 10
    MaxWidth = 16
    HashKeys = {0, 40, 41, 20, 10, 30, 50}
    HashOf <- MCHashOf
    BucketSize = 2
    MaxPairs = 7
    MaxCopies = 2
    Width = 6
    Alphabet = {"0", "4", "6", "a", "x", "-", " ", "tab"}
    MaxText = 5
    IntWidth = 8
    Fraction = 3
    Bias = 7
    WordBits = 3
    Starts <- MCStarts
    TableNames <- MCNames
    MaxElements = 4
    Length = 4
SPECIFICATION Spec
INVARIANTS AssertsHold SearchTree Balanced LookupsExact OneRing FreesExactly HeadLowest
           ResolvedStrongest MergedExactly RelocatedRight FileExact DirectoryExact ConversionsExact
           InstructionsExact NamesFound CountersExact
PROPERTIES ImplementsSet CallReturns ImplementsList ImplementsDictionary
\* failed assertions of the area list and of the linker end the program, and
\* so does the linker when it is done, as the other parts do
CHECK_DEADLOCK FALSE
