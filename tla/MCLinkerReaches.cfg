\* The inputs of the run of Structures, with the sizes of the 64-bit build.
CONSTANTS
    Inputs <- MCInputs
    MaxSymbols = 64
    MaxLines = 64
    InstructionChar = 64
    InstructionSize = 88
    DataSize = 8
    Base = 4194304
SPECIFICATION Spec
INVARIANT ReachesSymbol
CHECK_DEADLOCK FALSE
