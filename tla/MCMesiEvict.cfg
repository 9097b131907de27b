\* The instance of MCKernel.cfg: what an eviction does to memory.
CONSTANTS
    v0 = v0
    v1 = v1
    v10 = v10
    NoValue = NoValue
    CORE_NUM = 4
    LineValue = {v0, v1, v10}
    InitMem = v10
    InitCache = v0
SPECIFICATION MesiSpec
PROPERTIES ModifiedWrittenBack
