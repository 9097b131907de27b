\* The instance of MCHardware.cfg: a call may fault on its push.
CONSTANTS
    p1 = p1
    p2 = p2
    p3 = p3
    zero = zero
    Handler = Handler
    NoFrame = NoFrame
    Unset = Unset
    Pcb = {p1, p2, p3}
    FirstPcb = p1
    Rest = {zero}
    Zero = zero
    StackSize = 1
    CodeSize = 2
SPECIFICATION SwitchSpec
PROPERTIES FaultRestarts
