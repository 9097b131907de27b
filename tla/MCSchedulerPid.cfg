\* Five processes and a timer that fires every third instruction: forks in
\* the middle of a ring, and traps that hide a tick.
CONSTANTS
    p1 = p1
    p2 = p2
    p3 = p3
    p4 = p4
    p5 = p5
    NULL = NULL
    Proc = {p1, p2, p3, p4, p5}
    FirstProc = p1
    Period = 3
SPECIFICATION Spec

PROPERTIES PidIsMax
