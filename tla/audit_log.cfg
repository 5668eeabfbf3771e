\* Two processes, three entries, three flushes: failures, crashes and power losses.
SPECIFICATION Spec
CONSTANTS
    p1 = p1
    p2 = p2
    Processes <- TwoProcesses
    MaxLogged = 3
    MaxFlushes = 3
SYMMETRY AnyProcess
INVARIANTS
    TypeOK
    AckedDurable
    OrderedOnce
    WholeWritesReplay
