\* One process whose write stops half way.
SPECIFICATION Spec
CONSTANTS
    p1 = p1
    p2 = p2
    Processes <- OneProcess
    MaxLogged = 3
    MaxFlushes = 3
INVARIANTS
    EachLineParses
