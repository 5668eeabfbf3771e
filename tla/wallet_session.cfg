\* Seven kinds of page, two keys, four flights, three loads.
SPECIFICATION Spec
CONSTANTS
    k1 = k1
    k2 = k2
    albedo = albedo
    Freighter = Freighter
    Keys = {k1, k2}
    Extensions = {Freighter, albedo}
    None = None
    Garbage = Garbage
    Pages <- SomePages
    MaxAttempts = 4
    MaxLoads = 3
CHECK_DEADLOCK FALSE
INVARIANTS
    TypeOK
    ScreenTellsTruth
    SignedOut
    OneSessionPerReturn
PROPERTIES
    NoSilentUpgrade
    BusyEnds
