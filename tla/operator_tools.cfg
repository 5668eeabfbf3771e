SPECIFICATION Spec
CONSTANTS
    k1 = k1
    k2 = k2
    p1 = p1
    p2 = p2
    ann = ann
    ben = ben
    testnet = testnet
    sandbox = sandbox
    donor = donor
    other = other
    Keys = {k1, k2}
    Passwords = {p1, p2}
    None = None
    Blank = Blank
    Bad = Bad
    Cut = Cut
    Absent = Absent
    Torn = Torn
    Noise = Noise
    Operators = {ann, ben}
    Networks = {testnet, sandbox}
    InvokeNetworks = {testnet}
    DefaultNetwork = testnet
    KeyPairs <- MCKeyPairs
    Settings <- MCSettings
    Starts <- MCStarts
    MaxContracts = 3
    Donations <- MCDonations
    Custom <- MCCustom
    Wallets = {w1}
    Servers = {s1, s2}
    Missing = Missing
    Garbled = Garbled
    MaxClock = 1
INVARIANTS
    TypeOK
    RecordsTellTruth
    OneContractUnlessExcused
    PairsMatch
    OnlyWhatWasRequested
PROPERTY
    AdminSigns
SYMMETRY MCSymmetry
CHECK_DEADLOCK FALSE
