\* One donor and one token over time: deadlines, conclusion, freeze, block list.
SPECIFICATION Spec
CONSTANTS
    d1 = d1
    d2 = d2
    usdc = usdc
    xlm = xlm
    Donors = {d1}
    Tokens = {usdc}
    Native = Native
    NoIssuer = NoIssuer
    NoLedger = NoLedger
    NoReport = NoReport
    AssetLists <- NoPrimary
    Plans <- LifecyclePlans
    EndTimes = {1, 2, 5}
    MinDonations = {0, 2}
    Amounts = {1, 2}
    Deposits = {1}
    RefundWindow = 1
    MaxGap = 2
    BasisPoints = 4
    MaxI128 = 15
    MaxU64 = 7
    MaxTime = 4
    MaxDonations = 2
    MaxBalance = 2
INVARIANTS
    StatusTracksGoal
    ReportFresh
PROPERTIES
    BooksClosed
    FreezeShields
    ImplementsEscrow
