\* A released milestone records its whole cumulative target.
SPECIFICATION Spec
CONSTANTS
    d1 = d1
    d2 = d2
    usdc = usdc
    xlm = xlm
    Native = Native
    NoIssuer = NoIssuer
    NoLedger = NoLedger
    NoReport = NoReport
    Donors = {d1}
    Tokens = {usdc}
    AssetLists <- OneToken
    Plans <- FreshPlans
    EndTimes = {1}
    MinDonations = {0}
    Amounts = {1, 2}
    Deposits = {3}
    RefundWindow = 1
    MaxGap = 2
    BasisPoints = 4
    MaxI128 = 15
    MaxU64 = 7
    MaxTime = 0
    MaxDonations = 2
    MaxBalance = 3
INVARIANTS
    ReleasedIsIncrement
