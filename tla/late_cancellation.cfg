\* A campaign cancelled after its deadline and the refund window have passed.
SPECIFICATION Spec
CONSTANTS
    d1 = d1
    d2 = d2
    usdc = usdc
    xlm = xlm
    Native = Native
    NoIssuer = NoIssuer
    NoLedger = NoLedger
    NoReport = NoReport
    Donors = {d1}
    Tokens = {usdc}
    AssetLists <- OneToken
    Plans <- FreshPlans
    EndTimes = {1, 4}
    MinDonations = {0}
    Amounts = {1, 2}
    Deposits = {3}
    RefundWindow = 1
    MaxGap = 2
    BasisPoints = 4
    MaxI128 = 15
    MaxU64 = 7
    MaxTime = 3
    MaxDonations = 2
    MaxBalance = 3
PROPERTIES
    CancelOpensRefunds
