\* Two donors, two tokens, donations, releases of both kinds and refunds.
SPECIFICATION Spec
CONSTANTS
    d1 = d1
    d2 = d2
    usdc = usdc
    xlm = xlm
    Donors = {d1, d2}
    Tokens = {usdc, xlm}
    Native = Native
    NoIssuer = NoIssuer
    NoLedger = NoLedger
    NoReport = NoReport
    AssetLists <- ListedTwice
    Plans <- LedgerPlans
    EndTimes = {1}
    MinDonations = {0}
    Amounts = {1, 2}
    Deposits = {3}
    RefundWindow = 1
    MaxGap = 2
    BasisPoints = 4
    MaxI128 = 15
    MaxU64 = 7
    MaxTime = 0
    MaxDonations = 3
    MaxBalance = 3
SYMMETRY DonorSymmetry
INVARIANTS
    TypeOK
    LedgerAgreement
    MilestoneGate
    RefundWithinContribution
    SequentialRelease
PROPERTIES
    MilestonesOnlyAdvance
    PayoutsAccountedFor
