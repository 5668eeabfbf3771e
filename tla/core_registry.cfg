\* Two addresses, two campaigns, an initialization before, between or after the other
\* calls, three donations, two withdrawals.  One large donation more makes a raised amount wrap, two small ones
\* the progress product; the smallest amount is the fee itself.
SPECIFICATION Spec
CONSTANTS
    a1 = a1
    a2 = a2
    usdc = usdc
    xlm = xlm
    Addresses = {a1, a2}
    Assets = {usdc, xlm}
    EmptySymbol = EmptySymbol
    None = None
    BaseFee = 4
    Amounts = {4, 7, 49990}
    Goals = {9}
    MaxI128 = 49999
    Word = 65536
    PageSizes = {1, 2}
    MaxCampaigns = 2
    MaxInits = 1
    MaxDonations = 3
    MaxWithdrawals = 2
SYMMETRY Symmetry
CHECK_DEADLOCK FALSE
INVARIANTS
    TypeOK
    CampaignBalance
    DonorRecords
    RequestCovered
    DashboardAgrees
    PagesPartition
