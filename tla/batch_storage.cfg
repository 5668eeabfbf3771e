SPECIFICATION Spec
CONSTANTS
    old = old
    new = new
    alice = alice
    bob = bob
    usdc = usdc
    Donors = {alice, bob}
    Assets = {usdc}
    Accepted = {usdc}
    Targets <- MCTargets
    MinDonation = 0
    MaxI128 = 2
    Threshold = 2
    BumpAmount = 3
    MinTtl = 1
    NoReport = NoReport
    Campaigns = {old, new}
    Deployed = {old}
    Batches <- MCBatches
    MaxBatchSize = 2
    MaxLedgers = 3
    MaxCalls = 5
INVARIANTS
    TypeOK
    EntriesAgree
    UnlockedExactly
    CoreKept
    ViewsAgree
PROPERTY
    BatchTellsTruth
CHECK_DEADLOCK FALSE
