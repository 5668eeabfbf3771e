------------------------------ MODULE Campaign ------------------------------
(***************************************************************************)
(* The canonical crowdfunding contract (campaign/src): one campaign that   *)
(* collects donations in several tokens, unlocks milestones as the raised  *)
(* amount grows, releases milestone funds to a beneficiary, and refunds    *)
(* donors pro rata once it has ended or been cancelled.                    *)
(*                                                                         *)
(* One action stands for one entrypoint call.  The host runs a call as an  *)
(* atomic transaction: a panic anywhere in it undoes every write, so a     *)
(* call that panics is a step that is not enabled.  Authorization is the   *)
(* host's; the creator's entrypoints are simply taken by the creator.      *)
(*                                                                         *)
(* What a donation does NOT do is move tokens: `donate` only records it.   *)
(* The contract's token balances are filled from outside (Deposit).        *)
(***************************************************************************)
EXTENDS Integers, Sequences, FiniteSets, Functions, MachineIntegers

CONSTANTS
    Donors,         \* donor addresses
    Tokens,         \* token contract addresses
    Native,         \* AssetInfo::Native, the alternative to naming a token
    NoIssuer,       \* `issuer: None` of an accepted asset
    NoLedger,       \* `concluded_at_ledger: None`
    NoReport,       \* the report cache before it is first written
    AssetLists,     \* accepted_assets arguments: sequences of [code, issuer]
    Plans,          \* milestones arguments: sequences of MilestoneData
    EndTimes,       \* end_time arguments of initialize and extend_deadline
    MinDonations,   \* min_donation_amount arguments
    Amounts,        \* amounts donors try to donate
    Deposits,       \* amounts sent to the contract from outside
    RefundWindow,   \* REFUND_WINDOW
    MaxGap,         \* MAX_DEADLINE_GAP_SECONDS
    BasisPoints,    \* 10_000, the scale of a report's progress
    MaxI128,        \* the largest i128
    MaxU64,         \* the largest u64
    MaxTime,        \* bound: the clock stops here
    MaxDonations,   \* bound: donation calls
    MaxBalance      \* bound: what outside transfers may bring a balance to

MaxMilestones == 5

NONE     == "None"          \* no campaign stored yet; a released_to of None
Self     == "contract"
Recipients == {"beneficiary", Self}

CampaignStatus  == {"Active", "GoalReached", "Ended", "Cancelled"}
MilestoneStatus == {"Locked", "Unlocked", "Released"}

I128   == IntegersUpTo(MaxI128)
Amount == 0..MaxI128

\* A milestone as callers pass it in: initialize stores whatever status, released
\* amount and recipient it says.  The other fields are only copied.
MilestoneData ==
    [target : I128, released : I128, status : MilestoneStatus, released_to : {NONE} \cup Recipients]

\* An accepted asset's token contract, or none for native XLM; and what a donor
\* names at call time, Native being the alternative to a token contract.
StellarAsset == [code : STRING, issuer : Tokens \cup {NoIssuer}]
AssetInfo    == Tokens \cup {Native}

ASSUME BoundsAssumption ==
    /\ MaxI128 \in Nat /\ MaxU64 \in Nat /\ RefundWindow \in Nat /\ MaxGap \in Nat
    /\ BasisPoints \in Nat /\ MaxTime \in Nat /\ MaxDonations \in Nat /\ MaxBalance \in Nat
    /\ MaxTime <= MaxU64
    /\ Amounts \subseteq Int /\ MinDonations \subseteq Int
    /\ EndTimes \subseteq 0..MaxU64 /\ Deposits \subseteq Nat
    /\ NoLedger \notin Nat

\* The host checks an argument's type; nothing more is assumed of plans and lists.
ASSUME ArgumentsAssumption ==
    /\ NoIssuer \notin Tokens /\ Native \notin Tokens
    /\ Plans \subseteq Seq(MilestoneData) /\ AssetLists \subseteq Seq(StellarAsset)

\* Addresses are 32 bytes.
ASSUME AddressAssumption == IsFiniteSet(Donors) /\ IsFiniteSet(Tokens)

VARIABLES
    \* CampaignData
    status, goal_amount, raised_amount, end_time, accepted_assets,
    min_donation_amount, concluded_at,
    \* the milestone vector, field by field; index i here is i-1 in the code
    target, released, mstatus, released_to,
    \* DonorRecord and DonorAssetDonation
    donors, total_donated, refund_claimed, donated,
    \* counters, flags and the memoised report
    total_raised, asset_raised, donation_count, donor_count, release_count,
    frozen, blocked, report,
    \* environment: ledger time, the contract's token balances
    now, balance,
    \* history: the milestones initialize was given, what each donor was refunded
    given, refunded

campaignVars  == <<goal_amount, accepted_assets, min_donation_amount, given>>
milestoneVars == <<target, released, mstatus, released_to>>
donorVars     == <<donors, total_donated, refund_claimed, donated>>
counterVars   == <<total_raised, asset_raised, donation_count, donor_count, release_count>>
flagVars      == <<frozen, blocked>>
lifeVars      == <<status, raised_amount, end_time, concluded_at>>
envVars       == <<now, balance, refunded>>
vars == <<campaignVars, milestoneVars, donorVars, counterVars, flagVars, lifeVars, report, envVars>>

Open     == {"Active", "GoalReached"}
Terminal == {"Ended", "Cancelled"}

Issuers == {accepted_assets[i].issuer : i \in DOMAIN accepted_assets} \ {NoIssuer}

\* How often a token is listed: nothing rejects a list that names it twice.
Entries(t) == Cardinality({i \in DOMAIN accepted_assets : accepted_assets[i].issuer = t})

\* The token an AssetInfo stands for, as a set: empty when it is not accepted.
XlmAssets == {i \in DOMAIN accepted_assets : accepted_assets[i].code = "XLM"}
TokenForAsset(asset) ==
    IF asset # Native THEN {asset} \cap Issuers
    ELSE {accepted_assets[i].issuer :
            i \in {k \in XlmAssets : \A j \in XlmAssets : k <= j}} \ {NoIssuer}

\* assert_asset_is_accepted, which looks past an XLM entry without a token.
AssetIsAccepted(asset) ==
    IF asset # Native THEN asset \in Issuers
    ELSE \E i \in XlmAssets : accepted_assets[i].issuer # NoIssuer

-----------------------------------------------------------------------------
(* Reports *)

ProgressBps ==
    IF raised_amount <= 0 THEN 0
    ELSE IF raised_amount >= goal_amount THEN BasisPoints
    ELSE (raised_amount * BasisPoints) \div goal_amount

\* The product is a checked one: a report that cannot be built undoes the call.
ProgressFits == raised_amount < goal_amount => raised_amount * BasisPoints <= MaxI128

BuildCampaignReport ==
    [goal |-> goal_amount, raised |-> raised_amount,
     remaining |-> IF raised_amount < goal_amount THEN goal_amount - raised_amount ELSE 0,
     progress_bps |-> ProgressBps,
     end_time |-> end_time, status |-> status, milestone_count |-> Len(target),
     donors |-> donor_count, donations |-> donation_count, releases |-> release_count]

\* Mutant: the report is built before the handler's writes.
RefreshReportCacheEarly == report' = BuildCampaignReport

RefreshReportCache == ProgressFits' /\ report' = BuildCampaignReport'
-----------------------------------------------------------------------------
(* initialize *)

\* Mutant: any order of targets goes.
ValidateMilestonesAnyOrder(plan) == \A i \in DOMAIN plan : plan[i].target >= 0

ValidateMilestones(plan) ==
    \A i \in 1..(Len(plan) - 1) : plan[i].target < plan[i + 1].target

\* goal_amount must equal the last target, so the last target is the goal.
Initialize(plan, list, end, min) ==
    /\ status = NONE
    /\ Len(plan) \in 1..MaxMilestones
    /\ plan[Len(plan)].target > 0
    /\ end > now
    /\ list # <<>>
    /\ ValidateMilestones(plan)
    /\ status' = "Active"
    /\ goal_amount' = plan[Len(plan)].target
    /\ end_time' = end
    /\ accepted_assets' = list
    /\ min_donation_amount' = min
    /\ target' = [i \in 1..Len(plan) |-> plan[i].target]
    /\ released' = [i \in 1..Len(plan) |-> plan[i].released]
    /\ mstatus' = [i \in 1..Len(plan) |-> plan[i].status]
    /\ released_to' = [i \in 1..Len(plan) |-> plan[i].released_to]
    /\ given' = plan
    /\ UNCHANGED <<raised_amount, concluded_at, donorVars, counterVars, flagVars, envVars>>
    /\ RefreshReportCache
-----------------------------------------------------------------------------
(* donate *)

\* Mutant: the scan also stops at the first milestone that is past Locked.
UnlockMilestonesBreakEarly(raised) ==
    [i \in DOMAIN mstatus |->
        IF \A j \in 1..i : mstatus[j] = "Locked" /\ target[j] <= raised
        THEN "Unlocked" ELSE mstatus[i]]

\* Mutant: a released milestone that is reached is unlocked again.
UnlockMilestonesAgain(raised) ==
    [i \in DOMAIN mstatus |->
        IF \A j \in 1..i : target[j] <= raised THEN "Unlocked" ELSE mstatus[i]]

\* The scan stops at the first target above the raised amount.
UnlockMilestones(raised) ==
    [i \in DOMAIN mstatus |->
        IF mstatus[i] = "Locked" /\ \A j \in 1..i : target[j] <= raised
        THEN "Unlocked" ELSE mstatus[i]]

\* Mutant: exactly the goal is not enough.
StatusAfterDonationAbove(raised) ==
    IF status = "Active" /\ raised > goal_amount THEN "GoalReached" ELSE status

StatusAfterDonation(raised) ==
    IF status = "Active" /\ raised >= goal_amount THEN "GoalReached" ELSE status

\* Mutant: an ended campaign still takes donations.
DonationAcceptedAfterEnd(amount) ==
    /\ status \in Open \cup {"Ended"}
    /\ ~frozen
    /\ amount > 0
    /\ min_donation_amount > 0 => amount >= min_donation_amount

\* Mutant: the freeze flag is not consulted.
DonationAcceptedFrozen(amount) ==
    /\ status \in Open
    /\ amount > 0
    /\ min_donation_amount > 0 => amount >= min_donation_amount

DonationAccepted(amount) ==
    /\ status \in Open
    /\ ~frozen
    /\ amount > 0
    /\ min_donation_amount > 0 => amount >= min_donation_amount

\* The donor's record, made on its first donation; `total_donated` is its field.
ApplyDonation(d, amount) ==
    /\ donors' = donors \cup {d}
    /\ total_donated' = [total_donated EXCEPT ![d] = @ + amount]

IncrementAssetRaised(token, amount) ==
    asset_raised' = [asset_raised EXCEPT ![token] = @ + amount]

IncrementDonorAssetDonation(d, token, amount) ==
    donated' = [donated EXCEPT ![d][token] = @ + amount]

\* The overflow check on raised_amount covers the other sums: none exceeds it.
Donate(d, amount, asset) ==
    /\ AssetIsAccepted(asset)
    /\ DonationAccepted(amount)
    /\ raised_amount + amount <= MaxI128
    /\ donation_count < MaxDonations
    /\ \E token \in TokenForAsset(asset) :
        /\ token \notin blocked
        /\ IncrementAssetRaised(token, amount)
        /\ IncrementDonorAssetDonation(d, token, amount)
    /\ raised_amount' = raised_amount + amount
    /\ status' = StatusAfterDonation(raised_amount')
    /\ total_raised' = total_raised + amount
    /\ ApplyDonation(d, amount)
    /\ donation_count' = donation_count + 1
    /\ donor_count' = IF d \in donors THEN donor_count ELSE donor_count + 1
    /\ mstatus' = UnlockMilestones(raised_amount')
    /\ UNCHANGED <<campaignVars, end_time, concluded_at, target, released, released_to,
                   refund_claimed, release_count, flagVars, envVars>>
    /\ RefreshReportCache
-----------------------------------------------------------------------------
(* claim_refund *)

\* u64 addition without overflow checks: release builds wrap.
RefundDeadline == (end_time + RefundWindow) % (MaxU64 + 1)

\* Mutant: an earlier claim does not bar a second one.
RefundEligibleTwice(d) ==
    /\ \/ status = "Cancelled"
       \/ status = "Ended" /\ \A i \in DOMAIN mstatus : mstatus[i] # "Released"
    /\ now <= RefundDeadline

\* Mutant: donors may withdraw from a campaign that is still open.
RefundEligibleWhileOpen(d) ==
    /\ \A i \in DOMAIN mstatus : mstatus[i] # "Released"
    /\ now <= RefundDeadline
    /\ ~refund_claimed[d]

RefundEligible(d) ==
    /\ \/ status = "Cancelled"
       \/ status = "Ended" /\ \A i \in DOMAIN mstatus : mstatus[i] # "Released"
    /\ now <= RefundDeadline
    /\ ~refund_claimed[d]

\* The view of the same name: what a donor is told beforehand.
IsRefundEligible(d) == status # NONE /\ d \in donors /\ RefundEligible(d)

\* The loop over milestone_count <= MAX_MILESTONES milestones, written out so
\* that a proof can reason about the sum.
ReleasedAt(i) == IF i \in DOMAIN released THEN released[i] ELSE 0
TotalReleased == ReleasedAt(1) + ReleasedAt(2) + ReleasedAt(3) + ReleasedAt(4) + ReleasedAt(5)

\* Neither the running sum nor the difference is a checked one.
RefundNumerator == Wrapped(raised_amount - TotalReleased, MaxI128)

\* Mutant: no floor; more released than raised gives a negative refund.
CalculateRefundSigned(amount, numerator, denominator) ==
    LET product == amount * numerator
    IN  IF product < 0 THEN -((-product) \div denominator) ELSE product \div denominator

\* Rust's division truncates and only a positive result is paid.
CalculateRefund(amount, numerator, denominator) ==
    LET product == amount * numerator
    IN  IF product <= 0 THEN 0
        ELSE IF product < denominator THEN 1
        ELSE product \div denominator

RefundOf(d, t) ==
    IF donated[d][t] > 0
    THEN CalculateRefund(donated[d][t], RefundNumerator, raised_amount) ELSE 0

\* The loop pays once per entry of the list.
RefundTotal(d, t) == Entries(t) * RefundOf(d, t)

ClaimRefund(d) ==
    /\ ~frozen
    /\ d \in donors
    /\ RefundEligible(d)
    /\ \A t \in Issuers : donated[d][t] * RefundNumerator \in I128
    /\ \A t \in Tokens : balance[t] >= RefundTotal(d, t)
    /\ refund_claimed' = [refund_claimed EXCEPT ![d] = TRUE]
    /\ balance' = [t \in Tokens |-> balance[t] - RefundTotal(d, t)]
    /\ refunded' = [refunded EXCEPT ![d] = [t \in Tokens |-> @[t] + RefundTotal(d, t)]]
    /\ UNCHANGED <<campaignVars, lifeVars, milestoneVars, donors, total_donated, donated,
                   counterVars, flagVars, now>>
    /\ RefreshReportCache
-----------------------------------------------------------------------------
(* release_milestone and release_milestone_multi_asset *)

\* The whole target, not the distance to the previous milestone's target.
PendingRelease(i) == target[i] - released[i]

Paid(payment, recipient) ==
    IF recipient = Self THEN balance ELSE [t \in Tokens |-> balance[t] - payment[t]]

MarkReleased(i) ==
    /\ mstatus' = [mstatus EXCEPT ![i] = "Released"]
    /\ released' = [released EXCEPT ![i] = target[i]]
    /\ release_count' = release_count + 1

\* Mutant: the predecessor is not looked at.
ReleasableInAnyOrder(i) == i \in DOMAIN target /\ mstatus[i] = "Unlocked"

Releasable(i) ==
    /\ i \in DOMAIN target
    /\ mstatus[i] = "Unlocked"
    /\ i > 1 => mstatus[i - 1] = "Released"

\* Mutant: every accepted token pays the whole amount.
PrimaryPaymentFromEach(i) ==
    [t \in Tokens |-> IF t \in Issuers /\ balance[t] > 0 /\ PendingRelease(i) > 0
                      THEN PendingRelease(i) ELSE 0]

\* Only the first accepted asset pays, and nothing when its balance is empty or
\* more was released already than the target.
PrimaryPayment(i) ==
    [t \in Tokens |->
        IF t = accepted_assets[1].issuer /\ balance[t] > 0 /\ PendingRelease(i) > 0
        THEN PendingRelease(i) ELSE 0]

ReleaseMilestone(i, recipient) ==
    /\ status # NONE
    /\ ~frozen
    /\ Releasable(i)
    /\ PendingRelease(i) \in I128
    /\ \A t \in Tokens : balance[t] >= PrimaryPayment(i)[t]
    /\ balance' = Paid(PrimaryPayment(i), recipient)
    /\ MarkReleased(i)
    /\ released_to' = [released_to EXCEPT ![i] = recipient]
    /\ UNCHANGED <<campaignVars, lifeVars, target, donorVars, total_raised, asset_raised,
                   donation_count, donor_count, flagVars, now, refunded>>
    /\ RefreshReportCache

\* A product above i128 makes the share None, and the asset is skipped.
ComputeAssetRelease(raised, release, total) ==
    IF release <= 0 \/ raised * release > MaxI128 THEN 0 ELSE (raised * release) \div total

\* The loop over the list, as it concerns one token: what is left of the token's
\* raised amount after each of its entries, each taking its share of what the one
\* before left.  No such function when a share exceeds what is left.
Remainders(t, i) ==
    {left \in [0..Entries(t) -> 0..asset_raised[t]] :
        /\ left[0] = asset_raised[t]
        /\ \A k \in 1..Entries(t) :
            left[k] = left[k - 1] - ComputeAssetRelease(left[k - 1], PendingRelease(i), total_raised)}

AssetShares(i) ==
    [t \in Tokens |-> asset_raised[t] - (CHOOSE left \in Remainders(t, i) : TRUE)[Entries(t)]]

\* Mutant: the running total loses what was pending, not what was paid.
TotalShareUnrounded(i) == PendingRelease(i)

TotalShare(i) == SumFunction(AssetShares(i))

\* No freeze check, and no check of the previous milestone.
ReleaseMilestoneMultiAsset(i) ==
    /\ status # NONE
    /\ i \in DOMAIN target
    /\ mstatus[i] = "Unlocked"
    /\ total_raised # 0
    /\ PendingRelease(i) \in I128 \ {0}
    /\ \A t \in Tokens : Remainders(t, i) # {} /\ AssetShares(i)[t] <= balance[t]
    /\ TotalShare(i) \in 0..total_raised
    /\ balance' = Paid(AssetShares(i), "beneficiary")
    /\ asset_raised' = [t \in Tokens |-> asset_raised[t] - AssetShares(i)[t]]
    /\ total_raised' = total_raised - TotalShare(i)
    /\ MarkReleased(i)
    /\ UNCHANGED <<campaignVars, lifeVars, target, released_to, donorVars,
                   donation_count, donor_count, flagVars, now, refunded>>
    /\ RefreshReportCache
-----------------------------------------------------------------------------
(* The creator's lifecycle and safety switches *)

\* validate_campaign_transition, for the two targets a call can ask for.
CanTransition(from, to) ==
    \/ to = "Ended" /\ from \in Open
    \/ to = "Cancelled" /\ from \in Open \cup {"Ended"}

Conclude(to) ==
    /\ ~frozen
    /\ CanTransition(status, to)
    /\ status' = to
    /\ concluded_at' = now
    /\ UNCHANGED <<campaignVars, raised_amount, end_time, milestoneVars, donorVars,
                   counterVars, flagVars, envVars>>
    /\ RefreshReportCache

EndCampaign    == Conclude("Ended")
CancelCampaign == Conclude("Cancelled")

ExtendDeadline(new_end_time) ==
    /\ ~frozen
    /\ status \in Open
    /\ now < new_end_time /\ new_end_time <= now + MaxGap
    /\ end_time' = new_end_time
    /\ UNCHANGED <<campaignVars, status, raised_amount, concluded_at, milestoneVars,
                   donorVars, counterVars, flagVars, envVars>>
    /\ RefreshReportCache

SetFlags(f, b) ==
    /\ status # NONE
    /\ frozen' = f /\ blocked' = b
    /\ UNCHANGED <<campaignVars, lifeVars, milestoneVars, donorVars, counterVars, report, envVars>>

Freeze          == SetFlags(TRUE, blocked)
Unfreeze        == SetFlags(FALSE, blocked)
BlockAsset(t)   == SetFlags(frozen, blocked \cup {t})
UnblockAsset(t) == SetFlags(frozen, blocked \ {t})
-----------------------------------------------------------------------------
(* Environment: tokens arrive from outside, ledgers close *)

Deposit(t, amount) ==
    /\ balance[t] + amount <= MaxBalance
    /\ balance' = [balance EXCEPT ![t] = @ + amount]
    /\ UNCHANGED <<campaignVars, lifeVars, milestoneVars, donorVars, counterVars, flagVars,
                   report, now, refunded>>

CloseLedger ==
    /\ now < MaxTime
    /\ now' = now + 1
    /\ UNCHANGED <<campaignVars, lifeVars, milestoneVars, donorVars, counterVars, flagVars,
                   report, balance, refunded>>
-----------------------------------------------------------------------------
Init ==
    /\ status = NONE /\ goal_amount = 0 /\ raised_amount = 0 /\ end_time = 0
    /\ accepted_assets = <<>> /\ min_donation_amount = 0 /\ concluded_at = NoLedger
    /\ target = <<>> /\ released = <<>> /\ mstatus = <<>> /\ released_to = <<>>
    /\ donors = {} /\ total_donated = [d \in Donors |-> 0]
    /\ refund_claimed = [d \in Donors |-> FALSE]
    /\ donated = [d \in Donors |-> [t \in Tokens |-> 0]]
    /\ total_raised = 0 /\ asset_raised = [t \in Tokens |-> 0]
    /\ donation_count = 0 /\ donor_count = 0 /\ release_count = 0
    /\ frozen = FALSE /\ blocked = {} /\ report = NoReport /\ given = <<>>
    /\ now = 0 /\ balance = [t \in Tokens |-> 0]
    /\ refunded = [d \in Donors |-> [t \in Tokens |-> 0]]

Next ==
    \/ \E plan \in Plans, list \in AssetLists, end \in EndTimes, min \in MinDonations :
            Initialize(plan, list, end, min)
    \/ \E d \in Donors, amount \in Amounts, asset \in AssetInfo : Donate(d, amount, asset)
    \/ \E d \in Donors : ClaimRefund(d)
    \/ \E i \in 1..MaxMilestones, r \in Recipients : ReleaseMilestone(i, r)
    \/ \E i \in 1..MaxMilestones : ReleaseMilestoneMultiAsset(i)
    \/ EndCampaign
    \/ CancelCampaign
    \/ \E end \in EndTimes : ExtendDeadline(end)
    \/ Freeze
    \/ Unfreeze
    \/ \E t \in Tokens : BlockAsset(t)
    \/ \E t \in Tokens : UnblockAsset(t)
    \/ \E t \in Tokens, amount \in Deposits : Deposit(t, amount)
    \/ CloseLedger

Spec == Init /\ [][Next]_vars
=============================================================================
