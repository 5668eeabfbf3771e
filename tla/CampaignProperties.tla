------------------------- MODULE CampaignProperties -------------------------
(***************************************************************************)
(* What the campaign contract promises, stated over the state of Campaign. *)
(***************************************************************************)
EXTENDS Campaign

\* Every stored value has its type; milestone fields share one index range.
TypeOK ==
    /\ status \in {NONE} \cup CampaignStatus
    /\ goal_amount \in Amount /\ raised_amount \in Amount
    /\ end_time \in 0..MaxU64 /\ now \in 0..MaxTime
    /\ min_donation_amount \in Int
    /\ accepted_assets \in {<<>>} \cup AssetLists
    /\ given \in {<<>>} \cup Plans /\ DOMAIN given = DOMAIN target
    /\ concluded_at \in {NoLedger} \cup 0..MaxTime
    /\ DOMAIN target \in {1..n : n \in 0..MaxMilestones}
    /\ target \in [DOMAIN target -> I128]
    /\ released \in [DOMAIN target -> I128]
    /\ mstatus \in [DOMAIN target -> MilestoneStatus]
    /\ released_to \in [DOMAIN target -> {NONE} \cup Recipients]
    /\ donors \subseteq Donors
    /\ total_donated \in [Donors -> Amount]
    /\ donated \in [Donors -> [Tokens -> Amount]]
    /\ refund_claimed \in [Donors -> BOOLEAN]
    /\ refunded \in [Donors -> [Tokens -> Nat]]
    /\ total_raised \in Amount /\ asset_raised \in [Tokens -> Amount]
    /\ balance \in [Tokens -> Nat]
    /\ donation_count \in Nat /\ donor_count \in Nat /\ release_count \in Nat
    /\ frozen \in BOOLEAN /\ blocked \subseteq Tokens
-----------------------------------------------------------------------------
(* What initialize was given *)

\* Milestones released by a call, as opposed to passed in as released.
ReleasedHere == {i \in DOMAIN mstatus : mstatus[i] = "Released" /\ given[i].status # "Released"}

\* A plan of any statuses whose amounts are not negative and small enough for the
\* sum of at most five of them; initialize itself checks none of this.
RegularPlan(p) ==
    \A i \in DOMAIN p :
        /\ 0 <= p[i].target /\ MaxMilestones * p[i].target <= MaxI128
        /\ 0 <= p[i].released /\ MaxMilestones * p[i].released <= MaxI128

-----------------------------------------------------------------------------
(* State invariants *)

\* The books agree: the campaign's raised amount is what the donor records add
\* up to, each record is the sum of its per-asset entries, and the running
\* total is the sum of the per-asset totals even after multi-asset releases
\* have been deducted from both.  The counters count what they name; a milestone
\* that was passed in as released is not a release.
\* (donate, release_milestone_multi_asset, claim_refund)
LedgerAgreement ==
    /\ raised_amount = SumFunction(total_donated)
    /\ \A d \in Donors : total_donated[d] = SumFunction(donated[d])
    /\ total_raised = SumFunction(asset_raised)
    /\ \A t \in Tokens : asset_raised[t] <= SumFunction([d \in Donors |-> donated[d][t]])
    /\ donors = {d \in Donors : total_donated[d] > 0}
    /\ donor_count = Cardinality(donors)
    /\ release_count = Cardinality(ReleasedHere)

\* The unlock scan, which stops at the first target it cannot reach, leaves no
\* reached milestone locked and unlocks none that was not reached, whatever
\* releases happened in between: one past Locked whose target was not reached was
\* passed in like that.  A release records the whole target, and nothing else
\* changes what a milestone was given as released.
\* (initialize, unlock_milestones_batch, both releases)
MilestoneGate ==
    \A i \in DOMAIN target :
        /\ mstatus[i] = "Locked" => raised_amount < target[i] \/ raised_amount = 0
        /\ mstatus[i] # "Locked" => target[i] <= raised_amount \/ given[i].status # "Locked"
        /\ released[i] = IF i \in ReleasedHere THEN target[i] ELSE given[i].released

\* The status field follows the raised amount while the campaign is open, and
\* a conclusion is recorded exactly when it is over.
\* (donate, end_campaign, cancel_campaign)
StatusTracksGoal ==
    /\ status = "Active" => raised_amount < goal_amount
    /\ status = "GoalReached" =>
        /\ goal_amount <= raised_amount
        /\ \A i \in DOMAIN mstatus : mstatus[i] # "Locked"
    /\ concluded_at # NoLedger <=> status \in Terminal

\* No donor ever gets back more of a token than it gave in that token, times the
\* entries the token has in the accepted assets: the refund loop pays once per
\* entry, and nothing rejects a list that names a token twice.  The dust floor, the
\* order of claims and releases between claims are all included; the plan has to be
\* regular, because a negative released amount, or released amounts whose sum wraps,
\* make the refunded fraction exceed one.  In any case only a concluded campaign's
\* recorded donors have claimed anything.
\* (initialize, claim_refund, calculate_refund_amount)
RefundWithinContribution ==
    \A d \in Donors :
        /\ RegularPlan(given) => \A t \in Tokens : refunded[d][t] <= Entries(t) * donated[d][t]
        /\ ~refund_claimed[d] => \A t \in Tokens : refunded[d][t] = 0
        /\ refund_claimed[d] => d \in donors /\ status \in Terminal

\* The memoised dashboard report is what recomputing it would give, after
\* every entrypoint, although switches and deposits never refresh it.
\* (refresh_report_cache, get_cached_report)
ReportFresh == status # NONE => report = BuildCampaignReport

\* A milestone released through release_milestone, which is what changes the
\* recipient it was given with, left no gap behind it: its predecessor was
\* released, by either path, and stays so.
\* (initialize, release_milestone)
SequentialRelease ==
    \A i \in DOMAIN target : released_to[i] # given[i].released_to =>
        mstatus[i] = "Released" /\ (i > 1 => mstatus[i - 1] = "Released")
-----------------------------------------------------------------------------
(* Action properties *)

MilestoneStep ==
    status # NONE =>
        /\ UNCHANGED <<campaignVars, target>>
        /\ \A i \in DOMAIN target :
            /\ mstatus'[i] = "Locked" => mstatus[i] = "Locked"
            /\ mstatus[i] = "Released" => /\ mstatus'[i] = "Released"
                                          /\ released'[i] = released[i]
                                          /\ released_to'[i] = released_to[i]

\* A milestone only moves forward and a released one is final; goal, targets
\* and accepted assets never change once the campaign exists.
\* (unlock_milestones_batch, both releases)
MilestonesOnlyAdvance == [][MilestoneStep]_vars

givenVars == <<raised_amount, end_time, donors, total_donated, donated>>
ClosedStep ==
    status \in Terminal =>
        /\ status' = status \/ (status = "Ended" /\ status' = "Cancelled")
        /\ UNCHANGED givenVars

\* Once a campaign is over its books are closed for good: no donation, no new
\* deadline, no reopening, and a cancelled campaign stays cancelled.
\* (donate, extend_deadline, end_campaign, cancel_campaign)
BooksClosed == [][ClosedStep]_vars

shieldedVars == <<lifeVars, donorVars, refunded, released_to, donation_count, donor_count>>
FrozenStep == frozen /\ frozen' => UNCHANGED shieldedVars

\* While the contract stays frozen nothing is donated, refunded or concluded
\* and no deadline moves; release_milestone_multi_asset alone still pays.
\* (freeze, and the checks in every guarded entrypoint)
FreezeShields == [][FrozenStep]_vars

\* What a step pays out, and the milestones and claims it settles.
Outflow == [t \in Tokens |-> IF balance'[t] < balance[t] THEN balance[t] - balance'[t] ELSE 0]
NewReleases == {i \in DOMAIN target : mstatus[i] # "Released" /\ mstatus'[i] = "Released"}
NewClaims   == {d \in donors : ~refund_claimed[d] /\ refund_claimed'[d]}

PayoutStep ==
    SumFunction(Outflow) > 0 =>
        \/ NewReleases = {} /\ Cardinality(NewClaims) = 1 /\ \A d \in NewClaims :
            SumFunction(Outflow) = SumFunction(refunded'[d])
        \/ NewClaims = {} /\ Cardinality(NewReleases) = 1 /\ \A i \in NewReleases :
            \A n \in DOMAIN accepted_assets :
                (\A t \in Tokens : Entries(t) <= n) =>
                    SumFunction(Outflow) <= n * (released'[i] - released[i])

\* Tokens leave the contract for two reasons only: a donor's one claim, or a
\* milestone's one release, which over all tokens together pays at most what
\* that milestone had pending.  Where a token is listed more than once, the
\* multi-asset release pays its share as often, from what is left of the token's
\* raised amount: then the bound is that many times what was pending.
\* (claim_refund, both releases)
PayoutsAccountedFor == [][PayoutStep]_vars
-----------------------------------------------------------------------------
(* The abstract specification a campaign implements *)

Phase ==
    IF status = NONE THEN "unborn" ELSE IF status \in Open THEN "open" ELSE "closed"

Promise == INSTANCE Escrow WITH
    Milestones <- 1..MaxMilestones,
    Cap <- MaxI128,
    phase <- Phase,
    pledge <- donated,
    returned <- refunded,
    settled <- {d \in Donors : refund_claimed[d]},
    earned <- {i \in DOMAIN mstatus : mstatus[i] # "Locked"},
    paid <- {i \in DOMAIN mstatus : mstatus[i] = "Released"},
    times <- [t \in Tokens |-> Entries(t)],
    regular <- RegularPlan(given)

\* Every behaviour of the campaign is one of the escrow: pledges only while it
\* is open, milestones earned in order beyond those it started with and paid once,
\* settlement once per donor and, for a regular plan, within its pledge for each
\* time the token is listed.  (every state-changing entrypoint)
ImplementsEscrow == Promise!EscrowSpec
-----------------------------------------------------------------------------
(* What the documentation says and the code does not do *)

\* campaign/src/lib.rs:675: while frozen, all write operations are rejected.
writtenVars == <<lifeVars, donorVars, milestoneVars, counterVars>>
FrozenRejectsWrites ==
    [][frozen /\ frozen' =>
        UNCHANGED writtenVars]_vars

\* campaign/src/types.rs:462: a fully released milestone has released its
\* target less the previous milestone's target.
ReleasedIsIncrement ==
    \A i \in DOMAIN target : mstatus[i] = "Released" =>
        released[i] = target[i] - (IF i = 1 THEN 0 ELSE target[i - 1])

\* campaign/src/lib.rs:579: cancelling makes all donors refund-eligible.
CancelStep ==
    status' = "Cancelled" /\ status # "Cancelled" =>
        \A d \in donors : refund_claimed[d] \/ IsRefundEligible(d)'
CancelOpensRefunds == [][CancelStep]_vars

\* campaign/src/types.rs:406: new donations are rejected after end_time.
NoLateDonation == [][raised_amount' # raised_amount => now <= end_time]_vars
=============================================================================
