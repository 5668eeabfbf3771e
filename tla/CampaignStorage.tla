--------------------------- MODULE CampaignStorage ---------------------------
(***************************************************************************)
(* One campaign contract seen from its ledger entries (campaign/src        *)
(* storage.rs and views.rs): which entry an accessor reads and writes, how *)
(* long the entry has left to live, and in which of two layouts the        *)
(* milestones are kept.                                                    *)
(*                                                                         *)
(* A contract's storage is a record `l`; an operator that changes it gives *)
(* the record afterwards, so a call can be run on a copy and thrown away,  *)
(* which is what the host does with a call that panics.                    *)
(*   l.ttl      ledgers left, for each persistent entry that exists        *)
(*   l.vec      MilestonesVec, the layout of today's code                  *)
(*   l.legacy   MilestoneData(i), one entry each, of earlier deployments   *)
(* Index i here is i-1 in the code.                                        *)
(***************************************************************************)
EXTENDS Integers, Sequences, FiniteSets

CONSTANTS
    Donors,         \* donor addresses
    Assets,         \* what a donation may be denominated in
    Accepted,       \* accepted_assets, as a set
    Targets,        \* the milestones' target amounts, ascending
    MinDonation,    \* min_donation_amount
    MaxI128,        \* the largest i128
    Threshold,      \* PERSISTENT_BUMP_THRESHOLD
    BumpAmount,     \* PERSISTENT_BUMP_AMOUNT
    MinTtl,         \* ledgers the network gives a new or restored entry
    NoReport        \* the report cache before it is first written

ASSUME StorageAssumption ==
    /\ IsFiniteSet(Donors)      \* an address is 32 bytes
    /\ Accepted \subseteq Assets
    /\ Targets \in Seq(1..MaxI128) /\ Targets # <<>>
    /\ \A i, j \in DOMAIN Targets : i < j => Targets[i] < Targets[j]
    /\ MinDonation \in Nat /\ MaxI128 \in Nat
    /\ Threshold \in Nat \ {0} /\ BumpAmount \in Nat /\ Threshold <= BumpAmount
    /\ MinTtl \in Nat \ {0}

Index == DOMAIN Targets
Goal  == Targets[Len(Targets)]
Open  == {"Active", "GoalReached"}

-----------------------------------------------------------------------------
(* Entries and their time to live *)

CampaignData     == <<"CampaignData">>
TotalRaised      == <<"TotalRaised">>
DonationCount    == <<"DonationCount">>
UniqueDonorCount == <<"UniqueDonorCount">>
ReleaseCount     == <<"ReleaseCount">>
MilestonesVec    == <<"MilestonesVec">>
CachedReport     == <<"CachedReport">>
Frozen           == <<"Frozen">>
BlockedAsset     == <<"BlockedAsset">>
MilestoneData(i) == <<"MilestoneData", i>>
DonorData(d)     == <<"DonorData", d>>      \* and DonorAssetDonation, written with it

CoreKeys ==
    {CampaignData, TotalRaised, DonationCount, UniqueDonorCount, ReleaseCount,
     MilestonesVec, CachedReport} \cup {MilestoneData(i) : i \in Index}
Keys == CoreKeys \cup {Frozen, BlockedAsset} \cup {DonorData(d) : d \in Donors}

Has(l, k)  == k \in DOMAIN l.ttl
Live(l, k) == Has(l, k) => l.ttl[k] > 0

Extended(n) == IF n < Threshold THEN BumpAmount ELSE n

\* bump_persistent of each key; nothing happens to one that does not exist.
Touch(l, keys) ==
    [l EXCEPT !.ttl = [k \in DOMAIN l.ttl |->
        IF k \in keys THEN Extended(l.ttl[k]) ELSE l.ttl[k]]]

\* set, then bump_persistent, of each key.
Write(l, keys) ==
    [l EXCEPT !.ttl = [k \in DOMAIN l.ttl \cup keys |->
        IF k \notin keys THEN l.ttl[k]
        ELSE IF k \in DOMAIN l.ttl THEN Extended(l.ttl[k]) ELSE Extended(MinTtl)]]

\* Mutant: the milestone vector and the report are forgotten.
BumpAllPersistentCounters(l) ==
    Touch(l, {CampaignData, TotalRaised, DonationCount, UniqueDonorCount, ReleaseCount})

BumpAllPersistent(l) == Touch(l, CoreKeys)

\* What the host does: an entry that ran out is kept aside until restored.
Aged(l) ==
    [l EXCEPT !.ttl = [k \in DOMAIN l.ttl |-> IF l.ttl[k] > 0 THEN l.ttl[k] - 1 ELSE 0]]
Restored(l) ==
    [l EXCEPT !.ttl = [k \in DOMAIN l.ttl |-> IF l.ttl[k] = 0 THEN MinTtl ELSE l.ttl[k]]]

-----------------------------------------------------------------------------
(* Milestones, in two layouts *)

\* Legacy entries are gathered up to the first index that is missing.
GetMilestonesVec(l) ==
    IF Has(l, MilestonesVec) THEN l.vec
    ELSE [i \in {j \in DOMAIN l.legacy : 1..j \subseteq DOMAIN l.legacy} |-> l.legacy[i]]

\* Reading the vector refreshes it; legacy entries are read and not refreshed.
SetMilestonesVec(l, v) == Write([l EXCEPT !.vec = v], {MilestonesVec})

Put(f, i, m) == [j \in DOMAIN f \cup {i} |-> IF j = i THEN m ELSE f[j]]

\* Mutant: a contract that still has per-index entries keeps writing them.
SetMilestoneInPlace(l, i, m) ==
    IF MilestoneData(i) \in DOMAIN l.ttl
    THEN Write([l EXCEPT !.legacy = Put(l.legacy, i, m)], {MilestoneData(i)})
    ELSE SetMilestonesVec(l, Put(GetMilestonesVec(l), i, m))

\* An index inside the vector, or just behind it, writes the whole vector; one
\* further out is written under its own key.
SetMilestone(l, i, m) ==
    LET v == GetMilestonesVec(l)
    IN  IF 1..(i - 1) \subseteq DOMAIN v
        THEN SetMilestonesVec(l, Put(v, i, m))
        ELSE Write([l EXCEPT !.legacy = Put(l.legacy, i, m)], {MilestoneData(i)})

\* get_milestone, as a set: empty when there is no such milestone.
GetMilestone(l, i) ==
    LET v == GetMilestonesVec(l)
    IN  IF i \in DOMAIN v THEN {v[i]}
        ELSE IF i \in DOMAIN l.legacy THEN {l.legacy[i]} ELSE {}

\* The scan stops at the first target above `raised`.
Reached(v, raised) ==
    {i \in DOMAIN v : v[i].status = "Locked" /\ \A j \in 1..i : v[j].target <= raised}

\* Mutant: the vector is written only when its last milestone unlocks.
UnlockMilestonesBatchLast(l, raised) ==
    LET v == GetMilestonesVec(l)
    IN  IF Len(Targets) \in Reached(v, raised)
        THEN SetMilestonesVec(l, [i \in DOMAIN v |->
                IF i \in Reached(v, raised) THEN [v[i] EXCEPT !.status = "Unlocked"] ELSE v[i]])
        ELSE l

UnlockMilestonesBatch(l, raised) ==
    LET v == GetMilestonesVec(l)
    IN  IF Reached(v, raised) # {}
        THEN SetMilestonesVec(l, [i \in DOMAIN v |->
                IF i \in Reached(v, raised) THEN [v[i] EXCEPT !.status = "Unlocked"] ELSE v[i]])
        ELSE Touch(l, {MilestonesVec})

-----------------------------------------------------------------------------
(* Reports and views *)

BuildReport(l) ==
    [status |-> l.status, raised |-> l.raised, donors |-> l.donors,
     donations |-> l.donations, releases |-> l.releases]

ReportKeys == {CampaignData, UniqueDonorCount, DonationCount, ReleaseCount}

RefreshReportCache(l) ==
    Write(Touch([l EXCEPT !.report = BuildReport(l)], ReportKeys), {CachedReport})

\* get_cached_report: a contract older than the cache computes the report.
GetCachedReport(l) == IF Has(l, CachedReport) THEN l.report ELSE BuildReport(l)

\* find_next_pending_index, as a set: empty when all are released.
FindNextPendingIndex(l) ==
    LET pending == {i \in Index : \E m \in GetMilestone(l, i) : m.status # "Released"}
    IN  {i \in pending : \A j \in pending : i <= j}

\* get_milestone_by_index and an element of get_all_milestones.
MilestoneView(l, i) ==
    {[pending_release |-> IF m.released < m.target THEN m.target - m.released ELSE 0,
      is_fully_released |-> m.released >= m.target,
      is_next_pending |-> i \in FindNextPendingIndex(l)] : m \in GetMilestone(l, i)}

\* get_platform_summary and get_dashboard_metrics.
PlatformSummary(l) ==
    [total_campaigns    |-> IF Has(l, CampaignData) THEN 1 ELSE 0,
     active_campaigns   |-> IF Has(l, CampaignData) /\ l.status \in Open THEN 1 ELSE 0,
     total_transactions |-> l.donations + l.releases]
=============================================================================
