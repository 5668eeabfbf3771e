--------------------------- MODULE BatchDonorProofs ---------------------------
(***************************************************************************)
(* Theorems about the campaigns' storage under donations, batches,         *)
(* releases and passing ledgers, for any campaigns, targets, batches and   *)
(* lifetimes that satisfy the assumptions.                                 *)
(*                                                                         *)
(* Every accessor either keeps a ledger's milestones and prolongs its      *)
(* entries, or writes the milestone vector; `Fine` is what both preserve.  *)
(***************************************************************************)
EXTENDS BatchDonor, SumLemmas, TLAPS

-----------------------------------------------------------------------------
(* The invariant *)

Shaped(l) == {"ttl", "vec", "legacy", "raised"} \subseteq DOMAIN l

Lifetimes(l) == \A k \in DOMAIN l.ttl : l.ttl[k] \in Nat

\* Milestone i, when `raised` has been raised.
Right(m, i, raised) ==
    /\ m = [target |-> Targets[i], released |-> m.released, status |-> m.status]
    /\ m.status # "Locked" <=> Targets[i] <= raised

RightVector(v, raised) == DOMAIN v = Index /\ \A i \in Index : Right(v[i], i, raised)

\* The milestones are complete and right in the layout that is in force; before
\* a campaign there is nothing.
Layout(l, raised) ==
    IF Has(l, CampaignData)
    THEN RightVector(IF Has(l, MilestonesVec) THEN l.vec ELSE l.legacy, raised)
    ELSE DOMAIN l.ttl = {} /\ raised = 0

\* Core entries outlast the next Threshold - age ledgers.
Kept(l, age) ==
    age < Threshold =>
        \A k \in CoreKeys : k \in DOMAIN l.ttl => l.ttl[k] >= Threshold - age

Fine(l, age) ==
    /\ Shaped(l) /\ Lifetimes(l) /\ l.raised \in Nat
    /\ Layout(l, l.raised)
    /\ Kept(l, age)

Outcomes == {"Success", "InvocationFailed", "ValidationFailed"}
Results == [index : Nat, outcome : Outcomes, validation_code : SUBSET Int]

BatchInv ==
    /\ DOMAIN ledger = Campaigns
    /\ unbumped \in [Campaigns -> 0..Threshold]
    /\ \A c \in Campaigns : Fine(ledger[c], unbumped[c])
    /\ mode # "idle" => DOMAIN saved = Campaigns
                        /\ \A c \in Campaigns : Fine(saved[c], unbumped[c])
    /\ targets \in Batches \cup {<<>>}
    /\ results \in Seq(Results)

-----------------------------------------------------------------------------
(* Accessors that leave the milestones alone *)

Grown(t, u) ==
    /\ DOMAIN t \subseteq DOMAIN u
    /\ \A k \in DOMAIN u : u[k] \in Nat
    /\ \A k \in DOMAIN t : u[k] >= t[k]
    /\ \A k \in DOMAIN u \ DOMAIN t : u[k] >= Threshold

Calm(l, r) ==
    /\ Shaped(r) /\ r.vec = l.vec /\ r.legacy = l.legacy
    /\ Has(r, MilestonesVec) <=> Has(l, MilestonesVec)
    /\ Grown(l.ttl, r.ttl)

LEMMA KeysDiffer ==
  /\ MilestonesVec \notin {CampaignData, TotalRaised, DonationCount, UniqueDonorCount,
                           ReleaseCount, CachedReport, Frozen, BlockedAsset}
  /\ \A d \in Donors : MilestonesVec # DonorData(d)
  /\ MilestonesVec # CampaignData /\ {MilestonesVec, CampaignData} \subseteq CoreKeys
  BY DEF MilestonesVec, CampaignData, TotalRaised, DonationCount, UniqueDonorCount,
         ReleaseCount, CachedReport, Frozen, BlockedAsset, DonorData, CoreKeys

LEMMA ExtendedLonger ==
  ASSUME NEW n \in Nat
  PROVE  Extended(n) \in Nat /\ Extended(n) >= n /\ Extended(n) >= Threshold
  BY StorageAssumption DEF Extended

LEMMA CalmSelf ==
  ASSUME NEW l, Shaped(l), Lifetimes(l)
  PROVE  Calm(l, l)
  BY DEF Calm, Grown, Lifetimes

LEMMA CalmTrans ==
  ASSUME NEW l, NEW r, NEW s, Lifetimes(l), Calm(l, r), Calm(r, s)
  PROVE  Calm(l, s) /\ Lifetimes(r)
  BY StorageAssumption DEF Calm, Grown, Lifetimes

LEMMA TouchCalm ==
  ASSUME NEW l, Shaped(l), Lifetimes(l), NEW keys
  PROVE  /\ Calm(l, Touch(l, keys)) /\ DOMAIN Touch(l, keys) = DOMAIN l
         /\ Touch(l, keys).raised = l.raised
         /\ DOMAIN Touch(l, keys).ttl = DOMAIN l.ttl
         /\ \A k \in keys \cap DOMAIN l.ttl : Touch(l, keys).ttl[k] >= Threshold
<1>. DEFINE u == [k \in DOMAIN l.ttl |-> IF k \in keys THEN Extended(l.ttl[k]) ELSE l.ttl[k]]
<1>1. Touch(l, keys) = [l EXCEPT !.ttl = u]
  BY DEF Touch
<1>2. Grown(l.ttl, u) /\ \A k \in keys \cap DOMAIN l.ttl : u[k] >= Threshold
  BY ExtendedLonger DEF Grown, Lifetimes
<1>. HIDE DEF u
<1>3. DOMAIN u = DOMAIN l.ttl
  BY DEF u
<1>. QED
  BY <1>1, <1>2, <1>3 DEF Calm, Shaped, Has

LEMMA WriteGrows ==
  ASSUME NEW l, Shaped(l), Lifetimes(l), NEW keys
  PROVE  LET r == Write(l, keys)
         IN  /\ DOMAIN r = DOMAIN l /\ r.vec = l.vec /\ r.legacy = l.legacy /\ r.raised = l.raised
             /\ DOMAIN r.ttl = DOMAIN l.ttl \cup keys
             /\ Grown(l.ttl, r.ttl)
             /\ \A k \in keys : r.ttl[k] >= Threshold
<1>. DEFINE u == [k \in DOMAIN l.ttl \cup keys |->
                    IF k \notin keys THEN l.ttl[k]
                    ELSE IF k \in DOMAIN l.ttl THEN Extended(l.ttl[k]) ELSE Extended(MinTtl)]
<1>1. Write(l, keys) = [l EXCEPT !.ttl = u]
  BY DEF Write
<1>2. Grown(l.ttl, u) /\ (\A k \in keys : u[k] >= Threshold) /\ DOMAIN u = DOMAIN l.ttl \cup keys
  <2>1. MinTtl \in Nat
    BY StorageAssumption
  <2>. QED
    BY <2>1, ExtendedLonger DEF Grown, Lifetimes
<1>. HIDE DEF u
<1>. QED
  BY <1>1, <1>2 DEF Shaped

LEMMA WriteCalm ==
  ASSUME NEW l, Shaped(l), Lifetimes(l), NEW keys, MilestonesVec \notin keys
  PROVE  /\ Calm(l, Write(l, keys)) /\ DOMAIN Write(l, keys) = DOMAIN l
         /\ Write(l, keys).raised = l.raised
  BY WriteGrows DEF Calm, Shaped, Has

LEMMA RefreshCalm ==
  ASSUME NEW l, Shaped(l), Lifetimes(l)
  PROVE  Calm(l, RefreshReportCache(l)) /\ RefreshReportCache(l).raised = l.raised
<1>. DEFINE l1 == [l EXCEPT !.report = BuildReport(l)]
            l2 == Touch(l1, ReportKeys)
<1>1. /\ Shaped(l1) /\ l1.ttl = l.ttl /\ l1.vec = l.vec /\ l1.legacy = l.legacy
      /\ l1.raised = l.raised
  BY DEF Shaped
<1>2. Lifetimes(l1)
  BY <1>1 DEF Lifetimes
<1>. HIDE DEF l1
<1>3. Calm(l1, l2) /\ l2.raised = l.raised
  BY <1>1, <1>2, TouchCalm
<1>4. Shaped(l2) /\ Lifetimes(l2)
  BY <1>3 DEF Calm, Grown, Lifetimes
<1>. HIDE DEF l2
<1>5. Calm(l2, Write(l2, {CachedReport})) /\ Write(l2, {CachedReport}).raised = l.raised
  BY <1>3, <1>4, WriteCalm, KeysDiffer
<1>6. Calm(l, l2)
  BY <1>1, <1>3 DEF Calm, Has
<1>7. RefreshReportCache(l) = Write(l2, {CachedReport})
  BY DEF RefreshReportCache, l1, l2
<1>. QED
  BY <1>5, <1>6, <1>7, CalmTrans

\* What a change that grows the lifetimes and leaves the milestones right preserves.
LEMMA GrownFine ==
  ASSUME NEW l, NEW r, NEW age \in 0..Threshold, Fine(l, age), Shaped(r), Grown(l.ttl, r.ttl),
         r.raised \in Nat, Layout(r, r.raised)
  PROVE  Fine(r, age)
<1>1. Lifetimes(r)
  BY DEF Grown, Lifetimes
<1>2. Kept(r, age)
  <2>. SUFFICES ASSUME age < Threshold, NEW k \in CoreKeys, k \in DOMAIN r.ttl
                PROVE  r.ttl[k] >= Threshold - age
    BY DEF Kept
  <2>1. Threshold \in Nat /\ r.ttl[k] \in Nat
    BY <1>1, StorageAssumption DEF Lifetimes
  <2>2. CASE k \in DOMAIN l.ttl
    BY <2>1, <2>2 DEF Fine, Lifetimes, Kept, Grown
  <2>3. CASE k \notin DOMAIN l.ttl
    BY <2>1, <2>3 DEF Grown
  <2>. QED
    BY <2>2, <2>3
<1>. QED
  BY <1>1, <1>2 DEF Fine

\* What a calm change preserves.
LEMMA CalmFine ==
  ASSUME NEW l, NEW r, NEW age \in 0..Threshold, Fine(l, age), Calm(l, r), r.raised = l.raised,
         Has(l, CampaignData) \/ DOMAIN r.ttl = DOMAIN l.ttl
  PROVE  Fine(r, age)
<1>1. Layout(r, r.raised)
  BY DEF Fine, Layout, Calm, Grown, Has
<1>. QED
  BY <1>1, GrownFine DEF Fine, Calm

-----------------------------------------------------------------------------
(* Accessors that write the milestones *)

LEMMA TargetTypes ==
  /\ Index = 1..Len(Targets) /\ Len(Targets) \in Nat
  /\ \A i \in Index : Targets[i] \in Nat \ {0} /\ 1..(i - 1) \subseteq Index /\ 1..i \subseteq Index
  /\ \A i, j \in Index : i < j => Targets[i] < Targets[j]
<1>1. Targets \in Seq(1..MaxI128) /\ MaxI128 \in Nat
  BY StorageAssumption
<1>2. /\ Index = 1..Len(Targets) /\ Len(Targets) \in Nat
      /\ \A i \in Index : Targets[i] \in 1..MaxI128
  BY <1>1 DEF Index
<1>. QED
  BY <1>1, <1>2, StorageAssumption DEF Index

\* What is read, in either layout.
LEMMA VectorRead ==
  ASSUME NEW l, NEW raised, Layout(l, raised), Has(l, CampaignData)
  PROVE  RightVector(GetMilestonesVec(l), raised)
<1>1. CASE Has(l, MilestonesVec)
  BY <1>1 DEF Layout, GetMilestonesVec
<1>2. CASE ~Has(l, MilestonesVec)
  <2>1. RightVector(l.legacy, raised)
    BY <1>2 DEF Layout
  <2>2. {j \in DOMAIN l.legacy : 1..j \subseteq DOMAIN l.legacy} = Index
    BY <2>1, TargetTypes DEF RightVector
  <2>3. GetMilestonesVec(l) = [i \in Index |-> l.legacy[i]]
    BY <1>2, <2>2 DEF GetMilestonesVec
  <2>. QED
    BY <2>1, <2>3 DEF RightVector
<1>. QED
  BY <1>1, <1>2

LEMMA MilestoneRead ==
  ASSUME NEW l, NEW raised, Layout(l, raised), Has(l, CampaignData), NEW i \in Index
  PROVE  GetMilestone(l, i) = {GetMilestonesVec(l)[i]}
  BY VectorRead DEF GetMilestone, RightVector

LEMMA VectorWritten ==
  ASSUME NEW l, Shaped(l), Lifetimes(l), Has(l, CampaignData), NEW v, NEW raised,
         RightVector(v, raised)
  PROVE  LET r == SetMilestonesVec(l, v)
         IN  /\ Shaped(r) /\ r.raised = l.raised /\ Grown(l.ttl, r.ttl) /\ Layout(r, raised)
             /\ Has(r, CampaignData)
<1>. DEFINE l1 == [l EXCEPT !.vec = v]
<1>1. Shaped(l1) /\ l1.ttl = l.ttl /\ l1.vec = v /\ l1.raised = l.raised
  BY DEF Shaped
<1>2. Lifetimes(l1)
  BY <1>1 DEF Lifetimes
<1>3. SetMilestonesVec(l, v) = Write(l1, {MilestonesVec})
  BY DEF SetMilestonesVec
<1>. HIDE DEF l1
<1>. QED
  BY <1>1, <1>2, <1>3, WriteGrows DEF Shaped, Layout, Has

\* Unlocking catches up with what was raised, from a lower amount.
LEMMA UnlockRight ==
  ASSUME NEW l, Shaped(l), Lifetimes(l), Has(l, CampaignData), NEW old \in Nat, NEW raised \in Nat,
         old <= raised, Layout(l, old)
  PROVE  LET r == UnlockMilestonesBatch(l, raised)
         IN  /\ Shaped(r) /\ r.raised = l.raised /\ Grown(l.ttl, r.ttl) /\ Layout(r, raised)
             /\ Has(r, CampaignData)
<1>. DEFINE v == GetMilestonesVec(l)
            reached == Reached(v, raised)
            w == [i \in DOMAIN v |->
                    IF i \in reached THEN [v[i] EXCEPT !.status = "Unlocked"] ELSE v[i]]
<1>1. RightVector(v, old)
  BY VectorRead
<1>2. \A i \in Index : i \in reached <=> v[i].status = "Locked" /\ Targets[i] <= raised
  <2>1. ASSUME NEW i \in Index PROVE (\A j \in 1..i : v[j].target <= raised) <=> Targets[i] <= raised
    <3>1. \A j \in 1..i : j \in Index /\ v[j].target = Targets[j] /\ Targets[j] <= Targets[i]
      BY <1>1, TargetTypes DEF RightVector, Right
    <3>. QED
      BY <3>1, TargetTypes
  <2>. QED
    BY <1>1, <2>1 DEF Reached, RightVector
<1>3. CASE reached # {}
  <2>1. RightVector(w, raised)
    <3>1. DOMAIN w = Index
      BY <1>1 DEF RightVector
    <3>2. ASSUME NEW i \in Index PROVE Right(w[i], i, raised)
      <4>1. Right(v[i], i, old) /\ Targets[i] \in Nat
        BY <1>1, TargetTypes DEF RightVector
      <4>2. CASE i \in reached
        <5>1. w[i] = [v[i] EXCEPT !.status = "Unlocked"]
          BY <1>1, <4>2 DEF RightVector
        <5>2. w[i] = [target |-> Targets[i], released |-> v[i].released, status |-> "Unlocked"]
          BY <4>1, <5>1 DEF Right
        <5>. QED
          BY <1>2, <4>2, <5>2 DEF Right
      <4>3. CASE i \notin reached
        <5>1. w[i] = v[i]
          BY <1>1, <4>3 DEF RightVector
        <5>. QED
          BY <1>2, <4>1, <4>3, <5>1 DEF Right
      <4>. QED
        BY <4>2, <4>3
    <3>. QED
      BY <3>1, <3>2 DEF RightVector
  <2>2. UnlockMilestonesBatch(l, raised) = SetMilestonesVec(l, w)
    BY <1>3 DEF UnlockMilestonesBatch
  <2>. HIDE DEF w
  <2>. QED
    BY <2>1, <2>2, VectorWritten
<1>4. CASE reached = {}
  <2>1. UnlockMilestonesBatch(l, raised) = Touch(l, {MilestonesVec})
    BY <1>4 DEF UnlockMilestonesBatch
  <2>2. Layout(l, raised)
    <3>1. ASSUME NEW x, RightVector(x, old), x = v \/ (x = l.legacy /\ ~Has(l, MilestonesVec))
          PROVE  RightVector(x, raised)
      <4>1. ASSUME NEW i \in Index PROVE x[i] = v[i]
        <5>1. CASE x = v
          BY <5>1
        <5>2. CASE x = l.legacy /\ ~Has(l, MilestonesVec)
          <6>1. i \in {j \in DOMAIN l.legacy : 1..j \subseteq DOMAIN l.legacy}
            BY <3>1, <5>2, TargetTypes DEF RightVector
          <6>. QED
            BY <5>2, <6>1 DEF GetMilestonesVec
        <5>. QED
          BY <3>1, <5>1, <5>2
      <4>2. ASSUME NEW i \in Index PROVE Right(x[i], i, raised)
        BY <1>2, <1>4, <3>1, <4>1, TargetTypes DEF RightVector, Right
      <4>. QED
        BY <3>1, <4>2 DEF RightVector
    <3>2. Has(l, MilestonesVec) => l.vec = v
      BY DEF GetMilestonesVec
    <3>. QED
      BY <3>1, <3>2 DEF Layout
  <2>. QED
    BY <2>1, <2>2, TouchCalm DEF Calm, Layout, Has
<1>. QED
  BY <1>3, <1>4

LEMMA GrownTrans ==
  ASSUME NEW t, NEW u, NEW w, \A k \in DOMAIN t : t[k] \in Nat, Grown(t, u), Grown(u, w)
  PROVE  Grown(t, w)
  BY StorageAssumption DEF Grown

-----------------------------------------------------------------------------
(* Calls *)

LEMMA DonatedFine ==
  ASSUME NEW l, NEW age \in 0..Threshold, Fine(l, age), Has(l, CampaignData),
         NEW t, t.amount \in Int, t.amount > 0
  PROVE  Fine(Donated(l, t), age)
<1>. DEFINE raised == l.raised + t.amount
            flags  == Touch(l, {Frozen, BlockedAsset})
            x      == [flags EXCEPT !.locked = TRUE,
                                    !.raised = @ + t.amount,
                                    !.status = IF @ = "Active" /\ flags.raised + t.amount >= Goal
                                               THEN "GoalReached" ELSE @,
                                    !.total  = @ + t.amount]
            y      == Write(x, {CampaignData, TotalRaised})
            z      == [y EXCEPT !.donated   = [y.donated EXCEPT ![t.donor] = @ + t.amount],
                                !.donations = @ + 1,
                                !.donors    = IF Has(y, DonorData(t.donor)) THEN @ ELSE @ + 1]
            record == Write(z, DonorKeys(y, t))
            unlock == UnlockMilestonesBatch(record, record.raised)
            report == RefreshReportCache(unlock)
<1>0. /\ l.raised \in Nat /\ raised \in Nat /\ l.raised <= raised
      /\ Shaped(l) /\ Lifetimes(l) /\ Layout(l, l.raised)
  BY DEF Fine
<1>1. Donated(l, t) = [report EXCEPT !.locked = FALSE]
  BY DEF Donated, Record, Raise
<1>2. Calm(l, flags) /\ flags.raised = l.raised /\ Shaped(flags) /\ Lifetimes(flags)
  BY <1>0, TouchCalm DEF Calm, Grown, Lifetimes
<1>. HIDE DEF flags
<1>3. /\ Shaped(x) /\ x.ttl = flags.ttl /\ x.vec = flags.vec /\ x.legacy = flags.legacy
      /\ x.raised = raised
  BY <1>2 DEF Shaped
<1>. HIDE DEF x
<1>4. Calm(l, x) /\ Lifetimes(x)
  BY <1>2, <1>3 DEF Calm, Has, Lifetimes
<1>5. Calm(l, y) /\ Lifetimes(y) /\ y.raised = raised
  BY <1>0, <1>3, <1>4, WriteCalm, CalmTrans, KeysDiffer DEF Calm, Grown, Lifetimes
<1>. HIDE DEF y
<1>6. /\ Shaped(z) /\ z.ttl = y.ttl /\ z.vec = y.vec /\ z.legacy = y.legacy
      /\ z.raised = raised
  BY <1>5 DEF Calm, Shaped
<1>. HIDE DEF z
<1>7. Calm(l, z) /\ Lifetimes(z)
  BY <1>5, <1>6 DEF Calm, Has, Lifetimes
<1>8. MilestonesVec \notin DonorKeys(y, t)
  <2>1. MilestonesVec # DonorData(t.donor)
    BY DEF MilestonesVec, DonorData
  <2>. QED
    BY <2>1, KeysDiffer DEF DonorKeys
<1>9. Calm(l, record) /\ record.raised = raised
  BY <1>0, <1>6, <1>7, <1>8, WriteCalm, CalmTrans
<1>. HIDE DEF record
<1>10. Shaped(record) /\ Lifetimes(record) /\ Has(record, CampaignData) /\ Layout(record, l.raised)
  BY <1>0, <1>9 DEF Calm, Grown, Lifetimes, Has, Layout
<1>11. /\ Shaped(unlock) /\ unlock.raised = raised /\ Grown(record.ttl, unlock.ttl)
       /\ Layout(unlock, raised) /\ Has(unlock, CampaignData)
  BY <1>0, <1>9, <1>10, UnlockRight
<1>12. Grown(l.ttl, unlock.ttl) /\ Lifetimes(unlock)
  BY <1>0, <1>9, <1>11, GrownTrans DEF Calm, Lifetimes, Grown
<1>. HIDE DEF unlock
<1>13. Fine(unlock, age)
  BY <1>0, <1>11, <1>12, GrownFine
<1>14. Calm(unlock, report) /\ report.raised = unlock.raised
  BY <1>11, <1>12, RefreshCalm
<1>15. Fine(report, age)
  BY <1>11, <1>13, <1>14, CalmFine
<1>. HIDE DEF report
<1>16. LET d == [report EXCEPT !.locked = FALSE]
       IN  /\ Shaped(d) /\ d.ttl = report.ttl /\ d.vec = report.vec /\ d.legacy = report.legacy
           /\ d.raised = report.raised
  BY <1>15 DEF Fine, Shaped
<1>. QED
  BY <1>1, <1>15, <1>16 DEF Fine, Lifetimes, Layout, Kept, Has

LEMMA DonateFine ==
  ASSUME NEW l, NEW age \in 0..Threshold, Fine(l, age), NEW t, t.amount \in Int
  PROVE  Fine(Donate(l, t).ledger, age)
  BY DonatedFine DEF Donate, DonationAccepted

LEMMA InitializeFine ==
  ASSUME BatchInv, NEW c \in Campaigns, Initialize(c)
  PROVE  Fine(ledger'[c], 0)
<1>. DEFINE l1    == [ledger[c] EXCEPT !.status = "Active"]
            l2    == Write(l1, {CampaignData})
            fresh == [i \in Index |-> [target |-> Targets[i], released |-> 0, status |-> "Locked"]]
            l3    == SetMilestonesVec(l2, fresh)
<1>1. Fine(ledger[c], unbumped[c]) /\ ~Has(ledger[c], CampaignData)
  BY DEF BatchInv, Initialize
<1>2. ledger'[c] = RefreshReportCache(l3)
  BY DEF BatchInv, Initialize, Call
<1>3. Shaped(l1) /\ DOMAIN l1.ttl = {} /\ l1.raised = 0
  BY <1>1 DEF Fine, Layout, Shaped
<1>. HIDE DEF l1
<1>4. /\ Shaped(l2) /\ l2.raised = 0 /\ Lifetimes(l2) /\ Has(l2, CampaignData)
      /\ \A k \in DOMAIN l2.ttl : l2.ttl[k] >= Threshold
  BY <1>3, WriteGrows DEF Shaped, Lifetimes, Grown, Has
<1>. HIDE DEF l2
<1>5. RightVector(fresh, 0)
  BY TargetTypes DEF RightVector, Right
<1>. HIDE DEF fresh
<1>6. /\ Shaped(l3) /\ l3.raised = 0 /\ Grown(l2.ttl, l3.ttl) /\ Layout(l3, 0)
      /\ Has(l3, CampaignData)
  BY <1>4, <1>5, VectorWritten
<1>. HIDE DEF l3
<1>7. Threshold \in Nat /\ 0 \in 0..Threshold
  BY StorageAssumption
<1>8. Fine(l3, 0)
  <2>1. Kept(l3, 0) /\ Lifetimes(l3)
    <3>1. Lifetimes(l3)
      BY <1>6 DEF Grown, Lifetimes
    <3>2. \A k \in DOMAIN l3.ttl : l3.ttl[k] >= Threshold
      BY <1>4, <1>6, <1>7, <3>1 DEF Grown, Lifetimes
    <3>. QED
      BY <1>7, <3>1, <3>2 DEF Kept, Lifetimes
  <2>. QED
    BY <1>6, <2>1 DEF Fine
<1>9. Calm(l3, RefreshReportCache(l3)) /\ RefreshReportCache(l3).raised = l3.raised
  BY <1>8, RefreshCalm DEF Fine
<1>. QED
  BY <1>2, <1>6, <1>7, <1>8, <1>9, CalmFine

LEMMA ReleaseFine ==
  ASSUME BatchInv, NEW c \in Campaigns, NEW i \in Index, ReleaseMilestone(c, i)
  PROVE  Fine(ledger'[c], unbumped[c])
<1>. DEFINE age  == unbumped[c]
            l0   == ledger[c]
            l    == Touch(l0, {Frozen})
            paid == [target |-> Targets[i], released |-> Targets[i], status |-> "Released"]
            v    == GetMilestonesVec(l)
            set  == SetMilestone(l, i, paid)
            x    == [set EXCEPT !.releases = @ + 1]
            done == Write(x, {ReleaseCount})
<1>1. /\ Fine(l0, age) /\ Has(l0, CampaignData) /\ age \in 0..Threshold
      /\ \E m \in GetMilestone(l0, i) : m.status = "Unlocked"
  BY DEF BatchInv, ReleaseMilestone, Releasable
<1>2. ledger'[c] = RefreshReportCache(done)
  BY DEF BatchInv, ReleaseMilestone, Call
<1>3. Targets[i] <= l0.raised
  <2>1. RightVector(GetMilestonesVec(l0), l0.raised) /\ GetMilestone(l0, i) = {GetMilestonesVec(l0)[i]}
    BY <1>1, VectorRead, MilestoneRead DEF Fine
  <2>. QED
    BY <1>1, <2>1 DEF RightVector, Right
<1>. HIDE DEF l0, age
<1>4. Fine(l, age) /\ Has(l, CampaignData) /\ l.raised = l0.raised
  BY <1>1, TouchCalm, CalmFine DEF Fine, Has
<1>. HIDE DEF l
<1>5. RightVector(v, l.raised)
  BY <1>4, VectorRead DEF Fine
<1>6. RightVector(Put(v, i, paid), l.raised)
  BY <1>3, <1>4, <1>5 DEF RightVector, Right, Put
<1>7. set = SetMilestonesVec(l, Put(v, i, paid))
  <2>1. 1..(i - 1) \subseteq DOMAIN v
    BY <1>5, TargetTypes DEF RightVector
  <2>. QED
    BY <2>1 DEF SetMilestone
<1>8. /\ Shaped(set) /\ set.raised = l.raised /\ Grown(l.ttl, set.ttl) /\ Layout(set, l.raised)
      /\ Has(set, CampaignData)
  BY <1>4, <1>6, <1>7, VectorWritten DEF Fine
<1>. HIDE DEF set, v, paid
<1>9. /\ Shaped(x) /\ x.raised = l.raised /\ Grown(l.ttl, x.ttl) /\ Layout(x, l.raised)
      /\ Has(x, CampaignData)
  <2>1. /\ Shaped(x) /\ x.raised = set.raised /\ x.ttl = set.ttl /\ x.vec = set.vec
        /\ x.legacy = set.legacy
    BY <1>8 DEF Shaped
  <2>. HIDE DEF x
  <2>. QED
    BY <1>8, <2>1 DEF Layout, Has
<1>. HIDE DEF x
<1>10. Fine(x, age)
  BY <1>1, <1>4, <1>9, GrownFine DEF Fine
<1>11. Calm(x, done) /\ done.raised = x.raised
  BY <1>10, WriteCalm, KeysDiffer DEF Fine
<1>12. Fine(done, age) /\ Has(done, CampaignData)
  BY <1>1, <1>9, <1>10, <1>11, CalmFine DEF Calm, Grown, Has
<1>. HIDE DEF done
<1>13. Calm(done, RefreshReportCache(done)) /\ RefreshReportCache(done).raised = done.raised
  BY <1>12, RefreshCalm DEF Fine
<1>14. Fine(RefreshReportCache(done), age)
  BY <1>1, <1>12, <1>13, CalmFine
<1>. QED
  BY <1>2, <1>14 DEF age

\* A change of fields the invariant does not speak of.
LEMMA SameFine ==
  ASSUME NEW l, NEW r, NEW age \in 0..Threshold, Fine(l, age), Shaped(r), r.ttl = l.ttl,
         r.vec = l.vec, r.legacy = l.legacy, r.raised = l.raised
  PROVE  Fine(r, age)
  BY DEF Fine, Lifetimes, Layout, Kept, Has

\* Writing one key that is not the milestones'.
LEMMA WriteFine ==
  ASSUME NEW l, NEW age \in 0..Threshold, Fine(l, age), Has(l, CampaignData),
         NEW keys, MilestonesVec \notin keys
  PROVE  Fine(Write(l, keys), age) /\ Has(Write(l, keys), CampaignData)
  BY WriteCalm, CalmFine DEF Fine, Calm, Grown, Has

LEMMA TouchFine ==
  ASSUME NEW l, NEW age \in 0..Threshold, Fine(l, age), Has(l, CampaignData), NEW keys
  PROVE  Fine(Touch(l, keys), age) /\ Has(Touch(l, keys), CampaignData)
  BY TouchCalm, CalmFine DEF Fine, Has

LEMMA EndFine ==
  ASSUME BatchInv, NEW c \in Campaigns, EndCampaign(c)
  PROVE  Fine(ledger'[c], unbumped[c])
<1>. DEFINE l == Touch(ledger[c], {Frozen})
            x == [l EXCEPT !.status = "Ended"]
            y == Write(x, {CampaignData})
<1>1. ledger'[c] = RefreshReportCache(y) /\ unbumped[c] \in 0..Threshold
  BY DEF BatchInv, EndCampaign, Call
<1>2. Fine(l, unbumped[c]) /\ Has(l, CampaignData)
  <2>1. Fine(ledger[c], unbumped[c]) /\ Has(l, CampaignData)
    BY DEF BatchInv, EndCampaign
  <2>2. Has(ledger[c], CampaignData)
    BY <2>1, TouchCalm DEF Has, Fine
  <2>. QED
    BY <1>1, <2>1, <2>2, TouchFine
<1>. HIDE DEF l
<1>3. /\ Shaped(x) /\ x.ttl = l.ttl /\ x.vec = l.vec /\ x.legacy = l.legacy
      /\ x.raised = l.raised
  BY <1>2 DEF Fine, Shaped
<1>. HIDE DEF x
<1>4. Fine(x, unbumped[c]) /\ Has(x, CampaignData)
  BY <1>1, <1>2, <1>3, SameFine DEF Has
<1>5. Fine(y, unbumped[c]) /\ Has(y, CampaignData)
  BY <1>1, <1>4, WriteFine, KeysDiffer
<1>. HIDE DEF y
<1>. QED
  BY <1>1, <1>5, RefreshCalm, CalmFine DEF Fine

\* A switch is set in the record, then its key is written.
LEMMA SwitchFine ==
  ASSUME NEW l, NEW age \in 0..Threshold, Fine(l, age), Has(l, CampaignData),
         NEW x, Shaped(x), x.ttl = l.ttl, x.vec = l.vec, x.legacy = l.legacy, x.raised = l.raised,
         NEW key \in {Frozen, BlockedAsset}
  PROVE  Fine(Write(Touch(x, {CampaignData}), {key}), age)
<1>1. Fine(x, age) /\ Has(x, CampaignData)
  BY SameFine DEF Has
<1>. QED
  BY <1>1, TouchFine, WriteFine, KeysDiffer

LEMMA FlagsFine ==
  ASSUME BatchInv, NEW c \in Campaigns,
         \/ \E b \in BOOLEAN : SetFrozen(c, b)
         \/ \E bs \in SUBSET Assets : SetBlocked(c, bs)
  PROVE  Fine(ledger'[c], unbumped[c])
<1>1. unbumped[c] \in 0..Threshold /\ Fine(ledger[c], unbumped[c]) /\ Has(ledger[c], CampaignData)
  BY DEF BatchInv, SetFrozen, SetBlocked
<1>2. ASSUME NEW b \in BOOLEAN, SetFrozen(c, b) PROVE Fine(ledger'[c], unbumped[c])
  <2>. DEFINE x == [ledger[c] EXCEPT !.frozen = b]
  <2>1. ledger'[c] = Write(Touch(x, {CampaignData}), {Frozen})
    BY <1>2 DEF BatchInv, SetFrozen, Call
  <2>2. /\ Shaped(x) /\ x.ttl = ledger[c].ttl /\ x.vec = ledger[c].vec
        /\ x.legacy = ledger[c].legacy /\ x.raised = ledger[c].raised
    BY <1>1 DEF Fine, Shaped
  <2>. HIDE DEF x
  <2>. QED
    BY <1>1, <2>1, <2>2, SwitchFine
<1>3. ASSUME NEW bs \in SUBSET Assets, SetBlocked(c, bs) PROVE Fine(ledger'[c], unbumped[c])
  <2>. DEFINE x == [ledger[c] EXCEPT !.blocked = bs]
  <2>1. ledger'[c] = Write(Touch(x, {CampaignData}), {BlockedAsset})
    BY <1>3 DEF BatchInv, SetBlocked, Call
  <2>2. /\ Shaped(x) /\ x.ttl = ledger[c].ttl /\ x.vec = ledger[c].vec
        /\ x.legacy = ledger[c].legacy /\ x.raised = ledger[c].raised
    BY <1>1 DEF Fine, Shaped
  <2>. HIDE DEF x
  <2>. QED
    BY <1>1, <2>1, <2>2, SwitchFine
<1>. QED
  BY <1>2, <1>3

LEMMA BumpFine ==
  ASSUME BatchInv, NEW c \in Campaigns, BumpStorage(c)
  PROVE  Fine(ledger'[c], 0)
<1>. DEFINE r == BumpAllPersistent(ledger[c])
<1>1. ledger'[c] = r /\ unbumped[c] \in 0..Threshold /\ Has(ledger[c], CampaignData)
  BY DEF BatchInv, BumpStorage, Call
<1>2. Fine(r, unbumped[c]) /\ \A k \in CoreKeys : k \in DOMAIN r.ttl => r.ttl[k] >= Threshold
  BY <1>1, TouchFine, TouchCalm DEF BatchInv, BumpAllPersistent, Fine
<1>. HIDE DEF r
<1>3. Kept(r, 0)
  BY <1>2, StorageAssumption DEF Kept, Fine, Lifetimes
<1>. QED
  BY <1>1, <1>2, <1>3 DEF Fine

LEMMA AgedFine ==
  ASSUME NEW l, NEW age \in 0..Threshold, Fine(l, age)
  PROVE  Fine(Aged(l), IF age < Threshold THEN age + 1 ELSE Threshold)
<1>. DEFINE r   == Aged(l)
            u   == [k \in DOMAIN l.ttl |-> IF l.ttl[k] > 0 THEN l.ttl[k] - 1 ELSE 0]
            old == IF age < Threshold THEN age + 1 ELSE Threshold
<1>1. r = [l EXCEPT !.ttl = u] /\ DOMAIN u = DOMAIN l.ttl
  BY DEF Aged
<1>2. /\ \A k \in DOMAIN u : u[k] \in Nat
      /\ old < Threshold => \A k \in CoreKeys : k \in DOMAIN u => u[k] >= Threshold - old
  <2>1. Threshold \in Nat /\ \A k \in DOMAIN u : l.ttl[k] \in Nat
    BY StorageAssumption DEF Fine, Lifetimes
  <2>2. \A k \in DOMAIN u : u[k] \in Nat
    BY <2>1
  <2>3. ASSUME old < Threshold, NEW k \in CoreKeys, k \in DOMAIN u PROVE u[k] >= Threshold - old
    <3>1. age < Threshold /\ old = age + 1
      BY <2>1, <2>3
    <3>2. l.ttl[k] >= Threshold - age
      BY <2>3, <3>1 DEF Fine, Kept
    <3>. QED
      BY <2>1, <2>3, <3>1, <3>2
  <2>. QED
    BY <2>2, <2>3
<1>. HIDE DEF u
<1>3. /\ Shaped(r) /\ r.ttl = u /\ r.vec = l.vec /\ r.legacy = l.legacy /\ r.raised = l.raised
  BY <1>1 DEF Fine, Shaped
<1>. HIDE DEF r
<1>4. Layout(r, r.raised)
  BY <1>1, <1>3 DEF Fine, Layout, Has
<1>. QED
  BY <1>2, <1>3, <1>4 DEF Fine, Lifetimes, Kept, r

LEMMA RestoredFine ==
  ASSUME NEW l, NEW age \in 0..Threshold, Fine(l, age)
  PROVE  Fine(Restored(l), age)
<1>. DEFINE r == Restored(l)
            u == [k \in DOMAIN l.ttl |-> IF l.ttl[k] = 0 THEN MinTtl ELSE l.ttl[k]]
<1>1. r = [l EXCEPT !.ttl = u] /\ DOMAIN u = DOMAIN l.ttl
  BY DEF Restored
<1>2. Grown(l.ttl, u)
  BY StorageAssumption DEF Grown, Fine, Lifetimes
<1>. HIDE DEF u
<1>3. Calm(l, r) /\ r.raised = l.raised /\ DOMAIN r.ttl = DOMAIN l.ttl
  BY <1>1, <1>2 DEF Fine, Calm, Shaped, Has
<1>. HIDE DEF r
<1>4. Fine(r, age)
  BY <1>3, CalmFine
<1>. QED
  BY <1>4 DEF r

-----------------------------------------------------------------------------
(* The invariant is inductive *)

LEMMA InitFine == Init => BatchInv
<1>. SUFFICES ASSUME Init PROVE BatchInv
  OBVIOUS
<1>1. Threshold \in Nat /\ BumpAmount \in Nat /\ Threshold <= BumpAmount
  BY StorageAssumption
<1>2. Fine(Empty, Threshold)
  BY <1>1 DEF Empty, Fine, Shaped, Lifetimes, Layout, Kept, Has
<1>3. Fine(Legacy, Threshold)
  <2>. DEFINE m == [i \in Index |-> [target |-> Targets[i], released |-> 0, status |-> "Locked"]]
              t == [k \in {CampaignData} \cup {MilestoneData(i) : i \in Index} |-> BumpAmount]
  <2>1. Legacy = [Empty EXCEPT !.status = "Active", !.legacy = m, !.ttl = t]
    BY DEF Legacy
  <2>2. RightVector(m, 0)
    BY TargetTypes DEF RightVector, Right
  <2>3. CampaignData \in DOMAIN t /\ MilestonesVec \notin DOMAIN t /\ \A k \in DOMAIN t : t[k] \in Nat
    BY <1>1 DEF MilestonesVec, CampaignData, MilestoneData
  <2>. HIDE DEF m, t
  <2>4. Shaped(Legacy) /\ Legacy.legacy = m /\ Legacy.ttl = t /\ Legacy.raised = 0
    BY <2>1 DEF Empty, Shaped
  <2>. QED
    BY <1>1, <2>2, <2>3, <2>4 DEF Fine, Lifetimes, Layout, Kept, Has
<1>. QED
  BY <1>1, <1>2, <1>3 DEF Init, BatchInv

\* A call of a campaign's own, which touches that campaign and perhaps its age.
LEMMA CallInv ==
  ASSUME BatchInv, NEW c \in Campaigns, mode = "idle",
         \E l : Call(c, l),
         \/ unbumped' = unbumped /\ Fine(ledger'[c], unbumped[c])
         \/ unbumped' = [unbumped EXCEPT ![c] = 0] /\ Fine(ledger'[c], 0)
  PROVE  BatchInv'
<1>1. /\ DOMAIN ledger' = Campaigns /\ \A d \in Campaigns \ {c} : ledger'[d] = ledger[d]
      /\ UNCHANGED <<mode, targets, results>>
  BY DEF BatchInv, Call, batchVars
<1>2. Threshold \in Nat
  BY StorageAssumption
<1>. QED
  BY <1>1, <1>2 DEF BatchInv

LEMMA StepsInv ==
  ASSUME BatchInv, NEW c \in Campaigns,
         \/ Initialize(c) \/ \E i \in Index : ReleaseMilestone(c, i)
         \/ EndCampaign(c) \/ BumpStorage(c) \/ Restore(c)
         \/ \E b \in BOOLEAN : SetFrozen(c, b)
         \/ \E bs \in SUBSET Assets : SetBlocked(c, bs)
  PROVE  BatchInv'
<1>1. CASE Initialize(c)
  BY <1>1, InitializeFine, CallInv DEF Initialize, Idle
<1>2. ASSUME NEW i \in Index, ReleaseMilestone(c, i) PROVE BatchInv'
  BY <1>2, ReleaseFine, CallInv DEF ReleaseMilestone, Idle
<1>3. CASE EndCampaign(c)
  BY <1>3, EndFine, CallInv DEF EndCampaign, Idle
<1>4. CASE BumpStorage(c)
  BY <1>4, BumpFine, CallInv DEF BumpStorage, Idle
<1>5. CASE Restore(c)
  <2>1. ledger'[c] = Restored(ledger[c])
    BY <1>5 DEF Restore, Call, BatchInv
  <2>2. Fine(ledger'[c], unbumped[c])
    BY <2>1, RestoredFine DEF BatchInv
  <2>. QED
    BY <1>5, <2>2, CallInv DEF Restore
<1>6. ASSUME NEW b \in BOOLEAN, SetFrozen(c, b) PROVE BatchInv'
  BY <1>6, FlagsFine, CallInv DEF SetFrozen, Idle
<1>7. ASSUME NEW bs \in SUBSET Assets, SetBlocked(c, bs) PROVE BatchInv'
  BY <1>7, FlagsFine, CallInv DEF SetBlocked, Idle
<1>. QED
  BY <1>1, <1>2, <1>3, <1>4, <1>5, <1>6, <1>7


LEMMA TargetType ==
  ASSUME BatchInv, Next1 <= Len(targets)
  PROVE  targets[Next1] \in DonateTarget /\ targets[Next1].amount \in Int
<1>1. targets \in Seq(DonateTarget) /\ Next1 \in Nat \ {0}
  BY BatchAssumption DEF BatchInv, Next1
<1>2. targets[Next1] \in DonateTarget
  BY <1>1
<1>. QED
  BY <1>2 DEF DonateTarget

LEMMA ReportType ==
  ASSUME BatchInv, NEW outcome \in Outcomes, Report(outcome)
  PROVE  results' \in Seq(Results)
<1>. DEFINE r == [index |-> Len(results), outcome |-> outcome,
                  validation_code |-> IF outcome = "ValidationFailed" THEN {INVALID_AMOUNT} ELSE {}]
<1>1. results \in Seq(Results) /\ results' = Append(results, r)
  BY DEF BatchInv, Report
<1>2. r \in Results
  BY <1>1 DEF Results, INVALID_AMOUNT
<1>. HIDE DEF r
<1>. QED
  BY <1>1, <1>2

LEMMA SubCallInv ==
  ASSUME BatchInv, mode # "idle", Next1 <= Len(targets), Keep,
         \/ ledger' = [ledger EXCEPT ![targets[Next1].campaign] = SubCall(targets[Next1]).ledger]
         \/ ledger' = ledger,
         Report("Success") \/ Report("InvocationFailed") \/ Report("ValidationFailed")
  PROVE  BatchInv'
<1>. DEFINE t == targets[Next1]
<1>1. /\ DOMAIN ledger' = Campaigns
      /\ \A c \in Campaigns : ledger'[c] \in {ledger[c], Donate(ledger[c], t).ledger}
  BY DEF BatchInv, SubCall
<1>2. \A c \in Campaigns : Fine(ledger'[c], unbumped[c])
  BY <1>1, TargetType, DonateFine DEF BatchInv
<1>3. results' \in Seq(Results)
  BY ReportType DEF Outcomes
<1>. QED
  BY <1>1, <1>2, <1>3 DEF BatchInv, Keep

LEMMA FinishInv ==
  ASSUME BatchInv, mode # "idle", Finish(ledger) \/ Finish(saved)
  PROVE  BatchInv'
<1>1. DOMAIN ledger' = Campaigns /\ \A c \in Campaigns : Fine(ledger'[c], unbumped[c])
  BY DEF BatchInv, Finish
<1>2. mode' = "idle" /\ targets' = <<>> /\ results' = <<>> /\ unbumped' = unbumped
  BY DEF Finish
<1>3. results' \in Seq(Results)
  BY <1>2
<1>. QED
  BY <1>1, <1>2, <1>3 DEF BatchInv

LEMMA StepFine == BatchInv /\ [Next]_vars => BatchInv'
<1>. SUFFICES ASSUME BatchInv, [Next]_vars PROVE BatchInv'
  OBVIOUS
<1>1. ASSUME NEW m \in {"atomic", "best_effort"}, NEW ts \in Batches, Begin(m, ts) PROVE BatchInv'
  <2>1. /\ UNCHANGED <<ledger, unbumped>> /\ mode' = m /\ targets' = ts /\ results' = <<>>
        /\ saved' = ledger
    BY <1>1 DEF Begin
  <2>. QED
    BY <2>1 DEF BatchInv
<1>2. CASE InvokeOk
  <2>1. /\ mode # "idle" /\ Next1 <= Len(targets) /\ Keep /\ Report("Success")
        /\ ledger' = [ledger EXCEPT ![targets[Next1].campaign] = SubCall(targets[Next1]).ledger]
    BY <1>2 DEF InvokeOk
  <2>. QED
    BY <2>1, SubCallInv
<1>3. CASE InvokeFailed
  <2>1. /\ mode # "idle" /\ Next1 <= Len(targets) /\ Keep /\ Report("InvocationFailed")
        /\ ledger' = [ledger EXCEPT ![targets[Next1].campaign] = SubCall(targets[Next1]).ledger]
    BY <1>3 DEF InvokeFailed, Running
  <2>. QED
    BY <2>1, SubCallInv
<1>4. CASE SkipInvalid
  <2>1. /\ mode # "idle" /\ Next1 <= Len(targets) /\ Keep /\ Report("ValidationFailed")
        /\ ledger' = ledger
    BY <1>4 DEF SkipInvalid, Running
  <2>. QED
    BY <2>1, SubCallInv
<1>5. CASE Panic \/ Return
  BY <1>5, FinishInv DEF Panic, Return, Running
<1>6. CASE CloseLedger
  <2>1. ledger' = [c \in Campaigns |-> Aged(ledger[c])] /\ UNCHANGED batchVars /\ mode = "idle"
    BY <1>6 DEF CloseLedger
  <2>2. unbumped' = [c \in Campaigns |-> IF unbumped[c] < Threshold THEN unbumped[c] + 1 ELSE Threshold]
    BY <1>6 DEF CloseLedger
  <2>3. \A c \in Campaigns : Fine(ledger'[c], unbumped'[c])
    BY <2>1, <2>2, AgedFine DEF BatchInv
  <2>4. Threshold \in Nat
    BY StorageAssumption
  <2>5. unbumped' \in [Campaigns -> 0..Threshold]
    BY <2>2, <2>4 DEF BatchInv
  <2>. QED
    BY <2>1, <2>3, <2>5 DEF BatchInv, batchVars
<1>7. CASE UNCHANGED vars
  BY <1>7 DEF vars, storeVars, batchVars, BatchInv
<1>. QED
  BY <1>1, <1>2, <1>3, <1>4, <1>5, <1>6, <1>7, StepsInv DEF Next

LEMMA BatchInductive == Spec => []BatchInv
  BY InitFine, StepFine, PTL DEF Spec

-----------------------------------------------------------------------------
(* The books of one campaign: what donations keep in agreement *)

Fields ==
    {"status", "raised", "total", "donations", "donors", "releases", "donated", "frozen",
     "blocked", "locked", "vec", "legacy", "report", "ttl"}

\* r differs from l in the fields of S at most.
Keeps(l, r, S) == DOMAIN r = DOMAIN l /\ \A f \in DOMAIN l \ S : r[f] = l[f]

Givers(l) == {d \in Donors : Has(l, DonorData(d))}

\* The entries donations write agree; in the middle of a call too, where the
\* lock is taken and the memoised report is behind.
Accounts(l) ==
    /\ DOMAIN l = Fields
    /\ l.status \in {"None", "Active", "GoalReached", "Ended"}
    /\ l.raised \in 0..MaxI128 /\ l.total = l.raised
    /\ l.donated \in [Donors -> Nat] /\ SumFunctionOnSet(l.donated, Donors) = l.raised
    /\ \A d \in Donors : l.donated[d] > 0 <=> d \in Givers(l)
    /\ l.donors = Cardinality(Givers(l))
    /\ l.donations \in Nat /\ l.donations >= l.donors
    /\ l.status = "GoalReached" => l.raised >= Goal
    /\ l.status = "Active" => l.raised < Goal
    /\ l.frozen \in BOOLEAN /\ l.blocked \subseteq Assets
    /\ DOMAIN l.ttl \subseteq Keys

Books(l) ==
    /\ Accounts(l)
    /\ l.locked = FALSE
    /\ Has(l, CachedReport) => l.report = BuildReport(l)

LEMMA DonorKeysDiffer ==
  /\ \A d \in Donors : DonorData(d) \in Keys
  /\ \A d, e : DonorData(d) = DonorData(e) => d = e
  /\ \A d : DonorData(d) \notin {CampaignData, TotalRaised, DonationCount, UniqueDonorCount,
                                 ReleaseCount, MilestonesVec, CachedReport, Frozen, BlockedAsset}
  /\ \A d, i : DonorData(d) # MilestoneData(i)
  /\ {CampaignData, TotalRaised, DonationCount, UniqueDonorCount, ReleaseCount, MilestonesVec,
      CachedReport, Frozen, BlockedAsset} \subseteq Keys
  /\ CachedReport \notin {CampaignData, TotalRaised, DonationCount, UniqueDonorCount,
                          ReleaseCount, MilestonesVec, Frozen, BlockedAsset}
  /\ CampaignData \notin {MilestonesVec, CachedReport, ReleaseCount, Frozen, BlockedAsset}
  /\ \A i : MilestoneData(i) # CachedReport
  BY DEF MilestonesVec, CampaignData, TotalRaised, DonationCount, UniqueDonorCount,
         ReleaseCount, CachedReport, Frozen, BlockedAsset, DonorData, MilestoneData, CoreKeys, Keys

LEMMA TouchKeeps ==
  ASSUME NEW l, "ttl" \in DOMAIN l, NEW keys
  PROVE  Keeps(l, Touch(l, keys), {"ttl"}) /\ DOMAIN Touch(l, keys).ttl = DOMAIN l.ttl
  BY DEF Touch, Keeps

LEMMA WriteKeeps ==
  ASSUME NEW l, "ttl" \in DOMAIN l, NEW keys
  PROVE  Keeps(l, Write(l, keys), {"ttl"}) /\ DOMAIN Write(l, keys).ttl = DOMAIN l.ttl \cup keys
  BY DEF Write, Keeps

LEMMA RefreshKeeps ==
  ASSUME NEW l, {"ttl", "report"} \subseteq DOMAIN l
  PROVE  LET r == RefreshReportCache(l)
         IN  /\ Keeps(l, r, {"ttl", "report"}) /\ DOMAIN r.ttl = DOMAIN l.ttl \cup {CachedReport}
             /\ r.report = BuildReport(l)
<1>. DEFINE x == [l EXCEPT !.report = BuildReport(l)]
            y == Touch(x, ReportKeys)
<1>1. Keeps(l, x, {"report"}) /\ x.report = BuildReport(l) /\ x.ttl = l.ttl
  BY DEF Keeps
<1>. HIDE DEF x
<1>2. Keeps(x, y, {"ttl"}) /\ DOMAIN y.ttl = DOMAIN l.ttl
  BY <1>1, TouchKeeps DEF Keeps
<1>. HIDE DEF y
<1>3. /\ Keeps(y, Write(y, {CachedReport}), {"ttl"})
      /\ DOMAIN Write(y, {CachedReport}).ttl = DOMAIN y.ttl \cup {CachedReport}
  BY <1>1, <1>2, WriteKeeps DEF Keeps
<1>4. RefreshReportCache(l) = Write(y, {CachedReport})
  BY DEF RefreshReportCache, x, y
<1>. QED
  BY <1>1, <1>2, <1>3, <1>4 DEF Keeps

LEMMA SetVectorKeeps ==
  ASSUME NEW l, {"ttl", "vec"} \subseteq DOMAIN l, NEW v
  PROVE  LET r == SetMilestonesVec(l, v)
         IN  /\ Keeps(l, r, {"ttl", "vec"}) /\ DOMAIN r.ttl = DOMAIN l.ttl \cup {MilestonesVec}
             /\ r.vec = v
<1>. DEFINE x == [l EXCEPT !.vec = v]
<1>1. Keeps(l, x, {"vec"}) /\ x.vec = v /\ x.ttl = l.ttl
  BY DEF Keeps
<1>2. SetMilestonesVec(l, v) = Write(x, {MilestonesVec})
  BY DEF SetMilestonesVec
<1>. HIDE DEF x
<1>. QED
  BY <1>1, <1>2, WriteKeeps DEF Keeps

LEMMA UnlockKeeps ==
  ASSUME NEW l, {"ttl", "vec"} \subseteq DOMAIN l, NEW raised
  PROVE  LET r == UnlockMilestonesBatch(l, raised)
         IN  /\ Keeps(l, r, {"ttl", "vec"})
             /\ DOMAIN r.ttl = DOMAIN l.ttl \/ DOMAIN r.ttl = DOMAIN l.ttl \cup {MilestonesVec}
<1>1. PICK v : \/ UnlockMilestonesBatch(l, raised) = SetMilestonesVec(l, v)
               \/ UnlockMilestonesBatch(l, raised) = Touch(l, {MilestonesVec})
  BY DEF UnlockMilestonesBatch
<1>. QED
  BY <1>1, SetVectorKeeps, TouchKeeps DEF Keeps

LEMMA KeepsTrans ==
  ASSUME NEW l, NEW r, NEW s, NEW A, NEW B, Keeps(l, r, A), Keeps(r, s, B)
  PROVE  Keeps(l, s, A \cup B)
  BY DEF Keeps

\* A change of other fields, and of entries that are not a donor's.
LEMMA KeepsAccounts ==
  ASSUME NEW l, NEW r, Accounts(l),
         Keeps(l, r, {"ttl", "vec", "legacy", "report", "locked", "releases"}),
         DOMAIN r.ttl \subseteq Keys, Givers(r) = Givers(l)
  PROVE  Accounts(r)
<1>1. /\ DOMAIN r = Fields /\ r.status = l.status /\ r.raised = l.raised /\ r.total = l.total
      /\ r.donated = l.donated /\ r.donors = l.donors /\ r.donations = l.donations
      /\ r.frozen = l.frozen /\ r.blocked = l.blocked
  BY DEF Accounts, Keeps, Fields
<1>. QED
  BY <1>1 DEF Accounts

\* A call that ends with the report refreshed and the lock not held.
LEMMA RefreshBooks ==
  ASSUME NEW l, Accounts(l)
  PROVE  LET r == RefreshReportCache(l)
         IN  Accounts(r) /\ r.report = BuildReport(r) /\ r.locked = l.locked
<1>. DEFINE r == RefreshReportCache(l)
<1>1. /\ Keeps(l, r, {"ttl", "report"}) /\ DOMAIN r.ttl = DOMAIN l.ttl \cup {CachedReport}
      /\ r.report = BuildReport(l)
  BY RefreshKeeps DEF Accounts, Fields
<1>. HIDE DEF r
<1>2. Givers(r) = Givers(l) /\ DOMAIN r.ttl \subseteq Keys
  BY <1>1, DonorKeysDiffer DEF Givers, Has, Accounts
<1>3. Keeps(l, r, {"ttl", "vec", "legacy", "report", "locked", "releases"})
  BY <1>1 DEF Keeps
<1>4. Accounts(r)
  BY <1>2, <1>3, KeepsAccounts
<1>5. r.report = BuildReport(r) /\ r.locked = l.locked
  BY <1>1 DEF BuildReport, Keeps, Accounts, Fields
<1>. QED
  BY <1>4, <1>5 DEF r

\* A change of lifetimes, or of entries the books do not speak of.
LEMMA KeepsBooks ==
  ASSUME NEW l, NEW r, Books(l), Keeps(l, r, {"ttl", "vec", "legacy"}),
         DOMAIN r.ttl \subseteq Keys, Givers(r) = Givers(l), Has(r, CachedReport) <=> Has(l, CachedReport)
  PROVE  Books(r)
<1>1. Accounts(r)
  <2>1. Keeps(l, r, {"ttl", "vec", "legacy", "report", "locked", "releases"})
    BY DEF Keeps
  <2>. QED
    BY <2>1, KeepsAccounts DEF Books
<1>2. r.locked = l.locked /\ r.report = l.report /\ BuildReport(r) = BuildReport(l)
  BY DEF Books, Accounts, Fields, Keeps, BuildReport
<1>. QED
  BY <1>1, <1>2 DEF Books

-----------------------------------------------------------------------------
(* The payments of one campaign: what releases keep in agreement *)

\* A milestone pays its target, once.
Settled(m, i) ==
    m \in Milestone /\ m.released = IF m.status = "Released" THEN Targets[i] ELSE 0

SettledVector(v) == DOMAIN v \subseteq Index /\ \A i \in DOMAIN v : Settled(v[i], i)

ReleasedOf(v) == {i \in Index : v[i].status = "Released"}

\* n milestones are released, and with each all that come before it.
InOrder(v, n) ==
    n = Cardinality(ReleasedOf(v)) /\ \A i \in ReleasedOf(v) : 1..i \subseteq ReleasedOf(v)

Payments(l) ==
    /\ SettledVector(l.vec) /\ SettledVector(l.legacy)
    /\ IF Has(l, CampaignData) THEN InOrder(GetMilestonesVec(l), l.releases) ELSE l.releases = 0

Sound(l) == Books(l) /\ Payments(l)

LEMMA KeepsPayments ==
  ASSUME NEW l, NEW r, Payments(l), Keeps(l, r, Fields \ {"vec", "legacy", "releases"}),
         DOMAIN l = Fields, Has(r, MilestonesVec) <=> Has(l, MilestonesVec),
         Has(r, CampaignData) <=> Has(l, CampaignData)
  PROVE  Payments(r)
<1>1. r.vec = l.vec /\ r.legacy = l.legacy /\ r.releases = l.releases
  BY DEF Keeps, Fields
<1>2. GetMilestonesVec(r) = GetMilestonesVec(l)
  BY <1>1 DEF GetMilestonesVec
<1>. QED
  BY <1>1, <1>2 DEF Payments

\* Lifetimes, switches, the report and the lock do not matter.
LEMMA RefreshPayments ==
  ASSUME NEW l, DOMAIN l = Fields, Payments(l)
  PROVE  Payments(RefreshReportCache(l))
<1>. DEFINE r == RefreshReportCache(l)
<1>1. Keeps(l, r, {"ttl", "report"}) /\ DOMAIN r.ttl = DOMAIN l.ttl \cup {CachedReport}
  BY RefreshKeeps DEF Fields
<1>. HIDE DEF r
<1>2. Keeps(l, r, Fields \ {"vec", "legacy", "releases"})
  BY <1>1 DEF Keeps, Fields
<1>3. /\ Has(r, MilestonesVec) <=> Has(l, MilestonesVec)
      /\ Has(r, CampaignData) <=> Has(l, CampaignData)
  BY <1>1, DonorKeysDiffer DEF Has
<1>. QED
  BY <1>2, <1>3, KeepsPayments DEF r

\* The vector as it is read: complete, and each milestone settled.
LEMMA VectorSettled ==
  ASSUME NEW l, NEW raised, Layout(l, raised), Has(l, CampaignData), Payments(l)
  PROVE  LET v == GetMilestonesVec(l)
         IN  /\ DOMAIN v = Index /\ \A i \in Index : Settled(v[i], i) /\ Right(v[i], i, raised)
             /\ InOrder(v, l.releases)
<1>1. RightVector(GetMilestonesVec(l), raised)
  BY VectorRead
<1>2. ASSUME NEW i \in Index PROVE Settled(GetMilestonesVec(l)[i], i)
  <2>1. CASE Has(l, MilestonesVec)
    BY <1>1, <2>1 DEF GetMilestonesVec, Payments, SettledVector, RightVector
  <2>2. CASE ~Has(l, MilestonesVec)
    <3>1. i \in {j \in DOMAIN l.legacy : 1..j \subseteq DOMAIN l.legacy}
      BY <1>1, <2>2 DEF GetMilestonesVec, RightVector
    <3>. QED
      BY <2>2, <3>1 DEF GetMilestonesVec, Payments, SettledVector
  <2>. QED
    BY <2>1, <2>2
<1>. QED
  BY <1>1, <1>2 DEF RightVector, Payments

\* The vector as it is written.
LEMMA VectorPayments ==
  ASSUME NEW l, DOMAIN l = Fields, SettledVector(l.legacy), Has(l, CampaignData), NEW v,
         SettledVector(v), InOrder(v, l.releases)
  PROVE  Payments(SetMilestonesVec(l, v))
<1>. DEFINE r == SetMilestonesVec(l, v)
<1>1. /\ Keeps(l, r, {"ttl", "vec"}) /\ DOMAIN r.ttl = DOMAIN l.ttl \cup {MilestonesVec}
      /\ r.vec = v
  BY SetVectorKeeps DEF Fields
<1>. HIDE DEF r
<1>2. /\ r.legacy = l.legacy /\ r.releases = l.releases /\ Has(r, MilestonesVec)
      /\ Has(r, CampaignData)
  BY <1>1 DEF Keeps, Has, Fields
<1>. QED
  BY <1>1, <1>2 DEF Payments, GetMilestonesVec, r

\* Unlocking pays nothing.
LEMMA UnlockPayments ==
  ASSUME NEW l, DOMAIN l = Fields, Payments(l), Has(l, CampaignData), NEW old, NEW raised,
         Layout(l, old)
  PROVE  Payments(UnlockMilestonesBatch(l, raised))
<1>. DEFINE v == GetMilestonesVec(l)
            reached == Reached(v, raised)
            w == [i \in DOMAIN v |->
                    IF i \in reached THEN [v[i] EXCEPT !.status = "Unlocked"] ELSE v[i]]
<1>1. /\ DOMAIN v = Index /\ \A i \in Index : Settled(v[i], i)
      /\ InOrder(v, l.releases) /\ \A i \in reached : i \in Index /\ v[i].status = "Locked"
  BY VectorSettled DEF Reached
<1>. HIDE DEF v, reached
<1>2. CASE reached # {}
  <2>1. UnlockMilestonesBatch(l, raised) = SetMilestonesVec(l, w)
    BY <1>2 DEF UnlockMilestonesBatch, v, reached
  <2>2. \A i \in Index : Settled(w[i], i) /\ (w[i].status = "Released" <=> v[i].status = "Released")
    <3>. SUFFICES ASSUME NEW i \in Index
                  PROVE  Settled(w[i], i) /\ (w[i].status = "Released" <=> v[i].status = "Released")
      OBVIOUS
    <3>1. CASE i \in reached
      <4>. DEFINE m == v[i]
      <4>1. w[i] = [m EXCEPT !.status = "Unlocked"] /\ m \in Milestone /\ m.released = 0
            /\ m.status = "Locked"
        BY <1>1, <3>1 DEF Settled
      <4>. HIDE DEF m, w
      <4>2. w[i] \in Milestone /\ w[i].status = "Unlocked" /\ w[i].released = 0
        BY <4>1 DEF Milestone, Statuses
      <4>. QED
        BY <4>1, <4>2 DEF Settled, m
    <3>2. CASE i \notin reached
      BY <1>1, <3>2
    <3>. QED
      BY <3>1, <3>2
  <2>3. SettledVector(w)
    BY <1>1, <2>2 DEF SettledVector
  <2>4. ReleasedOf(w) = ReleasedOf(v)
    BY <2>2 DEF ReleasedOf
  <2>5. InOrder(w, l.releases)
    BY <1>1, <2>4 DEF InOrder
  <2>. HIDE DEF w
  <2>. QED
    BY <2>1, <2>3, <2>5, VectorPayments DEF Payments
<1>3. CASE reached = {}
  <2>. DEFINE r == Touch(l, {MilestonesVec})
  <2>1. UnlockMilestonesBatch(l, raised) = r
    BY <1>3 DEF UnlockMilestonesBatch, v, reached
  <2>2. Keeps(l, r, {"ttl"}) /\ DOMAIN r.ttl = DOMAIN l.ttl
    BY TouchKeeps DEF Fields
  <2>. HIDE DEF r
  <2>3. Keeps(l, r, Fields \ {"vec", "legacy", "releases"})
    BY <2>2 DEF Keeps, Fields
  <2>. QED
    BY <2>1, <2>2, <2>3, KeepsPayments DEF Has
<1>. QED
  BY <1>2, <1>3

\* The donor's record, the counters and the totals move together.
LEMMA DonatedSound ==
  ASSUME NEW l, Sound(l), Layout(l, l.raised), Has(l, CampaignData), NEW t \in DonateTarget, DonationAccepted(l, t)
  PROVE  Sound(Donated(l, t)) /\ Donated(l, t).raised = l.raised + t.amount
<1>. DEFINE d      == t.donor
            raised == l.raised + t.amount
            flags  == Touch(l, {Frozen, BlockedAsset})
            status == IF l.status = "Active" /\ raised >= Goal THEN "GoalReached" ELSE l.status
            x      == [flags EXCEPT !.locked = TRUE, !.raised = raised, !.status = status,
                                    !.total = l.total + t.amount]
            y      == Write(x, {CampaignData, TotalRaised})
            gifts  == [l.donated EXCEPT ![d] = @ + t.amount]
            z      == [y EXCEPT !.donated   = gifts,
                                !.donations = l.donations + 1,
                                !.donors    = IF Has(l, DonorData(d)) THEN l.donors ELSE l.donors + 1]
            record == Write(z, DonorKeys(y, t))
            unlock == UnlockMilestonesBatch(record, record.raised)
            report == RefreshReportCache(unlock)
            done   == [report EXCEPT !.locked = FALSE]
<1>1. /\ Accounts(l) /\ DOMAIN l = Fields /\ l.locked = FALSE
      /\ d \in Donors /\ t.amount \in Nat \ {0} /\ l.raised \in Nat
      /\ raised \in 0..MaxI128 /\ l.donations \in Nat
      /\ l.donated \in [Donors -> Nat]
  <2>1. t.amount \in Int /\ d \in Donors
    BY DEF DonateTarget
  <2>. QED
    BY <2>1, StorageAssumption DEF Sound, Books, Accounts, DonationAccepted
<1>2. Keeps(l, flags, {"ttl"}) /\ DOMAIN flags.ttl = DOMAIN l.ttl
  BY <1>1, TouchKeeps DEF Fields
<1>3. /\ flags.raised = l.raised /\ flags.status = l.status /\ flags.total = l.total
      /\ DOMAIN flags = Fields
  BY <1>1, <1>2 DEF Keeps, Fields
<1>. HIDE DEF flags, status, raised
<1>4. /\ Keeps(flags, x, {"locked", "raised", "status", "total"}) /\ DOMAIN x = Fields
      /\ x.raised = raised /\ x.status = status /\ x.total = l.total + t.amount /\ x.ttl = flags.ttl
  BY <1>3 DEF Keeps, Fields
<1>. HIDE DEF x
<1>5. /\ Keeps(x, y, {"ttl"}) /\ DOMAIN y.ttl = DOMAIN l.ttl \cup {CampaignData, TotalRaised}
      /\ DOMAIN y = Fields
  BY <1>2, <1>4, WriteKeeps DEF Fields, Keeps
<1>. HIDE DEF y
<1>6. Has(y, DonorData(d)) <=> Has(l, DonorData(d))
  BY <1>5, DonorKeysDiffer DEF Has
<1>7. /\ y.donated = l.donated /\ y.donations = l.donations /\ y.donors = l.donors
      /\ y.raised = raised /\ y.status = status /\ y.total = l.total + t.amount
      /\ y.frozen = l.frozen /\ y.blocked = l.blocked
  BY <1>1, <1>2, <1>4, <1>5 DEF Fields, Keeps
<1>. HIDE DEF gifts
<1>8. /\ Keeps(y, z, {"donated", "donations", "donors"}) /\ z.donated = gifts
      /\ z.donations = l.donations + 1 /\ DOMAIN z = Fields /\ z.ttl = y.ttl
      /\ z.donors = IF Has(l, DonorData(d)) THEN l.donors ELSE l.donors + 1
  BY <1>5 DEF Keeps, Fields
<1>9. DOMAIN Donated(l, t) = DOMAIN done /\ Donated(l, t) = done
  <2>1. x = [flags EXCEPT !.locked = TRUE, !.raised = @ + t.amount,
                          !.status = IF @ = "Active" /\ flags.raised + t.amount >= Goal
                                     THEN "GoalReached" ELSE @,
                          !.total = @ + t.amount]
    BY <1>3 DEF x, status, raised
  <2>2. z = [y EXCEPT !.donated   = [y.donated EXCEPT ![t.donor] = @ + t.amount],
                      !.donations = @ + 1,
                      !.donors    = IF Has(y, DonorData(t.donor)) THEN @ ELSE @ + 1]
    BY <1>6, <1>7 DEF gifts
  <2>3. record = Record(Raise(flags, t), t)
    BY <2>1, <2>2 DEF Record, Raise, y
  <2>. QED
    BY <2>3 DEF Donated, flags
<1>. HIDE DEF z
<1>10. /\ Keeps(z, record, {"ttl"}) /\ DOMAIN record = Fields
       /\ DOMAIN record.ttl = DOMAIN y.ttl \cup DonorKeys(y, t)
  BY <1>8, WriteKeeps DEF Fields, Keeps
<1>. HIDE DEF record
<1>11. /\ record.raised = raised /\ record.total = l.total + t.amount /\ record.status = status
       /\ record.donated = gifts /\ record.donations = l.donations + 1
       /\ record.donors = IF Has(l, DonorData(d)) THEN l.donors ELSE l.donors + 1
       /\ record.frozen = l.frozen /\ record.blocked = l.blocked
  BY <1>7, <1>8, <1>10 DEF Fields, Keeps
<1>12. Givers(record) = Givers(l) \cup {d}
  BY <1>1, <1>5, <1>10, DonorKeysDiffer DEF Givers, Has, DonorKeys
<1>13. DOMAIN record.ttl \subseteq Keys
  BY <1>1, <1>5, <1>10, DonorKeysDiffer DEF DonorKeys, Accounts
<1>14. /\ gifts \in [Donors -> Nat] /\ \A e \in Donors : e # d => gifts[e] = l.donated[e]
       /\ gifts[d] = l.donated[d] + t.amount
  BY <1>1 DEF gifts
<1>15. SumFunctionOnSet(gifts, Donors) = raised
  <2>. DEFINE given == l.donated
  <2>0. /\ IsFiniteSet(Donors) /\ d \in Donors
        /\ \A e \in Donors : given[e] \in Int /\ gifts[e] \in Int /\ (e # d => gifts[e] = given[e])
    BY <1>1, <1>14, StorageAssumption
  <2>. HIDE DEF given
  <2>1. SumFunctionOnSet(gifts, Donors) = SumFunctionOnSet(given, Donors) + gifts[d] - given[d]
    BY <2>0, SumChangeOne
  <2>. USE DEF given
  <2>. QED
    BY <1>1, <1>14, <2>1 DEF Accounts, raised
<1>16. \A e \in Donors : gifts[e] > 0 <=> e \in Givers(record)
  BY <1>1, <1>12, <1>14 DEF Accounts
<1>17. record.donors = Cardinality(Givers(record)) /\ record.donations >= record.donors
  <2>1. IsFiniteSet(Givers(l)) /\ Cardinality(Givers(l)) \in Nat
    BY FS_Subset, FS_CardinalityType, StorageAssumption DEF Givers
  <2>2. CASE d \in Givers(l)
    <3>1. Givers(record) = Givers(l) /\ Has(l, DonorData(d))
      BY <1>12, <2>2 DEF Givers
    <3>. QED
      BY <1>1, <1>11, <2>1, <3>1 DEF Accounts
  <2>3. CASE d \notin Givers(l)
    <3>1. Cardinality(Givers(record)) = Cardinality(Givers(l)) + 1
      BY <1>12, <2>1, <2>3, FS_AddElement
    <3>2. ~Has(l, DonorData(d))
      BY <1>1, <2>3 DEF Givers
    <3>. QED
      BY <1>1, <1>11, <2>1, <3>1, <3>2 DEF Accounts
  <2>. QED
    BY <2>2, <2>3
<1>18. /\ status \in {"None", "Active", "GoalReached", "Ended"}
       /\ status = "GoalReached" => raised >= Goal
       /\ status = "Active" => raised < Goal
       /\ l.total + t.amount = raised
  <2>1. Goal \in Nat
    BY TargetTypes, StorageAssumption DEF Goal, Index
  <2>. QED
    BY <1>1, <2>1 DEF Accounts, status, raised
<1>19. Accounts(record)
  BY <1>1, <1>10, <1>11, <1>13, <1>14, <1>15, <1>16, <1>17, <1>18 DEF Accounts
<1>20. Payments(record) /\ Layout(record, l.raised) /\ Has(record, CampaignData)
  <2>1. /\ record.vec = l.vec /\ record.legacy = l.legacy /\ record.releases = l.releases
        /\ DOMAIN record = Fields
    BY <1>1, <1>2, <1>4, <1>5, <1>8, <1>10 DEF Fields, Keeps
  <2>2. /\ Has(record, MilestonesVec) <=> Has(l, MilestonesVec)
        /\ Has(record, CampaignData)
    BY <1>5, <1>8, <1>10, DonorKeysDiffer, KeysDiffer DEF DonorKeys, Has
  <2>3. Keeps(l, record, Fields \ {"vec", "legacy", "releases"})
    BY <1>1, <2>1 DEF Keeps, Fields
  <2>. QED
    BY <1>1, <2>1, <2>2, <2>3, KeepsPayments DEF Sound, Layout
<1>21. Payments(unlock)
  BY <1>10, <1>20, UnlockPayments
<1>22. /\ Keeps(record, unlock, {"ttl", "vec"})
       /\ DOMAIN unlock.ttl \subseteq DOMAIN record.ttl \cup {MilestonesVec}
       /\ DOMAIN record.ttl \subseteq DOMAIN unlock.ttl
  BY <1>10, UnlockKeeps DEF Fields
<1>. HIDE DEF unlock
<1>23. Accounts(unlock) /\ unlock.raised = raised
  <2>1. Givers(unlock) = Givers(record) /\ DOMAIN unlock.ttl \subseteq Keys
    BY <1>13, <1>22, DonorKeysDiffer DEF Givers, Has
  <2>2. Keeps(record, unlock, {"ttl", "vec", "legacy", "report", "locked", "releases"})
    BY <1>22 DEF Keeps
  <2>3. unlock.raised = record.raised
    BY <1>10, <1>22 DEF Keeps, Fields
  <2>. QED
    BY <1>11, <1>19, <2>1, <2>2, <2>3, KeepsAccounts
<1>24. Accounts(report) /\ report.report = BuildReport(report) /\ report.raised = raised
  <2>1. Keeps(unlock, report, {"ttl", "report"})
    BY <1>23, RefreshKeeps DEF Accounts, Fields
  <2>. QED
    BY <1>23, <2>1, RefreshBooks DEF Accounts, Keeps, Fields
<1>25. Payments(report)
  BY <1>23, <1>21, RefreshPayments DEF Accounts
<1>. HIDE DEF report
<1>26. Keeps(report, done, {"locked"}) /\ done.locked = FALSE
  BY <1>24 DEF Keeps, Accounts, Fields
<1>. HIDE DEF done
<1>27. /\ done.ttl = report.ttl /\ done.report = report.report /\ done.raised = raised
       /\ BuildReport(done) = BuildReport(report)
  BY <1>24, <1>26 DEF Keeps, BuildReport, Accounts, Fields
<1>28. Accounts(done)
  <2>1. Keeps(report, done, {"ttl", "vec", "legacy", "report", "locked", "releases"})
    BY <1>26 DEF Keeps
  <2>2. Givers(done) = Givers(report) /\ DOMAIN done.ttl \subseteq Keys
    BY <1>24, <1>27 DEF Givers, Has, Accounts
  <2>. QED
    BY <1>24, <2>1, <2>2, KeepsAccounts
<1>29. Books(done)
  BY <1>24, <1>26, <1>27, <1>28 DEF Books
<1>30. Payments(done)
  <2>1. Keeps(report, done, Fields \ {"vec", "legacy", "releases"})
    BY <1>26 DEF Keeps, Fields
  <2>. QED
    BY <1>24, <1>27, <1>25, <2>1, KeepsPayments DEF Has, Accounts
<1>. QED
  BY <1>9, <1>27, <1>29, <1>30 DEF raised, Sound

LEMMA DonateSound ==
  ASSUME NEW l, Sound(l), Has(l, CampaignData) => Layout(l, l.raised), NEW t \in DonateTarget
  PROVE  LET r == Donate(l, t)
         IN  /\ Sound(r.ledger)
             /\ r.ok => r.ledger.raised = l.raised + t.amount
             /\ ~r.ok => r.ledger = l
  BY DonatedSound DEF Donate, DonationAccepted

\* Time passing, and what refreshes or restores entries.
LEMMA LifetimeSound ==
  ASSUME NEW l, Sound(l), NEW r, Keeps(l, r, {"ttl"}), DOMAIN r.ttl = DOMAIN l.ttl
  PROVE  Sound(r)
<1>1. /\ Keeps(l, r, {"ttl", "vec", "legacy"}) /\ Keeps(l, r, Fields \ {"vec", "legacy", "releases"})
      /\ DOMAIN l = Fields
  BY DEF Keeps, Fields, Sound, Books, Accounts
<1>2. Givers(r) = Givers(l) /\ \A k : Has(r, k) <=> Has(l, k)
  BY DEF Givers, Has
<1>3. DOMAIN r.ttl \subseteq Keys
  BY DEF Sound, Books, Accounts
<1>. QED
  BY <1>1, <1>2, <1>3, KeepsBooks, KeepsPayments DEF Sound

LEMMA TouchSound ==
  ASSUME NEW l, Sound(l), NEW keys
  PROVE  /\ Sound(Touch(l, keys)) /\ Keeps(l, Touch(l, keys), {"ttl"})
         /\ DOMAIN Touch(l, keys).ttl = DOMAIN l.ttl
<1>1. "ttl" \in DOMAIN l
  BY DEF Sound, Books, Accounts, Fields
<1>. QED
  BY <1>1, TouchKeeps, LifetimeSound

LEMMA AgedSound ==
  ASSUME NEW l, Sound(l)
  PROVE  Sound(Aged(l)) /\ Sound(Restored(l))
<1>1. "ttl" \in DOMAIN l
  BY DEF Sound, Books, Accounts, Fields
<1>2. Keeps(l, Aged(l), {"ttl"}) /\ DOMAIN Aged(l).ttl = DOMAIN l.ttl
  BY <1>1 DEF Aged, Keeps
<1>3. Keeps(l, Restored(l), {"ttl"}) /\ DOMAIN Restored(l).ttl = DOMAIN l.ttl
  BY <1>1 DEF Restored, Keeps
<1>. QED
  BY <1>2, <1>3, LifetimeSound

\* What ends most calls: an entry that is not a donor's is written, then the report.
LEMMA ClosingSound ==
  ASSUME NEW l, Accounts(l), l.locked = FALSE, NEW key \in {CampaignData, ReleaseCount},
         Payments(Write(l, {key}))
  PROVE  Sound(RefreshReportCache(Write(l, {key})))
<1>. DEFINE w == Write(l, {key})
            r == RefreshReportCache(w)
<1>1. Keeps(l, w, {"ttl"}) /\ DOMAIN w.ttl = DOMAIN l.ttl \cup {key} /\ DOMAIN l = Fields
  BY WriteKeeps DEF Accounts, Fields
<1>. HIDE DEF w
<1>2. /\ Keeps(l, w, {"ttl", "vec", "legacy", "report", "locked", "releases"})
      /\ DOMAIN w = Fields /\ w.locked = FALSE
  BY <1>1 DEF Keeps, Fields
<1>3. Givers(w) = Givers(l) /\ DOMAIN w.ttl \subseteq Keys
  BY <1>1, DonorKeysDiffer DEF Givers, Has, Accounts
<1>4. Accounts(w)
  BY <1>2, <1>3, KeepsAccounts
<1>5. Accounts(r) /\ r.report = BuildReport(r) /\ r.locked = FALSE
  BY <1>2, <1>4, RefreshBooks
<1>6. Payments(r)
  BY <1>2, RefreshPayments DEF w
<1>. HIDE DEF r
<1>7. Sound(r)
  BY <1>5, <1>6 DEF Sound, Books
<1>. QED
  BY <1>7 DEF r, w

LEMMA GoalPositive == Goal \in Nat \ {0}
  BY TargetTypes, StorageAssumption DEF Goal, Index

LEMMA InitializeSound ==
  ASSUME NEW l0, Sound(l0), Layout(l0, l0.raised), ~Has(l0, CampaignData),
         NEW fresh, fresh = [i \in Index |-> [target |-> Targets[i], released |-> 0, status |-> "Locked"]]
  PROVE  Sound(RefreshReportCache(SetMilestonesVec(Write([l0 EXCEPT !.status = "Active"], {CampaignData}), fresh)))
<1>. DEFINE l1 == [l0 EXCEPT !.status = "Active"]
            l2 == Write(l1, {CampaignData})
            l3 == SetMilestonesVec(l2, fresh)
            r  == RefreshReportCache(l3)
<1>1. /\ DOMAIN l0 = Fields /\ DOMAIN l0.ttl = {} /\ l0.raised = 0 /\ l0.releases = 0
      /\ SettledVector(l0.legacy) /\ l0.locked = FALSE /\ Accounts(l0)
  BY DEF Sound, Books, Accounts, Layout, Payments
<1>2. /\ DOMAIN l1 = Fields /\ l1.status = "Active" /\ l1.raised = l0.raised /\ l1.total = l0.total
      /\ l1.donated = l0.donated /\ l1.donors = l0.donors /\ l1.donations = l0.donations
      /\ l1.frozen = l0.frozen /\ l1.blocked = l0.blocked /\ l1.ttl = l0.ttl
      /\ l1.legacy = l0.legacy /\ l1.releases = l0.releases /\ l1.locked = FALSE
  BY <1>1 DEF Fields
<1>. HIDE DEF l1
<1>3. Accounts(l1)
  <2>1. Givers(l1) = Givers(l0)
    BY <1>2 DEF Givers, Has
  <2>. QED
    BY <1>1, <1>2, <2>1, GoalPositive DEF Accounts
<1>4. Keeps(l1, l2, {"ttl"}) /\ DOMAIN l2.ttl = DOMAIN l1.ttl \cup {CampaignData} /\ DOMAIN l2 = Fields
  BY <1>2, WriteKeeps DEF Fields, Keeps
<1>. HIDE DEF l2
<1>5. /\ Keeps(l2, l3, {"ttl", "vec"}) /\ DOMAIN l3.ttl = DOMAIN l2.ttl \cup {MilestonesVec}
      /\ DOMAIN l3 = Fields
  BY <1>4, SetVectorKeeps DEF Fields, Keeps
<1>6. SettledVector(fresh) /\ InOrder(fresh, 0)
  <2>1. \A i \in Index : Settled(fresh[i], i)
    <3>. SUFFICES ASSUME NEW i \in Index PROVE Settled(fresh[i], i)
      OBVIOUS
    <3>1. fresh[i] = [target |-> Targets[i], released |-> 0, status |-> "Locked"]
      OBVIOUS
    <3>2. Targets[i] \in 1..MaxI128 /\ 0 \in 0..MaxI128
      BY StorageAssumption DEF Index
    <3>. QED
      BY <3>1, <3>2 DEF Settled, Milestone, Statuses
  <2>2. DOMAIN fresh = Index /\ \A i \in Index : fresh[i].status = "Locked"
    OBVIOUS
  <2>3. ReleasedOf(fresh) = {}
    BY <2>2 DEF ReleasedOf
  <2>. QED
    BY <2>1, <2>2, <2>3, FS_EmptySet DEF SettledVector, InOrder
<1>7. Payments(l3)
  <2>1. l2.legacy = l0.legacy /\ l2.releases = 0 /\ Has(l2, CampaignData)
    BY <1>1, <1>2, <1>4 DEF Keeps, Fields, Has
  <2>. QED
    BY <1>1, <1>4, <1>6, <2>1, VectorPayments
<1>. HIDE DEF l3
<1>8. Accounts(l3) /\ l3.locked = FALSE
  <2>1. Keeps(l1, l3, {"ttl", "vec", "legacy", "report", "locked", "releases"}) /\ l3.locked = l1.locked
    BY <1>2, <1>4, <1>5 DEF Keeps, Fields
  <2>2. Givers(l3) = Givers(l1) /\ DOMAIN l3.ttl \subseteq Keys
    BY <1>1, <1>2, <1>4, <1>5, DonorKeysDiffer DEF Givers, Has
  <2>. QED
    BY <1>2, <1>3, <2>1, <2>2, KeepsAccounts
<1>9. Sound(r)
  BY <1>5, <1>7, <1>8, RefreshBooks, RefreshPayments DEF Sound, Books
<1>. QED
  BY <1>9 DEF l1, l2, l3


LEMMA ReleaseSound ==
  ASSUME NEW l0, Sound(l0), Layout(l0, l0.raised), NEW i \in Index, Releasable(l0, i),
         NEW paid, paid = [target |-> Targets[i], released |-> Targets[i], status |-> "Released"]
  PROVE  LET l == Touch(l0, {Frozen})
         IN  Sound(RefreshReportCache(Write([SetMilestone(l, i, paid) EXCEPT !.releases = @ + 1],
                                            {ReleaseCount})))
<1>. DEFINE l    == Touch(l0, {Frozen})
            v    == GetMilestonesVec(l)
            w    == Put(v, i, paid)
            set  == SetMilestone(l, i, paid)
            x    == [set EXCEPT !.releases = @ + 1]
            done == Write(x, {ReleaseCount})
<1>1. /\ Sound(l) /\ Keeps(l0, l, {"ttl"}) /\ DOMAIN l.ttl = DOMAIN l0.ttl
      /\ DOMAIN l0 = Fields /\ Has(l0, CampaignData)
  <2>1. Sound(l) /\ Keeps(l0, l, {"ttl"}) /\ DOMAIN l.ttl = DOMAIN l0.ttl
    BY TouchSound
  <2>2. DOMAIN l0 = Fields /\ Has(l0, CampaignData)
    BY DEF Sound, Books, Accounts, Releasable
  <2>. QED
    BY <2>1, <2>2
<1>2. /\ l.vec = l0.vec /\ l.legacy = l0.legacy /\ l.releases = l0.releases /\ DOMAIN l = Fields
      /\ \A k : Has(l, k) <=> Has(l0, k)
  BY <1>1 DEF Keeps, Fields, Has
<1>3. v = GetMilestonesVec(l0)
  BY <1>2 DEF GetMilestonesVec
<1>4. /\ DOMAIN v = Index /\ \A j \in Index : Settled(v[j], j)
      /\ InOrder(v, l.releases) /\ GetMilestone(l0, i) = {v[i]}
      /\ i > 1 => GetMilestone(l0, i - 1) = {v[i - 1]} /\ i - 1 \in Index
  <2>1. i > 1 => i - 1 \in Index
    BY TargetTypes
  <2>. QED
    BY <1>1, <1>2, <1>3, <2>1, VectorSettled, MilestoneRead DEF Sound
<1>5. v[i].status = "Unlocked" /\ (i > 1 => v[i - 1].status = "Released")
  BY <1>4 DEF Releasable
<1>6. Settled(paid, i) /\ paid.status = "Released"
  <2>1. Targets[i] \in 1..MaxI128 /\ Targets[i] \in 0..MaxI128
    BY TargetTypes, StorageAssumption DEF Index
  <2>. QED
    BY <2>1 DEF Settled, Milestone, Statuses
<1>7. DOMAIN w = Index /\ w[i] = paid /\ \A j \in Index \ {i} : w[j] = v[j]
  BY <1>4 DEF Put
<1>8. set = SetMilestonesVec(l, w)
  <2>1. 1..(i - 1) \subseteq DOMAIN v
    BY <1>4, TargetTypes
  <2>. QED
    BY <2>1 DEF SetMilestone
<1>. HIDE DEF v, w, l
<1>9. SettledVector(w) /\ InOrder(w, l.releases + 1)
  <2>1. SettledVector(w)
    BY <1>4, <1>6, <1>7 DEF SettledVector
  <2>2. ReleasedOf(w) = ReleasedOf(v) \cup {i} /\ i \notin ReleasedOf(v)
    BY <1>5, <1>6, <1>7 DEF ReleasedOf
  <2>3. Cardinality(ReleasedOf(w)) = l.releases + 1
    <3>1. IsFiniteSet(Index)
      BY TargetTypes, FS_Interval
    <3>2. IsFiniteSet(ReleasedOf(v))
      BY <3>1, FS_Subset DEF ReleasedOf
    <3>. QED
      BY <1>4, <2>2, <3>2, FS_AddElement DEF InOrder
  <2>4. ASSUME NEW k \in ReleasedOf(w) PROVE 1..k \subseteq ReleasedOf(w)
    <3>1. CASE k = i
      <4>1. 1..(i - 1) \subseteq ReleasedOf(v)
        <5>1. CASE i > 1
          <6>1. i - 1 \in ReleasedOf(v)
            BY <1>4, <1>5, <5>1 DEF ReleasedOf
          <6>. QED
            BY <1>4, <6>1 DEF InOrder
        <5>2. CASE ~(i > 1)
          BY <5>2, TargetTypes
        <5>. QED
          BY <5>1, <5>2
      <4>2. 1..i = 1..(i - 1) \cup {i}
        BY TargetTypes
      <4>. QED
        BY <2>2, <3>1, <4>1, <4>2
    <3>2. CASE k # i
      BY <1>4, <2>2, <2>4, <3>2 DEF InOrder
    <3>. QED
      BY <3>1, <3>2
  <2>. QED
    BY <2>1, <2>3, <2>4 DEF InOrder
<1>10. /\ Keeps(l, set, {"ttl", "vec"}) /\ DOMAIN set.ttl = DOMAIN l.ttl \cup {MilestonesVec}
       /\ set.vec = w /\ DOMAIN set = Fields
  BY <1>2, <1>8, SetVectorKeeps DEF Fields, Keeps
<1>. HIDE DEF set
<1>11. /\ Keeps(set, x, {"releases"}) /\ x.releases = l.releases + 1 /\ x.ttl = set.ttl
       /\ DOMAIN x = Fields
  BY <1>2, <1>10 DEF Keeps, Fields
<1>. HIDE DEF x
<1>12. Accounts(x) /\ x.locked = FALSE
  <2>1. Keeps(l, x, {"ttl", "vec", "legacy", "report", "locked", "releases"}) /\ x.locked = l.locked
    BY <1>2, <1>10, <1>11 DEF Keeps, Fields
  <2>2. Givers(x) = Givers(l) /\ DOMAIN x.ttl \subseteq Keys
    BY <1>1, <1>10, <1>11, DonorKeysDiffer DEF Givers, Has, Sound, Books, Accounts
  <2>. QED
    BY <1>1, <2>1, <2>2, KeepsAccounts DEF Sound, Books
<1>13. /\ Keeps(x, done, {"ttl"}) /\ DOMAIN done.ttl = DOMAIN x.ttl \cup {ReleaseCount}
       /\ DOMAIN done = Fields
  BY <1>11, WriteKeeps DEF Fields, Keeps
<1>14. Payments(done)
  <2>1. done.vec = w /\ done.legacy = l.legacy /\ done.releases = l.releases + 1
    BY <1>2, <1>10, <1>11, <1>13 DEF Keeps, Fields
  <2>2. Has(done, MilestonesVec) /\ Has(done, CampaignData)
    BY <1>1, <1>2, <1>10, <1>11, <1>13 DEF Has
  <2>. QED
    BY <1>1, <1>9, <2>1, <2>2 DEF Payments, GetMilestonesVec, Sound
<1>. QED
  BY <1>12, <1>14, ClosingSound DEF x, set, l

LEMMA EndSound ==
  ASSUME NEW l, Sound(l), Has(l, CampaignData)
  PROVE  Sound(RefreshReportCache(Write([l EXCEPT !.status = "Ended"], {CampaignData})))
<1>. DEFINE x == [l EXCEPT !.status = "Ended"]
            y == Write(x, {CampaignData})
<1>1. Accounts(l) /\ DOMAIN l = Fields /\ l.locked = FALSE
  BY DEF Sound, Books, Accounts
<1>2. /\ DOMAIN x = Fields /\ x.status = "Ended" /\ x.raised = l.raised /\ x.total = l.total
      /\ x.donated = l.donated /\ x.donors = l.donors /\ x.donations = l.donations
      /\ x.frozen = l.frozen /\ x.blocked = l.blocked /\ x.ttl = l.ttl /\ x.locked = FALSE
      /\ Keeps(l, x, {"status"})
  BY <1>1 DEF Fields, Keeps
<1>. HIDE DEF x
<1>3. Accounts(x)
  BY <1>1, <1>2 DEF Accounts, Givers, Has
<1>4. Keeps(x, y, {"ttl"}) /\ DOMAIN y.ttl = DOMAIN x.ttl \cup {CampaignData}
  BY <1>2, WriteKeeps DEF Fields
<1>. HIDE DEF y
<1>5. Payments(y)
  <2>1. Keeps(l, y, Fields \ {"vec", "legacy", "releases"})
    BY <1>1, <1>2, <1>4 DEF Keeps, Fields
  <2>2. /\ Has(y, MilestonesVec) <=> Has(l, MilestonesVec)
        /\ Has(y, CampaignData) <=> Has(l, CampaignData)
    BY <1>2, <1>4, DonorKeysDiffer DEF Has
  <2>. QED
    BY <1>1, <2>1, <2>2, KeepsPayments DEF Sound
<1>. QED
  BY <1>2, <1>3, <1>5, ClosingSound DEF x, y

\* A switch is set in the record, then its key is written.
LEMMA SwitchSound ==
  ASSUME NEW l, Sound(l), NEW x, NEW key \in {Frozen, BlockedAsset},
         \/ \E b \in BOOLEAN : x = [l EXCEPT !.frozen = b]
         \/ \E bs \in SUBSET Assets : x = [l EXCEPT !.blocked = bs]
  PROVE  Sound(Write(Touch(x, {CampaignData}), {key}))
<1>. DEFINE y == Touch(x, {CampaignData})
            z == Write(y, {key})
<1>1. DOMAIN l = Fields /\ Accounts(l) /\ l.locked = FALSE
  BY DEF Sound, Books, Accounts
<1>2. /\ DOMAIN x = Fields /\ x.status = l.status /\ x.raised = l.raised /\ x.total = l.total
      /\ x.donated = l.donated /\ x.donors = l.donors /\ x.donations = l.donations
      /\ x.frozen \in BOOLEAN /\ x.blocked \subseteq Assets /\ x.ttl = l.ttl /\ x.locked = FALSE
      /\ x.report = l.report /\ x.releases = l.releases /\ Keeps(l, x, {"frozen", "blocked"})
  <2>1. l.frozen \in BOOLEAN /\ l.blocked \subseteq Assets
    BY <1>1 DEF Accounts
  <2>2. ASSUME NEW b \in BOOLEAN, x = [l EXCEPT !.frozen = b]
        PROVE  /\ DOMAIN x = Fields /\ \A f \in Fields \ {"frozen"} : x[f] = l[f]
               /\ x.frozen = b
    BY <1>1, <2>2 DEF Fields
  <2>3. ASSUME NEW bs \in SUBSET Assets, x = [l EXCEPT !.blocked = bs]
        PROVE  /\ DOMAIN x = Fields /\ \A f \in Fields \ {"blocked"} : x[f] = l[f]
               /\ x.blocked = bs
    BY <1>1, <2>3 DEF Fields
  <2>4. /\ DOMAIN x = Fields /\ Keeps(l, x, {"frozen", "blocked"})
        /\ x.frozen \in BOOLEAN /\ x.blocked \subseteq Assets
    BY <1>1, <2>1, <2>2, <2>3 DEF Keeps, Fields
  <2>. QED
    BY <1>1, <2>4 DEF Keeps, Fields
<1>3. Accounts(x)
  BY <1>1, <1>2 DEF Accounts, Givers, Has
<1>4. BuildReport(x) = BuildReport(l)
  BY <1>2 DEF BuildReport
<1>5. Books(x)
  BY <1>2, <1>3, <1>4 DEF Books, Sound, Has
<1>6. Payments(x)
  <2>1. Keeps(l, x, Fields \ {"vec", "legacy", "releases"})
    BY <1>2 DEF Keeps, Fields
  <2>. QED
    BY <1>1, <1>2, <2>1, KeepsPayments DEF Has, Sound
<1>7. Sound(y)
  BY <1>5, <1>6, TouchSound DEF Sound
<1>. HIDE DEF y
<1>8. Keeps(y, z, {"ttl"}) /\ DOMAIN z.ttl = DOMAIN y.ttl \cup {key} /\ DOMAIN y = Fields
  BY <1>7, WriteKeeps DEF Fields, Sound, Books, Accounts
<1>. HIDE DEF z
<1>9. /\ \A k : k # key => (Has(z, k) <=> Has(y, k))
      /\ DOMAIN z.ttl \subseteq Keys
  BY <1>7, <1>8, DonorKeysDiffer DEF Has, Sound, Books, Accounts
<1>10. Books(z)
  <2>1. Keeps(y, z, {"ttl", "vec", "legacy"})
    BY <1>8 DEF Keeps
  <2>2. Givers(z) = Givers(y) /\ (Has(z, CachedReport) <=> Has(y, CachedReport))
    BY <1>9, DonorKeysDiffer DEF Givers
  <2>. QED
    BY <1>7, <1>9, <2>1, <2>2, KeepsBooks DEF Sound
<1>11. Payments(z)
  <2>1. Keeps(y, z, Fields \ {"vec", "legacy", "releases"})
    BY <1>8 DEF Keeps, Fields
  <2>2. /\ Has(z, MilestonesVec) <=> Has(y, MilestonesVec)
        /\ Has(z, CampaignData) <=> Has(y, CampaignData)
    BY <1>9, DonorKeysDiffer, KeysDiffer
  <2>. QED
    BY <1>7, <1>8, <2>1, <2>2, KeepsPayments DEF Sound
<1>. QED
  BY <1>10, <1>11 DEF Sound, z, y


-----------------------------------------------------------------------------
(* The system: every campaign is sound, and a batch has kept count *)

\* What a running batch has done so far.
BatchSoFar ==
    /\ mode \in {"idle", "atomic", "best_effort"}
    /\ targets \in Batches \cup {<<>>} /\ Len(targets) <= MaxBatchSize
    /\ results \in Seq(Results) /\ Len(results) <= Len(targets)
    /\ \A i \in DOMAIN results :
         results[i].index = i - 1 /\ (mode = "atomic" => results[i].outcome = "Success")
    /\ mode = "idle" => saved = <<>>
    /\ mode # "idle" =>
         /\ DOMAIN saved = Campaigns
         /\ \A c \in Campaigns :
              /\ Sound(saved[c])
              /\ ledger[c].raised = saved[c].raised + Given(c)
              /\ Succeeded(c) = {} => ledger[c] = saved[c]

SoundInv ==
    /\ BatchInv
    /\ \A c \in Campaigns : Sound(ledger[c])
    /\ now \in 0..MaxLedgers /\ calls \in 0..MaxCalls
    /\ BatchSoFar

\* A campaign nobody has given to.
LEMMA NewAccounts ==
  ASSUME NEW l, DOMAIN l = Fields, l.status \in {"None", "Active"}, l.raised = 0, l.total = 0,
         l.donations = 0, l.donors = 0, l.frozen = FALSE, l.blocked = {}, Givers(l) = {},
         DOMAIN l.ttl \subseteq Keys, l.donated \in [Donors -> Nat],
         \A d \in Donors : l.donated[d] = 0
  PROVE  Accounts(l)
<1>1. SumFunctionOnSet(l.donated, Donors) = 0
  BY SumZero, StorageAssumption
<1>2. 0 \in 0..MaxI128 /\ Cardinality({}) = 0 /\ Goal > 0
  BY StorageAssumption, FS_EmptySet, GoalPositive
<1>3. \A d \in Donors : l.donated[d] > 0 <=> d \in Givers(l)
  OBVIOUS
<1>4. l.donors = Cardinality(Givers(l)) /\ l.donations >= l.donors /\ l.donations \in Nat
  BY <1>2
<1>5. l.status = "Active" => l.raised < Goal
  BY <1>2, GoalPositive
<1>. QED
  BY <1>1, <1>2, <1>3, <1>4, <1>5 DEF Accounts

LEMMA InitSound == Init => SoundInv
<1>. SUFFICES ASSUME Init PROVE SoundInv
  OBVIOUS
<1>. DEFINE none == [d \in Donors |-> 0]
<1>1. none \in [Donors -> Nat] /\ \A d \in Donors : none[d] = 0
  OBVIOUS
<1>. HIDE DEF none
<1>2. /\ DOMAIN Empty = Fields /\ Empty.status = "None" /\ Empty.raised = 0 /\ Empty.total = 0
      /\ Empty.donations = 0 /\ Empty.donors = 0 /\ Empty.releases = 0 /\ Empty.donated = none
      /\ Empty.frozen = FALSE /\ Empty.blocked = {} /\ Empty.locked = FALSE
      /\ Empty.vec = <<>> /\ Empty.legacy = <<>> /\ Empty.ttl = <<>>
  BY DEF Empty, Fields, none
<1>3. DOMAIN <<>> = {}
  OBVIOUS
<1>4. Sound(Empty)
  <2>1. Givers(Empty) = {}
    BY <1>2, <1>3 DEF Givers, Has
  <2>2. Accounts(Empty)
    BY <1>1, <1>2, <1>3, <2>1, NewAccounts
  <2>3. ~Has(Empty, CachedReport) /\ ~Has(Empty, CampaignData)
    BY <1>2, <1>3 DEF Has
  <2>. QED
    BY <1>2, <1>3, <2>2, <2>3 DEF Sound, Books, Payments, SettledVector
<1>5. Sound(Legacy)
  <2>. DEFINE m == [i \in Index |-> [target |-> Targets[i], released |-> 0, status |-> "Locked"]]
              t == [k \in {CampaignData} \cup {MilestoneData(i) : i \in Index} |-> BumpAmount]
  <2>1. Legacy = [Empty EXCEPT !.status = "Active", !.legacy = m, !.ttl = t]
    BY DEF Legacy
  <2>2. DOMAIN m = Index /\ \A i \in Index : Settled(m[i], i) /\ m[i].status = "Locked"
    <3>. SUFFICES ASSUME NEW i \in Index PROVE Settled(m[i], i) /\ m[i].status = "Locked"
      OBVIOUS
    <3>1. m[i] = [target |-> Targets[i], released |-> 0, status |-> "Locked"]
      OBVIOUS
    <3>2. Targets[i] \in 1..MaxI128 /\ 0 \in 0..MaxI128
      BY StorageAssumption DEF Index
    <3>. QED
      BY <3>1, <3>2 DEF Settled, Milestone, Statuses
  <2>3. DOMAIN t = {CampaignData} \cup {MilestoneData(i) : i \in Index}
    OBVIOUS
  <2>. HIDE DEF m, t
  <2>4. /\ DOMAIN Legacy = Fields /\ Legacy.legacy = m /\ Legacy.ttl = t /\ Legacy.status = "Active"
        /\ Legacy.raised = 0 /\ Legacy.total = 0 /\ Legacy.donations = 0 /\ Legacy.donors = 0
        /\ Legacy.releases = 0 /\ Legacy.donated = none /\ Legacy.frozen = FALSE
        /\ Legacy.blocked = {} /\ Legacy.locked = FALSE /\ Legacy.vec = <<>>
    BY <1>2, <2>1 DEF Fields
  <2>5. /\ CampaignData \in DOMAIN t /\ MilestonesVec \notin DOMAIN t /\ CachedReport \notin DOMAIN t
        /\ \A d \in Donors : DonorData(d) \notin DOMAIN t
        /\ DOMAIN t \subseteq Keys
    <3>1. CampaignData # CachedReport /\ \A i : MilestonesVec # MilestoneData(i)
      BY DEF MilestonesVec, MilestoneData, CachedReport, CampaignData
    <3>2. \A i \in Index : MilestoneData(i) \in Keys
      BY DEF Keys, CoreKeys
    <3>. QED
      BY <2>3, <3>1, <3>2, DonorKeysDiffer, KeysDiffer
  <2>6. Givers(Legacy) = {}
    BY <2>4, <2>5 DEF Givers, Has
  <2>7. Accounts(Legacy)
    BY <1>1, <2>4, <2>5, <2>6, NewAccounts
  <2>8. GetMilestonesVec(Legacy) = m
    <3>1. {j \in DOMAIN m : 1..j \subseteq DOMAIN m} = Index
      BY <2>2, TargetTypes
    <3>2. GetMilestonesVec(Legacy) = [i \in Index |-> m[i]]
      BY <2>4, <2>5, <3>1 DEF GetMilestonesVec, Has
    <3>. QED
      BY <2>2, <3>2 DEF m
  <2>9. ReleasedOf(m) = {}
    BY <2>2 DEF ReleasedOf
  <2>10. InOrder(m, 0) /\ SettledVector(m) /\ SettledVector(<<>>)
    BY <1>3, <2>2, <2>9, FS_EmptySet DEF InOrder, SettledVector
  <2>. QED
    BY <2>4, <2>5, <2>7, <2>8, <2>10 DEF Sound, Books, Payments, Has
<1>6. \A c \in Campaigns : Sound(ledger[c])
  BY <1>4, <1>5 DEF Init
<1>7. BatchSoFar /\ now \in 0..MaxLedgers /\ calls \in 0..MaxCalls
  <2>1. mode = "idle" /\ targets = <<>> /\ results = <<>> /\ saved = <<>> /\ now = 0 /\ calls = 0
    BY DEF Init
  <2>2. Len(<<>>) = 0 /\ <<>> \in Seq(Results) /\ MaxBatchSize \in Nat
    BY BatchAssumption
  <2>. QED
    BY <2>1, <2>2, BatchAssumption, <1>3 DEF BatchSoFar
<1>. QED
  BY <1>6, <1>7, InitFine DEF SoundInv


\* A campaign's call leaves the other campaigns alone, and no batch is running.
LEMMA OwnCallSound ==
  ASSUME SoundInv, NEW c \in Campaigns,
         \/ Initialize(c) \/ \E i \in Index : ReleaseMilestone(c, i)
         \/ EndCampaign(c) \/ BumpStorage(c) \/ Restore(c)
         \/ \E b \in BOOLEAN : SetFrozen(c, b)
         \/ \E bs \in SUBSET Assets : SetBlocked(c, bs)
  PROVE  /\ mode = "idle"
         /\ \E l : Call(c, l) /\ Sound(l)
<1>1. Sound(ledger[c]) /\ Layout(ledger[c], ledger[c].raised)
  BY DEF SoundInv, BatchInv, Fine
<1>2. CASE Initialize(c)
  <2>. DEFINE fresh == [i \in Index |-> [target |-> Targets[i], released |-> 0, status |-> "Locked"]]
              l == RefreshReportCache(SetMilestonesVec(
                       Write([ledger[c] EXCEPT !.status = "Active"], {CampaignData}), fresh))
  <2>1. Call(c, l) /\ mode = "idle" /\ ~Has(ledger[c], CampaignData)
    BY <1>2 DEF Initialize, Idle
  <2>2. Sound(l)
    BY <1>1, <2>1, InitializeSound
  <2>. HIDE DEF l
  <2>. QED
    BY <2>1, <2>2
<1>3. ASSUME NEW i \in Index, ReleaseMilestone(c, i) PROVE mode = "idle" /\ \E l : Call(c, l) /\ Sound(l)
  <2>. DEFINE paid == [target |-> Targets[i], released |-> Targets[i], status |-> "Released"]
              l == RefreshReportCache(Write(
                       [SetMilestone(Touch(ledger[c], {Frozen}), i, paid) EXCEPT !.releases = @ + 1],
                       {ReleaseCount}))
  <2>1. Call(c, l) /\ mode = "idle" /\ Releasable(ledger[c], i)
    BY <1>3 DEF ReleaseMilestone, Idle
  <2>2. Sound(l)
    BY <1>1, <2>1, ReleaseSound
  <2>. HIDE DEF l
  <2>. QED
    BY <2>1, <2>2
<1>4. CASE EndCampaign(c)
  <2>. DEFINE t == Touch(ledger[c], {Frozen})
              l == RefreshReportCache(Write([t EXCEPT !.status = "Ended"], {CampaignData}))
  <2>1. Call(c, l) /\ mode = "idle" /\ Has(t, CampaignData)
    BY <1>4 DEF EndCampaign, Idle
  <2>2. Sound(t)
    BY <1>1, TouchSound
  <2>. HIDE DEF t
  <2>3. Sound(l)
    BY <2>1, <2>2, EndSound
  <2>. HIDE DEF l
  <2>. QED
    BY <2>1, <2>3
<1>5. CASE BumpStorage(c)
  <2>1. Call(c, Touch(ledger[c], CoreKeys)) /\ mode = "idle"
    BY <1>5 DEF BumpStorage, Idle, BumpAllPersistent
  <2>. QED
    BY <1>1, <2>1, TouchSound
<1>6. CASE Restore(c)
  BY <1>1, <1>6, AgedSound DEF Restore
<1>7. ASSUME NEW b \in BOOLEAN, SetFrozen(c, b) PROVE mode = "idle" /\ \E l : Call(c, l) /\ Sound(l)
  <2>. DEFINE x == [ledger[c] EXCEPT !.frozen = b]
              l == Write(Touch(x, {CampaignData}), {Frozen})
  <2>1. Call(c, l) /\ mode = "idle"
    BY <1>7 DEF SetFrozen, Idle
  <2>2. Sound(l)
    BY <1>1, SwitchSound
  <2>. HIDE DEF l
  <2>. QED
    BY <2>1, <2>2
<1>8. ASSUME NEW bs \in SUBSET Assets, SetBlocked(c, bs)
      PROVE  mode = "idle" /\ \E l : Call(c, l) /\ Sound(l)
  <2>. DEFINE x == [ledger[c] EXCEPT !.blocked = bs]
              l == Write(Touch(x, {CampaignData}), {BlockedAsset})
  <2>1. Call(c, l) /\ mode = "idle"
    BY <1>8 DEF SetBlocked, Idle
  <2>2. Sound(l)
    BY <1>1, SwitchSound
  <2>. HIDE DEF l
  <2>. QED
    BY <2>1, <2>2
<1>. QED
  BY <1>2, <1>3, <1>4, <1>5, <1>6, <1>7, <1>8

LEMMA CallSound ==
  ASSUME SoundInv, BatchInv', mode = "idle", NEW c \in Campaigns, NEW l, Call(c, l), Sound(l)
  PROVE  SoundInv'
<1>1. \A d \in Campaigns : ledger'[d] = IF d = c THEN l ELSE ledger[d]
  BY DEF SoundInv, BatchInv, Call
<1>2. calls' \in 0..MaxCalls /\ now' = now
  BY BatchAssumption DEF SoundInv, Call, Counted
<1>3. BatchSoFar'
  BY DEF SoundInv, BatchSoFar, Call, batchVars
<1>. QED
  BY <1>1, <1>2, <1>3 DEF SoundInv

LEMMA UpToFinite == \A k \in Int : IsFiniteSet(1..k)
BY FS_Interval

\* One more result of a batch: a success is what its target gave its campaign,
\* and any other result gave nothing.
LEMMA OneResult ==
  ASSUME SoundInv, mode # "idle", Next1 <= Len(targets), Keep, NEW outcome \in Outcomes,
         Report(outcome), mode = "atomic" => outcome = "Success",
         NEW t, t = targets[Next1],
         outcome = "Success" =>
            /\ \A c \in Campaigns \ {t.campaign} : ledger'[c] = ledger[c]
            /\ t.campaign \in Campaigns =>
                  ledger'[t.campaign].raised = ledger[t.campaign].raised + t.amount,
         outcome # "Success" => \A c \in Campaigns : ledger'[c] = ledger[c]
  PROVE  BatchSoFar'
<1>. DEFINE n == Len(results) + 1
            r == [index |-> Len(results), outcome |-> outcome,
                  validation_code |-> IF outcome = "ValidationFailed" THEN {INVALID_AMOUNT} ELSE {}]
            amounts == [i \in DOMAIN targets |-> targets[i].amount]
<1>1. /\ results \in Seq(Results) /\ targets \in Seq(DonateTarget)
      /\ Next1 = n /\ n \in 1..Len(targets) /\ n \in DOMAIN targets
  <2>1. results \in Seq(Results) /\ targets \in Seq(DonateTarget)
    BY BatchAssumption DEF SoundInv, BatchSoFar
  <2>. QED
    BY <2>1 DEF Next1
<1>2. /\ results' = Append(results, r) /\ mode' = mode /\ targets' = targets /\ saved' = saved
      /\ results' \in Seq(Results)
  BY ReportType DEF Report, Keep, SoundInv
<1>3. /\ Len(results') = n /\ DOMAIN results' = 1..n /\ DOMAIN results = 1..Len(results)
      /\ results'[n] = r /\ \A i \in 1..Len(results) : results'[i] = results[i]
  BY <1>1, <1>2
<1>4. \A i \in DOMAIN results' :
        results'[i].index = i - 1 /\ (mode' = "atomic" => results'[i].outcome = "Success")
  <2>. SUFFICES ASSUME NEW i \in 1..n
                PROVE  results'[i].index = i - 1 /\ (mode = "atomic" => results'[i].outcome = "Success")
    BY <1>2, <1>3
  <2>1. CASE i = n
    BY <1>1, <1>3, <2>1
  <2>2. CASE i # n
    <3>1. i \in DOMAIN results /\ results'[i] = results[i]
      BY <1>1, <1>3, <2>2
    <3>. QED
      BY <3>1 DEF SoundInv, BatchSoFar
  <2>. QED
    BY <2>1, <2>2
<1>5. ASSUME NEW c \in Campaigns
      PROVE  Succeeded(c)' = IF outcome = "Success" /\ t.campaign = c
                             THEN Succeeded(c) \cup {n} ELSE Succeeded(c)
  BY <1>1, <1>2, <1>3 DEF Succeeded
<1>6. ASSUME NEW c \in Campaigns
      PROVE  /\ IsFiniteSet(Succeeded(c)) /\ n \notin Succeeded(c)
             /\ \A i \in Succeeded(c) \cup {n} : amounts[i] \in Int
             /\ amounts[n] = t.amount
  <2>1. Succeeded(c) \subseteq 1..Len(results) /\ Len(results) \in Nat
    BY <1>1, <1>3 DEF Succeeded
  <2>2. IsFiniteSet(Succeeded(c)) /\ n \notin Succeeded(c)
    <3>1. IsFiniteSet(1..Len(results)) /\ n \notin 1..Len(results)
      <4>1. Len(results) \in Int /\ n = Len(results) + 1
        BY <2>1
      <4>2. n \notin 1..Len(results)
        BY <4>1
      <4>3. IsFiniteSet(1..Len(results))
        BY <4>1, UpToFinite, Zenon
      <4>. QED
        BY <4>2, <4>3
    <3>. QED
      BY <2>1, <3>1, FS_Subset
  <2>3. Succeeded(c) \cup {n} \subseteq DOMAIN targets
    BY <1>1, <2>1
  <2>4. \A i \in DOMAIN targets : targets[i].amount \in Int
    <3>1. \A i \in DOMAIN targets : targets[i] \in DonateTarget
      BY <1>1
    <3>. QED
      BY <3>1 DEF DonateTarget
  <2>. QED
    BY <1>1, <2>2, <2>3, <2>4
<1>7. ASSUME NEW c \in Campaigns
      PROVE  /\ ledger'[c].raised = saved[c].raised + SumFunctionOnSet(amounts, Succeeded(c)')
             /\ Succeeded(c)' = {} => ledger'[c] = saved[c]
  <2>1. /\ ledger[c].raised = saved[c].raised + SumFunctionOnSet(amounts, Succeeded(c))
        /\ Succeeded(c) = {} => ledger[c] = saved[c]
    BY DEF SoundInv, BatchSoFar, Given
  <2>2. CASE outcome = "Success" /\ t.campaign = c
    <3>. DEFINE S == Succeeded(c) \cup {n}
    <3>1. Succeeded(c)' = S
      BY <1>5, <2>2
    <3>2. IsFiniteSet(S) /\ n \in S /\ S \ {n} = Succeeded(c) /\ \A i \in S : amounts[i] \in Int
      BY <1>6, FS_AddElement
    <3>. HIDE DEF S, amounts
    <3>3. SumFunctionOnSet(amounts, S) = amounts[n] + SumFunctionOnSet(amounts, Succeeded(c))
      BY <3>2, SumTakeOut
    <3>4. SumFunctionOnSet(amounts, Succeeded(c)) \in Int /\ amounts[n] \in Int
      BY <1>6, SumInt
    <3>5. saved[c].raised \in Int
      BY StorageAssumption DEF SoundInv, BatchSoFar, Sound, Books, Accounts
    <3>6. ledger'[c].raised = ledger[c].raised + amounts[n]
      BY <1>6, <2>2
    <3>. QED
      BY <2>1, <3>1, <3>2, <3>3, <3>4, <3>5, <3>6
  <2>3. CASE ~(outcome = "Success" /\ t.campaign = c)
    <3>1. Succeeded(c)' = Succeeded(c) /\ ledger'[c] = ledger[c]
      BY <1>5, <2>3
    <3>. QED
      BY <2>1, <3>1
  <2>. QED
    BY <2>2, <2>3
<1>8. \A c \in Campaigns : Given(c)' = SumFunctionOnSet(amounts, Succeeded(c)')
  BY <1>2 DEF Given
<1>9. /\ targets' \in Batches \cup {<<>>} /\ Len(targets') <= MaxBatchSize
      /\ mode' \in {"idle", "atomic", "best_effort"} /\ Len(results') <= Len(targets')
      /\ DOMAIN saved' = Campaigns /\ \A c \in Campaigns : Sound(saved'[c])
  BY <1>1, <1>2, <1>3 DEF SoundInv, BatchSoFar
<1>. HIDE DEF amounts
<1>. QED
  BY <1>2, <1>4, <1>7, <1>8, <1>9 DEF BatchSoFar


LEMMA SubCallSound ==
  ASSUME SoundInv, BatchInv', InvokeOk \/ InvokeFailed \/ SkipInvalid
  PROVE  SoundInv'
<1>. DEFINE t == targets[Next1]
<1>1. mode # "idle" /\ Next1 <= Len(targets) /\ Keep
  BY DEF InvokeOk, InvokeFailed, SkipInvalid, Running
<1>2. t \in DonateTarget /\ t.campaign \in Campaigns /\ t.amount \in Int
  BY <1>1, TargetType DEF SoundInv, DonateTarget
<1>. DEFINE l == ledger[t.campaign]
            r == Donate(l, t)
<1>3. /\ Sound(r.ledger) /\ (r.ok => r.ledger.raised = l.raised + t.amount)
      /\ (~r.ok => r.ledger = l)
  <2>1. Sound(l) /\ Layout(l, l.raised)
    BY <1>2 DEF SoundInv, BatchInv, Fine
  <2>. QED
    BY <1>2, <2>1, DonateSound
<1>. HIDE DEF r, t
<1>4. CASE InvokeOk
  <2>1. r.ok /\ ledger' = [ledger EXCEPT ![t.campaign] = r.ledger] /\ Report("Success")
    BY <1>4 DEF InvokeOk, SubCall, r, t
  <2>2. \A c \in Campaigns : ledger'[c] = IF c = t.campaign THEN r.ledger ELSE ledger[c]
    BY <1>2, <2>1 DEF SoundInv, BatchInv
  <2>3. BatchSoFar'
    BY <1>1, <1>2, <1>3, <2>1, <2>2, OneResult DEF Outcomes, t
  <2>. QED
    BY <1>1, <1>3, <2>2, <2>3 DEF SoundInv, Keep
<1>5. CASE InvokeFailed \/ SkipInvalid
  <2>1. /\ Report("InvocationFailed") \/ Report("ValidationFailed")
        /\ mode = "best_effort" /\ \A c \in Campaigns : ledger'[c] = ledger[c]
    <3>1. CASE InvokeFailed
      <4>1. ~r.ok /\ ledger' = [ledger EXCEPT ![t.campaign] = r.ledger]
        BY <3>1 DEF InvokeFailed, SubCall, r, t
      <4>2. \A c \in Campaigns : ledger'[c] = ledger[c]
        BY <1>2, <1>3, <4>1 DEF SoundInv, BatchInv
      <4>. QED
        BY <3>1, <4>2 DEF InvokeFailed, Running
    <3>2. CASE SkipInvalid
      BY <3>2 DEF SkipInvalid, Running
    <3>. QED
      BY <1>5, <3>1, <3>2
  <2>2. BatchSoFar'
    BY <1>1, <2>1, OneResult DEF Outcomes, t
  <2>. QED
    BY <1>1, <2>1, <2>2 DEF SoundInv, Keep
<1>. QED
  BY <1>4, <1>5

LEMMA FinishSound ==
  ASSUME SoundInv, BatchInv', Panic \/ Return
  PROVE  SoundInv'
<1>1. /\ mode # "idle" /\ mode' = "idle" /\ targets' = <<>> /\ results' = <<>> /\ saved' = <<>>
      /\ UNCHANGED <<now, calls>> /\ ledger' \in {ledger, saved}
  BY DEF Panic, Return, Finish, Running
<1>2. \A c \in Campaigns : Sound(ledger'[c])
  BY <1>1 DEF SoundInv, BatchSoFar
<1>3. BatchSoFar'
  <2>1. Len(<<>>) = 0 /\ <<>> \in Seq(Results) /\ MaxBatchSize \in Nat /\ DOMAIN <<>> = {}
    BY BatchAssumption
  <2>. QED
    BY <1>1, <2>1 DEF BatchSoFar
<1>. QED
  BY <1>1, <1>2, <1>3 DEF SoundInv

LEMMA BeginSound ==
  ASSUME SoundInv, BatchInv', NEW m \in {"atomic", "best_effort"}, NEW ts \in Batches, Begin(m, ts)
  PROVE  SoundInv'
<1>1. /\ mode' = m /\ targets' = ts /\ results' = <<>> /\ saved' = ledger /\ ledger' = ledger
      /\ now' = now /\ Counted /\ Len(ts) \in 1..MaxBatchSize
  BY DEF Begin, PreValidate
<1>2. Len(<<>>) = 0 /\ <<>> \in Seq(Results) /\ MaxBatchSize \in Nat /\ DOMAIN <<>> = {}
  BY BatchAssumption
<1>3. \A c \in Campaigns : Given(c)' = 0 /\ Succeeded(c)' = {}
  BY <1>1, <1>2, SumEmpty DEF Given, Succeeded
<1>4. \A c \in Campaigns : ledger[c].raised \in Int
  BY StorageAssumption DEF SoundInv, Sound, Books, Accounts
<1>5. BatchSoFar'
  <2>1. Len(results') <= Len(targets') /\ Len(targets') <= MaxBatchSize
    BY <1>1, <1>2
  <2>2. DOMAIN saved' = Campaigns /\ \A c \in Campaigns : Sound(saved'[c])
    BY <1>1 DEF SoundInv, BatchInv
  <2>3. \A c \in Campaigns : ledger'[c].raised = saved'[c].raised + Given(c)'
    BY <1>1, <1>3, <1>4
  <2>. QED
    BY <1>1, <1>2, <2>1, <2>2, <2>3 DEF BatchSoFar
<1>6. calls' \in 0..MaxCalls
  BY <1>1, BatchAssumption DEF SoundInv, Counted
<1>. QED
  BY <1>1, <1>5, <1>6 DEF SoundInv

LEMMA StepSound == SoundInv /\ [Next]_vars => SoundInv'
<1>. SUFFICES ASSUME SoundInv, [Next]_vars PROVE SoundInv'
  OBVIOUS
<1>1. BatchInv'
  BY StepFine DEF SoundInv
<1>2. ASSUME NEW m \in {"atomic", "best_effort"}, NEW ts \in Batches, Begin(m, ts) PROVE SoundInv'
  BY <1>1, <1>2, BeginSound
<1>3. CASE InvokeOk \/ InvokeFailed \/ SkipInvalid
  BY <1>1, <1>3, SubCallSound
<1>4. CASE Panic \/ Return
  BY <1>1, <1>4, FinishSound
<1>5. CASE CloseLedger
  <2>1. /\ mode = "idle" /\ now' \in 0..MaxLedgers /\ UNCHANGED calls /\ UNCHANGED batchVars
        /\ \A c \in Campaigns : ledger'[c] = Aged(ledger[c])
    BY <1>5, BatchAssumption DEF CloseLedger, SoundInv
  <2>2. \A c \in Campaigns : Sound(ledger'[c])
    BY <2>1, AgedSound DEF SoundInv
  <2>3. BatchSoFar'
    BY <2>1 DEF SoundInv, BatchSoFar, batchVars
  <2>. QED
    BY <1>1, <2>1, <2>2, <2>3 DEF SoundInv
<1>6. ASSUME NEW c \in Campaigns,
             \/ Initialize(c) \/ \E i \in Index : ReleaseMilestone(c, i)
             \/ EndCampaign(c) \/ BumpStorage(c) \/ Restore(c)
             \/ \E b \in BOOLEAN : SetFrozen(c, b)
             \/ \E bs \in SUBSET Assets : SetBlocked(c, bs)
      PROVE  SoundInv'
  BY <1>1, <1>6, OwnCallSound, CallSound
<1>7. CASE UNCHANGED vars
  BY <1>1, <1>7 DEF vars, storeVars, batchVars, SoundInv, BatchSoFar, Given, Succeeded
<1>. QED
  BY <1>2, <1>3, <1>4, <1>5, <1>6, <1>7 DEF Next

LEMMA SoundInductive == Spec => []SoundInv
  BY InitSound, StepSound, PTL DEF Spec

-----------------------------------------------------------------------------
(* Theorems *)

\* Called in time, bump_storage keeps every core entry from being archived, for
\* any lifetimes with BumpAmount >= Threshold > 0 and any order of calls
\* (storage.rs: bump_all_persistent).
THEOREM BatchCoreKept == Spec => []CoreKept
<1>1. BatchInv => CoreKept
  <2>. SUFFICES ASSUME BatchInv, NEW c \in Campaigns, unbumped[c] < Threshold, NEW k \in CoreKeys,
                       k \in DOMAIN ledger[c].ttl
                PROVE  ledger[c].ttl[k] > 0
    BY DEF CoreKept, Live, Has
  <2>1. /\ Threshold \in Nat /\ unbumped[c] \in Nat /\ ledger[c].ttl[k] \in Nat
        /\ ledger[c].ttl[k] >= Threshold - unbumped[c]
    BY StorageAssumption DEF BatchInv, Fine, Lifetimes, Kept
  <2>. QED
    BY <2>1
<1>. QED
  BY <1>1, BatchInductive, PTL

\* A milestone is past Locked exactly when its target has been raised, in either
\* layout and across the change of layout, for any targets and batches
\* (storage.rs: get_milestones_vec, set_milestone, unlock_milestones_batch).
THEOREM BatchUnlockedExactly == Spec => []UnlockedExactly
<1>1. BatchInv => UnlockedExactly
  <2>. SUFFICES ASSUME BatchInv, NEW c \in Campaigns, Has(ledger[c], CampaignData), NEW i \in Index
                PROVE  \E m \in GetMilestone(ledger[c], i) :
                          m.status # "Locked" <=> m.target <= ledger[c].raised
    BY DEF UnlockedExactly
  <2>1. Layout(ledger[c], ledger[c].raised)
    BY DEF BatchInv, Fine
  <2>2. /\ GetMilestone(ledger[c], i) = {GetMilestonesVec(ledger[c])[i]}
        /\ Right(GetMilestonesVec(ledger[c])[i], i, ledger[c].raised)
    BY <2>1, VectorRead, MilestoneRead DEF RightVector
  <2>. QED
    BY <2>2 DEF Right
<1>. QED
  BY <1>1, BatchInductive, PTL

\* Every entry holds a value of its kind, and a batch in progress keeps within
\* its targets, for any campaigns, donors, batches and lifetimes (batch.rs,
\* storage.rs, the campaign's donate).
THEOREM BatchTypes == Spec => []TypeOK
<1>1. SoundInv => TypeOK
  <2>. SUFFICES ASSUME SoundInv PROVE TypeOK
    OBVIOUS
  <2>1. ASSUME NEW l, Sound(l), Lifetimes(l) PROVE LedgerOk(l)
    <3>1. l.donated \in [Donors -> 0..MaxI128]
      <4>1. IsFiniteSet(Donors) /\ l.donated \in [Donors -> Nat] /\ MaxI128 \in Nat
            /\ SumFunctionOnSet(l.donated, Donors) \in 0..MaxI128
        BY <2>1, StorageAssumption DEF Sound, Books, Accounts
      <4>2. \A d \in Donors : l.donated[d] <= SumFunctionOnSet(l.donated, Donors)
        BY <4>1, SumNat
      <4>. QED
        BY <4>1, <4>2
    <3>2. l.donors \in Nat /\ l.releases \in Nat
      <4>1. IsFiniteSet(Givers(l)) /\ IsFiniteSet(Index)
        BY FS_Subset, FS_Interval, TargetTypes, StorageAssumption DEF Givers
      <4>2. IsFiniteSet(ReleasedOf(GetMilestonesVec(l)))
        BY <4>1, FS_Subset DEF ReleasedOf
      <4>. QED
        BY <2>1, <4>1, <4>2, FS_CardinalityType DEF Sound, Books, Accounts, Payments, InOrder
    <3>3. /\ DOMAIN l.vec \subseteq Index /\ \A i \in DOMAIN l.vec : l.vec[i] \in Milestone
          /\ DOMAIN l.legacy \subseteq Index /\ \A i \in DOMAIN l.legacy : l.legacy[i] \in Milestone
      BY <2>1 DEF Sound, Payments, SettledVector, Settled
    <3>4. DOMAIN l.ttl \subseteq Keys /\ \A k \in DOMAIN l.ttl : l.ttl[k] \in Nat
      BY <2>1 DEF Sound, Books, Accounts, Lifetimes
    <3>5. /\ l.status \in {"None", "Active", "GoalReached", "Ended"}
          /\ l.raised \in 0..MaxI128 /\ l.total \in 0..MaxI128 /\ l.donations \in Nat
          /\ l.frozen \in BOOLEAN /\ l.locked \in BOOLEAN /\ l.blocked \subseteq Assets
      BY <2>1 DEF Sound, Books, Accounts
    <3>. QED
      BY <3>1, <3>2, <3>3, <3>4, <3>5 DEF LedgerOk
  <2>2. DOMAIN ledger = Campaigns /\ \A c \in Campaigns : LedgerOk(ledger[c])
    BY <2>1 DEF SoundInv, BatchInv, Fine
  <2>3. mode # "idle" => DOMAIN saved = Campaigns /\ \A c \in Campaigns : LedgerOk(saved[c])
    BY <2>1 DEF SoundInv, BatchSoFar, BatchInv, Fine
  <2>. QED
    BY <2>2, <2>3 DEF SoundInv, BatchSoFar, BatchInv, TypeOK
<1>. QED
  BY <1>1, SoundInductive, PTL

\* The raised amount, the total, the donors' records, the counters, the status
\* and the memoised report agree after every sub-call of a batch, one that
\* panicked included, and no campaign stays locked, for any batch
\* (campaign/src/lib.rs donate, whose last check follows two of its writes).
THEOREM BatchEntriesAgree == Spec => []EntriesAgree
<1>1. SoundInv => EntriesAgree
  <2>. SUFFICES ASSUME SoundInv, NEW c \in Campaigns, NEW l, l = ledger[c]
                PROVE  /\ l.total = l.raised
                       /\ SumFunction(l.donated) = l.raised
                       /\ {d \in Donors : l.donated[d] > 0} = {d \in Donors : Has(l, DonorData(d))}
                       /\ l.donors = Cardinality({d \in Donors : Has(l, DonorData(d))})
                       /\ l.donations >= l.donors
                       /\ l.status = "GoalReached" => l.raised >= Goal
                       /\ l.status = "Active" => l.raised < Goal
                       /\ GetCachedReport(l) = BuildReport(l)
                       /\ ~l.locked
    BY DEF EntriesAgree
  <2>1. Accounts(l) /\ Books(l)
    BY DEF SoundInv, Sound, Books
  <2>2. SumFunction(l.donated) = l.raised
    <3>1. DOMAIN l.donated = Donors
      BY <2>1 DEF Accounts
    <3>. QED
      BY <2>1, <3>1, SumWhole DEF Accounts
  <2>3. /\ {d \in Donors : l.donated[d] > 0} = Givers(l)
        /\ Givers(l) = {d \in Donors : Has(l, DonorData(d))}
    BY <2>1 DEF Accounts, Givers
  <2>4. GetCachedReport(l) = BuildReport(l) /\ ~l.locked
    BY <2>1 DEF Books, GetCachedReport
  <2>5. /\ l.total = l.raised /\ l.donors = Cardinality(Givers(l)) /\ l.donations >= l.donors
        /\ l.status = "GoalReached" => l.raised >= Goal
        /\ l.status = "Active" => l.raised < Goal
    BY <2>1 DEF Accounts
  <2>. QED
    BY <2>2, <2>3, <2>4, <2>5
<1>. QED
  BY <1>1, SoundInductive, PTL

\* The dashboards' milestone views say what release_milestone will do and has
\* done, in either layout (views.rs, get_milestone.rs, release_milestone.rs).
THEOREM BatchViewsAgree == Spec => []ViewsAgree
<1>1. SoundInv => ViewsAgree
  <2>. SUFFICES ASSUME SoundInv, NEW c \in Campaigns, NEW l, l = ledger[c], Has(l, CampaignData)
                PROVE  /\ l.releases = Cardinality({i \in Index :
                            \E v \in MilestoneView(l, i) : v.is_fully_released})
                       /\ \A i \in Index :
                            \E m \in GetMilestone(l, i), v \in MilestoneView(l, i) :
                              /\ v.is_fully_released <=> m.status = "Released"
                              /\ v.is_fully_released <=> v.pending_release = 0
                              /\ Releasable(l, i) <=>
                                    v.is_next_pending /\ m.status = "Unlocked" /\ ~l.frozen
    BY DEF ViewsAgree
  <2>. DEFINE v == GetMilestonesVec(l)
              view(i) == [pending_release |-> IF v[i].released < v[i].target
                                              THEN v[i].target - v[i].released ELSE 0,
                          is_fully_released |-> v[i].released >= v[i].target,
                          is_next_pending |-> i \in FindNextPendingIndex(l)]
  <2>1. Sound(l) /\ Layout(l, l.raised) /\ ~l.locked
    BY DEF SoundInv, BatchInv, Fine, Sound, Books
  <2>2. /\ DOMAIN v = Index /\ InOrder(v, l.releases)
        /\ \A i \in Index : Settled(v[i], i) /\ Right(v[i], i, l.raised)
    BY <2>1, VectorSettled DEF Sound
  <2>3. \A i \in Index : GetMilestone(l, i) = {v[i]}
    BY <2>1, MilestoneRead
  <2>4. \A i \in Index : MilestoneView(l, i) = {view(i)}
    BY <2>3 DEF MilestoneView
  <2>. HIDE DEF v
  <2>5. \A i \in Index :
          /\ view(i).is_fully_released <=> v[i].status = "Released"
          /\ view(i).is_fully_released <=> view(i).pending_release = 0
    <3>. SUFFICES ASSUME NEW i \in Index
                  PROVE  /\ v[i].released >= v[i].target <=> v[i].status = "Released"
                         /\ v[i].released >= v[i].target <=>
                              (IF v[i].released < v[i].target THEN v[i].target - v[i].released ELSE 0) = 0
      OBVIOUS
    <3>1. v[i].target = Targets[i] /\ Targets[i] \in Nat \ {0}
      BY <2>2, TargetTypes DEF Right
    <3>2. v[i].released = IF v[i].status = "Released" THEN Targets[i] ELSE 0
      BY <2>2 DEF Settled
    <3>. QED
      BY <3>1, <3>2
  <2>6. {i \in Index : \E x \in MilestoneView(l, i) : x.is_fully_released} = ReleasedOf(v)
    BY <2>4, <2>5 DEF ReleasedOf
  <2>7. \A i \in Index : Releasable(l, i) <=>
          i \in FindNextPendingIndex(l) /\ v[i].status = "Unlocked" /\ ~l.frozen
    <3>. SUFFICES ASSUME NEW i \in Index, v[i].status = "Unlocked"
                  PROVE  (i > 1 => v[i - 1].status = "Released") <=> i \in FindNextPendingIndex(l)
      <4>1. ASSUME NEW i \in Index
            PROVE  Releasable(l, i) <=> /\ ~l.frozen /\ v[i].status = "Unlocked"
                                        /\ i > 1 => v[i - 1].status = "Released"
        <5>1. i > 1 => i - 1 \in Index
          BY TargetTypes
        <5>. QED
          BY <2>1, <2>3, <5>1 DEF Releasable
      <4>. QED
        BY <4>1
    <3>1. FindNextPendingIndex(l) =
            {j \in Index \ ReleasedOf(v) : \A k \in Index \ ReleasedOf(v) : j <= k}
      BY <2>3 DEF FindNextPendingIndex, ReleasedOf
    <3>2. i \in Index \ ReleasedOf(v) /\ i \in Nat \ {0} /\ 1..i \subseteq Index
      BY TargetTypes DEF ReleasedOf
    <3>3. ASSUME i > 1 => v[i - 1].status = "Released"
          PROVE  \A k \in Index \ ReleasedOf(v) : i <= k
      <4>. SUFFICES ASSUME NEW k \in Index, k < i PROVE k \in ReleasedOf(v)
        BY TargetTypes
      <4>1. i > 1 /\ i - 1 \in Index /\ k \in 1..(i - 1)
        BY <3>2, TargetTypes
      <4>2. i - 1 \in ReleasedOf(v)
        BY <3>3, <4>1 DEF ReleasedOf
      <4>. QED
        BY <2>2, <4>1, <4>2 DEF InOrder
    <3>4. ASSUME \A k \in Index \ ReleasedOf(v) : i <= k, i > 1
          PROVE  v[i - 1].status = "Released"
      <4>1. i - 1 \in Index /\ ~(i <= i - 1)
        BY <3>2, <3>4
      <4>2. i - 1 \in ReleasedOf(v)
        BY <3>4, <4>1
      <4>. QED
        BY <4>2 DEF ReleasedOf
    <3>. QED
      BY <3>1, <3>2, <3>3, <3>4
  <2>8. l.releases = Cardinality(ReleasedOf(v))
    BY <2>2 DEF InOrder
  <2>9. ASSUME NEW i \in Index
        PROVE  \E m \in GetMilestone(l, i), x \in MilestoneView(l, i) :
                  /\ x.is_fully_released <=> m.status = "Released"
                  /\ x.is_fully_released <=> x.pending_release = 0
                  /\ Releasable(l, i) <=> x.is_next_pending /\ m.status = "Unlocked" /\ ~l.frozen
    <3>1. v[i] \in GetMilestone(l, i) /\ view(i) \in MilestoneView(l, i)
      BY <2>3, <2>4
    <3>2. view(i).is_next_pending <=> i \in FindNextPendingIndex(l)
      OBVIOUS
    <3>. HIDE DEF view
    <3>. QED
      BY <2>5, <2>7, <3>1, <3>2
  <2>. QED
    BY <2>6, <2>8, <2>9
<1>. QED
  BY <1>1, SoundInductive, PTL

\* A batch that ends leaves every ledger as it was, or one result per target
\* whose successes are exactly what the campaigns' totals grew by, for any
\* batch, interleaved with any history of the campaigns (batch.rs:
\* batch_donate, batch_donate_continue_on_error).
THEOREM BatchReportIsTrue == Spec => BatchTellsTruth
<1>1. SoundInv /\ [Next]_vars => [ReturnStep]_vars
  <2>. SUFFICES ASSUME SoundInv, [Next]_vars, mode # "idle", mode' = "idle" PROVE ReturnStep
    BY DEF ReturnStep
  <2>1. Panic \/ Return
    <3>1. mode' # mode
      OBVIOUS
    <3>2. ~UNCHANGED vars /\ ~Keep
      BY <3>1 DEF vars, batchVars, Keep
    <3>. QED
      BY <3>2 DEF Next, Initialize, ReleaseMilestone, EndCampaign, SetFrozen, SetBlocked, BumpStorage,
                  Begin, Restore, Idle, CloseLedger, InvokeOk, InvokeFailed, SkipInvalid
  <2>2. CASE Panic
    BY <2>2 DEF Panic, Running, Finish, ReturnStep
  <2>3. CASE Return
    <3>1. Len(results) = Len(targets) /\ ledger' = ledger
      BY <2>3 DEF Return, Finish
    <3>. QED
      BY <3>1 DEF SoundInv, BatchSoFar, ReturnStep
  <2>. QED
    BY <2>1, <2>2, <2>3
<1>. QED
  BY <1>1, SoundInductive, PTL DEF Spec, BatchTellsTruth
=============================================================================
