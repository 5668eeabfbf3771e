------------------------- MODULE CampaignRefinement -------------------------
(***************************************************************************)
(* The campaign contract implements Escrow: every call is one step of the  *)
(* abstract promise or leaves it unchanged, for every value of the         *)
(* constants.                                                              *)
(***************************************************************************)
EXTENDS CampaignProofs

\* The abstract state, as Escrow's variables are given it by the mapping.
Settled == {d \in Donors : refund_claimed[d]}
Earned  == {i \in DOMAIN mstatus : mstatus[i] # "Locked"}
PaidOut == {i \in DOMAIN mstatus : mstatus[i] = "Released"}
Times   == [t \in Tokens |-> Entries(t)]
Regular == RegularPlan(given)
promiseVars == <<Phase, donated, refunded, Settled, Earned, PaidOut, Times, Regular>>

\* The terms follow from what initialize was given.
LEMMA TermsKept ==
  ASSUME UNCHANGED campaignVars
  PROVE  UNCHANGED <<Times, Regular>>
<1>1. \A t \in Tokens : Entries(t)' = Entries(t)
  BY DEF Entries, campaignVars
<1>2. Times' = Times
  BY <1>1 DEF Times
<1>3. Regular' = Regular
  BY DEF Regular, RegularPlan, campaignVars
<1>4. QED
  BY <1>2, <1>3

\* A milestone is one of at most five.
LEMMA EarnedAreMilestones == Inv => Earned \in SUBSET (1..MaxMilestones)
<1> SUFFICES ASSUME Inv PROVE Earned \in SUBSET (1..MaxMilestones)
  OBVIOUS
<1>1. PICK n \in 0..MaxMilestones : DOMAIN mstatus = 1..n
  BY DEF Inv, TypeOK
<1>2. 1..n \subseteq 1..MaxMilestones
  BY <1>1 DEF MaxMilestones
<1>3. QED
  BY <1>1, <1>2 DEF Earned

\* Whoever has a donor record has given something in some token.
DonorsPledged == \A d \in donors : \E t \in Tokens : donated[d][t] > 0

\* A donor record comes with a pledge, so only pledgers are ever settled.
\* (donate creates the record, claim_refund requires it)
LEMMA Pledged == Spec => []DonorsPledged
<1>1. Init => DonorsPledged
  BY DEF Init, DonorsPledged
<1>2. Inv /\ DonorsPledged /\ [Next]_vars => DonorsPledged'
  <2> SUFFICES ASSUME Inv, DonorsPledged, [Next]_vars PROVE DonorsPledged'
    OBVIOUS
  <2>1. CASE \E d \in Donors, amount \in Amounts, asset \in AssetInfo :
                Donate(d, amount, asset)
    <3>1. PICK d \in Donors, amount \in Amounts, asset \in AssetInfo :
                Donate(d, amount, asset)
      BY <2>1
    <3>2. amount \in Nat /\ amount > 0 /\ donors' = donors \cup {d}
      BY <3>1, BoundsAssumption DEF Donate, ApplyDonation, DonationAccepted
    <3>3. donated \in [Donors -> [Tokens -> Nat]]
      BY BoundsAssumption DEF Inv, TypeOK, Amount
    <3>4. PICK token \in Tokens : donated' = [donated EXCEPT ![d][token] = @ + amount]
      BY <3>1, ResolvedTokens DEF Donate, IncrementDonorAssetDonation, Inv
    <3>5. donated'[d][token] > 0
      BY <3>2, <3>3, <3>4
    <3>6. \A e \in donors : e # d => donated'[e] = donated[e]
      BY <3>3, <3>4 DEF Inv, TypeOK
    <3>7. QED
      BY <3>2, <3>4, <3>5, <3>6 DEF DonorsPledged
  <2>2. CASE UNCHANGED <<donors, donated>>
    BY <2>2 DEF DonorsPledged
  <2>3. QED
    BY <2>1, <2>2 DEF Next, Initialize, ClaimRefund, ReleaseMilestone, donorVars, envVars,
           ReleaseMilestoneMultiAsset, EndCampaign, CancelCampaign, Conclude, ExtendDeadline,
           Freeze, Unfreeze, BlockAsset, UnblockAsset, SetFlags, Deposit, CloseLedger, vars
<1>3. QED
  BY <1>1, <1>2, Invariant, PTL DEF Spec
-----------------------------------------------------------------------------
(* Each entrypoint, as a step of Escrow *)

LEMMA InitializeLaunches ==
  ASSUME Inv, NEW plan \in Plans, NEW list \in AssetLists, NEW end \in EndTimes,
         NEW min \in MinDonations, Initialize(plan, list, end, min)
  PROVE  Promise!Launch
<1>1. Phase = "unborn" /\ Phase' = "open" /\ UNCHANGED <<donated, refunded, Settled>>
  BY DEF Initialize, Phase, NONE, Open, donorVars, envVars, Settled
<1>2. Earned' \in SUBSET (1..MaxMilestones) /\ PaidOut' \in SUBSET Earned'
  <2> DEFINE n == Len(plan)
  <2>1. n \in 1..5 /\ mstatus' = [i \in 1..n |-> plan[i].status]
    BY PlanMilestones
  <2> HIDE DEF n
  <2>2. DOMAIN mstatus' = 1..n /\ 1..n \subseteq 1..MaxMilestones
    BY <2>1 DEF MaxMilestones
  <2>3. QED
    BY <2>2 DEF Earned, PaidOut
<1>3. Times' \in [Tokens -> Nat]
  <2>1. accepted_assets' \in AssetLists
    BY DEF Initialize
  <2>2. \A t \in Tokens : Entries(t)' \in Nat
    BY <2>1, ListedFinitelyOften DEF Entries
  <2>3. QED
    BY <2>2 DEF Times
<1>4. Regular' \in BOOLEAN
  BY DEF Regular, RegularPlan
<1>5. QED
  BY <1>1, <1>2, <1>3, <1>4 DEF Promise!Launch, Settled, Earned, PaidOut, Times, Regular

LEMMA DonatePledges ==
  ASSUME Inv, NEW d \in Donors, NEW amount \in Amounts, NEW asset \in AssetInfo,
         Donate(d, amount, asset)
  PROVE  \E t \in Tokens : Promise!Pledge(d, t)
<1> DEFINE reached == {i \in DOMAIN target : target[i] <= raised_amount'}
<1>1. amount \in 1..MaxI128 /\ raised_amount \in Nat /\ raised_amount' = raised_amount + amount
  <2>1. amount \in Int /\ amount > 0 /\ raised_amount \in Nat /\ MaxI128 \in Nat
    BY BoundsAssumption DEF Donate, DonationAccepted, Inv, TypeOK, Amount
  <2>2. raised_amount' = raised_amount + amount /\ raised_amount + amount <= MaxI128
    BY DEF Donate
  <2>3. QED
    BY <2>1, <2>2
<1>2. Phase = "open" /\ Phase' = "open" /\ UNCHANGED <<refunded, Settled, Times, Regular>>
  <2>1. UNCHANGED campaignVars
    BY DEF Donate
  <2>2. QED
    BY <2>1, TermsKept
    DEF Donate, DonationAccepted, StatusAfterDonation, Phase, Open, NONE, Settled, envVars
<1>3. PICK token \in Tokens : donated' = [donated EXCEPT ![d][token] = @ + amount]
  BY ResolvedTokens DEF Donate, IncrementDonorAssetDonation, Inv
<1>4. /\ DOMAIN mstatus = DOMAIN target /\ DOMAIN mstatus' = DOMAIN target
      /\ \A i \in DOMAIN target : mstatus'[i] =
            IF mstatus[i] = "Locked" /\ \A j \in 1..i : target[j] <= raised_amount'
            THEN "Unlocked" ELSE mstatus[i]
  BY DEF Donate, UnlockMilestones, Inv, TypeOK
<1>5. PaidOut' = PaidOut
  BY <1>4 DEF PaidOut
<1>6. \A i \in reached : \A j \in 1..i : j \in reached
  <2> SUFFICES ASSUME NEW i \in reached, NEW j \in 1..i PROVE j \in reached
    OBVIOUS
  <2>1. /\ j \in DOMAIN target /\ target[j] \in Int /\ target[i] \in Int
        /\ target[j] <= target[i]
    BY MilestoneFacts
  <2>2. QED
    BY <1>1, <2>1
<1>7. \A i \in reached : \A j \in 1..MaxMilestones : j < i => j \in reached
  <2> SUFFICES ASSUME NEW i \in reached, NEW j \in 1..MaxMilestones, j < i
               PROVE  j \in reached
    OBVIOUS
  <2>1. i \in Nat
    BY MilestoneFacts
  <2>2. j \in 1..i
    BY <2>1 DEF MaxMilestones
  <2>3. QED
    BY <1>6, <2>2
<1>8. Earned' = Earned \cup reached
  <2> SUFFICES ASSUME NEW i \in DOMAIN target
               PROVE  mstatus'[i] # "Locked" <=> mstatus[i] # "Locked" \/ i \in reached
    BY <1>4 DEF Earned
  <2>1. i \in 1..i
    BY MilestoneFacts
  <2>2. i \in reached <=> \A j \in 1..i : target[j] <= raised_amount'
    BY <1>6, <2>1
  <2>3. QED
    BY <1>4, <2>2
<1>9. reached \in SUBSET (1..MaxMilestones)
  <2>1. PICK n \in 0..MaxMilestones : DOMAIN target = 1..n
    BY DEF Inv, TypeOK
  <2>2. 1..n \subseteq 1..MaxMilestones
    BY <2>1 DEF MaxMilestones
  <2>3. QED
    BY <2>1, <2>2
<1> HIDE DEF reached
<1>10. QED
  BY <1>1, <1>2, <1>3, <1>5, <1>7, <1>8, <1>9
  DEF Promise!Pledge, Promise!InOrder, Promise!terms, Settled, Earned, PaidOut, Times, Regular

LEMMA ClaimSettles ==
  ASSUME Inv, DonorsPledged, NEW d \in Donors, ClaimRefund(d)
  PROVE  Promise!Settle(d)
<1>1. Phase = "closed" /\ UNCHANGED <<Phase, donated, Earned, PaidOut, Times, Regular>>
  <2>1. UNCHANGED campaignVars
    BY DEF ClaimRefund
  <2>2. QED
    BY <2>1, TermsKept DEF ClaimRefund, RefundEligible, Phase, Open, NONE, lifeVars,
                           milestoneVars, Earned, PaidOut
<1>2. /\ d \notin Settled /\ Settled' = Settled \cup {d}
      /\ \E t \in Tokens : donated[d][t] > 0
  BY DEF ClaimRefund, RefundEligible, DonorsPledged, Inv, TypeOK, Settled
<1> DEFINE share == [t \in Tokens |-> RefundTotal(d, t)]
<1>3. /\ share \in [Tokens -> Nat]
      /\ Regular => \A t \in Tokens : share[t] <= Times[t] * donated[d][t]
  BY RefundTotalBounded DEF Regular, Times
<1>4. refunded' = [refunded EXCEPT ![d] = share]
  <2>1. \A t \in Tokens : refunded[d][t] = 0
    BY DEF ClaimRefund, RefundEligible, Inv, RefundWithinContribution
  <2>2. \A t \in Tokens : refunded[d][t] + RefundTotal(d, t) = RefundTotal(d, t)
    BY <1>3, <2>1
  <2>3. refunded' = [refunded EXCEPT ![d] = [t \in Tokens |-> refunded[d][t] + RefundTotal(d, t)]]
    BY DEF ClaimRefund
  <2>4. QED
    BY <2>2, <2>3
<1>5. refunded'[d] = share /\ refunded' = [refunded EXCEPT ![d] = refunded'[d]]
  <2>1. refunded \in [Donors -> [Tokens -> Nat]]
    BY LedgerTypes
  <2>2. QED
    BY <1>4, <2>1
<1> HIDE DEF share
<1>6. QED
  BY <1>1, <1>2, <1>3, <1>5
  DEF Promise!Settle, Promise!terms, Settled, Earned, PaidOut, Times, Regular

LEMMA ReleasePays ==
  ASSUME Inv, NEW i \in DOMAIN target, mstatus[i] = "Unlocked", MarkReleased(i),
         UNCHANGED <<status, donated, refunded, refund_claimed, campaignVars>>
  PROVE  Promise!Pay(i)
<1>1. i \in Earned \ PaidOut /\ Earned' = Earned /\ PaidOut' = PaidOut \cup {i}
  BY DEF Earned, PaidOut, MarkReleased, Inv, TypeOK
<1>2. QED
  BY <1>1, TermsKept DEF Promise!Pay, Promise!terms, Phase, Earned, PaidOut, Times, Regular

LEMMA ConcludeCloses ==
  ASSUME NEW to \in Terminal, Conclude(to)
  PROVE  Promise!Close \/ UNCHANGED promiseVars
<1>1. /\ UNCHANGED <<donated, refunded, Settled, Earned, PaidOut, Times, Regular>>
      /\ Phase' = "closed"
  <2>1. UNCHANGED campaignVars
    BY DEF Conclude
  <2>2. QED
    BY <2>1, TermsKept DEF Conclude, Terminal, Open, NONE, Phase, Settled, Earned, PaidOut,
                           donorVars, milestoneVars, envVars
<1>2. Phase \in {"open", "closed"}
  BY DEF Conclude, CanTransition, Open, NONE, Phase
<1>3. QED
  BY <1>1, <1>2
  DEF Promise!Close, Promise!terms, promiseVars, Settled, Earned, PaidOut, Times, Regular

LEMMA OthersStutter ==
  ASSUME \/ \E end \in EndTimes : ExtendDeadline(end)
         \/ Freeze \/ Unfreeze
         \/ \E t \in Tokens : BlockAsset(t) \/ UnblockAsset(t)
         \/ \E t \in Tokens, amount \in Deposits : Deposit(t, amount)
         \/ CloseLedger
         \/ UNCHANGED vars
  PROVE  UNCHANGED promiseVars
<1>1. UNCHANGED <<status, mstatus, donated, refund_claimed, refunded, campaignVars>>
  BY DEF ExtendDeadline, Freeze, Unfreeze, BlockAsset, UnblockAsset, SetFlags, Deposit,
         CloseLedger, vars, lifeVars, donorVars, milestoneVars, envVars
<1>2. QED
  BY <1>1, TermsKept DEF promiseVars, Phase, Settled, Earned, PaidOut
-----------------------------------------------------------------------------
\* The campaign contract implements the escrow: donors pledge only while it is
\* open, milestones beyond those it started with are earned in order, each is paid
\* once, and each donor is settled at most once, after the close and, for a regular
\* plan, within its pledge for each time the token is listed.
\* (every state-changing entrypoint)
THEOREM Refinement == Spec => ImplementsEscrow
<1>1. Init => Promise!EscrowInit
  <2> SUFFICES ASSUME Init PROVE Promise!EscrowInit
    OBVIOUS
  <2>1. Times = [t \in Tokens |-> 0]
    <3>1. \A t \in Tokens : {i \in DOMAIN accepted_assets : accepted_assets[i].issuer = t} = {}
      BY DEF Init
    <3>2. QED
      BY <3>1, FS_EmptySet DEF Times, Entries
  <2>2. Regular \in BOOLEAN
    BY DEF Regular, RegularPlan
  <2>3. Settled = {} /\ Earned = {} /\ PaidOut = {} /\ Phase = "unborn"
    BY DEF Init, Settled, Earned, PaidOut, Phase, NONE
  <2>4. QED
    BY <2>1, <2>2, <2>3
    DEF Init, Promise!EscrowInit, Settled, Earned, PaidOut, Times, Regular
<1>2. Inv /\ DonorsPledged /\ [Next]_vars => [Promise!EscrowNext]_(Promise!escrowVars)
  <2> SUFFICES ASSUME Inv, DonorsPledged, [Next]_vars
               PROVE  Promise!EscrowNext \/ UNCHANGED promiseVars
    BY DEF Promise!escrowVars, Promise!terms, promiseVars, Settled, Earned, PaidOut, Times, Regular
  <2> USE DEF Promise!EscrowNext
  <2>1. CASE \E plan \in Plans, list \in AssetLists, end \in EndTimes, min \in MinDonations :
                Initialize(plan, list, end, min)
    BY <2>1, InitializeLaunches
  <2>2. CASE \E d \in Donors, amount \in Amounts, asset \in AssetInfo :
                Donate(d, amount, asset)
    BY <2>2, DonatePledges
  <2>3. CASE \E d \in Donors : ClaimRefund(d)
    BY <2>3, ClaimSettles
  <2>4. CASE \E i \in 1..MaxMilestones, r \in Recipients : ReleaseMilestone(i, r)
    BY <2>4, ReleasePays DEF ReleaseMilestone, Releasable, lifeVars, donorVars
  <2>5. CASE \E i \in 1..MaxMilestones : ReleaseMilestoneMultiAsset(i)
    BY <2>5, ReleasePays DEF ReleaseMilestoneMultiAsset, lifeVars, donorVars
  <2>6. CASE EndCampaign \/ CancelCampaign
    BY <2>6, ConcludeCloses DEF EndCampaign, CancelCampaign, Terminal
  <2>7. CASE \/ \E end \in EndTimes : ExtendDeadline(end)
             \/ Freeze \/ Unfreeze
             \/ \E t \in Tokens : BlockAsset(t) \/ UnblockAsset(t)
             \/ \E t \in Tokens, amount \in Deposits : Deposit(t, amount)
             \/ CloseLedger
             \/ UNCHANGED vars
    BY <2>7, OthersStutter
  <2>8. QED
    BY <2>1, <2>2, <2>3, <2>4, <2>5, <2>6, <2>7 DEF Next
<1>3. QED
  BY <1>1, <1>2, Invariant, Pledged, PTL DEF Spec, ImplementsEscrow, Promise!EscrowSpec
=============================================================================
