--------------------------- MODULE CampaignProofs ---------------------------
(***************************************************************************)
(* Theorems about the campaign contract, for every set of donors, tokens,  *)
(* plans and bounds that satisfies the assumptions of Campaign.            *)
(***************************************************************************)
EXTENDS CampaignProperties, SequenceTheorems, SumLemmas, TLAPS

(* Arithmetic used by refunds and releases *)

LEMMA ProductMonotone ==
  ASSUME NEW a \in Nat, NEW b \in Int, NEW c \in Int, b <= c
  PROVE  a * b <= a * c
  OBVIOUS

LEMMA FactorCancels ==
  ASSUME NEW a \in Nat, NEW b \in Int, NEW c \in Int, a > 0, a * b <= a * c
  PROVE  b <= c
<1>1. SUFFICES ASSUME b >= c + 1 PROVE FALSE
  OBVIOUS
<1>2. a * (c + 1) <= a * b
  BY <1>1, ProductMonotone
<1>3. a * (c + 1) = a * c + a /\ a * c \in Int /\ a * b \in Int
  OBVIOUS
<1>4. QED
  BY <1>2, <1>3

LEMMA ShareIsNatural ==
  ASSUME NEW a \in Nat, NEW b \in Nat, NEW c \in Nat, c > 0
  PROVE  (a * b) \div c \in Nat
<1>1. a * b \in Nat
  OBVIOUS
<1>2. \A p \in Nat : p \div c \in Nat
  OBVIOUS
<1>3. QED
  BY <1>1, <1>2

LEMMA ShareIsBounded ==
  ASSUME NEW a \in Nat, NEW b \in Int, NEW c \in Nat, c > 0, b <= c
  PROVE  (a * b) \div c <= a
<1>1. a * b <= a * c
  BY ProductMonotone
<1> DEFINE q == (a * b) \div c
<1>2. /\ q \in Int /\ a * b \in Int /\ c * q <= a * b
  OBVIOUS
<1>3. SUFFICES ASSUME q >= a + 1 PROVE FALSE
  BY <1>2
<1>4. c * (a + 1) <= c * q
  BY <1>2, <1>3, ProductMonotone
<1>5. c * (a + 1) = a * c + c
  OBVIOUS
<1>6. QED
  BY <1>1, <1>2, <1>4, <1>5

\* A set of numbers up to a bound has a smallest one, unless it is empty.
LEMMA SmallestIndex ==
  ASSUME NEW m \in Nat, NEW B \in SUBSET (0..m), B # {}
  PROVE  \E x \in B : \A y \in B : x <= y
<1> DEFINE Good == {U \in SUBSET (0..m) : U # {} => \E x \in U : \A y \in U : x <= y}
<1>1. IsFiniteSet(0..m)
  BY FS_Interval
<1>2. ASSUME NEW T \in SUBSET (0..m), \A U \in (SUBSET T) \ {T} : U \in Good
      PROVE  T \in Good
  <2> SUFFICES ASSUME NEW z \in T PROVE \E x \in T : \A y \in T : x <= y
    OBVIOUS
  <2>1. T \ {z} \in Good
    BY <1>2
  <2>2. \A x \in T : x \in Int
    OBVIOUS
  <2>3. CASE T = {z}
    BY <2>2, <2>3
  <2>4. CASE T # {z}
    <3>1. PICK x \in T \ {z} : \A y \in T \ {z} : x <= y
      BY <2>1, <2>4
    <3>2. CASE x <= z
      BY <3>1, <3>2
    <3>3. CASE z <= x
      <4>1. \A y \in T : z <= y
        BY <2>2, <3>1, <3>3
      <4>2. QED
        BY <4>1
    <3>4. QED
      BY <2>2, <3>1, <3>2, <3>3
  <2>5. QED
    BY <2>3, <2>4
<1> HIDE DEF Good
<1>3. \A T \in SUBSET (0..m) : T \in Good
  BY <1>1, <1>2, SubsetInduction
<1>4. QED
  BY <1>3 DEF Good

\* An entry of a list takes no more than the share the whole amount would have.
LEMMA ShareOfWhole ==
  ASSUME NEW T \in Nat, T > 0, NEW p \in Int, NEW a \in Nat, NEW l \in 0..a
  PROVE  /\ ComputeAssetRelease(l, p, T) \in Nat
         /\ T * ComputeAssetRelease(l, p, T) <= IF p > 0 THEN p * a ELSE 0
<1> DEFINE c == ComputeAssetRelease(l, p, T)
<1>1. l \in Nat /\ l <= a
  OBVIOUS
<1>2. CASE p <= 0
  <2>1. c = 0
    BY <1>2 DEF ComputeAssetRelease
  <2>2. QED
    BY <1>2, <2>1
<1>3. CASE p > 0
  <2>1. p \in Nat /\ p * a \in Nat /\ p * l <= p * a /\ l * p = p * l /\ l * p \in Nat
    BY <1>1, <1>3, ProductMonotone
  <2>2. c = 0 \/ c = (l * p) \div T
    BY DEF ComputeAssetRelease
  <2> DEFINE x == l * p
             q == x \div T
  <2>3. x \in Nat
    BY <2>1
  <2> HIDE DEF x
  <2>4. q \in Nat /\ T * q <= x
    BY <2>3
  <2> HIDE DEF q, c
  <2>5. T * c <= p * a /\ c \in Nat
    BY <2>1, <2>2, <2>4 DEF x, q
  <2>6. QED
    BY <1>3, <2>5 DEF c
<1>4. QED
  BY <1>2, <1>3

\* What the entries of a token take after each other is at most that share once
\* per entry.
LEMMA ShareOfEntries ==
  ASSUME NEW T \in Nat, T > 0, NEW p \in Int, NEW a \in Nat, NEW m \in Nat,
         NEW left \in [0..m -> 0..a], left[0] = a,
         \A k \in 1..m : left[k] = left[k - 1] - ComputeAssetRelease(left[k - 1], p, T)
  PROVE  T * (a - left[m]) <= m * (IF p > 0 THEN p * a ELSE 0)
<1> DEFINE c == IF p > 0 THEN p * a ELSE 0
           Holds(k) == T * (a - left[k]) <= k * c
           Bad == {k \in 0..m : ~Holds(k)}
<1>1. c \in Nat
  OBVIOUS
<1>2. \A k \in 0..m : left[k] \in Nat /\ left[k] \in 0..a
  OBVIOUS
<1>3. SUFFICES ASSUME Bad # {} PROVE FALSE
  <2>1. m \in 0..m
    OBVIOUS
  <2> HIDE DEF c
  <2>2. QED
    BY <1>3, <2>1 DEF c
<1>4. PICK k \in Bad : \A j \in Bad : k <= j
  <2>1. Bad \in SUBSET (0..m)
    OBVIOUS
  <2> HIDE DEF Bad
  <2>2. QED
    BY <1>3, <2>1, SmallestIndex
<1>5. k # 0
  <2>1. T * (a - left[0]) = 0 /\ 0 * c = 0
    BY <1>1
  <2>2. Holds(0)
    BY <2>1
  <2>3. QED
    BY <1>4, <2>2
<1>6. k \in 1..m /\ k - 1 \in 0..m
  BY <1>4, <1>5
<1>7. T * (a - left[k - 1]) <= (k - 1) * c
  <2>1. k - 1 \notin Bad
    BY <1>4, <1>6
  <2>2. QED
    BY <1>6, <2>1
<1> DEFINE l == left[k - 1]
           share == ComputeAssetRelease(l, p, T)
<1>8. share \in Nat /\ T * share <= c
  BY <1>2, <1>6, ShareOfWhole
<1>9. left[k] = l - share /\ l \in Nat /\ left[k] \in Nat
  BY <1>2, <1>6
<1>10. T * (a - left[k]) <= k * c
  <2> DEFINE rest == a - l
             before == k - 1
  <2> HIDE DEF c, share
  <2>1. /\ a - left[k] = rest + share /\ rest \in Int /\ share \in Int
        /\ k = before + 1 /\ before \in Int /\ c \in Int
    <3>1. share \in Int /\ c \in Int
      BY <1>1, <1>8
    <3>2. a - left[k] = rest + share /\ rest \in Int
      <4>1. left[k] = l - share /\ l \in Int
        BY <1>9
      <4> HIDE DEF l
      <4>2. QED
        BY <3>1, <4>1
    <3>3. k = before + 1 /\ before \in Int
      BY <1>6
    <3> HIDE DEF rest, before
    <3>4. QED
      BY <3>1, <3>2, <3>3
  <2>2. T * rest <= before * c
    BY <1>7
  <2> HIDE DEF rest, before
  <2>3. T * (rest + share) = T * rest + T * share /\ T * rest \in Int /\ T * share \in Int
    BY <2>1
  <2>4. (before + 1) * c = before * c + c /\ before * c \in Int
    BY <2>1
  <2>5. QED
    BY <1>8, <2>1, <2>2, <2>3, <2>4
<1>11. QED
  BY <1>4, <1>10
-----------------------------------------------------------------------------
(* The inductive invariant *)

\* A campaign exists exactly when it has milestones, one to five of them; the
\* last target is the goal.  Before that nothing is raised, and nothing frozen:
\* freeze needs a campaign.
Shape ==
  /\ status = NONE <=> DOMAIN target = {}
  /\ status = NONE => raised_amount = 0 /\ ~frozen
  /\ status # NONE =>
      /\ goal_amount > 0
      /\ \E n \in 1..MaxMilestones : DOMAIN target = 1..n /\ target[n] = goal_amount

Ascending == \A i, j \in DOMAIN target : i < j => target[i] < target[j]

\* Nothing a donor or a token is credited with exceeds the raised amount.
Bounded ==
  /\ total_raised <= raised_amount
  /\ \A t \in Tokens : asset_raised[t] <= raised_amount
  /\ \A d \in Donors : total_donated[d] <= raised_amount
  /\ \A d \in Donors, t \in Tokens : donated[d][t] <= raised_amount
  /\ \A d \in donors : raised_amount > 0

\* The plan the campaign was given stays behind its milestones: targets never
\* change, and one passed in as released stays so.
PlanKept ==
  \A i \in DOMAIN target :
      /\ target[i] = given[i].target
      /\ given[i].status = "Released" => mstatus[i] = "Released"

Inv ==
  /\ TypeOK
  /\ Shape
  /\ Ascending
  /\ PlanKept
  /\ Bounded
  /\ MilestoneGate
  /\ StatusTracksGoal
  /\ RefundWithinContribution
  /\ SequentialRelease
-----------------------------------------------------------------------------
(* The initial state and the actions that leave the books alone *)

LEMMA InitInv == Init => Inv
<1> SUFFICES ASSUME Init PROVE Inv
  OBVIOUS
<1> USE BoundsAssumption DEF Init, NONE, Open, Terminal
<1>1. TypeOK
  <2>1. DOMAIN target = 1..0 /\ DOMAIN target \in {1..n : n \in 0..MaxMilestones}
    BY DEF MaxMilestones
  <2>2. /\ target \in [DOMAIN target -> I128]
        /\ released \in [DOMAIN target -> I128]
        /\ mstatus \in [DOMAIN target -> MilestoneStatus]
        /\ released_to \in [DOMAIN target -> {NONE} \cup Recipients]
    BY <2>1
  <2>3. /\ donors \subseteq Donors
        /\ total_donated \in [Donors -> Amount]
        /\ donated \in [Donors -> [Tokens -> Amount]]
        /\ refund_claimed \in [Donors -> BOOLEAN]
        /\ refunded \in [Donors -> [Tokens -> Nat]]
        /\ total_raised \in Amount /\ asset_raised \in [Tokens -> Amount]
        /\ balance \in [Tokens -> Nat]
    BY DEF Amount
  <2>4. /\ accepted_assets \in {<<>>} \cup AssetLists
        /\ given \in {<<>>} \cup Plans /\ DOMAIN given = DOMAIN target
        /\ concluded_at \in {NoLedger} \cup 0..MaxTime
        /\ frozen \in BOOLEAN /\ blocked \subseteq Tokens
    OBVIOUS
  <2>5. /\ status \in {NONE} \cup CampaignStatus
        /\ goal_amount \in Amount /\ raised_amount \in Amount
        /\ end_time \in 0..MaxU64 /\ now \in 0..MaxTime
        /\ min_donation_amount \in Int
        /\ donation_count \in Nat /\ donor_count \in Nat /\ release_count \in Nat
    BY DEF Amount
  <2> HIDE DEF Init
  <2>6. QED
    BY <2>1, <2>2, <2>3, <2>4, <2>5 DEF TypeOK
<1>2. Shape /\ Ascending /\ PlanKept /\ Bounded /\ MilestoneGate
  BY DEF Shape, Ascending, PlanKept, Bounded, MilestoneGate
<1>3. StatusTracksGoal /\ SequentialRelease
  BY DEF StatusTracksGoal, SequentialRelease
<1>4. RefundWithinContribution
  <2>1. \A t \in Tokens : Entries(t) = 0
    <3>1. \A t \in Tokens : {i \in DOMAIN accepted_assets : accepted_assets[i].issuer = t} = {}
      OBVIOUS
    <3>2. QED
      BY <3>1, FS_EmptySet DEF Entries
  <2>2. QED
    BY <2>1 DEF RefundWithinContribution
<1>5. QED
  BY <1>1, <1>2, <1>3, <1>4 DEF Inv

ledgerVars == <<goal_amount, raised_amount, accepted_assets, min_donation_amount, given,
                milestoneVars, donorVars, counterVars, refunded>>

\* An integer in range is an integer.
LEMMA I128IsInt == I128 \subseteq Int
  BY BoundsAssumption DEF I128, IntegersUpTo

\* What the invariant says of a single milestone.
LEMMA MilestoneFacts ==
  ASSUME Inv, NEW i \in DOMAIN target
  PROVE  /\ i \in Nat /\ target[i] \in Int /\ i \in 1..i
         /\ 1..i \subseteq DOMAIN target
         /\ \A j \in 1..i : target[j] \in Int /\ target[j] <= target[i]
         /\ status # NONE /\ goal_amount \in Nat /\ target[i] <= goal_amount
<1>1. PICK n \in 0..MaxMilestones : DOMAIN target = 1..n
  BY DEF Inv, TypeOK
<1>2. n \in Nat /\ i \in 1..n
  BY <1>1 DEF MaxMilestones
<1>3. \A j \in 1..n : target[j] \in Int
  BY <1>1, I128IsInt DEF Inv, TypeOK
<1>4. \A j, k \in 1..n : j < k => target[j] < target[k]
  BY <1>1 DEF Inv, Ascending
<1>5. status # NONE
  BY <1>1, <1>2 DEF Inv, Shape
<1>6. goal_amount \in Nat /\ \E m \in 1..n : m = n /\ target[m] = goal_amount
  <2>1. PICK m \in 1..MaxMilestones : DOMAIN target = 1..m /\ target[m] = goal_amount
    BY <1>5 DEF Inv, Shape
  <2>2. m = n
    BY <1>1, <1>2, <2>1 DEF MaxMilestones
  <2>3. QED
    BY <1>2, <2>1, <2>2 DEF Inv, TypeOK, Amount
<1>7. i \in 1..i /\ 1..i \subseteq 1..n
  BY <1>2
<1>8. \A j \in 1..i : target[j] \in Int /\ target[j] <= target[i]
  BY <1>2, <1>3, <1>4, <1>7
<1>9. target[i] <= goal_amount
  BY <1>2, <1>3, <1>4, <1>6
<1>10. QED
  BY <1>1, <1>2, <1>3, <1>5, <1>6, <1>7, <1>8, <1>9

\* A list names a token finitely often.
LEMMA ListedFinitelyOften ==
  ASSUME NEW list \in {<<>>} \cup AssetLists, NEW t
  PROVE  Cardinality({i \in DOMAIN list : list[i].issuer = t}) \in Nat
<1>1. list \in Seq(StellarAsset)
  <2>1. CASE list = <<>>
    BY <2>1
  <2>2. CASE list \in AssetLists
    BY <2>2, ArgumentsAssumption
  <2>3. QED
    BY <2>1, <2>2
<1>2. DOMAIN list = 1..Len(list) /\ Len(list) \in Nat
  BY <1>1
<1>3. IsFiniteSet(DOMAIN list)
  BY <1>2, FS_Interval
<1>4. QED
  BY <1>3, FS_Subset, FS_CardinalityType

LEMMA EntriesAreNatural ==
  ASSUME TypeOK, NEW t
  PROVE  Entries(t) \in Nat
  BY ListedFinitelyOften DEF TypeOK, Entries

\* The types of the books, as numbers.
LEMMA LedgerTypes ==
  ASSUME Inv
  PROVE  /\ goal_amount \in Nat /\ raised_amount \in Amount /\ raised_amount \in Nat
         /\ total_raised \in Nat /\ asset_raised \in [Tokens -> Nat]
         /\ donors \subseteq Donors /\ total_donated \in [Donors -> Nat]
         /\ donated \in [Donors -> [Tokens -> Amount]] /\ donated \in [Donors -> [Tokens -> Nat]]
         /\ refunded \in [Donors -> [Tokens -> Nat]]
         /\ refund_claimed \in [Donors -> BOOLEAN] /\ balance \in [Tokens -> Nat]
<1>1. TypeOK
  BY DEF Inv
<1>2. Amount \subseteq Nat
  BY BoundsAssumption DEF Amount
<1>3. /\ goal_amount \in Amount /\ raised_amount \in Amount /\ total_raised \in Amount
      /\ asset_raised \in [Tokens -> Amount] /\ total_donated \in [Donors -> Amount]
      /\ donated \in [Donors -> [Tokens -> Amount]] /\ refunded \in [Donors -> [Tokens -> Nat]]
      /\ donors \subseteq Donors /\ refund_claimed \in [Donors -> BOOLEAN]
      /\ balance \in [Tokens -> Nat]
  BY <1>1, Zenon DEF TypeOK
<1>4. /\ [Tokens -> Amount] \subseteq [Tokens -> Nat]
      /\ [Donors -> Amount] \subseteq [Donors -> Nat]
  BY <1>2
<1>5. [Donors -> [Tokens -> Amount]] \subseteq [Donors -> [Tokens -> Nat]]
  BY <1>4
<1>6. QED
  BY <1>2, <1>3, <1>4, <1>5, Zenon

\* Steps that touch only the status, the clock, the switches and the balances.
LEMMA SwitchInv ==
  ASSUME Inv, UNCHANGED ledgerVars,
         status' \in {NONE} \cup CampaignStatus,
         status = status' \/ (status # NONE /\ status' \in Terminal),
         end_time' \in 0..MaxU64, now' \in 0..MaxTime,
         concluded_at' \in {NoLedger} \cup 0..MaxTime,
         concluded_at' # NoLedger <=> status' \in Terminal,
         balance' \in [Tokens -> Nat], frozen' \in BOOLEAN, blocked' \subseteq Tokens,
         frozen' => frozen \/ status # NONE
  PROVE  Inv'
<1> USE DEF ledgerVars, milestoneVars, donorVars, counterVars
<1>1. TypeOK'
  BY DEF Inv, TypeOK, Amount
<1>2. Shape'
  BY DEF Inv, Shape, NONE, Terminal
<1>3. Ascending' /\ PlanKept' /\ Bounded' /\ MilestoneGate' /\ SequentialRelease'
  BY DEF Inv, Ascending, PlanKept, Bounded, MilestoneGate, ReleasedHere, SequentialRelease
<1>4. StatusTracksGoal'
  BY DEF Inv, StatusTracksGoal, Terminal
<1>5. RefundWithinContribution'
  <2>1. \A t \in Tokens : Entries(t)' = Entries(t)
    BY DEF Entries
  <2>2. QED
    BY <2>1 DEF Inv, RefundWithinContribution, Terminal, NONE
<1>6. QED
  BY <1>1, <1>2, <1>3, <1>4, <1>5 DEF Inv
-----------------------------------------------------------------------------
(* initialize *)

\* Consecutive comparisons order the whole list: it has at most five entries.
LEMMA ConsecutiveIsAscending ==
  ASSUME NEW n \in 1..5, NEW f \in [1..n -> Int], \A i \in 1..(n - 1) : f[i] < f[i + 1]
  PROVE  \A i, j \in 1..n : i < j => f[i] < f[j]
<1>1. /\ 2 <= n => f[1] < f[2]
      /\ 3 <= n => f[2] < f[3]
      /\ 4 <= n => f[3] < f[4]
      /\ 5 <= n => f[4] < f[5]
  OBVIOUS
<1>2. TAKE i, j \in 1..n
<1>3. HAVE i < j
<1>4. CASE j = 2
  BY <1>1, <1>3, <1>4
<1>5. CASE j = 3
  BY <1>1, <1>3, <1>5
<1>6. CASE j = 4
  BY <1>1, <1>3, <1>6
<1>7. CASE j = 5
  BY <1>1, <1>3, <1>7
<1>8. QED
  BY <1>3, <1>4, <1>5, <1>6, <1>7

\* A plan that initialize accepts is one to five milestones, which it copies.
LEMMA PlanMilestones ==
  ASSUME NEW plan \in Plans, NEW list \in AssetLists, NEW end \in EndTimes,
         NEW min \in MinDonations, Initialize(plan, list, end, min)
  PROVE  /\ Len(plan) \in 1..5 /\ DOMAIN plan = 1..Len(plan) /\ given' = plan
         /\ \A i \in 1..Len(plan) : plan[i] \in MilestoneData
         /\ target' = [i \in 1..Len(plan) |-> plan[i].target]
         /\ released' = [i \in 1..Len(plan) |-> plan[i].released]
         /\ mstatus' = [i \in 1..Len(plan) |-> plan[i].status]
         /\ released_to' = [i \in 1..Len(plan) |-> plan[i].released_to]
         /\ goal_amount' = target'[Len(plan)]
         /\ goal_amount' \in Amount /\ goal_amount' > 0
<1>1. Len(plan) \in 1..5 /\ plan[Len(plan)].target > 0
  BY DEF Initialize, MaxMilestones
<1>2. plan \in Seq(MilestoneData)
  BY ArgumentsAssumption
<1>3. DOMAIN plan = 1..Len(plan) /\ \A i \in 1..Len(plan) : plan[i] \in MilestoneData
  BY <1>2, ElementOfSeq
<1>4. plan[Len(plan)].target \in Amount
  <2>1. plan[Len(plan)] \in MilestoneData
    BY <1>1, <1>3
  <2>2. plan[Len(plan)].target \in I128
    BY <2>1 DEF MilestoneData
  <2>3. QED
    BY <1>1, <2>2, BoundsAssumption DEF I128, IntegersUpTo, Amount
<1>5. QED
  BY <1>1, <1>3, <1>4 DEF Initialize

LEMMA InitializeInv ==
  ASSUME Inv, NEW plan \in Plans, NEW list \in AssetLists, NEW end \in EndTimes,
         NEW min \in MinDonations, Initialize(plan, list, end, min)
  PROVE  Inv'
<1> DEFINE n == Len(plan)
<1> USE BoundsAssumption
<1>1. n \in 1..5 /\ DOMAIN plan = 1..n /\ given' = plan
  BY PlanMilestones
<1>2. \A i \in 1..n : /\ plan[i].target \in I128 /\ plan[i].released \in I128
                     /\ plan[i].status \in MilestoneStatus
                     /\ plan[i].released_to \in {NONE} \cup Recipients
  BY PlanMilestones DEF MilestoneData
<1>3. /\ target' = [i \in 1..n |-> plan[i].target]
      /\ released' = [i \in 1..n |-> plan[i].released]
      /\ mstatus' = [i \in 1..n |-> plan[i].status]
      /\ released_to' = [i \in 1..n |-> plan[i].released_to]
      /\ goal_amount' = target'[n] /\ goal_amount' \in Amount /\ goal_amount' > 0
  BY PlanMilestones
<1>4. status = NONE /\ status' = "Active" /\ raised_amount = 0 /\ raised_amount' = 0
  BY DEF Initialize, Inv, Shape
<1>5. UNCHANGED <<concluded_at, donorVars, counterVars, flagVars, envVars>>
  BY DEF Initialize
<1> HIDE DEF n
<1>6. TypeOK'
  <2>1. DOMAIN target' \in {1..k : k \in 0..MaxMilestones}
    <3>1. n \in 0..MaxMilestones
      BY <1>1 DEF MaxMilestones
    <3>2. QED
      BY <1>3, <3>1
  <2>2. /\ target' \in [DOMAIN target' -> I128]
        /\ released' \in [DOMAIN target' -> I128]
        /\ mstatus' \in [DOMAIN target' -> MilestoneStatus]
        /\ released_to' \in [DOMAIN target' -> {NONE} \cup Recipients]
    BY <1>2, <1>3
  <2>3. /\ status' \in {NONE} \cup CampaignStatus
        /\ raised_amount' \in Amount /\ end_time' \in 0..MaxU64
        /\ min_donation_amount' \in Int /\ accepted_assets' \in {<<>>} \cup AssetLists
    BY <1>4 DEF Initialize, CampaignStatus, Amount
  <2>4. given' \in {<<>>} \cup Plans /\ DOMAIN given' = DOMAIN target'
    BY <1>1, <1>3
  <2>5. QED
    BY <1>3, <1>5, <2>1, <2>2, <2>3, <2>4
    DEF Inv, TypeOK, Amount, donorVars, counterVars, flagVars, envVars
<1>7. Shape'
  <2>1. status' # NONE
    BY <1>4 DEF NONE
  <2>2. DOMAIN target' = 1..n /\ 1 \in DOMAIN target'
    BY <1>1, <1>3
  <2>3. QED
    BY <1>1, <1>3, <2>1, <2>2 DEF Shape, MaxMilestones
<1>8. Ascending'
  <2>1. \A i \in 1..(n - 1) : target'[i] < target'[i + 1]
    <3>1. \A i \in 1..(n - 1) : plan[i].target < plan[i + 1].target
      BY DEF Initialize, ValidateMilestones, n
    <3>2. \A i \in 1..(n - 1) : i \in 1..n /\ i + 1 \in 1..n
      BY <1>1
    <3>3. QED
      BY <1>3, <3>1, <3>2
  <2>2. target' \in [1..n -> Int]
    BY <1>2, <1>3, I128IsInt
  <2>3. \A i, j \in 1..n : i < j => target'[i] < target'[j]
    BY <1>1, <2>1, <2>2, ConsecutiveIsAscending
  <2>4. QED
    BY <1>3, <2>3 DEF Ascending
<1>9. Bounded'
  BY <1>4, <1>5 DEF Inv, Bounded, donorVars, counterVars
<1>10. PlanKept' /\ MilestoneGate' /\ SequentialRelease'
  <2>1. ASSUME NEW i \in 1..n
        PROVE  /\ target'[i] = given'[i].target /\ released'[i] = given'[i].released
               /\ mstatus'[i] = given'[i].status /\ released_to'[i] = given'[i].released_to
    BY <1>1, <1>3, <2>1
  <2>2. ReleasedHere' = {}
    BY <1>3, <2>1 DEF ReleasedHere
  <2>3. DOMAIN target' = 1..n
    BY <1>3
  <2>4. QED
    BY <1>4, <2>1, <2>2, <2>3 DEF PlanKept, MilestoneGate, SequentialRelease
<1>11. StatusTracksGoal'
  BY <1>3, <1>4, <1>5 DEF Inv, StatusTracksGoal, Terminal, NONE, Amount
<1>12. RefundWithinContribution'
  <2>1. \A d \in Donors : ~refund_claimed[d] /\ \A t \in Tokens : refunded[d][t] = 0
    BY <1>4 DEF Inv, RefundWithinContribution, Terminal, NONE
  <2>2. UNCHANGED <<refund_claimed, refunded, donated>>
    BY <1>5 DEF donorVars, envVars
  <2>3. ASSUME NEW d \in Donors, NEW t \in Tokens PROVE 0 <= Entries(t)' * donated[d][t]
    <3>1. accepted_assets' \in AssetLists
      BY DEF Initialize
    <3>2. Entries(t)' \in Nat
      BY <3>1, ListedFinitelyOften DEF Entries
    <3>3. donated[d][t] \in Nat
      BY LedgerTypes
    <3>4. QED
      BY <3>2, <3>3
  <2>4. QED
    BY <2>1, <2>2, <2>3 DEF RefundWithinContribution
<1>13. QED
  BY <1>6, <1>7, <1>8, <1>9, <1>10, <1>11, <1>12 DEF Inv
-----------------------------------------------------------------------------
(* donate *)

LEMMA IssuersAreTokens ==
  ASSUME TypeOK
  PROVE  Issuers \subseteq Tokens
<1> SUFFICES ASSUME NEW i \in DOMAIN accepted_assets, accepted_assets[i].issuer # NoIssuer
             PROVE  accepted_assets[i].issuer \in Tokens
  BY DEF Issuers
<1>1. accepted_assets \in {<<>>} \cup AssetLists
  BY DEF TypeOK
<1>2. accepted_assets \in Seq(StellarAsset)
  BY <1>1, ArgumentsAssumption
<1>3. i \in 1..Len(accepted_assets)
  BY <1>2
<1>4. accepted_assets[i] \in StellarAsset
  BY <1>2, <1>3, ElementOfSeq
<1>5. QED
  BY <1>4 DEF StellarAsset

LEMMA ResolvedTokens ==
  ASSUME TypeOK, NEW asset
  PROVE  TokenForAsset(asset) \subseteq Tokens
<1>1. TokenForAsset(asset) \subseteq Issuers
  BY DEF TokenForAsset, Issuers, XlmAssets
<1>2. QED
  BY <1>1, IssuersAreTokens

LEMMA DonateInv ==
  ASSUME Inv, NEW d \in Donors, NEW amount \in Amounts, NEW asset, Donate(d, amount, asset)
  PROVE  Inv'
<1> USE BoundsAssumption
<1>1. /\ amount \in Nat /\ amount > 0
      /\ raised_amount \in Nat /\ raised_amount' = raised_amount + amount
      /\ raised_amount' \in Amount
      /\ asset_raised \in [Tokens -> Nat] /\ asset_raised' \in [Tokens -> Nat]
      /\ \A t \in Tokens : asset_raised'[t] <= asset_raised[t] + amount
      /\ total_donated \in [Donors -> Nat] /\ total_donated' \in [Donors -> Nat]
      /\ \A e \in Donors : total_donated'[e] <= total_donated[e] + amount
      /\ donated \in [Donors -> [Tokens -> Nat]] /\ donated' \in [Donors -> [Tokens -> Nat]]
      /\ \A e \in Donors, t \in Tokens : /\ donated[e][t] <= donated'[e][t]
                                         /\ donated'[e][t] <= donated[e][t] + amount
  <2>1. /\ raised_amount \in Amount /\ asset_raised \in [Tokens -> Nat]
        /\ total_donated \in [Donors -> Nat] /\ donated \in [Donors -> [Tokens -> Nat]]
    BY LedgerTypes
  <2>2. amount \in Nat /\ amount > 0
    BY DEF Donate, DonationAccepted
  <2>3. raised_amount' = raised_amount + amount /\ raised_amount' \in Amount
    BY <2>1, <2>2 DEF Donate, Amount
  <2>4. PICK token \in Tokens :
          /\ asset_raised' = [asset_raised EXCEPT ![token] = @ + amount]
          /\ donated' = [donated EXCEPT ![d][token] = @ + amount]
    BY ResolvedTokens DEF Donate, IncrementAssetRaised, IncrementDonorAssetDonation, Inv
  <2>5. /\ asset_raised' \in [Tokens -> Nat]
        /\ \A t \in Tokens : asset_raised'[t] <= asset_raised[t] + amount
    BY <2>1, <2>2, <2>4
  <2>6. /\ total_donated' \in [Donors -> Nat]
        /\ \A e \in Donors : total_donated'[e] <= total_donated[e] + amount
    BY <2>1, <2>2 DEF Donate, ApplyDonation
  <2>7. /\ donated' \in [Donors -> [Tokens -> Nat]]
        /\ \A e \in Donors, t \in Tokens : donated'[e][t] =
              IF e = d /\ t = token THEN donated[e][t] + amount ELSE donated[e][t]
    BY <2>1, <2>2, <2>4
  <2>8. \A e \in Donors, t \in Tokens : /\ donated[e][t] <= donated'[e][t]
                                        /\ donated'[e][t] <= donated[e][t] + amount
    BY <2>1, <2>2, <2>7
  <2>9. QED
    BY <2>1, <2>2, <2>3, <2>5, <2>6, <2>7, <2>8 DEF Amount
<1>2. /\ status \in Open /\ status' \in Open
      /\ status' = StatusAfterDonation(raised_amount')
      /\ total_raised' = total_raised + amount
      /\ donors' = donors \cup {d}
      /\ mstatus' = UnlockMilestones(raised_amount')
      /\ UNCHANGED <<campaignVars, end_time, concluded_at, target, released, released_to,
                     refund_claimed, release_count, flagVars, envVars>>
  BY DEF Donate, ApplyDonation, DonationAccepted, StatusAfterDonation, Open
<1>3. Bounded'
  <2>1. /\ total_raised \in Nat /\ total_raised <= raised_amount
        /\ \A t \in Tokens : asset_raised[t] <= raised_amount
        /\ \A e \in Donors : total_donated[e] <= raised_amount
        /\ \A e \in Donors, t \in Tokens : donated[e][t] <= raised_amount
    BY LedgerTypes DEF Inv, Bounded
  <2>2. total_raised' <= raised_amount' /\ raised_amount' > 0
    BY <1>1, <1>2, <2>1
  <2>3. /\ \A t \in Tokens : asset_raised'[t] <= raised_amount'
        /\ \A e \in Donors : total_donated'[e] <= raised_amount'
    BY <1>1, <2>1
  <2>4. \A e \in Donors, t \in Tokens : donated'[e][t] <= raised_amount'
    <3> SUFFICES ASSUME NEW e \in Donors, NEW t \in Tokens
                 PROVE  donated'[e][t] <= raised_amount'
      OBVIOUS
    <3>1. donated[e][t] \in Nat /\ donated'[e][t] \in Nat
      BY <1>1
    <3>2. QED
      BY <1>1, <2>1, <3>1
  <2>5. QED
    BY <2>2, <2>3, <2>4 DEF Bounded
<1>4. mstatus' \in [DOMAIN target -> MilestoneStatus]
  BY <1>2 DEF Inv, TypeOK, UnlockMilestones, MilestoneStatus
<1>5. TypeOK'
  <2>1. /\ asset_raised' \in [Tokens -> Amount] /\ total_donated' \in [Donors -> Amount]
        /\ donated' \in [Donors -> [Tokens -> Amount]] /\ total_raised' \in Amount
    <3>1. MaxI128 \in Nat /\ raised_amount' \in 0..MaxI128 /\ total_raised' \in Nat
      <4>1. total_raised \in Nat
        BY DEF Inv, TypeOK, Amount
      <4>2. QED
        BY <1>1, <1>2, <4>1 DEF Amount
    <3>2. /\ total_raised' <= raised_amount'
          /\ \A t \in Tokens : asset_raised'[t] <= raised_amount'
          /\ \A e \in Donors : total_donated'[e] <= raised_amount'
          /\ \A e \in Donors, t \in Tokens : donated'[e][t] <= raised_amount'
      BY <1>3 DEF Bounded
    <3>3. /\ \A t \in Tokens : asset_raised'[t] \in 0..MaxI128
          /\ \A e \in Donors : total_donated'[e] \in 0..MaxI128
          /\ total_raised' \in 0..MaxI128
      BY <1>1, <3>1, <3>2
    <3>4. \A e \in Donors, t \in Tokens : donated'[e][t] \in 0..MaxI128
      <4> SUFFICES ASSUME NEW e \in Donors, NEW t \in Tokens
                   PROVE  donated'[e][t] \in 0..MaxI128
        OBVIOUS
      <4>1. donated'[e][t] \in Nat
        BY <1>1
      <4>2. QED
        BY <3>1, <3>2, <4>1
    <3>5. donated' \in [Donors -> [Tokens -> 0..MaxI128]]
      BY <1>1, <3>4
    <3>6. QED
      BY <1>1, <3>3, <3>5 DEF Amount
  <2>2. donation_count' \in Nat /\ donor_count' \in Nat
    <3>1. donation_count \in Nat /\ donor_count \in Nat
      BY DEF Inv, TypeOK
    <3>2. QED
      BY <3>1 DEF Donate
  <2>3. status' \in {NONE} \cup CampaignStatus /\ donors' \subseteq Donors
    BY <1>2 DEF Inv, TypeOK, Open, CampaignStatus
  <2>4. QED
    BY <1>1, <1>2, <1>4, <2>1, <2>2, <2>3
    DEF Inv, TypeOK, campaignVars, flagVars, envVars
<1>6. Shape' /\ Ascending'
  BY <1>2 DEF Inv, Shape, Ascending, Open, NONE, campaignVars
<1>7. PlanKept' /\ MilestoneGate' /\ SequentialRelease'
  <2>1. ASSUME NEW i \in DOMAIN target
        PROVE  /\ mstatus'[i] = "Locked" => raised_amount' < target[i]
               /\ mstatus'[i] # "Locked" =>
                    target[i] <= raised_amount' \/ given[i].status # "Locked"
               /\ mstatus'[i] = "Released" <=> mstatus[i] = "Released"
    <3>1. /\ i \in 1..i /\ target[i] \in Int
          /\ \A j \in 1..i : target[j] \in Int /\ target[j] <= target[i]
      BY MilestoneFacts
    <3>2. mstatus'[i] = IF mstatus[i] = "Locked" /\ \A j \in 1..i : target[j] <= raised_amount'
                        THEN "Unlocked" ELSE mstatus[i]
      BY <1>2 DEF UnlockMilestones, Inv, TypeOK
    <3>3. mstatus[i] # "Locked" => target[i] <= raised_amount \/ given[i].status # "Locked"
      BY DEF Inv, MilestoneGate
    <3>4. raised_amount' \in Nat /\ raised_amount <= raised_amount'
      BY <1>1
    <3>5. CASE mstatus[i] = "Locked" /\ \A j \in 1..i : target[j] <= raised_amount'
      BY <3>1, <3>2, <3>5
    <3>6. CASE mstatus[i] = "Locked" /\ \E j \in 1..i : ~(target[j] <= raised_amount')
      BY <3>1, <3>2, <3>4, <3>6
    <3>7. CASE mstatus[i] # "Locked"
      BY <1>1, <3>1, <3>2, <3>3, <3>4, <3>7
    <3>8. QED
      BY <3>5, <3>6, <3>7
  <2>2. UNCHANGED <<target, released, released_to, given>>
    BY <1>2 DEF campaignVars
  <2>3. ReleasedHere' = ReleasedHere
    <3>1. DOMAIN mstatus = DOMAIN target /\ DOMAIN mstatus' = DOMAIN target
      BY <1>4 DEF Inv, TypeOK
    <3>2. QED
      BY <2>1, <2>2, <3>1 DEF ReleasedHere
  <2>4. MilestoneGate'
    BY <2>1, <2>2, <2>3 DEF Inv, MilestoneGate
  <2>5. PlanKept'
    BY <2>1, <2>2 DEF Inv, PlanKept
  <2>6. SequentialRelease'
    <3> SUFFICES ASSUME NEW i \in DOMAIN target, released_to[i] # given[i].released_to
                 PROVE  mstatus'[i] = "Released" /\ (i > 1 => mstatus'[i - 1] = "Released")
      BY <2>2 DEF SequentialRelease
    <3>1. mstatus[i] = "Released" /\ (i > 1 => mstatus[i - 1] = "Released")
      BY DEF Inv, SequentialRelease
    <3>2. i > 1 => i - 1 \in DOMAIN target
      BY MilestoneFacts
    <3>3. QED
      BY <2>1, <3>1, <3>2
  <2>7. QED
    BY <2>4, <2>5, <2>6
<1>8. StatusTracksGoal'
  <2>1. concluded_at' = NoLedger /\ status' \notin Terminal
    BY <1>2 DEF Inv, StatusTracksGoal, Open, Terminal
  <2>2. goal_amount \in Nat /\ goal_amount > 0 /\ goal_amount' = goal_amount
    <3>1. goal_amount' = goal_amount /\ status # NONE
      BY <1>2 DEF campaignVars, Open, NONE
    <3>2. QED
      BY <3>1, LedgerTypes DEF Inv, Shape
  <2>3. status' = "Active" => raised_amount' < goal_amount
    <3>1. ASSUME status' = "Active" PROVE ~(raised_amount' >= goal_amount)
      BY <1>2, <3>1 DEF StatusAfterDonation, Open
    <3>2. QED
      BY <1>1, <2>2, <3>1
  <2>4. status' = "GoalReached" => goal_amount <= raised_amount'
    <3>1. CASE status = "GoalReached"
      <4>1. goal_amount <= raised_amount
        BY <3>1 DEF Inv, StatusTracksGoal
      <4>2. QED
        BY <1>1, <2>2, <4>1
    <3>2. CASE status = "Active"
      BY <1>2, <3>2 DEF StatusAfterDonation
    <3>3. QED
      BY <1>2, <3>1, <3>2 DEF Open
  <2>5. ASSUME status' = "GoalReached", NEW i \in DOMAIN mstatus'
        PROVE  mstatus'[i] # "Locked"
    <3>1. i \in DOMAIN target /\ target' = target
      BY <1>2, <1>4
    <3>2. target[i] \in Int /\ target[i] <= goal_amount
      BY <3>1, MilestoneFacts
    <3>3. mstatus'[i] = "Locked" => raised_amount' < target[i] \/ raised_amount' = 0
      BY <1>7, <3>1 DEF MilestoneGate
    <3>4. QED
      BY <1>1, <2>2, <2>4, <2>5, <3>2, <3>3
  <2>6. QED
    BY <2>1, <2>2, <2>3, <2>4, <2>5 DEF StatusTracksGoal
<1>9. RefundWithinContribution'
  <2>1. \A e \in Donors : ~refund_claimed[e] /\ \A t \in Tokens : refunded[e][t] = 0
    BY <1>2 DEF Inv, RefundWithinContribution, Open, Terminal
  <2>2. UNCHANGED <<refund_claimed, refunded>>
    BY <1>2 DEF envVars
  <2>3. \A e \in Donors, t \in Tokens : 0 <= Entries(t)' * donated'[e][t]
    <3>1. \A t \in Tokens : Entries(t)' = Entries(t) /\ Entries(t) \in Nat
      BY <1>2, EntriesAreNatural DEF Inv, Entries, campaignVars
    <3>2. \A e \in Donors, t \in Tokens : donated'[e][t] \in Nat
      BY <1>1
    <3>3. QED
      BY <3>1, <3>2
  <2>4. QED
    BY <2>1, <2>2, <2>3 DEF RefundWithinContribution
<1>10. QED
  BY <1>3, <1>5, <1>6, <1>7, <1>8, <1>9 DEF Inv
-----------------------------------------------------------------------------
(* claim_refund *)

\* What is released of a milestone of a regular plan is its target or what it was
\* given as released: either way small enough for five of them to add up.
LEMMA ReleasedAmounts ==
  ASSUME Inv, NEW k \in 1..MaxMilestones
  PROVE  /\ ReleasedAt(k) \in Int
         /\ RegularPlan(given) => 0 <= ReleasedAt(k) /\ 5 * ReleasedAt(k) <= MaxI128
<1> USE BoundsAssumption
<1>1. CASE k \notin DOMAIN released
  <2>1. ReleasedAt(k) = 0
    BY <1>1 DEF ReleasedAt
  <2>2. QED
    BY <2>1
<1>2. CASE k \in DOMAIN released
  <2>1. k \in DOMAIN target /\ ReleasedAt(k) = released[k] /\ released[k] \in Int
    BY <1>2, I128IsInt DEF Inv, TypeOK, ReleasedAt
  <2>2. ReleasedAt(k) = given[k].target \/ ReleasedAt(k) = given[k].released
    BY <2>1 DEF Inv, MilestoneGate, PlanKept
  <2>3. k \in DOMAIN given
    BY <2>1 DEF Inv, TypeOK
  <2>4. QED
    BY <2>1, <2>2, <2>3 DEF RegularPlan, MaxMilestones
<1>3. QED
  BY <1>1, <1>2

\* The sum of a regular plan's released amounts does not wrap, nor does what they
\* leave of the raised amount.
LEMMA NumeratorBounded ==
  ASSUME Inv
  PROVE  RefundNumerator \in Int /\ (RegularPlan(given) => RefundNumerator <= raised_amount)
<1> USE BoundsAssumption
<1>1. /\ TotalReleased \in Int
      /\ RegularPlan(given) => 0 <= TotalReleased /\ TotalReleased <= MaxI128
  <2>1. /\ 1 \in 1..MaxMilestones /\ 2 \in 1..MaxMilestones /\ 3 \in 1..MaxMilestones
        /\ 4 \in 1..MaxMilestones /\ 5 \in 1..MaxMilestones
    BY DEF MaxMilestones
  <2> DEFINE a == ReleasedAt(1)
             b == ReleasedAt(2)
             c == ReleasedAt(3)
             d == ReleasedAt(4)
             e == ReleasedAt(5)
             Small(x) == 0 <= x /\ 5 * x <= MaxI128
  <2>2. a \in Int /\ (RegularPlan(given) => Small(a))
    BY <2>1, ReleasedAmounts
  <2>3. b \in Int /\ (RegularPlan(given) => Small(b))
    BY <2>1, ReleasedAmounts
  <2>4. c \in Int /\ (RegularPlan(given) => Small(c))
    BY <2>1, ReleasedAmounts
  <2>5. d \in Int /\ (RegularPlan(given) => Small(d))
    BY <2>1, ReleasedAmounts
  <2>6. e \in Int /\ (RegularPlan(given) => Small(e))
    BY <2>1, ReleasedAmounts
  <2>7. TotalReleased = a + b + c + d + e
    BY DEF TotalReleased
  <2> HIDE DEF a, b, c, d, e
  <2>8. QED
    BY <2>2, <2>3, <2>4, <2>5, <2>6, <2>7
<1>2. TotalReleased \in Int
  BY <1>1
<1>3. raised_amount \in 0..MaxI128
  BY DEF Inv, TypeOK, Amount
<1> DEFINE difference == raised_amount - TotalReleased
<1>4. difference \in Int
  BY <1>2, <1>3
<1>5. /\ Wrapped(difference, MaxI128) \in IntegersUpTo(MaxI128)
      /\ difference \in IntegersUpTo(MaxI128) => Wrapped(difference, MaxI128) = difference
  BY <1>4, WrappedRange
<1>6. RegularPlan(given) => difference \in IntegersUpTo(MaxI128) /\ difference <= raised_amount
  BY <1>1, <1>3 DEF IntegersUpTo
<1>7. RefundNumerator = Wrapped(difference, MaxI128)
  BY DEF RefundNumerator
<1> HIDE DEF difference
<1>8. IntegersUpTo(MaxI128) \subseteq Int
  BY DEF IntegersUpTo
<1>9. QED
  BY <1>5, <1>6, <1>7, <1>8

\* A refund is never negative and, the plan being regular, never above what the
\* donor gave in the token: the numerator is then at most the denominator, and
\* the floor of one unit applies only to a donor who gave at least one.
LEMMA RefundBounded ==
  ASSUME Inv, NEW d \in Donors, NEW t \in Tokens
  PROVE  RefundOf(d, t) \in Nat /\ (RegularPlan(given) => RefundOf(d, t) <= donated[d][t])
<1> DEFINE gave == donated[d][t]
           product == gave * RefundNumerator
<1>1. gave \in Nat /\ raised_amount \in Nat /\ gave <= raised_amount
  BY DEF Inv, TypeOK, Bounded, Amount
<1>2. RefundNumerator \in Int /\ (RegularPlan(given) => RefundNumerator <= raised_amount)
  BY NumeratorBounded
<1>3. CASE ~(gave > 0)
  <2>1. RefundOf(d, t) = 0
    BY <1>3 DEF RefundOf
  <2> HIDE DEF gave
  <2>2. QED
    BY <1>1, <2>1 DEF gave
<1>4. CASE gave > 0
  <2>1. RefundOf(d, t) = CalculateRefund(gave, RefundNumerator, raised_amount)
    BY <1>4 DEF RefundOf
  <2>2. raised_amount > 0
    BY <1>1, <1>4
  <2> HIDE DEF gave
  <2>3. product \in Int
    BY <1>1, <1>2
  <2>4. RegularPlan(given) => product \div raised_amount <= gave
    BY <1>1, <1>2, <2>2, ShareIsBounded
  <2>5. product > 0 => product \div raised_amount \in Nat
    <3>1. \A p \in Nat : p \div raised_amount \in Nat
      BY <1>1, <2>2
    <3>2. QED
      BY <2>3, <3>1
  <2> HIDE DEF product
  <2>6. CalculateRefund(gave, RefundNumerator, raised_amount) =
          IF product <= 0 THEN 0 ELSE IF product < raised_amount THEN 1
          ELSE product \div raised_amount
    BY DEF CalculateRefund, product
  <2>7. QED
    BY <1>1, <1>4, <2>1, <2>3, <2>4, <2>5, <2>6 DEF gave
<1>5. QED
  BY <1>3, <1>4

\* All the entries of a token together.
LEMMA RefundTotalBounded ==
  ASSUME Inv, NEW d \in Donors, NEW t \in Tokens
  PROVE  /\ RefundTotal(d, t) \in Nat
         /\ RegularPlan(given) => RefundTotal(d, t) <= Entries(t) * donated[d][t]
<1> DEFINE times == Entries(t)
           each == RefundOf(d, t)
           gave == donated[d][t]
<1>1. times \in Nat /\ gave \in Nat
  BY EntriesAreNatural, LedgerTypes DEF Inv
<1>2. each \in Nat /\ (RegularPlan(given) => each <= gave)
  BY RefundBounded
<1>3. RefundTotal(d, t) = times * each
  BY DEF RefundTotal
<1> HIDE DEF times, each, gave
<1>4. times * each \in Nat /\ (RegularPlan(given) => times * each <= times * gave)
  BY <1>1, <1>2, ProductMonotone
<1>5. QED
  BY <1>3, <1>4 DEF times, gave

LEMMA ClaimRefundInv ==
  ASSUME Inv, NEW d \in Donors, ClaimRefund(d)
  PROVE  Inv'
<1> USE BoundsAssumption
<1>1. /\ d \in donors /\ status \in Terminal /\ ~refund_claimed[d]
      /\ \A t \in Tokens : balance[t] >= RefundTotal(d, t)
      /\ refund_claimed' = [refund_claimed EXCEPT ![d] = TRUE]
      /\ balance' = [t \in Tokens |-> balance[t] - RefundTotal(d, t)]
      /\ refunded' = [refunded EXCEPT ![d] = [t \in Tokens |-> @[t] + RefundTotal(d, t)]]
      /\ UNCHANGED <<campaignVars, lifeVars, milestoneVars, donors, total_donated, donated,
                     counterVars, flagVars, now>>
  BY DEF ClaimRefund, RefundEligible, Terminal
<1>2. \A t \in Tokens :
        /\ RefundTotal(d, t) \in Nat
        /\ RegularPlan(given) => RefundTotal(d, t) <= Entries(t) * donated[d][t]
  BY RefundTotalBounded
<1>3. /\ refunded \in [Donors -> [Tokens -> Nat]]
      /\ \A t \in Tokens : refunded[d][t] = 0
  BY <1>1 DEF Inv, TypeOK, RefundWithinContribution
<1>4. /\ \A t \in Tokens : refunded'[d][t] = RefundTotal(d, t)
      /\ \A e \in Donors : e # d => refunded'[e] = refunded[e]
  <2>1. refunded'[d] = [t \in Tokens |-> refunded[d][t] + RefundTotal(d, t)]
    BY <1>1, <1>3
  <2>2. QED
    BY <1>1, <1>2, <1>3, <2>1
<1>5. refunded' \in [Donors -> [Tokens -> Nat]]
  <2>1. [t \in Tokens |-> refunded[d][t] + RefundTotal(d, t)] \in [Tokens -> Nat]
    BY <1>2, <1>3
  <2>2. QED
    BY <1>1, <1>3, <2>1
<1>6. balance' \in [Tokens -> Nat]
  <2>1. balance \in [Tokens -> Nat]
    BY DEF Inv, TypeOK
  <2>2. QED
    BY <1>1, <1>2, <2>1
<1>7. refund_claimed' \in [Donors -> BOOLEAN]
  BY <1>1 DEF Inv, TypeOK
<1>8. TypeOK'
  BY <1>1, <1>5, <1>6, <1>7
  DEF Inv, TypeOK, Amount, campaignVars, lifeVars, milestoneVars, counterVars, flagVars
<1>9. Shape' /\ Ascending' /\ PlanKept' /\ MilestoneGate' /\ SequentialRelease'
  BY <1>1 DEF Inv, Shape, Ascending, PlanKept, MilestoneGate, ReleasedHere, SequentialRelease,
              campaignVars, lifeVars, milestoneVars, flagVars
<1>10. Bounded' /\ StatusTracksGoal'
  BY <1>1 DEF Inv, Bounded, StatusTracksGoal, campaignVars, lifeVars, milestoneVars, counterVars
<1>11. RefundWithinContribution'
  <2>1. ASSUME NEW e \in Donors, e # d
        PROVE  refund_claimed'[e] = refund_claimed[e] /\ refunded'[e] = refunded[e]
    BY <1>1, <1>4, <2>1 DEF Inv, TypeOK
  <2>2. refund_claimed'[d]
    BY <1>1 DEF Inv, TypeOK
  <2>3. UNCHANGED <<donors, status, donated, given>> /\ \A t \in Tokens : Entries(t)' = Entries(t)
    BY <1>1 DEF lifeVars, campaignVars, Entries
  <2>4. RegularPlan(given) => \A t \in Tokens : refunded'[d][t] <= Entries(t) * donated[d][t]
    BY <1>2, <1>4
  <2>5. ASSUME NEW e \in Donors
        PROVE  /\ RegularPlan(given) =>
                      \A t \in Tokens : refunded'[e][t] <= Entries(t) * donated[e][t]
               /\ ~refund_claimed'[e] => \A t \in Tokens : refunded'[e][t] = 0
               /\ refund_claimed'[e] => e \in donors' /\ status' \in Terminal
    <3>1. CASE e = d
      BY <1>1, <2>2, <2>3, <2>4, <3>1
    <3>2. CASE e # d
      BY <2>1, <2>3, <3>2 DEF Inv, RefundWithinContribution
    <3>3. QED
      BY <3>1, <3>2
  <2>6. QED
    BY <2>3, <2>5 DEF RefundWithinContribution
<1>12. QED
  BY <1>8, <1>9, <1>10, <1>11 DEF Inv
-----------------------------------------------------------------------------
(* release_milestone and release_milestone_multi_asset *)

\* Either release turns one unlocked milestone, which was not passed in as released,
\* into a fully released one.
LEMMA MarkReleasedKeeps ==
  ASSUME Inv, NEW i \in DOMAIN target, mstatus[i] = "Unlocked", MarkReleased(i),
         UNCHANGED <<target, raised_amount, given>>
  PROVE  /\ mstatus' \in [DOMAIN target -> MilestoneStatus]
         /\ released' \in [DOMAIN target -> I128] /\ release_count' \in Nat
         /\ mstatus'[i] = "Released"
         /\ \A j \in DOMAIN target : /\ j # i => mstatus'[j] = mstatus[j]
                                     /\ mstatus[j] # "Locked" => mstatus'[j] # "Locked"
         /\ ReleasedHere' = ReleasedHere \cup {i} /\ i \notin ReleasedHere
         /\ MilestoneGate' /\ PlanKept'
<1>1. /\ mstatus' = [mstatus EXCEPT ![i] = "Released"]
      /\ released' = [released EXCEPT ![i] = target[i]]
      /\ release_count' = release_count + 1
  BY DEF MarkReleased
<1>2. /\ mstatus \in [DOMAIN target -> MilestoneStatus]
      /\ released \in [DOMAIN target -> I128] /\ release_count \in Nat
      /\ target \in [DOMAIN target -> I128]
  BY DEF Inv, TypeOK
<1>3. given[i].status # "Released"
  BY DEF Inv, PlanKept
<1>4. ReleasedHere' = ReleasedHere \cup {i} /\ i \notin ReleasedHere
  BY <1>1, <1>2, <1>3 DEF ReleasedHere
<1>5. MilestoneGate'
  <2> SUFFICES ASSUME NEW j \in DOMAIN target
               PROVE  /\ mstatus'[j] = "Locked" => raised_amount < target[j] \/ raised_amount = 0
                      /\ mstatus'[j] # "Locked" =>
                            target[j] <= raised_amount \/ given[j].status # "Locked"
                      /\ released'[j] = IF j \in ReleasedHere' THEN target[j]
                                        ELSE given[j].released
    BY DEF MilestoneGate
  <2>1. /\ mstatus[j] = "Locked" => raised_amount < target[j] \/ raised_amount = 0
        /\ mstatus[j] # "Locked" => target[j] <= raised_amount \/ given[j].status # "Locked"
        /\ released[j] = IF j \in ReleasedHere THEN target[j] ELSE given[j].released
    BY DEF Inv, MilestoneGate
  <2>2. QED
    BY <1>1, <1>2, <1>4, <2>1
<1>6. PlanKept'
  BY <1>1, <1>2 DEF Inv, PlanKept
<1>7. QED
  BY <1>1, <1>2, <1>4, <1>5, <1>6 DEF MilestoneStatus

LEMMA PendingIsInteger ==
  ASSUME Inv, NEW i \in DOMAIN target
  PROVE  PendingRelease(i) \in Int
<1>1. target[i] \in Int /\ released[i] \in Int
  BY I128IsInt DEF Inv, TypeOK
<1>2. QED
  BY <1>1 DEF PendingRelease

LEMMA ReleaseMilestoneInv ==
  ASSUME Inv, NEW i \in 1..MaxMilestones, NEW r \in Recipients, ReleaseMilestone(i, r)
  PROVE  Inv'
<1> USE BoundsAssumption
<1>1. /\ i \in DOMAIN target /\ mstatus[i] = "Unlocked" /\ MarkReleased(i)
      /\ i > 1 => mstatus[i - 1] = "Released"
      /\ released_to' = [released_to EXCEPT ![i] = r]
      /\ UNCHANGED <<campaignVars, lifeVars, target, donorVars, total_raised, asset_raised,
                     donation_count, donor_count, flagVars, now, refunded>>
  BY DEF ReleaseMilestone, Releasable
<1>2. /\ mstatus' \in [DOMAIN target -> MilestoneStatus]
      /\ released' \in [DOMAIN target -> I128] /\ release_count' \in Nat
      /\ mstatus'[i] = "Released"
      /\ \A j \in DOMAIN target : /\ j # i => mstatus'[j] = mstatus[j]
                                  /\ mstatus[j] # "Locked" => mstatus'[j] # "Locked"
      /\ MilestoneGate' /\ PlanKept'
  <2>1. UNCHANGED <<target, raised_amount, given>>
    BY <1>1 DEF lifeVars, campaignVars
  <2>2. QED
    BY <1>1, <2>1, MarkReleasedKeeps
<1>3. balance' \in [Tokens -> Nat]
  <2>1. balance \in [Tokens -> Nat] /\ PendingRelease(i) \in Int
    BY <1>1, PendingIsInteger DEF Inv, TypeOK
  <2>2. \A t \in Tokens : PrimaryPayment(i)[t] \in Int /\ PrimaryPayment(i)[t] <= balance[t]
    BY <2>1 DEF ReleaseMilestone, PrimaryPayment
  <2>3. balance' = Paid(PrimaryPayment(i), r)
    BY DEF ReleaseMilestone
  <2>4. QED
    BY <2>1, <2>2, <2>3 DEF Paid
<1>4. released_to' \in [DOMAIN target -> {NONE} \cup Recipients]
  BY <1>1 DEF Inv, TypeOK
<1>5. TypeOK'
  BY <1>1, <1>2, <1>3, <1>4
  DEF Inv, TypeOK, Amount, campaignVars, lifeVars, donorVars, flagVars
<1>6. Shape' /\ Ascending' /\ Bounded'
  BY <1>1 DEF Inv, Shape, Ascending, Bounded, campaignVars, lifeVars, donorVars
<1>7. StatusTracksGoal'
  BY <1>1, <1>2 DEF Inv, TypeOK, StatusTracksGoal, campaignVars, lifeVars
<1>8. RefundWithinContribution'
  <2>1. \A t \in Tokens : Entries(t)' = Entries(t)
    BY <1>1 DEF campaignVars, Entries
  <2>2. QED
    BY <1>1, <2>1 DEF Inv, RefundWithinContribution, lifeVars, donorVars, campaignVars
<1>9. SequentialRelease'
  <2> SUFFICES ASSUME NEW j \in DOMAIN target, released_to'[j] # given[j].released_to
               PROVE  mstatus'[j] = "Released" /\ (j > 1 => mstatus'[j - 1] = "Released")
    BY <1>1 DEF SequentialRelease, campaignVars
  <2>1. j > 1 => j - 1 \in DOMAIN target
    BY MilestoneFacts
  <2>2. mstatus[j - 1] = "Released" /\ j > 1 => mstatus'[j - 1] = "Released"
    BY <1>1, <1>2, <2>1
  <2>3. CASE j = i
    BY <1>1, <1>2, <2>2, <2>3
  <2>4. CASE j # i
    <3>1. released_to[j] # given[j].released_to
      BY <1>1, <2>4 DEF Inv, TypeOK
    <3>2. mstatus[j] = "Released" /\ (j > 1 => mstatus[j - 1] = "Released")
      BY <3>1 DEF Inv, SequentialRelease
    <3>3. QED
      BY <1>2, <2>2, <2>4, <3>2
  <2>5. QED
    BY <2>3, <2>4
<1>10. QED
  BY <1>2, <1>5, <1>6, <1>7, <1>8, <1>9 DEF Inv

\* What a token's entries take of its raised amount is part of it.
LEMMA SharesAreNatural ==
  ASSUME Inv, NEW i, \A t \in Tokens : Remainders(t, i) # {}
  PROVE  \A t \in Tokens : AssetShares(i)[t] \in Nat /\ AssetShares(i)[t] <= asset_raised[t]
<1> SUFFICES ASSUME NEW t \in Tokens
             PROVE  AssetShares(i)[t] \in Nat /\ AssetShares(i)[t] <= asset_raised[t]
  OBVIOUS
<1> DEFINE left == CHOOSE left \in Remainders(t, i) : TRUE
<1>1. left \in Remainders(t, i)
  OBVIOUS
<1>2. left \in [0..Entries(t) -> 0..asset_raised[t]]
  BY <1>1 DEF Remainders
<1>3. Entries(t) \in 0..Entries(t)
  BY EntriesAreNatural DEF Inv
<1>4. left[Entries(t)] \in 0..asset_raised[t] /\ asset_raised[t] \in Nat
  BY <1>2, <1>3, LedgerTypes
<1>5. AssetShares(i)[t] = asset_raised[t] - left[Entries(t)]
  BY DEF AssetShares
<1> HIDE DEF left
<1>6. QED
  BY <1>4, <1>5

LEMMA MultiReleaseInv ==
  ASSUME Inv, NEW i \in 1..MaxMilestones, ReleaseMilestoneMultiAsset(i)
  PROVE  Inv'
<1> USE BoundsAssumption
<1> DEFINE share == AssetShares(i)
<1>1. /\ i \in DOMAIN target /\ mstatus[i] = "Unlocked" /\ MarkReleased(i)
      /\ \A t \in Tokens : Remainders(t, i) # {} /\ share[t] <= balance[t]
      /\ TotalShare(i) \in 0..total_raised
      /\ balance' = Paid(share, "beneficiary")
      /\ asset_raised' = [t \in Tokens |-> asset_raised[t] - share[t]]
      /\ total_raised' = total_raised - TotalShare(i)
      /\ UNCHANGED <<campaignVars, lifeVars, target, released_to, donorVars,
                     donation_count, donor_count, flagVars, now, refunded>>
  BY DEF ReleaseMilestoneMultiAsset
<1>2. /\ mstatus' \in [DOMAIN target -> MilestoneStatus]
      /\ released' \in [DOMAIN target -> I128] /\ release_count' \in Nat
      /\ mstatus'[i] = "Released"
      /\ \A j \in DOMAIN target : /\ j # i => mstatus'[j] = mstatus[j]
                                  /\ mstatus[j] # "Locked" => mstatus'[j] # "Locked"
      /\ MilestoneGate' /\ PlanKept'
  <2>1. UNCHANGED <<target, raised_amount, given>>
    BY <1>1 DEF lifeVars, campaignVars
  <2>2. QED
    BY <1>1, <2>1, MarkReleasedKeeps
<1>3. \A t \in Tokens : share[t] \in Nat /\ share[t] <= asset_raised[t]
  BY <1>1, SharesAreNatural
<1>4. /\ balance \in [Tokens -> Nat] /\ asset_raised \in [Tokens -> 0..MaxI128]
      /\ total_raised \in 0..MaxI128 /\ raised_amount \in Nat
  <2>1. /\ balance \in [Tokens -> Nat] /\ asset_raised \in [Tokens -> Amount]
        /\ total_raised \in Amount
    BY DEF Inv, TypeOK
  <2>2. QED
    BY <2>1, LedgerTypes DEF Amount
<1> HIDE DEF share
<1>5. /\ balance' \in [Tokens -> Nat]
      /\ asset_raised' \in [Tokens -> 0..MaxI128]
      /\ \A t \in Tokens : asset_raised'[t] <= asset_raised[t]
      /\ total_raised' \in 0..MaxI128 /\ total_raised' <= total_raised
  <2>1. balance' = [t \in Tokens |-> balance[t] - share[t]]
    BY <1>1 DEF Paid, Self
  <2>2. balance' \in [Tokens -> Nat]
    BY <1>1, <1>3, <1>4, <2>1
  <2>3. /\ asset_raised' \in [Tokens -> 0..MaxI128]
        /\ \A t \in Tokens : asset_raised'[t] <= asset_raised[t]
    BY <1>1, <1>3, <1>4
  <2>4. total_raised' \in 0..MaxI128 /\ total_raised' <= total_raised
    BY <1>1, <1>4
  <2>5. QED
    BY <2>2, <2>3, <2>4
<1>6. TypeOK'
  BY <1>1, <1>2, <1>5
  DEF Inv, TypeOK, Amount, campaignVars, lifeVars, donorVars, flagVars
<1>7. Shape' /\ Ascending'
  BY <1>1 DEF Inv, Shape, Ascending, campaignVars, lifeVars
<1>8. Bounded'
  <2>1. UNCHANGED <<raised_amount, donors, total_donated, donated>>
    BY <1>1 DEF lifeVars, donorVars
  <2>2. total_raised' <= raised_amount
    BY <1>4, <1>5 DEF Inv, Bounded
  <2>3. \A t \in Tokens : asset_raised'[t] <= raised_amount
    BY <1>4, <1>5 DEF Inv, Bounded
  <2>4. QED
    BY <2>1, <2>2, <2>3 DEF Inv, Bounded
<1>9. StatusTracksGoal'
  BY <1>1, <1>2 DEF Inv, TypeOK, StatusTracksGoal, campaignVars, lifeVars
<1>10. RefundWithinContribution'
  <2>1. \A t \in Tokens : Entries(t)' = Entries(t)
    BY <1>1 DEF campaignVars, Entries
  <2>2. QED
    BY <1>1, <2>1 DEF Inv, RefundWithinContribution, lifeVars, donorVars, campaignVars
<1>11. SequentialRelease'
  <2> SUFFICES ASSUME NEW j \in DOMAIN target, released_to[j] # given[j].released_to
               PROVE  mstatus'[j] = "Released" /\ (j > 1 => mstatus'[j - 1] = "Released")
    BY <1>1 DEF SequentialRelease, campaignVars
  <2>1. j > 1 => j - 1 \in DOMAIN target
    BY MilestoneFacts
  <2>2. mstatus[j] = "Released" /\ (j > 1 => mstatus[j - 1] = "Released")
    BY DEF Inv, SequentialRelease
  <2>3. QED
    BY <1>1, <1>2, <2>1, <2>2
<1>12. QED
  BY <1>2, <1>6, <1>7, <1>8, <1>9, <1>10, <1>11 DEF Inv
-----------------------------------------------------------------------------
(* Every step keeps the invariant *)

LEMMA ConcludeInv ==
  ASSUME Inv, NEW to \in Terminal, Conclude(to)
  PROVE  Inv'
<1>1. /\ status \in Open \cup {"Ended"} /\ status' = to /\ concluded_at' = now
      /\ UNCHANGED <<ledgerVars, end_time, now, balance, frozen, blocked>>
  BY DEF Conclude, CanTransition, Open, Terminal, ledgerVars, campaignVars, milestoneVars,
         donorVars, counterVars, flagVars, envVars
<1>2. now \in 0..MaxTime /\ now # NoLedger
  BY BoundsAssumption DEF Inv, TypeOK
<1>3. TypeOK
  BY DEF Inv
<1>4. /\ end_time' \in 0..MaxU64 /\ now' \in 0..MaxTime
      /\ concluded_at' \in {NoLedger} \cup 0..MaxTime
      /\ balance' \in [Tokens -> Nat] /\ frozen' \in BOOLEAN /\ blocked' \subseteq Tokens
  BY <1>1, <1>2, <1>3 DEF TypeOK
<1>5. /\ status' \in {NONE} \cup CampaignStatus /\ status # NONE
      /\ concluded_at' # NoLedger
  BY <1>1, <1>2 DEF Open, NONE, Terminal, CampaignStatus
<1>6. QED
  BY <1>1, <1>4, <1>5, SwitchInv

LEMMA OtherInv ==
  ASSUME Inv,
         \/ \E end \in EndTimes : ExtendDeadline(end)
         \/ Freeze \/ Unfreeze
         \/ \E t \in Tokens : BlockAsset(t) \/ UnblockAsset(t)
         \/ \E t \in Tokens, amount \in Deposits : Deposit(t, amount)
         \/ CloseLedger
         \/ UNCHANGED vars
  PROVE  Inv'
<1> USE BoundsAssumption
<1>1. UNCHANGED <<ledgerVars, status, concluded_at>>
  BY DEF ExtendDeadline, Freeze, Unfreeze, BlockAsset, UnblockAsset, SetFlags, Deposit,
         CloseLedger, vars, ledgerVars, campaignVars, lifeVars, milestoneVars, donorVars,
         counterVars, flagVars, envVars
<1>2. TypeOK /\ (concluded_at # NoLedger <=> status \in Terminal)
  BY DEF Inv, StatusTracksGoal
<1>3. end_time' \in 0..MaxU64
  BY <1>2 DEF ExtendDeadline, Freeze, Unfreeze, BlockAsset, UnblockAsset, SetFlags, Deposit,
              CloseLedger, vars, lifeVars, TypeOK
<1>4. now' \in 0..MaxTime
  BY <1>2 DEF ExtendDeadline, Freeze, Unfreeze, BlockAsset, UnblockAsset, SetFlags, Deposit,
              CloseLedger, vars, envVars, TypeOK
<1>5. balance' \in [Tokens -> Nat]
  <2>1. balance \in [Tokens -> Nat]
    BY LedgerTypes
  <2>2. CASE \E t \in Tokens, amount \in Deposits : Deposit(t, amount)
    <3>1. PICK t \in Tokens, amount \in Nat : balance' = [balance EXCEPT ![t] = @ + amount]
      BY <2>2 DEF Deposit
    <3>2. QED
      BY <2>1, <3>1
  <2>3. CASE UNCHANGED balance
    BY <2>1, <2>3
  <2>4. QED
    BY <2>2, <2>3 DEF ExtendDeadline, Freeze, Unfreeze, BlockAsset, UnblockAsset, SetFlags,
                      CloseLedger, vars, envVars
<1>6. frozen' \in BOOLEAN
  BY <1>2 DEF ExtendDeadline, Freeze, Unfreeze, BlockAsset, UnblockAsset, SetFlags, Deposit,
              CloseLedger, vars, flagVars, TypeOK
<1>7. blocked' \subseteq Tokens
  BY <1>2 DEF ExtendDeadline, Freeze, Unfreeze, BlockAsset, UnblockAsset, SetFlags, Deposit,
              CloseLedger, vars, flagVars, TypeOK
<1>8. /\ status' \in {NONE} \cup CampaignStatus /\ status = status'
      /\ concluded_at' \in {NoLedger} \cup 0..MaxTime
      /\ concluded_at' # NoLedger <=> status' \in Terminal
  BY <1>1, <1>2 DEF TypeOK
<1>9. frozen' => frozen \/ status # NONE
  BY DEF ExtendDeadline, Freeze, Unfreeze, BlockAsset, UnblockAsset, SetFlags, Deposit,
         CloseLedger, vars, flagVars
<1>10. QED
  BY <1>1, <1>3, <1>4, <1>5, <1>6, <1>7, <1>8, <1>9, SwitchInv

LEMMA NextInv == Inv /\ [Next]_vars => Inv'
<1> SUFFICES ASSUME Inv, [Next]_vars PROVE Inv'
  OBVIOUS
<1>1. CASE \E plan \in Plans, list \in AssetLists, end \in EndTimes, min \in MinDonations :
              Initialize(plan, list, end, min)
  BY <1>1, InitializeInv
<1>2. CASE \E d \in Donors, amount \in Amounts, asset \in AssetInfo :
              Donate(d, amount, asset)
  BY <1>2, DonateInv
<1>3. CASE \E d \in Donors : ClaimRefund(d)
  BY <1>3, ClaimRefundInv
<1>4. CASE \E i \in 1..MaxMilestones, r \in Recipients : ReleaseMilestone(i, r)
  BY <1>4, ReleaseMilestoneInv
<1>5. CASE \E i \in 1..MaxMilestones : ReleaseMilestoneMultiAsset(i)
  BY <1>5, MultiReleaseInv
<1>6. CASE EndCampaign \/ CancelCampaign
  BY <1>6, ConcludeInv DEF EndCampaign, CancelCampaign, Terminal
<1>7. CASE \/ \E end \in EndTimes : ExtendDeadline(end)
           \/ Freeze \/ Unfreeze
           \/ \E t \in Tokens : BlockAsset(t) \/ UnblockAsset(t)
           \/ \E t \in Tokens, amount \in Deposits : Deposit(t, amount)
           \/ CloseLedger
           \/ UNCHANGED vars
  BY <1>7, OtherInv
<1>8. QED
  BY <1>1, <1>2, <1>3, <1>4, <1>5, <1>6, <1>7 DEF Next

\* Inv is an inductive invariant of the campaign contract.
THEOREM Invariant == Spec => []Inv
<1>1. QED
  BY InitInv, NextInv, PTL DEF Spec
-----------------------------------------------------------------------------
(* The theorems *)

\* Every stored value keeps its type: no total leaves the range of an i128, no
\* balance or per-asset total goes negative.  (every entrypoint)
THEOREM TypeCorrectness == Spec => []TypeOK
<1>1. Inv => TypeOK
  BY DEF Inv
<1>2. QED
  BY <1>1, Invariant, PTL

\* Whatever plan initialize was given: no reached milestone stays locked once there
\* is a donation, none that was given as locked is unlocked before its target is
\* reached, and only a release changes a released amount, to the whole target.
\* (initialize, unlock_milestones_batch, both releases)
THEOREM MilestonesGated == Spec => []MilestoneGate
<1>1. Inv => MilestoneGate
  BY DEF Inv
<1>2. QED
  BY <1>1, Invariant, PTL

\* The status says whether the goal is reached, and whether it is over.
\* (donate, end_campaign, cancel_campaign)
THEOREM StatusCorrect == Spec => []StatusTracksGoal
<1>1. Inv => StatusTracksGoal
  BY DEF Inv
<1>2. QED
  BY <1>1, Invariant, PTL

\* Under a regular plan no donor is refunded more of a token than it gave, times the
\* token's entries in the list; under any plan only recorded donors of a concluded
\* campaign have claimed.  (claim_refund, calculate_refund_amount)
THEOREM RefundsBounded == Spec => []RefundWithinContribution
<1>1. Inv => RefundWithinContribution
  BY DEF Inv
<1>2. QED
  BY <1>1, Invariant, PTL

\* release_milestone leaves no gap behind the milestones it releases.
THEOREM ReleasesInSequence == Spec => []SequentialRelease
<1>1. Inv => SequentialRelease
  BY DEF Inv
<1>2. QED
  BY <1>1, Invariant, PTL

\* The memoised report is never stale: every entrypoint that changes a field
\* of the report rebuilds it.  (refresh_report_cache)
THEOREM ReportNeverStale == Spec => []ReportFresh
<1>1. Init => ReportFresh
  BY DEF Init, ReportFresh
<1>2. ReportFresh /\ [Next]_vars => ReportFresh'
  <2> SUFFICES ASSUME ReportFresh, [Next]_vars PROVE ReportFresh'
    OBVIOUS
  <2>1. CASE RefreshReportCache
    BY <2>1 DEF RefreshReportCache, ReportFresh
  <2>2. CASE UNCHANGED <<campaignVars, lifeVars, milestoneVars, counterVars, report>>
    BY <2>2 DEF ReportFresh, BuildCampaignReport, ProgressBps, campaignVars, lifeVars,
                milestoneVars, counterVars
  <2>3. RefreshReportCache \/ UNCHANGED <<campaignVars, lifeVars, milestoneVars, counterVars, report>>
    BY DEF Next, Initialize, Donate, ClaimRefund, ReleaseMilestone, ReleaseMilestoneMultiAsset,
           EndCampaign, CancelCampaign, Conclude, ExtendDeadline, Freeze, Unfreeze, BlockAsset,
           UnblockAsset, SetFlags, Deposit, CloseLedger, vars
  <2>4. QED
    BY <2>1, <2>2, <2>3
<1>3. QED
  BY <1>1, <1>2, PTL DEF Spec

\* The books of a campaign that is over stay closed.
\* (donate, extend_deadline, end_campaign, cancel_campaign)
THEOREM ClosedForGood == Spec => BooksClosed
<1>1. [Next]_vars => [ClosedStep]_vars
  <2> SUFFICES ASSUME Next, status \in Terminal PROVE ClosedStep
    BY DEF ClosedStep
  <2> USE DEF ClosedStep, givenVars, lifeVars, donorVars
  <2>1. status # NONE /\ status \notin Open
    BY DEF Terminal, Open, NONE
  <2>2. CASE EndCampaign \/ CancelCampaign
    BY <2>1, <2>2 DEF EndCampaign, CancelCampaign, Conclude, CanTransition, Open, Terminal
  <2>3. CASE \/ \E d \in Donors : ClaimRefund(d)
             \/ \E i \in 1..MaxMilestones, r \in Recipients : ReleaseMilestone(i, r)
             \/ \E i \in 1..MaxMilestones : ReleaseMilestoneMultiAsset(i)
    BY <2>3 DEF ClaimRefund, ReleaseMilestone, ReleaseMilestoneMultiAsset
  <2>4. CASE \/ Freeze \/ Unfreeze
             \/ \E t \in Tokens : BlockAsset(t) \/ UnblockAsset(t)
             \/ \E t \in Tokens, amount \in Deposits : Deposit(t, amount)
             \/ CloseLedger
    BY <2>4 DEF Freeze, Unfreeze, BlockAsset, UnblockAsset, SetFlags, Deposit, CloseLedger
  <2>5. QED
    BY <2>1, <2>2, <2>3, <2>4 DEF Next, Initialize, Donate, DonationAccepted, ExtendDeadline
<1>2. QED
  BY <1>1, PTL DEF Spec, BooksClosed

\* Milestones only move forward, and what defines the campaign never changes.
\* (unlock_milestones_batch, both releases)
THEOREM MilestonesAdvance == Spec => MilestonesOnlyAdvance
<1>1. Inv /\ [Next]_vars => [MilestoneStep]_vars
  <2> SUFFICES ASSUME Inv, Next, status # NONE PROVE MilestoneStep
    BY DEF MilestoneStep
  <2>1. /\ mstatus \in [DOMAIN target -> MilestoneStatus]
        /\ released \in [DOMAIN target -> I128]
        /\ released_to \in [DOMAIN target -> {NONE} \cup Recipients]
    BY DEF Inv, TypeOK
  <2>2. CASE \E d \in Donors, amount \in Amounts, asset \in AssetInfo :
                Donate(d, amount, asset)
    BY <2>1, <2>2 DEF Donate, UnlockMilestones, MilestoneStep
  <2>3. CASE \E i \in 1..MaxMilestones, r \in Recipients : ReleaseMilestone(i, r)
    BY <2>1, <2>3 DEF ReleaseMilestone, Releasable, MarkReleased, MilestoneStep
  <2>4. CASE \E i \in 1..MaxMilestones : ReleaseMilestoneMultiAsset(i)
    BY <2>1, <2>4 DEF ReleaseMilestoneMultiAsset, MarkReleased, MilestoneStep
  <2>5. CASE UNCHANGED <<campaignVars, milestoneVars>>
    BY <2>1, <2>5 DEF MilestoneStep, milestoneVars
  <2>6. CASE \/ \E d \in Donors : ClaimRefund(d)
             \/ EndCampaign \/ CancelCampaign
             \/ \E end \in EndTimes : ExtendDeadline(end)
             \/ Freeze \/ Unfreeze
             \/ \E t \in Tokens : BlockAsset(t) \/ UnblockAsset(t)
             \/ \E t \in Tokens, amount \in Deposits : Deposit(t, amount)
             \/ CloseLedger
    BY <2>5, <2>6 DEF ClaimRefund, EndCampaign, CancelCampaign, Conclude, ExtendDeadline,
           Freeze, Unfreeze, BlockAsset, UnblockAsset, SetFlags, Deposit, CloseLedger
  <2>7. QED
    BY <2>2, <2>3, <2>4, <2>6 DEF Next, Initialize
<1>2. QED
  BY <1>1, Invariant, PTL DEF Spec, MilestonesOnlyAdvance

\* A frozen contract takes no donation, pays no refund and is not concluded.
\* (freeze, and the checks in every guarded entrypoint)
THEOREM FreezeHolds == Spec => FreezeShields
<1>1. Inv /\ [Next]_vars => [FrozenStep]_vars
  <2> SUFFICES ASSUME Inv, Next, frozen, frozen' PROVE UNCHANGED shieldedVars
    BY DEF FrozenStep
  <2> USE DEF shieldedVars, lifeVars, milestoneVars, donorVars, counterVars, flagVars, envVars
  <2>1. status # NONE
    BY DEF Inv, Shape
  <2>2. CASE \E i \in 1..MaxMilestones : ReleaseMilestoneMultiAsset(i)
    BY <2>2 DEF ReleaseMilestoneMultiAsset
  <2>3. CASE \/ \E t \in Tokens : BlockAsset(t) \/ UnblockAsset(t)
             \/ Freeze \/ Unfreeze
             \/ \E t \in Tokens, amount \in Deposits : Deposit(t, amount)
             \/ CloseLedger
    BY <2>3 DEF Freeze, Unfreeze, BlockAsset, UnblockAsset, SetFlags, Deposit, CloseLedger
  <2>4. /\ ~ \E plan \in Plans, list \in AssetLists, end \in EndTimes, min \in MinDonations :
               Initialize(plan, list, end, min)
        /\ ~ \E d \in Donors, amount \in Amounts, asset \in AssetInfo :
               Donate(d, amount, asset)
        /\ ~ \E d \in Donors : ClaimRefund(d)
    BY <2>1 DEF Initialize, Donate, DonationAccepted, ClaimRefund
  <2>5. /\ ~ \E i \in 1..MaxMilestones, r \in Recipients : ReleaseMilestone(i, r)
        /\ ~ EndCampaign /\ ~ CancelCampaign
        /\ ~ \E end \in EndTimes : ExtendDeadline(end)
    BY DEF ReleaseMilestone, EndCampaign, CancelCampaign, Conclude, ExtendDeadline
  <2>6. QED
    BY <2>2, <2>3, <2>4, <2>5 DEF Next
<1>2. QED
  BY <1>1, Invariant, PTL DEF Spec, FreezeShields
-----------------------------------------------------------------------------
(* The books *)

\* Before the first call there is nothing to add up.
LEMMA BooksInit == Init => LedgerAgreement
<1> SUFFICES ASSUME Init PROVE LedgerAgreement
  OBVIOUS
<1> USE AddressAssumption DEF Init
<1>1. raised_amount = SumFunction(total_donated)
  BY SumWhole, SumZero
<1>2. ASSUME NEW d \in Donors PROVE total_donated[d] = SumFunction(donated[d])
  BY SumWhole, SumZero
<1>3. total_raised = SumFunction(asset_raised)
  BY SumWhole, SumZero
<1>4. ASSUME NEW t \in Tokens
      PROVE  asset_raised[t] <= SumFunction([d \in Donors |-> donated[d][t]])
  <2> DEFINE gave == [d \in Donors |-> donated[d][t]]
  <2>1. DOMAIN gave = Donors /\ \A d \in Donors : gave[d] = 0
    OBVIOUS
  <2> HIDE DEF gave
  <2>2. SumFunction(gave) = 0
    BY <2>1, SumWhole, SumZero
  <2>3. QED
    BY <2>2 DEF gave
<1>5. donors = {d \in Donors : total_donated[d] > 0} /\ donor_count = Cardinality(donors)
  BY FS_EmptySet
<1>6. release_count = Cardinality(ReleasedHere)
  <2>1. ReleasedHere = {}
    BY DEF ReleasedHere
  <2>2. QED
    BY <2>1, FS_EmptySet
<1>7. QED
  BY <1>1, <1>2, <1>3, <1>4, <1>5, <1>6 DEF LedgerAgreement

\* A donation adds its amount to one entry of each sum and to the total.
LEMMA BooksDonate ==
  ASSUME Inv, LedgerAgreement, NEW d \in Donors, NEW amount \in Amounts, NEW asset,
         Donate(d, amount, asset)
  PROVE  LedgerAgreement'
<1> USE BoundsAssumption, AddressAssumption
<1>1. amount \in Nat /\ amount > 0
  BY DEF Donate, DonationAccepted
<1>2. /\ total_donated \in [Donors -> Nat] /\ asset_raised \in [Tokens -> Nat]
      /\ donated \in [Donors -> [Tokens -> Nat]] /\ donors \subseteq Donors
  BY LedgerTypes
<1>3. PICK token \in Tokens :
        /\ asset_raised' = [asset_raised EXCEPT ![token] = @ + amount]
        /\ donated' = [donated EXCEPT ![d][token] = @ + amount]
  BY ResolvedTokens DEF Donate, IncrementAssetRaised, IncrementDonorAssetDonation, Inv
<1>4. /\ total_donated' = [total_donated EXCEPT ![d] = @ + amount]
      /\ donors' = donors \cup {d}
      /\ raised_amount' = raised_amount + amount /\ total_raised' = total_raised + amount
      /\ donor_count' = IF d \in donors THEN donor_count ELSE donor_count + 1
      /\ release_count' = release_count /\ mstatus' = UnlockMilestones(raised_amount')
      /\ given' = given
  BY DEF Donate, ApplyDonation, campaignVars
<1>5. raised_amount' = SumFunction(total_donated')
  <2>1. SumFunctionOnSet(total_donated', Donors)
          = SumFunctionOnSet(total_donated, Donors) + total_donated'[d] - total_donated[d]
    <3>1. \A e \in Donors : /\ total_donated[e] \in Int /\ total_donated'[e] \in Int
                            /\ e # d => total_donated'[e] = total_donated[e]
      BY <1>1, <1>2, <1>4
    <3>2. QED
      BY <3>1, SumChangeOne
  <2>2. total_donated'[d] = total_donated[d] + amount /\ total_donated[d] \in Int
    BY <1>2, <1>4
  <2>3. /\ SumFunction(total_donated) = SumFunctionOnSet(total_donated, Donors)
        /\ SumFunction(total_donated') = SumFunctionOnSet(total_donated', Donors)
    BY <1>2, <1>4, SumWhole
  <2>4. raised_amount = SumFunction(total_donated) /\ raised_amount \in Int
    BY DEF LedgerAgreement, Inv, TypeOK, Amount
  <2>5. QED
    BY <1>1, <1>4, <2>1, <2>2, <2>3, <2>4
<1>6. ASSUME NEW e \in Donors PROVE total_donated'[e] = SumFunction(donated'[e])
  <2>1. total_donated[e] = SumFunction(donated[e])
    BY DEF LedgerAgreement
  <2>2. CASE e # d
    BY <1>2, <1>3, <1>4, <2>1, <2>2
  <2>3. CASE e = d
    <3>1. /\ donated'[d] = [donated[d] EXCEPT ![token] = @ + amount]
          /\ donated[d] \in [Tokens -> Nat]
      BY <1>2, <1>3
    <3>2. \A t \in Tokens : /\ donated[d][t] \in Int /\ donated'[d][t] \in Int
                            /\ t # token => donated'[d][t] = donated[d][t]
      BY <1>1, <3>1
    <3>3. SumFunctionOnSet(donated'[d], Tokens)
            = SumFunctionOnSet(donated[d], Tokens) + donated'[d][token] - donated[d][token]
      BY <3>2, SumChangeOne
    <3>4. donated'[d][token] = donated[d][token] + amount
      BY <3>1
    <3>5. /\ SumFunction(donated[d]) = SumFunctionOnSet(donated[d], Tokens)
          /\ SumFunction(donated'[d]) = SumFunctionOnSet(donated'[d], Tokens)
      BY <3>1, SumWhole
    <3>6. total_donated'[d] = total_donated[d] + amount /\ total_donated[d] \in Int
      BY <1>2, <1>4
    <3>7. QED
      BY <1>1, <2>1, <2>3, <3>2, <3>3, <3>4, <3>5, <3>6
  <2>4. QED
    BY <2>2, <2>3
<1>7. total_raised' = SumFunction(asset_raised')
  <2>1. \A t \in Tokens : /\ asset_raised[t] \in Int /\ asset_raised'[t] \in Int
                          /\ t # token => asset_raised'[t] = asset_raised[t]
    BY <1>1, <1>2, <1>3
  <2>2. SumFunctionOnSet(asset_raised', Tokens)
          = SumFunctionOnSet(asset_raised, Tokens) + asset_raised'[token] - asset_raised[token]
    BY <2>1, SumChangeOne
  <2>3. /\ SumFunction(asset_raised) = SumFunctionOnSet(asset_raised, Tokens)
        /\ SumFunction(asset_raised') = SumFunctionOnSet(asset_raised', Tokens)
    BY <1>2, <1>3, SumWhole
  <2>4. asset_raised'[token] = asset_raised[token] + amount
    BY <1>2, <1>3
  <2>5. total_raised = SumFunction(asset_raised) /\ total_raised \in Int
    BY DEF LedgerAgreement, Inv, TypeOK, Amount
  <2>6. QED
    BY <1>1, <1>4, <2>1, <2>2, <2>3, <2>4, <2>5
<1>8. ASSUME NEW t \in Tokens
      PROVE  asset_raised'[t] <= SumFunction([e \in Donors |-> donated'[e][t]])
  <2> DEFINE gave == [e \in Donors |-> donated[e][t]]
             gives == [e \in Donors |-> donated'[e][t]]
  <2>1. asset_raised[t] <= SumFunction(gave) /\ asset_raised[t] \in Int
    BY <1>2 DEF LedgerAgreement
  <2>2. \A e \in Donors : /\ gave[e] \in Int /\ gives[e] \in Int
                          /\ e # d => gives[e] = gave[e]
    BY <1>1, <1>2, <1>3
  <2>3. gives[d] - gave[d] = asset_raised'[t] - asset_raised[t] /\ asset_raised'[t] \in Int
    BY <1>1, <1>2, <1>3
  <2>4. DOMAIN gave = Donors /\ DOMAIN gives = Donors
    OBVIOUS
  <2> HIDE DEF gave, gives
  <2>5. SumFunctionOnSet(gives, Donors)
          = SumFunctionOnSet(gave, Donors) + gives[d] - gave[d]
    BY <2>2, SumChangeOne
  <2>6. SumFunctionOnSet(gave, Donors) \in Int
    BY <2>2, SumInt
  <2>7. /\ SumFunction(gave) = SumFunctionOnSet(gave, Donors)
        /\ SumFunction(gives) = SumFunctionOnSet(gives, Donors)
    BY <2>4, SumWhole
  <2>8. asset_raised'[t] <= SumFunction(gives)
    BY <2>1, <2>2, <2>3, <2>5, <2>6, <2>7
  <2>9. QED
    BY <2>8 DEF gives
<1>9. donors' = {e \in Donors : total_donated'[e] > 0}
  <2>1. donors = {e \in Donors : total_donated[e] > 0}
    BY DEF LedgerAgreement
  <2>2. \A e \in Donors : e # d => total_donated'[e] = total_donated[e]
    BY <1>2, <1>4
  <2>3. total_donated'[d] > 0
    BY <1>1, <1>2, <1>4
  <2>4. QED
    BY <1>4, <2>1, <2>2, <2>3
<1>10. donor_count' = Cardinality(donors')
  <2>1. IsFiniteSet(donors)
    BY <1>2, FS_Subset
  <2>2. donor_count = Cardinality(donors)
    BY DEF LedgerAgreement
  <2>3. QED
    BY <1>4, <2>1, <2>2, FS_AddElement
<1>11. release_count' = Cardinality(ReleasedHere')
  <2>1. ReleasedHere' = ReleasedHere
    BY <1>4 DEF UnlockMilestones, ReleasedHere
  <2>2. QED
    BY <1>4, <2>1 DEF LedgerAgreement
<1>12. QED
  BY <1>5, <1>6, <1>7, <1>8, <1>9, <1>10, <1>11 DEF LedgerAgreement

\* A release of either kind is counted with the milestone it marks.
LEMMA ReleaseCounted ==
  ASSUME Inv, LedgerAgreement, NEW i \in DOMAIN target, mstatus[i] = "Unlocked",
         MarkReleased(i), UNCHANGED <<target, raised_amount, given>>
  PROVE  release_count' = Cardinality(ReleasedHere')
<1>1. ReleasedHere' = ReleasedHere \cup {i} /\ i \notin ReleasedHere
  BY MarkReleasedKeeps
<1>2. IsFiniteSet(ReleasedHere)
  <2>1. PICK n \in 0..MaxMilestones : DOMAIN mstatus = 1..n
    BY DEF Inv, TypeOK
  <2>2. IsFiniteSet(1..n)
    BY FS_Interval DEF MaxMilestones
  <2>3. ReleasedHere \subseteq 1..n
    BY <2>1 DEF ReleasedHere
  <2>4. QED
    BY <2>2, <2>3, FS_Subset
<1>3. release_count = Cardinality(ReleasedHere) /\ release_count' = release_count + 1
  BY DEF LedgerAgreement, MarkReleased
<1>4. Cardinality(ReleasedHere \cup {i}) = Cardinality(ReleasedHere) + 1
  BY <1>1, <1>2, FS_AddElement
<1>5. QED
  BY <1>1, <1>3, <1>4

\* What the shares take out of the assets' totals, TotalShare takes out of the
\* running total.
LEMMA BooksMultiRelease ==
  ASSUME Inv, LedgerAgreement, NEW i \in 1..MaxMilestones, ReleaseMilestoneMultiAsset(i)
  PROVE  LedgerAgreement'
<1> USE BoundsAssumption, AddressAssumption
<1>1. /\ i \in DOMAIN target /\ mstatus[i] = "Unlocked" /\ MarkReleased(i)
      /\ asset_raised' = [t \in Tokens |-> asset_raised[t] - AssetShares(i)[t]]
      /\ total_raised' = total_raised - TotalShare(i)
      /\ \A t \in Tokens : Remainders(t, i) # {}
      /\ UNCHANGED <<raised_amount, donors, total_donated, donated, donor_count, target, given>>
  BY DEF ReleaseMilestoneMultiAsset, lifeVars, donorVars, campaignVars
<1>2. asset_raised \in [Tokens -> Nat] /\ total_raised \in Nat
  BY DEF Inv, TypeOK, Amount
<1>3. \A t \in Tokens : AssetShares(i)[t] \in Nat
  BY <1>1, SharesAreNatural
<1>4. total_raised' = SumFunction(asset_raised')
  <2>1. \A t \in Tokens : /\ AssetShares(i)[t] \in Int /\ asset_raised'[t] \in Int
                          /\ asset_raised[t] = AssetShares(i)[t] + asset_raised'[t]
    BY <1>1, <1>2, <1>3
  <2>2. SumFunctionOnSet(asset_raised, Tokens)
          = SumFunctionOnSet(AssetShares(i), Tokens) + SumFunctionOnSet(asset_raised', Tokens)
    BY <2>1, SumPointwise
  <2>3. /\ SumFunctionOnSet(AssetShares(i), Tokens) \in Int
        /\ SumFunctionOnSet(asset_raised', Tokens) \in Int
    BY <2>1, SumInt
  <2>4. /\ SumFunction(asset_raised) = SumFunctionOnSet(asset_raised, Tokens)
        /\ SumFunction(asset_raised') = SumFunctionOnSet(asset_raised', Tokens)
    BY <1>1, <1>2, SumWhole
  <2>5. TotalShare(i) = SumFunctionOnSet(AssetShares(i), Tokens)
    <3>1. DOMAIN AssetShares(i) = Tokens
      BY DEF AssetShares
    <3>2. QED
      BY <3>1, SumWhole DEF TotalShare
  <2>6. total_raised = SumFunction(asset_raised)
    BY DEF LedgerAgreement
  <2>7. QED
    BY <1>1, <2>2, <2>3, <2>4, <2>5, <2>6
<1>5. ASSUME NEW t \in Tokens
      PROVE  asset_raised'[t] <= SumFunction([d \in Donors |-> donated'[d][t]])
  <2> DEFINE gave == [d \in Donors |-> donated[d][t]]
  <2>1. asset_raised[t] <= SumFunction(gave)
    BY DEF LedgerAgreement
  <2>2. SumFunction(gave) \in Int
    <3>1. \A d \in Donors : gave[d] \in Int
      BY DEF Inv, TypeOK, Amount
    <3>2. DOMAIN gave = Donors
      OBVIOUS
    <3> HIDE DEF gave
    <3>3. QED
      BY <3>1, <3>2, SumInt, SumWhole
  <2>3. asset_raised'[t] = asset_raised[t] - AssetShares(i)[t]
    BY <1>1
  <2> HIDE DEF gave
  <2>4. asset_raised'[t] <= SumFunction(gave)
    BY <1>2, <1>3, <2>1, <2>2, <2>3
  <2>5. QED
    BY <1>1, <2>4 DEF gave
<1>6. release_count' = Cardinality(ReleasedHere')
  BY <1>1, ReleaseCounted
<1>7. QED
  BY <1>1, <1>4, <1>5, <1>6 DEF LedgerAgreement

bookVars == <<raised_amount, total_raised, asset_raised, donors, total_donated, donated,
              donor_count, release_count>>

LEMMA BooksNext == Inv /\ LedgerAgreement /\ [Next]_vars => LedgerAgreement'
<1> SUFFICES ASSUME Inv, LedgerAgreement, [Next]_vars PROVE LedgerAgreement'
  OBVIOUS
<1>1. CASE \E plan \in Plans, list \in AssetLists, end \in EndTimes, min \in MinDonations :
              Initialize(plan, list, end, min)
  <2>1. PICK plan \in Plans, list \in AssetLists, end \in EndTimes, min \in MinDonations :
              Initialize(plan, list, end, min)
    BY <1>1
  <2>2. UNCHANGED bookVars
    BY <2>1 DEF Initialize, bookVars, donorVars, counterVars
  <2>3. ReleasedHere = {} /\ ReleasedHere' = {}
    <3>1. DOMAIN mstatus = {}
      BY <2>1 DEF Initialize, Inv, Shape, TypeOK
    <3>2. given' = plan /\ mstatus' = [i \in 1..Len(plan) |-> plan[i].status]
      BY <2>1, PlanMilestones
    <3>3. QED
      BY <3>1, <3>2 DEF ReleasedHere
  <2>4. QED
    BY <2>2, <2>3 DEF LedgerAgreement, bookVars
<1>2. CASE \E d \in Donors, amount \in Amounts, asset \in AssetInfo : Donate(d, amount, asset)
  BY <1>2, BooksDonate
<1>3. CASE \E i \in 1..MaxMilestones, r \in Recipients : ReleaseMilestone(i, r)
  <2>1. PICK i \in 1..MaxMilestones, r \in Recipients : ReleaseMilestone(i, r)
    BY <1>3
  <2>2. /\ i \in DOMAIN target /\ mstatus[i] = "Unlocked" /\ MarkReleased(i)
        /\ UNCHANGED <<raised_amount, total_raised, asset_raised, donors, total_donated,
                       donated, donor_count, target, given>>
    BY <2>1 DEF ReleaseMilestone, Releasable, lifeVars, donorVars, campaignVars
  <2>3. release_count' = Cardinality(ReleasedHere')
    BY <2>2, ReleaseCounted
  <2>4. QED
    BY <2>2, <2>3 DEF LedgerAgreement
<1>4. CASE \E i \in 1..MaxMilestones : ReleaseMilestoneMultiAsset(i)
  BY <1>4, BooksMultiRelease
<1>5. CASE UNCHANGED <<bookVars, mstatus, given>>
  BY <1>5 DEF LedgerAgreement, ReleasedHere, bookVars
<1>6. CASE \/ \E d \in Donors : ClaimRefund(d)
           \/ EndCampaign \/ CancelCampaign
           \/ \E end \in EndTimes : ExtendDeadline(end)
           \/ Freeze \/ Unfreeze
           \/ \E t \in Tokens : BlockAsset(t) \/ UnblockAsset(t)
           \/ \E t \in Tokens, amount \in Deposits : Deposit(t, amount)
           \/ CloseLedger
           \/ UNCHANGED vars
  BY <1>5, <1>6 DEF ClaimRefund, EndCampaign, CancelCampaign, Conclude, ExtendDeadline, Freeze,
         Unfreeze, BlockAsset, UnblockAsset, SetFlags, Deposit, CloseLedger, vars, bookVars,
         campaignVars, lifeVars, milestoneVars, donorVars, counterVars
<1>7. QED
  BY <1>1, <1>2, <1>3, <1>4, <1>6 DEF Next

\* The campaign's totals, the donors' records, their per-asset entries, the
\* per-asset totals and the counters never disagree.
\* (donate, release_milestone_multi_asset, claim_refund)
THEOREM BooksAgree == Spec => []LedgerAgreement
<1>1. QED
  BY BooksInit, BooksNext, Invariant, PTL DEF Spec
-----------------------------------------------------------------------------
(* Payouts *)

\* What leaves the contract adds up to what the payment to somebody else says.
LEMMA OutflowOfPayment ==
  ASSUME NEW payment, balance \in [Tokens -> Nat], \A t \in Tokens : payment[t] \in Nat,
         balance' = [t \in Tokens |-> balance[t] - payment[t]]
  PROVE  SumFunction(Outflow) = SumFunctionOnSet(payment, Tokens)
<1>1. \A t \in Tokens : Outflow[t] \in Int /\ Outflow[t] = payment[t]
  BY DEF Outflow
<1>2. DOMAIN Outflow = Tokens
  BY DEF Outflow
<1>3. QED
  BY <1>1, <1>2, AddressAssumption, SumAgree, SumWhole

\* Nothing leaves the contract when no balance falls.
LEMMA NoOutflow ==
  ASSUME balance \in [Tokens -> Nat], balance' \in [Tokens -> Nat],
         \A t \in Tokens : balance'[t] >= balance[t]
  PROVE  SumFunction(Outflow) = 0
<1>1. \A t \in Tokens : Outflow[t] = 0
  BY DEF Outflow
<1>2. DOMAIN Outflow = Tokens
  BY DEF Outflow
<1>3. QED
  BY <1>1, <1>2, AddressAssumption, SumZero, SumWhole

LEMMA RefundPayout ==
  ASSUME Inv, NEW d \in Donors, ClaimRefund(d)
  PROVE  PayoutStep
<1>1. /\ d \in donors /\ ~refund_claimed[d] /\ UNCHANGED mstatus
      /\ refund_claimed' = [refund_claimed EXCEPT ![d] = TRUE]
      /\ balance' = [t \in Tokens |-> balance[t] - RefundTotal(d, t)]
      /\ refunded' = [refunded EXCEPT ![d] = [t \in Tokens |-> @[t] + RefundTotal(d, t)]]
  BY DEF ClaimRefund, RefundEligible, milestoneVars
<1>2. /\ balance \in [Tokens -> Nat] /\ refunded \in [Donors -> [Tokens -> Nat]]
      /\ refund_claimed \in [Donors -> BOOLEAN] /\ donors \subseteq Donors
      /\ donated \in [Donors -> [Tokens -> Nat]]
  BY LedgerTypes
<1>3. NewReleases = {} /\ NewClaims = {d}
  BY <1>1, <1>2 DEF NewReleases, NewClaims
<1>4. refunded'[d] = [t \in Tokens |-> RefundTotal(d, t)]
  <2>1. \A t \in Tokens : refunded[d][t] = 0 /\ RefundTotal(d, t) \in Nat
    BY <1>1, <1>2, RefundTotalBounded DEF Inv, RefundWithinContribution
  <2>2. refunded'[d] = [t \in Tokens |-> refunded[d][t] + RefundTotal(d, t)]
    BY <1>1, <1>2
  <2>3. QED
    BY <2>1, <2>2
<1>5. SumFunction(Outflow) = SumFunction(refunded'[d])
  <2>1. \A t \in Tokens : refunded'[d][t] \in Nat
    BY <1>2, <1>4, RefundTotalBounded
  <2>2. balance' = [t \in Tokens |-> balance[t] - refunded'[d][t]]
    BY <1>1, <1>4
  <2>3. SumFunction(Outflow) = SumFunctionOnSet(refunded'[d], Tokens)
    BY <1>2, <2>1, <2>2, OutflowOfPayment
  <2>4. QED
    BY <1>4, <2>3, SumWhole
<1>6. Cardinality({d}) = 1
  BY FS_Singleton
<1>7. QED
  BY <1>3, <1>5, <1>6 DEF PayoutStep

\* What both releases settle: one milestone, with its whole target.
LEMMA ReleaseSettles ==
  ASSUME Inv, NEW i \in DOMAIN target, mstatus[i] = "Unlocked", MarkReleased(i),
         UNCHANGED refund_claimed
  PROVE  /\ NewReleases = {i} /\ NewClaims = {} /\ Cardinality(NewReleases) = 1
         /\ released'[i] - released[i] = PendingRelease(i) /\ PendingRelease(i) \in Int
<1>1. mstatus \in [DOMAIN target -> MilestoneStatus] /\ released \in [DOMAIN target -> I128]
  BY DEF Inv, TypeOK
<1>2. NewReleases = {i} /\ NewClaims = {}
  <2>1. \A j \in DOMAIN target : mstatus'[j] = IF j = i THEN "Released" ELSE mstatus[j]
    BY <1>1 DEF MarkReleased
  <2>2. NewReleases = {i}
    BY <2>1 DEF NewReleases
  <2>3. NewClaims = {}
    BY DEF NewClaims
  <2>4. QED
    BY <2>2, <2>3
<1>3. released'[i] = target[i]
  BY <1>1 DEF MarkReleased
<1>4. Cardinality(NewReleases) = 1
  <2>1. Cardinality({i}) = 1
    BY FS_Singleton
  <2>2. QED
    BY <1>2, <2>1
<1>5. released'[i] - released[i] = PendingRelease(i) /\ PendingRelease(i) \in Int
  BY <1>3, PendingIsInteger DEF PendingRelease
<1>6. QED
  BY <1>2, <1>4, <1>5

\* A position in the list is a positive number.
LEMMA PositionsArePositive ==
  ASSUME Inv, NEW n \in DOMAIN accepted_assets
  PROVE  n \in Nat /\ n > 0
<1>1. accepted_assets \in Seq(StellarAsset)
  BY ArgumentsAssumption DEF Inv, TypeOK
<1>2. QED
  BY <1>1

LEMMA PrimaryPayout ==
  ASSUME Inv, NEW i \in 1..MaxMilestones, NEW r \in Recipients, ReleaseMilestone(i, r)
  PROVE  PayoutStep
<1> DEFINE payment == PrimaryPayment(i)
           primary == {t \in Tokens : payment[t] # 0}
           pending == PendingRelease(i)
<1>1. /\ i \in DOMAIN target /\ mstatus[i] = "Unlocked" /\ MarkReleased(i)
      /\ balance' = Paid(payment, r) /\ UNCHANGED refund_claimed
  BY DEF ReleaseMilestone, Releasable, donorVars
<1>2. /\ NewReleases = {i} /\ NewClaims = {} /\ Cardinality(NewReleases) = 1
      /\ released'[i] - released[i] = pending /\ pending \in Int
  BY <1>1, ReleaseSettles
<1>3. /\ balance \in [Tokens -> Nat]
      /\ \A t \in Tokens : payment[t] = 0 \/ (payment[t] = pending /\ pending > 0)
  BY DEF Inv, TypeOK, PrimaryPayment
<1>4. \A t, u \in primary : t = u
  BY DEF PrimaryPayment
<1> HIDE DEF payment, pending
<1>5. CASE r = Self
  <2>1. balance' = balance
    BY <1>1, <1>5 DEF Paid
  <2>2. SumFunction(Outflow) = 0
    BY <1>3, <2>1, NoOutflow
  <2>3. QED
    BY <2>2 DEF PayoutStep
<1>6. CASE r # Self
  <2>1. SumFunction(Outflow) = SumFunctionOnSet(payment, Tokens)
    <3>1. balance' = [t \in Tokens |-> balance[t] - payment[t]]
      BY <1>1, <1>6 DEF Paid
    <3>2. \A t \in Tokens : payment[t] \in Nat
      BY <1>2, <1>3
    <3>3. QED
      BY <1>3, <3>1, <3>2, OutflowOfPayment
  <2>2. \/ SumFunction(Outflow) = 0
        \/ SumFunction(Outflow) = pending /\ pending > 0
    <3>1. CASE primary = {}
      BY <2>1, <3>1, AddressAssumption, SumZero
    <3>2. CASE primary # {}
      <4>1. PICK t \in primary : TRUE
        BY <3>2
      <4>2. \A u \in Tokens : payment[u] \in Int /\ (u # t => payment[u] = 0)
        BY <1>2, <1>3, <1>4, <4>1
      <4>3. SumFunctionOnSet(payment, Tokens) = payment[t]
        BY <4>1, <4>2, AddressAssumption, SumSingle
      <4>4. QED
        BY <1>3, <2>1, <4>1, <4>3
    <3>3. QED
      BY <3>1, <3>2
  <2>3. CASE SumFunction(Outflow) = 0
    BY <2>3 DEF PayoutStep
  <2>4. CASE SumFunction(Outflow) = pending /\ pending > 0
    <3>1. \A n \in DOMAIN accepted_assets : pending <= n * pending
      <4> SUFFICES ASSUME NEW n \in DOMAIN accepted_assets PROVE pending <= n * pending
        OBVIOUS
      <4>1. n \in Nat /\ n >= 1
        BY PositionsArePositive
      <4>2. pending \in Nat /\ pending * 1 <= pending * n
        BY <1>2, <2>4, <4>1, ProductMonotone
      <4>3. QED
        BY <1>2, <4>1, <4>2
    <3>2. QED
      BY <1>2, <2>4, <3>1 DEF PayoutStep
  <2>5. QED
    BY <2>2, <2>3, <2>4
<1>7. QED
  BY <1>5, <1>6

\* Rounded down, the shares of a milestone's amount that the assets' totals
\* stand for add up to no more than that amount, once per entry of the token that
\* has the most; and there are none when nothing was pending.
LEMMA SharesFit ==
  ASSUME Inv, LedgerAgreement, NEW i \in DOMAIN target, total_raised # 0,
         \A t \in Tokens : Remainders(t, i) # {},
         NEW n \in Nat, \A t \in Tokens : Entries(t) <= n
  PROVE  SumFunctionOnSet(AssetShares(i), Tokens) <=
            n * (IF PendingRelease(i) > 0 THEN PendingRelease(i) ELSE 0)
<1> DEFINE p == IF PendingRelease(i) > 0 THEN PendingRelease(i) ELSE 0
           scaled == [t \in Tokens |-> total_raised * AssetShares(i)[t]]
           whole == [t \in Tokens |-> (n * p) * asset_raised[t]]
           Sum(f) == SumFunctionOnSet(f, Tokens)
<1>1. total_raised \in Nat /\ total_raised > 0 /\ p \in Nat /\ PendingRelease(i) \in Int
  <2>1. total_raised \in Nat
    BY LedgerTypes
  <2>2. PendingRelease(i) \in Int
    BY PendingIsInteger
  <2>3. QED
    BY <2>1, <2>2
<1>2. \A t \in Tokens : asset_raised[t] \in Nat /\ AssetShares(i)[t] \in Nat
  BY LedgerTypes, SharesAreNatural
<1>3. n * p \in Nat
  <2> HIDE DEF p
  <2>1. QED
    BY <1>1
<1>4. \A t \in Tokens : scaled[t] \in Int /\ whole[t] \in Int /\ scaled[t] <= whole[t]
  <2> SUFFICES ASSUME NEW t \in Tokens
               PROVE  scaled[t] \in Int /\ whole[t] \in Int /\ scaled[t] <= whole[t]
    OBVIOUS
  <2> DEFINE a == asset_raised[t]
             m == Entries(t)
             left == CHOOSE left \in Remainders(t, i) : TRUE
             c == p * a
  <2>1. left \in Remainders(t, i)
    OBVIOUS
  <2>2. AssetShares(i)[t] = a - left[m] /\ m \in Nat /\ m <= n /\ a \in Nat
    BY <1>2, EntriesAreNatural DEF AssetShares, Inv
  <2>3. /\ left \in [0..m -> 0..a] /\ left[0] = a
        /\ \A k \in 1..m :
              left[k] = left[k - 1] - ComputeAssetRelease(left[k - 1], PendingRelease(i), total_raised)
    BY <2>1 DEF Remainders
  <2>4. c = IF PendingRelease(i) > 0 THEN PendingRelease(i) * a ELSE 0
    BY <2>2
  <2> HIDE DEF left, a, m, p, c
  <2>5. total_raised * (a - left[m]) <= m * c
    BY <1>1, <2>2, <2>3, <2>4, ShareOfEntries
  <2>6. m * c <= n * c /\ m * c \in Int /\ n * c \in Int
    <3>1. c \in Nat
      BY <1>1, <2>2 DEF c
    <3>2. c * m <= c * n
      BY <2>2, <3>1, ProductMonotone
    <3>3. QED
      BY <2>2, <3>1, <3>2
  <2>7. n * c = (n * p) * a
    BY <1>1, <2>2 DEF c
  <2>8. AssetShares(i)[t] \in Nat
    BY <1>2
  <2>9. total_raised * AssetShares(i)[t] \in Int
    BY <1>1, <2>8
  <2>10. QED
    BY <2>2, <2>5, <2>6, <2>7, <2>9 DEF a
<1>5. Sum(scaled) = total_raised * Sum(AssetShares(i))
  <2> DEFINE shares == AssetShares(i)
  <2>1. \A t \in Tokens : shares[t] \in Int /\ scaled[t] = total_raised * shares[t]
    BY <1>2
  <2>2. total_raised \in Int
    BY <1>1
  <2> HIDE DEF scaled, shares
  <2>3. SumFunctionOnSet(scaled, Tokens) = total_raised * SumFunctionOnSet(shares, Tokens)
    BY <2>1, <2>2, AddressAssumption, SumScale
  <2>4. QED
    BY <2>3 DEF shares
<1>6. Sum(whole) = (n * p) * Sum(asset_raised)
  <2>1. \A t \in Tokens : asset_raised[t] \in Int /\ whole[t] = (n * p) * asset_raised[t]
    BY <1>2
  <2> HIDE DEF whole, p
  <2>2. QED
    BY <1>3, <2>1, AddressAssumption, SumScale
<1>7. Sum(scaled) <= Sum(whole)
  <2> HIDE DEF scaled, whole
  <2>1. QED
    BY <1>4, AddressAssumption, SumMonotonic
<1>8. Sum(asset_raised) = total_raised
  <2>1. DOMAIN asset_raised = Tokens
    BY DEF Inv, TypeOK
  <2>2. QED
    BY <2>1, SumWhole DEF LedgerAgreement
<1>9. Sum(AssetShares(i)) \in Int
  BY <1>2, AddressAssumption, SumInt
<1> DEFINE q == Sum(AssetShares(i))
           b == n * p
<1> HIDE DEF scaled, whole, p, q, b
<1>10. q \in Int /\ b \in Nat /\ total_raised * q <= total_raised * b
  BY <1>1, <1>3, <1>5, <1>6, <1>7, <1>8, <1>9 DEF q, b
<1>11. q <= b
  BY <1>1, <1>10, FactorCancels
<1>12. QED
  BY <1>11 DEF q, b, p

LEMMA SharesPayout ==
  ASSUME Inv, LedgerAgreement, NEW i \in 1..MaxMilestones, ReleaseMilestoneMultiAsset(i)
  PROVE  PayoutStep
<1> DEFINE pending == PendingRelease(i)
           out == SumFunction(Outflow)
<1>1. /\ i \in DOMAIN target /\ mstatus[i] = "Unlocked" /\ MarkReleased(i)
      /\ total_raised # 0 /\ \A t \in Tokens : Remainders(t, i) # {}
      /\ balance' = [t \in Tokens |-> balance[t] - AssetShares(i)[t]]
      /\ UNCHANGED refund_claimed
  BY DEF ReleaseMilestoneMultiAsset, Paid, Self, donorVars
<1>2. /\ NewReleases = {i} /\ NewClaims = {} /\ Cardinality(NewReleases) = 1
      /\ released'[i] - released[i] = pending /\ pending \in Int
  BY <1>1, ReleaseSettles
<1>3. out = SumFunctionOnSet(AssetShares(i), Tokens)
  <2>1. balance \in [Tokens -> Nat]
    BY DEF Inv, TypeOK
  <2>2. \A t \in Tokens : AssetShares(i)[t] \in Nat
    BY <1>1, SharesAreNatural
  <2>3. QED
    BY <1>1, <2>1, <2>2, OutflowOfPayment
<1>4. ASSUME NEW n \in DOMAIN accepted_assets, \A t \in Tokens : Entries(t) <= n, out > 0
      PROVE  out <= n * pending
  <2>1. n \in Nat
    BY PositionsArePositive
  <2>2. out <= n * (IF pending > 0 THEN pending ELSE 0)
    BY <1>1, <1>3, <1>4, <2>1, SharesFit
  <2> HIDE DEF out, pending
  <2>3. CASE pending > 0
    BY <2>2, <2>3
  <2>4. CASE ~(pending > 0)
    <3>1. n * 0 = 0 /\ out <= n * 0
      BY <2>1, <2>2, <2>4
    <3>2. SumFunctionOnSet(AssetShares(i), Tokens) \in Int
      <4>1. \A t \in Tokens : AssetShares(i)[t] \in Int
        BY <1>1, SharesAreNatural
      <4>2. QED
        BY <4>1, AddressAssumption, SumInt
    <3>3. QED
      BY <1>3, <1>4, <3>1, <3>2
  <2>5. QED
    BY <2>3, <2>4
<1>5. QED
  BY <1>2, <1>4 DEF PayoutStep

\* Whatever leaves the contract is one claim's refund or, over all tokens together,
\* at most one milestone's pending amount, once per entry of the token that the list
\* names most often.  (claim_refund, both releases)
THEOREM PayoutsAccounted == Spec => PayoutsAccountedFor
<1>1. Inv /\ LedgerAgreement /\ [Next]_vars => [PayoutStep]_vars
  <2> SUFFICES ASSUME Inv, LedgerAgreement, Next PROVE PayoutStep
    OBVIOUS
  <2>1. balance \in [Tokens -> Nat]
    BY DEF Inv, TypeOK
  <2>2. CASE UNCHANGED balance
    <3>1. SumFunction(Outflow) = 0
      BY <2>1, <2>2, NoOutflow
    <3>2. QED
      BY <3>1 DEF PayoutStep
  <2>3. CASE \E t \in Tokens, amount \in Deposits : Deposit(t, amount)
    <3>1. PICK t \in Tokens, amount \in Deposits : Deposit(t, amount)
      BY <2>3
    <3>2. amount \in Nat /\ balance' = [balance EXCEPT ![t] = @ + amount]
      BY <3>1, BoundsAssumption DEF Deposit
    <3>3. SumFunction(Outflow) = 0
      BY <2>1, <3>2, NoOutflow
    <3>4. QED
      BY <3>3 DEF PayoutStep
  <2>4. CASE \E d \in Donors : ClaimRefund(d)
    BY <2>4, RefundPayout
  <2>5. CASE \E i \in 1..MaxMilestones, r \in Recipients : ReleaseMilestone(i, r)
    BY <2>5, PrimaryPayout
  <2>6. CASE \E i \in 1..MaxMilestones : ReleaseMilestoneMultiAsset(i)
    BY <2>6, SharesPayout
  <2>7. CASE \/ \E plan \in Plans, list \in AssetLists, end \in EndTimes, min \in MinDonations :
                    Initialize(plan, list, end, min)
             \/ \E d \in Donors, amount \in Amounts, asset \in AssetInfo : Donate(d, amount, asset)
             \/ EndCampaign \/ CancelCampaign
             \/ \E end \in EndTimes : ExtendDeadline(end)
             \/ Freeze \/ Unfreeze
             \/ \E t \in Tokens : BlockAsset(t) \/ UnblockAsset(t)
             \/ CloseLedger
    BY <2>2, <2>7 DEF Initialize, Donate, EndCampaign, CancelCampaign, Conclude, ExtendDeadline,
           Freeze, Unfreeze, BlockAsset, UnblockAsset, SetFlags, CloseLedger, envVars
  <2>8. QED
    BY <2>3, <2>4, <2>5, <2>6, <2>7 DEF Next
<1>2. QED
  BY <1>1, Invariant, BooksAgree, PTL DEF Spec, PayoutsAccountedFor
=============================================================================
