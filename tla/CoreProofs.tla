----------------------------- MODULE CoreProofs -----------------------------
(***************************************************************************)
(* Theorems about the legacy contract, for any addresses, assets, amounts, *)
(* fee and bounds that satisfy CoreAssumption.                             *)
(***************************************************************************)
EXTENDS Core, SumLemmas, SequenceTheorems, TLAPS

\* One call, by the caller `a`.
Call(a) ==
    \/ Initialize(a)
    \/ \E goal \in Goals : CreateCampaign(a, goal)
    \/ \E id \in Ids, amount \in Amounts, asset \in Assets \cup {EmptySymbol} : Donate(a, id, amount, asset)
    \/ \E id \in Ids, amount \in Amounts : Withdraw(a, id, amount)
    \/ \E id \in Ids : ApproveWithdrawal(a, id)
    \/ \E id \in Ids : SubmitTransaction(a, id)

LEMMA NextIsCall == Next <=> \E a \in Addresses : Call(a)
  BY DEF Next, Call

-----------------------------------------------------------------------------
(* Types *)

\* The donor list stays a list of addresses.
LEMMA WithDonorType ==
  ASSUME NEW S, NEW s \in Seq(S), NEW d \in S
  PROVE  WithDonor(s, d) \in Seq(S)
  BY DEF WithDonor

\* What the assumption says of the numbers.
LEMMA Numbers ==
  /\ MaxI128 \in Nat /\ Word \in Nat \ {0} /\ BaseFee \in Nat /\ 0 \in I128 /\ I128 \subseteq Int
  /\ \A n \in Amounts : n \in Int /\ n <= MaxI128
  /\ \A g \in Goals : g \in Int
  BY CoreAssumption DEF I128, IntegersUpTo

LEMMA InitType == Init => TypeOK
<1>1. SUFFICES ASSUME Init PROVE TypeOK
  OBVIOUS
<1>2. 0 \in 0..MaxCampaigns /\ 0 \in I128
  BY CoreAssumption, Numbers
<1>. QED
  BY <1>1, <1>2 DEF Init, TypeOK

LEMMA CreateType ==
  ASSUME TypeOK, NEW a \in Addresses, NEW goal \in Goals, CreateCampaign(a, goal)
  PROVE  TypeOK'
<1>1. NewId \in Ids /\ count' \in 0..MaxCampaigns
  BY CoreAssumption DEF TypeOK, CreateCampaign, NewId, Ids
<1>2. [creator |-> a, goal |-> goal, raised |-> 0, active |-> TRUE] \in Campaign
  BY Numbers DEF Campaign
<1>3. camp' \in [Ids -> Campaign \cup {None}]
  BY <1>1, <1>2 DEF TypeOK, CreateCampaign
<1>4. history[NewId] \in Seq(DonationRecord)
  BY <1>1 DEF TypeOK
<1>5. Len(history[NewId]) \in Nat
  BY <1>4
<1>6. before' \in [Ids -> Nat] /\ born' \in [Ids -> Nat] /\ approved' \in [Ids -> Nat]
  BY <1>1, <1>5 DEF TypeOK, CreateCampaign
<1>. QED
  BY <1>1, <1>3, <1>6 DEF TypeOK, CreateCampaign, counterVars, donationVars

\* The net amount is positive, because the amount exceeds the fee.
LEMMA NetPositive ==
  ASSUME NEW amount \in Amounts, AmountSuffices(amount)
  PROVE  /\ Net(amount) \in Nat /\ Net(amount) > 0 /\ Net(amount) = amount - BaseFee
         /\ amount - BaseFee \in 1..MaxI128 /\ amount # None /\ amount \in Int
<1>1. amount \in Int /\ amount > BaseFee /\ amount <= MaxI128
  BY Numbers DEF AmountSuffices
<1>2. amount # None
  BY <1>1, CoreAssumption
<1>. QED
  BY <1>1, <1>2, Numbers DEF Net

\* The sums of a donation are an i128 again, and the campaign is one.
LEMMA CreditedType ==
  ASSUME NEW c \in Campaign, NEW total \in I128, NEW amount \in Int
  PROVE  /\ Credited(c, amount) \in Campaign /\ Credited(c, amount) # None
         /\ Credited(c, amount) = [c EXCEPT !.raised = Wrapped(c.raised + Net(amount), MaxI128)]
         /\ AssetCredited(total, amount) \in I128
<1>1. c.raised \in Int /\ total \in Int /\ Net(amount) \in Int
  <2>1. c.raised \in I128 /\ I128 \subseteq Int /\ BaseFee \in Int
    BY Numbers DEF Campaign
  <2>2. amount - BaseFee \in Int
    BY <2>1
  <2>. QED
    BY <2>1, <2>2 DEF Net
<1>2. c.raised + Net(amount) \in Int /\ total + Net(amount) \in Int
  BY <1>1
<1>3. Wrapped(c.raised + Net(amount), MaxI128) \in I128 /\ Wrapped(total + Net(amount), MaxI128) \in I128
  BY <1>2, Numbers, WrappedRange DEF I128
<1>4. Credited(c, amount) \in Campaign
  BY <1>3 DEF Credited, Campaign
<1>. QED
  BY <1>3, <1>4, CoreAssumption DEF Credited, AssetCredited

LEMMA DonateType ==
  ASSUME TypeOK, NEW a \in Addresses, NEW id \in Ids, NEW amount \in Amounts,
         NEW asset \in Assets \cup {EmptySymbol}, Donate(a, id, amount, asset)
  PROVE  TypeOK'
<1>1. asset \in Assets /\ AmountSuffices(amount) /\ camp[id] \in Campaign
  BY DEF Donate, Exists, TypeOK
<1>2. amount \in Int /\ amount - BaseFee \in 1..MaxI128
  BY <1>1, NetPositive
<1>3. Credited(camp[id], amount) \in Campaign
  BY <1>1, <1>2, Numbers, CreditedType
<1>4. camp' \in [Ids -> Campaign \cup {None}]
  BY <1>3 DEF TypeOK, Donate
<1>5. araised' \in [Ids -> [Assets -> I128]]
  <2>1. araised[id] \in [Assets -> I128]
    BY DEF TypeOK
  <2>2. araised' = [araised EXCEPT ![id] = [araised[id] EXCEPT ![asset] = AssetCredited(araised[id][asset], amount)]]
    BY DEF Donate, TypeOK
  <2>3. AssetCredited(araised[id][asset], amount) \in I128
    BY <1>1, <1>2, <2>1, CreditedType
  <2>4. [araised[id] EXCEPT ![asset] = AssetCredited(araised[id][asset], amount)] \in [Assets -> I128]
    BY <2>1, <2>3
  <2>. QED
    BY <2>2, <2>4 DEF TypeOK
<1>6. history' \in [Ids -> Seq(DonationRecord)]
  <2>1. [donor |-> a, amount |-> amount - BaseFee, asset |-> asset] \in DonationRecord
    BY <1>1, <1>2 DEF DonationRecord
  <2>2. Append(history[id], [donor |-> a, amount |-> amount - BaseFee, asset |-> asset]) \in Seq(DonationRecord)
    BY <2>1 DEF TypeOK
  <2>. QED
    BY <2>2 DEF TypeOK, Donate
<1>7. don' \in [Ids -> [Addresses -> Amounts \cup {None}]]
  <2>1. don[id] \in [Addresses -> Amounts \cup {None}]
    BY DEF TypeOK
  <2>2. don' = [don EXCEPT ![id] = [don[id] EXCEPT ![a] = amount]]
    BY DEF Donate, TypeOK
  <2>. QED
    BY <2>1, <2>2 DEF TypeOK
<1>8. donors' \in [Ids -> Seq(Addresses)]
  BY WithDonorType DEF TypeOK, Donate
<1>9. totaltx' \in Nat /\ totaldon' \in Nat
  BY DEF TypeOK, Donate
<1>. QED
  BY <1>4, <1>5, <1>6, <1>7, <1>8, <1>9 DEF TypeOK, Donate, historyVars

LEMMA WithdrawType ==
  ASSUME TypeOK, NEW a \in Addresses, NEW id \in Ids, NEW amount \in Amounts, Withdraw(a, id, amount)
  PROVE  TypeOK'
<1>1. [amount |-> amount, status |-> "Pending"] \in WithdrawalRequest
  BY DEF Withdraw, WithdrawalRequest, WithdrawalStatus
<1>2. pendwith' \in [Ids -> WithdrawalRequest \cup {None}]
  BY <1>1 DEF TypeOK, Withdraw
<1>3. filedBy' \in [Ids -> Addresses \cup {None}] /\ totaltx' \in Nat /\ totalwd' \in Nat
  BY DEF TypeOK, Withdraw
<1>. QED
  BY <1>2, <1>3 DEF TypeOK, Withdraw, donationVars

LEMMA PositiveAmount ==
  ASSUME NEW n \in Amounts, n > 0
  PROVE  n \in Nat
<1>1. n \in Int
  BY Numbers
<1>. QED
  BY <1>1

\* What is covered is a part of the raised amount.
LEMMA DebitedType ==
  ASSUME NEW c \in Campaign, NEW r \in WithdrawalRequest, r.amount <= c.raised
  PROVE  /\ r.amount \in Nat /\ Debited(c, r.amount) \in Campaign
         /\ c.raised - r.amount \in 0..MaxI128
<1>1. r.amount \in Amounts /\ r.amount > 0
  BY DEF WithdrawalRequest
<1>2. r.amount \in Nat
  BY <1>1, PositiveAmount
<1>3. c.raised \in Int /\ c.raised <= MaxI128
  BY Numbers DEF Campaign, I128, IntegersUpTo
<1>4. c.raised - r.amount \in 0..MaxI128 /\ c.raised - r.amount \in I128
  BY <1>1, <1>2, <1>3, Numbers DEF I128, IntegersUpTo
<1>. QED
  BY <1>2, <1>4 DEF Debited, Campaign

LEMMA ApproveType ==
  ASSUME TypeOK, NEW a \in Addresses, NEW id \in Ids, ApproveWithdrawal(a, id)
  PROVE  TypeOK'
<1>1. /\ pendwith[id] \in WithdrawalRequest /\ camp[id] \in Campaign
      /\ pendwith[id].amount <= camp[id].raised
  BY DEF ApproveWithdrawal, Exists, Covers, TypeOK
<1>2. pendwith[id].amount \in Nat
  BY <1>1, DebitedType
<1>3. Debited(camp[id], pendwith[id].amount) \in Campaign
  BY <1>1, DebitedType
<1>4. camp' \in [Ids -> Campaign \cup {None}]
  BY <1>3 DEF TypeOK, ApproveWithdrawal
<1>5. [pendwith[id] EXCEPT !.status = "Approved"] \in WithdrawalRequest
  BY <1>1 DEF WithdrawalRequest, WithdrawalStatus
<1>6. pendwith' \in [Ids -> WithdrawalRequest \cup {None}]
  BY <1>5 DEF TypeOK, ApproveWithdrawal
<1>7. approved' \in [Ids -> Nat]
  BY <1>2 DEF TypeOK, ApproveWithdrawal
<1>. QED
  BY <1>4, <1>6, <1>7 DEF TypeOK, ApproveWithdrawal, counterVars, donationVars

LEMMA SubmitType ==
  ASSUME TypeOK, NEW a \in Addresses, NEW id \in Ids, SubmitTransaction(a, id)
  PROVE  TypeOK'
<1>1. [pendwith[id] EXCEPT !.status = "Submitted"] \in WithdrawalRequest
  BY DEF SubmitTransaction, TypeOK, WithdrawalRequest, WithdrawalStatus
<1>2. pendwith' \in [Ids -> WithdrawalRequest \cup {None}]
  BY <1>1 DEF TypeOK, SubmitTransaction
<1>. QED
  BY <1>2 DEF TypeOK, SubmitTransaction, counterVars, donationVars, historyVars

LEMMA StepType == TypeOK /\ [Next]_vars => TypeOK'
<1>1. SUFFICES ASSUME TypeOK, [Next]_vars PROVE TypeOK'
  OBVIOUS
<1>2. CASE UNCHANGED vars
  BY <1>1, <1>2 DEF vars, counterVars, donationVars, historyVars, TypeOK
<1>3. ASSUME NEW a \in Addresses, Call(a) PROVE TypeOK'
  <2>1. CASE Initialize(a)
    <3>1. 0 \in 0..MaxCampaigns
      BY CoreAssumption
    <3>. QED
      BY <1>1, <2>1, <3>1 DEF Initialize, TypeOK, counterVars, donationVars
  <2>. QED
    BY <1>1, <1>3, <2>1, CreateType, DonateType, WithdrawType, ApproveType, SubmitType DEF Call
<1>. QED
  BY <1>1, <1>2, <1>3, NextIsCall

\* Every raised amount and per-asset total is an i128, wrapped around or not, and a
\* recorded or filed amount a positive one, whoever calls what in which order.
\* (donate, withdraw, approve_withdrawal)
THEOREM CoreTypeCorrect == Spec => []TypeOK
  BY InitType, StepType, PTL DEF Spec

-----------------------------------------------------------------------------
(* Donor lists and metadata follow the history *)

\* What DonorRecords says of one identifier, in its four parts.
Once(ds) == \A i, j \in DOMAIN ds : ds[i] = ds[j] => i = j
Described(ds, md) == \A i \in DOMAIN ds : md[ds[i]] # None
Listed(h, ds) == \A i \in DOMAIN h : \E j \in DOMAIN ds : ds[j] = h[i].donor
Latest(h, md) ==
    \A i \in DOMAIN h :
        \/ md[h[i].donor] = h[i].amount + BaseFee
        \/ \E k \in (i + 1)..Len(h) : h[k].donor = h[i].donor

LEMMA RecordsByPart ==
  DonorRecords <=> \A id \in Ids :
      /\ Once(donors[id]) /\ Described(donors[id], don[id])
      /\ Listed(history[id], donors[id]) /\ Latest(history[id], don[id])
  BY DEF DonorRecords, Once, Described, Listed, Latest

\* Adding a donor keeps everyone listed, and lists nobody twice.
LEMMA WithDonorKeepsOnce ==
  ASSUME NEW s \in Seq(Addresses), NEW d \in Addresses, Once(s)
  PROVE  /\ Once(WithDonor(s, d))
         /\ \A i \in DOMAIN s : \E j \in DOMAIN WithDonor(s, d) : WithDonor(s, d)[j] = s[i]
         /\ \E j \in DOMAIN WithDonor(s, d) : WithDonor(s, d)[j] = d
         /\ \A j \in DOMAIN WithDonor(s, d) :
                WithDonor(s, d)[j] = d \/ \E i \in DOMAIN s : s[i] = WithDonor(s, d)[j]
<1>1. CASE Contains(s, d)
  BY <1>1 DEF WithDonor, Contains
<1>2. CASE ~Contains(s, d)
  <2>1. WithDonor(s, d) = Append(s, d)
    BY <1>2 DEF WithDonor
  <2>2. \A i \in 1..Len(s) : s[i] # d
    BY <1>2 DEF Contains
  <2>3. /\ DOMAIN Append(s, d) = 1..(Len(s) + 1) /\ DOMAIN s = 1..Len(s)
        /\ \A i \in 1..Len(s) : Append(s, d)[i] = s[i]
        /\ Append(s, d)[Len(s) + 1] = d
    OBVIOUS
  <2>4. Len(s) \in Nat
    OBVIOUS
  <2>5. Once(Append(s, d))
    <3>1. SUFFICES ASSUME NEW i \in 1..(Len(s) + 1), NEW j \in 1..(Len(s) + 1),
                          Append(s, d)[i] = Append(s, d)[j]
                   PROVE  i = j
      BY <2>3 DEF Once
    <3>2. CASE i \in 1..Len(s) /\ j \in 1..Len(s)
      BY <3>1, <3>2, <2>3 DEF Once
    <3>3. CASE i = Len(s) + 1 \/ j = Len(s) + 1
      BY <3>1, <3>3, <2>2, <2>3, <2>4
    <3>. QED
      BY <3>2, <3>3, <2>4
  <2>6. \A i \in DOMAIN s : i \in 1..(Len(s) + 1)
    BY <2>3, <2>4
  <2>7. Len(s) + 1 \in 1..(Len(s) + 1)
    BY <2>4
  <2>8. \A j \in 1..(Len(s) + 1) : j = Len(s) + 1 \/ j \in 1..Len(s)
    BY <2>4
  <2>. QED
    BY <2>1, <2>3, <2>5, <2>6, <2>7, <2>8
<1>. QED
  BY <1>1, <1>2

LEMMA DonateRecords ==
  ASSUME TypeOK, DonorRecords, NEW a \in Addresses, NEW i \in Ids, NEW amount \in Amounts,
         NEW asset \in Assets \cup {EmptySymbol}, Donate(a, i, amount, asset)
  PROVE  DonorRecords'
<1>. DEFINE rec == [donor |-> a, amount |-> amount - BaseFee, asset |-> asset]
            h == history[i]
            md == [don[i] EXCEPT ![a] = amount]
            ds == WithDonor(donors[i], a)
<1>1. /\ history' = [history EXCEPT ![i] = Append(h, rec)]
      /\ don' = [don EXCEPT ![i] = md]
      /\ donors' = [donors EXCEPT ![i] = ds]
  BY DEF Donate, TypeOK
<1>2. asset \in Assets /\ AmountSuffices(amount)
  BY DEF Donate
<1>3. amount - BaseFee \in 1..MaxI128 /\ amount # None /\ amount \in Int
  BY <1>2, NetPositive
<1>4. /\ h \in Seq(DonationRecord) /\ rec \in DonationRecord
      /\ don[i] \in [Addresses -> Amounts \cup {None}] /\ donors[i] \in Seq(Addresses)
  BY <1>2, <1>3 DEF TypeOK, DonationRecord
<1>5. /\ Once(donors[i]) /\ Described(donors[i], don[i])
      /\ Listed(h, donors[i]) /\ Latest(h, don[i])
  BY RecordsByPart
<1>6. /\ DOMAIN Append(h, rec) = 1..(Len(h) + 1) /\ Len(Append(h, rec)) = Len(h) + 1
      /\ DOMAIN h = 1..Len(h) /\ Len(h) \in Nat
      /\ \A k \in 1..Len(h) : Append(h, rec)[k] = h[k]
      /\ Append(h, rec)[Len(h) + 1] = rec
  BY <1>4
<1>7. /\ md[a] = amount
      /\ \A d \in Addresses : d # a => md[d] = don[i][d]
  BY <1>4
<1>8. Once(ds)
  BY <1>4, <1>5, WithDonorKeepsOnce
<1>9. Described(ds, md)
  <2>1. SUFFICES ASSUME NEW j \in DOMAIN ds PROVE md[ds[j]] # None
    BY DEF Described
  <2>2. ds[j] = a \/ \E k \in DOMAIN donors[i] : donors[i][k] = ds[j]
    BY <1>4, <1>5, WithDonorKeepsOnce
  <2>3. ASSUME NEW k \in DOMAIN donors[i], donors[i][k] = ds[j] PROVE md[ds[j]] # None
    <3>1. donors[i][k] \in Addresses /\ don[i][donors[i][k]] # None
      BY <1>4, <1>5 DEF Described
    <3>. QED
      BY <3>1, <2>3, <1>3, <1>7
  <2>. QED
    BY <2>2, <2>3, <1>3, <1>7
<1>10. Listed(Append(h, rec), ds)
  <2>1. \E j \in DOMAIN ds : ds[j] = rec.donor
    BY <1>4, <1>5, WithDonorKeepsOnce
  <2>2. ASSUME NEW k \in 1..Len(h) PROVE \E j \in DOMAIN ds : ds[j] = h[k].donor
    <3>1. PICK n \in DOMAIN donors[i] : donors[i][n] = h[k].donor
      BY <1>5, <1>6 DEF Listed
    <3>. QED
      BY <3>1, <1>4, <1>5, WithDonorKeepsOnce
  <2>3. \A k \in 1..(Len(h) + 1) : k = Len(h) + 1 \/ k \in 1..Len(h)
    BY <1>6
  <2>. QED
    BY <2>1, <2>2, <2>3, <1>6 DEF Listed
<1>11. Latest(Append(h, rec), md)
  <2>1. SUFFICES ASSUME NEW k \in 1..(Len(h) + 1)
                 PROVE  \/ md[Append(h, rec)[k].donor] = Append(h, rec)[k].amount + BaseFee
                        \/ \E n \in (k + 1)..(Len(h) + 1) : Append(h, rec)[n].donor = Append(h, rec)[k].donor
    BY <1>6 DEF Latest
  <2>2. CASE k = Len(h) + 1
    <3>1. (amount - BaseFee) + BaseFee = amount
      BY <1>3, CoreAssumption
    <3>. QED
      BY <2>2, <3>1, <1>6, <1>7
  <2>3. CASE k \in 1..Len(h) /\ h[k].donor = a
    <3>1. Len(h) + 1 \in (k + 1)..(Len(h) + 1)
      BY <2>3, <1>6
    <3>. QED
      BY <2>3, <3>1, <1>6
  <2>4. CASE k \in 1..Len(h) /\ h[k].donor # a
    <3>1. h[k].donor \in Addresses
      <4>1. h[k] \in DonationRecord
        BY <2>4, <1>4
      <4>. QED
        BY <4>1 DEF DonationRecord
    <3>2. CASE don[i][h[k].donor] = h[k].amount + BaseFee
      BY <2>4, <3>1, <3>2, <1>6, <1>7
    <3>3. ASSUME NEW n \in (k + 1)..Len(h), h[n].donor = h[k].donor
          PROVE  \E m \in (k + 1)..(Len(h) + 1) : Append(h, rec)[m].donor = Append(h, rec)[k].donor
      <4>1. n \in 1..Len(h) /\ n \in (k + 1)..(Len(h) + 1)
        BY <2>4, <1>6
      <4>. QED
        BY <4>1, <3>3, <2>4, <1>6
    <3>. QED
      BY <2>4, <3>2, <3>3, <1>5, <1>6 DEF Latest
  <2>. QED
    BY <2>2, <2>3, <2>4, <1>6
<1>12. ASSUME NEW id \in Ids
       PROVE /\ Once(donors'[id]) /\ Described(donors'[id], don'[id])
             /\ Listed(history'[id], donors'[id]) /\ Latest(history'[id], don'[id])
  <2>1. CASE id = i
    <3>1. donors'[id] = ds /\ don'[id] = md /\ history'[id] = Append(h, rec)
      BY <1>1, <2>1 DEF TypeOK
    <3>. QED
      BY <3>1, <1>8, <1>9, <1>10, <1>11
  <2>2. CASE id # i
    <3>1. donors'[id] = donors[id] /\ don'[id] = don[id] /\ history'[id] = history[id]
      BY <1>1, <2>2 DEF TypeOK
    <3>. QED
      BY <3>1, RecordsByPart
  <2>. QED
    BY <2>1, <2>2
<1>. QED
  BY <1>12 DEF DonorRecords, Once, Described, Listed, Latest

LEMMA InitRecords == Init => DonorRecords
<1>1. SUFFICES ASSUME Init, NEW id \in Ids
               PROVE  /\ Once(donors[id]) /\ Described(donors[id], don[id])
                      /\ Listed(history[id], donors[id]) /\ Latest(history[id], don[id])
  BY RecordsByPart
<1>2. donors[id] = <<>> /\ history[id] = <<>>
  BY <1>1 DEF Init
<1>. QED
  BY <1>2 DEF Once, Described, Listed, Latest

LEMMA StepRecords == TypeOK /\ DonorRecords /\ [Next]_vars => DonorRecords'
<1>1. SUFFICES ASSUME TypeOK, DonorRecords, [Next]_vars PROVE DonorRecords'
  OBVIOUS
<1>2. ASSUME UNCHANGED donationVars PROVE DonorRecords'
  BY <1>1, <1>2 DEF donationVars, DonorRecords
<1>3. CASE UNCHANGED vars
  BY <1>2, <1>3 DEF vars
<1>4. ASSUME NEW a \in Addresses, Call(a) PROVE DonorRecords'
  BY <1>1, <1>2, <1>4, DonateRecords
     DEF Call, Initialize, CreateCampaign, Withdraw, ApproveWithdrawal, SubmitTransaction
<1>. QED
  BY <1>1, <1>3, <1>4, NextIsCall

\* Donor list, donor count and metadata are what the history says, each donor
\* once.  (donate, get_donors, get_donation, get_donation_history)
THEOREM CoreDonorRecords == Spec => []DonorRecords
  BY InitType, StepType, InitRecords, StepRecords, PTL DEF Spec

-----------------------------------------------------------------------------
(* What a campaign has raised, from its records *)

LEMMA IdsFinite == IsFiniteSet(Ids)
  BY CoreAssumption, FS_Interval DEF Ids

\* What one record adds to a sum.
Part(r, S) == IF r.asset \in S THEN r.amount ELSE 0

LEMMA NetSumOf ==
  ASSUME NEW h \in Seq(DonationRecord), NEW S
  PROVE  LET f == [i \in 1..Len(h) |-> Part(h[i], S)]
         IN  /\ NetSum(h, S) = SumFunctionOnSet(f, 1..Len(h)) /\ NetSum(h, S) \in Int
             /\ IsFiniteSet(1..Len(h)) /\ \A i \in 1..Len(h) : f[i] \in Int
<1>. DEFINE f == [i \in 1..Len(h) |-> Part(h[i], S)]
<1>1. NetSum(h, S) = SumFunction(f)
  BY DEF NetSum, Part
<1>2. IsFiniteSet(1..Len(h))
  <2>1. Len(h) \in Int
    OBVIOUS
  <2>. QED
    BY <2>1, FS_Interval
<1>3. \A i \in 1..Len(h) : f[i] \in Int
  <2>1. \A i \in 1..Len(h) : h[i] \in DonationRecord
    OBVIOUS
  <2>2. \A i \in 1..Len(h) : h[i].amount \in Nat
    BY <2>1 DEF DonationRecord
  <2>. QED
    BY <2>2 DEF Part
<1>4. DOMAIN f = 1..Len(h)
  OBVIOUS
<1>. HIDE DEF f
<1>5. SumFunctionOnSet(f, 1..Len(h)) \in Int
  BY <1>2, <1>3, SumInt
<1>. QED
  BY <1>1, <1>2, <1>3, <1>4, <1>5, SumWhole DEF f

LEMMA NetSumEmpty ==
  ASSUME NEW S
  PROVE  NetSum(<<>>, S) = 0
<1>1. <<>> \in Seq(DonationRecord) /\ Len(<<>>) = 0 /\ 1..0 = {}
  OBVIOUS
<1>. QED
  BY <1>1, NetSumOf, SumEmpty

\* A record more adds its part.
LEMMA NetSumAppend ==
  ASSUME NEW h \in Seq(DonationRecord), NEW r \in DonationRecord, NEW S
  PROVE  NetSum(Append(h, r), S) = NetSum(h, S) + Part(r, S)
<1>. DEFINE n == Len(h)
            last == n + 1
            all == 1..last
            h1 == Append(h, r)
            f == [i \in 1..n |-> Part(h[i], S)]
            g == [i \in all |-> Part(h1[i], S)]
<1>1. /\ h1 \in Seq(DonationRecord) /\ Len(h1) = n + 1 /\ n \in Nat
      /\ h1[n + 1] = r /\ \A i \in 1..n : h1[i] = h[i]
  OBVIOUS
<1>2. /\ NetSum(h1, S) = SumFunctionOnSet(g, all)
      /\ IsFiniteSet(all) /\ \A i \in all : g[i] \in Int
  BY <1>1, NetSumOf
<1>3. NetSum(h, S) = SumFunctionOnSet(f, 1..n) /\ IsFiniteSet(1..n) /\ \A i \in 1..n : f[i] \in Int
  BY NetSumOf
<1>4. last \in all /\ all \ {last} = 1..n
  BY <1>1
<1>5. g[last] = Part(r, S) /\ \A i \in 1..n : f[i] = g[i]
  BY <1>1, <1>4
<1>. HIDE DEF f, g, h1, n, last, all
<1>6. SumFunctionOnSet(g, all) = g[last] + SumFunctionOnSet(g, 1..n)
  <2>1. SumFunctionOnSet(g, all) = g[last] + SumFunctionOnSet(g, all \ {last})
    BY <1>2, <1>4, SumTakeOut
  <2>. QED
    BY <1>4, <2>1
<1>7. SumFunctionOnSet(g, 1..n) = SumFunctionOnSet(f, 1..n) /\ SumFunctionOnSet(f, 1..n) \in Int
  BY <1>3, <1>5, SumAgree, SumInt
<1>8. g[last] \in Int
  BY <1>2, <1>4
<1>. QED
  BY <1>2, <1>3, <1>5, <1>6, <1>7, <1>8 DEF h1

\* The records since some point, when one more is appended.
LEMMA SinceAppend ==
  ASSUME NEW S, NEW h \in Seq(S), NEW r \in S, NEW m \in Nat, m <= Len(h)
  PROVE  /\ SubSeq(Append(h, r), m + 1, Len(Append(h, r))) = Append(SubSeq(h, m + 1, Len(h)), r)
         /\ SubSeq(h, m + 1, Len(h)) \in Seq(S)
<1>. DEFINE n == Len(h)
            s == SubSeq(h, m + 1, n)
            t == SubSeq(Append(h, r), m + 1, n + 1)
<1>1. /\ n \in Nat /\ m <= n /\ Len(Append(h, r)) = n + 1 /\ Append(h, r) \in Seq(S)
      /\ Append(h, r)[n + 1] = r /\ \A i \in 1..n : Append(h, r)[i] = h[i]
  OBVIOUS
<1>2. /\ s \in Seq(S) /\ Len(s) = n - m /\ \A i \in 1..(n - m) : s[i] = h[m + i]
  BY <1>1, SubSeqProperties
<1>3. /\ t \in Seq(S) /\ Len(t) = n + 1 - m
      /\ \A i \in 1..(n + 1 - m) : t[i] = Append(h, r)[m + i]
  BY <1>1, SubSeqProperties
<1>. HIDE DEF s, t, n
<1>4. /\ Append(s, r) \in Seq(S) /\ Len(Append(s, r)) = n + 1 - m
      /\ \A i \in 1..(n - m) : Append(s, r)[i] = s[i]
      /\ Append(s, r)[n + 1 - m] = r
  <2>1. /\ Append(s, r) \in Seq(S) /\ Len(Append(s, r)) = Len(s) + 1
        /\ \A i \in 1..Len(s) : Append(s, r)[i] = s[i]
        /\ Append(s, r)[Len(s) + 1] = r
    BY <1>2, AppendProperties
  <2>2. Len(s) = n - m /\ Len(s) + 1 = n + 1 - m
    BY <1>1, <1>2
  <2>. QED
    BY <2>1, <2>2
<1>5. \A i \in 1..(n + 1 - m) : t[i] = Append(s, r)[i]
  <2>. SUFFICES ASSUME NEW i \in 1..(n + 1 - m) PROVE t[i] = Append(s, r)[i]
    OBVIOUS
  <2>1. CASE i \in 1..(n - m)
    <3>1. m + i \in 1..n
      BY <1>1, <2>1
    <3>. QED
      BY <1>1, <1>2, <1>3, <1>4, <2>1, <3>1
  <2>2. CASE i = n + 1 - m
    <3>1. m + i = n + 1
      BY <1>1, <2>2
    <3>. QED
      BY <1>1, <1>3, <1>4, <2>2, <3>1
  <2>3. i \in 1..(n - m) \/ i = n + 1 - m
    <3>1. n \in Nat /\ m \in Nat /\ m <= n
      BY <1>1
    <3>. QED
      BY <3>1
  <2>. QED
    BY <2>1, <2>2, <2>3
<1>6. t = Append(s, r)
  BY <1>3, <1>4, <1>5, SeqEqual
<1>. QED
  BY <1>1, <1>2, <1>6 DEF s, t, n

\* The history of an identifier is at least as long as it was when its last
\* campaign was created.
Balance(id) ==
    /\ before[id] <= Len(history[id])
    /\ camp[id] # None => camp[id].raised = Wrapped(NetSum(Since(id), Assets) - approved[id], MaxI128)
    /\ \A a \in Assets : araised[id][a] = Wrapped(NetSum(history[id], {a}), MaxI128)

BalanceInv == TypeOK /\ \A id \in Ids : Balance(id)

LEMMA InitBalance == Init => BalanceInv
<1>. SUFFICES ASSUME Init, NEW id \in Ids PROVE Balance(id)
  BY InitType DEF BalanceInv
<1>1. /\ history[id] = <<>> /\ before[id] = 0 /\ camp[id] = None
      /\ \A a \in Assets : araised[id][a] = 0
  BY DEF Init
<1>2. Wrapped(0, MaxI128) = 0
  BY Numbers, WrappedRange DEF I128
<1>. QED
  BY <1>1, <1>2, NetSumEmpty DEF Balance

LEMMA CreateBalance ==
  ASSUME BalanceInv, NEW a \in Addresses, NEW goal \in Goals, CreateCampaign(a, goal), NEW id \in Ids
  PROVE  Balance(id)'
<1>1. Balance(id) /\ history[id] \in Seq(DonationRecord) /\ NewId \in Ids
  <2>1. Balance(id)
    BY DEF BalanceInv
  <2>2. history[id] \in Seq(DonationRecord)
    BY DEF BalanceInv, TypeOK
  <2>3. count \in Nat /\ MaxCampaigns \in Nat /\ count < MaxCampaigns
    BY CoreAssumption DEF BalanceInv, TypeOK, CreateCampaign
  <2>4. NewId \in Ids
    BY <2>3 DEF NewId, Ids
  <2>. QED
    BY <2>1, <2>2, <2>4
<1>2. UNCHANGED <<history, araised>>
  BY DEF CreateCampaign, donationVars
<1>3. CASE id = NewId
  <2>1. camp'[id].raised = 0 /\ before'[id] = Len(history[id]) /\ approved'[id] = 0
    BY <1>3 DEF CreateCampaign, BalanceInv, TypeOK
  <2>2. Since(id)' = <<>>
    <3>1. Since(id)' = SubSeq(history[id], Len(history[id]) + 1, Len(history[id]))
      BY <1>2, <2>1 DEF Since
    <3>2. Len(history[id]) \in Nat
      BY <1>1
    <3>. QED
      BY <1>1, <3>1, <3>2
  <2>3. NetSum(Since(id)', Assets) = 0 /\ Wrapped(0, MaxI128) = 0
    BY <2>2, NetSumEmpty, Numbers, WrappedRange DEF I128
  <2>. QED
    BY <1>1, <1>2, <2>1, <2>3 DEF Balance
<1>4. CASE id # NewId
  <2>1. camp'[id] = camp[id] /\ before'[id] = before[id] /\ approved'[id] = approved[id]
    BY <1>4 DEF CreateCampaign, BalanceInv, TypeOK
  <2>2. Since(id)' = Since(id)
    BY <1>2, <2>1 DEF Since
  <2>. QED
    BY <1>1, <1>2, <2>1, <2>2 DEF Balance
<1>. QED
  BY <1>3, <1>4

AssetSum(id, asset) == NetSum(history[id], {asset})

\* A donation adds its net amount to the sum of its campaign, and to that of its
\* asset.
LEMMA DonateSums ==
  ASSUME BalanceInv, NEW a \in Addresses, NEW i \in Ids, NEW amount \in Amounts,
         NEW asset \in Assets \cup {EmptySymbol}, Donate(a, i, amount, asset)
  PROVE  /\ Net(amount) \in Nat /\ Net(amount) > 0
         /\ NetSum(Since(i), Assets) \in Int
         /\ NetSum(Since(i)', Assets) = NetSum(Since(i), Assets) + Net(amount)
         /\ before'[i] <= Len(history'[i])
         /\ \A b \in Assets :
             /\ AssetSum(i, b) \in Int
             /\ AssetSum(i, b)' = AssetSum(i, b) + IF b = asset THEN Net(amount) ELSE 0
<1>. DEFINE r == [donor |-> a, amount |-> amount - BaseFee, asset |-> asset]
            h == history[i]
<1>1. /\ Balance(i) /\ h \in Seq(DonationRecord) /\ asset \in Assets /\ AmountSuffices(amount)
      /\ before[i] \in Nat /\ UNCHANGED before
  BY DEF BalanceInv, TypeOK, Donate, historyVars
<1>2. /\ r \in DonationRecord /\ Net(amount) = r.amount /\ r.amount \in Nat /\ r.amount > 0
      /\ r.asset = asset
  <2>1. amount - BaseFee \in 1..MaxI128 /\ Net(amount) = amount - BaseFee /\ MaxI128 \in Nat
    BY <1>1, NetPositive, Numbers
  <2>. QED
    BY <1>1, <2>1 DEF DonationRecord
<1>3. history'[i] = Append(h, r)
  BY DEF Donate, BalanceInv, TypeOK
<1>. HIDE DEF r, h
<1>4. Since(i)' = Append(Since(i), r) /\ Since(i) \in Seq(DonationRecord) /\ before[i] <= Len(h)
  <2>1. Since(i)' = SubSeq(Append(h, r), before[i] + 1, Len(Append(h, r)))
    BY <1>1, <1>3 DEF Since
  <2>2. before[i] <= Len(h) /\ Since(i) = SubSeq(h, before[i] + 1, Len(h))
    BY <1>1 DEF Balance, Since, h
  <2>3. /\ SubSeq(Append(h, r), before[i] + 1, Len(Append(h, r)))
                = Append(SubSeq(h, before[i] + 1, Len(h)), r)
        /\ SubSeq(h, before[i] + 1, Len(h)) \in Seq(DonationRecord)
    BY <1>1, <1>2, <2>2, SinceAppend
  <2>. QED
    BY <2>1, <2>2, <2>3
<1>5. NetSum(Since(i)', Assets) = NetSum(Since(i), Assets) + Net(amount) /\ NetSum(Since(i), Assets) \in Int
  <2>1. Part(r, Assets) = r.amount
    BY <1>1, <1>2 DEF Part
  <2>2. /\ NetSum(Append(Since(i), r), Assets) = NetSum(Since(i), Assets) + Part(r, Assets)
        /\ NetSum(Since(i), Assets) \in Int
    BY <1>2, <1>4, NetSumAppend, NetSumOf
  <2>. QED
    BY <1>2, <1>4, <2>1, <2>2
<1>6. ASSUME NEW b \in Assets
      PROVE  /\ NetSum(h, {b}) \in Int
             /\ NetSum(history'[i], {b}) = NetSum(h, {b}) + IF b = asset THEN Net(amount) ELSE 0
  <2>1. NetSum(Append(h, r), {b}) = NetSum(h, {b}) + Part(r, {b}) /\ NetSum(h, {b}) \in Int
    BY <1>1, <1>2, NetSumAppend, NetSumOf
  <2>2. Part(r, {b}) = IF b = asset THEN Net(amount) ELSE 0
    BY <1>2 DEF Part
  <2>. QED
    BY <1>3, <2>1, <2>2
<1>7. before'[i] <= Len(history'[i])
  <2>1. Len(history'[i]) = Len(h) + 1 /\ Len(h) \in Nat
    BY <1>1, <1>2, <1>3
  <2>. QED
    BY <1>1, <1>4, <2>1
<1>. QED
  BY <1>2, <1>5, <1>6, <1>7 DEF h, AssetSum

LEMMA DonateBalance ==
  ASSUME BalanceInv, NEW a \in Addresses, NEW i \in Ids, NEW amount \in Amounts,
         NEW asset \in Assets \cup {EmptySymbol}, Donate(a, i, amount, asset), NEW id \in Ids
  PROVE  Balance(id)'
<1>1. /\ Balance(i) /\ Balance(id) /\ camp[i] # None /\ camp[i] \in Campaign /\ approved[i] \in Nat
      /\ araised[i] \in [Assets -> I128] /\ amount \in Int /\ MaxI128 \in Nat
      /\ UNCHANGED <<before, approved>>
  BY Numbers DEF BalanceInv, TypeOK, Donate, Exists, historyVars
<1>. DEFINE sum == NetSum(Since(i), Assets)
            net == Net(amount)
            debit == approved[i]
<1>2. net \in Int /\ sum \in Int /\ NetSum(Since(i)', Assets) = sum + net
  BY DonateSums
<1>3. CASE id = i
  <2>1. camp'[i].raised = Wrapped(camp[i].raised + net, MaxI128)
    BY <1>1 DEF Donate, Credited, BalanceInv, TypeOK, Campaign
  <2>2. camp'[i].raised = Wrapped(NetSum(Since(i)', Assets) - approved'[i], MaxI128)
    <3>1. camp[i].raised = Wrapped(sum - debit, MaxI128) /\ debit \in Int /\ approved'[i] = debit
      BY <1>1 DEF Balance
    <3>. HIDE DEF sum, net, debit
    <3>2. Wrapped(Wrapped(sum - debit, MaxI128) + net, MaxI128) = Wrapped((sum - debit) + net, MaxI128)
      <4>1. sum - debit \in Int /\ net \in Int /\ MaxI128 \in Nat
        BY <1>2, <3>1, Numbers
      <4>. QED
        BY <4>1, WrappedAdd
    <3>3. (sum - debit) + net = (sum + net) - debit
      BY <1>2, <3>1
    <3>. QED
      BY <1>2, <2>1, <3>1, <3>2, <3>3
  <2>3. ASSUME NEW b \in Assets PROVE araised'[i][b] = Wrapped(NetSum(history'[i], {b}), MaxI128)
    <3>1. araised' = [araised EXCEPT ![i] = [araised[i] EXCEPT ![asset] = Wrapped(araised[i][asset] + net, MaxI128)]]
      BY DEF Donate, AssetCredited, BalanceInv, TypeOK
    <3>2. araised'[i] = [araised[i] EXCEPT ![asset] = Wrapped(araised[i][asset] + net, MaxI128)]
      BY <3>1 DEF BalanceInv, TypeOK
    <3>. DEFINE total == NetSum(history[i], {b})
    <3>3. /\ araised[i][b] = Wrapped(total, MaxI128) /\ total \in Int
          /\ NetSum(history'[i], {b}) = total + IF b = asset THEN net ELSE 0
      <4>1. araised[i][b] = Wrapped(total, MaxI128)
        BY <1>1 DEF Balance
      <4>2. \A c \in Assets :
                /\ AssetSum(i, c) \in Int
                /\ AssetSum(i, c)' = AssetSum(i, c) + IF c = asset THEN Net(amount) ELSE 0
        BY DonateSums
      <4>3. /\ total \in Int
            /\ NetSum(history'[i], {b}) = total + IF b = asset THEN net ELSE 0
        BY <4>2 DEF AssetSum
      <4>. QED
        BY <4>1, <4>3
    <3>. HIDE DEF total, net
    <3>4. CASE b = asset
      <4>1. araised'[i][b] = Wrapped(Wrapped(total, MaxI128) + net, MaxI128)
        BY <1>1, <3>2, <3>3, <3>4
      <4>2. Wrapped(Wrapped(total, MaxI128) + net, MaxI128) = Wrapped(total + net, MaxI128)
        BY <1>1, <1>2, <3>3, WrappedAdd
      <4>. QED
        BY <3>3, <3>4, <4>1, <4>2
    <3>5. CASE b # asset
      <4>1. araised'[i][b] = araised[i][b] /\ total + 0 = total
        BY <1>1, <3>2, <3>3, <3>5
      <4>. QED
        BY <3>3, <3>5, <4>1
    <3>. QED
      BY <3>4, <3>5
  <2>. QED
    BY <1>3, <2>2, <2>3, DonateSums DEF Balance
<1>4. CASE id # i
  <2>1. /\ camp'[id] = camp[id] /\ history'[id] = history[id] /\ araised'[id] = araised[id]
    BY <1>4 DEF Donate, BalanceInv, TypeOK
  <2>2. Since(id)' = Since(id)
    BY <1>1, <2>1 DEF Since
  <2>. QED
    BY <1>1, <2>1, <2>2 DEF Balance
<1>. QED
  BY <1>3, <1>4

LEMMA SinceSum ==
  ASSUME BalanceInv, NEW id \in Ids
  PROVE  NetSum(Since(id), Assets) \in Int
<1>1. history[id] \in Seq(DonationRecord) /\ before[id] \in Nat /\ before[id] <= Len(history[id])
  BY DEF BalanceInv, TypeOK, Balance
<1>2. Since(id) \in Seq(DonationRecord)
  BY <1>1, SubSeqProperties DEF Since
<1>. QED
  BY <1>2, NetSumOf

LEMMA ApproveBalance ==
  ASSUME BalanceInv, NEW a \in Addresses, NEW i \in Ids, ApproveWithdrawal(a, i), NEW id \in Ids
  PROVE  Balance(id)'
<1>1. /\ Balance(id) /\ UNCHANGED <<history, araised, before>> /\ history[id] \in Seq(DonationRecord)
      /\ before[id] \in Nat
  BY DEF BalanceInv, ApproveWithdrawal, donationVars, TypeOK
<1>2. Since(id)' = Since(id)
  BY <1>1 DEF Since
<1>3. CASE id = i
  <2>1. /\ camp[i] # None /\ camp[i] \in Campaign /\ pendwith[i] \in WithdrawalRequest
        /\ pendwith[i].amount <= camp[i].raised /\ approved[i] \in Nat
    BY DEF ApproveWithdrawal, Exists, Covers, BalanceInv, TypeOK
  <2>2. pendwith[i].amount \in Nat
    BY <2>1, DebitedType
  <2>3. /\ camp'[i].raised = camp[i].raised - pendwith[i].amount
        /\ approved'[i] = approved[i] + pendwith[i].amount
    BY <2>1 DEF ApproveWithdrawal, Debited, BalanceInv, TypeOK, Campaign
  <2>. DEFINE sum == NetSum(Since(i), Assets)
              debit == approved[i]
              amount == pendwith[i].amount
  <2>4. sum \in Int
    BY <1>1, <1>3, SinceSum
  <2>5. /\ camp[i].raised = Wrapped(sum - debit, MaxI128) /\ camp[i].raised - amount \in I128
        /\ MaxI128 \in Nat
    <3>1. camp[i].raised - amount \in 0..MaxI128
      BY <2>1, DebitedType
    <3>2. camp[i].raised - amount \in I128
      BY <3>1, Numbers DEF I128, IntegersUpTo
    <3>. QED
      BY <1>1, <1>3, <2>1, <3>2, Numbers DEF Balance
  <2>6. camp'[i].raised = camp[i].raised - amount /\ approved'[i] = debit + amount
    BY <2>3
  <2>7. camp'[i].raised = Wrapped(sum - approved'[i], MaxI128)
    <3>1. debit \in Int /\ amount \in Int
      BY <2>1, <2>2
    <3>. HIDE DEF sum, debit, amount
    <3>2. Wrapped(Wrapped(sum - debit, MaxI128) + (-amount), MaxI128) = Wrapped((sum - debit) + (-amount), MaxI128)
      BY <2>4, <2>5, <3>1, WrappedAdd
    <3>3. (sum - debit) + (-amount) = sum - (debit + amount)
      BY <2>4, <3>1
    <3>4. Wrapped(sum - debit, MaxI128) \in Int
      BY <2>4, <2>5, <3>1, WrappedRange DEF IntegersUpTo
    <3>5. Wrapped(sum - debit, MaxI128) + (-amount) = camp[i].raised - amount
      BY <2>5, <3>1, <3>4
    <3>6. Wrapped(camp[i].raised - amount, MaxI128) = camp[i].raised - amount
      <4>1. camp[i].raised - amount \in Int
        BY <2>5, Numbers
      <4>. QED
        BY <2>5, <4>1, WrappedRange DEF I128
    <3>. QED
      BY <2>6, <3>2, <3>3, <3>5, <3>6
  <2>. QED
    BY <1>1, <1>2, <1>3, <2>7 DEF Balance
<1>4. CASE id # i
  <2>1. camp'[id] = camp[id] /\ approved'[id] = approved[id]
    BY <1>4 DEF ApproveWithdrawal, BalanceInv, TypeOK
  <2>. QED
    BY <1>1, <1>2, <2>1 DEF Balance
<1>. QED
  BY <1>3, <1>4

LEMMA StepBalance == BalanceInv /\ [Next]_vars => BalanceInv'
<1>1. SUFFICES ASSUME BalanceInv, [Next]_vars, NEW id \in Ids PROVE Balance(id)'
  BY StepType DEF BalanceInv
<1>2. ASSUME UNCHANGED <<camp, history, araised, before, approved>> PROVE Balance(id)'
  BY <1>1, <1>2 DEF BalanceInv, Balance, Since
<1>3. ASSUME NEW a \in Addresses, Call(a) PROVE Balance(id)'
  <2>1. CASE \/ Initialize(a) \/ \E i \in Ids : SubmitTransaction(a, i)
             \/ \E i \in Ids, amount \in Amounts : Withdraw(a, i, amount)
    BY <1>2, <2>1 DEF Initialize, SubmitTransaction, Withdraw, donationVars, historyVars
  <2>. QED
    BY <1>1, <1>3, <2>1, CreateBalance, DonateBalance, ApproveBalance DEF Call
<1>4. CASE UNCHANGED vars
  BY <1>2, <1>4 DEF vars, donationVars, historyVars
<1>. QED
  BY <1>1, <1>3, <1>4, NextIsCall

\* What a campaign has raised is what was donated to it less what was approved,
\* and the per-asset totals are the history's, exactly as long as they fit an i128
\* and wrapped around beyond, for any sequence of calls and through any reuse of
\* identifiers.  (donate, approve_withdrawal,
\* create_campaign, initialize, get_asset_raised)
THEOREM CoreBalance == Spec => []CampaignBalance
<1>1. BalanceInv => CampaignBalance
  BY DEF BalanceInv, Balance, CampaignBalance
<1>. QED
  BY <1>1, InitBalance, StepBalance, PTL DEF Spec

-----------------------------------------------------------------------------
(* A pending request stays covered *)

\* A campaign is stored under exactly the identifiers that were handed out.
BornExists == \A id \in Ids : camp[id] = None <=> born[id] = 0

\* What the invariant says of one identifier.
Fits(id) == NetSum(Since(id), Assets) <= MaxI128

Covered(id) ==
    (pendwith[id] # None /\ born[id] <= 1) =>
        /\ camp[id] # None /\ camp[id].creator = filedBy[id]
        /\ (pendwith[id].status = "Pending" /\ Fits(id)) => pendwith[id].amount <= camp[id].raised

\* As long as the donations fit an i128, no more was approved than was donated; so
\* the raised amount has not wrapped.
Spent(id) == Fits(id) => approved[id] <= NetSum(Since(id), Assets)

CoreInv == BalanceInv /\ BornExists /\ RequestCovered /\ \A id \in Ids : Spent(id)

Born(id) == camp[id] = None <=> born[id] = 0

LEMMA CoveredEverywhere ==
  /\ RequestCovered <=> \A id \in Ids : Covered(id)
  /\ BornExists <=> \A id \in Ids : Born(id)
  BY DEF RequestCovered, Covered, BornExists, Born, Fits

LEMMA InitCovered == Init => BornExists /\ RequestCovered /\ \A id \in Ids : Spent(id)
<1>. SUFFICES ASSUME Init PROVE BornExists /\ RequestCovered /\ \A id \in Ids : Spent(id)
  OBVIOUS
<1>1. BornExists /\ RequestCovered
  BY DEF Init, BornExists, RequestCovered
<1>2. ASSUME NEW id \in Ids PROVE Spent(id)
  <2>1. history[id] = <<>> /\ before[id] = 0 /\ approved[id] = 0
    BY DEF Init
  <2>2. Since(id) = <<>>
    BY <2>1 DEF Since
  <2>. QED
    BY <2>1, <2>2, NetSumEmpty DEF Spent
<1>. QED
  BY <1>1, <1>2

\* What a campaign has raised, as long as the donations fit.
LEMMA RaisedFits ==
  ASSUME BalanceInv, NEW id \in Ids, Spent(id), Fits(id), camp[id] # None
  PROVE  /\ camp[id].raised = NetSum(Since(id), Assets) - approved[id]
         /\ NetSum(Since(id), Assets) \in Int /\ approved[id] \in Nat
<1>. DEFINE sum == NetSum(Since(id), Assets)
            debit == approved[id]
<1>1. camp[id].raised = Wrapped(sum - debit, MaxI128) /\ debit \in Nat
  BY DEF BalanceInv, Balance, TypeOK
<1>2. sum \in Int /\ debit <= sum /\ sum <= MaxI128
  BY SinceSum DEF Spent, Fits
<1>. HIDE DEF sum, debit
<1>3. sum - debit \in I128 /\ sum - debit \in Int
  BY <1>1, <1>2, Numbers DEF I128, IntegersUpTo
<1>4. Wrapped(sum - debit, MaxI128) = sum - debit
  BY <1>3, Numbers, WrappedRange DEF I128
<1>. QED
  BY <1>1, <1>2, <1>4 DEF sum, debit

\* Calls that leave the sums of an identifier alone.
LEMMA SameSums ==
  ASSUME CoreInv, NEW id \in Ids, UNCHANGED <<history[id], before[id], approved[id]>>
  PROVE  /\ Spent(id)' /\ (Fits(id)' <=> Fits(id))
         /\ Born(id) /\ Covered(id) /\ Spent(id)
  BY CoveredEverywhere DEF CoreInv, Spent, Fits, Since

LEMMA CreateCovered ==
  ASSUME CoreInv, NEW a \in Addresses, NEW goal \in Goals, CreateCampaign(a, goal), NEW id \in Ids
  PROVE  Born(id)' /\ Covered(id)' /\ Spent(id)'
<1>. DEFINE new == [creator |-> a, goal |-> goal, raised |-> 0, active |-> TRUE]
<1>1. TypeOK /\ born[id] \in Nat /\ Born(id) /\ Covered(id) /\ NewId \in Ids /\ UNCHANGED <<history, pendwith, filedBy>>
  <2>1. TypeOK /\ Born(id) /\ Covered(id) /\ UNCHANGED <<history, pendwith, filedBy>>
    BY CoveredEverywhere DEF CoreInv, BalanceInv, CreateCampaign, donationVars
  <2>2. NewId \in Ids /\ born[id] \in Nat
    BY <2>1, CoreAssumption DEF TypeOK, NewId, CreateCampaign, Ids
  <2>. QED
    BY <2>1, <2>2
<1>2. new \in Campaign /\ new # None
  <2>1. new \in Campaign
    BY Numbers DEF Campaign
  <2>. QED
    BY <2>1, CoreAssumption
<1>3. CASE id = NewId
  <2>1. camp'[id] = new /\ born'[id] = born[id] + 1 /\ before'[id] = Len(history[id]) /\ approved'[id] = 0
    BY <1>1, <1>3 DEF CreateCampaign, TypeOK
  <2>2. born'[id] <= 1 => pendwith[id] = None
    BY <1>1, <2>1 DEF Born, Covered
  <2>3. Spent(id)'
    <3>1. Since(id)' = SubSeq(history[id], Len(history[id]) + 1, Len(history[id]))
      BY <1>1, <2>1 DEF Since
    <3>2. history[id] \in Seq(DonationRecord) /\ Len(history[id]) \in Nat
      BY <1>1 DEF TypeOK
    <3>3. Since(id)' = <<>>
      BY <3>1, <3>2
    <3>. QED
      BY <2>1, <3>3, NetSumEmpty DEF Spent
  <2>4. camp'[id] # None /\ born'[id] # 0
    BY <1>1, <1>2, <2>1
  <2>. QED
    BY <1>1, <2>2, <2>3, <2>4 DEF Born, Covered
<1>4. CASE id # NewId
  <2>1. UNCHANGED <<camp[id], born[id], before[id], approved[id]>>
    BY <1>1, <1>4 DEF CreateCampaign, TypeOK
  <2>. QED
    BY <1>1, <2>1, SameSums DEF Born, Covered
<1>. QED
  BY <1>3, <1>4

LEMMA DonateCovered ==
  ASSUME CoreInv, NEW a \in Addresses, NEW i \in Ids, NEW amount \in Amounts,
         NEW asset \in Assets \cup {EmptySymbol}, Donate(a, i, amount, asset), NEW id \in Ids
  PROVE  Born(id)' /\ Covered(id)' /\ Spent(id)'
<1>. DEFINE sum == NetSum(Since(i), Assets)
            net == Net(amount)
            debit == approved[i]
<1>1. /\ TypeOK /\ Born(id) /\ Covered(id) /\ Spent(id) /\ camp[i] \in Campaign /\ camp[i] # None
      /\ amount \in Int /\ debit \in Nat /\ UNCHANGED <<before, approved, pendwith, born, filedBy>>
  BY CoveredEverywhere, Numbers DEF CoreInv, BalanceInv, TypeOK, Donate, Exists, historyVars
<1>2. CASE id = i
  <2>1. /\ net \in Nat /\ net > 0 /\ sum \in Int /\ NetSum(Since(id)', Assets) = sum + net
    BY <1>2, DonateSums DEF CoreInv
  <2>2. /\ camp'[id] = Credited(camp[id], amount) /\ camp'[id] # None
        /\ camp'[id] = [camp[id] EXCEPT !.raised = Wrapped(camp[id].raised + net, MaxI128)]
    BY <1>1, <1>2, Numbers, CreditedType DEF Donate, TypeOK
  <2>3. camp'[id].creator = camp[id].creator /\ camp'[id].raised = Wrapped(camp[id].raised + net, MaxI128)
    BY <1>1, <1>2, <2>2 DEF Campaign
  <2>4. ASSUME Fits(id)'
        PROVE  /\ Fits(id) /\ debit <= sum + net
               /\ camp[id].raised \in Int /\ camp'[id].raised = camp[id].raised + net
    <3>1. sum + net <= MaxI128
      BY <2>1, <2>4 DEF Fits
    <3>2. Fits(id)
      <4>1. sum <= MaxI128
        BY <2>1, <3>1, Numbers
      <4>. QED
        BY <1>2, <4>1 DEF Fits
    <3>3. camp[id].raised = sum - debit /\ debit <= sum
      BY <1>1, <1>2, <3>2, RaisedFits DEF CoreInv, Spent
    <3>. HIDE DEF sum, net, debit
    <3>4. /\ camp[id].raised + net \in I128 /\ camp[id].raised \in Int /\ camp[id].raised + net \in Int
          /\ debit <= sum + net
      BY <1>1, <2>1, <3>1, <3>3, Numbers DEF I128, IntegersUpTo
    <3>5. Wrapped(camp[id].raised + net, MaxI128) = camp[id].raised + net
      BY <3>4, Numbers, WrappedRange DEF I128
    <3>. QED
      BY <2>3, <3>2, <3>4, <3>5
  <2>5. Spent(id)'
    BY <1>1, <1>2, <2>1, <2>4 DEF Spent
  <2>6. (pendwith[id] # None /\ Fits(id)' /\ pendwith[id].amount <= camp[id].raised) =>
            pendwith[id].amount <= camp'[id].raised
    <3>1. pendwith[id] # None => pendwith[id].amount \in Int
      BY <1>1, Numbers DEF TypeOK, WithdrawalRequest
    <3>. HIDE DEF net
    <3>. QED
      BY <2>1, <2>4, <3>1
  <2>7. born'[id] = born[id] /\ pendwith'[id] = pendwith[id] /\ filedBy'[id] = filedBy[id] /\ camp[id] # None
    BY <1>1, <1>2
  <2>8. Born(id)'
    BY <1>1, <2>2, <2>7 DEF Born
  <2>9. Covered(id)'
    BY <1>1, <2>2, <2>3, <2>4, <2>6, <2>7 DEF Covered
  <2>. QED
    BY <2>5, <2>8, <2>9
<1>3. CASE id # i
  <2>1. UNCHANGED <<camp[id], history[id]>>
    BY <1>1, <1>3 DEF Donate, TypeOK
  <2>. QED
    BY <1>1, <2>1, SameSums DEF Born, Covered
<1>. QED
  BY <1>2, <1>3

LEMMA WithdrawCovered ==
  ASSUME CoreInv, NEW a \in Addresses, NEW i \in Ids, NEW amount \in Amounts,
         Withdraw(a, i, amount), NEW id \in Ids
  PROVE  Born(id)' /\ Covered(id)' /\ Spent(id)'
<1>1. TypeOK /\ UNCHANGED <<camp, history, born, before, approved>>
  BY DEF CoreInv, BalanceInv, Withdraw, donationVars
<1>2. Spent(id)' /\ Born(id) /\ Covered(id) /\ (Fits(id)' <=> Fits(id))
  BY <1>1, SameSums
<1>3. CASE id = i
  <2>1. pendwith'[id] = [amount |-> amount, status |-> "Pending"] /\ filedBy'[id] = a
    BY <1>1, <1>3 DEF Withdraw, TypeOK
  <2>2. camp[id] # None /\ camp[id].creator = a /\ camp[id].raised >= amount
    BY <1>3 DEF Withdraw, Exists, Covers
  <2>3. camp[id].raised \in Int /\ amount \in Int
    BY <1>1, <2>2, Numbers DEF TypeOK, Campaign
  <2>4. amount <= camp[id].raised
    BY <2>2, <2>3
  <2>. QED
    BY <1>1, <1>2, <2>1, <2>2, <2>4 DEF Born, Covered
<1>4. CASE id # i
  <2>1. pendwith'[id] = pendwith[id] /\ filedBy'[id] = filedBy[id]
    BY <1>1, <1>4 DEF Withdraw, TypeOK
  <2>. QED
    BY <1>1, <1>2, <2>1 DEF Born, Covered
<1>. QED
  BY <1>3, <1>4

LEMMA ApproveCovered ==
  ASSUME CoreInv, NEW a \in Addresses, NEW i \in Ids, ApproveWithdrawal(a, i), NEW id \in Ids
  PROVE  Born(id)' /\ Covered(id)' /\ Spent(id)'
<1>1. /\ TypeOK /\ Born(id) /\ Covered(id) /\ Spent(id)
      /\ UNCHANGED <<history, before, born, filedBy>>
  BY CoveredEverywhere DEF CoreInv, BalanceInv, ApproveWithdrawal, donationVars
<1>2. (Fits(id)' <=> Fits(id)) /\ Since(id)' = Since(id)
  BY <1>1 DEF Fits, Since
<1>3. CASE id = i
  <2>1. /\ camp[id] \in Campaign /\ camp[id] # None /\ pendwith[id] \in WithdrawalRequest
        /\ pendwith[id].amount <= camp[id].raised
    BY <1>1, <1>3 DEF TypeOK, ApproveWithdrawal, Exists, Covers
  <2>2. /\ camp'[id] = Debited(camp[id], pendwith[id].amount)
        /\ pendwith'[id] = [pendwith[id] EXCEPT !.status = "Approved"]
        /\ approved'[id] = approved[id] + pendwith[id].amount
    BY <1>1, <1>3 DEF ApproveWithdrawal, TypeOK
  <2>3. pendwith'[id].status = "Approved" /\ pendwith[id] # None
    BY <2>1, <2>2, CoreAssumption DEF WithdrawalRequest
  <2>4. camp'[id] # None /\ camp'[id].creator = camp[id].creator
    <3>1. camp'[id] \in Campaign
      BY <2>1, <2>2, DebitedType
    <3>2. camp'[id].creator = camp[id].creator
      BY <2>1, <2>2 DEF Debited, Campaign
    <3>. QED
      BY <3>1, <3>2, CoreAssumption
  <2>5. Spent(id)'
    <3>1. SUFFICES ASSUME Fits(id) PROVE approved'[id] <= NetSum(Since(id), Assets)
      BY <1>2 DEF Spent
    <3>2. /\ camp[id].raised = NetSum(Since(id), Assets) - approved[id]
          /\ NetSum(Since(id), Assets) \in Int /\ approved[id] \in Nat
      BY <1>1, <2>1, <3>1, RaisedFits DEF CoreInv
    <3>3. pendwith[id].amount \in Nat
      BY <2>1, DebitedType
    <3>. QED
      BY <2>1, <2>2, <3>2, <3>3
  <2>. QED
    BY <1>1, <2>1, <2>3, <2>4, <2>5 DEF Born, Covered
<1>4. CASE id # i
  <2>1. UNCHANGED <<camp[id], pendwith[id], approved[id]>>
    BY <1>1, <1>4 DEF ApproveWithdrawal, TypeOK
  <2>. QED
    BY <1>1, <2>1, SameSums DEF Born, Covered
<1>. QED
  BY <1>3, <1>4

LEMMA SubmitCovered ==
  ASSUME CoreInv, NEW a \in Addresses, NEW i \in Ids, SubmitTransaction(a, i), NEW id \in Ids
  PROVE  Born(id)' /\ Covered(id)' /\ Spent(id)'
<1>1. TypeOK /\ UNCHANGED <<camp, history, born, before, approved, filedBy>>
  BY DEF CoreInv, BalanceInv, SubmitTransaction, donationVars, historyVars
<1>2. Spent(id)' /\ Born(id) /\ Covered(id) /\ (Fits(id)' <=> Fits(id))
  BY <1>1, SameSums
<1>3. pendwith[i] \in WithdrawalRequest /\ pendwith' = [pendwith EXCEPT ![i] = [pendwith[i] EXCEPT !.status = "Submitted"]]
  BY <1>1 DEF SubmitTransaction, TypeOK
<1>4. CASE id = i
  <2>1. pendwith'[id].status = "Submitted" /\ pendwith[id] # None
    BY <1>1, <1>3, <1>4, CoreAssumption DEF WithdrawalRequest, TypeOK
  <2>. QED
    BY <1>1, <1>2, <2>1 DEF Born, Covered
<1>5. CASE id # i
  <2>1. pendwith'[id] = pendwith[id]
    BY <1>1, <1>3, <1>5 DEF TypeOK
  <2>. QED
    BY <1>1, <1>2, <2>1 DEF Born, Covered
<1>. QED
  BY <1>4, <1>5

LEMMA StepInv == CoreInv /\ [Next]_vars => CoreInv'
<1>1. SUFFICES ASSUME CoreInv, [Next]_vars PROVE CoreInv'
  OBVIOUS
<1>2. BalanceInv'
  BY <1>1, StepBalance DEF CoreInv
<1>3. ASSUME NEW id \in Ids, UNCHANGED <<camp, history, pendwith, historyVars>>
      PROVE  Born(id)' /\ Covered(id)' /\ Spent(id)'
  <2>1. UNCHANGED <<camp, history, pendwith, born, before, approved, filedBy>>
    BY <1>3 DEF historyVars
  <2>. QED
    BY <1>1, <2>1, SameSums DEF Born, Covered
<1>4. ASSUME NEW a \in Addresses, Call(a), NEW id \in Ids PROVE Born(id)' /\ Covered(id)' /\ Spent(id)'
  <2>1. CASE Initialize(a)
    <3>1. UNCHANGED <<camp, history, pendwith, born, before, approved, filedBy>>
      BY <2>1 DEF Initialize, donationVars
    <3>. QED
      BY <1>1, <3>1, SameSums DEF Born, Covered
  <2>. QED
    BY <1>1, <1>4, <2>1, CreateCovered, DonateCovered, WithdrawCovered, ApproveCovered, SubmitCovered DEF Call
<1>5. \A id \in Ids : Born(id)' /\ Covered(id)' /\ Spent(id)'
  <2>1. CASE UNCHANGED vars
    <3>1. UNCHANGED <<camp, history, pendwith, historyVars>>
      BY <2>1 DEF vars, donationVars
    <3>. QED
      BY <1>3, <3>1
  <2>. QED
    BY <1>1, <1>4, <2>1, NextIsCall
<1>. QED
  BY <1>2, <1>5 DEF CoreInv, BornExists, RequestCovered, Born, Covered, Fits

\* A campaign whose identifier has not been used again covers its own creator's
\* pending request until the administrator decides, as long as all donations to it
\* fit an i128.  (donate, withdraw, approve_withdrawal)
THEOREM CoreRequestCovered == Spec => []RequestCovered
<1>1. Init => CoreInv
  BY InitBalance, InitCovered DEF CoreInv
<1>2. CoreInv => RequestCovered
  BY DEF CoreInv
<1>. QED
  BY <1>1, <1>2, StepInv, PTL DEF Spec

-----------------------------------------------------------------------------
(* The dashboard: counters, numbers of campaigns and donors, progress *)

Lengths == [id \in Ids |-> Len(history[id])]

\* The counters count the entries, in spite of restarts; every number that was
\* handed out belongs to a campaign; and nobody is listed as a donor without a
\* record.
Dashboard ==
    /\ totaltx = totaldon + totalwd
    /\ totaldon = SumFunction(Lengths)
    /\ \A id \in 1..count : camp[id] # None
    /\ \A id \in Ids : Len(donors[id]) <= Len(history[id])

DashboardInv == TypeOK /\ Dashboard

\* The progress of a campaign that has reached its goal is full; below it is a
\* proper fraction, unless the product wraps.
LEMMA ProgressCases ==
  ASSUME NEW c, c.goal \in Int, c.raised \in Int, c.goal > 0
  PROVE  /\ c.raised >= c.goal => Progress(c) = 10000
         /\ (c.raised < c.goal /\ c.raised * 10000 <= MaxI128) => Progress(c) \in Nat /\ Progress(c) < 10000
<1>. DEFINE g == c.goal
            n == c.raised
            f == Progress(c)
<1>1. f = IF g <= 0 \/ (n <= 0 /\ n < g) THEN 0
                    ELSE IF n >= g THEN 10000 ELSE Quotient(Wrapped(n * 10000, MaxI128), g) % Word
  BY DEF Progress
<1>2. g \in Int /\ n \in Int /\ g > 0
  OBVIOUS
<1>. HIDE DEF g, n, f
<1>3. ASSUME n < g, n > 0, n * 10000 <= MaxI128 PROVE f \in Nat /\ f < 10000
  <2>. DEFINE m == n * 10000
              q == m \div g
  <2>1. g \in Nat \ {0} /\ m \in Nat /\ m < g * 10000 /\ g * 10000 \in Nat /\ m \in I128
    BY <1>2, <1>3, Numbers DEF I128, IntegersUpTo
  <2>. HIDE DEF m
  <2>2. Wrapped(m, MaxI128) = m
    BY <2>1, Numbers, WrappedRange DEF I128
  <2>3. Quotient(m, g) = q
    BY <2>1 DEF Quotient
  <2>4. q \in Nat /\ g * q <= m
    <3>1. \A p \in Nat : p \div g \in Nat /\ g * (p \div g) <= p
      BY <2>1
    <3>. QED
      BY <2>1, <3>1
  <2>. HIDE DEF q
  <2>5. q < 10000
    <3>1. SUFFICES ASSUME q >= 10000 PROVE FALSE
      BY <2>4
    <3>2. \A d \in Nat : d >= 10000 => g * 10000 <= g * d
      BY <2>1
    <3>3. g * 10000 <= g * q /\ g * q \in Nat
      BY <2>1, <2>4, <3>1, <3>2
    <3>. QED
      BY <2>1, <2>4, <3>3
  <2>6. f = q % Word
    BY <1>1, <1>2, <1>3, <2>2, <2>3 DEF m
  <2>7. q % Word \in Nat /\ q % Word <= q
    BY <2>4, Numbers
  <2>. QED
    BY <2>4, <2>5, <2>6, <2>7
<1>4. n <= 0 /\ n < g => f = 0
  BY <1>1
<1>5. n >= g => f = 10000
  BY <1>1, <1>2
<1>. QED
  BY <1>2, <1>3, <1>4, <1>5 DEF g, n, f

LEMMA ReportIsHonest ==
  ASSUME NEW id \in Ids, camp[id] \in Campaign, camp[id].goal > 0
  PROVE  Honest(GetCampaignReport(id))
<1>. DEFINE g == camp[id].goal
            n == camp[id].raised
            p == Progress(camp[id])
            r == GetCampaignReport(id)
<1>1. g \in Int /\ n \in Int
  BY Numbers DEF Campaign
<1>2. g > 0
  OBVIOUS
<1>3. /\ n >= g => p = 10000
      /\ (n < g /\ n * 10000 <= MaxI128) => p \in Nat /\ p < 10000
  BY <1>1, <1>2, ProgressCases
<1>4. /\ r.goal = g /\ r.raised = n /\ r.progress_bps = p
      /\ r.remaining = IF g <= 0 \/ n >= g THEN 0 ELSE IF n <= 0 THEN g ELSE g - n
  BY DEF GetCampaignReport
<1>. HIDE DEF g, n, p, r
<1>5. ASSUME n >= g PROVE Honest(r)
  <2>1. p = 10000 /\ r.remaining = 0
    BY <1>2, <1>3, <1>4, <1>5
  <2>. QED
    BY <1>4, <1>5, <2>1 DEF Honest
<1>6. ASSUME n < g PROVE Honest(r)
  <2>1. r.remaining = (IF n <= 0 THEN g ELSE g - n) /\ r.remaining \in Int /\ r.remaining > 0
    BY <1>1, <1>2, <1>4, <1>6
  <2>2. n >= 0 => r.remaining + n = g
    BY <1>1, <1>2, <1>6, <2>1
  <2>3. n * 10000 <= MaxI128 => p \in 0..10000 /\ p # 10000
    <3>1. SUFFICES ASSUME n * 10000 <= MaxI128 PROVE p \in 0..10000 /\ p # 10000
      OBVIOUS
    <3>2. p \in Nat /\ p < 10000
      BY <1>3, <1>6, <3>1
    <3>. QED
      BY <3>2
  <2>4. r.remaining # 0 /\ ~(n >= g)
    BY <1>1, <1>6, <2>1
  <2>. QED
    BY <1>4, <2>2, <2>3, <2>4 DEF Honest
<1>7. Honest(r)
  BY <1>1, <1>5, <1>6
<1>. QED
  BY <1>7 DEF r

(* A dashboard's report is honest when the campaign has no positive goal:
   there is nothing to report progress against. *)
LEMMA NothingToTell ==
  ASSUME NEW report, ~(report.goal > 0)
  PROVE  Honest(report)
  BY DEF Honest

LEMMA DashboardShows == DashboardInv => DashboardAgrees
<1>. SUFFICES ASSUME DashboardInv PROVE DashboardAgrees
  OBVIOUS
<1>1. totaltx = totaldon + totalwd /\ totaldon = SumFunction([id \in Ids |-> Len(history[id])])
  BY DEF DashboardInv, Dashboard, Lengths
<1>2. GetDashboardMetrics.active_campaigns = GetDashboardMetrics.total_campaigns
  <2>1. count \in Int /\ count >= 0 /\ 1..count \subseteq Ids
    BY CoreAssumption DEF DashboardInv, TypeOK, Ids
  <2>2. ASSUME NEW id \in 1..count PROVE camp[id] # None /\ camp[id].active = TRUE
    <3>1. camp[id] # None /\ id \in Ids
      BY <2>1 DEF DashboardInv, Dashboard
    <3>2. camp[id] \in Campaign
      BY <3>1 DEF DashboardInv, TypeOK
    <3>. QED
      BY <3>1, <3>2 DEF Campaign
  <2>3. {id \in 1..count : camp[id] # None /\ camp[id].active} = 1..count
    BY <2>2
  <2>4. Cardinality(1..count) = count
    BY <2>1, FS_Interval
  <2>. QED
    BY <2>3, <2>4 DEF GetDashboardMetrics
<1>3. ASSUME NEW id \in Ids, camp[id] # None
      PROVE  LET r == GetCampaignReport(id)
             IN  r.donor_count <= r.donation_count /\ Honest(r)
  <2>1. Len(donors[id]) <= Len(history[id]) /\ camp[id] \in Campaign
    <3>1. Len(donors[id]) <= Len(history[id])
      BY DEF DashboardInv, Dashboard
    <3>2. camp \in [Ids -> Campaign \cup {None}]
      BY DEF DashboardInv, TypeOK
    <3>. QED
      BY <1>3, <3>1, <3>2
  <2>2. GetCampaignReport(id).donor_count = Len(donors[id])
        /\ GetCampaignReport(id).donation_count = Len(history[id])
    BY DEF GetCampaignReport
  <2>3. Honest(GetCampaignReport(id))
    <3>1. GetCampaignReport(id).goal = camp[id].goal
      BY DEF GetCampaignReport
    <3>2. CASE ~(camp[id].goal > 0)
      BY <3>1, <3>2, NothingToTell
    <3>3. CASE camp[id].goal > 0
      BY <2>1, <3>3, ReportIsHonest
    <3>. QED
      BY <3>2, <3>3
  <2>. QED
    BY <2>1, <2>2, <2>3
<1>. QED
  BY <1>1, <1>2, <1>3 DEF DashboardAgrees, GetPlatformSummary

LEMMA InitDashboard == Init => DashboardInv
<1>. SUFFICES ASSUME Init PROVE Dashboard
  BY InitType DEF DashboardInv
<1>1. \A id \in Ids : Len(history[id]) = 0 /\ Len(donors[id]) = 0
  BY DEF Init
<1>2. SumFunction(Lengths) = 0
  BY <1>1, IdsFinite, SumWhole, SumZero DEF Lengths
<1>3. totaltx = 0 /\ totaldon = 0 /\ totalwd = 0 /\ count = 0
  BY DEF Init
<1>. QED
  BY <1>1, <1>2, <1>3 DEF Dashboard

LEMMA CreateDashboard ==
  ASSUME DashboardInv, NEW a \in Addresses, NEW goal \in Goals, CreateCampaign(a, goal)
  PROVE  Dashboard'
<1>1. NewId \in Ids /\ count \in Nat /\ count' = count + 1 /\ NewId = count + 1
  BY CoreAssumption DEF DashboardInv, TypeOK, NewId, CreateCampaign, Ids
<1>2. camp'[NewId] # None
  <2>1. camp'[NewId] = [creator |-> a, goal |-> goal, raised |-> 0, active |-> TRUE]
    BY <1>1 DEF CreateCampaign, DashboardInv, TypeOK
  <2>2. [creator |-> a, goal |-> goal, raised |-> 0, active |-> TRUE] \in Campaign
    BY Numbers DEF Campaign
  <2>. QED
    BY <2>1, <2>2, CoreAssumption
<1>3. ASSUME NEW id \in 1..count' PROVE camp'[id] # None
  <2>1. CASE id = NewId
    BY <1>2, <2>1
  <2>2. CASE id # NewId
    <3>1. id \in 1..count /\ id \in Ids
      BY <1>1, <1>3, <2>2, CoreAssumption DEF Ids, DashboardInv, TypeOK
    <3>2. camp'[id] = camp[id]
      BY <2>2, <3>1 DEF CreateCampaign, DashboardInv, TypeOK
    <3>. QED
      BY <3>1, <3>2 DEF DashboardInv, Dashboard
  <2>. QED
    BY <2>1, <2>2
<1>4. UNCHANGED <<totaltx, totaldon, totalwd, history, donors>>
  BY DEF CreateCampaign, counterVars, donationVars
<1>. QED
  BY <1>3, <1>4 DEF DashboardInv, Dashboard, Lengths

LEMMA DonateDashboard ==
  ASSUME DashboardInv, NEW a \in Addresses, NEW i \in Ids, NEW amount \in Amounts,
         NEW asset \in Assets \cup {EmptySymbol}, Donate(a, i, amount, asset)
  PROVE  Dashboard'
<1>. DEFINE rec == [donor |-> a, amount |-> amount - BaseFee, asset |-> asset]
<1>1. /\ totaltx' = totaltx + 1 /\ totaldon' = totaldon + 1 /\ totalwd' = totalwd /\ count' = count
      /\ history' = [history EXCEPT ![i] = Append(@, rec)]
      /\ donors' = [donors EXCEPT ![i] = WithDonor(@, a)]
      /\ camp' = [camp EXCEPT ![i] = Credited(@, amount)]
  BY DEF Donate
<1>2. \A id \in Ids : history[id] \in Seq(DonationRecord) /\ donors[id] \in Seq(Addresses)
  BY DEF DashboardInv, TypeOK
<1>. HIDE DEF rec
<1>3. /\ Len(history'[i]) = Len(history[i]) + 1
      /\ \A id \in Ids : id # i => history'[id] = history[id]
  <2>1. history'[i] = Append(history[i], rec) /\ \A id \in Ids : id # i => history'[id] = history[id]
    BY <1>1 DEF DashboardInv, TypeOK
  <2>. QED
    BY <1>2, <2>1
<1>4. SumFunction(Lengths') = SumFunction(Lengths) + 1
  <2>1. /\ DOMAIN Lengths = Ids /\ DOMAIN Lengths' = Ids
        /\ \A id \in Ids : /\ Lengths[id] = Len(history[id]) /\ Lengths'[id] = Len(history'[id])
                           /\ Lengths[id] \in Int /\ Lengths'[id] \in Int
                           /\ id # i => Lengths'[id] = Lengths[id]
    <3>1. \A id \in Ids : Len(history[id]) \in Int
      BY <1>2
    <3>2. \A id \in Ids : Len(history'[id]) \in Int
      BY <1>3, <3>1
    <3>. QED
      BY <1>3, <3>1, <3>2 DEF Lengths
  <2>. DEFINE f == Lengths
              g == Lengths'
  <2>. HIDE DEF f, g
  <2>2. SumFunctionOnSet(g, Ids) = SumFunctionOnSet(f, Ids) + g[i] - f[i]
    <3>1. \A id \in Ids : f[id] \in Int /\ g[id] \in Int /\ (id # i => g[id] = f[id])
      BY <2>1 DEF f, g
    <3>. QED
      BY <3>1, IdsFinite, SumChangeOne
  <2>3. g[i] = f[i] + 1 /\ f[i] \in Int
    BY <1>3, <2>1 DEF f, g
  <2>4. SumFunctionOnSet(f, Ids) \in Int
    <3>1. \A id \in Ids : f[id] \in Int
      BY <2>1 DEF f
    <3>. QED
      BY <3>1, IdsFinite, SumInt
  <2>5. SumFunction(g) = SumFunctionOnSet(g, Ids) /\ SumFunction(f) = SumFunctionOnSet(f, Ids)
    <3>1. DOMAIN f = Ids /\ DOMAIN g = Ids
      BY <2>1 DEF f, g
    <3>. QED
      BY <3>1, SumWhole
  <2>6. SumFunction(g) = SumFunction(f) + 1
    BY <2>2, <2>3, <2>4, <2>5
  <2>. QED
    BY <2>6 DEF f, g
<1>5. totaltx' = totaldon' + totalwd' /\ totaldon' = SumFunction(Lengths')
  BY <1>1, <1>4 DEF DashboardInv, Dashboard, TypeOK
<1>6. ASSUME NEW id \in 1..count' PROVE camp'[id] # None
  <2>1. id \in Ids /\ camp[id] # None
    <3>1. count' = count /\ count \in 0..MaxCampaigns /\ MaxCampaigns \in Nat
      BY <1>1, CoreAssumption DEF DashboardInv, TypeOK
    <3>2. id \in 1..count
      BY <1>6, <3>1
    <3>. QED
      BY <3>1, <3>2 DEF DashboardInv, Dashboard, Ids
  <2>3. CASE id = i
    <3>1. camp'[id] = Credited(camp[id], amount) /\ camp[id] \in Campaign
      BY <1>1, <2>1, <2>3 DEF DashboardInv, TypeOK
    <3>. QED
      BY <3>1, Numbers, CreditedType
  <2>4. CASE id # i
    BY <1>1, <2>1, <2>4 DEF DashboardInv, TypeOK
  <2>. QED
    BY <2>3, <2>4
<1>7. ASSUME NEW id \in Ids PROVE Len(donors'[id]) <= Len(history'[id])
  <2>1. Len(donors[id]) <= Len(history[id]) /\ Len(donors[id]) \in Nat /\ Len(history[id]) \in Nat
    BY <1>2 DEF DashboardInv, Dashboard
  <2>2. CASE id = i
    <3>1. donors'[id] = WithDonor(donors[id], a)
      BY <1>1, <2>2 DEF DashboardInv, TypeOK
    <3>2. WithDonor(donors[id], a) = donors[id] \/ WithDonor(donors[id], a) = Append(donors[id], a)
      BY DEF WithDonor
    <3>3. Len(Append(donors[id], a)) = Len(donors[id]) + 1
      BY <1>2
    <3>. QED
      BY <1>3, <2>1, <2>2, <3>1, <3>2, <3>3
  <2>3. CASE id # i
    <3>1. donors'[id] = donors[id]
      BY <1>1, <2>3 DEF DashboardInv, TypeOK
    <3>. QED
      BY <1>3, <2>1, <2>3, <3>1
  <2>. QED
    BY <2>2, <2>3
<1>. QED
  BY <1>5, <1>6, <1>7 DEF Dashboard

LEMMA ApproveDashboard ==
  ASSUME DashboardInv, NEW a \in Addresses, NEW i \in Ids, ApproveWithdrawal(a, i)
  PROVE  Dashboard'
<1>1. camp[i] \in Campaign /\ pendwith[i] \in WithdrawalRequest /\ pendwith[i].amount <= camp[i].raised
  BY DEF ApproveWithdrawal, Exists, Covers, DashboardInv, TypeOK
<1>2. Debited(camp[i], pendwith[i].amount) \in Campaign
  BY <1>1, DebitedType
<1>3. ASSUME NEW id \in 1..count PROVE camp'[id] # None
  <2>1. id \in Ids /\ camp[id] # None
    BY <1>3, CoreAssumption DEF DashboardInv, Dashboard, TypeOK, Ids
  <2>2. camp' = [camp EXCEPT ![i] = Debited(@, pendwith[i].amount)]
    BY DEF ApproveWithdrawal
  <2>3. CASE id = i
    <3>1. camp'[id] \in Campaign
      BY <1>2, <2>1, <2>2, <2>3 DEF DashboardInv, TypeOK
    <3>. QED
      BY <3>1, CoreAssumption
  <2>4. CASE id # i
    BY <2>1, <2>2, <2>4 DEF DashboardInv, TypeOK
  <2>. QED
    BY <2>3, <2>4
<1>4. UNCHANGED <<totaltx, totaldon, totalwd, history, donors, count>>
  BY DEF ApproveWithdrawal, counterVars, donationVars
<1>. QED
  BY <1>3, <1>4 DEF DashboardInv, Dashboard, Lengths

LEMMA StepDashboard == DashboardInv /\ [Next]_vars => DashboardInv'
<1>1. SUFFICES ASSUME DashboardInv, [Next]_vars PROVE Dashboard'
  BY StepType DEF DashboardInv
<1>2. ASSUME UNCHANGED <<counterVars, count, camp, history, donors>> PROVE Dashboard'
  BY <1>1, <1>2 DEF counterVars, DashboardInv, Dashboard, Lengths
<1>3. ASSUME NEW a \in Addresses, Call(a) PROVE Dashboard'
  <2>1. CASE Initialize(a)
    <3>1. UNCHANGED <<counterVars, camp, history, donors>> /\ count' = 0
      BY <2>1 DEF Initialize, counterVars, donationVars
    <3>. QED
      BY <1>1, <3>1 DEF counterVars, DashboardInv, Dashboard, Lengths
  <2>2. CASE \E i \in Ids : SubmitTransaction(a, i)
    BY <1>2, <2>2 DEF SubmitTransaction, donationVars
  <2>3. ASSUME NEW i \in Ids, NEW amount \in Amounts, Withdraw(a, i, amount) PROVE Dashboard'
    <3>1. /\ totaltx' = totaltx + 1 /\ totalwd' = totalwd + 1
          /\ UNCHANGED <<totaldon, count, camp, history, donors>>
      BY <2>3 DEF Withdraw, donationVars
    <3>. QED
      BY <1>1, <3>1 DEF DashboardInv, Dashboard, Lengths, TypeOK
  <2>. QED
    BY <1>1, <1>3, <2>1, <2>2, <2>3, CreateDashboard, DonateDashboard, ApproveDashboard DEF Call
<1>4. CASE UNCHANGED vars
  BY <1>2, <1>4 DEF vars, donationVars
<1>. QED
  BY <1>1, <1>3, <1>4, NextIsCall

\* The dashboard, the platform summary and the reports agree with the entries
\* they stand for, through any number of calls to initialize.  (initialize,
\* donate, withdraw, get_platform_summary, get_dashboard_metrics,
\* get_campaign_report)
THEOREM CoreDashboard == Spec => []DashboardAgrees
  BY InitDashboard, StepDashboard, DashboardShows, PTL DEF Spec

-----------------------------------------------------------------------------
(* The pages of the donation history *)

\* No page a reader asks for is empty by itself, and page arithmetic does not
\* wrap for as many pages as there can be records.
PagesFit ==
    /\ Word \in Nat
    /\ \A size \in PageSizes : size \in Nat \ {0} /\ (MaxDonations + 1) * size < Word

PagesInv == DashboardInv /\ totaldon <= MaxDonations

LEMMA InitPages == Init => PagesInv
<1>1. Init => totaldon <= MaxDonations
  BY CoreAssumption DEF Init
<1>. QED
  BY <1>1, InitDashboard DEF PagesInv

LEMMA StepPages == PagesInv /\ [Next]_vars => PagesInv'
<1>1. SUFFICES ASSUME PagesInv, [Next]_vars PROVE totaldon' <= MaxDonations
  BY StepDashboard DEF PagesInv
<1>2. totaldon \in Nat /\ totaldon <= MaxDonations /\ MaxDonations \in Nat
  <2>1. totaldon <= MaxDonations /\ DashboardInv
    BY <1>1 DEF PagesInv
  <2>. QED
    BY <2>1, CoreAssumption DEF DashboardInv, TypeOK
<1>3. ASSUME NEW a \in Addresses, Call(a) PROVE totaldon' <= MaxDonations
  <2>1. ASSUME NEW id \in Ids, NEW amount \in Amounts, NEW asset \in Assets \cup {EmptySymbol},
               Donate(a, id, amount, asset)
        PROVE  totaldon' <= MaxDonations
    BY <1>2, <2>1 DEF Donate
  <2>2. CASE \/ Initialize(a) \/ \E goal \in Goals : CreateCampaign(a, goal)
             \/ \E id \in Ids, amount \in Amounts : Withdraw(a, id, amount)
             \/ \E id \in Ids : ApproveWithdrawal(a, id)
             \/ \E id \in Ids : SubmitTransaction(a, id)
    BY <1>2, <2>2 DEF Initialize, CreateCampaign, Withdraw, ApproveWithdrawal, SubmitTransaction, counterVars
  <2>. QED
    BY <1>3, <2>1, <2>2 DEF Call
<1>4. CASE UNCHANGED vars
  BY <1>2, <1>4 DEF vars, counterVars
<1>. QED
  BY <1>1, <1>3, <1>4, NextIsCall

\* No history is longer than the number of donations.
LEMMA HistoryFits ==
  ASSUME PagesInv, NEW id \in Ids
  PROVE  history[id] \in Seq(DonationRecord) /\ Len(history[id]) \in Nat /\ Len(history[id]) <= MaxDonations
<1>1. history[id] \in Seq(DonationRecord) /\ \A i \in Ids : Len(history[i]) \in Nat
  BY DEF PagesInv, DashboardInv, TypeOK
<1>. DEFINE f == Lengths
<1>2. DOMAIN f = Ids /\ \A i \in Ids : f[i] \in Nat /\ f[i] = Len(history[i])
  BY <1>1 DEF Lengths
<1>3. totaldon = SumFunction(f) /\ totaldon <= MaxDonations /\ totaldon \in Nat /\ MaxDonations \in Nat
  BY CoreAssumption DEF PagesInv, DashboardInv, Dashboard, TypeOK
<1>. HIDE DEF f
<1>4. f[id] <= SumFunctionOnSet(f, Ids)
  BY <1>2, IdsFinite, SumNat
<1>5. SumFunction(f) = SumFunctionOnSet(f, Ids)
  BY <1>2, SumWhole
<1>. QED
  BY <1>1, <1>2, <1>3, <1>4, <1>5

\* Induction over 1..n, for a set.
LEMMA UpTo ==
  ASSUME NEW n \in Nat, NEW Good, 1 \in Good, \A i \in 2..n : i - 1 \in Good => i \in Good
  PROVE  \A i \in 1..n : i \in Good
<1>. DEFINE Fine == {T \in SUBSET (1..n) : \A i \in 1..n : T = 1..i => i \in Good}
<1>1. ASSUME NEW T \in SUBSET (1..n), \A U \in (SUBSET T) \ {T} : U \in Fine
      PROVE  T \in Fine
  <2>1. SUFFICES ASSUME NEW i \in 1..n, T = 1..i PROVE i \in Good
    OBVIOUS
  <2>2. CASE i = 1
    BY <2>2
  <2>3. CASE i # 1
    <3>1. i \in 2..n /\ i - 1 \in 1..n /\ 1..(i - 1) \subseteq 1..i /\ i \in 1..i /\ i \notin 1..(i - 1)
      BY <2>3
    <3>2. 1..(i - 1) \in Fine
      BY <1>1, <2>1, <3>1
    <3>. QED
      BY <3>1, <3>2
  <2>. QED
    BY <2>2, <2>3
<1>2. IsFiniteSet(1..n)
  BY FS_Interval
<1>. HIDE DEF Fine
<1>3. \A T \in SUBSET (1..n) : T \in Fine
  BY <1>1, <1>2, SubsetInduction
<1>4. ASSUME NEW i \in 1..n PROVE i \in Good
  <2>1. 1..i \in Fine
    BY <1>3
  <2>. QED
    BY <2>1 DEF Fine
<1>. QED
  BY <1>4

\* What lies behind the first a and up to the b-th record.
Cut(h, a, b) == SubSeq(h, a + 1, b)

\* The first records of a sequence, cut in two.
LEMMA CutInTwo ==
  ASSUME NEW S, NEW h \in Seq(S), NEW a \in Nat, NEW b \in Nat, a <= b, b <= Len(h)
  PROVE  Cut(h, 0, a) \o Cut(h, a, b) = Cut(h, 0, b)
<1>. DEFINE s == SubSeq(h, 1, a)
            t == SubSeq(h, a + 1, b)
            u == SubSeq(h, 1, b)
<1>1. Len(h) \in Nat /\ \A i \in 1..Len(h) : h[i] \in S
  OBVIOUS
<1>2. s \in Seq(S) /\ Len(s) = a /\ \A i \in 1..a : s[i] = h[i]
  <2>1. /\ s \in Seq(S) /\ Len(s) = IF 1 <= a THEN a - 1 + 1 ELSE 0
        /\ \A i \in 1..(a - 1 + 1) : s[i] = h[1 + i - 1]
    BY <1>1, SubSeqProperties
  <2>. QED
    BY <2>1
<1>3. t \in Seq(S) /\ Len(t) = b - a /\ \A i \in 1..(b - a) : t[i] = h[a + i]
  <2>1. /\ t \in Seq(S) /\ Len(t) = IF a + 1 <= b THEN b - (a + 1) + 1 ELSE 0
        /\ \A i \in 1..(b - (a + 1) + 1) : t[i] = h[(a + 1) + i - 1]
    BY <1>1, SubSeqProperties
  <2>. QED
    BY <2>1
<1>4. u \in Seq(S) /\ Len(u) = b /\ \A i \in 1..b : u[i] = h[i]
  <2>1. /\ u \in Seq(S) /\ Len(u) = IF 1 <= b THEN b - 1 + 1 ELSE 0
        /\ \A i \in 1..(b - 1 + 1) : u[i] = h[1 + i - 1]
    BY <1>1, SubSeqProperties
  <2>. QED
    BY <2>1
<1>. HIDE DEF s, t, u
<1>5. /\ s \o t \in Seq(S) /\ Len(s \o t) = b
      /\ \A i \in 1..b : (s \o t)[i] = IF i <= a THEN s[i] ELSE t[i - a]
  <2>1. /\ s \o t \in Seq(S) /\ Len(s \o t) = Len(s) + Len(t)
        /\ \A i \in 1..(Len(s) + Len(t)) : (s \o t)[i] = IF i <= Len(s) THEN s[i] ELSE t[i - Len(s)]
    BY <1>2, <1>3, ConcatProperties
  <2>2. Len(s) = a /\ Len(s) + Len(t) = b
    BY <1>2, <1>3
  <2>. QED
    BY <2>1, <2>2
<1>6. ASSUME NEW i \in 1..b PROVE (s \o t)[i] = u[i]
  <2>1. CASE i <= a
    BY <1>2, <1>4, <1>5, <2>1
  <2>2. CASE i > a
    <3>1. i - a \in 1..(b - a) /\ a + (i - a) = i
      BY <2>2
    <3>2. t[i - a] = h[i] /\ u[i] = h[i]
      BY <1>3, <1>4, <3>1
    <3>3. ~(i <= a)
      BY <2>2
    <3>4. (s \o t)[i] = t[i - a]
      BY <1>5, <3>3, Zenon
    <3>. QED
      BY <3>2, <3>4
  <2>3. i <= a \/ i > a
    OBVIOUS
  <2>. QED
    BY <2>1, <2>2, <2>3
<1>7. s \o t = u
  <2>1. Len(s \o t) = Len(u) /\ \A i \in 1..Len(s \o t) : (s \o t)[i] = u[i]
    BY <1>4, <1>5, <1>6
  <2>. QED
    BY <1>4, <1>5, <2>1, SeqEqual
<1>. QED
  BY <1>7 DEF s, t, u, Cut

\* W[i] is the first i of the pages, one after the other.
Glued(W, pages, n) ==
    /\ W = [i \in 1..n |-> W[i]]
    /\ \A i \in 1..n : W[i] = IF i = 1 THEN pages[i] ELSE W[i - 1] \o pages[i]

\* Whatever satisfies the recursion of FlattenSeq ends with what it returns.
LEMMA FlattenIs ==
  ASSUME NEW n \in Nat \ {0}, NEW pages, Len(pages) = n, NEW W, Glued(W, pages, n)
  PROVE  FlattenSeq(pages) = W[n]
<1>. DEFINE Flat(f) == f = [i \in 1..n |-> IF i = 1 THEN pages[i] ELSE f[i - 1] \o pages[i]]
            f == CHOOSE g : Flat(g)
            Good == {i \in 1..n : f[i] = W[i]}
<1>1. Flat(f)
  <2>1. Flat(W)
    BY DEF Glued
  <2>. HIDE DEF Flat
  <2>. QED
    BY <2>1
<1>2. FlattenSeq(pages) = f[n]
  BY Zenon DEF FlattenSeq
<1>. HIDE DEF f
<1>3. 1 \in Good
  <2>1. 1 \in 1..n
    OBVIOUS
  <2>2. f[1] = pages[1] /\ W[1] = pages[1]
    BY <1>1, <2>1 DEF Glued
  <2>. QED
    BY <2>1, <2>2
<1>4. ASSUME NEW i \in 2..n, i - 1 \in Good PROVE i \in Good
  <2>1. i \in 1..n /\ i # 1 /\ f[i - 1] = W[i - 1]
    BY <1>4
  <2>2. f[i] = f[i - 1] \o pages[i] /\ W[i] = W[i - 1] \o pages[i]
    BY <1>1, <2>1 DEF Glued
  <2>. QED
    BY <2>1, <2>2
<1>. HIDE DEF Good
<1>5. n \in Good
  <2>1. \A i \in 1..n : i \in Good
    BY <1>3, <1>4, UpTo
  <2>. QED
    BY <2>1
<1>. QED
  BY <1>2, <1>5 DEF Good

\* Products of 32-bit numbers that fit in 32 bits are exact.
LEMMA NoWrap ==
  ASSUME NEW x \in Nat, NEW w \in Nat, x < w
  PROVE  x % w = x
  OBVIOUS

\* Without a wrap, a page is the records of its numbers, as many as there are.
LEMMA PageRecords ==
  ASSUME PagesInv, PagesFit, NEW id \in Ids, NEW size \in PageSizes, NEW p \in 0..Len(history[id])
  PROVE  LET n == Len(history[id])
             from == p * size
             to == IF (p + 1) * size < n THEN (p + 1) * size ELSE n
         IN  /\ from >= n => GetDonationHistory(id, p, size) = <<>>
             /\ from < n => GetDonationHistory(id, p, size) = SubSeq(history[id], from + 1, to)
<1>. DEFINE n == Len(history[id])
            from == p * size
            end == from + size
<1>1. n \in Nat /\ n <= MaxDonations /\ MaxDonations \in Nat
  BY HistoryFits, CoreAssumption
<1>2. size \in Nat \ {0} /\ (MaxDonations + 1) * size < Word /\ Word \in Nat
  BY DEF PagesFit
<1>3. p \in Nat /\ p <= MaxDonations
  BY <1>1
<1>4. from \in Nat /\ end \in Nat /\ end = (p + 1) * size
  BY <1>2, <1>3
<1>5. end <= (MaxDonations + 1) * size /\ (MaxDonations + 1) * size \in Nat
  <2>1. p + 1 \in Nat /\ p + 1 <= MaxDonations + 1 /\ MaxDonations + 1 \in Nat /\ size \in Nat
    BY <1>1, <1>2, <1>3
  <2>2. \A a, b, c \in Nat : a <= b => a * c <= b * c /\ b * c \in Nat
    OBVIOUS
  <2>. QED
    BY <1>4, <2>1, <2>2
<1>6. from <= end
  BY <1>2, <1>4
<1>. HIDE DEF n, from, end
<1>7. from < Word /\ end < Word
  BY <1>2, <1>4, <1>5, <1>6
<1>8. from % Word = from /\ end % Word = end
  BY <1>2, <1>4, <1>7, NoWrap
<1>9. PageStart(p, size) = from /\ PageEnd(from, size) = end
  BY <1>8 DEF PageStart, PageEnd, from, end
<1>10. GetDonationHistory(id, p, size) =
        IF from >= n THEN <<>> ELSE SubSeq(history[id], from + 1, IF end < n THEN end ELSE n)
  BY <1>9 DEF GetDonationHistory, n
<1>11. /\ from >= n => GetDonationHistory(id, p, size) = <<>>
       /\ from < n => GetDonationHistory(id, p, size) =
                        SubSeq(history[id], from + 1, IF (p + 1) * size < n THEN (p + 1) * size ELSE n)
  BY <1>1, <1>4, <1>10
<1>. QED
  BY <1>11 DEF n, from

\* The pages are the pieces of h between n + 1 ascending places, first to last.
CutInto(h, pages, n, c) ==
    /\ n \in Nat \ {0} /\ Len(pages) = n
    /\ c \in [0..n -> 0..Len(h)] /\ c[0] = 0 /\ c[n] = Len(h)
    /\ \A i \in 1..n : c[i - 1] <= c[i] /\ pages[i] = Cut(h, c[i - 1], c[i])

\* Cut anywhere, in ascending order, and put together again.
LEMMA FlattenCuts ==
  ASSUME NEW S, NEW h \in Seq(S), NEW pages, NEW n, NEW c, CutInto(h, pages, n, c)
  PROVE  FlattenSeq(pages) = h
<1>. USE DEF CutInto
<1>. DEFINE W == [i \in 1..n |-> Cut(h, 0, c[i])]
<1>0. \A x, y \in Nat : x <= y /\ y <= Len(h) => Cut(h, 0, x) \o Cut(h, x, y) = Cut(h, 0, y)
  BY CutInTwo
<1>1. /\ Len(h) \in Nat
      /\ \A i \in 1..n : /\ i - 1 \in 0..n /\ c[i - 1] \in Nat /\ c[i] \in Nat /\ c[i] <= Len(h)
                         /\ i # 1 => i - 1 \in 1..n
  OBVIOUS
<1>2. ASSUME NEW i \in 1..n
      PROVE  W[i] = IF i = 1 THEN pages[i] ELSE W[i - 1] \o pages[i]
  <2>1. W[i] = Cut(h, 0, c[i]) /\ pages[i] = Cut(h, c[i - 1], c[i])
    OBVIOUS
  <2>2. CASE i = 1
    <3>1. c[i - 1] = 0
      BY <2>2
    <3>. QED
      BY <2>1, <2>2, <3>1
  <2>3. CASE i # 1
    <3>. DEFINE a == c[i - 1]
                b == c[i]
    <3>1. W[i - 1] = Cut(h, 0, a)
      BY <1>1, <2>3
    <3>2. a \in Nat /\ b \in Nat /\ a <= b /\ b <= Len(h)
      BY <1>1
    <3>3. W[i] = Cut(h, 0, b) /\ pages[i] = Cut(h, a, b)
      BY <2>1
    <3>. HIDE DEF a, b, W
    <3>4. Cut(h, 0, a) \o Cut(h, a, b) = Cut(h, 0, b)
      BY <3>2, <1>0, Zenon
    <3>. QED
      BY <2>3, <3>1, <3>3, <3>4
  <2>. QED
    BY <2>2, <2>3
<1>3. W[n] = h
  <2>1. n \in 1..n
    OBVIOUS
  <2>2. W[n] = Cut(h, 0, Len(h))
    BY <2>1, Zenon
  <2>. QED
    BY <2>2 DEF Cut
<1>4. W = [i \in 1..n |-> W[i]]
  OBVIOUS
<1>. HIDE DEF W
<1>5. Glued(W, pages, n)
  BY <1>2, <1>4 DEF Glued
<1>6. FlattenSeq(pages) = W[n]
  BY <1>5, FlattenIs
<1>. QED
  BY <1>3, <1>6

LEMMA PagesShow ==
  ASSUME PagesInv, PagesFit, NEW id \in Ids, NEW size \in PageSizes
  PROVE  LET pages == [p \in 1..(Len(history[id]) + 1) |-> GetDonationHistory(id, p - 1, size)]
         IN  FlattenSeq(pages) = history[id] /\ pages[Len(pages)] = <<>>
<1>. DEFINE h == history[id]
            n == Len(h)
            at(i) == i * size
            c == [i \in 0..(n + 1) |-> IF at(i) < n THEN at(i) ELSE n]
            pages == [p \in 1..(n + 1) |-> GetDonationHistory(id, p - 1, size)]
<1>1. n \in Nat /\ h \in Seq(DonationRecord) /\ size \in Nat \ {0}
  BY HistoryFits DEF PagesFit
<1>2. at(0) = 0 /\ at(n) >= n /\ at(n + 1) >= n
  BY <1>1
<1>3. \A i \in Nat : at(i) \in Nat /\ at(i) <= at(i + 1)
  BY <1>1
<1>4. \A p \in 0..n : /\ at(p) >= n => GetDonationHistory(id, p, size) = <<>>
                      /\ at(p) < n => GetDonationHistory(id, p, size) =
                                        SubSeq(h, at(p) + 1, IF at(p + 1) < n THEN at(p + 1) ELSE n)
  BY PageRecords
<1>5. /\ Len(pages) = n + 1 /\ n + 1 \in Nat \ {0}
      /\ \A i \in 1..(n + 1) : pages[i] = GetDonationHistory(id, i - 1, size)
  BY <1>1
<1>. HIDE DEF at, pages, h
<1>6. c \in [0..(n + 1) -> 0..n] /\ c[0] = 0 /\ c[n + 1] = n
  <2>1. \A i \in 0..(n + 1) : (IF at(i) < n THEN at(i) ELSE n) \in 0..n
    BY <1>1, <1>3
  <2>2. 0 \in 0..(n + 1) /\ n + 1 \in 0..(n + 1) /\ n \in Nat
    BY <1>1
  <2>3. c[0] = 0 /\ c[n + 1] = n
    <3>1. at(n + 1) \in Nat
      BY <1>3, <1>5
    <3>. QED
      BY <1>2, <2>2, <3>1
  <2>. QED
    BY <2>1, <2>3
<1>7. ASSUME NEW i \in 1..(n + 1)
      PROVE  c[i - 1] <= c[i] /\ pages[i] = SubSeq(h, c[i - 1] + 1, c[i])
  <2>1. i - 1 \in 0..n /\ i - 1 \in 0..(n + 1) /\ i \in 0..(n + 1) /\ (i - 1) + 1 = i /\ i - 1 \in Nat
    BY <1>1
  <2>2. at(i - 1) \in Nat /\ at(i) \in Nat /\ at(i - 1) <= at(i)
    <3>. DEFINE j == i - 1
    <3>1. j \in Nat /\ j + 1 = i /\ i \in Nat
      BY <2>1
    <3>. HIDE DEF j
    <3>2. at(j) \in Nat /\ at(i) \in Nat /\ at(j) <= at(i)
      BY <1>3, <3>1
    <3>. QED
      BY <3>2 DEF j
  <2>3. /\ c[i - 1] = IF at(i - 1) < n THEN at(i - 1) ELSE n
        /\ c[i] = IF at(i) < n THEN at(i) ELSE n
    BY <2>1
  <2>4. /\ at(i - 1) >= n => pages[i] = <<>>
        /\ at(i - 1) < n => pages[i] = SubSeq(h, at(i - 1) + 1, IF at(i) < n THEN at(i) ELSE n)
    BY <1>4, <1>5, <2>1
  <2>. HIDE DEF c
  <2>5. CASE at(i - 1) >= n
    <3>1. c[i - 1] = n /\ c[i] = n
      BY <1>1, <2>2, <2>3, <2>5
    <3>2. SubSeq(h, n + 1, n) = <<>>
      BY <1>1, SubSeqEmpty
    <3>3. pages[i] = <<>>
      BY <2>4, <2>5
    <3>4. SubSeq(h, c[i - 1] + 1, c[i]) = SubSeq(h, n + 1, n) /\ c[i - 1] <= c[i]
      BY <1>1, <3>1
    <3>. QED
      BY <3>2, <3>3, <3>4
  <2>6. CASE at(i - 1) < n
    <3>1. c[i - 1] = at(i - 1) /\ c[i - 1] <= c[i]
      BY <1>1, <2>2, <2>3, <2>6
    <3>. QED
      BY <2>3, <2>4, <2>6, <3>1
  <2>. QED
    BY <1>1, <2>2, <2>5, <2>6
<1>8. FlattenSeq(pages) = h
  <2>. HIDE DEF c
  <2>1. \A i \in 1..(n + 1) : c[i - 1] <= c[i] /\ pages[i] = SubSeq(h, c[i - 1] + 1, c[i])
    BY <1>7
  <2>. DEFINE k == n + 1
  <2>2. CutInto(h, pages, k, c)
    BY <1>5, <1>6, <2>1 DEF CutInto, Cut
  <2>. HIDE DEF k, n
  <2>3. h \in Seq(DonationRecord)
    BY <1>1
  <2>. QED
    BY <2>2, <2>3, FlattenCuts
<1>9. pages[Len(pages)] = <<>>
  <2>1. n + 1 \in 1..(n + 1) /\ (n + 1) - 1 = n /\ n \in 0..n
    BY <1>1
  <2>. QED
    BY <1>2, <1>4, <1>5, <2>1
<1>. QED
  BY <1>8, <1>9 DEF pages, h

\* As long as no product of a page and its size exceeds 32 bits, the pages a
\* reader asks for are the whole history in order, each record on one of them,
\* however many donations there are.  (donate, get_donation_history)
THEOREM CorePages == PagesFit /\ Spec => []PagesPartition
<1>. SUFFICES ASSUME PagesFit PROVE Spec => []PagesPartition
  OBVIOUS
<1>1. PagesInv => PagesPartition
  BY PagesShow DEF PagesPartition
<1>. QED
  BY <1>1, InitPages, StepPages, PTL DEF Spec
=============================================================================
