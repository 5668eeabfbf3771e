-------------------------------- MODULE Core --------------------------------
(***************************************************************************)
(* The legacy contract (crates/contracts/core): a registry of campaigns,   *)
(* donations with a flat fee, and one withdrawal request per campaign that *)
(* its creator files and the administrator approves and submits.           *)
(*                                                                         *)
(* One action is one call; a call that panics changes nothing and is a     *)
(* step that is not enabled.  The host checks authorization: a caller acts *)
(* for itself, and `initialize` makes its caller the administrator.        *)
(* Nothing stops a second `initialize`, by another address, at any time;   *)
(* it starts the identifiers over while the entries of the old campaigns   *)
(* stay where they are.                                                    *)
(*                                                                         *)
(* Nothing in the contract moves tokens, so a donation may name any amount *)
(* up to the largest i128, and the totals it is added to are not checked   *)
(* for overflow: in a release build they wrap around to negative numbers.  *)
(***************************************************************************)
EXTENDS Integers, Sequences, FiniteSets, Functions, SequencesExt, MachineIntegers

CONSTANTS
    Addresses,      \* administrators, creators and donors
    Assets,         \* asset symbols a donation may name
    EmptySymbol,    \* Symbol::new("")
    None,           \* an entry that is not there
    BaseFee,        \* BASE_FEE
    Amounts,        \* amounts donors and creators try
    Goals,          \* goals of new campaigns; none is rejected
    MaxI128,        \* the largest i128
    Word,           \* 2^32: page arithmetic wraps in release builds
    PageSizes,      \* page sizes a reader asks for
    MaxCampaigns, MaxInits, MaxDonations, MaxWithdrawals    \* bounds

Ids  == 1..MaxCampaigns
I128 == IntegersUpTo(MaxI128)

\* The stored records; titles, memos, timestamps and deadlines are only copied,
\* and so is a request's recipient.
Campaign == [creator : Addresses, goal : Goals, raised : I128, active : {TRUE}]
DonationRecord == [donor : Addresses, amount : 1..MaxI128, asset : Assets]
WithdrawalStatus == {"Pending", "Approved", "Submitted"}
WithdrawalRequest == [amount : {n \in Amounts : n > 0}, status : WithdrawalStatus]

ASSUME CoreAssumption ==
    /\ MaxI128 \in Nat /\ Word \in Nat \ {0}
    /\ BaseFee \in Nat /\ Amounts \subseteq I128 /\ Goals \subseteq I128
    /\ EmptySymbol \notin Assets
    /\ None \notin Addresses /\ None \notin Int /\ None \notin Campaign /\ None \notin WithdrawalRequest
    /\ MaxCampaigns \in Nat /\ MaxInits \in Nat
    /\ MaxDonations \in Nat /\ MaxWithdrawals \in Nat

VARIABLES
    \* instance storage
    admin, count, totaltx, totaldon, totalwd,
    \* persistent storage, by campaign: Campaign, per-asset totals, donation
    \* records, metadata of each donor's last donation, donors, request
    camp, araised, history, don, donors, pendwith,
    \* history: initialize calls; creations of each identifier; records and
    \* donated amount before its last creation; amounts approved since; and
    \* the creator who filed the request
    inits, born, before, approved, filedBy

counterVars == <<totaltx, totaldon, totalwd>>
donationVars == <<araised, history, don, donors>>
historyVars == <<inits, born, before, approved, filedBy>>
vars == <<admin, count, counterVars, camp, donationVars, pendwith, historyVars>>

Exists(id) == id \in Ids /\ camp[id] # None

-----------------------------------------------------------------------------
(* initialize, create_campaign *)

\* Mutant: the counters start over, too.
InitializeAll(a) ==
    /\ inits < MaxInits
    /\ inits' = inits + 1
    /\ admin' = a
    /\ count' = 0
    /\ totaltx' = 0
    /\ UNCHANGED <<totaldon, totalwd, camp, donationVars, pendwith, born, before, approved, filedBy>>

\* There is no check for an earlier call.
Initialize(a) ==
    /\ inits < MaxInits
    /\ inits' = inits + 1
    /\ admin' = a
    /\ count' = 0
    /\ UNCHANGED <<counterVars, camp, donationVars, pendwith, born, before, approved, filedBy>>

NewId == count + 1

\* Works before the first `initialize`, too.
CreateCampaign(creator, goal) ==
    /\ count < MaxCampaigns
    /\ camp' = [camp EXCEPT ![NewId] = [creator |-> creator, goal |-> goal, raised |-> 0, active |-> TRUE]]
    /\ count' = count + 1
    /\ born' = [born EXCEPT ![NewId] = @ + 1]
    /\ before' = [before EXCEPT ![NewId] = Len(history[NewId])]
    /\ approved' = [approved EXCEPT ![NewId] = 0]
    /\ UNCHANGED <<admin, counterVars, donationVars, pendwith, inits, filedBy>>

-----------------------------------------------------------------------------
(* donate *)

Net(amount) == amount - BaseFee

\* Mutant: a donor is listed once per donation.
WithDonorAlways(ds, donor) == Append(ds, donor)

WithDonor(ds, donor) == IF Contains(ds, donor) THEN ds ELSE Append(ds, donor)

\* Mutant: exactly the fee is enough.
AmountSufficesAtFee(amount) == amount >= BaseFee

AmountSuffices(amount) == amount > BaseFee

\* Two unchecked additions of i128: they wrap.
Credited(c, amount) == [c EXCEPT !.raised = Wrapped(@ + Net(amount), MaxI128)]
AssetCredited(total, amount) == Wrapped(total + Net(amount), MaxI128)

\* Neither the deadline nor the goal stops a donation, and nothing ever clears
\* `active`.
Donate(donor, id, amount, asset) ==
    /\ totaldon < MaxDonations
    /\ asset # EmptySymbol
    /\ AmountSuffices(amount)
    /\ Exists(id) /\ camp[id].active
    /\ camp' = [camp EXCEPT ![id] = Credited(@, amount)]
    /\ araised' = [araised EXCEPT ![id][asset] = AssetCredited(@, amount)]
    /\ history' = [history EXCEPT ![id] = Append(@, [donor |-> donor, amount |-> amount - BaseFee, asset |-> asset])]
    /\ don' = [don EXCEPT ![id][donor] = amount]
    /\ donors' = [donors EXCEPT ![id] = WithDonor(@, donor)]
    /\ totaltx' = totaltx + 1
    /\ totaldon' = totaldon + 1
    /\ UNCHANGED <<admin, count, totalwd, pendwith, historyVars>>

-----------------------------------------------------------------------------
(* withdraw, approve_withdrawal, submit_transaction *)

\* Mutant: only a request that waits for approval is in the way.
UndecidedPending(r) == r # None /\ r.status = "Pending"

\* A request is in the way of the next one until it has been submitted.
Undecided(r) == r # None /\ r.status # "Submitted"

\* Mutant: the amount is compared with the goal.
CoversGoal(c, amount) == c.goal >= amount

Covers(c, amount) == c.raised >= amount

Withdraw(creator, id, amount) ==
    /\ totalwd < MaxWithdrawals
    /\ amount > 0
    /\ Exists(id) /\ camp[id].creator = creator
    /\ Covers(camp[id], amount)
    /\ ~Undecided(pendwith[id])
    /\ pendwith' = [pendwith EXCEPT ![id] = [amount |-> amount, status |-> "Pending"]]
    /\ totaltx' = totaltx + 1
    /\ totalwd' = totalwd + 1
    /\ filedBy' = [filedBy EXCEPT ![id] = creator]
    /\ UNCHANGED <<admin, count, totaldon, camp, donationVars, inits, born, before, approved>>

\* Mutant: the approval leaves the raised amount alone.
DebitedNothing(c, amount) == c

\* Only what is covered is taken, so this subtraction cannot wrap.
Debited(c, amount) == [c EXCEPT !.raised = @ - amount]

ApproveWithdrawal(caller, id) ==
    /\ admin # None /\ caller = admin
    /\ id \in Ids /\ pendwith[id] # None /\ pendwith[id].status = "Pending"
    /\ Exists(id) /\ Covers(camp[id], pendwith[id].amount)
    /\ camp' = [camp EXCEPT ![id] = Debited(@, pendwith[id].amount)]
    /\ pendwith' = [pendwith EXCEPT ![id].status = "Approved"]
    /\ approved' = [approved EXCEPT ![id] = @ + pendwith[id].amount]
    /\ UNCHANGED <<admin, count, counterVars, donationVars, inits, born, before, filedBy>>

SubmitTransaction(caller, id) ==
    /\ admin # None /\ caller = admin
    /\ id \in Ids /\ pendwith[id] # None /\ pendwith[id].status = "Approved"
    /\ pendwith' = [pendwith EXCEPT ![id].status = "Submitted"]
    /\ UNCHANGED <<admin, count, counterVars, camp, donationVars, historyVars>>

-----------------------------------------------------------------------------
(* Views *)

\* Mutant: a full page ends one record early.
PageEndEarly(start, page_size) == (start + page_size - 1) % Word

\* Both products of unsigned 32-bit numbers wrap.
PageStart(page, page_size) == (page * page_size) % Word
PageEnd(start, page_size) == (start + page_size) % Word

GetDonationHistory(id, page, page_size) ==
    LET start == PageStart(page, page_size)
        end   == PageEnd(start, page_size)
        total == Len(history[id])
    IN  IF start >= total THEN <<>>
        ELSE SubSeq(history[id], start + 1, IF end < total THEN end ELSE total)

\* An unchecked product, and a cast of the quotient to 32 bits: both wrap.
Progress(c) ==
    IF c.goal <= 0 \/ (c.raised <= 0 /\ c.raised < c.goal) THEN 0
    ELSE IF c.raised >= c.goal THEN 10000
    ELSE Quotient(Wrapped(c.raised * 10000, MaxI128), c.goal) % Word

GetCampaignReport(id) ==
    [goal |-> camp[id].goal, raised |-> camp[id].raised,
     remaining |-> IF camp[id].goal <= 0 \/ camp[id].raised >= camp[id].goal THEN 0
                   ELSE IF camp[id].raised <= 0 THEN camp[id].goal
                   ELSE camp[id].goal - camp[id].raised,
     progress_bps |-> Progress(camp[id]),
     donor_count |-> Len(donors[id]), donation_count |-> Len(history[id])]

GetPlatformSummary ==
    [campaigns |-> count, donations |-> totaldon, withdrawals |-> totalwd, transactions |-> totaltx]

GetDashboardMetrics ==
    [total_campaigns |-> count,
     active_campaigns |-> Cardinality({id \in 1..count : camp[id] # None /\ camp[id].active}),
     total_transactions |-> totaltx]

-----------------------------------------------------------------------------
Init ==
    /\ admin = None /\ count = 0
    /\ totaltx = 0 /\ totaldon = 0 /\ totalwd = 0
    /\ camp = [id \in Ids |-> None]
    /\ araised = [id \in Ids |-> [a \in Assets |-> 0]]
    /\ history = [id \in Ids |-> <<>>]
    /\ don = [id \in Ids |-> [d \in Addresses |-> None]]
    /\ donors = [id \in Ids |-> <<>>]
    /\ pendwith = [id \in Ids |-> None]
    /\ inits = 0
    /\ born = [id \in Ids |-> 0]
    /\ before = [id \in Ids |-> 0]
    /\ approved = [id \in Ids |-> 0]
    /\ filedBy = [id \in Ids |-> None]

Next ==
    \E a \in Addresses :
        \/ Initialize(a)
        \/ \E goal \in Goals : CreateCampaign(a, goal)
        \/ \E id \in Ids :
            \/ \E amount \in Amounts :
                \/ \E asset \in Assets \cup {EmptySymbol} : Donate(a, id, amount, asset)
                \/ Withdraw(a, id, amount)
            \/ ApproveWithdrawal(a, id)
            \/ SubmitTransaction(a, id)

Spec == Init /\ [][Next]_vars

-----------------------------------------------------------------------------
(* Properties *)

TypeOK ==
    /\ admin \in Addresses \cup {None}
    /\ count \in 0..MaxCampaigns
    /\ totaltx \in Nat /\ totaldon \in Nat /\ totalwd \in Nat
    /\ camp \in [Ids -> Campaign \cup {None}]
    /\ araised \in [Ids -> [Assets -> I128]]
    /\ history \in [Ids -> Seq(DonationRecord)]
    /\ don \in [Ids -> [Addresses -> Amounts \cup {None}]]
    /\ donors \in [Ids -> Seq(Addresses)]
    /\ pendwith \in [Ids -> WithdrawalRequest \cup {None}]
    /\ inits \in Nat /\ born \in [Ids -> Nat] /\ before \in [Ids -> Nat]
    /\ approved \in [Ids -> Nat] /\ filedBy \in [Ids -> Addresses \cup {None}]

\* The net amount of some records: all, or those of one asset.
NetSum(records, S) ==
    SumFunction([i \in DOMAIN records |-> IF records[i].asset \in S THEN records[i].amount ELSE 0])
Since(id) == SubSeq(history[id], before[id] + 1, Len(history[id]))

\* What a campaign has raised is what the donation history records for it since
\* it was created, less every approved withdrawal once, as an i128: exactly that
\* as long as it fits, and wrapped around beyond.  This holds also when the
\* identifier is a reused one whose history, donors and request belong to an older
\* campaign; and the per-asset totals agree in the same way with the history of
\* all of an identifier's campaigns.
\* (donate, approve_withdrawal, create_campaign, initialize, get_asset_raised)
CampaignBalance ==
    \A id \in Ids :
        /\ camp[id] # None =>
            camp[id].raised = Wrapped(NetSum(Since(id), Assets) - approved[id], MaxI128)
        /\ \A a \in Assets : araised[id][a] = Wrapped(NetSum(history[id], {a}), MaxI128)

\* The donor list has each donor of the history once, and a donor's metadata is
\* that of its last record, with the fee.  (donate, get_donors, get_donation)
DonorRecords ==
    \A id \in Ids :
        /\ \A i, j \in DOMAIN donors[id] : donors[id][i] = donors[id][j] => i = j
        /\ \A i \in DOMAIN donors[id] : don[id][donors[id][i]] # None
        /\ \A i \in DOMAIN history[id] :
            /\ \E j \in DOMAIN donors[id] : donors[id][j] = history[id][i].donor
            /\ \/ don[id][history[id][i].donor] = history[id][i].amount + BaseFee
               \/ \E k \in (i + 1)..Len(history[id]) : history[id][k].donor = history[id][i].donor

\* A pending request was filed by the campaign's own creator until its identifier
\* is used a second time.  Until then, and as long as all that was ever donated to
\* the campaign fits an i128, the campaign also covers the request whatever is
\* called between filing and approval.  Beyond that nothing is covered: one more
\* donation, by anybody, may wrap the raised amount below it.
\* (donate, withdraw, approve_withdrawal)
RequestCovered ==
    \A id \in Ids :
        (pendwith[id] # None /\ born[id] <= 1) =>
            /\ camp[id] # None /\ camp[id].creator = filedBy[id]
            /\ (pendwith[id].status = "Pending" /\ NetSum(Since(id), Assets) <= MaxI128) =>
                pendwith[id].amount <= camp[id].raised

\* A report says that nothing remains exactly when a positive goal is reached; what
\* remains is what the donations still have to bring, unless the raised amount has
\* wrapped below zero; and the progress is full exactly when nothing remains, unless
\* its product wraps.
Honest(r) ==
    r.goal > 0 =>
        /\ (r.remaining = 0) <=> (r.raised >= r.goal)
        /\ (r.remaining > 0 /\ r.raised >= 0) => r.remaining + r.raised = r.goal
        /\ (r.remaining = 0 \/ r.raised * 10000 <= MaxI128) =>
            /\ r.progress_bps \in 0..10000
            /\ (r.progress_bps = 10000) <=> (r.remaining = 0)

\* The transaction counter is the sum of the two others, and the donation counter
\* the number of records in all histories, through any number of calls to
\* initialize; every identifier up to the counter is an active campaign; reports
\* are honest as far as their arithmetic fits.  (initialize, donate, withdraw,
\* get_platform_summary, get_dashboard_metrics, get_campaign_report)
DashboardAgrees ==
    LET s == GetPlatformSummary
    IN  /\ s.transactions = s.donations + s.withdrawals
        /\ s.donations = SumFunction([id \in Ids |-> Len(history[id])])
        /\ GetDashboardMetrics.active_campaigns = GetDashboardMetrics.total_campaigns
        /\ \A id \in Ids : camp[id] # None =>
            LET r == GetCampaignReport(id)
            IN  r.donor_count <= r.donation_count /\ Honest(r)

\* Every donation record is on exactly one of the pages a reader asks for one
\* after the other, in order, and the page after the last is empty.
\* (get_donation_history)
PagesPartition ==
    \A id \in Ids, size \in PageSizes :
        LET pages == [p \in 1..(Len(history[id]) + 1) |-> GetDonationHistory(id, p - 1, size)]
        IN  /\ FlattenSeq(pages) = history[id]
            /\ pages[Len(pages)] = <<>>
=============================================================================
