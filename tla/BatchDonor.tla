----------------------------- MODULE BatchDonor -----------------------------
(***************************************************************************)
(* The batch donor contract (crates/contracts/batch-donor): one            *)
(* transaction that donates to several campaigns, either all or nothing    *)
(* (batch_donate) or target by target (batch_donate_continue_on_error).    *)
(* The campaigns are contracts of their own; each is a ledger record of    *)
(* CampaignStorage.                                                        *)
(*                                                                         *)
(* A transaction is the only one running.  Its loop over the targets is    *)
(* one step per target here, on the campaigns' ledgers, with the ledgers   *)
(* it started from kept in `saved`: a panic puts those back.  A call that  *)
(* panics before it has called any campaign is a step that is not enabled. *)
(***************************************************************************)
EXTENDS CampaignStorage, Functions

CONSTANTS
    Campaigns,      \* campaign contract addresses
    Deployed,       \* those deployed by code that kept milestones per index
    Batches,        \* targets arguments: sequences of DonateTarget
    MaxBatchSize,   \* MAX_BATCH_SIZE
    MaxLedgers,     \* bound: ledgers that close
    MaxCalls        \* bound: transactions

\* `authorized`: the donor has signed for the sub-call too.
DonateTarget ==
    [campaign : Campaigns, donor : Donors, amount : Int, asset : Assets, authorized : BOOLEAN]

ASSUME BatchAssumption ==
    /\ Deployed \subseteq Campaigns
    /\ Batches \subseteq Seq(DonateTarget)
    /\ MaxBatchSize \in Nat \ {0} /\ MaxLedgers \in Nat /\ MaxCalls \in Nat

VARIABLES
    ledger,     \* each campaign's storage
    unbumped,   \* ledgers since its entries were last refreshed together
    now,        \* ledgers closed
    calls,      \* transactions so far
    mode,       \* the running transaction: "idle", "atomic" or "best_effort"
    targets, results, saved

storeVars == <<ledger, unbumped, now, calls>>
batchVars == <<mode, targets, results, saved>>
vars == <<storeVars, batchVars>>

INVALID_AMOUNT == 3

-----------------------------------------------------------------------------
(* A campaign's own calls *)

\* Mutant: the sum is not checked.
DonationAcceptedUnchecked(l, t) ==
    /\ ~l.locked
    /\ Has(l, CampaignData)
    /\ t.asset \in Accepted
    /\ t.authorized
    /\ ~l.frozen
    /\ l.status \in Open
    /\ t.amount > 0 /\ t.amount >= MinDonation

\* The checks of `donate` that come before its first write.
DonationAccepted(l, t) ==
    /\ ~l.locked
    /\ Has(l, CampaignData)
    /\ t.asset \in Accepted
    /\ t.authorized
    /\ ~l.frozen
    /\ l.status \in Open
    /\ t.amount > 0 /\ t.amount >= MinDonation
    /\ l.raised + t.amount <= MaxI128

\* The lock, the campaign record and the total are written before the check of
\* the asset block list.
Raise(l, t) ==
    Write([l EXCEPT !.locked = TRUE,
                    !.raised = @ + t.amount,
                    !.status = IF @ = "Active" /\ l.raised + t.amount >= Goal
                               THEN "GoalReached" ELSE @,
                    !.total  = @ + t.amount],
          {CampaignData, TotalRaised})

DonorKeys(l, t) ==
    {DonorData(t.donor), DonationCount}
        \cup (IF Has(l, DonorData(t.donor)) THEN {} ELSE {UniqueDonorCount})

\* The donor's record and the counters.
Record(l, t) ==
    Write([l EXCEPT !.donated   = [l.donated EXCEPT ![t.donor] = @ + t.amount],
                    !.donations = @ + 1,
                    !.donors    = IF Has(l, DonorData(t.donor)) THEN @ ELSE @ + 1],
          DonorKeys(l, t))

Donated(l, t) ==
    LET flags  == Touch(l, {Frozen, BlockedAsset})
        record == Record(Raise(flags, t), t)
        report == RefreshReportCache(UnlockMilestonesBatch(record, record.raised))
    IN  [report EXCEPT !.locked = FALSE]

\* Mutant: what was written before the block list was checked stays written.
DonateNoRollback(l, t) ==
    IF ~DonationAccepted(l, t) THEN [ok |-> FALSE, ledger |-> l]
    ELSE IF t.asset \in l.blocked
         THEN [ok |-> FALSE, ledger |-> [Raise(l, t) EXCEPT !.locked = FALSE]]
    ELSE [ok |-> TRUE, ledger |-> Donated(l, t)]

\* donate as a sub-call: the host gives it a copy, and drops it after a panic.
Donate(l, t) ==
    IF ~DonationAccepted(l, t) \/ t.asset \in l.blocked
    THEN [ok |-> FALSE, ledger |-> l]
    ELSE [ok |-> TRUE, ledger |-> Donated(l, t)]

\* A transaction runs only when the entries it needs are live; a donor's record
\* is needed by that donor's calls only.
Runnable(l, ds) == \A k \in Keys \ {DonorData(d) : d \in Donors \ ds} : Live(l, k)

Idle(c) == mode = "idle" /\ Runnable(ledger[c], {})

Counted == calls < MaxCalls /\ calls' = calls + 1

Call(c, l) ==
    /\ Counted
    /\ ledger' = [ledger EXCEPT ![c] = l]
    /\ UNCHANGED <<now, batchVars>>

\* initialize: the loop over set_milestone appends to a vector that is empty.
Initialize(c) ==
    LET fresh == [i \in Index |-> [target |-> Targets[i], released |-> 0, status |-> "Locked"]]
        l     == Write([ledger[c] EXCEPT !.status = "Active"], {CampaignData})
    IN  /\ Idle(c)
        /\ ~Has(ledger[c], CampaignData)
        /\ Call(c, RefreshReportCache(SetMilestonesVec(l, fresh)))
        /\ unbumped' = [unbumped EXCEPT ![c] = 0]

Releasable(l, i) ==
    /\ ~l.locked /\ Has(l, CampaignData) /\ ~l.frozen
    /\ \E m \in GetMilestone(l, i) : m.status = "Unlocked"
    /\ i > 1 => \E m \in GetMilestone(l, i - 1) : m.status = "Released"

\* release_milestone, paid in full; the token transfer is another contract's.
ReleaseMilestone(c, i) ==
    LET l    == Touch(ledger[c], {Frozen})
        paid == [target |-> Targets[i], released |-> Targets[i], status |-> "Released"]
        done == Write([SetMilestone(l, i, paid) EXCEPT !.releases = @ + 1], {ReleaseCount})
    IN  /\ Idle(c)
        /\ Releasable(ledger[c], i)
        /\ Call(c, RefreshReportCache(done))
        /\ UNCHANGED unbumped

EndCampaign(c) ==
    LET l == Touch(ledger[c], {Frozen})
    IN  /\ Idle(c)
        /\ Has(l, CampaignData) /\ ~l.frozen /\ l.status \in Open
        /\ Call(c, RefreshReportCache(Write([l EXCEPT !.status = "Ended"], {CampaignData})))
        /\ UNCHANGED unbumped

\* freeze and unfreeze, block_asset and unblock_asset
SetFrozen(c, b) ==
    /\ Idle(c)
    /\ Has(ledger[c], CampaignData) /\ ledger[c].frozen # b
    /\ Call(c, Write(Touch([ledger[c] EXCEPT !.frozen = b], {CampaignData}), {Frozen}))
    /\ UNCHANGED unbumped

SetBlocked(c, bs) ==
    /\ Idle(c)
    /\ Has(ledger[c], CampaignData) /\ ledger[c].blocked # bs
    /\ Call(c, Write(Touch([ledger[c] EXCEPT !.blocked = bs], {CampaignData}), {BlockedAsset}))
    /\ UNCHANGED unbumped

\* bump_storage: anyone may refresh a campaign's core entries.
BumpStorage(c) ==
    /\ Idle(c)
    /\ Has(ledger[c], CampaignData)
    /\ Call(c, BumpAllPersistent(ledger[c]))
    /\ unbumped' = [unbumped EXCEPT ![c] = 0]

-----------------------------------------------------------------------------
(* A batch *)

\* pre_validate of batch_donate; the other mode looks at the size alone.
PreValidate(m, ts) ==
    /\ Len(ts) \in 1..MaxBatchSize
    /\ m = "atomic" => \A i \in DOMAIN ts : ts[i].amount > 0

\* The donors whose records the batch needs in campaign c.
DonorsOf(ts, c) == {ts[i].donor : i \in {j \in DOMAIN ts : ts[j].campaign = c}}

Begin(m, ts) ==
    /\ mode = "idle"
    /\ PreValidate(m, ts)
    /\ \A i \in DOMAIN ts : Runnable(ledger[ts[i].campaign], DonorsOf(ts, ts[i].campaign))
    /\ Counted
    /\ mode' = m /\ targets' = ts /\ results' = <<>> /\ saved' = ledger
    /\ UNCHANGED <<ledger, unbumped, now>>

Next1 == Len(results) + 1
Running(m) == mode = m /\ Next1 <= Len(targets)

Report(outcome) ==
    results' = Append(results, [index |-> Len(results), outcome |-> outcome,
        validation_code |-> IF outcome = "ValidationFailed" THEN {INVALID_AMOUNT} ELSE {}])

Keep == UNCHANGED <<unbumped, now, calls, mode, targets, saved>>

SubCall(t) == Donate(ledger[t.campaign], t)

\* A sub-call that returns; its writes stay with the transaction's.
InvokeOk ==
    /\ mode # "idle" /\ Next1 <= Len(targets)
    /\ LET t == targets[Next1]
       IN  /\ SubCall(t).ok
           /\ ledger' = [ledger EXCEPT ![t.campaign] = SubCall(t).ledger]
    /\ Report("Success")
    /\ Keep

\* try_invoke_contract: the panic ends the sub-call only.
InvokeFailed ==
    /\ Running("best_effort")
    /\ LET t == targets[Next1]
       IN  /\ t.amount > 0
           /\ ~SubCall(t).ok
           /\ ledger' = [ledger EXCEPT ![t.campaign] = SubCall(t).ledger]
    /\ Report("InvocationFailed")
    /\ Keep

SkipInvalid ==
    /\ Running("best_effort")
    /\ targets[Next1].amount <= 0
    /\ Report("ValidationFailed")
    /\ UNCHANGED ledger
    /\ Keep

Finish(ledgers) ==
    /\ ledger' = ledgers
    /\ mode' = "idle" /\ targets' = <<>> /\ results' = <<>> /\ saved' = <<>>
    /\ UNCHANGED <<unbumped, now, calls>>

\* Mutant: a panic leaves what earlier sub-calls wrote.
PanicKeeps ==
    /\ Running("atomic")
    /\ ~SubCall(targets[Next1]).ok
    /\ Finish(ledger)

\* invoke_contract: the panic ends the whole transaction.
Panic ==
    /\ Running("atomic")
    /\ ~SubCall(targets[Next1]).ok
    /\ Finish(saved)

Return ==
    /\ mode # "idle"
    /\ Len(results) = Len(targets)
    /\ Finish(ledger)

-----------------------------------------------------------------------------
(* Environment *)

CloseLedger ==
    /\ mode = "idle"
    /\ now < MaxLedgers /\ now' = now + 1
    /\ ledger' = [c \in Campaigns |-> Aged(ledger[c])]
    /\ unbumped' = [c \in Campaigns |-> IF unbumped[c] < Threshold THEN unbumped[c] + 1 ELSE Threshold]
    /\ UNCHANGED <<calls, batchVars>>

\* Somebody pays to have a contract's archived entries back.
Restore(c) ==
    /\ mode = "idle"
    /\ \E k \in Keys : ~Live(ledger[c], k)
    /\ Call(c, Restored(ledger[c]))
    /\ UNCHANGED unbumped

-----------------------------------------------------------------------------
Empty ==
    [status |-> "None", raised |-> 0, total |-> 0, donations |-> 0, donors |-> 0, releases |-> 0,
     donated |-> [d \in Donors |-> 0], frozen |-> FALSE, blocked |-> {}, locked |-> FALSE,
     vec |-> <<>>, legacy |-> <<>>, report |-> NoReport, ttl |-> <<>>]

\* A contract of the earlier layout, as its own code left it.
Legacy ==
    [Empty EXCEPT !.status = "Active",
        !.legacy = [i \in Index |-> [target |-> Targets[i], released |-> 0, status |-> "Locked"]],
        !.ttl = [k \in {CampaignData} \cup {MilestoneData(i) : i \in Index} |-> BumpAmount]]

Init ==
    /\ ledger = [c \in Campaigns |-> IF c \in Deployed THEN Legacy ELSE Empty]
    /\ unbumped = [c \in Campaigns |-> Threshold] /\ now = 0 /\ calls = 0
    /\ mode = "idle" /\ targets = <<>> /\ results = <<>> /\ saved = <<>>

Next ==
    \/ \E c \in Campaigns : Initialize(c)
    \/ \E c \in Campaigns, i \in Index : ReleaseMilestone(c, i)
    \/ \E c \in Campaigns : EndCampaign(c)
    \/ \E c \in Campaigns, b \in BOOLEAN : SetFrozen(c, b)
    \/ \E c \in Campaigns, bs \in SUBSET Assets : SetBlocked(c, bs)
    \/ \E c \in Campaigns : BumpStorage(c)
    \/ \E m \in {"atomic", "best_effort"}, ts \in Batches : Begin(m, ts)
    \/ InvokeOk
    \/ InvokeFailed
    \/ SkipInvalid
    \/ Panic
    \/ Return
    \/ CloseLedger
    \/ \E c \in Campaigns : Restore(c)

Spec == Init /\ [][Next]_vars

-----------------------------------------------------------------------------
(* Properties *)

Statuses == {"Locked", "Unlocked", "Released"}
Milestone == [target : 1..MaxI128, released : 0..MaxI128, status : Statuses]

LedgerOk(l) ==
    /\ l.status \in {"None", "Active", "GoalReached", "Ended"}
    /\ l.raised \in 0..MaxI128 /\ l.total \in 0..MaxI128
    /\ l.donations \in Nat /\ l.donors \in Nat /\ l.releases \in Nat
    /\ l.donated \in [Donors -> 0..MaxI128]
    /\ l.frozen \in BOOLEAN /\ l.locked \in BOOLEAN /\ l.blocked \subseteq Assets
    /\ DOMAIN l.vec \subseteq Index /\ \A i \in DOMAIN l.vec : l.vec[i] \in Milestone
    /\ DOMAIN l.legacy \subseteq Index /\ \A i \in DOMAIN l.legacy : l.legacy[i] \in Milestone
    /\ DOMAIN l.ttl \subseteq Keys /\ \A k \in DOMAIN l.ttl : l.ttl[k] \in Nat

\* Every entry holds a value of its kind, and a transaction in progress has
\* reported on at most its own targets.
TypeOK ==
    /\ DOMAIN ledger = Campaigns /\ \A c \in Campaigns : LedgerOk(ledger[c])
    /\ unbumped \in [Campaigns -> 0..Threshold] 
    /\ now \in 0..MaxLedgers /\ calls \in 0..MaxCalls
    /\ mode \in {"idle", "atomic", "best_effort"}
    /\ targets \in Batches \cup {<<>>} /\ Len(targets) <= MaxBatchSize
    /\ Len(results) <= Len(targets)
    /\ mode = "idle" => saved = <<>>
    /\ mode # "idle" => DOMAIN saved = Campaigns /\ \A c \in Campaigns : LedgerOk(saved[c])

\* What a donation writes to several entries never disagrees between them,
\* between any two sub-calls of a batch: the campaign's raised amount, the
\* total, the donors' records, the two counters, the status and the memoised
\* report.  No campaign is left locked.  (donate writes two of these entries
\* before its last check, and a batch goes on after a sub-call that panicked.)
EntriesAgree ==
    \A c \in Campaigns :
        LET l == ledger[c]
        IN  /\ l.total = l.raised
            /\ SumFunction(l.donated) = l.raised
            /\ {d \in Donors : l.donated[d] > 0} = {d \in Donors : Has(l, DonorData(d))}
            /\ l.donors = Cardinality({d \in Donors : Has(l, DonorData(d))})
            /\ l.donations >= l.donors
            /\ l.status = "GoalReached" => l.raised >= Goal
            /\ l.status = "Active" => l.raised < Goal
            /\ GetCachedReport(l) = BuildReport(l)
            /\ ~l.locked

\* A milestone of a campaign is past Locked exactly when its target has been
\* raised, whichever layout it is stored in and wherever the change of layout
\* happened.
UnlockedExactly ==
    \A c \in Campaigns : Has(ledger[c], CampaignData) =>
        \A i \in Index :
            \E m \in GetMilestone(ledger[c], i) :
                m.status # "Locked" <=> m.target <= ledger[c].raised

\* Calling bump_storage in time keeps the campaign record, the counters, the
\* milestones in either layout and the report from being archived: none of them
\* runs out within Threshold ledgers, those first written since included.
CoreKept ==
    \A c \in Campaigns : unbumped[c] < Threshold => \A k \in CoreKeys : Live(ledger[c], k)

\* What the dashboards show: the milestone flagged as next is the one
\* release_milestone takes as soon as it is unlocked, a milestone shows as
\* fully released exactly when it is, and nothing is pending then, and as many
\* show so as the release counter says: a release reaches the layout that the
\* views read.
ViewsAgree ==
    \A c \in Campaigns : Has(ledger[c], CampaignData) =>
        /\ ledger[c].releases = Cardinality({i \in Index :
                \E v \in MilestoneView(ledger[c], i) : v.is_fully_released})
        /\ \A i \in Index :
            \E m \in GetMilestone(ledger[c], i), v \in MilestoneView(ledger[c], i) :
                /\ v.is_fully_released <=> m.status = "Released"
                /\ v.is_fully_released <=> v.pending_release = 0
                /\ Releasable(ledger[c], i) <=>
                        v.is_next_pending /\ m.status = "Unlocked" /\ ~ledger[c].frozen

Succeeded(c) == {i \in DOMAIN results : results[i].outcome = "Success" /\ targets[i].campaign = c}

\* What the targets before the running one gave campaign c.
Given(c) == SumFunctionOnSet([i \in DOMAIN targets |-> targets[i].amount], Succeeded(c))

ReturnStep ==
    mode # "idle" /\ mode' = "idle" =>
        \/ mode = "atomic" /\ ledger' = saved
        \/ /\ Len(results) = Len(targets)
           /\ \A i \in DOMAIN results :
                /\ results[i].index = i - 1
                /\ mode = "atomic" => results[i].outcome = "Success"
           /\ \A c \in Campaigns :
                /\ ledger'[c].raised = saved[c].raised + Given(c)
                /\ Succeeded(c) = {} => ledger'[c] = saved[c]

\* A batch ends either with every ledger as it was (atomic only), or with one
\* result per target in order, whose successes are exactly what the campaigns'
\* totals grew by; a campaign no target succeeded for is as it was.
BatchTellsTruth == [][ReturnStep]_vars
=============================================================================
