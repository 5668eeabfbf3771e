# OrbitChain contracts: TLA+ models, model checking and proofs

This directory specifies the repository's contracts, its wallet page and its
command line tools in TLA+, checks them with TLC on small instances and proves
their main safety properties with TLAPS for every instance.  It is written next
to `src/`; every definition that models code is listed in `PROJECT.json` under
`map` with the lines it stands for.

## 1. The system

OrbitChain is a crowdfunding platform on Stellar/Soroban.

| Part | State it keeps | Operations | Talks to |
|---|---|---|---|
| **campaign contract** (`campaign/`) | one campaign: status, goal, raised amount, deadline, accepted assets; up to five milestones; donor records and per-asset contributions; running totals and counters; freeze flag, asset block list; memoised report | `initialize`, `donate`, `claim_refund`, `release_milestone`, `release_milestone_multi_asset`, `end_campaign`, `cancel_campaign`, `extend_deadline`, `freeze`, `unfreeze`, `block_asset`, `unblock_asset`, `bump_storage`, `upgrade`, views | token contracts (balance, transfer) |
| **campaign storage** (`campaign/src/storage.rs`) | persistent entries with a time to live, the temporary re-entrancy lock, two layouts of the milestones | getters and setters that bump lifetimes, lazy migration | the host's ledger |
| **batch donor** (`crates/contracts/batch-donor`) | none of its own | atomic and best-effort batches of donations | campaign contracts |
| **legacy core** (`crates/contracts/core`) | many campaigns, per-asset totals, donation history, one withdrawal request per campaign, counters | initialize, create, donate, withdraw, approve, submit, reports | – |
| **wallet session** (`wallet_connect.js`) | connected flag, screen and dialogs, session in `localStorage`, return parameter in the URL, what is awaited | connect, pick, cancel, disconnect, restore on load, mobile return | browser wallets, a wallet app, an authentication server |
| **withdrawal audit** (`crates/tools/src/withdrawal_audit.rs`) | entries in memory, a cursor, an append-only file | log, flush, load | the file system |
| **command line tools** (`crates/tools`) | `.env` settings, deployment records per network, one contract-id file, a vault file, signing requests and a file of signed answers | deploy, invoke, key vault and key pairs, request, sign, respond | the `stellar` program, the file system, wallets |
| `common`, `token-bridge`, `crates/testkit`, `fuzz`, `e2e`, `scripts` | – | versions, a skeleton, test and deployment support | – |

What is hard here: a campaign's money is described by several books at once
(`raised_amount`, donor totals, per-asset contributions, `total_raised`,
per-asset totals, milestones, real token balances) that different entrypoints
change in different ways; two release entrypoints with different rules can be
mixed; refunds depend on what has been released so far; the safety switches are
checked by each entrypoint on its own; `initialize` takes milestones and asset lists
nobody checks; integer division rounds, and arithmetic that is not checked wraps.
In the off-chain parts it is asynchrony and failure: late wallet answers, redirects,
half-written files, commands of several people in one checkout that share files
nobody locks.

What makes each part correct:

* campaign: the books agree; milestones unlock exactly when reached and are paid
  once and in order; nobody is refunded more than it gave for each entry of the
  asset list; a concluded campaign stays concluded; the switches switch off what
  they should; the report is fresh.
* storage: an entry still needed is never archived; both milestone layouts read
  the same; the lock is free between transactions.
* batch donor: all or nothing, or each result tells what happened to its own target.
* legacy core: entries agree although identifiers are reused and sums wrap; a
  withdrawal is approved once and covered.
* wallet session: screen, flag, listeners and storage agree; nothing but a signed
  return undoes a sign-out.
* audit log: what was acknowledged stays, in order and once, and the file loads.
* tools: records name contracts that exist where they say; a network is not
  deployed to twice by accident; the admin's key and no other signs; keys that
  belong together stay together; only what was requested is submitted.

## 2. Modules

| Module | What it is |
|---|---|
| `Campaign` | the campaign contract, one action per entrypoint, with its plausible bugs as named variants (`...BreakEarly`, `...Twice`, ...) next to the definitions they alter |
| `CampaignProperties` | type invariant, safety invariants, action properties, the refinement mapping, and what the documentation claims |
| `Escrow` | the abstract promise: terms at the launch, pledge while open, earn milestones in order, pay each once, settle each donor once and, under a regular plan, within its pledge for each time the token is listed |
| `MCCampaign` | small instances |
| `CampaignProofs` | the inductive invariant and the theorems |
| `CampaignRefinement` | the proof that `Campaign` implements `Escrow` |
| `MachineIntegers` | signed integers that wrap, and division towards zero; used by the campaign and the legacy contract |
| `SumLemmas` | the laws of sums over a finite set, proved by a first-order induction on subsets, and of numbers that wrap; used by the proofs of the campaign, the batches and the legacy contract |
| `WithdrawalAudit` | the audit log: memory, cursor and file of several processes, with its invariants and what the documentation claims |
| `MCWithdrawalAudit`, `WithdrawalAuditProofs` | its small instances; its inductive invariant and theorems |
| `Core`, `MCCore`, `CoreProofs` | the legacy contract: every call, and its views as operators; small instances; theorems |
| `CampaignStorage` | operators on one campaign's ledger entries: accessors, lifetimes, both milestone layouts, report cache, views |
| `BatchDonor`, `MCBatchDonor`, `BatchDonorProofs` | several campaigns, each a ledger of `CampaignStorage`, with the batch contract on top; small instances; theorems |
| `WalletSession`, `MCWalletSession`, `WalletSessionProofs` | the wallet page, with its fairness; small instances; theorems |
| `KeyVault` | operators on vaults: cipher, vault, key pairs, save and load, choice of the signing key |
| `Deployments` | `deploy` by several operators, step by step |
| `SigningDesk` | requests, wallet answers, the answer file, server signatures |
| `OperatorTools`, `MCOperatorTools`, `OperatorToolsProofs` | composes the three above with the settings, `invoke` and the vault file; small instances; theorems |

`Campaign` and `CampaignStorage` are two views of one contract.  The first has
the money, the clock and every rule, with entries that are simply there; the
second has the entries with their keys, lifetimes and layouts, and only as much
of the rules as decides which entries a call touches.

### State and actions of `Campaign`

* `status ... concluded_at` are the fields of `CampaignData`; `NONE` means no
  record is stored.  `target`, `released`, `mstatus`, `released_to` are the
  fields of the milestone vector (index `i` is `i-1` in the code).
  `donors`, `total_donated`, `refund_claimed` are the `DonorRecord`s,
  `donated` the `DonorAssetDonation` entries; `total_raised`, `asset_raised` and
  the three counters are the keys of `storage.rs`.  `report` is the memoised
  report.  `now` stands for the ledger's timestamp and its sequence number,
  `balance` for what the token contracts hold for this contract.  `given` and
  `refunded` are history: the milestones `initialize` was given, and what each donor
  got back.
* `Initialize` takes any plan and any list the host lets through, as the code does:
  milestones may come in unlocked or released, with any released amount, negative
  ones included, and a token may be listed more than once.  `Entries(t)` says how
  often; `RefundTotal` is the refund loop's payment per entry, and `Remainders` the
  loop of the release by shares, in which each entry takes its share of what the
  entry before left.  That an asset code must not be empty is left out.
* One action is one call.  The host runs a call as a transaction and a panic
  undoes it, so a failing check is a guard.  `require_auth` is the host's.
* `donate` moves no tokens.  Balances grow by `Deposit`, an independent step.
* `RefundDeadline` is taken modulo `MaxU64 + 1`, and `RefundNumerator` wraps around
  (`MachineIntegers`): the release profile has no overflow checks.  Checked `i128`
  arithmetic is a guard against `MaxI128`.  One such product is in the report:
  `ProgressFits` is part of every call that rebuilds it, so a donation that makes
  10 000 times the raised amount overflow below the goal is refused.
* `TotalReleased` is written out over five milestones (`MAX_MILESTONES`).
* The re-entrancy lock is not in this module: it is taken and dropped within one
  call, and matters only to calls from inside a token transfer.
* `upgrade` (replaces the code) and `bump_storage` (lifetimes only) change
  nothing modelled here.

`AddressAssumption` (and `StorageAssumption` in `CampaignStorage`) says that there
are finitely many donors and tokens: an address is 32 bytes.

`ArgumentsAssumption` says no more of plans and lists than that they have their
types.  What holds only for some of them says so in the property: `RegularPlan`
asks that no target or released amount is negative and that five times each fits an
`i128`, and the bounds on what a refund or a release pays are per entry of the list.

### State and actions of `WithdrawalAudit`

* `entries` and `flushed` are the fields of a process's `WithdrawalAuditLog`.
  `file` is the content readers see, as a sequence of pieces, three to a line,
  so that a write can stop inside an object, between object and newline, or
  between lines.  `durable` says how much of it an `fsync` has made safe.
* `Log` is `log`.  `flush_to_disk` is `FlushBegin` (the pending entries become
  one buffer), one or more `Write`s (`write_all`'s loop), and `Sync` (`fsync`,
  then the cursor); `FlushFails` is each of its early returns.  Other processes,
  crashes and power losses come in between; the log itself cannot be used
  meanwhile, since `log` takes it mutably.
* `Load` is `load_from_disk`, which every process calls when it starts, as the
  documentation asks; a line that is no entry makes it fail and the process does
  not start.
* `Crash` ends one process; `PowerLoss` ends all and leaves of the unsynced
  pieces any prefix.  That the file system keeps a prefix, and that a later
  successful `fsync` covers what an earlier failed one did not, are assumptions
  about the environment.
* `logged`, `acked`, `failed` and `whole` are history; `flushes` bounds the run.

### State and actions of `Core`

* `admin`, `count` and the three totals are instance storage; `camp`, `araised`,
  `history`, `don`, `donors` and `pendwith` are the persistent entries by
  campaign.  Titles, memos, timestamps, deadlines and recipients are only copied
  and are left out.
* `Initialize` has no guard: the code asks the new administrator, and nobody else,
  for its authorization (`admin.require_auth()`, `lib.rs:237`) and has no check for
  an earlier call, so any address may name itself at any time.  It sets the campaign
  counter to 0 and leaves all other entries, so an identifier can be handed out again.
* `Donate` moves no tokens and bounds its amount from below only.  Its additions to
  the raised amount (`:327`) and to the per-asset total (`:340`) are unchecked, and so
  are the product (`:737`) and the cast to 32 bits (`:738`) of a report's progress: a
  release build wraps around, and so do `Credited`, `AssetCredited` and `Progress`.
  The subtraction of an approved amount cannot wrap, because it is covered.
* `CreateCampaign`, `Donate`, `Withdraw`, `ApproveWithdrawal` and
  `SubmitTransaction` are the other calls; views are operators
  (`GetDonationHistory`, `GetCampaignReport`, `GetPlatformSummary`,
  `GetDashboardMetrics`).  Page arithmetic is modulo `Word` (2^32 in
  the code).
* `inits`, `born`, `before`, `approved`, `filedBy` are history.

### State and actions of `CampaignStorage` and `BatchDonor`

* A ledger is a record: the values, and `ttl`, the lifetime of each entry that
  exists.  `Touch` is `bump_persistent`, `Write` is `set` and then
  `bump_persistent`; each getter and setter touches or writes what the code does.
* `vec` and `legacy` are the two layouts of the milestones; `GetMilestonesVec`,
  `SetMilestone` and `UnlockMilestonesBatch` choose between them as the code does.
* `Begin` starts a batch transaction, `InvokeOk`, `InvokeFailed` and
  `SkipInvalid` are one target each, `Panic` puts the saved ledgers back, `Return`
  ends the batch.  A sub-call runs on a copy (`Donate`) which the host drops when
  it panics, although the code has written two entries before its last check.
* `CloseLedger` ages every entry; one that runs out makes every call that needs
  it impossible until `Restore`.  `unbumped` counts ledgers since all core
  entries of a campaign were refreshed together.

### State and actions of `WalletSession`

* `page` is what the page finds (phone or desktop, kind of `localStorage`,
  extensions, optional markup); `stored`, `connected`, `screen` and `announced`
  are the session as storage, the controller, the user and the listeners have it.
* An action is a handler up to its `await`.  What it waits for is a member of
  `flights`; `Answer` is the rest of the handler.  The code keeps no token that
  ties an answer to what the user did since, and neither does the model.
* `Reload` ends every flight; `Return` is the browser coming back from the wallet
  app with or without a signature in the URL.  The URL is cleaned only when the
  server has accepted the signature, so a later `Reload` posts a failed return again.
* `asked`, `out`, `late`, `posted`, `over`, `returns` and `returned` are history;
  `posted` says that a load since the sign-out has posted a signed return.

### State and actions of the tools

* `Deployments`: `records` and `idFile` are files, `chain` what really exists,
  `runs` each operator's progress.  A write empties its file first, so every file
  has a moment, and after a crash forever, in which it does not parse.
  `StellarFails` may have deployed all the same.  A record deleted under an open
  run is `unlinked`.  `excuses` counts the reasons there were to deploy again.
* `SigningDesk`: `requests` and `answers` are all there ever were, `file` is the
  one the tools share, `savers` the answers being written to it.  A text is a
  sequence, because `DonationText` puts donor, campaign and amount next to each
  other with nothing between them.
* `KeyVault`: a key pair is one value, so a public and a secret string belong
  together when they are equal; a cipher text opens under its own password only.
* `OperatorTools`: `env` is `.env`, `keeper` the vault in the memory of a program
  that uses the library, `vaultFile` the file both it and `vault-save` write,
  `saving` a save under way.  `half` names the pairs whose last store reported a
  failure after it had changed the vault.  `left` bounds commands, calls of the
  keeper and calls at the desk.

## 3. Runs

| Run | Question | Bounds |
|---|---|---|
| `campaign_ledger` | do the books agree, are payouts accounted for? | two donors (symmetric), two tokens listed once each or one of them twice, targets 1 and 3, milestones all locked, partly unlocked and released, or with released amounts whose sum wraps, amounts 1 and 2, three donations, balances up to 3 from deposits of 3, largest integer 15, time stands still; 0.7 million states |
| `campaign_lifecycle` | do status, deadlines, conclusion, freeze, block list and report behave; does the contract implement `Escrow`? | one donor, one token, targets 0, 1, 2, a wrongly ordered plan and one with the second milestone unlocked and a negative released amount, two asset lists, one of which names the token twice, minimum donation 0 or 2, three deadlines, time 0 to 4, two donations; 1.1 million states |
| `freeze_bypass` | is every write rejected while frozen (`lib.rs:675`)? No. | one donor, one token |
| `released_increment` | does a release pay the distance to the previous target (`types.rs:462`)? No. | same |
| `late_cancellation` | does cancelling make all donors eligible (`lib.rs:579`)? No. | same, time to 3 |
| `late_donation` | are donations rejected after `end_time` (`types.rs:406`)? No. | same, time to 2 |
| `audit_log` | do acknowledged entries survive, once and in order; does the file load? | two processes (symmetric), three entries, three flushes, any number of crashes and power losses |
| `audit_torn_line` | is each line a parseable entry (`docs/deployment.md:84`)? No. | one process |
| `core_registry` | do balances, histories, counters, requests and pages agree, with re-initialization in between? | two addresses in every role, two assets (symmetric), two campaigns, one initialization at any point, three donations, two withdrawals, amounts that wrap a sum or a progress; 2.3 million states |
| `batch_storage` | do a campaign's entries agree after every sub-call; do results and views tell what is stored; does `bump_storage` keep entries alive? | one campaign of each layout, two donors, targets 1 and 2, six batches, largest amount 2, five calls, three ledgers, threshold 2; 0.5 million states |
| `wallet_session` | do screen, flag, listeners and stored session agree; what undoes a sign-out; does a disabled button come back? | seven kinds of page, two keys, two extensions, four flights, three loads; 0.1 million states |
| `operator_tools` | do records, keys and submitted texts stay what they should be when people share a checkout? | two operators (symmetric), two networks, two key pairs, five settings, two passwords, two requests that read alike, three contracts; up to three commands, five keeper calls or six desk calls; 1.2 million states |

Why the bounds suffice for the audit log: three flushes allow a failed one, its
retry and another process's or another entry's flush before, between or after
them; three entries give a process two lines in one buffer while the other has
one; a write may stop at each of the piece boundaries.

Why the bounds suffice for the legacy contract: campaigns are created before and
after the initialization, so both identifiers are used twice, with a history, a donor
list and a pending request of the first life; the smallest amount is the fee and is
refused; two large donations wrap the raised amount below a pending request, and
small ones wrap the progress product; pages of one and two records cut a history of
three at every place.

Why the bounds suffice for the batches: a batch succeeds or fails at its first,
second or third target, in one campaign or two; an amount over the largest
integer, an unsigned donor, a frozen, ended or blocked campaign and an archived
entry are all met; three ledgers with a threshold of 2 pass the lifetimes of new,
touched and untouched entries.

Why the bounds suffice for the wallet page: four flights let an answer arrive
after a cancel, a sign-out and a new connection and still leave one to restore;
three loads hold a session made, reloaded and lost, and a return that fails, is
followed by a sign-out and is posted again.

Why the bounds suffice for the tools: both operators can be at any step of a
deploy at once, on one network or two, from a checkout with a record and from one
without; five keeper calls are a store that fails half way, a save, a new vault, a
load and another store.  Deploys, the keeper and the desk share no state but the
settings and the vault file, so long histories of each are explored by themselves
and `vault-save` and `invoke` are interleaved with shorter ones.

Why the bounds suffice for the campaign: three donations with amounts 1 and 2 reach
every order of crossing the two targets, over-funding included, by one donor or two
and in one token or two; shares of 1 and 3 out of totals up to 6 round down with a
remainder; releases of 1 and 3 exceed a raised amount of 3, which gives a negative
refund numerator.  Deposits are larger than, equal to or smaller than what a call
pays.  In the second run the clock passes every deadline and the refund window
before and after conclusion, a first target of 0 is reached without a donation, and
the asset lists have a first asset without a token. The plans that are not all
locked start with a milestone released, with one unlocked behind a locked one, with
a part or a negative amount released, and with two released amounts of 15 whose sum
wraps; with the token listed twice a refund and a share are paid twice.  Every
action fires in the two passing runs together.

What the passing runs say is in the comments of each property.  Worth
noting: `MilestoneGate` holds although the unlock scan stops early, because
targets ascend; `RefundWithinContribution` holds although releases may happen
between two donors' claims and the quotient is rounded up to one, but only for
regular plans and once for each entry of the list;
`LedgerAgreement` holds across multi-asset releases although shares are
rounded.

### Where the code and its documentation disagree

1. `release_milestone_multi_asset` ignores the freeze flag (`freeze_bypass`).
2. A release pays the whole cumulative target, so releasing all milestones of a
   campaign that raised its goal exactly pays more than the goal
   (`released_increment`).
3. The refund window runs from `end_time`, not from the conclusion
   (`late_cancellation`).
4. `donate` never looks at `end_time` (`late_donation`).
5. The audit log does not undo a write that stopped inside a line; the retry
   goes on behind the torn piece and `load_from_disk` refuses the file from then
   on (`audit_torn_line`).

Seen while modelling and not the subject of a run of their own:

*Audit log.*  The documentation says flushes never duplicate lines
(`withdrawal_audit.rs:121`), but one that fails after its write, at `fsync`, is
repeated by the next (`OrderedOnce` says that nothing else is).  A restarted
process counts lines as flushed that a crashed one never synced.

*Campaign.*  `types.rs` calls `Ended` terminal, but `cancel_campaign` reopens it
for refunds.  The comment of INVARIANT 2 in `test/invariant_tests.rs` says
donations are clamped at the goal, and they are not; INVARIANT 4 there says no
milestone is released while the campaign is active, and both releases allow it.  A
release to the contract's own address, or with an empty primary balance, marks the
milestone released without paying.  After a multi-asset release the next one
computes its shares from reduced totals and, with cumulative targets, may never
succeed.  An `end_time` close to the largest `u64` wraps the refund deadline
around.  `types.rs` lists the freeze flag as temporary, it is stored persistently.
Milestones in the old layout are read without being refreshed.  `donate` writes
the campaign and the total before it looks at the block list, and relies on the
host to undo them.  `initialize` accepts an asset list that names a token twice:
`claim_refund` then pays that token's refund once per entry, more than the
donor gave, and the release by shares pays a further share from what the first one
left (`RefundWithinContribution` and `PayoutsAccountedFor` say how much at most).  It
also stores milestones as they come: one passed in as `Unlocked` can be released
before its target is raised, a negative released amount or released amounts whose
unchecked sum wraps (`lib.rs:495`) raise the refunded fraction above one.  The report's
progress is a checked product, so under a very large goal a donation can be refused
for the report's sake.

*Legacy contract.*  `initialize` may be called at any time by anyone who names itself
the administrator.  It resets
only the count of campaigns, so `get_campaign_count` is not the number "ever
created", and a request that was pending for the old campaign can be approved
against a new one with the same identifier (`RequestCovered` is about identifiers used
once).  `donate` costs nothing, has no upper bound and adds without a check: two
donations near the largest `i128`, by anybody, make a campaign's raised amount or a
per-asset total negative, uncover a request that is waiting for approval, and before
that make the reported progress any number, since its product wraps as well.
`CampaignBalance` therefore compares the totals modulo the word, and `RequestCovered`
and `Honest` say as long as what they hold.

*Batch donor.*  The documentation of `batch_donate_continue_on_error` promises a
panic for a bad amount; the code reports `ValidationFailed` for that target.
`from_code` ignores its argument, so the panic is always `BatchEmpty`.

*Wallet page.*  An answer that arrives after a cancel or a disconnect connects
anyway (`SignedOut` is about the case without one).  A failed mobile return leaves
its parameters in the URL (`wallet_connect.js:286` cleans it after a success only),
so any later reload posts it again: also after the user has connected in another way
and signed out, and if the server then accepts it the user is signed in again.
`SignedOut` states this exception: nothing else undoes a sign-out, and the session
is a mobile one.  A failure that arrives late clears the connected flag without an
event, while a newer session stays stored. Cancelling after `connectWallet` over a
session leaves the page connected under a button that says Reconnect (the exception
in `ScreenTellsTruth`).

*Tools.*  One contract-id file serves all networks: it names the contract of the
last deploy, wherever that was.  A last output line that is no contract id is
recorded after a warning.  While a record is being written it reads as "not
deployed".  `deploy` accepts the sandbox network, `invoke` does not.
`export_to_env_vars` writes a suffix where `from_env` reads a prefix.
`vault-save` replaces a vault file that a program keeps key pairs in.  A store
that fails half way leaves a mixed pair which `validate` accepts.  Generated pairs
have an empty secret and can never be stored.  The text of a donation of 11 to
campaign 1 is that of 1 to campaign 11.  Request ids repeat within a millisecond.
`response submit` reads the file without validating it, and `response validate`
expects a format other than the one `save` writes.  A server's signature does not
cover the request id.  `sign_from_env` takes `SOROBAN_SECRET_KEY`, not the admin's.

### Fairness

Only `WalletSession` assumes any: `WF_vars(Answer(n))` for every flight.  A wallet,
the prompt, the wallet app's challenge and the authentication server answer in the
end, with a result or an error; JavaScript then runs the rest of the handler.  The
user need not do anything, so no step of `User` is fair, and `BusyEnds` says that
answers alone get a disabled button enabled again; a page that waits behind an open
dialog waits for the user and is not covered.

Everywhere else every step is a call, a command or a failure that may or may not
happen, so nothing is guaranteed to.  The audit log is flushed only when its caller
says so; the module's own comment leaves periodic flushing to callers that do not
exist yet.

## 4. Proofs

`CampaignProofs` proves, for all donors, tokens, plans, asset lists, amounts and bounds
that satisfy the three `ASSUME`s of `Campaign` (ranges of numbers, types of arguments,
finitely many addresses), that the conjunction `Inv` is an inductive invariant.  `Inv`
is `TypeOK`, `MilestoneGate`, `StatusTracksGoal`, `RefundWithinContribution` and
`SequentialRelease` with four additions they need:

* `Shape`: a campaign exists exactly when it has milestones, at most five, the
  last target is the goal, and nothing is frozen before it exists;
* `Ascending`: targets ascend, because `initialize` compares neighbours
  (`ConsecutiveIsAscending` needs no induction as there are at most five);
* `PlanKept`: targets stay those of the plan, and what was passed in as released
  stays so, which is what the properties that speak of the plan compare with;
* `Bounded`: nothing credited to a donor or a token exceeds the raised amount,
  which is why one overflow check in `donate` protects every total, and why a
  donor's product never divides by zero.

The step is proved action by action (`InitializeInv`, `DonateInv`, `ClaimRefundInv`,
`ReleaseMilestoneInv`, `MultiReleaseInv`, `ConcludeInv`, `OtherInv`).  The heart is
`RefundBounded`: under a regular plan every released amount is one of the plan's or
a target (`ReleasedAmounts`), so neither their sum nor the difference wraps and the
refund numerator is at most the denominator (`NumeratorBounded`), so the quotient is
at most what the donor gave (`ShareIsBounded`), and the floor of one unit is used
only for a donor who gave at least one; `RefundTotalBounded` multiplies by the
entries of the list.  From `Inv` follow the five invariants, and with it the action
properties `MilestonesOnlyAdvance`, `BooksClosed` and `FreezeShields`; `ReportFresh`
is inductive by itself.

`LedgerAgreement` is inductive together with `Inv` (`BooksInit`, `BooksNext`).  A
donation adds the same amount to one entry on each side of every equation, which
is `SumChangeOne` (`BooksDonate`).  A release by shares takes a share from several
per-asset totals at once and the sum of the shares from the running total, which
is `SumPointwise` (`BooksMultiRelease`); nothing is assumed of the rounding.

`PayoutsAccountedFor` is about the tokens that leave, summed over all of them.
`RefundPayout` needs that nothing was refunded before a donor's one claim, so what
leaves is what the donor has got back in all (`RefundWithinContribution`).  `SharesFit`
shows that the shares of what is pending add up to at most that, for every time the
list names the token it names most often: each share is rounded down and taken from
what the entry before left (`ShareOfEntries`), and the per-asset totals add up to the
running total they are divided by, which `LedgerAgreement` says.

`SumLemmas` is there because the library's induction theorems take an operator as a
parameter, which the provers cannot instantiate.  `SubsetInduction` takes the *set*
of good subsets instead and follows from the proper subset order on finite sets
being well-founded.  With it, the function that the library's sum is defined by
is shown to exist and to be unique, hence that any element may be taken out of the sum
first (`SumTakeOut`), and from that the other laws.  `WrappedAdd` says that adding and
then wrapping is the same as adding to what has wrapped already.

`CampaignRefinement` proves `Spec => ImplementsEscrow`: the initial state maps to
the escrow's, each entrypoint to one step of the escrow or to none.  Donations need
`Inv'` (what is unlocked after a donation has no locked milestone before it, because
`MilestoneGate` holds again and targets ascend), refunds need `RefundTotalBounded`
and one more invariant, `DonorsPledged`.  The launch sets the terms, and no other
step changes them (`TermsKept`).

`WithdrawalAuditProofs` proves all four properties of the audit log, for
any number of processes and entries.  The invariant behind `AckedDurable` is
`NothingDropped`: during a flush every piece of every pending line is in the
file or in what is left of the buffer.  A write moves pieces from one to the
other, so when `Sync` is reached all are in the file, and syncing makes them
durable; crashes take processes out of the invariant's scope, and a power loss
keeps everything up to `durable`.  `OrderedOnce` needs `Order`: what stands in the
file may be followed by what is left of the buffer (`MayFollow`: of one process, a later
entry or one that failed before), so a write only moves the line between the two; and
what an idle process has pending comes after all the file has of it, unless it failed.
`WholeWritesReplay` needs `Whole`: while no write has stopped early, the file is a
sequence of whole lines (`Lines`), and `ReplayHasStarts` finds the entry of every line
that begins in what `load_from_disk` reads back.

`CoreProofs` proves all six properties of the legacy contract.  `RequestCovered`
needs two facts beside `CampaignBalance`: `BornExists`, a campaign is stored under
exactly the identifiers that were handed out, so a fresh identifier has none, and a
request's campaign exists; and `Spent`, as long as all donations to a campaign fit
an `i128` no more was approved than was donated, so its raised amount is the exact
difference (`RaisedFits`) and a further donation only adds to it.  `DonorRecords` is
proved call by call; only `Donate` touches it, and `WithDonorType` and its
companions say what the list gains.  `CampaignBalance` is `BalanceInv` for each
identifier: what was in the history when the identifier was handed out is at most
the history, and a record that is added changes the sum over indices by one term and
the wrapped total by that term (`WrappedAdd`).  `DashboardInv` says that the
campaigns up to the counter exist and that no donor list is longer than its history.
`PagesPartition` is proved under `PagesFit`: page sizes are positive and no product
of a page and a size that a history can need reaches 2^32.  The code does not bound
what a caller passes; for a page beyond that its product wraps around and an early
page comes back.

`WalletSessionProofs` proves `TypeOK`, `ScreenTellsTruth`, `SignedOut`,
`OneSessionPerReturn` and `NoSilentUpgrade`.  `PageInv` adds to the types what each
handler relies on: `ScreenInv` (dialogs stand over a disabled button, what the
screen shows is true, and button and flag agree as long as nobody connects over a
session), `OutInv` (after a sign-out with nothing awaited no answer but a return's
is awaited, none with a signature before a load has posted one, and what is stored
is nothing or a mobile session, so no load restores it), `ReturnInv` (a signed
return that is still in the URL is still owed its session, and at most one flight
verifies it). `QuietInv` is about a load in which the user has done nothing yet: no
dialog is open and at most one answer is awaited, a return's or a Freighter
session's.

`OperatorToolsProofs` proves all six properties of the tools.  The state has three
parts, and `DeployParts`, `DeskParts` and `VaultParts` show that every step is a
step of one part and leaves the others alone, so `ToolsInv` is the conjunction of
three independent invariants: `RunsHold` (a run past its deployment holds a contract
of its network, one past its record has recorded it), `Requested` for all texts on
their way, and `Match` for the vault in memory, in the file and in a save.
`ToolsOneContractUnlessExcused` counts: the contracts of a network and the runs
that have checked but not deployed are together at most one more than the excuses
(`CountInv`), and while they are, a run is deciding or a record is there, so the
next start needs an excuse itself.

`BatchDonorProofs` proves all six properties of the batches, in two layers.
`BatchInv` is about the entries and their lifetimes.  Every accessor either
leaves the milestones alone and prolongs lifetimes (`Calm`, which is transitive) or
writes the vector (`VectorWritten`); `Fine` is preserved by both, and so by every
call, sub-call and rollback.  In it, `Layout` says that whichever layout is in force
is complete and right for the raised amount, and `Kept` that core entries outlast
what is left of the threshold.  From it follow `CoreKept` and `UnlockedExactly`.

`SoundInv` adds what the entries say.  `Books` is the agreement of raised amount,
total, donor records and counters, with an open lock and a report that is absent or
fresh; `Payments` says that what is released is settled, in order and as often
as the counter says, in the layout that the views read.  A call is a chain of
accessors, and each of them either `Keeps` the accounts or is the one write that
changes them.  During a batch `BatchSoFar` holds: each ledger has raised what the
saved one had and what its successful targets gave, and is the saved one if there
are none.  `OneResult` adds one target to that sum.  `TypeOK`, `EntriesAgree`,
`ViewsAgree` and `BatchTellsTruth` follow from it.

Only model-checked:

* `BusyEnds`, which is liveness under fairness;
* that the properties of the violation runs are violated.

## 5. Not modelled, and why

* `upgrade` replaces the code, and nothing can be said of what follows it.
* Calls back into the contract from a token transfer: the host refuses them, and
  the re-entrancy lock says so again in the four calls that take it.
* Events, and views that return what is stored.
* The storage backend trait and its in-memory double: no entrypoint uses them.
* The transient contract status and the setters no entrypoint calls.
* Of the tools: commands that only print (configuration, network, account, asset,
  toggles), the table that maps errors to messages, argument lists handed to the
  `stellar` program, testnet funding and log output; they keep no state.  Two saves
  to the vault file at the same moment are left out too: a short text written over a
  longer one could then mix two vaults.
* `common` (constants), `token-bridge` (a skeleton), the test kit, fuzz targets and
  scripts: no behaviour of the system's own.
