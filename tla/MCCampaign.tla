----------------------------- MODULE MCCampaign -----------------------------
(* Small instances of the campaign contract for TLC. *)
EXTENDS CampaignProperties, TLC

CONSTANTS d1, d2, usdc, xlm

Given(t, r, s, to) == [target |-> t, released |-> r, status |-> s, released_to |-> to]
Milestone(t) == Given(t, 0, "Locked", NONE)

FreshPlans == {<<Milestone(1), Milestone(3)>>}

\* Also a plan that starts with a milestone released and one unlocked, of which a
\* part is released; and one whose released amounts wrap around when added up.
LedgerPlans == FreshPlans \cup
    {<<Given(1, 1, "Released", "beneficiary"), Given(3, 1, "Unlocked", NONE)>>,
     <<Given(1, 15, "Released", NONE), Given(3, 15, "Locked", "beneficiary")>>}

\* A first target that asks for nothing; targets in the wrong order, which
\* initialize has to reject; and a second milestone unlocked before the first.
LifecyclePlans == {<<Milestone(0), Milestone(1), Milestone(2)>>, <<Milestone(2), Milestone(1)>>,
                   <<Milestone(1), Given(2, -1, "Unlocked", NONE)>>}

Usdc == [code |-> "USDC", issuer |-> usdc]
Xlm  == [code |-> "XLM", issuer |-> xlm]

TwoTokens == {<<Usdc, Xlm>>}
\* The same token listed twice, beside the list of two.
ListedTwice == TwoTokens \cup {<<Usdc, Xlm, Usdc>>}
\* The native asset without a token contract comes first: release_milestone
\* then has no primary token to pay from, and Native resolves to nothing.
NoPrimary == {<<[code |-> "XLM", issuer |-> NoIssuer], Usdc>>, <<Usdc, Usdc>>}

OneToken == {<<Usdc>>}

DonorSymmetry == Permutations(Donors)
=============================================================================
