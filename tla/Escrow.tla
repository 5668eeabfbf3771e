------------------------------- MODULE Escrow -------------------------------
(***************************************************************************)
(* What a campaign promises its donors and its beneficiary, without saying *)
(* how the books are kept.  At the launch its creator sets the terms:      *)
(* which milestones count as earned or paid from the start, how many times *)
(* over each token is settled, and whether the plan is a regular one.      *)
(* Donors pledge while the escrow is open.  Further milestones are earned  *)
(* in order, and each is paid at most once, only after it was earned.      *)
(* Once the escrow is closed each donor is settled at most once and, where *)
(* the plan is regular, gets no more of a token than it pledged in that    *)
(* token, for each time the token is settled.                              *)
(***************************************************************************)
EXTENDS Integers

CONSTANTS Donors, Tokens, Milestones, Cap

VARIABLES phase, pledge, returned, settled, earned, paid, times, regular

terms == <<times, regular>>
escrowVars == <<phase, pledge, returned, settled, earned, paid, terms>>

InOrder(S) == \A i \in S : \A j \in Milestones : j < i => j \in S

EscrowInit ==
    /\ phase = "unborn"
    /\ pledge = [d \in Donors |-> [t \in Tokens |-> 0]]
    /\ returned = [d \in Donors |-> [t \in Tokens |-> 0]]
    /\ settled = {} /\ earned = {} /\ paid = {}
    /\ times = [t \in Tokens |-> 0] /\ regular \in BOOLEAN

Launch ==
    /\ phase = "unborn" /\ phase' = "open"
    /\ earned' \in SUBSET Milestones /\ paid' \in SUBSET earned'
    /\ times' \in [Tokens -> Nat] /\ regular' \in BOOLEAN
    /\ UNCHANGED <<pledge, returned, settled>>

Pledge(d, t) ==
    /\ phase = "open"
    /\ \E n \in 1..Cap : pledge' = [pledge EXCEPT ![d][t] = @ + n]
    /\ \E more \in SUBSET Milestones : InOrder(more) /\ earned' = earned \cup more
    /\ UNCHANGED <<phase, returned, settled, paid, terms>>

Close ==
    /\ phase = "open" /\ phase' = "closed"
    /\ UNCHANGED <<pledge, returned, settled, earned, paid, terms>>

Settle(d) ==
    /\ phase = "closed"
    /\ d \notin settled
    /\ \E t \in Tokens : pledge[d][t] > 0
    /\ settled' = settled \cup {d}
    /\ returned' = [returned EXCEPT ![d] = returned'[d]]
    /\ returned'[d] \in [Tokens -> Nat]
    /\ regular => \A t \in Tokens : returned'[d][t] <= times[t] * pledge[d][t]
    /\ UNCHANGED <<phase, pledge, earned, paid, terms>>

Pay(i) ==
    /\ i \in earned \ paid
    /\ paid' = paid \cup {i}
    /\ UNCHANGED <<phase, pledge, returned, settled, earned, terms>>

EscrowNext ==
    \/ Launch
    \/ \E d \in Donors, t \in Tokens : Pledge(d, t)
    \/ Close
    \/ \E d \in Donors : Settle(d)
    \/ \E i \in Milestones : Pay(i)

EscrowSpec == EscrowInit /\ [][EscrowNext]_escrowVars
=============================================================================
