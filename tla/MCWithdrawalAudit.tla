-------------------------- MODULE MCWithdrawalAudit --------------------------
(* Small instances of the withdrawal audit log. *)
EXTENDS WithdrawalAudit, TLC

CONSTANTS p1, p2

TwoProcesses == {p1, p2}
AnyProcess   == Permutations(TwoProcesses)
OneProcess   == {p1}
=============================================================================
