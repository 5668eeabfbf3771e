------------------------------- MODULE MCCore -------------------------------
(* Small instances of the legacy contract for TLC. *)
EXTENDS Core, TLC

CONSTANTS a1, a2, usdc, xlm

AnyAddress == Permutations(Addresses)
AnyAsset   == Permutations(Assets)
Symmetry   == AnyAddress \cup AnyAsset
=============================================================================
