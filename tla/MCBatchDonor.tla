---------------------------- MODULE MCBatchDonor ----------------------------
(***************************************************************************)
(* A small instance of the batch donor: one campaign deployed with the     *)
(* earlier milestone layout and one that is initialized by today's code.   *)
(***************************************************************************)
EXTENDS BatchDonor

CONSTANTS old, new, alice, bob, usdc

MCTargets == <<1, 2>>

MCTo(c, d, amount, authorized) ==
    [campaign |-> c, donor |-> d, amount |-> amount, asset |-> usdc, authorized |-> authorized]

\* Both campaigns, in one batch; the same campaign twice, until it overflows;
\* a donor who did not sign, first and last; a bad amount; and batches that
\* are empty or too long.
MCBatches ==
    {<<MCTo(old, alice, 1, TRUE), MCTo(new, alice, 2, TRUE)>>,
     <<MCTo(old, alice, 1, TRUE), MCTo(old, bob, 1, TRUE)>>,
     <<MCTo(new, alice, 1, FALSE), MCTo(old, alice, 1, TRUE)>>,
     <<MCTo(new, alice, 1, TRUE), MCTo(old, alice, 0, TRUE)>>,
     <<>>,
     <<MCTo(new, bob, 1, TRUE), MCTo(new, bob, 1, TRUE), MCTo(new, bob, 1, TRUE)>>}
=============================================================================
