-------------------------- MODULE MachineIntegers --------------------------
(***************************************************************************)
(* Signed machine integers of which `max` is the largest.  The workspace   *)
(* builds its contracts with release profiles that leave overflow checks   *)
(* off, so a plain +, - or * whose result does not fit keeps its value     *)
(* modulo the word; the checked_ operations of the code do not come here.  *)
(***************************************************************************)
EXTENDS Integers

IntegersUpTo(max) == (-max - 1)..max

Wrapped(x, max) == ((x + max + 1) % (2 * (max + 1))) - (max + 1)

\* Division truncates towards zero; here the divisor is positive.
Quotient(a, b) == IF a < 0 THEN -((-a) \div b) ELSE a \div b
=============================================================================
