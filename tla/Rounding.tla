------------------------------ MODULE Rounding ------------------------------
(***************************************************************************)
(* decimal.Decimal.quantize and round(), as the services use them.         *)
(***************************************************************************)
EXTENDS Integers

\* n / d for d > 0; a half goes to the even neighbour.
HalfEven(n, d) ==
    LET q == n \div d
        r == n % d
    IN  IF 2 * r > d \/ (2 * r = d /\ q % 2 = 1) THEN q + 1 ELSE q
=============================================================================
