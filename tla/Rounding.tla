------------------------------- MODULE Rounding ------------------------------
(***************************************************************************)
(* The two roundings of a nonnegative quotient that the code uses.         *)
(***************************************************************************)
EXTENDS Integers

\* MidpointAwayFromZero of n / d.
RoundHalfAway(n, d) == (2 * n + d) \div (2 * d)

\* Decimal::round_dp: midpoints go to the even neighbour.
RoundHalfEven(n, d) ==
    LET q == n \div d
        r == n % d
    IN  IF 2 * r > d \/ (2 * r = d /\ q % 2 = 1) THEN q + 1 ELSE q
==============================================================================
