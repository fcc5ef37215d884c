----------------------------- MODULE MCGenerator -----------------------------
(***************************************************************************)
(* Instances of Generator for TLC.                                         *)
(***************************************************************************)
EXTENDS Generator

CONSTANTS g1, g2, g3

\* Random numbers of both signs, different for every seed and step.
NoiseTable(s, n) == ((7 * s + 11 * n) % 31) - 15

\* A live generator and simulated ones.
Mixed == [g \in Generators |-> IF g = g1 THEN "coinbase" ELSE "simulated"]
OwnSeeds == [g \in Generators |-> IF g = g1 THEN 1 ELSE IF g = g2 THEN 2 ELSE 3]
==============================================================================
