------------------------------ MODULE CoinSums ------------------------------
(***************************************************************************)
(* Sums of amounts, as the modules of money and stock use them in their    *)
(* properties.  An amount of n is n coins: counting coins makes a sum a    *)
(* cardinality, whose laws the proofs can use.                             *)
(***************************************************************************)
EXTENDS Integers, FiniteSets

\* The coins of the amounts f, a function; a negative amount has none.
CoinsOf(f) == UNION { {x} \X (1..f[x]) : x \in DOMAIN f }

\* What they add up to.
CoinSum(f) == Cardinality(CoinsOf(f))

\* The sum of amounts of which some are negative: the coins there are, less those
\* that are missing.
NetSum(f) == CoinSum(f) - CoinSum([x \in DOMAIN f |-> -f[x]])
=============================================================================
