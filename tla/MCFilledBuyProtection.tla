-------------------------- MODULE MCFilledBuyProtection --------------------------
(* TLC instances of FilledBuyProtection: quantities in units of one step. *)
EXTENDS FilledBuyProtection, TLC

EqualSize == [l \in Lot |-> 2]
LargeSize == [l \in Lot |-> 3]
LotPriceSymmetry == Permutations(Lot) \cup Permutations(Price)
====================================================================================
