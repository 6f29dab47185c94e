---------------------------- MODULE MCPosSystem ----------------------------
(* PosSystem for TLC.                                                      *)
EXTENDS PosSystem, TLC

\* A charged cart that was edited or deleted, or that a second transaction names,
\* no longer says what was sold: the invariants claim nothing more of such states,
\* and they are not followed further.
Claimed == loose = {}

MaxTotal == 4

\* Cfg files have no negative numbers.
MCAmended == {-1, 2}

Opened == { c \in Cart : basket[c].life # "absent" }
Handled == { p \in Product : shelf[p] # EmptyShelf }

\* One cart with lines of several products and prices that change, or several carts
\* with the same product; and amounts are rewritten where there is one of each.
Once == \A i \in DeliveryId \ {1} : delivery[i] = NoDelivery
Rewriting == rewritten # {} \/ \E r \in Request : job[r].stage = "rewriting"
Scope ==
    /\ Claimed
    /\ Cardinality(Opened) > 1 => Cardinality(Handled) <= 1 /\ Once
    /\ Rewriting => /\ Cardinality(Opened) <= 1 /\ Cardinality(Handled) <= 1 /\ Once
                    /\ \A r \in Request : job[r].stage # "editing"
                    /\ shift.total \in -MaxTotal..MaxTotal

Symmetry == Permutations(Request) \cup Permutations(Product) \cup Permutations(Cart)
=============================================================================
