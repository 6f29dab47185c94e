----------------------------- MODULE CartStates -----------------------------
(***************************************************************************)
(* The cart state machine of pkg/models/sale_cart_models.go: the states,   *)
(* the per-kind whitelist of moves and the questions the code asks of      *)
(* them.  It has no variables: CartLifecycle states what the machine       *)
(* promises, SaleCart how the handlers drive it.                           *)
(***************************************************************************)

CONSTANTS
    HandoffCart,    \* ids of Scan & Go carts (kind = "handoff")
    PosCart         \* ids of till carts      (kind = "pos")

ASSUME KindsAreDisjoint == HandoffCart \cap PosCart = {}

Cart == HandoffCart \cup PosCart

\* CartKind: a column that no statement ever updates, so a function of the id.
Kind(c) == IF c \in HandoffCart THEN "handoff" ELSE "pos"

CartState == {"active", "ready", "claimed", "completed", "expired", "cancelled"}

\* A cart id before its row is inserted, and after it is hard-deleted.
Life == CartState \cup {"absent", "deleted"}

\* The whitelist of legal moves, per kind.
cartTransitions ==
    [handoff |-> { <<"active", "ready">>, <<"active", "expired">>,
                   <<"active", "cancelled">>,
                   <<"ready", "claimed">>, <<"ready", "active">>,
                   <<"ready", "expired">>, <<"ready", "cancelled">>,
                   <<"claimed", "completed">>, <<"claimed", "ready">>,
                   <<"claimed", "cancelled">> },
     pos     |-> { <<"active", "completed">>, <<"active", "expired">>,
                   <<"active", "cancelled">> }]

CanTransitionTo(c, s, next) == <<s, next>> \in cartTransitions[Kind(c)]

terminalStates == {"completed", "expired", "cancelled"}

\* May items still be added, edited or removed in state s?
AllowsEdit(c, s) ==
    \/ s = "active"
    \/ s = "ready" /\ c \in HandoffCart
=============================================================================
