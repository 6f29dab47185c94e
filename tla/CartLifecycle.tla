--------------------------- MODULE CartLifecycle ---------------------------
(***************************************************************************)
(* What the cart surfaces promise, with no request, token, clock or        *)
(* janitor in sight: a cart only ever moves along the whitelist of its     *)
(* kind, a sale is recorded exactly when it completes, and the seller who  *)
(* may charge it changes only when it is claimed or released.              *)
(*                                                                         *)
(* One statement may move several carts (the janitor's bulk updates do),   *)
(* so a step gives each cart at most one legal move.                       *)
(***************************************************************************)
EXTENDS Naturals, CartStates

CONSTANTS Seller, NoSeller

VARIABLES
    life,       \* [Cart -> Life]
    holder,     \* [Cart -> Seller \cup {NoSeller}]: who may charge the cart
    sold        \* [Cart -> Nat]: sales recorded for the cart

LCvars == <<life, holder, sold>>

LCInit ==
    /\ life = [c \in Cart |-> "absent"]
    /\ holder = [c \in Cart |-> NoSeller]
    /\ sold = [c \in Cart |-> 0]

Open(c) ==
    /\ life[c] = "absent" /\ life'[c] = "active"
    /\ holder'[c] \in (IF c \in PosCart THEN Seller ELSE {NoSeller})
    /\ sold'[c] = sold[c]

Claim(c) ==
    /\ life[c] = "ready" /\ life'[c] = "claimed"
    /\ holder[c] = NoSeller /\ holder'[c] \in Seller
    /\ sold'[c] = sold[c]

Release(c) ==
    /\ life[c] = "claimed" /\ life'[c] = "ready"
    /\ holder'[c] = NoSeller
    /\ sold'[c] = sold[c]

Charge(c) ==
    /\ CanTransitionTo(c, life[c], "completed") /\ life'[c] = "completed"
    /\ holder[c] \in Seller /\ holder'[c] = holder[c]
    /\ sold'[c] = sold[c] + 1

\* Hand-off, expiry, cancellation: nobody's right to charge changes.
Advance(c) ==
    /\ CanTransitionTo(c, life[c], life'[c])
    /\ life'[c] \notin {"claimed", "completed"}
    /\ ~ (life[c] = "claimed" /\ life'[c] = "ready")
    /\ holder'[c] = holder[c]
    /\ sold'[c] = sold[c]

\* The customer may delete the session, and the cart with it, in any state.
Delete(c) ==
    /\ c \in HandoffCart
    /\ life[c] \in CartState /\ life'[c] = "deleted"
    /\ holder'[c] = NoSeller
    /\ sold'[c] = sold[c]

Rest(c) ==
    /\ life'[c] = life[c]
    /\ holder'[c] = holder[c]
    /\ sold'[c] = sold[c]

LCNext ==
    \A c \in Cart :
        Rest(c) \/ Open(c) \/ Claim(c) \/ Release(c) \/ Charge(c)
            \/ Advance(c) \/ Delete(c)

LCSpec == LCInit /\ [][LCNext]_LCvars
=============================================================================
