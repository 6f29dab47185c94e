------------------------------ MODULE SaleCart ------------------------------
(***************************************************************************)
(* pkg/repository/salecart: the unified Scan & Go / till cart.             *)
(*                                                                         *)
(* The database is PostgreSQL at READ COMMITTED.  Every SQL statement, and *)
(* every explicit transaction that locks or updates the cart header first  *)
(* (the header row lock orders those), is one step.  A handler that reads  *)
(* on one statement and writes on a later one is several steps: it keeps   *)
(* the rows it read in its request, and other requests run in between.     *)
(*                                                                         *)
(* Abstractions.  A token is a value of Code: the typed code and the QR    *)
(* reference go through the same code on different columns.  NULL times    *)
(* are 0 and the clock starts at 1.  A line is identified by its product   *)
(* (addItem merges lines of one product).  Prices are not modelled here.   *)
(* The shift journal a checkout names is any open one: JournalLedger owns  *)
(* that part.  A request that addresses a cart by id reads the header and  *)
(* then its session row; those two reads are one step.  A request that     *)
(* comes with a token reads the session row first, and the header in a     *)
(* later step.  The items are read by a statement of their own, after      *)
(* whatever lazilyExpire writes.                                           *)
(*                                                                         *)
(* A statement whose error the handler returns ends the request with       *)
(* nothing changed, as if it had not come.  The code drops the errors of   *)
(* five statements and goes on: the read of the session row, the read of   *)
(* the items, and the three writes of lazilyExpire.  Those may fail here.  *)
(***************************************************************************)
EXTENDS Integers, CartStates

CONSTANTS
    Seller, NoSeller,       \* staff users, and SQL NULL in seller_id
    Code, NoCode,           \* handoff tokens, and SQL NULL in handoff_code_hash
    Key, NoKey,             \* idempotency keys, and SQL NULL
    Product,
    Request,                \* requests the server handles at the same time
    handoffTTL,             \* lifetime of a handoff token
    maxHandoffAttempts, handoffLockout,
    posCartTTL,             \* idle time after which a till cart is abandoned
    DayLength,              \* clock ticks in a calendar day
    SweepScheduled,         \* does anything call SweepExpired?
    MaxQuantity, MaxTime    \* bounds: quantity of a line, the clock

ASSUME SaleCartAssumption ==
    /\ NoSeller \notin Seller /\ NoCode \notin Code /\ NoKey \notin Key
    /\ handoffTTL \in Nat /\ handoffLockout \in Nat /\ posCartTTL \in Nat
    /\ maxHandoffAttempts \in Nat
    /\ DayLength \in Nat \ {0}
    /\ Product # {}
    /\ SweepScheduled \in BOOLEAN
    /\ MaxQuantity \in Nat /\ MaxTime \in Nat

VARIABLES
    cart,       \* sale_carts and sale_cart_items, by cart id
    session,    \* handoff_cart_sessions, by cart id
    sold,       \* sale transactions recorded by Checkout, by cart id
    shipped,    \* stock those checkouts moved, by cart id and product
    now,        \* the clock
    req,        \* requests in flight
    sweep,      \* the janitor: which statement is next, and its time.Now()
    told        \* what callers were told, by cart id (history variable)

vars == <<cart, session, sold, shipped, now, req, sweep, told>>

-----------------------------------------------------------------------------
(* Rows.                                                                   *)

Items == [Product -> Nat]
NoItems == [p \in Product |-> 0]

\* touched is updated_at; only the idle rule of till carts reads it, so it is
\* kept where a till cart is opened or edited.
CartRow == [state: Life, seller: Seller \cup {NoSeller}, items: Items,
            key: Key \cup {NoKey}, touched: Nat]
NoCartRow == [state |-> "absent", seller |-> NoSeller, items |-> NoItems,
              key |-> NoKey, touched |-> 0]

SessionRow == [code: Code \cup {NoCode}, expires: Nat, attempts: Nat,
               lockedUntil: Nat, claimed: BOOLEAN, dayEnd: Int]
NoSession == [code |-> NoCode, expires |-> 0, attempts |-> 0,
              lockedUntil |-> 0, claimed |-> FALSE, dayEnd |-> 0]

Exists(c) == cart[c].state \in CartState

endOfDay(t) == (t - (t % DayLength)) + DayLength - 1

(* Requests.  "add" and "set" edit the items ("set" to 0 is a removal);    *)
(* "mint" is RequestHandoff; "cancel" is CancelBySession and CancelByID;   *)
(* "release" and "drop" are ReleaseClaim and CancelClaim; "claim" is what  *)
(* ClaimByToken does after its atomic claim changed no row.                *)

Op == {"view", "add", "set", "mint", "cancel", "release", "drop", "claim"}

Call == [op: Op, cart: Cart, seller: Seller \cup {NoSeller},
         product: Product, quantity: Nat,
         code: Code \cup {NoCode}, at: Nat]

\* A call; the fields an operation does not use are fixed.
Calling(op, c) ==
    [op |-> op, cart |-> c, seller |-> NoSeller,
     product |-> CHOOSE p \in Product : TRUE, quantity |-> 0,
     code |-> NoCode, at |-> 0]

Stage == {"load",       \* loadCart, reading the session row
          "reload",     \* loadCart with the session row already held
          "lookup",     \* ClaimByToken's explaining read
          "expire", "revert", "wipe",   \* lazilyExpire's writes
          "attach",     \* attachItems
          "serve"}      \* the handler's own work on what it loaded

\* What a request keeps of the header, the items and the session row it read:
\* the columns its handler, or a later load in the same request, still uses.
\* held says that an edit has a session row at hand, which its reload reuses.
Seen == [state: Life, seller: Seller \cup {NoSeller}, items: Items,
         held: BOOLEAN, expires: Nat, attempts: Nat, lockedUntil: Nat]
NothingSeen == [state |-> "absent", seller |-> NoSeller, items |-> NoItems,
                held |-> FALSE, expires |-> 0, attempts |-> 0,
                lockedUntil |-> 0]

Pending == [stage: Stage, call: Call, seen: Seen]
Idle == [stage |-> "idle"]
InStage(stage, call, seen) == [stage |-> stage, call |-> call, seen |-> seen]

\* The answers whose truth later depends on the database.
Answer == {"cancelled", "charged"}

TypeOK ==
    /\ cart \in [Cart -> CartRow]
    /\ session \in [Cart -> SessionRow]
    /\ sold \in [Cart -> Nat]
    /\ shipped \in [Cart -> Items]
    /\ now \in Nat \ {0}
    /\ req \in [Request -> Pending \cup {Idle}]
    /\ sweep \in [step: 0..4, at: Nat]
    /\ told \in [Cart -> SUBSET Answer]

Init ==
    /\ cart = [c \in Cart |-> NoCartRow]
    /\ session = [c \in Cart |-> NoSession]
    /\ sold = [c \in Cart |-> 0]
    /\ shipped = [c \in Cart |-> NoItems]
    /\ now = 1
    /\ req = [r \in Request |-> Idle]
    /\ sweep = [step |-> 0, at |-> 0]
    /\ told = [c \in Cart |-> {}]

-----------------------------------------------------------------------------
(* Opening a cart: one insert (header and session row in one transaction). *)

StartSession(c) ==
    /\ c \in HandoffCart
    /\ cart[c].state = "absent"
    /\ cart' = [cart EXCEPT ![c].state = "active"]
    /\ session' = [session EXCEPT ![c].dayEnd = endOfDay(now)]
    /\ UNCHANGED <<sold, shipped, now, req, sweep, told>>

OpenPOSCart(c, s) ==
    /\ c \in PosCart
    /\ cart[c].state = "absent"
    /\ cart' = [cart EXCEPT ![c] = [@ EXCEPT !.state = "active", !.seller = s,
                                             !.touched = now]]
    /\ UNCHANGED <<session, sold, shipped, now, req, sweep, told>>

\* DeleteBySessionToken: the cart, its items and its session row go, whatever
\* the state; a recorded sale stays.
DeleteBySessionToken(r, c) ==
    /\ c \in HandoffCart /\ Exists(c)
    /\ req[r] = Idle
    /\ cart' = [cart EXCEPT ![c] = [NoCartRow EXCEPT !.state = "deleted"]]
    /\ session' = [session EXCEPT ![c] = NoSession]
    /\ UNCHANGED <<sold, shipped, now, req, sweep, told>>

-----------------------------------------------------------------------------
(* loadCart and lazilyExpire.                                              *)

\* Past its session day (handoff) or idle too long (till), and still in a
\* state that may expire; a claimed cart may not.
Stale(c) ==
    /\ \/ c \in PosCart /\ now - cart[c].touched > posCartTTL
       \/ c \in HandoffCart /\ now > session[c].dayEnd
    /\ CanTransitionTo(c, cart[c].state, "expired")

\* expires is the column of the session row that the load is given.
TokenLapsed(c, expires) ==
    cart[c].state = "ready" /\ expires # 0 /\ now > expires

Edits(call) == call.op \in {"add", "set"}

\* row is the session row as the load holds it, if it could be read.
See(call, row, known) ==
    [state |-> cart[call.cart].state,
     seller |-> IF call.op \in {"release", "drop"} THEN cart[call.cart].seller
                ELSE NoSeller,
     items |-> NoItems,
     held |-> known /\ Edits(call),
     expires |-> IF known /\ Edits(call) THEN row.expires ELSE 0,
     attempts |-> IF call.op = "claim" THEN row.attempts ELSE 0,
     lockedUntil |-> IF call.op = "claim" THEN row.lockedUntil ELSE 0]

\* Past lazilyExpire: the operations that work on the items read them next,
\* and a read-only request is done.
Settled(call, seen) ==
    IF call.op = "view" THEN Idle
    ELSE InStage(IF Edits(call) \/ call.op = "mint" THEN "attach" ELSE "serve",
                 call, seen)

\* The request once it has read its header and held its session row.  A
\* hand-off cart whose session row could not be read is not judged.
Loaded(call, row, known) ==
    LET seen == See(call, row, known)
    IN  IF known /\ Stale(call.cart) THEN InStage("expire", call, seen)
        ELSE IF known /\ TokenLapsed(call.cart, row.expires)
             THEN InStage("revert", call, seen)
             ELSE Settled(call, seen)

\* loadCart reads the session row itself, and goes on without it when it
\* cannot; a till cart has none, and is judged by its header alone.
Known(c) == IF c \in HandoffCart THEN BOOLEAN ELSE {TRUE}

\* A request that holds the session row of its cart, and reads the header next.
Holding(call, row) ==
    InStage("reload", call,
            [NothingSeen EXCEPT
                !.held = Edits(call),
                !.expires = row.expires,
                !.attempts = IF call.op = "claim" THEN row.attempts ELSE 0,
                !.lockedUntil = IF call.op = "claim" THEN row.lockedUntil ELSE 0])

\* Mutant: transition() updates by id alone.
TransitionUnguarded(c, from, next) == [cart EXCEPT ![c].state = next]

\* The conditional update of transition(): it compares the state with the one
\* the request read, and reports success even when no row matched.
Transition(c, from, next) ==
    IF cart[c].state = from THEN [cart EXCEPT ![c].state = next] ELSE cart

\* GetBySessionToken: the session row that the token names, then loadCart.
BeginBySession(r, call) ==
    /\ req[r] = Idle
    /\ call.cart \in HandoffCart /\ Exists(call.cart)
    /\ req' = [req EXCEPT ![r] = Holding(call, session[call.cart])]
    /\ UNCHANGED <<cart, session, sold, shipped, now, sweep, told>>

\* GetByID: loadCart alone.
BeginById(r, call) ==
    /\ req[r] = Idle
    /\ Exists(call.cart)
    /\ \E known \in Known(call.cart) :
          req' = [req EXCEPT ![r] = Loaded(call, session[call.cart], known)]
    /\ UNCHANGED <<cart, session, sold, shipped, now, sweep, told>>

Reply(r) == req' = [req EXCEPT ![r] = Idle]

\* The loads inside a request: after a claim, and after an edit that had no
\* session row, from scratch; with the row already held by a request that came
\* with a token, by a claim that is being explained, and by saveItems, whose
\* caller read it before the edit.
LoadAgain(r) ==
    LET call == req[r].call IN
    /\ req[r].stage \in {"load", "reload"}
    /\ \/ ~ Exists(call.cart) /\ Reply(r)
       \/ /\ Exists(call.cart) /\ req[r].stage = "load"
          /\ \E known \in Known(call.cart) :
                req' = [req EXCEPT ![r] = Loaded(call, session[call.cart], known)]
       \/ /\ Exists(call.cart) /\ req[r].stage = "reload"
          /\ req' = [req EXCEPT ![r] = Loaded(call, req[r].seen, TRUE)]
    /\ UNCHANGED <<cart, session, sold, shipped, now, sweep, told>>

\* What follows lazilyExpire's last write, or a write of its that failed.
Judged(r, seen) == req' = [req EXCEPT ![r] = Settled(@.call, seen)]

GoOn(r, stage, seen) == req' = [req EXCEPT ![r] = InStage(stage, @.call, seen)]

ExpireOnRead(r) ==
    LET seen == req[r].seen IN
    /\ req[r].stage = "expire"
    /\ \/ /\ cart' = Transition(req[r].call.cart, seen.state, "expired")
          /\ Judged(r, [seen EXCEPT !.state = "expired"])
       \/ cart' = cart /\ Judged(r, seen)
    /\ UNCHANGED <<session, sold, shipped, now, sweep, told>>

\* Mutant: the revert forgets to move the header.
RevertOnReadKeepsState(r) ==
    /\ req[r].stage = "revert"
    /\ GoOn(r, "wipe", [req[r].seen EXCEPT !.state = "active"])
    /\ UNCHANGED <<cart, session, sold, shipped, now, sweep, told>>

RevertOnRead(r) ==
    /\ req[r].stage = "revert"
    /\ \/ /\ cart' = Transition(req[r].call.cart, "ready", "active")
          /\ GoOn(r, "wipe", [req[r].seen EXCEPT !.state = "active"])
       \/ cart' = cart /\ Judged(r, req[r].seen)
    /\ UNCHANGED <<session, sold, shipped, now, sweep, told>>

\* The second statement of the revert: by cart id, whatever the token is now.
\* Whether or not it succeeds, the request forgets the expiry it held.
WipeToken(r) ==
    LET c == req[r].call.cart IN
    /\ req[r].stage = "wipe"
    /\ \/ session' = [session EXCEPT ![c].code = NoCode, ![c].expires = 0]
       \/ session' = session
    /\ Judged(r, [req[r].seen EXCEPT !.expires = 0])
    /\ UNCHANGED <<cart, sold, shipped, now, sweep, told>>

\* A deleted cart has no items; a read that fails shows none either.
AttachItems(r) ==
    /\ req[r].stage = "attach"
    /\ \E items \in {cart[req[r].call.cart].items, NoItems} :
          GoOn(r, "serve", [req[r].seen EXCEPT !.items = items])
    /\ UNCHANGED <<cart, session, sold, shipped, now, sweep, told>>

-----------------------------------------------------------------------------
(* The handlers proper, on what they loaded.                               *)

Serving(r, op) == req[r].stage = "serve" /\ req[r].call.op = op

\* Mutant: an update to zero keeps one unit too few.
EditedOffByOne(call, items) ==
    [items EXCEPT ![call.product] =
        IF call.op = "add" THEN @ + call.quantity ELSE call.quantity - 1]

\* addItem, updateItem and removeItem: the new list of lines.
Edited(call, items) ==
    [items EXCEPT ![call.product] =
        IF call.op = "add" THEN @ + call.quantity ELSE call.quantity]

\* Mutants: edits that do not ask for the state, or only for a terminal one.
EditAdmittedAnyState(call, seen) ==
    \/ call.op = "add" /\ call.quantity > 0
    \/ call.op = "set" /\ seen.items[call.product] > 0
EditAdmittedUntilFinal(call, seen) ==
    /\ seen.state \notin terminalStates
    /\ EditAdmittedAnyState(call, seen)

EditAdmitted(call, seen) ==
    /\ AllowsEdit(call.cart, seen.state)
    /\ \/ call.op = "add" /\ call.quantity > 0
       \/ call.op = "set" /\ seen.items[call.product] > 0

\* saveItems replaces every line by the list the request computed, under the
\* header row lock but with no condition on the state.  On a deleted cart the
\* inserts fail on the foreign key, and the reload finds nothing.
SaveItems(r) ==
    LET call == req[r].call
        c == call.cart
    IN
    /\ Serving(r, "add") \/ Serving(r, "set")
    /\ EditAdmitted(call, req[r].seen)
    /\ Edited(call, req[r].seen.items)[call.product] <= MaxQuantity
    /\ cart' = IF Exists(c)
               THEN [cart EXCEPT
                        ![c].items = Edited(call, req[r].seen.items),
                        ![c].touched = IF c \in PosCart THEN now ELSE @]
               ELSE cart
    /\ req' = [req EXCEPT ![r] =
                  IF req[r].seen.held THEN Holding(Calling("view", c), req[r].seen)
                  ELSE InStage("load", Calling("view", c), NothingSeen)]
    /\ UNCHANGED <<session, sold, shipped, now, sweep, told>>

\* Conflict, not found, invalid input, or (the bound) too large a quantity.
RefuseEdit(r) ==
    LET call == req[r].call IN
    /\ Serving(r, "add") \/ Serving(r, "set")
    /\ \/ ~ EditAdmitted(call, req[r].seen)
       \/ Edited(call, req[r].seen.items)[call.product] > MaxQuantity
    /\ Reply(r)
    /\ UNCHANGED <<cart, session, sold, shipped, now, sweep, told>>

\* handoff_sessions_code_idx: a code is unique among unclaimed sessions.
CodeIsFree(c, code) ==
    \/ session[c].claimed
    \/ \A d \in HandoffCart \ {c} : session[d].code = code => session[d].claimed

MintAdmitted(r) ==
    /\ req[r].seen.state \in {"active", "ready"}
    /\ req[r].seen.items # NoItems
    /\ cart[req[r].call.cart].state \in {"active", "ready"}

\* RequestHandoff: header and session row in one transaction.  claimed_at keeps
\* its value.
RequestHandoff(r, code) ==
    LET c == req[r].call.cart IN
    /\ Serving(r, "mint")
    /\ MintAdmitted(r)
    /\ CodeIsFree(c, code)
    /\ cart' = [cart EXCEPT ![c].state = "ready"]
    /\ session' = [session EXCEPT ![c] =
                      [@ EXCEPT !.code = code, !.expires = now + handoffTTL,
                                !.attempts = 0, !.lockedUntil = 0]]
    /\ Reply(r)
    /\ UNCHANGED <<sold, shipped, now, sweep, told>>

\* ErrConflict or ErrInvalidInput, or the transaction rolled back on the index.
RefuseHandoff(r) ==
    /\ Serving(r, "mint")
    /\ \/ ~ MintAdmitted(r)
       \/ \E code \in Code : ~ CodeIsFree(req[r].call.cart, code)
    /\ Reply(r)
    /\ UNCHANGED <<cart, session, sold, shipped, now, sweep, told>>

\* Where cancel, release and drop take the cart.
Target(op) == IF op = "release" THEN "ready" ELSE "cancelled"

\* Mutant: any seller may release or drop a claim.
MoveAdmittedAnySeller(call, seen) ==
    CanTransitionTo(call.cart, seen.state, Target(call.op))

\* sellerTerminate compares the seller it read; transition consults the
\* whitelist for the state it read.
MoveAdmitted(call, seen) ==
    /\ call.op # "cancel" => seen.seller # NoSeller /\ seen.seller = call.seller
    /\ CanTransitionTo(call.cart, seen.state, Target(call.op))

\* Mutants: the update without its "AND state = ?", and a release that leaves
\* the seller on the cart.
MoveByIdAlone(r) ==
    LET call == req[r].call
        c == call.cart
    IN
    /\ Serving(r, "cancel") \/ Serving(r, "release") \/ Serving(r, "drop")
    /\ MoveAdmitted(call, req[r].seen)
    /\ cart' = [cart EXCEPT
                   ![c].state = Target(call.op),
                   ![c].seller = IF call.op = "release" THEN NoSeller ELSE @]
    /\ told' = [told EXCEPT ![c] = IF call.op = "release" THEN @
                                   ELSE @ \cup {"cancelled"}]
    /\ Reply(r)
    /\ UNCHANGED <<session, sold, shipped, now, sweep>>
MoveKeepsSeller(r) ==
    LET call == req[r].call IN
    /\ Serving(r, "cancel") \/ Serving(r, "release") \/ Serving(r, "drop")
    /\ MoveAdmitted(call, req[r].seen)
    /\ cart' = Transition(call.cart, req[r].seen.state, Target(call.op))
    /\ Reply(r)
    /\ UNCHANGED <<session, sold, shipped, now, sweep, told>>

Move(r) ==
    LET call == req[r].call
        seen == req[r].seen
        c == call.cart
    IN
    /\ Serving(r, "cancel") \/ Serving(r, "release") \/ Serving(r, "drop")
    /\ MoveAdmitted(call, seen)
    /\ cart' = IF cart[c].state # seen.state THEN cart
               ELSE [cart EXCEPT
                        ![c].state = Target(call.op),
                        ![c].seller = IF call.op = "release" THEN NoSeller
                                      ELSE @]
    /\ told' = [told EXCEPT ![c] = IF call.op = "release" THEN @
                                   ELSE @ \cup {"cancelled"}]
    /\ Reply(r)
    /\ UNCHANGED <<session, sold, shipped, now, sweep>>

RefuseMove(r) ==
    /\ Serving(r, "cancel") \/ Serving(r, "release") \/ Serving(r, "drop")
    /\ ~ MoveAdmitted(req[r].call, req[r].seen)
    /\ Reply(r)
    /\ UNCHANGED <<cart, session, sold, shipped, now, sweep, told>>

-----------------------------------------------------------------------------
(* ClaimByToken.                                                           *)

Claimable(code) ==
    { c \in HandoffCart :
        /\ cart[c].state = "ready"
        /\ session[c].code = code
        /\ session[c].expires # 0 /\ session[c].expires > now
        /\ session[c].lockedUntil = 0 \/ session[c].lockedUntil < now }

\* The bulk update takes every cart the token matches; the row that is found
\* again, stamped and returned is one of them.
ClaimByToken(r, s, code) ==
    /\ req[r] = Idle
    /\ \E c \in Claimable(code) :
          /\ cart' = [d \in Cart |->
                        IF d \in Claimable(code)
                        THEN [cart[d] EXCEPT !.state = "claimed", !.seller = s]
                        ELSE cart[d]]
          /\ session' = [session EXCEPT ![c] =
                            [@ EXCEPT !.claimed = TRUE, !.attempts = 0,
                                      !.lockedUntil = 0]]
          /\ req' = [req EXCEPT ![r] =
                        InStage("load", Calling("view", c), NothingSeen)]
    /\ UNCHANGED <<sold, shipped, now, sweep, told>>

\* No row changed: the explaining read is a later statement (until then the
\* request has no cart; c only fills the field).
ClaimMissed(r, code) ==
    /\ req[r] = Idle
    /\ Claimable(code) = {}
    /\ \E c \in HandoffCart :
          req' = [req EXCEPT ![r] =
                    InStage("lookup",
                            [Calling("claim", c) EXCEPT !.code = code, !.at = now],
                            NothingSeen)]
    /\ UNCHANGED <<cart, session, sold, shipped, now, sweep, told>>

Matching(code) == { c \in HandoffCart : Exists(c) /\ session[c].code = code }

\* The session row with that token, if there is one, and its cart.
ExplainClaim(r) ==
    LET call == req[r].call IN
    /\ req[r].stage = "lookup"
    /\ \/ \E c \in Matching(call.code) :
             req' = [req EXCEPT ![r] = Holding([call EXCEPT !.cart = c],
                                               session[c])]
       \/ Matching(call.code) = {} /\ Reply(r)
    /\ UNCHANGED <<cart, session, sold, shipped, now, sweep, told>>

\* Ready, not locked, yet the claim did not apply: the attempt is counted.
AttemptCounts(r) ==
    /\ req[r].seen.state = "ready"
    /\ \/ req[r].seen.lockedUntil = 0
       \/ req[r].call.at >= req[r].seen.lockedUntil

\* registerFailedClaim, from the counter the request read.
RegisterFailedClaim(r) ==
    LET c == req[r].call.cart
        attempts == req[r].seen.attempts + 1
    IN
    /\ Serving(r, "claim")
    /\ AttemptCounts(r)
    /\ session' = IF ~ Exists(c) THEN session
                  ELSE [session EXCEPT
                          ![c].attempts = attempts,
                          ![c].lockedUntil =
                              IF attempts >= maxHandoffAttempts
                              THEN req[r].call.at + handoffLockout ELSE @]
    /\ Reply(r)
    /\ UNCHANGED <<cart, sold, shipped, now, sweep, told>>

\* Already this seller's, locked out, or no longer ready.
AnswerClaim(r) ==
    /\ Serving(r, "claim")
    /\ ~ AttemptCounts(r)
    /\ Reply(r)
    /\ UNCHANGED <<cart, session, sold, shipped, now, sweep, told>>

-----------------------------------------------------------------------------
(* Checkout: one transaction that locks the header row before it reads it. *)

\* Mutant: the seller is checked, the state is not.
CheckoutAuthorizedAnyState(c, s) ==
    cart[c].seller # NoSeller /\ cart[c].seller = s

CheckoutAuthorized(c, s) ==
    /\ cart[c].state = IF c \in HandoffCart THEN "claimed" ELSE "active"
    /\ cart[c].seller # NoSeller /\ cart[c].seller = s

\* Mutant: a retry of a completed checkout falls through to the writes.
CheckoutReplayed(r, c, s, key) ==
    /\ req[r] = Idle
    /\ CheckoutAuthorized(c, s) \/ cart[c].key = key
    /\ cart[c].items # NoItems
    /\ sold' = [sold EXCEPT ![c] = @ + 1]
    /\ shipped' = [shipped EXCEPT ![c] =
                      [p \in Product |-> @[p] + cart[c].items[p]]]
    /\ cart' = [cart EXCEPT ![c].state = "completed", ![c].key = key]
    /\ told' = [told EXCEPT ![c] = @ \cup {"charged"}]
    /\ UNCHANGED <<session, now, req, sweep>>

\* A replay (completed, same key) and every refusal change nothing.
Checkout(r, c, s, key) ==
    /\ req[r] = Idle
    /\ cart[c].state # "completed"
    /\ CheckoutAuthorized(c, s)
    /\ cart[c].items # NoItems
    /\ sold' = [sold EXCEPT ![c] = @ + 1]
    /\ shipped' = [shipped EXCEPT ![c] =
                      [p \in Product |-> @[p] + cart[c].items[p]]]
    /\ cart' = [cart EXCEPT ![c].state = "completed", ![c].key = key]
    /\ told' = [told EXCEPT ![c] = @ \cup {"charged"}]
    /\ UNCHANGED <<session, now, req, sweep>>

-----------------------------------------------------------------------------
(* SweepExpired: four statements, each committed on its own, all with the  *)
(* time the sweep started.                                                 *)

SweepStart ==
    /\ SweepScheduled
    /\ sweep.step = 0
    /\ sweep' = [step |-> 1, at |-> now]
    /\ UNCHANGED <<cart, session, sold, shipped, now, req, told>>

LapsedAt(c, t) == session[c].expires # 0 /\ session[c].expires < t

SweepRevert ==
    /\ sweep.step = 1
    /\ cart' = [c \in Cart |->
                  IF /\ c \in HandoffCart /\ cart[c].state = "ready"
                     /\ LapsedAt(c, sweep.at)
                  THEN [cart[c] EXCEPT !.state = "active"] ELSE cart[c]]
    /\ sweep' = [sweep EXCEPT !.step = 2]
    /\ UNCHANGED <<session, sold, shipped, now, req, told>>

SweepTokens ==
    /\ sweep.step = 2
    /\ session' = [c \in Cart |->
                     IF LapsedAt(c, sweep.at)
                     THEN [session[c] EXCEPT !.code = NoCode, !.expires = 0,
                                             !.lockedUntil = 0]
                     ELSE session[c]]
    /\ sweep' = [sweep EXCEPT !.step = 3]
    /\ UNCHANGED <<cart, sold, shipped, now, req, told>>

SweepSessions ==
    /\ sweep.step = 3
    /\ cart' = [c \in Cart |->
                  IF /\ c \in HandoffCart /\ cart[c].state \in {"active", "ready"}
                     /\ session[c].dayEnd < sweep.at
                  THEN [cart[c] EXCEPT !.state = "expired"] ELSE cart[c]]
    /\ sweep' = [sweep EXCEPT !.step = 4]
    /\ UNCHANGED <<session, sold, shipped, now, req, told>>

SweepTills ==
    /\ sweep.step = 4
    /\ cart' = [c \in Cart |->
                  IF /\ c \in PosCart /\ cart[c].state = "active"
                     /\ cart[c].touched < sweep.at - posCartTTL
                  THEN [cart[c] EXCEPT !.state = "expired"] ELSE cart[c]]
    /\ sweep' = [step |-> 0, at |-> 0]
    /\ UNCHANGED <<session, sold, shipped, now, req, told>>

Sweep == SweepRevert \/ SweepTokens \/ SweepSessions \/ SweepTills

Tick ==
    /\ now < MaxTime
    /\ now' = now + 1
    /\ UNCHANGED <<cart, session, sold, shipped, req, sweep, told>>

-----------------------------------------------------------------------------

(* The calls of the three surfaces that load a cart before they act.       *)

Editing(op, c, p, q) ==
    [Calling(op, c) EXCEPT !.product = p, !.quantity = q]

Edit(c) ==
    { Editing(op, c, p, q) :
        op \in {"add", "set"}, p \in Product, q \in 0..MaxQuantity }

\* The customer, by session token: GetCart, AddItem, UpdateItem, RemoveItem,
\* RequestHandoff, CancelSession.
CustomerCall ==
    UNION { {Calling(op, c) : op \in {"view", "mint", "cancel"}} \cup Edit(c) :
              c \in HandoffCart }

\* A seller, by cart id: SellerGetCart, Release, Cancel.
SellerCall ==
    { Calling("view", c) : c \in Cart }
    \cup { [Calling(op, c) EXCEPT !.seller = s] :
              op \in {"release", "drop"}, c \in Cart, s \in Seller }

\* A till, by cart id and whatever the cart's kind: POSAddItem, POSUpdateItem,
\* POSRemoveItem, POSCancelCart.
TillCall == UNION { {Calling("cancel", c)} \cup Edit(c) : c \in Cart }

\* What a request in flight does next.
Step(r) ==
    \/ LoadAgain(r)
    \/ ExpireOnRead(r)
    \/ RevertOnRead(r)
    \/ WipeToken(r)
    \/ AttachItems(r)
    \/ SaveItems(r)
    \/ RefuseEdit(r)
    \/ \E code \in Code : RequestHandoff(r, code)
    \/ RefuseHandoff(r)
    \/ Move(r)
    \/ RefuseMove(r)
    \/ ExplainClaim(r)
    \/ RegisterFailedClaim(r)
    \/ AnswerClaim(r)

\* A client's new request.
Arrive(r) ==
    \/ \E call \in CustomerCall : BeginBySession(r, call)
    \/ \E call \in SellerCall \cup TillCall : BeginById(r, call)
    \/ \E c \in Cart : DeleteBySessionToken(r, c)
    \/ \E s \in Seller, code \in Code : ClaimByToken(r, s, code)
    \/ \E code \in Code : ClaimMissed(r, code)
    \/ \E c \in Cart, s \in Seller, key \in Key : Checkout(r, c, s, key)

Next ==
    \/ \E c \in Cart : StartSession(c)
    \/ \E c \in Cart, s \in Seller : OpenPOSCart(c, s)
    \/ \E r \in Request : Arrive(r) \/ Step(r)
    \/ SweepStart
    \/ Sweep
    \/ Tick

Spec == Init /\ [][Next]_vars

\* A handler that has started runs to its end, an expiry on read does not fail
\* for ever, the clock advances, and the janitor (if anything schedules it)
\* keeps sweeping.  Clients promise nothing.
Fairness ==
    /\ \A r \in Request : WF_vars(Step(r))
    /\ \A r \in Request : SF_vars(ExpireOnRead(r) /\ cart' # cart)
    /\ WF_vars(SweepStart) /\ WF_vars(Sweep)
    /\ WF_vars(Tick)

FairSpec == Spec /\ Fairness

-----------------------------------------------------------------------------
(* Properties: what holds whatever the interleaving.                       *)

\* A sale is recorded at most once per cart, exactly when the cart completes,
\* and the completed cart keeps the key that a replay is recognised by: no
\* retry, stale request, cancellation, expiry or sweep charges a cart twice,
\* charges one that is cancelled, or completes one without a sale.  A deleted
\* cart takes at most one sale with it.
ChargedOnce ==
    \A c \in Cart :
        /\ cart[c].state = "completed" <=> sold[c] = 1 /\ Exists(c)
        /\ cart[c].state = "completed" => cart[c].key # NoKey
        /\ sold[c] <= 1

\* seller_id says who may charge: it is set exactly while a handoff cart is
\* held (claimed, or ended after a claim) and always on a till cart, so a
\* release that loses its race never strips a claim of its seller, and a cart
\* back in the queue belongs to nobody.
SellerMatchesState ==
    \A c \in Cart :
        /\ cart[c].state \in {"claimed", "completed"} => cart[c].seller # NoSeller
        /\ c \in HandoffCart /\ cart[c].state \in {"active", "ready", "expired"}
              => cart[c].seller = NoSeller
        /\ c \in PosCart /\ Exists(c) => cart[c].seller # NoSeller

\* A caller told that a cart was charged can rely on it: nothing but deleting
\* the session takes the cart out of "completed".
ChargeIsFinal ==
    \A c \in Cart :
        "charged" \in told[c] => cart[c].state \in {"completed", "deleted"}

\* The handlers, run concurrently on stale reads, implement the lifecycle:
\* every cart moves along its whitelist only, a claim never passes straight
\* from one seller to another, nobody but its holder is charged for it, and
\* no sale is recorded outside a charge.
Lifecycle == INSTANCE CartLifecycle WITH
    life <- [c \in Cart |-> cart[c].state],
    holder <- [c \in Cart |-> cart[c].seller],
    sold <- sold

ImplementsLifecycle == Lifecycle!LCSpec

(* What the proofs add to make these inductive: a row that is not there    *)
(* has no history, a till cart never enters the hand-off, and a request    *)
(* holds on to what its own earlier reads established.                     *)

RowsAreConsistent ==
    \A c \in Cart :
        /\ cart[c].state = "absent" => sold[c] = 0 /\ cart[c].seller = NoSeller
        /\ c \in PosCart => cart[c].state \notin {"ready", "claimed", "deleted"}

RequestIsSound(q) ==
    /\ q.stage = "expire" =>
           CanTransitionTo(q.call.cart, q.seen.state, "expired")
    /\ q.stage \in Stage /\ q.call.op = "mint" => q.call.cart \in HandoffCart

RequestsAreSound == \A r \in Request : RequestIsSound(req[r])

SafetyInv ==
    /\ TypeOK
    /\ RowsAreConsistent
    /\ RequestsAreSound
    /\ ChargedOnce
    /\ SellerMatchesState
    /\ ChargeIsFinal

(* Properties that the documentation states and one request at a time      *)
(* satisfies; concurrent requests break them.                              *)

\* "A handoff cart freezes the moment a seller claims it."
FrozenOnceClaimed ==
    [][\A c \in HandoffCart :
          cart[c].state = "claimed" /\ cart'[c].state = "claimed"
              => cart'[c].items = cart[c].items]_vars

\* The items of a completed cart are what was sold: what its stock decrement
\* moved, and what a void of the sale will put back.
ItemsAreWhatWasSold ==
    \A c \in Cart : cart[c].state = "completed" => shipped[c] = cart[c].items

\* A cart that waits for a seller has a token to be claimed by, and the token
\* an expiry: without one it could never be claimed, nor ever lapse.
ReadyHasToken ==
    \A c \in HandoffCart :
        cart[c].state = "ready" => /\ session[c].code # NoCode
                                   /\ session[c].expires # 0

\* A caller told that a cart was cancelled finds it cancelled.
CancelIsFinal ==
    \A c \in Cart :
        "cancelled" \in told[c] => cart[c].state \in {"cancelled", "deleted"}

\* "Both require the caller to be the claiming seller": a claim goes back to
\* the queue only at the request of the seller who holds it.
ReleasedByHolder ==
    [][\A c \in HandoffCart :
          cart[c].state = "claimed" /\ cart'[c].state = "ready"
              => \E r \in Request : /\ Serving(r, "release")
                                    /\ req[r].call.cart = c
                                    /\ req[r].call.seller = cart[c].seller]_vars

(* Liveness.                                                               *)

\* "reaps stale carts of both kinds": a cart past its session day, or a till
\* cart idle too long, does not stay open for ever, whether or not anybody
\* reads it again.
StaleCartsAreReaped == \A c \in Cart : Stale(c) ~> ~ Stale(c)
=============================================================================
