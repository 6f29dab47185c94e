--------------------------- MODULE SaleCartProofs ---------------------------
(***************************************************************************)
(* Proofs about SaleCart, for every value of its constants.                *)
(***************************************************************************)
EXTENDS SaleCart, TLAPS

-----------------------------------------------------------------------------
(* Types of the operators the actions are built from.                      *)

LEMMA CallingType ==
    ASSUME NEW op \in Op, NEW c \in Cart
    PROVE  Calling(op, c) \in Call
<1>1. (CHOOSE p \in Product : TRUE) \in Product
  BY SaleCartAssumption
<1> QED
  BY <1>1 DEF Calling, Call, Op

\* A session row as a load holds it: read from the table, or kept by a request.
Held(row) == /\ row.expires \in Nat
             /\ row.attempts \in Nat
             /\ row.lockedUntil \in Nat

LEMMA NothingType == NoItems \in Items /\ NothingSeen \in Seen
BY DEF NoItems, Items, NothingSeen, Seen, Life

LEMMA SeeType ==
    ASSUME TypeOK, NEW call \in Call, NEW row, Held(row), NEW known \in BOOLEAN
    PROVE  See(call, row, known) \in Seen
<1>1. call.cart \in Cart
  BY DEF Call
<1>2. cart[call.cart] \in CartRow
  BY <1>1 DEF TypeOK
<1>3. (known /\ Edits(call)) \in BOOLEAN
  OBVIOUS
<1> QED
  BY <1>2, <1>3, NothingType DEF See, Seen, Held, CartRow

LEMMA InStageType ==
    ASSUME NEW stage \in Stage, NEW call \in Call, NEW seen \in Seen
    PROVE  /\ InStage(stage, call, seen) \in Pending
           /\ Settled(call, seen) \in Pending \cup {Idle}
BY DEF InStage, Settled, Pending, Stage

LEMMA LoadedType ==
    ASSUME TypeOK, NEW call \in Call, NEW row, Held(row), NEW known \in BOOLEAN
    PROVE  Loaded(call, row, known) \in Pending \cup {Idle}
BY SeeType, InStageType DEF Loaded, Stage

LEMMA HoldingType ==
    ASSUME NEW call \in Call, NEW row, Held(row)
    PROVE  Holding(call, row) \in Pending
<1>0. Edits(call) \in BOOLEAN
  BY DEF Edits
<1>1. [NothingSeen EXCEPT
          !.held = Edits(call),
          !.expires = row.expires,
          !.attempts = IF call.op = "claim" THEN row.attempts ELSE 0,
          !.lockedUntil = IF call.op = "claim" THEN row.lockedUntil ELSE 0]
        \in Seen
  BY <1>0, NothingType DEF Seen, Held
<1> QED
  BY <1>1, InStageType DEF Holding, Stage

\* A request past "idle" holds a call and what it saw.
LEMMA InFlight ==
    ASSUME TypeOK, NEW r \in Request, req[r].stage \in Stage
    PROVE  /\ req[r] \in Pending
           /\ req[r].call \in Call
           /\ req[r].call.cart \in Cart
           /\ req[r].seen \in Seen
           /\ Held(req[r].seen)
<1>1. req[r] \in Pending \cup {Idle}
  BY DEF TypeOK
<1>2. req[r] # Idle
  BY DEF Idle, Stage
<1>3. req[r] \in Pending
  BY <1>1, <1>2
<1>4. req[r].call \in Call /\ req[r].seen \in Seen
  BY <1>3 DEF Pending
<1> QED
  BY <1>3, <1>4 DEF Call, Seen, Held

-----------------------------------------------------------------------------
(* Every action keeps the types.                                           *)

Requests == [Request -> Pending \cup {Idle}]

LEMMA ReplyType ==
    ASSUME TypeOK, NEW r \in Request, Reply(r)
    PROVE  req' \in Requests
BY DEF TypeOK, Reply, Requests

LEMMA TransitionType ==
    ASSUME TypeOK, NEW c \in Cart, NEW from, NEW next \in CartState
    PROVE  Transition(c, from, next) \in [Cart -> CartRow]
<1>1. cart \in [Cart -> CartRow] /\ cart[c] \in CartRow
  BY DEF TypeOK
<1>2. next \in Life
  BY DEF Life
<1>3. [cart[c] EXCEPT !.state = next] \in CartRow
  BY <1>1, <1>2 DEF CartRow
<1>4. [cart EXCEPT ![c].state = next] \in [Cart -> CartRow]
  BY <1>1, <1>3
<1> QED
  BY <1>1, <1>4 DEF Transition

LEMMA JudgedType ==
    ASSUME TypeOK, NEW r \in Request, req[r].stage \in Stage,
           NEW seen \in Seen, Judged(r, seen)
    PROVE  req' \in Requests
<1>1. Settled(req[r].call, seen) \in Pending \cup {Idle}
  BY InFlight, InStageType
<1> QED
  BY <1>1 DEF Judged, TypeOK, Requests

LEMMA GoOnType ==
    ASSUME TypeOK, NEW r \in Request, req[r].stage \in Stage,
           NEW stage \in Stage, NEW seen \in Seen, GoOn(r, stage, seen)
    PROVE  req' \in Requests
<1>1. InStage(stage, req[r].call, seen) \in Pending
  BY InFlight, InStageType
<1> QED
  BY <1>1 DEF GoOn, TypeOK, Requests

LEMMA OpeningType ==
    ASSUME TypeOK, NEW c \in Cart,
           \/ StartSession(c)
           \/ \E s \in Seller : OpenPOSCart(c, s)
           \/ \E r \in Request : DeleteBySessionToken(r, c)
    PROVE  TypeOK'
<1>1. CASE StartSession(c)
  <2>1. endOfDay(now) \in Int
    BY SaleCartAssumption DEF TypeOK, endOfDay
  <2>2. [cart[c] EXCEPT !.state = "active"] \in CartRow
    BY DEF TypeOK, CartRow, Life, CartState
  <2>3. cart' \in [Cart -> CartRow]
    BY <1>1, <2>2 DEF StartSession, TypeOK
  <2>4. session' \in [Cart -> SessionRow]
    BY <1>1, <2>1 DEF StartSession, TypeOK, SessionRow
  <2> QED
    BY <1>1, <2>3, <2>4 DEF StartSession, TypeOK
<1>2. CASE \E s \in Seller : OpenPOSCart(c, s)
  <2>1. PICK s \in Seller : OpenPOSCart(c, s)
    BY <1>2
  <2>2. [cart[c] EXCEPT !.state = "active", !.seller = s, !.touched = now]
          \in CartRow
    <3>1. cart[c] \in CartRow /\ now \in Nat
      BY DEF TypeOK
    <3>2. "active" \in Life /\ s \in Seller \cup {NoSeller}
      BY DEF Life, CartState
    <3> QED
      BY <3>1, <3>2 DEF CartRow
  <2>3. cart' \in [Cart -> CartRow]
    BY <2>1, <2>2 DEF OpenPOSCart, TypeOK
  <2> QED
    BY <2>1, <2>3 DEF OpenPOSCart, TypeOK
<1>3. CASE \E r \in Request : DeleteBySessionToken(r, c)
  <2>1. PICK r \in Request : DeleteBySessionToken(r, c)
    BY <1>3
  <2>2. [NoCartRow EXCEPT !.state = "deleted"] \in CartRow
    BY NothingType DEF NoCartRow, CartRow, Life
  <2>3. NoSession \in SessionRow
    BY DEF NoSession, SessionRow
  <2> QED
    BY <2>1, <2>2, <2>3 DEF DeleteBySessionToken, TypeOK
<1> QED
  BY <1>1, <1>2, <1>3

LEMMA ClientCalls ==
    CustomerCall \cup SellerCall \cup TillCall \subseteq Call
<1>1. \A c \in Cart : Edit(c) \subseteq Call
  <2>1. ASSUME NEW c \in Cart, NEW op \in {"add", "set"},
               NEW p \in Product, NEW q \in 0..MaxQuantity
        PROVE  Editing(op, c, p, q) \in Call
    <3>1. Calling(op, c) \in Call
      BY CallingType DEF Op
    <3>2. q \in Nat
      BY SaleCartAssumption
    <3> QED
      BY <3>1, <3>2 DEF Editing, Call
  <2> QED
    BY <2>1 DEF Edit
<1>2. \A c \in Cart : {Calling(op, c) : op \in {"view", "mint", "cancel"}}
                         \subseteq Call
  BY CallingType DEF Op
<1>3. CustomerCall \subseteq Call
  BY <1>1, <1>2 DEF CustomerCall, Cart
<1>4. SellerCall \subseteq Call
  <2>1. \A c \in Cart : Calling("view", c) \in Call
    BY CallingType DEF Op
  <2>2. ASSUME NEW op \in {"release", "drop"}, NEW c \in Cart, NEW s \in Seller
        PROVE  [Calling(op, c) EXCEPT !.seller = s] \in Call
    <3>1. Calling(op, c) \in Call
      BY CallingType DEF Op
    <3> QED
      BY <3>1 DEF Call
  <2> QED
    BY <2>1, <2>2 DEF SellerCall
<1>5. TillCall \subseteq Call
  BY <1>1, <1>2 DEF TillCall
<1> QED
  BY <1>3, <1>4, <1>5

LEMMA LoadingType ==
    ASSUME TypeOK, NEW r \in Request,
           \/ \E call \in CustomerCall : BeginBySession(r, call)
           \/ \E call \in SellerCall \cup TillCall : BeginById(r, call)
           \/ LoadAgain(r)
    PROVE  TypeOK'
<1>1. \A c \in Cart : Held(session[c])
  BY DEF TypeOK, SessionRow, Held
<1>2. req' \in Requests
  <2>1. CASE \E call \in CustomerCall : BeginBySession(r, call)
    <3>1. PICK call \in CustomerCall : BeginBySession(r, call)
      BY <2>1
    <3>2. call \in Call /\ call.cart \in Cart
      BY ClientCalls DEF Call
    <3>3. Holding(call, session[call.cart]) \in Pending
      BY <1>1, <3>2, HoldingType
    <3> QED
      BY <3>1, <3>3 DEF BeginBySession, TypeOK, Requests
  <2>2. CASE \E call \in SellerCall \cup TillCall : BeginById(r, call)
    <3>1. PICK call \in SellerCall \cup TillCall : BeginById(r, call)
      BY <2>2
    <3>2. call \in Call /\ call.cart \in Cart
      BY ClientCalls DEF Call
    <3>3. PICK known \in Known(call.cart) :
             req' = [req EXCEPT ![r] = Loaded(call, session[call.cart], known)]
      BY <3>1 DEF BeginById
    <3>4. known \in BOOLEAN
      BY DEF Known
    <3>5. Loaded(call, session[call.cart], known) \in Pending \cup {Idle}
      BY <1>1, <3>2, <3>4, LoadedType
    <3> QED
      BY <3>3, <3>5 DEF TypeOK, Requests
  <2>3. CASE LoadAgain(r)
    <3>1. req[r].call \in Call /\ req[r].call.cart \in Cart /\ Held(req[r].seen)
      BY <2>3, InFlight DEF LoadAgain, Stage
    <3>2. Reply(r) \/ \E row : \E known \in BOOLEAN :
             /\ Held(row)
             /\ req' = [req EXCEPT ![r] = Loaded(req[r].call, row, known)]
      <4>1. Known(req[r].call.cart) \subseteq BOOLEAN
        BY DEF Known
      <4> QED
        <5>1. CASE ~ Exists(req[r].call.cart)
          BY <2>3, <5>1 DEF LoadAgain
        <5>2. CASE Exists(req[r].call.cart) /\ req[r].stage = "load"
          <6>1. Held(session[req[r].call.cart])
            BY <1>1, <3>1
          <6> QED
            BY <2>3, <4>1, <5>2, <6>1 DEF LoadAgain
        <5>3. CASE Exists(req[r].call.cart) /\ req[r].stage = "reload"
          BY <2>3, <3>1, <5>3 DEF LoadAgain
        <5> QED
          BY <2>3, <5>1, <5>2, <5>3 DEF LoadAgain
    <3>3. ASSUME NEW row, NEW known \in BOOLEAN, Held(row),
                 req' = [req EXCEPT ![r] = Loaded(req[r].call, row, known)]
          PROVE  req' \in Requests
      <4>1. Loaded(req[r].call, row, known) \in Pending \cup {Idle}
        BY <3>1, <3>3, LoadedType
      <4> QED
        BY <3>3, <4>1 DEF TypeOK, Requests
    <3> QED
      BY <3>2, <3>3, ReplyType
  <2> QED
    BY <2>1, <2>2, <2>3
<1> QED
  BY <1>2 DEF BeginBySession, BeginById, LoadAgain, TypeOK, Requests

LEMMA ExpiryType ==
    ASSUME TypeOK, NEW r \in Request,
           ExpireOnRead(r) \/ RevertOnRead(r) \/ WipeToken(r) \/ AttachItems(r)
    PROVE  TypeOK'
<1> DEFINE c == req[r].call.cart
           seen == req[r].seen
<1>1. req[r].stage \in Stage
  BY DEF ExpireOnRead, RevertOnRead, WipeToken, AttachItems, Stage
<1>2. c \in Cart /\ req[r] \in Pending /\ seen \in Seen
  BY <1>1, InFlight
<1>3. \A state \in CartState : [seen EXCEPT !.state = state] \in Seen
  BY <1>2 DEF Seen, Life
<1>4. CASE ExpireOnRead(r)
  <2>1. cart' \in [Cart -> CartRow]
    <3>1. Transition(c, seen.state, "expired") \in [Cart -> CartRow]
      BY <1>2, TransitionType DEF CartState
    <3> QED
      BY <1>4, <3>1 DEF ExpireOnRead, TypeOK
  <2>2. req' \in Requests
    <3>1. [seen EXCEPT !.state = "expired"] \in Seen
      BY <1>3 DEF CartState
    <3> QED
      BY <1>1, <1>2, <1>4, <3>1, JudgedType DEF ExpireOnRead
  <2> QED
    BY <1>4, <2>1, <2>2 DEF ExpireOnRead, TypeOK, Requests
<1>5. CASE RevertOnRead(r)
  <2>1. cart' \in [Cart -> CartRow]
    <3>1. Transition(c, "ready", "active") \in [Cart -> CartRow]
      BY <1>2, TransitionType DEF CartState
    <3> QED
      BY <1>5, <3>1 DEF RevertOnRead, TypeOK
  <2>2. req' \in Requests
    <3>1. CASE Judged(r, seen)
      BY <1>1, <1>2, <3>1, JudgedType
    <3>2. CASE GoOn(r, "wipe", [seen EXCEPT !.state = "active"])
      BY <1>1, <1>3, <3>2, GoOnType DEF Stage, CartState
    <3> QED
      BY <1>5, <3>1, <3>2 DEF RevertOnRead
  <2> QED
    BY <1>5, <2>1, <2>2 DEF RevertOnRead, TypeOK, Requests
<1>6. CASE WipeToken(r)
  <2>1. session' \in [Cart -> SessionRow]
    <3>1. \A row \in SessionRow :
             [row EXCEPT !.code = NoCode, !.expires = 0] \in SessionRow
      BY DEF SessionRow
    <3>2. CASE session' = [session EXCEPT ![c].code = NoCode, ![c].expires = 0]
      BY <1>2, <3>1, <3>2 DEF TypeOK
    <3>3. CASE session' = session
      BY <3>3 DEF TypeOK
    <3> QED
      BY <1>6, <3>2, <3>3 DEF WipeToken
  <2>2. req' \in Requests
    <3>1. [seen EXCEPT !.expires = 0] \in Seen
      BY <1>2 DEF Seen
    <3> QED
      BY <1>1, <1>6, <3>1, JudgedType DEF WipeToken
  <2> QED
    BY <1>6, <2>1, <2>2 DEF WipeToken, TypeOK, Requests
<1>7. CASE AttachItems(r)
  <2>1. PICK items \in {cart[c].items, NoItems} :
           GoOn(r, "serve", [seen EXCEPT !.items = items])
    BY <1>7 DEF AttachItems
  <2>2. items \in Items
    BY <1>2, NothingType DEF TypeOK, CartRow
  <2>3. [seen EXCEPT !.items = items] \in Seen
    BY <1>2, <2>2 DEF Seen
  <2>4. req' \in Requests
    BY <1>1, <2>1, <2>3, GoOnType DEF Stage
  <2> QED
    BY <1>7, <2>4 DEF AttachItems, TypeOK, Requests
<1> QED
  BY <1>4, <1>5, <1>6, <1>7

LEMMA EditType ==
    ASSUME TypeOK, NEW r \in Request, SaveItems(r) \/ RefuseEdit(r)
    PROVE  TypeOK'
<1> DEFINE call == req[r].call
           c == call.cart
<1>1. CASE SaveItems(r)
  <2>1. /\ req[r].stage = "serve"
        /\ req[r] \in Pending /\ call \in Call /\ c \in Cart
        /\ req[r].seen \in Seen
    BY <1>1, InFlight DEF SaveItems, Serving, Stage
  <2>2. Edited(call, req[r].seen.items) \in Items
    BY <2>1 DEF Edited, Items, Call, Seen
  <2>3. [cart[c] EXCEPT !.items = Edited(call, req[r].seen.items),
                        !.touched = IF c \in PosCart THEN now ELSE @]
          \in CartRow
    <3>1. \A row \in CartRow, items \in Items, t \in Nat :
             [row EXCEPT !.items = items, !.touched = t] \in CartRow
      BY DEF CartRow
    <3>2. cart[c] \in CartRow /\ cart[c].touched \in Nat /\ now \in Nat
      BY <2>1 DEF TypeOK, CartRow
    <3> QED
      BY <2>2, <3>1, <3>2
  <2>4. cart' \in [Cart -> CartRow]
    BY <1>1, <2>1, <2>3 DEF SaveItems, TypeOK
  <2>5. /\ Holding(Calling("view", c), req[r].seen) \in Pending
        /\ InStage("load", Calling("view", c), NothingSeen) \in Pending
    <3>1. Calling("view", c) \in Call
      BY <2>1, CallingType DEF Op
    <3>2. Held(req[r].seen)
      BY <2>1 DEF Held, Seen
    <3> QED
      BY <3>1, <3>2, HoldingType, InStageType, NothingType DEF Stage
  <2>6. req' \in Requests
    BY <1>1, <2>5 DEF SaveItems, TypeOK, Requests
  <2> QED
    BY <1>1, <2>4, <2>6 DEF SaveItems, TypeOK, Requests
<1>2. CASE RefuseEdit(r)
  BY <1>2, ReplyType DEF RefuseEdit, TypeOK, Requests
<1> QED
  BY <1>1, <1>2

LEMMA HandoffType ==
    ASSUME TypeOK, NEW r \in Request,
           (\E code \in Code : RequestHandoff(r, code)) \/ RefuseHandoff(r)
    PROVE  TypeOK'
<1> DEFINE c == req[r].call.cart
<1>1. ASSUME NEW code \in Code, RequestHandoff(r, code)
      PROVE  TypeOK'
  <2>1. c \in Cart
    BY <1>1, InFlight DEF RequestHandoff, Serving, Stage
  <2>2. cart' \in [Cart -> CartRow]
    <3>1. \A row \in CartRow : [row EXCEPT !.state = "ready"] \in CartRow
      BY DEF CartRow, Life, CartState
    <3> QED
      BY <1>1, <2>1, <3>1 DEF RequestHandoff, TypeOK
  <2>3. session' \in [Cart -> SessionRow]
    <3>1. now + handoffTTL \in Nat
      BY SaleCartAssumption DEF TypeOK
    <3>2. \A row \in SessionRow, t \in Nat :
             [row EXCEPT !.code = code, !.expires = t, !.attempts = 0,
                         !.lockedUntil = 0] \in SessionRow
      BY DEF SessionRow
    <3> QED
      BY <1>1, <2>1, <3>1, <3>2 DEF RequestHandoff, TypeOK
  <2> QED
    BY <1>1, <2>2, <2>3, ReplyType DEF RequestHandoff, TypeOK, Requests
<1>2. CASE RefuseHandoff(r)
  BY <1>2, ReplyType DEF RefuseHandoff, TypeOK, Requests
<1> QED
  BY <1>1, <1>2

LEMMA MoveType ==
    ASSUME TypeOK, NEW r \in Request, Move(r) \/ RefuseMove(r)
    PROVE  TypeOK'
<1> DEFINE call == req[r].call
           c == call.cart
<1>1. CASE Move(r)
  <2>1. c \in Cart
    BY <1>1, InFlight DEF Move, Serving, Stage
  <2>2. cart' \in [Cart -> CartRow]
    <3>1. \A row \in CartRow, next \in CartState, s \in Seller \cup {NoSeller} :
             [row EXCEPT !.state = next, !.seller = s] \in CartRow
      BY DEF CartRow, Life
    <3>2. Target(call.op) \in CartState
      BY DEF Target, CartState
    <3>3. cart[c] \in CartRow /\ cart[c].seller \in Seller \cup {NoSeller}
      BY <2>1 DEF TypeOK, CartRow
    <3>4. [cart[c] EXCEPT
             !.state = Target(call.op),
             !.seller = IF call.op = "release" THEN NoSeller ELSE @] \in CartRow
      BY <3>1, <3>2, <3>3
    <3> QED
      BY <1>1, <2>1, <3>4 DEF Move, TypeOK
  <2>3. told' \in [Cart -> SUBSET Answer]
    BY <1>1, <2>1 DEF Move, TypeOK, Answer
  <2> QED
    BY <1>1, <2>2, <2>3, ReplyType DEF Move, TypeOK, Requests
<1>2. CASE RefuseMove(r)
  BY <1>2, ReplyType DEF RefuseMove, TypeOK, Requests
<1> QED
  BY <1>1, <1>2

LEMMA ClaimType ==
    ASSUME TypeOK, NEW r \in Request,
           \/ \E s \in Seller, code \in Code : ClaimByToken(r, s, code)
           \/ \E code \in Code : ClaimMissed(r, code)
    PROVE  TypeOK'
<1>1. ASSUME NEW s \in Seller, NEW code \in Code, ClaimByToken(r, s, code)
      PROVE  TypeOK'
  <2>1. PICK c \in Claimable(code) :
           /\ session' = [session EXCEPT ![c] =
                             [@ EXCEPT !.claimed = TRUE, !.attempts = 0,
                                       !.lockedUntil = 0]]
           /\ req' = [req EXCEPT ![r] =
                         InStage("load", Calling("view", c), NothingSeen)]
    BY <1>1 DEF ClaimByToken
  <2>2. c \in Cart
    BY <2>1 DEF Claimable, Cart
  <2>3. cart' \in [Cart -> CartRow]
    <3>1. \A row \in CartRow :
             [row EXCEPT !.state = "claimed", !.seller = s] \in CartRow
      BY DEF CartRow, Life, CartState
    <3>2. cart' = [d \in Cart |->
                     IF d \in Claimable(code)
                     THEN [cart[d] EXCEPT !.state = "claimed", !.seller = s]
                     ELSE cart[d]]
      BY <1>1 DEF ClaimByToken
    <3> QED
      BY <3>1, <3>2 DEF TypeOK
  <2>4. session' \in [Cart -> SessionRow]
    <3>1. \A row \in SessionRow :
             [row EXCEPT !.claimed = TRUE, !.attempts = 0, !.lockedUntil = 0]
               \in SessionRow
      BY DEF SessionRow
    <3> QED
      BY <2>1, <2>2, <3>1 DEF TypeOK
  <2>5. InStage("load", Calling("view", c), NothingSeen) \in Pending
    BY <2>2, CallingType, InStageType, NothingType DEF Stage, Op
  <2>6. req' \in Requests
    BY <2>1, <2>5 DEF TypeOK, Requests
  <2> QED
    BY <1>1, <2>3, <2>4, <2>6 DEF ClaimByToken, TypeOK, Requests
<1>2. ASSUME NEW code \in Code, ClaimMissed(r, code)
      PROVE  TypeOK'
  <2>1. PICK c \in HandoffCart :
          req' = [req EXCEPT ![r] =
                    InStage("lookup",
                            [Calling("claim", c) EXCEPT !.code = code, !.at = now],
                            NothingSeen)]
    BY <1>2 DEF ClaimMissed
  <2>2. \A call \in Call, t \in Nat :
           [call EXCEPT !.code = code, !.at = t] \in Call
    BY DEF Call
  <2>3. Calling("claim", c) \in Call /\ now \in Nat
    BY CallingType DEF Op, Cart, TypeOK
  <2>4. InStage("lookup", [Calling("claim", c) EXCEPT !.code = code, !.at = now],
                NothingSeen) \in Pending
    BY <2>2, <2>3, InStageType, NothingType DEF Stage
  <2> QED
    BY <1>2, <2>1, <2>4 DEF ClaimMissed, TypeOK
<1> QED
  BY <1>1, <1>2

LEMMA ExplainType ==
    ASSUME TypeOK, NEW r \in Request,
           ExplainClaim(r) \/ RegisterFailedClaim(r) \/ AnswerClaim(r)
    PROVE  TypeOK'
<1> DEFINE call == req[r].call
           c == call.cart
<1>1. /\ req[r] \in Pending /\ call \in Call /\ c \in Cart
      /\ req[r].seen \in Seen
  BY InFlight DEF ExplainClaim, RegisterFailedClaim, AnswerClaim, Serving, Stage
<1>2. CASE ExplainClaim(r)
  <2>1. ASSUME NEW d \in Matching(call.code)
        PROVE  Holding([call EXCEPT !.cart = d], session[d]) \in Pending
    <3>1. d \in Cart
      BY DEF Matching, Cart
    <3>2. [call EXCEPT !.cart = d] \in Call
      BY <1>1, <3>1 DEF Call
    <3>3. Held(session[d])
      BY <3>1 DEF TypeOK, SessionRow, Held
    <3> QED
      BY <3>2, <3>3, HoldingType
  <2>2. req' \in Requests
    <3>1. ASSUME NEW d \in Matching(call.code),
                 req' = [req EXCEPT ![r] =
                           Holding([call EXCEPT !.cart = d], session[d])]
          PROVE  req' \in Requests
      BY <2>1, <3>1 DEF TypeOK, Requests
    <3> QED
      BY <1>2, <3>1, ReplyType DEF ExplainClaim
  <2> QED
    BY <1>2, <2>2 DEF ExplainClaim, TypeOK, Requests
<1>3. CASE RegisterFailedClaim(r)
  <2>1. session' \in [Cart -> SessionRow]
    <3>1. \A row \in SessionRow, n \in Nat, t \in Nat :
             [row EXCEPT !.attempts = n, !.lockedUntil = t] \in SessionRow
      BY DEF SessionRow
    <3>2. session[c] \in SessionRow /\ session[c].lockedUntil \in Nat
      BY <1>1 DEF TypeOK, SessionRow
    <3>3. req[r].seen.attempts + 1 \in Nat /\ call.at + handoffLockout \in Nat
      BY <1>1, SaleCartAssumption DEF Seen, Call
    <3>4. \A b \in BOOLEAN :
             [session[c] EXCEPT
                !.attempts = req[r].seen.attempts + 1,
                !.lockedUntil = IF b THEN call.at + handoffLockout ELSE @]
               \in SessionRow
      BY <3>1, <3>2, <3>3
    <3> QED
      BY <1>1, <1>3, <3>4 DEF RegisterFailedClaim, TypeOK
  <2> QED
    BY <1>3, <2>1, ReplyType DEF RegisterFailedClaim, TypeOK, Requests
<1>4. CASE AnswerClaim(r)
  BY <1>4, ReplyType DEF AnswerClaim, TypeOK, Requests
<1> QED
  BY <1>2, <1>3, <1>4

LEMMA CheckoutType ==
    ASSUME TypeOK, NEW r \in Request, NEW c \in Cart, NEW s \in Seller,
           NEW key \in Key, Checkout(r, c, s, key)
    PROVE  TypeOK'
<1>1. [p \in Product |-> shipped[c][p] + cart[c].items[p]] \in Items
  <2>1. shipped[c] \in Items /\ cart[c].items \in Items
    BY DEF TypeOK, CartRow
  <2> QED
    BY <2>1 DEF Items
<1>2. shipped' \in [Cart -> Items]
  BY <1>1 DEF Checkout, TypeOK
<1>3. cart' \in [Cart -> CartRow]
  <2>1. \A row \in CartRow :
           [row EXCEPT !.state = "completed", !.key = key] \in CartRow
    BY DEF CartRow, Life, CartState
  <2> QED
    BY <2>1 DEF Checkout, TypeOK
<1>4. sold' \in [Cart -> Nat] /\ told' \in [Cart -> SUBSET Answer]
  BY DEF Checkout, TypeOK, Answer
<1> QED
  BY <1>2, <1>3, <1>4 DEF Checkout, TypeOK

LEMMA SweepType ==
    ASSUME TypeOK, SweepStart \/ Sweep \/ Tick
    PROVE  TypeOK'
<1>1. /\ \A row \in CartRow : [row EXCEPT !.state = "active"] \in CartRow
      /\ \A row \in CartRow : [row EXCEPT !.state = "expired"] \in CartRow
  BY DEF CartRow, Life, CartState
<1>2. \A c \in Cart : cart[c] \in CartRow
  BY DEF TypeOK
<1>3. CASE SweepStart
  BY <1>3 DEF SweepStart, TypeOK
<1>4. CASE SweepRevert
  <2>1. cart' \in [Cart -> CartRow]
    BY <1>1, <1>2, <1>4 DEF SweepRevert
  <2>2. sweep' \in [step : 0..4, at : Nat]
    BY <1>4 DEF SweepRevert, TypeOK
  <2> QED
    BY <1>4, <2>1, <2>2 DEF SweepRevert, TypeOK
<1>5. CASE SweepTokens
  <2>1. \A row \in SessionRow :
           [row EXCEPT !.code = NoCode, !.expires = 0, !.lockedUntil = 0]
             \in SessionRow
    BY DEF SessionRow
  <2>2. session' \in [Cart -> SessionRow]
    BY <1>5, <2>1 DEF SweepTokens, TypeOK
  <2>3. sweep' \in [step : 0..4, at : Nat]
    <3>1. sweep' = [sweep EXCEPT !.step = 3]
      BY <1>5 DEF SweepTokens
    <3> QED
      BY <3>1 DEF TypeOK
  <2> QED
    BY <1>5, <2>2, <2>3 DEF SweepTokens, TypeOK
<1>6. CASE SweepSessions
  <2>1. cart' \in [Cart -> CartRow]
    BY <1>1, <1>2, <1>6 DEF SweepSessions
  <2>2. sweep' \in [step : 0..4, at : Nat]
    BY <1>6 DEF SweepSessions, TypeOK
  <2> QED
    BY <1>6, <2>1, <2>2 DEF SweepSessions, TypeOK
<1>7. CASE SweepTills
  <2>1. cart' \in [Cart -> CartRow]
    BY <1>1, <1>2, <1>7 DEF SweepTills
  <2>2. sweep' \in [step : 0..4, at : Nat]
    BY <1>7 DEF SweepTills
  <2> QED
    BY <1>7, <2>1, <2>2 DEF SweepTills, TypeOK
<1>8. CASE Tick
  BY <1>8 DEF Tick, TypeOK
<1> QED
  BY <1>3, <1>4, <1>5, <1>6, <1>7, <1>8 DEF Sweep

LEMMA TypeInit == Init => TypeOK
<1>1. NoCartRow \in CartRow
  BY NothingType DEF NoCartRow, CartRow, Life
<1>2. NoSession \in SessionRow
  BY DEF NoSession, SessionRow
<1> QED
  BY <1>1, <1>2, NothingType DEF Init, TypeOK

LEMMA TypeStep == TypeOK /\ [Next]_vars => TypeOK'
<1> SUFFICES ASSUME TypeOK, [Next]_vars
             PROVE  TypeOK'
  OBVIOUS
<1>1. CASE UNCHANGED vars
  BY <1>1 DEF vars, TypeOK
<1>2. CASE \E c \in Cart : StartSession(c)
  BY <1>2, OpeningType
<1>3. CASE \E c \in Cart, s \in Seller : OpenPOSCart(c, s)
  BY <1>3, OpeningType
<1>4. ASSUME NEW r \in Request, Arrive(r)
      PROVE  TypeOK'
  <2>1. CASE \/ \E call \in CustomerCall : BeginBySession(r, call)
             \/ \E call \in SellerCall \cup TillCall : BeginById(r, call)
    BY <2>1, LoadingType
  <2>2. CASE \E c \in Cart : DeleteBySessionToken(r, c)
    BY <2>2, OpeningType
  <2>3. CASE \/ \E s \in Seller, code \in Code : ClaimByToken(r, s, code)
             \/ \E code \in Code : ClaimMissed(r, code)
    BY <2>3, ClaimType
  <2>4. CASE \E c \in Cart, s \in Seller, key \in Key : Checkout(r, c, s, key)
    BY <2>4, CheckoutType
  <2> QED
    BY <1>4, <2>1, <2>2, <2>3, <2>4 DEF Arrive
<1>5. ASSUME NEW r \in Request, Step(r)
      PROVE  TypeOK'
  BY <1>5, LoadingType, ExpiryType, EditType, HandoffType, MoveType, ExplainType
     DEF Step
<1>6. CASE SweepStart \/ Sweep \/ Tick
  BY <1>6, SweepType
<1> QED
  BY <1>1, <1>2, <1>3, <1>4, <1>5, <1>6 DEF Next

\* Types: no interleaving of handlers, claims, checkouts and sweeps leaves a
\* row, a request or the janitor outside its type, whatever the constants.
THEOREM TypeCorrect == Spec => []TypeOK
BY TypeInit, TypeStep, PTL DEF Spec

-----------------------------------------------------------------------------
(***************************************************************************)
(* SaleCart implements CartLifecycle, and with it the invariants about     *)
(* money and sellers.                                                      *)
(*                                                                         *)
(* The argument: in a state of SafetyInv every action moves every cart by  *)
(* one legal move of the lifecycle or leaves it alone (StepMoves); legal   *)
(* moves keep the row invariants (MovesKeep); and a request never comes to *)
(* rely on more than it read (RequestStep).                                *)
(***************************************************************************)

\* What a step may do to one cart, in the rows' own terms.
Opened(c) ==
    /\ cart[c].state = "absent" /\ cart'[c].state = "active"
    /\ cart'[c].seller \in (IF c \in PosCart THEN Seller ELSE {NoSeller})
    /\ sold'[c] = sold[c]

Claimed(c) ==
    /\ cart[c].state = "ready" /\ cart'[c].state = "claimed"
    /\ cart[c].seller = NoSeller /\ cart'[c].seller \in Seller
    /\ sold'[c] = sold[c]

Released(c) ==
    /\ cart[c].state = "claimed" /\ cart'[c].state = "ready"
    /\ cart'[c].seller = NoSeller
    /\ sold'[c] = sold[c]

Charged(c) ==
    /\ CanTransitionTo(c, cart[c].state, "completed")
    /\ cart'[c].state = "completed"
    /\ cart[c].seller \in Seller /\ cart'[c].seller = cart[c].seller
    /\ cart'[c].key \in Key
    /\ sold'[c] = sold[c] + 1

Advanced(c) ==
    /\ CanTransitionTo(c, cart[c].state, cart'[c].state)
    /\ cart'[c].state \notin {"claimed", "completed"}
    /\ ~ (cart[c].state = "claimed" /\ cart'[c].state = "ready")
    /\ cart'[c].seller = cart[c].seller
    /\ sold'[c] = sold[c]

Deleted(c) ==
    /\ c \in HandoffCart
    /\ cart[c].state \in CartState /\ cart'[c].state = "deleted"
    /\ cart'[c].seller = NoSeller
    /\ sold'[c] = sold[c]

Rested(c) ==
    /\ cart'[c].state = cart[c].state
    /\ cart'[c].seller = cart[c].seller
    /\ cart'[c].key = cart[c].key
    /\ sold'[c] = sold[c]

Moved(c) ==
    /\ \/ Opened(c) \/ Claimed(c) \/ Released(c) \/ Charged(c)
       \/ Advanced(c) \/ Deleted(c) \/ Rested(c)
    /\ "charged" \in told'[c] =>
          "charged" \in told[c] \/ cart'[c].state = "completed"

-----------------------------------------------------------------------------
(* The whitelist.                                                          *)

LEMMA Whitelist ==
    ASSUME NEW c \in Cart, NEW from, NEW next
    PROVE  CanTransitionTo(c, from, next) <=>
             \/ c \in HandoffCart /\
                  \/ from = "active" /\ next \in {"ready", "expired", "cancelled"}
                  \/ from = "ready" /\
                       next \in {"claimed", "active", "expired", "cancelled"}
                  \/ from = "claimed" /\ next \in {"completed", "ready", "cancelled"}
             \/ c \in PosCart /\ from = "active"
                  /\ next \in {"completed", "expired", "cancelled"}
<1>1. CASE c \in HandoffCart
  <2>1. c \notin PosCart
    BY <1>1, KindsAreDisjoint
  <2>2. cartTransitions[Kind(c)] = cartTransitions.handoff
    BY <1>1 DEF Kind
  <2> QED
    BY <1>1, <2>1, <2>2 DEF CanTransitionTo, cartTransitions
<1>2. CASE c \notin HandoffCart
  <2>1. c \in PosCart
    BY <1>2 DEF Cart
  <2>2. cartTransitions[Kind(c)] = cartTransitions.pos
    BY <1>2 DEF Kind
  <2> QED
    BY <1>2, <2>1, <2>2 DEF CanTransitionTo, cartTransitions
<1> QED
  BY <1>1, <1>2

\* Legal moves keep what the rows promise.
LEMMA MovesKeep ==
    ASSUME SafetyInv, TypeOK', \A c \in Cart : Moved(c)
    PROVE  RowsAreConsistent' /\ ChargedOnce' /\ SellerMatchesState'
             /\ ChargeIsFinal'
<1> SUFFICES
      ASSUME NEW c \in Cart
      PROVE  /\ cart'[c].state = "absent" =>
                   sold'[c] = 0 /\ cart'[c].seller = NoSeller
             /\ c \in PosCart =>
                   cart'[c].state \notin {"ready", "claimed", "deleted"}
             /\ cart'[c].state = "completed" <=>
                   sold'[c] = 1 /\ cart'[c].state \in CartState
             /\ cart'[c].state = "completed" => cart'[c].key # NoKey
             /\ sold'[c] <= 1
             /\ cart'[c].state \in {"claimed", "completed"} =>
                   cart'[c].seller # NoSeller
             /\ c \in HandoffCart
                  /\ cart'[c].state \in {"active", "ready", "expired"}
                  => cart'[c].seller = NoSeller
             /\ c \in PosCart /\ cart'[c].state \in CartState =>
                   cart'[c].seller # NoSeller
             /\ "charged" \in told'[c] =>
                   cart'[c].state \in {"completed", "deleted"}
  BY DEF RowsAreConsistent, ChargedOnce, SellerMatchesState, ChargeIsFinal, Exists
<1>1. /\ cart[c].state = "absent" => sold[c] = 0 /\ cart[c].seller = NoSeller
      /\ c \in PosCart => cart[c].state \notin {"ready", "claimed", "deleted"}
      /\ cart[c].state = "completed" <=> sold[c] = 1 /\ cart[c].state \in CartState
      /\ cart[c].state = "completed" => cart[c].key # NoKey
      /\ sold[c] <= 1
      /\ cart[c].state \in {"claimed", "completed"} => cart[c].seller # NoSeller
      /\ c \in HandoffCart /\ cart[c].state \in {"active", "ready", "expired"}
           => cart[c].seller = NoSeller
      /\ c \in PosCart /\ cart[c].state \in CartState => cart[c].seller # NoSeller
      /\ "charged" \in told[c] => cart[c].state \in {"completed", "deleted"}
  BY DEF SafetyInv, RowsAreConsistent, ChargedOnce, SellerMatchesState,
         ChargeIsFinal, Exists
<1>2. /\ cart[c].state \in Life /\ cart'[c].state \in Life
      /\ sold[c] \in Nat /\ sold'[c] \in Nat
      /\ c \in HandoffCart \/ c \in PosCart
      /\ ~ (c \in HandoffCart /\ c \in PosCart)
      /\ NoSeller \notin Seller /\ NoKey \notin Key
  BY SaleCartAssumption, KindsAreDisjoint DEF SafetyInv, TypeOK, CartRow, Cart
<1>3. Moved(c)
  OBVIOUS
<1>4. CASE Opened(c)
  BY <1>1, <1>2, <1>3, <1>4 DEF Opened, Moved, CartState, Life
<1>5. CASE Claimed(c)
  BY <1>1, <1>2, <1>3, <1>5 DEF Claimed, Moved, CartState, Life
<1>6. CASE Released(c)
  BY <1>1, <1>2, <1>3, <1>6 DEF Released, Moved, CartState, Life
<1>7. CASE Charged(c)
  BY <1>1, <1>2, <1>3, <1>7, Whitelist DEF Charged, Moved, CartState, Life
<1>8. CASE Advanced(c)
  BY <1>1, <1>2, <1>3, <1>8, Whitelist DEF Advanced, Moved, CartState, Life
<1>9. CASE Deleted(c)
  BY <1>1, <1>2, <1>3, <1>9 DEF Deleted, Moved, CartState, Life
<1>10. CASE Rested(c)
  BY <1>1, <1>2, <1>3, <1>10 DEF Rested, Moved, CartState, Life
<1> QED
  BY <1>3, <1>4, <1>5, <1>6, <1>7, <1>8, <1>9, <1>10 DEF Moved

-----------------------------------------------------------------------------
(* Every action moves every cart legally.                                  *)

LEMMA RowsAtRest ==
    ASSUME NEW c \in Cart, cart'[c] = cart[c], sold'[c] = sold[c],
           told'[c] = told[c]
    PROVE  Moved(c)
BY DEF Moved, Rested

\* The carts that an update of row c leaves alone.
LEMMA OtherRows ==
    ASSUME TypeOK, NEW c \in Cart, NEW d \in Cart, d # c
    PROVE  /\ \A row : [cart EXCEPT ![c] = row][d] = cart[d]
           /\ \A n : [sold EXCEPT ![c] = n][d] = sold[d]
           /\ \A answers : [told EXCEPT ![c] = answers][d] = told[d]
BY DEF TypeOK

LEMMA StartSessionMoves ==
    ASSUME SafetyInv, NEW c \in Cart, StartSession(c), NEW d \in Cart
    PROVE  Moved(d)
<1>1. TypeOK /\ cart[c] \in CartRow
  BY DEF SafetyInv, TypeOK
<1>2. CASE d = c
  <2>1. cart[c].seller = NoSeller /\ c \notin PosCart
    BY KindsAreDisjoint DEF StartSession, SafetyInv, RowsAreConsistent
  <2>2. /\ cart'[c].state = "active" /\ cart'[c].seller = cart[c].seller
        /\ sold'[c] = sold[c] /\ told'[c] = told[c]
    BY <1>1 DEF StartSession, TypeOK, CartRow
  <2> QED
    BY <1>2, <2>1, <2>2 DEF StartSession, Moved, Opened
<1>3. CASE d # c
  BY <1>1, <1>3, OtherRows, RowsAtRest DEF StartSession
<1> QED
  BY <1>2, <1>3

LEMMA OpenPOSCartMoves ==
    ASSUME SafetyInv, NEW c \in Cart, NEW s \in Seller, OpenPOSCart(c, s),
           NEW d \in Cart
    PROVE  Moved(d)
<1>1. TypeOK /\ cart[c] \in CartRow
  BY DEF SafetyInv, TypeOK
<1>2. CASE d = c
  <2>1. /\ cart'[c].state = "active" /\ cart'[c].seller = s
        /\ sold'[c] = sold[c] /\ told'[c] = told[c]
    BY <1>1 DEF OpenPOSCart, TypeOK, CartRow
  <2> QED
    BY <1>2, <2>1 DEF OpenPOSCart, Moved, Opened
<1>3. CASE d # c
  BY <1>1, <1>3, OtherRows, RowsAtRest DEF OpenPOSCart
<1> QED
  BY <1>2, <1>3

LEMMA DeleteMoves ==
    ASSUME SafetyInv, NEW r \in Request, NEW c \in Cart,
           DeleteBySessionToken(r, c), NEW d \in Cart
    PROVE  Moved(d)
<1>1. TypeOK
  BY DEF SafetyInv
<1>2. CASE d = c
  <2>1. /\ cart'[c].state = "deleted" /\ cart'[c].seller = NoSeller
        /\ sold'[c] = sold[c] /\ told'[c] = told[c]
    BY <1>1 DEF DeleteBySessionToken, TypeOK, NoCartRow
  <2> QED
    BY <1>2, <2>1 DEF DeleteBySessionToken, Exists, Moved, Deleted
<1>3. CASE d # c
  BY <1>1, <1>3, OtherRows, RowsAtRest DEF DeleteBySessionToken
<1> QED
  BY <1>2, <1>3

\* A conditional update from a state the whitelist lets go moves its cart, or
\* finds another state and moves nothing.
LEMMA TransitionMoves ==
    ASSUME SafetyInv, NEW c \in Cart, NEW from,
           NEW next \in CartState \ {"claimed", "completed"},
           from # "claimed",
           CanTransitionTo(c, from, next) \/ cart[c].state # from,
           cart' = Transition(c, from, next),
           sold' = sold, told' = told, NEW d \in Cart
    PROVE  Moved(d)
<1>1. TypeOK /\ cart[c] \in CartRow
  BY DEF SafetyInv, TypeOK
<1>2. CASE cart[c].state # from
  BY <1>2, RowsAtRest DEF Transition
<1>3. CASE cart[c].state = from /\ d = c
  <2>1. cart'[c].state = next /\ cart'[c].seller = cart[c].seller
    BY <1>1, <1>3 DEF Transition, TypeOK, CartRow
  <2> QED
    BY <1>3, <2>1 DEF Moved, Advanced
<1>4. CASE cart[c].state = from /\ d # c
  BY <1>1, <1>4, OtherRows, RowsAtRest DEF Transition
<1> QED
  BY <1>2, <1>3, <1>4

LEMMA ExpiryMoves ==
    ASSUME SafetyInv, NEW r \in Request, ExpireOnRead(r) \/ RevertOnRead(r),
           NEW d \in Cart
    PROVE  Moved(d)
<1> DEFINE c == req[r].call.cart
<1>1. TypeOK /\ c \in Cart
  BY InFlight DEF SafetyInv, ExpireOnRead, RevertOnRead, Stage
<1>2. CASE ExpireOnRead(r)
  <2>1. CanTransitionTo(c, req[r].seen.state, "expired")
    BY <1>2 DEF SafetyInv, RequestsAreSound, RequestIsSound, ExpireOnRead
  <2>2. req[r].seen.state # "claimed"
    BY <1>1, <2>1, Whitelist
  <2>3. CASE cart' = Transition(c, req[r].seen.state, "expired")
    BY <1>1, <1>2, <2>1, <2>2, <2>3, TransitionMoves DEF ExpireOnRead, CartState
  <2>4. CASE cart' = cart
    BY <1>2, <2>4, RowsAtRest DEF ExpireOnRead
  <2> QED
    BY <1>2, <2>3, <2>4 DEF ExpireOnRead
<1>3. CASE RevertOnRead(r)
  <2>1. CanTransitionTo(c, "ready", "active") \/ cart[c].state # "ready"
    BY <1>1, Whitelist DEF SafetyInv, RowsAreConsistent, Cart
  <2>2. CASE cart' = Transition(c, "ready", "active")
    BY <1>1, <1>3, <2>1, <2>2, TransitionMoves DEF RevertOnRead, CartState
  <2>3. CASE cart' = cart
    BY <1>3, <2>3, RowsAtRest DEF RevertOnRead
  <2> QED
    BY <1>3, <2>2, <2>3 DEF RevertOnRead
<1> QED
  BY <1>2, <1>3

LEMMA SaveItemsMoves ==
    ASSUME SafetyInv, NEW r \in Request, SaveItems(r), NEW d \in Cart
    PROVE  Moved(d)
<1> DEFINE c == req[r].call.cart
           items == Edited(req[r].call, req[r].seen.items)
           t == IF c \in PosCart THEN now ELSE cart[c].touched
<1>1. TypeOK /\ c \in Cart /\ cart[c] \in CartRow
  BY InFlight DEF SafetyInv, SaveItems, Serving, Stage, TypeOK
<1>2. sold' = sold /\ told' = told
  BY DEF SaveItems
<1>3. CASE Exists(c) /\ d = c
  <2>1. cart'[c] = [cart[c] EXCEPT !.items = items, !.touched = t]
    BY <1>1, <1>3 DEF SaveItems, TypeOK
  <2>2. /\ cart'[c].state = cart[c].state /\ cart'[c].seller = cart[c].seller
        /\ cart'[c].key = cart[c].key
    BY <1>1, <2>1 DEF CartRow
  <2> QED
    BY <1>2, <1>3, <2>2 DEF Moved, Rested
<1>4. CASE Exists(c) /\ d # c
  <2>1. cart'[d] = cart[d]
    BY <1>1, <1>4 DEF SaveItems, TypeOK
  <2> QED
    BY <1>2, <2>1, RowsAtRest
<1>5. CASE ~ Exists(c)
  BY <1>2, <1>5, RowsAtRest DEF SaveItems
<1> QED
  BY <1>3, <1>4, <1>5

LEMMA RequestHandoffMoves ==
    ASSUME SafetyInv, NEW r \in Request, NEW code \in Code,
           RequestHandoff(r, code), NEW d \in Cart
    PROVE  Moved(d)
<1> DEFINE c == req[r].call.cart
<1>1. TypeOK /\ c \in Cart /\ cart[c] \in CartRow
  BY InFlight DEF SafetyInv, RequestHandoff, Serving, Stage, TypeOK
<1>2. c \in HandoffCart
  BY DEF SafetyInv, RequestsAreSound, RequestIsSound, RequestHandoff, Serving,
         Stage
<1>3. sold' = sold /\ told' = told /\ cart[c].state \in {"active", "ready"}
  BY DEF RequestHandoff, MintAdmitted
<1>4. CASE d = c
  <2>1. cart'[c] = [cart[c] EXCEPT !.state = "ready"]
    BY <1>1 DEF RequestHandoff, TypeOK
  <2>2. /\ cart'[c].state = "ready" /\ cart'[c].seller = cart[c].seller
        /\ cart'[c].key = cart[c].key
    BY <1>1, <2>1 DEF CartRow
  <2>3. CASE cart[c].state = "active"
    <3>1. CanTransitionTo(c, "active", "ready")
      BY <1>1, <1>2, Whitelist
    <3> QED
      BY <1>3, <1>4, <2>2, <2>3, <3>1 DEF Moved, Advanced
  <2>4. CASE cart[c].state = "ready"
    BY <1>3, <1>4, <2>2, <2>4 DEF Moved, Rested
  <2> QED
    BY <1>3, <2>3, <2>4
<1>5. CASE d # c
  <2>1. cart' = [cart EXCEPT ![c].state = "ready"]
    BY DEF RequestHandoff
  <2>2. cart'[d] = cart[d]
    BY <1>1, <1>5, <2>1 DEF TypeOK
  <2> QED
    BY <1>3, <2>2, RowsAtRest
<1> QED
  BY <1>4, <1>5

LEMMA MoveMoves ==
    ASSUME SafetyInv, NEW r \in Request, Move(r), NEW d \in Cart
    PROVE  Moved(d)
<1> DEFINE call == req[r].call
           seen == req[r].seen
           c == call.cart
           next == Target(call.op)
           s == IF call.op = "release" THEN NoSeller ELSE cart[c].seller
           answers == IF call.op = "release" THEN told[c]
                      ELSE told[c] \cup {"cancelled"}
<1>1. TypeOK /\ c \in Cart /\ cart[c] \in CartRow
  BY InFlight DEF SafetyInv, Move, Serving, Stage, TypeOK
<1>2. /\ CanTransitionTo(c, seen.state, next)
      /\ sold' = sold
  BY DEF Move, MoveAdmitted
<1>3. told'[c] = answers /\ \A e \in Cart : e # c => told'[e] = told[e]
  BY <1>1 DEF Move, TypeOK
<1>4. "charged" \in told'[d] => "charged" \in told[d]
  BY <1>3
<1>5. CASE cart[c].state # seen.state
  <2>1. cart' = cart
    BY <1>5 DEF Move
  <2> QED
    BY <1>2, <1>4, <2>1 DEF Moved, Rested
<1>6. CASE cart[c].state = seen.state /\ d = c
  <2>1. cart'[c] = [cart[c] EXCEPT !.state = next, !.seller = s]
    BY <1>1, <1>6 DEF Move, TypeOK
  <2>2. cart'[c].state = next /\ cart'[c].seller = s
    BY <1>1, <2>1 DEF CartRow
  <2>3. CASE call.op = "release"
    <3>1. next = "ready" /\ s = NoSeller
      BY <2>3 DEF Target
    <3>2. cart[c].state \in {"active", "claimed"}
      BY <1>1, <1>2, <1>6, <3>1, Whitelist
    <3>3. seen.seller = call.seller /\ call.seller # NoSeller
      BY <2>3 DEF Move, MoveAdmitted
    <3>4. CASE cart[c].state = "claimed"
      BY <1>2, <1>4, <1>6, <2>2, <3>1, <3>4 DEF Moved, Released
    <3>5. CASE cart[c].state = "active"
      <4>1. c \in HandoffCart
        BY <1>1, <1>2, <1>6, <3>1, <3>5, Whitelist
      <4>2. cart[c].seller = NoSeller
        BY <1>1, <3>5, <4>1 DEF SafetyInv, SellerMatchesState
      <4>3. cart'[c].seller = cart[c].seller
        BY <2>2, <3>1, <4>2
      <4> QED
        BY <1>2, <1>4, <1>6, <2>2, <3>1, <3>5, <4>3 DEF Moved, Advanced
    <3> QED
      BY <3>2, <3>4, <3>5
  <2>4. CASE call.op # "release"
    <3>1. next = "cancelled" /\ s = cart[c].seller
      BY <2>4 DEF Target
    <3> QED
      BY <1>2, <1>4, <1>6, <2>2, <3>1 DEF Moved, Advanced
  <2> QED
    BY <2>3, <2>4
<1>7. CASE cart[c].state = seen.state /\ d # c
  <2>1. cart'[d] = cart[d]
    BY <1>1, <1>7 DEF Move, TypeOK
  <2> QED
    BY <1>2, <1>3, <1>7, <2>1, RowsAtRest
<1> QED
  BY <1>5, <1>6, <1>7

LEMMA ClaimMoves ==
    ASSUME SafetyInv, NEW r \in Request, NEW s \in Seller, NEW code \in Code,
           ClaimByToken(r, s, code), NEW d \in Cart
    PROVE  Moved(d)
<1>1. TypeOK /\ cart[d] \in CartRow /\ sold' = sold /\ told' = told
  BY DEF SafetyInv, TypeOK, ClaimByToken
<1>2. cart'[d] = IF d \in Claimable(code)
                 THEN [cart[d] EXCEPT !.state = "claimed", !.seller = s]
                 ELSE cart[d]
  BY DEF ClaimByToken
<1>3. CASE d \in Claimable(code)
  <2>1. d \in HandoffCart /\ cart[d].state = "ready"
    BY <1>3 DEF Claimable
  <2>2. cart[d].seller = NoSeller
    BY <2>1 DEF SafetyInv, SellerMatchesState
  <2>3. cart'[d].state = "claimed" /\ cart'[d].seller = s
    BY <1>1, <1>2, <1>3 DEF CartRow
  <2> QED
    BY <1>1, <2>1, <2>2, <2>3 DEF Moved, Claimed
<1>4. CASE d \notin Claimable(code)
  BY <1>1, <1>2, <1>4, RowsAtRest
<1> QED
  BY <1>3, <1>4

LEMMA CheckoutMoves ==
    ASSUME SafetyInv, NEW r \in Request, NEW c \in Cart, NEW s \in Seller,
           NEW key \in Key, Checkout(r, c, s, key), NEW d \in Cart
    PROVE  Moved(d)
<1>1. TypeOK /\ cart[c] \in CartRow
  BY DEF SafetyInv, TypeOK
<1>2. CASE d = c
  <2>1. CanTransitionTo(c, cart[c].state, "completed") /\ cart[c].seller = s
    BY Whitelist DEF Checkout, CheckoutAuthorized, Cart
  <2>2. cart'[c] = [cart[c] EXCEPT !.state = "completed", !.key = key]
    BY <1>1 DEF Checkout, TypeOK
  <2>3. /\ cart'[c].state = "completed" /\ cart'[c].key = key
        /\ cart'[c].seller = cart[c].seller
    BY <1>1, <2>2 DEF CartRow
  <2>4. sold'[c] = sold[c] + 1
    BY <1>1 DEF Checkout, TypeOK
  <2> QED
    BY <1>2, <2>1, <2>3, <2>4 DEF Moved, Charged
<1>3. CASE d # c
  <2>1. cart'[d] = cart[d] /\ sold'[d] = sold[d] /\ told'[d] = told[d]
    BY <1>1, <1>3 DEF Checkout, TypeOK
  <2> QED
    BY <2>1, RowsAtRest
<1> QED
  BY <1>2, <1>3

\* A bulk update of the janitor moves each cart it selects.
LEMMA BulkMoves ==
    ASSUME SafetyInv, NEW d \in Cart,
           NEW next \in CartState \ {"claimed", "completed"},
           cart[d].state # "claimed",
           CanTransitionTo(d, cart[d].state, next),
           cart'[d] = [cart[d] EXCEPT !.state = next],
           sold' = sold, told' = told
    PROVE  Moved(d)
<1>1. cart[d] \in CartRow
  BY DEF SafetyInv, TypeOK
<1>2. cart'[d].state = next /\ cart'[d].seller = cart[d].seller
  BY <1>1 DEF CartRow
<1> QED
  BY <1>2 DEF Moved, Advanced

LEMMA SweepMoves ==
    ASSUME SafetyInv, SweepRevert \/ SweepSessions \/ SweepTills, NEW d \in Cart
    PROVE  Moved(d)
<1>1. sold' = sold /\ told' = told
  BY DEF SweepRevert, SweepSessions, SweepTills
<1>2. CASE cart'[d] = cart[d]
  BY <1>1, <1>2, RowsAtRest
<1>3. CASE SweepRevert /\ cart'[d] # cart[d]
  <2>1. /\ cart[d].state = "ready" /\ d \in HandoffCart
        /\ cart'[d] = [cart[d] EXCEPT !.state = "active"]
    BY <1>3 DEF SweepRevert
  <2>2. CanTransitionTo(d, cart[d].state, "active")
    BY <2>1, Whitelist
  <2> QED
    BY <1>1, <2>1, <2>2, BulkMoves DEF CartState
<1>4. CASE SweepSessions /\ cart'[d] # cart[d]
  <2>1. /\ cart[d].state \in {"active", "ready"} /\ d \in HandoffCart
        /\ cart'[d] = [cart[d] EXCEPT !.state = "expired"]
    BY <1>4 DEF SweepSessions
  <2>2. CanTransitionTo(d, cart[d].state, "expired")
    BY <2>1, Whitelist
  <2> QED
    BY <1>1, <2>1, <2>2, BulkMoves DEF CartState
<1>5. CASE SweepTills /\ cart'[d] # cart[d]
  <2>1. /\ cart[d].state = "active" /\ d \in PosCart
        /\ cart'[d] = [cart[d] EXCEPT !.state = "expired"]
    BY <1>5 DEF SweepTills
  <2>2. CanTransitionTo(d, cart[d].state, "expired")
    BY <2>1, Whitelist
  <2> QED
    BY <1>1, <2>1, <2>2, BulkMoves DEF CartState
<1> QED
  BY <1>2, <1>3, <1>4, <1>5

LEMMA StepMoves ==
    ASSUME SafetyInv, [Next]_vars
    PROVE  \A d \in Cart : Moved(d)
<1> SUFFICES ASSUME NEW d \in Cart
             PROVE  Moved(d)
  OBVIOUS
<1>1. CASE cart' = cart /\ sold' = sold /\ told' = told
  BY <1>1, RowsAtRest
<1>2. CASE \E c \in Cart : StartSession(c)
  BY <1>2, StartSessionMoves
<1>3. CASE \E c \in Cart, s \in Seller : OpenPOSCart(c, s)
  BY <1>3, OpenPOSCartMoves
<1>4. ASSUME NEW r \in Request, Arrive(r)
      PROVE  Moved(d)
  <2>1. CASE \/ \E call \in CustomerCall : BeginBySession(r, call)
             \/ \E call \in SellerCall \cup TillCall : BeginById(r, call)
    BY <1>1, <2>1 DEF BeginBySession, BeginById
  <2>2. CASE \E c \in Cart : DeleteBySessionToken(r, c)
    BY <2>2, DeleteMoves
  <2>3. CASE \E s \in Seller, code \in Code : ClaimByToken(r, s, code)
    BY <2>3, ClaimMoves
  <2>4. CASE \E code \in Code : ClaimMissed(r, code)
    BY <1>1, <2>4 DEF ClaimMissed
  <2>5. CASE \E c \in Cart, s \in Seller, key \in Key : Checkout(r, c, s, key)
    BY <2>5, CheckoutMoves
  <2> QED
    BY <1>4, <2>1, <2>2, <2>3, <2>4, <2>5 DEF Arrive
<1>5. ASSUME NEW r \in Request, Step(r)
      PROVE  Moved(d)
  <2>1. CASE LoadAgain(r) \/ WipeToken(r) \/ AttachItems(r) \/ ExplainClaim(r)
               \/ RegisterFailedClaim(r) \/ AnswerClaim(r)
    BY <1>1, <2>1 DEF LoadAgain, WipeToken, AttachItems, ExplainClaim,
                      RegisterFailedClaim, AnswerClaim
  <2>2. CASE RefuseEdit(r) \/ RefuseHandoff(r) \/ RefuseMove(r)
    BY <1>1, <2>2 DEF RefuseEdit, RefuseHandoff, RefuseMove
  <2>3. CASE ExpireOnRead(r) \/ RevertOnRead(r)
    BY <2>3, ExpiryMoves
  <2>4. CASE SaveItems(r)
    BY <2>4, SaveItemsMoves
  <2>5. CASE \E code \in Code : RequestHandoff(r, code)
    BY <2>5, RequestHandoffMoves
  <2>6. CASE Move(r)
    BY <2>6, MoveMoves
  <2> QED
    BY <1>5, <2>1, <2>2, <2>3, <2>4, <2>5, <2>6 DEF Step
<1>6. CASE SweepStart \/ SweepTokens \/ Tick
  BY <1>1, <1>6 DEF SweepStart, SweepTokens, Tick
<1>7. CASE SweepRevert \/ SweepSessions \/ SweepTills
  BY <1>7, SweepMoves
<1>8. CASE UNCHANGED vars
  BY <1>1, <1>8 DEF vars
<1> QED
  BY <1>2, <1>3, <1>4, <1>5, <1>6, <1>7, <1>8 DEF Next, Sweep

-----------------------------------------------------------------------------
(* Requests stay sound.                                                    *)

\* A request that lazilyExpire lets go on, or that is done.
LEMMA SettledSound ==
    ASSUME NEW call, NEW seen, call.op = "mint" => call.cart \in HandoffCart
    PROVE  RequestIsSound(Settled(call, seen))
BY DEF Settled, InStage, RequestIsSound, Idle, Stage

LEMMA LoadedSound ==
    ASSUME NEW call, NEW row, NEW known,
           call.op = "mint" => call.cart \in HandoffCart
    PROVE  RequestIsSound(Loaded(call, row, known))
<1>1. See(call, row, known).state = cart[call.cart].state
  BY DEF See
<1>2. Stale(call.cart) =>
         RequestIsSound(InStage("expire", call, See(call, row, known)))
  BY <1>1 DEF Stale, InStage, RequestIsSound
<1>3. RequestIsSound(InStage("revert", call, See(call, row, known)))
  BY DEF InStage, RequestIsSound
<1> QED
  BY <1>2, <1>3, SettledSound DEF Loaded

LEMMA CallsAreSound ==
    \A call \in CustomerCall \cup SellerCall \cup TillCall :
        call.op = "mint" => call.cart \in HandoffCart
<1>1. ASSUME NEW op, NEW c
      PROVE  Calling(op, c).op = op /\ Calling(op, c).cart = c
  BY DEF Calling
<1>2. ASSUME NEW c, NEW call \in Edit(c)
      PROVE  call.op # "mint" /\ call.cart = c
  <2>1. PICK op \in {"add", "set"}, p \in Product, q \in 0..MaxQuantity :
           call = Editing(op, c, p, q)
    BY <1>2 DEF Edit
  <2>2. call.op = op /\ call.cart = c
    BY <2>1 DEF Editing, Calling
  <2> QED
    BY <2>2
<1>3. ASSUME NEW call \in CustomerCall
      PROVE  call.cart \in HandoffCart
  <2>1. PICK c \in HandoffCart :
           call \in {Calling(op, c) : op \in {"view", "mint", "cancel"}}
                     \cup Edit(c)
    BY <1>3 DEF CustomerCall
  <2> QED
    BY <1>1, <1>2, <2>1
<1>4. ASSUME NEW call \in SellerCall
      PROVE  call.op # "mint"
  <2>1. CASE \E c \in Cart : call = Calling("view", c)
    BY <1>1, <2>1
  <2>2. ASSUME NEW op \in {"release", "drop"}, NEW c \in Cart, NEW s \in Seller,
               call = [Calling(op, c) EXCEPT !.seller = s]
        PROVE  call.op # "mint"
    BY <2>2 DEF Calling
  <2> QED
    BY <1>4, <2>1, <2>2 DEF SellerCall
<1>5. ASSUME NEW call \in TillCall
      PROVE  call.op # "mint"
  <2>1. PICK c \in Cart : call \in {Calling("cancel", c)} \cup Edit(c)
    BY <1>5 DEF TillCall
  <2> QED
    BY <1>1, <1>2, <2>1
<1> QED
  BY <1>3, <1>4, <1>5

\* Only request r changes, and what becomes of it is sound.
LEMMA OneRequest ==
    ASSUME SafetyInv, NEW r \in Request, NEW q, RequestIsSound(q),
           req' = [req EXCEPT ![r] = q]
    PROVE  RequestsAreSound'
BY DEF SafetyInv, TypeOK, RequestsAreSound, RequestIsSound

LEMMA IdleSound == RequestIsSound(Idle)
BY DEF RequestIsSound, Idle, Stage

LEMMA ReplySound ==
    ASSUME SafetyInv, NEW r \in Request, Reply(r)
    PROVE  RequestsAreSound'
BY OneRequest, IdleSound DEF Reply

LEMMA JudgedSound ==
    ASSUME SafetyInv, NEW r \in Request, req[r].stage \in Stage,
           NEW seen, Judged(r, seen)
    PROVE  RequestsAreSound'
<1>1. RequestIsSound(req[r])
  BY DEF SafetyInv, RequestsAreSound
<1>2. RequestIsSound(Settled(req[r].call, seen))
  BY <1>1, SettledSound DEF RequestIsSound
<1>3. req' = [req EXCEPT ![r] = Settled(req[r].call, seen)]
  BY DEF Judged
<1> QED
  BY <1>2, <1>3, OneRequest

LEMMA GoOnSound ==
    ASSUME SafetyInv, NEW r \in Request, req[r].stage \in Stage,
           NEW stage \in {"wipe", "serve"}, NEW seen, GoOn(r, stage, seen)
    PROVE  RequestsAreSound'
<1>1. RequestIsSound(req[r])
  BY DEF SafetyInv, RequestsAreSound
<1>2. RequestIsSound(InStage(stage, req[r].call, seen))
  BY <1>1 DEF RequestIsSound, InStage
<1>3. req' = [req EXCEPT ![r] = InStage(stage, req[r].call, seen)]
  BY DEF GoOn
<1> QED
  BY <1>2, <1>3, OneRequest

LEMMA ArriveSound ==
    ASSUME SafetyInv, NEW r \in Request, Arrive(r)
    PROVE  RequestsAreSound'
<1>1. ASSUME NEW call \in CustomerCall, BeginBySession(r, call)
      PROVE  RequestsAreSound'
  <2>1. RequestIsSound(Holding(call, session[call.cart]))
    BY CallsAreSound DEF RequestIsSound, Holding, InStage
  <2> QED
    BY <1>1, <2>1, OneRequest DEF BeginBySession
<1>2. ASSUME NEW call \in SellerCall \cup TillCall, BeginById(r, call)
      PROVE  RequestsAreSound'
  <2>1. \A known : RequestIsSound(Loaded(call, session[call.cart], known))
    BY CallsAreSound, LoadedSound
  <2> QED
    BY <1>2, <2>1, OneRequest DEF BeginById
<1>3. ASSUME NEW c \in Cart, DeleteBySessionToken(r, c)
      PROVE  RequestsAreSound'
  BY <1>3 DEF DeleteBySessionToken, SafetyInv, RequestsAreSound
<1>4. ASSUME NEW s \in Seller, NEW code \in Code, ClaimByToken(r, s, code)
      PROVE  RequestsAreSound'
  <2>1. PICK c \in Claimable(code) :
           req' = [req EXCEPT ![r] =
                     InStage("load", Calling("view", c), NothingSeen)]
    BY <1>4 DEF ClaimByToken
  <2>2. RequestIsSound(InStage("load", Calling("view", c), NothingSeen))
    BY DEF RequestIsSound, InStage, Calling
  <2> QED
    BY <2>1, <2>2, OneRequest
<1>5. ASSUME NEW code \in Code, ClaimMissed(r, code)
      PROVE  RequestsAreSound'
  <2>1. PICK c \in HandoffCart :
           req' = [req EXCEPT ![r] =
                     InStage("lookup",
                             [Calling("claim", c) EXCEPT !.code = code, !.at = now],
                             NothingSeen)]
    BY <1>5 DEF ClaimMissed
  <2>2. [Calling("claim", c) EXCEPT !.code = code, !.at = now].op = "claim"
    BY DEF Calling
  <2>3. RequestIsSound(InStage("lookup",
                               [Calling("claim", c) EXCEPT !.code = code, !.at = now],
                               NothingSeen))
    BY <2>2 DEF RequestIsSound, InStage
  <2> QED
    BY <2>1, <2>3, OneRequest
<1>6. ASSUME NEW c \in Cart, NEW s \in Seller, NEW key \in Key,
             Checkout(r, c, s, key)
      PROVE  RequestsAreSound'
  BY <1>6 DEF Checkout, SafetyInv, RequestsAreSound
<1> QED
  BY <1>1, <1>2, <1>3, <1>4, <1>5, <1>6 DEF Arrive

LEMMA StepSound ==
    ASSUME SafetyInv, NEW r \in Request, Step(r)
    PROVE  RequestsAreSound'
<1> DEFINE call == req[r].call
<1>1. RequestIsSound(req[r])
  BY DEF SafetyInv, RequestsAreSound
<1>2. CASE LoadAgain(r)
  <2>1. call.op = "mint" => call.cart \in HandoffCart
    BY <1>1, <1>2 DEF LoadAgain, RequestIsSound, Stage
  <2>2. \A row, known : RequestIsSound(Loaded(call, row, known))
    BY <2>1, LoadedSound
  <2>3. Reply(r) \/ \E row, known : req' = [req EXCEPT ![r] = Loaded(call, row, known)]
    BY <1>2 DEF LoadAgain
  <2> QED
    BY <2>2, <2>3, ReplySound, OneRequest
<1>3. CASE ExpireOnRead(r)
  BY <1>3, JudgedSound DEF ExpireOnRead, Stage
<1>4. CASE RevertOnRead(r)
  BY <1>4, JudgedSound, GoOnSound DEF RevertOnRead, Stage
<1>5. CASE WipeToken(r)
  BY <1>5, JudgedSound DEF WipeToken, Stage
<1>6. CASE AttachItems(r)
  BY <1>6, GoOnSound DEF AttachItems, Stage
<1>7. CASE SaveItems(r)
  <2>1. \E q : /\ RequestIsSound(q)
               /\ req' = [req EXCEPT ![r] = q]
    <3>1. RequestIsSound(Holding(Calling("view", call.cart), req[r].seen))
      BY DEF RequestIsSound, Holding, InStage, Calling
    <3>2. RequestIsSound(InStage("load", Calling("view", call.cart), NothingSeen))
      BY DEF RequestIsSound, InStage, Calling
    <3> QED
      BY <1>7, <3>1, <3>2 DEF SaveItems
  <2> QED
    BY <2>1, OneRequest
<1>8. CASE \/ RefuseEdit(r) \/ RefuseHandoff(r) \/ Move(r) \/ RefuseMove(r)
           \/ RegisterFailedClaim(r) \/ AnswerClaim(r)
           \/ \E code \in Code : RequestHandoff(r, code)
  BY <1>8, ReplySound
     DEF RefuseEdit, RequestHandoff, RefuseHandoff, Move, RefuseMove,
         RegisterFailedClaim, AnswerClaim
<1>9. CASE ExplainClaim(r)
  <2>1. ASSUME NEW c \in Matching(call.code),
               req' = [req EXCEPT ![r] =
                         Holding([call EXCEPT !.cart = c], session[c])]
        PROVE  RequestsAreSound'
    <3>1. call \in Call /\ c \in HandoffCart
      BY <1>9, InFlight DEF SafetyInv, ExplainClaim, Stage, Matching
    <3>2. [call EXCEPT !.cart = c].cart \in HandoffCart
      BY <3>1 DEF Call
    <3>3. RequestIsSound(Holding([call EXCEPT !.cart = c], session[c]))
      BY <3>2 DEF RequestIsSound, Holding, InStage
    <3> QED
      BY <2>1, <3>3, OneRequest
  <2> QED
    BY <1>9, <2>1, ReplySound DEF ExplainClaim
<1> QED
  BY <1>2, <1>3, <1>4, <1>5, <1>6, <1>7, <1>8, <1>9 DEF Step

LEMMA RequestStep ==
    ASSUME SafetyInv, [Next]_vars
    PROVE  RequestsAreSound'
<1>1. CASE req' = req
  BY <1>1 DEF SafetyInv, RequestsAreSound
<1>2. ASSUME NEW r \in Request, Arrive(r) \/ Step(r)
      PROVE  RequestsAreSound'
  BY <1>2, ArriveSound, StepSound
<1>3. CASE \/ \E c \in Cart : StartSession(c)
           \/ \E c \in Cart, s \in Seller : OpenPOSCart(c, s)
           \/ SweepStart \/ Sweep \/ Tick
  BY <1>1, <1>3 DEF StartSession, OpenPOSCart, SweepStart, Sweep, SweepRevert,
                    SweepTokens, SweepSessions, SweepTills, Tick
<1>4. CASE UNCHANGED vars
  BY <1>1, <1>4 DEF vars
<1> QED
  BY <1>2, <1>3, <1>4 DEF Next

-----------------------------------------------------------------------------
(* The theorems.                                                           *)

LEMMA SafetyInit == Init => SafetyInv
<1> SUFFICES ASSUME Init
             PROVE  SafetyInv
  OBVIOUS
<1>1. TypeOK
  BY TypeInit
<1>2. \A c \in Cart : /\ cart[c].state = "absent" /\ cart[c].seller = NoSeller
                     /\ sold[c] = 0 /\ told[c] = {}
  BY DEF Init, NoCartRow
<1>3. RequestsAreSound
  BY IdleSound DEF Init, RequestsAreSound
<1> QED
  BY <1>1, <1>2, <1>3
     DEF SafetyInv, RowsAreConsistent, ChargedOnce, SellerMatchesState,
         ChargeIsFinal, Exists, CartState

LEMMA SafetyStep == SafetyInv /\ [Next]_vars => SafetyInv'
<1> SUFFICES ASSUME SafetyInv, [Next]_vars
             PROVE  SafetyInv'
  OBVIOUS
<1>1. TypeOK'
  BY TypeStep DEF SafetyInv
<1>2. RowsAreConsistent' /\ ChargedOnce' /\ SellerMatchesState'
        /\ ChargeIsFinal'
  BY <1>1, StepMoves, MovesKeep
<1>3. RequestsAreSound'
  BY RequestStep
<1> QED
  BY <1>1, <1>2, <1>3 DEF SafetyInv

\* The inductive invariant holds in every reachable state.
THEOREM SafetyHolds == Spec => []SafetyInv
BY SafetyInit, SafetyStep, PTL DEF Spec

\* However requests, retries and sweeps interleave, a cart is charged at most
\* once, and is completed exactly when it was.
THEOREM ChargedAtMostOnce == Spec => []ChargedOnce
<1>1. SafetyInv => ChargedOnce
  BY DEF SafetyInv
<1> QED
  BY <1>1, SafetyHolds, PTL

\* seller_id always tells who may charge the cart.
THEOREM SellerAlwaysMatches == Spec => []SellerMatchesState
<1>1. SafetyInv => SellerMatchesState
  BY DEF SafetyInv
<1> QED
  BY <1>1, SafetyHolds, PTL

\* What a caller was told was charged stays charged.
THEOREM ChargeStands == Spec => []ChargeIsFinal
<1>1. SafetyInv => ChargeIsFinal
  BY DEF SafetyInv
<1> QED
  BY <1>1, SafetyHolds, PTL

LEMMA LifecycleInit == Init => Lifecycle!LCInit
BY DEF Init, NoCartRow, Lifecycle!LCInit, Lifecycle!Cart, Cart

\* A legal move of every row is a step of the lifecycle.
LEMMA LifecycleStep ==
    SafetyInv /\ [Next]_vars => [Lifecycle!LCNext]_(Lifecycle!LCvars)
<1> SUFFICES ASSUME SafetyInv, [Next]_vars
             PROVE  Lifecycle!LCNext
  OBVIOUS
<1>1. \A c \in Cart : Moved(c)
  BY StepMoves
<1>2. \A c, from, next :
         Lifecycle!CanTransitionTo(c, from, next)
           <=> CanTransitionTo(c, from, next)
  BY DEF Lifecycle!CanTransitionTo, CanTransitionTo, Lifecycle!cartTransitions,
         cartTransitions, Lifecycle!Kind, Kind
<1>3. ASSUME NEW c \in Cart
      PROVE  Lifecycle!Open(c) \/ Lifecycle!Claim(c) \/ Lifecycle!Release(c)
               \/ Lifecycle!Charge(c) \/ Lifecycle!Advance(c)
               \/ Lifecycle!Delete(c) \/ Lifecycle!Rest(c)
  <2>1. Opened(c) => Lifecycle!Open(c)
    BY DEF Opened, Lifecycle!Open
  <2>2. Claimed(c) => Lifecycle!Claim(c)
    BY DEF Claimed, Lifecycle!Claim
  <2>3. Released(c) => Lifecycle!Release(c)
    BY DEF Released, Lifecycle!Release
  <2>4. Charged(c) => Lifecycle!Charge(c)
    BY <1>2 DEF Charged, Lifecycle!Charge
  <2>5. Advanced(c) => Lifecycle!Advance(c)
    BY <1>2 DEF Advanced, Lifecycle!Advance
  <2>6. Deleted(c) => Lifecycle!Delete(c)
    BY DEF Deleted, Lifecycle!Delete, Lifecycle!CartState, CartState
  <2>7. Rested(c) => Lifecycle!Rest(c)
    BY DEF Rested, Lifecycle!Rest
  <2> QED
    BY <1>1, <2>1, <2>2, <2>3, <2>4, <2>5, <2>6, <2>7 DEF Moved
<1> QED
  BY <1>3 DEF Lifecycle!LCNext, Lifecycle!Cart, Cart

\* The handlers of all three surfaces and the janitor, with the stale reads
\* they act on, implement the promised lifecycle of every cart.
THEOREM Refinement == Spec => ImplementsLifecycle
BY LifecycleInit, LifecycleStep, SafetyHolds, PTL
   DEF Spec, ImplementsLifecycle, Lifecycle!LCSpec

-----------------------------------------------------------------------------
(* One request at a time.  What a request has read of its cart is then so  *)
(* when it writes: nobody else writes, the clock apart.                    *)

OneAtATime == /\ \A r, q \in Request : r = q
              /\ ~ SweepScheduled

\* What a request holds of its cart's row is the row.
SeenIsSo(q) ==
    LET c == q.call.cart op == q.call.op IN
    q.stage \in {"expire", "revert", "wipe", "attach", "serve"} =>
        /\ q.seen.state = cart[c].state /\ Exists(c)
        /\ q.stage = "revert" => q.seen.state = "ready"
        /\ q.stage = "wipe" => q.seen.state = "active"
        /\ op \in {"release", "drop"} => q.seen.seller = cart[c].seller

\* What a row says of what became of its cart.
RowIsWhole(c) ==
    /\ cart[c].state \notin {"completed", "deleted"} => shipped[c] = NoItems
    /\ cart[c].state = "completed" => shipped[c] = cart[c].items
    /\ c \in HandoffCart /\ cart[c].state \in {"ready", "claimed"} =>
          session[c].code # NoCode /\ session[c].expires # 0
    /\ "cancelled" \in told[c] => cart[c].state \in {"cancelled", "deleted"}

ReadsAndRows ==
    /\ \A r \in Request : SeenIsSo(req[r])
    /\ \A c \in Cart : RowIsWhole(c)

SerialInv == SafetyInv /\ sweep.step = 0 /\ ReadsAndRows

LEMMA SerialInit == Init => SerialInv
<1> SUFFICES ASSUME Init PROVE SerialInv
  OBVIOUS
<1>1. SafetyInv
  BY SafetyInit
<1>2. \A r \in Request : SeenIsSo(req[r])
  BY DEF Init, SeenIsSo, Idle
<1>3. \A c \in Cart : RowIsWhole(c)
  BY DEF Init, RowIsWhole, NoCartRow, NoSession
<1> QED  BY <1>1, <1>2, <1>3 DEF SerialInv, ReadsAndRows, Init

LEMMA IdleIsSo == SeenIsSo(Idle)
BY DEF SeenIsSo, Idle

\* The request is the only one.
LEMMA OnlyRequest ==
    ASSUME OneAtATime, TypeOK, NEW r \in Request, NEW q, req' = [req EXCEPT ![r] = q],
           SeenIsSo(q)'
    PROVE  \A s \in Request : SeenIsSo(req[s])'
<1>1. \A s \in Request : s = r
  BY DEF OneAtATime
<1>2. req'[r] = q
  BY DEF TypeOK
<1> QED  BY <1>1, <1>2 DEF SeenIsSo

LEMMA OnlyReply ==
    ASSUME OneAtATime, TypeOK, NEW r \in Request, Reply(r)
    PROVE  \A s \in Request : SeenIsSo(req[s])'
<1>1. SeenIsSo(Idle)'
  BY DEF SeenIsSo, Idle
<1> QED  BY <1>1, OnlyRequest DEF Reply

\* A load shows what is there.
LEMMA LoadedIsSo ==
    ASSUME NEW call, NEW row, NEW known, Exists(call.cart)
    PROVE  SeenIsSo(Loaded(call, row, known))
<1> DEFINE seen == See(call, row, known)
<1>1. /\ seen.state = cart[call.cart].state
      /\ call.op \in {"release", "drop"} => seen.seller = cart[call.cart].seller
  BY DEF See
<1>2. TokenLapsed(call.cart, row.expires) => cart[call.cart].state = "ready"
  BY DEF TokenLapsed
<1> HIDE DEF seen
<1>3. SeenIsSo(InStage("expire", call, seen))
  BY <1>1 DEF SeenIsSo, InStage
<1>4. TokenLapsed(call.cart, row.expires) => SeenIsSo(InStage("revert", call, seen))
  BY <1>1, <1>2 DEF SeenIsSo, InStage
<1>5. SeenIsSo(Settled(call, seen))
  BY <1>1 DEF SeenIsSo, InStage, Settled, Idle
<1> QED  BY <1>3, <1>4, <1>5 DEF Loaded, seen

\* A request that has yet to read, or that has read what the step leaves alone.
LEMMA UnreadIsSo ==
    ASSUME NEW q, q.stage \in {"idle", "load", "reload", "lookup"}
    PROVE  SeenIsSo(q)
BY DEF SeenIsSo

LEMMA HoldingIsSo ==
    ASSUME NEW call, NEW row PROVE SeenIsSo(Holding(call, row))
<1>1. Holding(call, row).stage = "reload"
  BY DEF Holding, InStage
<1> QED  BY <1>1, UnreadIsSo

\* A step that writes no cart; a token is wiped only where none is needed.
LEMMA RowsStay ==
    ASSUME SerialInv, UNCHANGED <<cart, shipped, told>>,
           \A c \in Cart : \/ /\ session'[c].code = session[c].code
                              /\ session'[c].expires = session[c].expires
                           \/ cart[c].state \notin {"ready", "claimed"}
    PROVE  \A c \in Cart : RowIsWhole(c)'
BY DEF RowIsWhole, SerialInv, ReadsAndRows

\* A step on the row of c; the others' stay.
LEMMA RowStep ==
    ASSUME SerialInv, NEW c \in Cart,
           \A d \in Cart \ {c} : /\ cart'[d] = cart[d]
                                 /\ session'[d].code = session[d].code
                                 /\ session'[d].expires = session[d].expires
                                 /\ shipped'[d] = shipped[d]
                                 /\ told'[d] = told[d],
           RowIsWhole(c)'
    PROVE  \A d \in Cart : RowIsWhole(d)'
BY DEF SerialInv, ReadsAndRows, RowIsWhole

-----------------------------------------------------------------------------

LEMMA OpeningSerial ==
    ASSUME OneAtATime, SerialInv, NEW c \in Cart,
           StartSession(c) \/ \E s \in Seller : OpenPOSCart(c, s)
    PROVE  ReadsAndRows'
<1>0. TypeOK /\ RowIsWhole(c)
  BY DEF SerialInv, SafetyInv, ReadsAndRows
<1>1. /\ cart[c].state = "absent"
      /\ UNCHANGED <<shipped, req, told>>
      /\ \A d \in Cart \ {c} : session'[d] = session[d] /\ cart'[d] = cart[d]
  BY <1>0 DEF StartSession, OpenPOSCart, TypeOK
<1>2. cart'[c].state = "active"
  <2>1. CASE StartSession(c)
    BY <1>0, <2>1 DEF StartSession, TypeOK, CartRow
  <2>2. ASSUME NEW s \in Seller, OpenPOSCart(c, s)
        PROVE  cart'[c].state = "active"
    <3>1. cart'[c] = [cart[c] EXCEPT !.state = "active", !.seller = s, !.touched = now]
      BY <1>0, <2>2 DEF OpenPOSCart, TypeOK
    <3>2. cart[c] \in CartRow
      BY <1>0 DEF TypeOK
    <3> QED  BY <3>1, <3>2 DEF CartRow
  <2> QED  BY <2>1, <2>2
<1>3. RowIsWhole(c)'
  BY <1>0, <1>1, <1>2 DEF RowIsWhole
<1>4. \A d \in Cart : RowIsWhole(d)'
  BY <1>1, <1>3, RowStep
<1>5. ASSUME NEW r \in Request
      PROVE  SeenIsSo(req[r])'
  <2>1. SeenIsSo(req[r]) /\ req'[r] = req[r]
    BY <1>1 DEF SerialInv, ReadsAndRows
  <2>2. req[r].stage \in Stage => req[r].call.cart \in Cart
    BY <1>0, InFlight
  <2> QED  BY <1>1, <2>1, <2>2 DEF SeenIsSo, Exists, CartState, Stage
<1> QED  BY <1>4, <1>5 DEF ReadsAndRows

LEMMA DeleteSerial ==
    ASSUME OneAtATime, SerialInv, NEW c \in Cart, NEW r \in Request,
           DeleteBySessionToken(r, c)
    PROVE  ReadsAndRows'
<1>0. TypeOK /\ RowIsWhole(c)
  BY DEF SerialInv, SafetyInv, ReadsAndRows
<1>1. /\ req[r] = Idle
      /\ UNCHANGED <<shipped, req, told>>
      /\ \A d \in Cart \ {c} : session'[d] = session[d] /\ cart'[d] = cart[d]
  BY <1>0 DEF DeleteBySessionToken, TypeOK
<1>2. cart'[c].state = "deleted"
  BY <1>0 DEF DeleteBySessionToken, TypeOK, NoCartRow
<1>3. RowIsWhole(c)'
  BY <1>2 DEF RowIsWhole
<1>4. \A d \in Cart : RowIsWhole(d)'
  BY <1>1, <1>3, RowStep
<1>5. \A q \in Request : req'[q] = Idle
  BY <1>1 DEF OneAtATime
<1> QED  BY <1>4, <1>5, UnreadIsSo DEF ReadsAndRows, SeenIsSo, Idle

\* The steps that only read, answer or count an attempt.
LEMMA ReadingSerial ==
    ASSUME OneAtATime, SerialInv, NEW r \in Request,
           \/ \E call \in CustomerCall : BeginBySession(r, call)
           \/ \E call \in SellerCall \cup TillCall : BeginById(r, call)
           \/ \E code \in Code : ClaimMissed(r, code)
           \/ LoadAgain(r) \/ ExplainClaim(r)
           \/ RefuseEdit(r) \/ RefuseHandoff(r) \/ RefuseMove(r)
           \/ RegisterFailedClaim(r) \/ AnswerClaim(r)
    PROVE  ReadsAndRows'
<1>0. TypeOK
  BY DEF SerialInv, SafetyInv
<1>1. UNCHANGED <<cart, shipped, told>>
  BY DEF BeginBySession, BeginById, ClaimMissed, LoadAgain, ExplainClaim, RefuseEdit,
         RefuseHandoff, RefuseMove, RegisterFailedClaim, AnswerClaim
<1>2. \A c \in Cart : /\ session'[c].code = session[c].code
                     /\ session'[c].expires = session[c].expires
  <2>1. CASE session' = session
    BY <2>1
  <2>2. CASE RegisterFailedClaim(r)
    BY <1>0, <2>2 DEF RegisterFailedClaim, TypeOK, SessionRow
  <2> QED  BY <2>1, <2>2 DEF BeginBySession, BeginById, ClaimMissed, LoadAgain, ExplainClaim,
                           RefuseEdit, RefuseHandoff, RefuseMove, AnswerClaim
<1>3. \A c \in Cart : RowIsWhole(c)'
  BY <1>1, <1>2, RowsStay
<1>4. ASSUME NEW q, SeenIsSo(q)
      PROVE  SeenIsSo(q)'
  BY <1>1, <1>4 DEF SeenIsSo, Exists
<1>5. \E q : req' = [req EXCEPT ![r] = q] /\ SeenIsSo(q)
  <2>1. CASE Reply(r)
    BY <2>1, IdleIsSo DEF Reply
  <2>2. ASSUME NEW call, req' = [req EXCEPT ![r] = Holding(call, session[call.cart])]
        PROVE  \E q : req' = [req EXCEPT ![r] = q] /\ SeenIsSo(q)
    BY <2>2, HoldingIsSo
  <2>3. ASSUME NEW call, NEW row, NEW known, Exists(call.cart),
               req' = [req EXCEPT ![r] = Loaded(call, row, known)]
        PROVE  \E q : req' = [req EXCEPT ![r] = q] /\ SeenIsSo(q)
    BY <2>3, LoadedIsSo
  <2>4. CASE \E code \in Code : ClaimMissed(r, code)
    <3>1. PICK code \in Code, c \in HandoffCart :
             req' = [req EXCEPT ![r] =
                       InStage("lookup",
                               [Calling("claim", c) EXCEPT !.code = code, !.at = now],
                               NothingSeen)]
      BY <2>4 DEF ClaimMissed
    <3>2. SeenIsSo(InStage("lookup",
                           [Calling("claim", c) EXCEPT !.code = code, !.at = now],
                           NothingSeen))
      BY UnreadIsSo DEF InStage
    <3> QED  BY <3>1, <3>2
  <2>5. CASE LoadAgain(r)
    BY <2>1, <2>3, <2>5 DEF LoadAgain
  <2>6. CASE ExplainClaim(r)
    <3>1. ASSUME NEW c \in Matching(req[r].call.code),
                 req' = [req EXCEPT ![r] = Holding([req[r].call EXCEPT !.cart = c], session[c])]
          PROVE  \E q : req' = [req EXCEPT ![r] = q] /\ SeenIsSo(q)
      BY <3>1, HoldingIsSo
    <3> QED  BY <2>1, <2>6, <3>1 DEF ExplainClaim
  <2> QED  BY <2>1, <2>2, <2>3, <2>4, <2>5, <2>6
           DEF BeginBySession, BeginById, RefuseEdit, RefuseHandoff, RefuseMove,
               RegisterFailedClaim, AnswerClaim
<1>6. \A q \in Request : SeenIsSo(req[q])'
  BY <1>0, <1>4, <1>5, OnlyRequest
<1> QED  BY <1>3, <1>6 DEF ReadsAndRows

\* What a request goes on with once its own write has set the state, or failed.
LEMMA GoOnSerial ==
    ASSUME OneAtATime, SerialInv, NEW r \in Request, NEW c, c = req[r].call.cart,
           req[r].stage \in {"expire", "revert", "wipe", "attach"}, NEW seen,
           Judged(r, seen)
             \/ \E stage \in {"wipe", "serve"} :
                   /\ GoOn(r, stage, seen)
                   /\ stage = "wipe" => seen.state = "active",
           seen.seller = req[r].seen.seller, seen.state = cart'[c].state,
           cart'[c].state \in CartState, cart'[c].seller = cart[c].seller
    PROVE  \A s \in Request : SeenIsSo(req[s])'
<1>1. PICK call : call = req[r].call
  OBVIOUS
<1>2. TypeOK /\ SeenIsSo(req[r])
  BY DEF SerialInv, SafetyInv, ReadsAndRows
<1>3. Exists(c)'
  BY DEF Exists
<1>4. call.op \in {"release", "drop"} => seen.seller = cart'[c].seller
  BY <1>1, <1>2 DEF SeenIsSo
<1>5. ASSUME NEW stage \in {"wipe", "attach", "serve"},
             stage = "wipe" => seen.state = "active"
      PROVE  SeenIsSo(InStage(stage, call, seen))'
  <2>1. /\ InStage(stage, call, seen).stage = stage
        /\ InStage(stage, call, seen).call = call
        /\ InStage(stage, call, seen).seen = seen
    BY DEF InStage
  <2> QED  BY <1>1, <1>3, <1>4, <1>5, <2>1 DEF SeenIsSo
<1>6. SeenIsSo(Idle)'
  BY DEF SeenIsSo, Idle
<1>7. SeenIsSo(Settled(call, seen))'
  BY <1>5, <1>6 DEF Settled
<1>8. CASE Judged(r, seen)
  <2>1. req' = [req EXCEPT ![r] = Settled(call, seen)]
    BY <1>1, <1>2, <1>8 DEF Judged, TypeOK
  <2> QED  BY <1>2, <1>7, <2>1, OnlyRequest
<1>9. ASSUME NEW stage \in {"wipe", "serve"}, GoOn(r, stage, seen),
             stage = "wipe" => seen.state = "active"
      PROVE  \A s \in Request : SeenIsSo(req[s])'
  <2>1. req' = [req EXCEPT ![r] = InStage(stage, call, seen)]
    BY <1>1, <1>2, <1>9 DEF GoOn, TypeOK
  <2> QED  BY <1>2, <1>5, <1>9, <2>1, OnlyRequest
<1> QED  BY <1>8, <1>9

LEMMA ExpirySerial ==
    ASSUME OneAtATime, SerialInv, NEW r \in Request,
           ExpireOnRead(r) \/ RevertOnRead(r) \/ WipeToken(r) \/ AttachItems(r)
    PROVE  ReadsAndRows'
<1> DEFINE seen == req[r].seen
<1>0. TypeOK
  BY DEF SerialInv, SafetyInv
<1>1. PICK c : c = req[r].call.cart
  OBVIOUS
<1>2. /\ req[r].stage \in Stage
      /\ req[r].stage \in {"expire", "revert", "wipe", "attach"}
  BY DEF ExpireOnRead, RevertOnRead, WipeToken, AttachItems, Stage
<1>3. /\ c \in Cart /\ cart[c] \in CartRow /\ seen \in Seen
      /\ SeenIsSo(req[r]) /\ RowIsWhole(c)
  BY <1>0, <1>1, <1>2, InFlight DEF TypeOK, SerialInv, ReadsAndRows
<1>4. seen.state = cart[c].state /\ cart[c].state \in CartState
  BY <1>1, <1>2, <1>3 DEF SeenIsSo, Exists
<1>5. \A state \in CartState :
         /\ [seen EXCEPT !.state = state].state = state
         /\ [seen EXCEPT !.state = state].seller = seen.seller
  BY <1>3 DEF Seen
<1>6. ASSUME ExpireOnRead(r), cart' = Transition(c, seen.state, "expired"),
             Judged(r, [seen EXCEPT !.state = "expired"])
      PROVE  ReadsAndRows'
  <2>1. cart' = [cart EXCEPT ![c].state = "expired"]
    BY <1>4, <1>6 DEF Transition
  <2>2. /\ cart'[c].state = "expired" /\ cart'[c].items = cart[c].items
        /\ cart'[c].seller = cart[c].seller
        /\ \A d \in Cart \ {c} : cart'[d] = cart[d]
    BY <1>0, <1>3, <2>1 DEF TypeOK, CartRow
  <2>3. CanTransitionTo(c, cart[c].state, "expired")
    BY <1>1, <1>4, <1>6 DEF ExpireOnRead, SerialInv, SafetyInv, RequestsAreSound,
                            RequestIsSound
  <2>4. cart[c].state \in {"active", "ready"}
    BY <2>3 DEF CanTransitionTo, cartTransitions, Kind
  <2>5. RowIsWhole(c)'
    BY <1>3, <1>6, <2>2, <2>4 DEF RowIsWhole, ExpireOnRead
  <2>6. \A d \in Cart : RowIsWhole(d)'
    BY <1>3, <1>6, <2>2, <2>5, RowStep DEF ExpireOnRead
  <2>7. \A s \in Request : SeenIsSo(req[s])'
    <3>1. "expired" \in CartState
      BY DEF CartState
    <3>2. PICK held : held = [seen EXCEPT !.state = "expired"]
      OBVIOUS
    <3>3. held.state = "expired" /\ held.seller = seen.seller
      BY <1>5, <3>1, <3>2
    <3>4. Judged(r, held)
      BY <1>6, <3>2
    <3> QED  BY <1>1, <1>2, <2>2, <3>1, <3>3, <3>4, GoOnSerial
  <2> QED  BY <2>6, <2>7 DEF ReadsAndRows
<1>7. ASSUME RevertOnRead(r), cart' = Transition(c, "ready", "active"),
             GoOn(r, "wipe", [seen EXCEPT !.state = "active"])
      PROVE  ReadsAndRows'
  <2>0. cart[c].state = "ready"
    BY <1>1, <1>3, <1>4, <1>7 DEF RevertOnRead, SeenIsSo
  <2>1. cart' = [cart EXCEPT ![c].state = "active"]
    BY <1>7, <2>0 DEF Transition
  <2>2. /\ cart'[c].state = "active" /\ cart'[c].items = cart[c].items
        /\ cart'[c].seller = cart[c].seller
        /\ \A d \in Cart \ {c} : cart'[d] = cart[d]
    BY <1>0, <1>3, <2>1 DEF TypeOK, CartRow
  <2>3. RowIsWhole(c)'
    BY <1>3, <1>7, <2>0, <2>2 DEF RowIsWhole, RevertOnRead
  <2>4. \A d \in Cart : RowIsWhole(d)'
    BY <1>3, <1>7, <2>2, <2>3, RowStep DEF RevertOnRead
  <2>5. \A s \in Request : SeenIsSo(req[s])'
    <3>1. "active" \in CartState
      BY DEF CartState
    <3>2. PICK held : held = [seen EXCEPT !.state = "active"]
      OBVIOUS
    <3>3. held.state = "active" /\ held.seller = seen.seller
      BY <1>5, <3>1, <3>2
    <3>4. GoOn(r, "wipe", held)
      BY <1>7, <3>2
    <3> QED  BY <1>1, <1>2, <2>2, <3>1, <3>3, <3>4, GoOnSerial
  <2> QED  BY <2>4, <2>5 DEF ReadsAndRows
<1>8. ASSUME WipeToken(r)
      PROVE  ReadsAndRows'
  <2>1. cart[c].state = "active"
    BY <1>1, <1>3, <1>4, <1>8 DEF WipeToken, SeenIsSo
  <2>2. /\ UNCHANGED <<cart, shipped, told>>
        /\ \/ session' = [session EXCEPT ![c].code = NoCode, ![c].expires = 0]
           \/ session' = session
    BY <1>1, <1>8 DEF WipeToken
  <2>3. \A d \in Cart : d # c => session'[d] = session[d]
    BY <1>0, <2>2 DEF TypeOK
  <2>4. \A d \in Cart : RowIsWhole(d)'
    BY <2>1, <2>2, <2>3, RowsStay
  <2>5. \A s \in Request : SeenIsSo(req[s])'
    <3>1. /\ [seen EXCEPT !.expires = 0].state = seen.state
          /\ [seen EXCEPT !.expires = 0].seller = seen.seller
      BY <1>3 DEF Seen
    <3>2. Judged(r, [seen EXCEPT !.expires = 0])
      BY <1>8 DEF WipeToken
    <3> QED  BY <1>1, <1>2, <1>4, <2>2, <3>1, <3>2, GoOnSerial
  <2> QED  BY <2>4, <2>5 DEF ReadsAndRows
<1>9. ASSUME UNCHANGED <<cart, session, shipped, told>>, Judged(r, seen)
      PROVE  ReadsAndRows'
  <2>1. \A s \in Request : SeenIsSo(req[s])'
    BY <1>1, <1>2, <1>4, <1>9, GoOnSerial
  <2> QED  BY <1>9, <2>1, RowsStay DEF ReadsAndRows
<1>10. ASSUME AttachItems(r)
       PROVE  ReadsAndRows'
  <2>1. PICK items : GoOn(r, "serve", [seen EXCEPT !.items = items])
    BY <1>10 DEF AttachItems
  <2>2. /\ [seen EXCEPT !.items = items].state = seen.state
        /\ [seen EXCEPT !.items = items].seller = seen.seller
    BY <1>3 DEF Seen
  <2>3. UNCHANGED <<cart, session, shipped, told>>
    BY <1>10 DEF AttachItems
  <2>4. \A s \in Request : SeenIsSo(req[s])'
    BY <1>1, <1>2, <1>4, <2>1, <2>2, <2>3, GoOnSerial
  <2> QED  BY <2>3, <2>4, RowsStay DEF ReadsAndRows
<1>11. CASE ExpireOnRead(r)
  BY <1>1, <1>6, <1>9, <1>11 DEF ExpireOnRead
<1>12. CASE RevertOnRead(r)
  BY <1>1, <1>7, <1>9, <1>12 DEF RevertOnRead
<1> QED  BY <1>8, <1>10, <1>11, <1>12

\* An edit is of a cart that still takes edits, and of the lines it has.
LEMMA SaveSerial ==
    ASSUME OneAtATime, SerialInv, NEW r \in Request, SaveItems(r)
    PROVE  /\ ReadsAndRows'
           /\ \A c \in Cart : cart[c].state = "claimed" => cart'[c] = cart[c]
<1>0. TypeOK
  BY DEF SerialInv, SafetyInv
<1>1. PICK c : c = req[r].call.cart
  OBVIOUS
<1>2. /\ req[r].stage = "serve" /\ req[r].stage \in Stage
      /\ AllowsEdit(c, req[r].seen.state)
  BY <1>1 DEF SaveItems, Serving, Stage, EditAdmitted
<1>3. c \in Cart /\ SeenIsSo(req[r]) /\ RowIsWhole(c) /\ cart[c] \in CartRow
  BY <1>0, <1>1, <1>2, InFlight DEF TypeOK, SerialInv, ReadsAndRows
<1>4. cart[c].state \in {"active", "ready"} /\ Exists(c)
  BY <1>1, <1>2, <1>3 DEF SeenIsSo, AllowsEdit
<1>5. cart' = [cart EXCEPT ![c].items = Edited(req[r].call, req[r].seen.items),
                           ![c].touched = IF c \in PosCart THEN now ELSE @]
  BY <1>1, <1>4 DEF SaveItems
<1>6. cart'[c].state = cart[c].state /\ \A d \in Cart \ {c} : cart'[d] = cart[d]
  BY <1>0, <1>3, <1>5 DEF TypeOK, CartRow
<1>7. RowIsWhole(c)'
  BY <1>3, <1>4, <1>6 DEF RowIsWhole, SaveItems
<1>8. \A d \in Cart : RowIsWhole(d)'
  BY <1>3, <1>6, <1>7, RowStep DEF SaveItems
<1>9. \A s \in Request : SeenIsSo(req[s])'
  <2>1. req'[r] \in {Holding(Calling("view", c), req[r].seen),
                    InStage("load", Calling("view", c), NothingSeen)}
    BY <1>0, <1>1 DEF SaveItems, TypeOK
  <2>2. req'[r].stage \in {"load", "reload"}
    BY <2>1 DEF Holding, InStage
  <2>3. \A s \in Request : req'[s].stage \in {"load", "reload"}
    BY <2>2 DEF OneAtATime
  <2> QED  BY <2>3 DEF SeenIsSo
<1> QED  BY <1>4, <1>6, <1>8, <1>9 DEF ReadsAndRows

LEMMA HandoffSerial ==
    ASSUME OneAtATime, SerialInv, NEW r \in Request, NEW code \in Code,
           RequestHandoff(r, code)
    PROVE  /\ ReadsAndRows'
           /\ \A c \in Cart : cart[c].state = "claimed" => cart'[c] = cart[c]
<1>0. TypeOK
  BY DEF SerialInv, SafetyInv
<1>1. PICK c : c = req[r].call.cart
  OBVIOUS
<1>2. /\ req[r].stage \in Stage
      /\ cart[c].state \in {"active", "ready"}
      /\ cart' = [cart EXCEPT ![c].state = "ready"]
      /\ session' = [session EXCEPT ![c] =
                      [@ EXCEPT !.code = code, !.expires = now + handoffTTL,
                                !.attempts = 0, !.lockedUntil = 0]]
      /\ UNCHANGED <<shipped, told>>
  BY <1>1 DEF RequestHandoff, Serving, Stage, MintAdmitted
<1>3. c \in Cart /\ RowIsWhole(c) /\ cart[c] \in CartRow
  BY <1>0, <1>1, <1>2, InFlight DEF TypeOK, SerialInv, ReadsAndRows
<1>4. /\ cart'[c].state = "ready" /\ cart'[c].items = cart[c].items
      /\ \A d \in Cart \ {c} : cart'[d] = cart[d] /\ session'[d] = session[d]
  BY <1>0, <1>2, <1>3 DEF TypeOK, CartRow
<1>5. session'[c].code = code /\ code # NoCode /\ session'[c].expires # 0
  <2>1. now + handoffTTL # 0
    BY <1>0, SaleCartAssumption DEF TypeOK
  <2> QED  BY <1>0, <1>2, <1>3, <2>1, SaleCartAssumption DEF TypeOK, SessionRow
<1>6. RowIsWhole(c)'
  BY <1>2, <1>3, <1>4, <1>5 DEF RowIsWhole
<1>7. \A d \in Cart : RowIsWhole(d)'
  BY <1>2, <1>3, <1>4, <1>6, RowStep
<1>8. \A s \in Request : SeenIsSo(req[s])'
  BY <1>0, OnlyReply DEF RequestHandoff
<1> QED  BY <1>2, <1>4, <1>7, <1>8 DEF ReadsAndRows

\* The move applies to the state that was read, for the seller that was read.
LEMMA MoveSerial ==
    ASSUME OneAtATime, SerialInv, NEW r \in Request, Move(r)
    PROVE  /\ ReadsAndRows'
           /\ \A c \in Cart :
                 cart[c].state = "claimed" /\ cart'[c] # cart[c] =>
                     /\ c = req[r].call.cart
                     /\ cart'[c].state \in {"ready", "cancelled"}
                     /\ cart'[c].state = "ready" =>
                           Serving(r, "release") /\ req[r].call.seller = cart[c].seller
<1>0. TypeOK
  BY DEF SerialInv, SafetyInv
<1>1. PICK c, op, target : c = req[r].call.cart /\ op = req[r].call.op /\ target = Target(op)
  OBVIOUS
<1>2. /\ req[r].stage = "serve" /\ req[r].stage \in Stage
      /\ op \in {"cancel", "release", "drop"}
      /\ op # "cancel" => /\ req[r].seen.seller # NoSeller
                           /\ req[r].seen.seller = req[r].call.seller
      /\ CanTransitionTo(c, req[r].seen.state, target)
  BY <1>1 DEF Move, Serving, Stage, MoveAdmitted
<1>3. c \in Cart /\ SeenIsSo(req[r]) /\ RowIsWhole(c) /\ cart[c] \in CartRow
  BY <1>0, <1>1, <1>2, InFlight DEF TypeOK, SerialInv, ReadsAndRows
<1>4. req[r].seen.state = cart[c].state
  BY <1>1, <1>2, <1>3 DEF SeenIsSo
<1>5. op = "release" => req[r].seen.seller = cart[c].seller
  BY <1>1, <1>2, <1>3 DEF SeenIsSo
<1>6. cart' = [cart EXCEPT ![c].state = target,
                           ![c].seller = IF op = "release" THEN NoSeller ELSE @]
      /\ told' = [told EXCEPT ![c] = IF op = "release" THEN @ ELSE @ \cup {"cancelled"}]
      /\ UNCHANGED <<session, shipped>>
  BY <1>1, <1>4 DEF Move
<1>7. /\ cart'[c].state = target /\ cart'[c].items = cart[c].items
      /\ \A d \in Cart \ {c} : cart'[d] = cart[d] /\ told'[d] = told[d]
      /\ told'[c] = IF op = "release" THEN told[c] ELSE told[c] \cup {"cancelled"}
  BY <1>0, <1>3, <1>6 DEF TypeOK, CartRow
<1>8. target = IF op = "release" THEN "ready" ELSE "cancelled"
  BY <1>1 DEF Target
<1>9. cart[c].state \in {"active", "ready", "claimed"} /\ (op = "release" => cart[c].state = "claimed")
  <2>1. CanTransitionTo(c, cart[c].state, target)
    BY <1>2, <1>4
  <2>2. CASE op = "release"
    <3>1. CanTransitionTo(c, cart[c].state, "ready") /\ c \in Cart
      BY <1>3, <1>8, <2>1, <2>2
    <3>2. c \in HandoffCart /\ cart[c].state \in {"active", "claimed"}
      BY <3>1 DEF CanTransitionTo, cartTransitions, Kind
    <3>3. cart[c].seller # NoSeller
      BY <1>2, <1>5, <2>2
    <3>4. cart[c].state # "active"
      BY <1>3, <3>2, <3>3 DEF SerialInv, SafetyInv, SellerMatchesState
    <3> QED  BY <2>2, <3>2, <3>4
  <2>3. CASE op # "release"
    <3>1. CanTransitionTo(c, cart[c].state, "cancelled")
      BY <1>8, <2>1, <2>3
    <3> QED  BY <2>3, <3>1 DEF CanTransitionTo, cartTransitions, Kind
  <2> QED  BY <2>2, <2>3
<1>10. RowIsWhole(c)'
  BY <1>3, <1>6, <1>7, <1>8, <1>9 DEF RowIsWhole
<1>11. \A d \in Cart : RowIsWhole(d)'
  BY <1>3, <1>6, <1>7, <1>10, RowStep
<1>12. \A s \in Request : SeenIsSo(req[s])'
  BY <1>0, OnlyReply DEF Move
<1> QED  BY <1>1, <1>2, <1>5, <1>7, <1>8, <1>11, <1>12 DEF ReadsAndRows, Serving

LEMMA ClaimSerial ==
    ASSUME OneAtATime, SerialInv, NEW r \in Request, NEW s \in Seller, NEW code \in Code,
           ClaimByToken(r, s, code)
    PROVE  /\ ReadsAndRows'
           /\ \A c \in Cart : cart[c].state = "claimed" => cart'[c] = cart[c]
<1>0. TypeOK
  BY DEF SerialInv, SafetyInv
<1>1. PICK c \in Claimable(code) :
         /\ cart' = [d \in Cart |->
                       IF d \in Claimable(code)
                       THEN [cart[d] EXCEPT !.state = "claimed", !.seller = s]
                       ELSE cart[d]]
         /\ session' = [session EXCEPT ![c] =
                           [@ EXCEPT !.claimed = TRUE, !.attempts = 0, !.lockedUntil = 0]]
         /\ req' = [req EXCEPT ![r] =
                       InStage("load", Calling("view", c), NothingSeen)]
         /\ UNCHANGED <<shipped, told>>
  BY DEF ClaimByToken
<1>2. \A d \in Cart : /\ session'[d].code = session[d].code
                     /\ session'[d].expires = session[d].expires
  BY <1>0, <1>1 DEF TypeOK, SessionRow
<1>3. ASSUME NEW d \in Cart
      PROVE  /\ RowIsWhole(d)'
             /\ cart[d].state = "claimed" => cart'[d] = cart[d]
  <2>1. RowIsWhole(d) /\ cart[d] \in CartRow
    BY <1>0 DEF SerialInv, ReadsAndRows, TypeOK
  <2>2. CASE d \notin Claimable(code)
    BY <1>1, <1>2, <2>1, <2>2 DEF RowIsWhole
  <2>3. CASE d \in Claimable(code)
    <3>1. cart[d].state = "ready"
      BY <2>3 DEF Claimable
    <3>2. cart'[d] = [cart[d] EXCEPT !.state = "claimed", !.seller = s]
      BY <1>1, <2>3
    <3>3. cart'[d].state = "claimed" /\ cart'[d].items = cart[d].items
      BY <2>1, <3>2 DEF CartRow
    <3> QED  BY <1>1, <1>2, <2>1, <3>1, <3>3 DEF RowIsWhole
  <2> QED  BY <2>2, <2>3
<1>4. \A q \in Request : SeenIsSo(req[q])'
  <2>1. req'[r].stage = "load"
    BY <1>0, <1>1 DEF TypeOK, InStage
  <2>2. \A q \in Request : req'[q].stage = "load"
    BY <2>1 DEF OneAtATime
  <2> QED  BY <2>2 DEF SeenIsSo
<1> QED  BY <1>3, <1>4 DEF ReadsAndRows

LEMMA CheckoutSerial ==
    ASSUME OneAtATime, SerialInv, NEW r \in Request, NEW c \in Cart, NEW s \in Seller,
           NEW key \in Key, Checkout(r, c, s, key)
    PROVE  /\ ReadsAndRows'
           /\ \A d \in Cart : /\ cart'[d].items = cart[d].items
                              /\ cart'[d] = cart[d] \/ cart'[d].state = "completed"
<1>0. TypeOK /\ RowIsWhole(c) /\ cart[c] \in CartRow
  BY DEF SerialInv, SafetyInv, ReadsAndRows, TypeOK
<1>1. /\ req[r] = Idle
      /\ cart[c].state \in {"claimed", "active"}
      /\ shipped' = [shipped EXCEPT ![c] = [p \in Product |-> @[p] + cart[c].items[p]]]
      /\ cart' = [cart EXCEPT ![c].state = "completed", ![c].key = key]
      /\ told' = [told EXCEPT ![c] = @ \cup {"charged"}]
      /\ UNCHANGED <<session, req>>
  BY DEF Checkout, CheckoutAuthorized
<1>2. /\ cart'[c].state = "completed" /\ cart'[c].items = cart[c].items
      /\ told'[c] = told[c] \cup {"charged"}
      /\ \A d \in Cart \ {c} : /\ cart'[d] = cart[d] /\ told'[d] = told[d]
                               /\ shipped'[d] = shipped[d]
  BY <1>0, <1>1 DEF TypeOK, CartRow
<1>3. shipped[c] = NoItems /\ "cancelled" \notin told[c]
  BY <1>0, <1>1 DEF RowIsWhole
<1>4. shipped'[c] = cart[c].items
  <2>1. shipped'[c] = [p \in Product |-> shipped[c][p] + cart[c].items[p]]
    BY <1>0, <1>1 DEF TypeOK
  <2>2. cart[c].items \in [Product -> Nat]
    BY <1>0 DEF CartRow, Items
  <2>3. \A p \in Product : shipped[c][p] + cart[c].items[p] = cart[c].items[p]
    BY <1>3, <2>2 DEF NoItems
  <2> QED  BY <2>1, <2>2, <2>3
<1>5. RowIsWhole(c)'
  BY <1>2, <1>3, <1>4 DEF RowIsWhole
<1>6. \A d \in Cart : RowIsWhole(d)'
  BY <1>1, <1>2, <1>5, RowStep
<1>7. \A q \in Request : req'[q] = Idle
  BY <1>1 DEF OneAtATime
<1> QED  BY <1>2, <1>6, <1>7 DEF ReadsAndRows, SeenIsSo, Idle

\* The clock, and the janitor that nothing calls.
LEMMA QuietSerial ==
    ASSUME OneAtATime, SerialInv, Tick \/ SweepStart \/ Sweep \/ UNCHANGED vars
    PROVE  /\ ReadsAndRows' /\ sweep' = sweep
           /\ cart' = cart
<1>1. Tick \/ UNCHANGED vars
  BY DEF OneAtATime, SerialInv, SweepStart, Sweep, SweepRevert, SweepTokens, SweepSessions,
         SweepTills
<1>2. UNCHANGED <<cart, session, shipped, req, told, sweep>>
  BY <1>1 DEF Tick, vars
<1> QED  BY <1>2 DEF SerialInv, ReadsAndRows, SeenIsSo, RowIsWhole, Exists

\* One step.  A claimed cart's row is written by its charge, its deletion or its
\* holder's release or cancellation only.
LEMMA SerialStep ==
    ASSUME OneAtATime, SerialInv, [Next]_vars
    PROVE  /\ SerialInv'
           /\ \A c \in HandoffCart :
                 cart[c].state = "claimed" /\ cart'[c].state = "claimed"
                     => cart'[c].items = cart[c].items
           /\ \A c \in HandoffCart :
                 cart[c].state = "claimed" /\ cart'[c].state = "ready"
                     => \E r \in Request : /\ Serving(r, "release")
                                           /\ req[r].call.cart = c
                                           /\ req[r].call.seller = cart[c].seller
<1>0. SafetyInv' /\ TypeOK
  BY SafetyStep DEF SerialInv, SafetyInv
<1> DEFINE Frozen == \A c \in Cart :
              cart[c].state = "claimed" /\ cart'[c].state = "claimed"
                  => cart'[c].items = cart[c].items
           HolderOnly == \A c \in Cart :
              cart[c].state = "claimed" /\ cart'[c].state = "ready"
                  => \E r \in Request : /\ Serving(r, "release")
                                        /\ req[r].call.cart = c
                                        /\ req[r].call.seller = cart[c].seller
<1>1. ASSUME NEW c \in Cart, StartSession(c) \/ \E s \in Seller : OpenPOSCart(c, s)
      PROVE  ReadsAndRows' /\ sweep' = sweep /\ Frozen /\ HolderOnly
  <2>1. \A d \in Cart : cart[d].state = "claimed" => cart'[d] = cart[d]
    BY <1>0, <1>1 DEF StartSession, OpenPOSCart, TypeOK
  <2> QED  BY <1>1, <2>1, OpeningSerial DEF StartSession, OpenPOSCart
<1>2. ASSUME NEW r \in Request, NEW c \in Cart, DeleteBySessionToken(r, c)
      PROVE  ReadsAndRows' /\ sweep' = sweep /\ Frozen /\ HolderOnly
  <2>1. cart'[c].state = "deleted" /\ \A d \in Cart \ {c} : cart'[d] = cart[d]
    BY <1>0, <1>2 DEF DeleteBySessionToken, TypeOK, NoCartRow
  <2> QED  BY <1>2, <2>1, DeleteSerial DEF DeleteBySessionToken
<1>3. ASSUME NEW r \in Request,
             \/ \E call \in CustomerCall : BeginBySession(r, call)
             \/ \E call \in SellerCall \cup TillCall : BeginById(r, call)
             \/ \E code \in Code : ClaimMissed(r, code)
             \/ LoadAgain(r) \/ ExplainClaim(r)
             \/ RefuseEdit(r) \/ RefuseHandoff(r) \/ RefuseMove(r)
             \/ RegisterFailedClaim(r) \/ AnswerClaim(r)
      PROVE  ReadsAndRows' /\ sweep' = sweep /\ Frozen /\ HolderOnly
  <2>1. UNCHANGED <<cart, sweep>>
    BY <1>3 DEF BeginBySession, BeginById, ClaimMissed, LoadAgain, ExplainClaim, RefuseEdit,
                RefuseHandoff, RefuseMove, RegisterFailedClaim, AnswerClaim
  <2> QED  BY <1>3, <2>1, ReadingSerial
<1>4. ASSUME NEW r \in Request,
             ExpireOnRead(r) \/ RevertOnRead(r) \/ WipeToken(r) \/ AttachItems(r)
      PROVE  ReadsAndRows' /\ sweep' = sweep /\ Frozen /\ HolderOnly
  <2>0. req[r].stage \in Stage
    BY <1>4 DEF ExpireOnRead, RevertOnRead, WipeToken, AttachItems, Stage
  <2>1. PICK c \in Cart : c = req[r].call.cart
    BY <1>0, <2>0, InFlight
  <2>2. \/ cart' = cart
        \/ cart[c].state = "ready" /\ cart' = [cart EXCEPT ![c].state = "active"]
        \/ cart' = [cart EXCEPT ![c].state = "expired"]
    BY <1>4, <2>1 DEF ExpireOnRead, RevertOnRead, WipeToken, AttachItems, Transition
  <2>3. \A d \in Cart : cart'[d].items = cart[d].items
                        /\ (cart'[d].state = "ready" => cart[d].state = "ready")
    BY <1>0, <2>2 DEF TypeOK, CartRow
  <2> QED  BY <1>4, <2>3, ExpirySerial
           DEF ExpireOnRead, RevertOnRead, WipeToken, AttachItems
<1>5. ASSUME NEW r \in Request, SaveItems(r)
      PROVE  ReadsAndRows' /\ sweep' = sweep /\ Frozen /\ HolderOnly
  BY <1>5, SaveSerial DEF SaveItems
<1>6. ASSUME NEW r \in Request, NEW code \in Code, RequestHandoff(r, code)
      PROVE  ReadsAndRows' /\ sweep' = sweep /\ Frozen /\ HolderOnly
  BY <1>6, HandoffSerial DEF RequestHandoff
<1>7. ASSUME NEW r \in Request, Move(r)
      PROVE  ReadsAndRows' /\ sweep' = sweep /\ Frozen /\ HolderOnly
  <2>1. /\ ReadsAndRows'
        /\ \A c \in Cart :
              cart[c].state = "claimed" /\ cart'[c] # cart[c] =>
                  /\ c = req[r].call.cart
                  /\ cart'[c].state \in {"ready", "cancelled"}
                  /\ cart'[c].state = "ready" =>
                        Serving(r, "release") /\ req[r].call.seller = cart[c].seller
    BY <1>7, MoveSerial
  <2> QED  BY <1>7, <2>1 DEF Move
<1>8. ASSUME NEW r \in Request, NEW s \in Seller, NEW code \in Code, ClaimByToken(r, s, code)
      PROVE  ReadsAndRows' /\ sweep' = sweep /\ Frozen /\ HolderOnly
  <2>1. sweep' = sweep
    BY <1>8 DEF ClaimByToken
  <2>2. /\ ReadsAndRows'
        /\ \A c \in Cart : cart[c].state = "claimed" => cart'[c] = cart[c]
    BY <1>8, ClaimSerial
  <2>3. \A c \in Cart : cart[c].state = "claimed" => cart'[c].state # "ready"
    BY <2>2
  <2> QED  BY <2>1, <2>2, <2>3
<1>9. ASSUME NEW r \in Request, NEW c \in Cart, NEW s \in Seller, NEW key \in Key,
             Checkout(r, c, s, key)
      PROVE  ReadsAndRows' /\ sweep' = sweep /\ Frozen /\ HolderOnly
  BY <1>9, CheckoutSerial DEF Checkout
<1>10. ASSUME Tick \/ SweepStart \/ Sweep \/ UNCHANGED vars
       PROVE  ReadsAndRows' /\ sweep' = sweep /\ Frozen /\ HolderOnly
  BY <1>10, QuietSerial
<1>11. ReadsAndRows' /\ sweep' = sweep /\ Frozen /\ HolderOnly
  <2> HIDE DEF Frozen, HolderOnly
  <2>1. ASSUME NEW r \in Request, Arrive(r) \/ Step(r)
        PROVE  ReadsAndRows' /\ sweep' = sweep /\ Frozen /\ HolderOnly
    BY <1>2, <1>3, <1>4, <1>5, <1>6, <1>7, <1>8, <1>9, <2>1 DEF Arrive, Step
  <2> QED  BY <1>1, <1>10, <2>1 DEF Next
<1>12. HandoffCart \subseteq Cart
  BY DEF Cart
<1> QED  BY <1>0, <1>11, <1>12 DEF SerialInv

\* The invariant of the requests that come one at a time.
LEMMA SerialHolds ==
    ASSUME OneAtATime PROVE Spec => []SerialInv
<1>1. SerialInv /\ [Next]_vars => SerialInv'
  BY SerialStep
<1> QED  BY <1>1, SerialInit, PTL DEF Spec

\* While one request is served at a time and nothing schedules the janitor, for any
\* carts, sellers, tokens, products and clock: a completed cart's lines are what was
\* sold (Checkout, saveItems).
THEOREM SoldIsShipped == ASSUME OneAtATime PROVE Spec => []ItemsAreWhatWasSold
<1>1. SerialInv => ItemsAreWhatWasSold
  BY DEF SerialInv, ReadsAndRows, RowIsWhole, ItemsAreWhatWasSold
<1> QED  BY <1>1, SerialHolds, PTL

\* A cart that waits for a seller has a token and the token an expiry, so that it can
\* be claimed, and lapses when it is not (RequestHandoff, ReleaseClaim and the lazy
\* revert, whose two writes may each fail).
THEOREM ReadyIsClaimable == ASSUME OneAtATime PROVE Spec => []ReadyHasToken
<1>1. SerialInv => ReadyHasToken
  BY DEF SerialInv, ReadsAndRows, RowIsWhole, ReadyHasToken, Cart
<1> QED  BY <1>1, SerialHolds, PTL

\* Who was told that a cart was cancelled finds it so (transition() reports success
\* whether or not its update applied).
THEOREM CancelStands == ASSUME OneAtATime PROVE Spec => []CancelIsFinal
<1>1. SerialInv => CancelIsFinal
  BY DEF SerialInv, ReadsAndRows, RowIsWhole, CancelIsFinal
<1> QED  BY <1>1, SerialHolds, PTL

\* A claimed cart's lines do not change (AllowsEdit).
THEOREM ClaimFreezes == ASSUME OneAtATime PROVE Spec => FrozenOnceClaimed
<1>1. SerialInv /\ [Next]_vars =>
         [\A c \in HandoffCart :
             cart[c].state = "claimed" /\ cart'[c].state = "claimed"
                 => cart'[c].items = cart[c].items]_vars
  BY SerialStep
<1> QED  BY <1>1, SerialHolds, PTL DEF Spec, FrozenOnceClaimed

\* Only the seller who holds a claim puts its cart back in the queue (sellerTerminate).
THEOREM HolderReleases == ASSUME OneAtATime PROVE Spec => ReleasedByHolder
<1>1. SerialInv /\ [Next]_vars =>
         [\A c \in HandoffCart :
             cart[c].state = "claimed" /\ cart'[c].state = "ready"
                 => \E r \in Request : /\ Serving(r, "release")
                                       /\ req[r].call.cart = c
                                       /\ req[r].call.seller = cart[c].seller]_vars
  BY SerialStep
<1> QED  BY <1>1, SerialHolds, PTL DEF Spec, ReleasedByHolder
=============================================================================
