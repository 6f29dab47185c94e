----------------------------- MODULE ShopProofs -----------------------------
(***************************************************************************)
(* What the rows of the customers' side say of one another, for any        *)
(* customers, goods, orders, reviews, debts and payments and any number of *)
(* concurrent requests: Accounts (OneDefault), Purchases (CartsAddUp,      *)
(* NothingIsLost, ShippedStays), Reviews (FiguresAreKept) and Bnpl         *)
(* (PaidIsPaid, TillHoldsThePayments, SettledStays, DebtorsStay).          *)
(***************************************************************************)
EXTENDS Accounts, Purchases, Reviews, Bnpl, CoinSumsProofs

(* Accounts.  One default address, and one customer behind an e-mail.      *)

Choice == [stage: {"adding", "setting"}, owner: Buyer, address: Address]
AccountRow == [state: {"there"}, mail: Mailbox, secret: Secret]
AddressRow == [state: {"there"}, owner: Buyer, default: BOOLEAN]

AccountsTypeOK ==
    /\ account \in [Buyer -> AccountRow \cup {NoAccount}]
    /\ address \in [Address -> AddressRow \cup {NoAddress, [state |-> "gone"]}]
    /\ choosing \in [Request -> Choice \cup {Idle}]
    /\ raced \subseteq Buyer

\* An e-mail is one customer's.
MailsAreUnique ==
    \A c, e \in Buyer :
        Registered(c) /\ Registered(e) /\ account[c].mail = account[e].mail => c = e

Chooses(r, c) == choosing[r] # Idle /\ choosing[r].owner = c

(* What makes the two statements of a choice one, as long as nobody interferes: *)
(* while a request is between them no address is the default, and it is alone. *)
OneOf(c) ==
    /\ \A x, y \in Address :
          Owns(c, x) /\ Owns(c, y) /\ address[x].default /\ address[y].default => x = y
    /\ \A r \in Request : Chooses(r, c) =>
          \A x \in Address : Owns(c, x) => ~ address[x].default
    /\ \A r, q \in Request : Chooses(r, c) /\ Chooses(q, c) => r = q

AccountsInv ==
    /\ AccountsTypeOK
    /\ MailsAreUnique
    /\ \A c \in Buyer \ raced : OneOf(c)

-----------------------------------------------------------------------------

\* A request between the statements of a choice holds a task.
LEMMA ChoosingIsTask ==
    ASSUME AccountsTypeOK, NEW r \in Request, choosing[r] # Idle
    PROVE  /\ choosing[r] \in Choice
           /\ choosing[r].owner \in Buyer /\ choosing[r].address \in Address
BY DEF AccountsTypeOK, Choice

\* A task is not the idle slot; the rows that stand for nothing are not there.
LEMMA Kinds ==
    /\ \A task \in Choice : task # Idle
    /\ \A row \in AccountRow : row # NoAccount /\ row.state = "there"
    /\ \A row \in AddressRow : row # NoAddress /\ row.state = "there"
    /\ NoAccount.state # "there" /\ NoAddress.state # "there"
    /\ Idle.stage \notin {"adding", "setting"}
BY DEF Choice, Idle, AccountRow, AddressRow, NoAccount, NoAddress

\* The first statement of a choice, of customer task.owner: that customer is clean
\* or in doubt, the others are as they were.
LEMMA ClearKeeps ==
    ASSUME AccountsInv, NEW r \in Request, NEW task \in Choice, ClearDefault(r, task)
    PROVE  AccountsInv'
<1> DEFINE c == task.owner
<1> DEFINE others == { q \in Request \ {r} : choosing[q] # Idle /\ choosing[q].owner = c }
<1>1. c \in Buyer /\ task # Idle
  BY Kinds DEF Choice
<1>2. /\ address' = [x \in Address |-> IF Owns(c, x)
                                       THEN [address[x] EXCEPT !.default = FALSE]
                                       ELSE address[x]]
      /\ choosing' = [choosing EXCEPT ![r] = task]
      /\ raced' = IF others = {} THEN raced \ {c} ELSE raced \cup {c}
      /\ account' = account
      /\ choosing[r] = Idle
  BY DEF ClearDefault
<1>3. \A x \in Address : Owns(c, x) =>
          /\ address[x] \in AddressRow
          /\ [address[x] EXCEPT !.default = FALSE] \in AddressRow
          /\ [address[x] EXCEPT !.default = FALSE].owner = c
          /\ ~ [address[x] EXCEPT !.default = FALSE].default
  <2> SUFFICES ASSUME NEW x \in Address, Owns(c, x)
               PROVE  /\ address[x] \in AddressRow
                      /\ [address[x] EXCEPT !.default = FALSE] \in AddressRow
                      /\ [address[x] EXCEPT !.default = FALSE].owner = c
                      /\ ~ [address[x] EXCEPT !.default = FALSE].default
    OBVIOUS
  <2>1. address[x] \in AddressRow
    BY Kinds DEF AccountsInv, AccountsTypeOK, Owns
  <2> QED  BY <2>1 DEF AddressRow, Owns
<1>4. AccountsTypeOK'
  BY <1>1, <1>2, <1>3 DEF AccountsInv, AccountsTypeOK
<1>5. MailsAreUnique'
  BY <1>2 DEF AccountsInv, MailsAreUnique, Registered
<1>6. \A d \in Buyer, x \in Address :
          /\ Owns(d, x)' <=> Owns(d, x)
          /\ Owns(c, x) => ~ address'[x].default
          /\ ~ Owns(c, x) => address'[x] = address[x]
  BY <1>2, <1>3, Kinds DEF Owns, AddressRow
<1>7. \A q \in Request : choosing'[q] = IF q = r THEN task ELSE choosing[q]
  BY <1>2 DEF AccountsInv, AccountsTypeOK
<1>8. ASSUME NEW d \in Buyer \ raced'  PROVE OneOf(d)'
  <2>1. CASE d = c
    <3>1. others = {}
      BY <1>2, <1>8, <2>1
    <3>2. \A q \in Request : Chooses(q, c)' => q = r
      BY <3>1, <1>7 DEF Chooses
    <3> QED  BY <2>1, <3>2, <1>1, <1>6 DEF OneOf
  <2>2. CASE d # c
    <3>1. OneOf(d)
      BY <1>2, <1>8, <2>2 DEF AccountsInv
    <3>2. \A q \in Request : Chooses(q, d)' => Chooses(q, d)
      BY <1>7, <2>2 DEF Chooses
    <3>3. \A x \in Address : Owns(d, x)' => Owns(d, x) /\ address'[x] = address[x]
      BY <1>6, <2>2 DEF Owns
    <3> QED  BY <3>1, <3>2, <3>3 DEF OneOf
  <2> QED  BY <2>1, <2>2
<1> QED  BY <1>4, <1>5, <1>8 DEF AccountsInv

\* A statement that writes one row of the address book, or none, of customer c.
LEMMA WriteKeeps ==
    ASSUME AccountsInv, NEW c \in Buyer, NEW x \in Address,
           NEW row \in AddressRow \cup {[state |-> "gone"]},
           address' = [address EXCEPT ![x] = row],
           Owns(c, x) \/ address[x] = NoAddress,
           row.state = "there" => row.owner = c,
           UNCHANGED <<account, raced>>,
           \/ /\ row.state = "there" => row.default = FALSE
              /\ choosing' = choosing
           \/ \E r \in Request : Chooses(r, c) /\ choosing' = Answered(choosing, r)
    PROVE  AccountsInv'
<1>1. address' \in [Address -> AddressRow \cup {NoAddress, [state |-> "gone"]}]
  BY DEF AccountsInv, AccountsTypeOK
<1>2. choosing' \in [Request -> Choice \cup {Idle}]
  BY DEF AccountsInv, AccountsTypeOK, Answered
<1>3. AccountsTypeOK' /\ MailsAreUnique'
  BY <1>1, <1>2 DEF AccountsInv, AccountsTypeOK, MailsAreUnique, Registered
<1>4. \A y \in Address : address'[y] = IF y = x THEN row ELSE address[y]
  BY DEF AccountsInv, AccountsTypeOK
<1>5. \A q \in Request : choosing'[q] = choosing[q] \/ choosing'[q] = Idle
  BY DEF AccountsInv, AccountsTypeOK, Answered
<1>6. ASSUME NEW d \in Buyer \ raced'  PROVE OneOf(d)'
  <2>1. OneOf(d)
    BY <1>6 DEF AccountsInv
  <2>2. \A q \in Request : Chooses(q, d)' => Chooses(q, d)
    BY <1>5 DEF Chooses
  <2>3. CASE d # c
    <3>1. \A y \in Address : Owns(d, y)' => y # x /\ Owns(d, y) /\ address'[y] = address[y]
      BY <1>4, <2>3 DEF Owns
    <3> QED  BY <2>1, <2>2, <3>1 DEF OneOf
  <2>4. CASE d = c /\ choosing' = choosing /\ (row.state = "there" => row.default = FALSE)
    <3>1. \A y \in Address : Owns(c, y)' /\ address'[y].default
             => y # x /\ Owns(c, y) /\ address[y].default
      BY <1>4, <2>4 DEF Owns
    <3> QED  BY <2>1, <2>2, <2>4, <3>1 DEF OneOf
  <2>5. CASE d = c /\ \E r \in Request : Chooses(r, c) /\ choosing' = Answered(choosing, r)
    <3> PICK r \in Request : Chooses(r, c) /\ choosing' = Answered(choosing, r)
      BY <2>5
    <3>1. \A q \in Request : ~ Chooses(q, c)'
      <4>1. choosing'[r] = Idle
        BY DEF AccountsInv, AccountsTypeOK, Answered
      <4> QED  BY <4>1, <2>1, <2>2, <2>5 DEF OneOf, Chooses
    <3>2. \A y \in Address : Owns(c, y)' /\ y # x => Owns(c, y) /\ ~ address'[y].default
      BY <1>4, <2>1, <2>5 DEF OneOf, Owns
    <3> QED  BY <3>1, <3>2, <2>5 DEF OneOf
  <2> QED  BY <2>3, <2>4, <2>5
<1> QED  BY <1>3, <1>6 DEF AccountsInv

-----------------------------------------------------------------------------

LEMMA InitIsClean == ASSUME AccountsInit PROVE AccountsInv
<1>1. AccountsTypeOK
  BY DEF AccountsInit, AccountsTypeOK
<1>2. \A c \in Buyer : ~ Registered(c) /\ \A x \in Address : ~ Owns(c, x)
  BY Kinds DEF AccountsInit, Registered, Owns
<1>3. \A c \in Buyer, r \in Request : ~ Chooses(r, c)
  BY DEF AccountsInit, Chooses
<1> QED  BY <1>1, <1>2, <1>3 DEF AccountsInv, MailsAreUnique, OneOf

\* Steps that write accounts only.
LEMMA AccountKeeps ==
    ASSUME AccountsInv, NEW c \in Buyer, NEW m \in Mailbox, NEW s \in Secret,
           UpdatePassword(c, s) \/ Register(c, m, s)
    PROVE  AccountsInv'
<1>1. AccountsTypeOK' /\ UNCHANGED <<address, choosing, raced>>
  <2>1. CASE UpdatePassword(c, s)
    <3>1. account[c] \in AccountRow
      BY <2>1, Kinds DEF UpdatePassword, AccountsInv, AccountsTypeOK, Registered
    <3>2. [account[c] EXCEPT !.secret = s] \in AccountRow
      BY <3>1 DEF AccountRow
    <3> QED  BY <2>1, <3>2 DEF UpdatePassword, AccountsInv, AccountsTypeOK
  <2>2. CASE Register(c, m, s)
    <3>1. [state |-> "there", mail |-> m, secret |-> s] \in AccountRow
      BY DEF AccountRow
    <3> QED  BY <2>2, <3>1 DEF Register, AccountsInv, AccountsTypeOK
  <2> QED  BY <2>1, <2>2
<1>2. MailsAreUnique'
  <2>1. CASE UpdatePassword(c, s)
    <3>1. account[c] \in AccountRow
      BY <2>1, Kinds DEF UpdatePassword, AccountsInv, AccountsTypeOK, Registered
    <3>2. \A d \in Buyer : /\ Registered(d)' => Registered(d)
                           /\ Registered(d) => account'[d].mail = account[d].mail
      BY <2>1, <3>1 DEF UpdatePassword, AccountsInv, AccountsTypeOK, Registered, AccountRow
    <3> QED  BY <3>2 DEF AccountsInv, MailsAreUnique
  <2>2. CASE Register(c, m, s)
    <3>1. \A d \in Buyer : account'[d] = IF d = c
                              THEN [state |-> "there", mail |-> m, secret |-> s]
                              ELSE account[d]
      BY <2>2 DEF Register, AccountsInv, AccountsTypeOK
    <3> QED  BY <2>2, <3>1 DEF Register, AccountsInv, MailsAreUnique, Registered
  <2> QED  BY <2>1, <2>2
<1>3. \A c1 \in Buyer : OneOf(c1)' <=> OneOf(c1)
  BY <1>1 DEF OneOf, Owns, Chooses
<1> QED  BY <1>1, <1>2, <1>3 DEF AccountsInv

\* A choice that is given up, or whose address is not there, changes no row.
LEMMA DropKeeps ==
    ASSUME AccountsInv, NEW r \in Request, choosing' = Answered(choosing, r),
           UNCHANGED <<account, address, raced>>
    PROVE  AccountsInv'
<1>1. AccountsTypeOK' /\ MailsAreUnique'
  BY DEF AccountsInv, AccountsTypeOK, MailsAreUnique, Registered, Answered
<1>2. \A q \in Request : choosing'[q] = choosing[q] \/ choosing'[q] = Idle
  BY DEF AccountsInv, AccountsTypeOK, Answered
<1>3. \A q \in Request, c \in Buyer : Chooses(q, c)' => Chooses(q, c)
  BY <1>2 DEF Chooses
<1>4. ASSUME NEW d \in Buyer \ raced'  PROVE OneOf(d)'
  BY <1>3, <1>4 DEF AccountsInv, OneOf, Owns
<1> QED  BY <1>1, <1>4 DEF AccountsInv

LEMMA StepKeeps ==
    ASSUME AccountsInv, [AccountsNext]_accountVars
    PROVE  AccountsInv'
<1>1. CASE UNCHANGED accountVars
  BY <1>1 DEF accountVars, AccountsInv, AccountsTypeOK, MailsAreUnique, OneOf, Owns,
              Registered, Chooses
<1>2. ASSUME NEW c \in Buyer, NEW s \in Secret,
             UpdatePassword(c, s) \/ \E m \in Mailbox : Register(c, m, s)
      PROVE  AccountsInv'
  <2>1. CASE \E m \in Mailbox : Register(c, m, s)
    BY <2>1, AccountKeeps
  <2>2. CASE UpdatePassword(c, s)
    <3>1. \E m \in Mailbox : TRUE
      BY <2>2, Kinds DEF UpdatePassword, AccountsInv, AccountsTypeOK, Registered, AccountRow
    <3> QED  BY <2>2, <3>1, AccountKeeps
  <2> QED  BY <1>2, <2>1, <2>2
<1>3. ASSUME NEW c \in Buyer, NEW x \in Address, AddAddress(c, x)
      PROVE  AccountsInv'
  <2>1. [state |-> "there", owner |-> c, default |-> FALSE] \in AddressRow
    BY DEF AddressRow
  <2> QED  BY <1>3, <2>1, WriteKeeps DEF AddAddress, Insert
<1>4. ASSUME NEW c \in Buyer, NEW x \in Address, UpdateAddress(c, x)
      PROVE  AccountsInv'
  <2>1. [state |-> "there", owner |-> c, default |-> FALSE] \in AddressRow
    BY DEF AddressRow
  <2> QED  BY <1>4, <2>1, WriteKeeps DEF UpdateAddress, Insert
<1>5. ASSUME NEW c \in Buyer, NEW x \in Address, DeleteAddress(c, x)
      PROVE  AccountsInv'
  BY <1>5, WriteKeeps DEF DeleteAddress
<1>6. ASSUME NEW c \in Buyer, NEW x \in Address, NEW r \in Request,
             BeginAddDefault(r, c, x) \/ BeginSetDefault(r, c, x)
      PROVE  AccountsInv'
  <2>1. /\ [stage |-> "adding", owner |-> c, address |-> x] \in Choice
        /\ [stage |-> "setting", owner |-> c, address |-> x] \in Choice
    BY DEF Choice
  <2> QED  BY <1>6, <2>1, ClearKeeps DEF BeginAddDefault, BeginSetDefault
<1>7. ASSUME NEW r \in Request, AddDefault(r)
      PROVE  AccountsInv'
  <2> DEFINE c == choosing[r].owner
  <2> DEFINE x == choosing[r].address
  <2>1. choosing[r] # Idle
    BY <1>7, Kinds DEF AddDefault
  <2>2. c \in Buyer /\ x \in Address /\ Chooses(r, c)
    BY <2>1, ChoosingIsTask DEF AccountsInv, Chooses
  <2>3. [state |-> "there", owner |-> c, default |-> TRUE] \in AddressRow
    BY <2>2 DEF AddressRow
  <2>4. /\ address[x] = NoAddress
        /\ address' = [address EXCEPT ![x] = [state |-> "there", owner |-> c, default |-> TRUE]]
        /\ choosing' = Answered(choosing, r)
        /\ UNCHANGED <<account, raced>>
    BY <1>7 DEF AddDefault, Insert
  <2> HIDE DEF c, x
  <2> QED  BY <2>2, <2>3, <2>4, WriteKeeps
<1>8. ASSUME NEW r \in Request, SetDefault(r)
      PROVE  AccountsInv'
  <2> DEFINE c == choosing[r].owner
  <2> DEFINE x == choosing[r].address
  <2>1. choosing[r] # Idle
    BY <1>8, Kinds DEF SetDefault
  <2>2. c \in Buyer /\ x \in Address /\ Chooses(r, c)
    BY <2>1, ChoosingIsTask DEF AccountsInv, Chooses
  <2>3. /\ address' = IF Owns(c, x) THEN [address EXCEPT ![x].default = TRUE] ELSE address
        /\ choosing' = Answered(choosing, r)
        /\ UNCHANGED <<account, raced>>
    BY <1>8 DEF SetDefault
  <2> HIDE DEF c, x
  <2>4. CASE Owns(c, x)
    <3>1. address[x] \in AddressRow
      BY <2>2, <2>4, Kinds DEF AccountsInv, AccountsTypeOK, Owns
    <3> DEFINE row == [address[x] EXCEPT !.default = TRUE]
    <3>2. row \in AddressRow /\ row.owner = c
      BY <3>1, <2>4 DEF AddressRow, Owns
    <3>3. address' = [address EXCEPT ![x] = row]
      BY <2>3, <2>4
    <3> HIDE DEF row
    <3> QED  BY <2>2, <2>3, <2>4, <3>2, <3>3, WriteKeeps
  <2>5. CASE ~ Owns(c, x)
    BY <2>3, <2>5, DropKeeps
  <2> QED  BY <2>4, <2>5
<1>9. ASSUME NEW r \in Request, DropChoice(r)
      PROVE  AccountsInv'
  BY <1>9, DropKeeps DEF DropChoice
<1> QED  BY <1>1, <1>2, <1>3, <1>4, <1>5, <1>6, <1>7, <1>8, <1>9 DEF AccountsNext

-----------------------------------------------------------------------------

\* Nobody but one customer, or nobody, logs in with an e-mail and a password.
LEMMA LoginIsOne ==
    ASSUME MailsAreUnique, NEW m, NEW s
    PROVE  Cardinality(Login(m, s)) <= 1
<1>1. CASE Login(m, s) = {}
  BY <1>1, FS_EmptySet
<1>2. ASSUME NEW c \in Login(m, s)  PROVE Cardinality(Login(m, s)) <= 1
  <2>1. Login(m, s) = {c}
    BY <1>2 DEF Login, MailsAreUnique
  <2> QED  BY <2>1, FS_Singleton
<1> QED  BY <1>1, <1>2

LEMMA InvImplies == AccountsInv => OneDefaultAddress
<1> SUFFICES ASSUME AccountsInv PROVE OneDefaultAddress
  OBVIOUS
<1>1. \A c \in Buyer \ raced :
          \A x, y \in Book(c) : address[x].default /\ address[y].default => x = y
  BY DEF AccountsInv, OneOf, Book
<1> QED  BY <1>1, LoginIsOne DEF AccountsInv, OneDefaultAddress

\* Whatever addresses are added, updated, chosen, deleted or abandoned half-way, by
\* however many requests at once, a customer whose choices did not overlap has at
\* most one default address; and an e-mail with its password is one customer's.
THEOREM OneDefault == AccountsSpec => []OneDefaultAddress
<1>1. AccountsInit => AccountsInv
  BY InitIsClean
<1>2. AccountsInv /\ [AccountsNext]_accountVars => AccountsInv'
  BY StepKeeps
<1> QED  BY <1>1, <1>2, InvImplies, PTL DEF AccountsSpec

-----------------------------------------------------------------------------
(* Carts.  What a request has read is a set of lines, and an order that is *)
(* being cancelled was one that might be.                                  *)

Line == [count: Nat, unit: Nat]

IsLines(lines) == \E S \in SUBSET Good : IsFiniteSet(S) /\ lines \in [S -> Line]

IsCart(row) ==
    /\ IsLines(row.lines)
    /\ row.subtotal = LinesTotal(row.lines) /\ row.total = row.subtotal

IsErrand(x) ==
    /\ x.stage = "headed" => x.owner \in Holder
    /\ x.stage = "loaded" => x.owner \in Holder /\ IsLines(x.lines)
    /\ x.stage = "cancelling" => x.order \in Order /\ x.seen \in {"pending", "confirmed"}

AreFunctions ==
    /\ trolley = [c \in Holder |-> trolley[c]]
    /\ asked = [c \in Holder |-> asked[c]]
    /\ order = [o \in Order |-> order[o]]
    /\ clerk = [r \in Request |-> clerk[r]]

PurchasesInv ==
    /\ AreFunctions
    /\ \A c \in Holder : IsCart(trolley[c])
    /\ \A r \in Request : IsErrand(clerk[r])
    /\ NothingAskedIsLost

-----------------------------------------------------------------------------

\* The sum of a cart is an amount.
LEMMA TotalIsNat ==
    ASSUME NEW lines, IsLines(lines)
    PROVE  LinesTotal(lines) \in Nat
<1> PICK S \in SUBSET Good : IsFiniteSet(S) /\ lines \in [S -> Line]
  BY DEF IsLines
<1> DEFINE f == [p \in DOMAIN lines |-> lines[p].unit * lines[p].count]
<1>1. DOMAIN f = S /\ \A p \in S : f[p] = lines[p].unit * lines[p].count
  OBVIOUS
<1>2. \A p \in S : f[p] \in Int
  <2> SUFFICES ASSUME NEW p \in S PROVE f[p] \in Int
    OBVIOUS
  <2>1. lines[p].unit \in Nat /\ lines[p].count \in Nat
    BY DEF Line
  <2> QED  BY <1>1, <2>1
<1>3. f = [p \in DOMAIN f |-> f[p]]
  OBVIOUS
<1> HIDE DEF f
<1>4. IsTable(f)
  BY <1>1, <1>2, <1>3 DEF IsTable
<1> QED  BY <1>4, CoinsAreFinite DEF LinesTotal, f

LEMMA EmptyIsLines == IsLines(<<>>) /\ DOMAIN <<>> = {}
<1>1. <<>> \in [{} -> Line]
  OBVIOUS
<1> QED  BY <1>1, FS_EmptySet DEF IsLines

LEMMA DroppedIsLines ==
    ASSUME NEW lines, IsLines(lines), NEW p
    PROVE  IsLines(Dropped(lines, p)) /\ DOMAIN Dropped(lines, p) = DOMAIN lines \ {p}
<1> PICK S \in SUBSET Good : IsFiniteSet(S) /\ lines \in [S -> Line]
  BY DEF IsLines
<1>1. IsFiniteSet(S \ {p})
  BY FS_RemoveElement
<1>2. Dropped(lines, p) \in [S \ {p} -> Line]
  BY DEF Dropped
<1> QED  BY <1>1, <1>2 DEF IsLines, Dropped

LEMMA WithIsLines ==
    ASSUME NEW lines, IsLines(lines), NEW p \in Good, NEW line \in Line
    PROVE  /\ IsLines(With(lines, p, line))
           /\ DOMAIN With(lines, p, line) = DOMAIN lines \cup {p}
<1> PICK S \in SUBSET Good : IsFiniteSet(S) /\ lines \in [S -> Line]
  BY DEF IsLines
<1>1. IsFiniteSet(S \cup {p})
  BY FS_AddElement
<1>2. With(lines, p, line) \in [S \cup {p} -> Line]
  BY DEF With
<1> QED  BY <1>1, <1>2 DEF IsLines, With

\* A change of the lines changes the products in the cart as it changes what is
\* asked for.
LEMMA ChangedLines ==
    ASSUME NEW lines, IsLines(lines), NEW change \in Change, Possible(change, lines)
    PROVE  /\ IsLines(LinesAfter(change, lines))
           /\ DOMAIN LinesAfter(change, lines) = AskedAfter(change, DOMAIN lines)
           /\ change.op = "clear" =>
                 \A set : AskedAfter(change, set) = {}
<1>0. PICK S \in SUBSET Good : IsFiniteSet(S) /\ lines \in [S -> Line]
  BY DEF IsLines
<1> DEFINE p == change.product
<1>1. CASE change.op = "add"
  <2>1. p \in Good /\ change.count \in Nat /\ change.price \in Nat
    <3>1. change \in [op: {"add"}, product: Good, count: { n \in Count : n > 0 }, price: Tag]
      BY <1>1 DEF Change
    <3>2. change.product \in Good /\ change.count \in Count /\ change.count > 0
          /\ change.price \in Tag
      BY <3>1
    <3> DEFINE n == change.count
               v == change.price
    <3>3. n \in Int /\ n > 0 /\ v \in Nat
      <4> HIDE DEF n, v
      <4> QED  BY <3>2, PurchasesAssumption DEF n, v
    <3> QED  BY <3>2, <3>3
  <2> DEFINE line == IF p \in DOMAIN lines
                     THEN [lines[p] EXCEPT !.count = @ + change.count]
                     ELSE [count |-> change.count, unit |-> change.price]
  <2>2. line \in Line
    <3>1. CASE p \in DOMAIN lines
      BY <1>0, <2>1, <3>1 DEF Line
    <3>2. CASE p \notin DOMAIN lines
      BY <2>1, <3>2 DEF Line
    <3> QED  BY <3>1, <3>2
  <2>3. LinesAfter(change, lines) = With(lines, p, line)
    BY <1>1 DEF LinesAfter
  <2>4. \A set : AskedAfter(change, set) = set \cup {p}
    BY <1>1 DEF AskedAfter
  <2> HIDE DEF line, p
  <2> QED  BY <1>1, <2>1, <2>2, <2>3, <2>4, WithIsLines
<1>2. CASE change.op = "update" /\ change.count <= 0
  <2>1. LinesAfter(change, lines) = Dropped(lines, p)
    BY <1>2 DEF LinesAfter
  <2>2. \A set : AskedAfter(change, set) = set \ {p}
    BY <1>2 DEF AskedAfter
  <2> QED  BY <1>2, <2>1, <2>2, DroppedIsLines
<1>3. CASE change.op = "update" /\ ~ (change.count <= 0)
  <2>1. change.count \in Nat
    <3>1. change \in [op: {"update"}, product: Good, count: Count]
      BY <1>3 DEF Change
    <3>2. change.count \in Count
      BY <3>1
    <3>3. change.count \in Int
      BY <3>2, PurchasesAssumption
    <3> QED  BY <1>3, <3>3
  <2>2. LinesAfter(change, lines) = [lines EXCEPT ![p].count = change.count]
    BY <1>3 DEF LinesAfter
  <2>3. p \in S
    BY <1>0, <1>3 DEF Possible
  <2>4. [lines[p] EXCEPT !.count = change.count] \in Line
    BY <1>0, <2>1, <2>3 DEF Line
  <2>5. [lines EXCEPT ![p].count = change.count] \in [S -> Line]
    BY <1>0, <2>4
  <2>6. \A set : AskedAfter(change, set) = set
    BY <1>3 DEF AskedAfter
  <2> QED  BY <1>0, <1>3, <2>2, <2>5, <2>6 DEF IsLines
<1>4. CASE change.op = "remove"
  <2>1. LinesAfter(change, lines) = Dropped(lines, p)
    BY <1>4 DEF LinesAfter
  <2>2. \A set : AskedAfter(change, set) = set \ {p}
    BY <1>4 DEF AskedAfter
  <2> QED  BY <1>4, <2>1, <2>2, DroppedIsLines
<1>5. CASE change.op = "clear"
  <2>1. LinesAfter(change, lines) = <<>> /\ \A set : AskedAfter(change, set) = {}
    BY <1>5 DEF LinesAfter, AskedAfter
  <2> QED  BY <2>1, EmptyIsLines
<1>6. CASE change.op = "promo"
  <2>1. LinesAfter(change, lines) = lines /\ \A set : AskedAfter(change, set) = set
    BY <1>6 DEF LinesAfter, AskedAfter
  <2> QED  BY <1>6, <2>1
<1>7. change.op \in {"add", "update", "remove", "clear", "promo"}
  BY DEF Change
<1> QED  BY <1>1, <1>2, <1>3, <1>4, <1>5, <1>6, <1>7

-----------------------------------------------------------------------------

LEMMA PurchasesBegin == PurchasesInit => PurchasesInv
<1> SUFFICES ASSUME PurchasesInit PROVE PurchasesInv
  OBVIOUS
<1>1. AreFunctions
  BY DEF PurchasesInit, AreFunctions
<1>2. EmptyTrolley.lines = <<>> /\ EmptyTrolley.subtotal = 0 /\ EmptyTrolley.total = 0
  BY DEF EmptyTrolley
<1>3. LinesTotal(<<>>) = 0
  <2>1. CoinsOf([p \in DOMAIN <<>> |-> <<>>[p].unit * <<>>[p].count]) = {}
    BY EmptyIsLines DEF CoinsOf
  <2> QED  BY <2>1, FS_EmptySet DEF LinesTotal, CoinSum
<1>4. IsCart(EmptyTrolley)
  BY <1>2, <1>3, EmptyIsLines DEF IsCart
<1>5. Idle.stage = "idle"
  BY DEF Idle
<1>6. \A c \in Holder : trolley[c] = EmptyTrolley /\ asked[c] = {}
  BY DEF PurchasesInit
<1>7. \A r \in Request : IsErrand(clerk[r])
  BY <1>5 DEF PurchasesInit, IsErrand
<1>8. NothingAskedIsLost
  BY <1>2, <1>6, EmptyIsLines DEF NothingAskedIsLost
<1> QED  BY <1>1, <1>4, <1>6, <1>7, <1>8 DEF PurchasesInv

\* A request's slot, when nothing else is written that the invariant is about.
LEMMA ErrandKeeps ==
    ASSUME PurchasesInv, NEW r \in Request, NEW x, IsErrand(x),
           clerk' = [clerk EXCEPT ![r] = x],
           UNCHANGED <<trolley, asked, unsure>>, order' = [o \in Order |-> order'[o]]
    PROVE  PurchasesInv'
<1> USE DEF PurchasesInv
<1>1. \A q \in Request : clerk'[q] = IF q = r THEN x ELSE clerk[q]
  BY DEF AreFunctions
<1>2. clerk' = [q \in Request |-> clerk'[q]]
  BY DEF AreFunctions
<1>3. \A q \in Request : IsErrand(clerk'[q])
  BY <1>1
<1>4. AreFunctions'
  BY <1>2 DEF AreFunctions
<1>5. NothingAskedIsLost'
  BY DEF NothingAskedIsLost
<1> QED  BY <1>3, <1>4, <1>5

LEMMA IdleIsErrand == IsErrand(Idle)
BY DEF IsErrand, Idle

LEMMA SaveKeeps ==
    ASSUME PurchasesInv, NEW r \in Request, NEW change \in Change, SaveCart(r, change)
    PROVE  PurchasesInv'
<1> USE DEF PurchasesInv
<1> DEFINE c == clerk[r].owner
           was == clerk[r].lines
           lines == LinesAfter(change, was)
           row == [lines |-> lines, coupon |-> CouponAfter(change, clerk[r].head.coupon),
                   subtotal |-> LinesTotal(lines), total |-> LinesTotal(lines)]
<1>1. /\ clerk[r].stage = "loaded" /\ Possible(change, was)
      /\ trolley' = [trolley EXCEPT ![c] = row]
      /\ clerk' = Answered(clerk, r)
      /\ asked' = [asked EXCEPT ![c] = AskedAfter(change, @)]
      /\ unsure' = IF change.op = "clear" THEN unsure \ {c}
                   ELSE IF trolley[c].lines = was THEN unsure
                   ELSE unsure \cup {c}
      /\ order' = order
  BY DEF SaveCart, Recompute
<1>2. row.lines = lines /\ row.subtotal = LinesTotal(lines) /\ row.total = LinesTotal(lines)
  OBVIOUS
<1>3. c \in Holder /\ IsLines(was)
  BY <1>1 DEF IsErrand
<1> HIDE DEF c, was, row
<1>4. /\ IsLines(lines) /\ DOMAIN lines = AskedAfter(change, DOMAIN was)
      /\ change.op = "clear" => \A set : AskedAfter(change, set) = {}
  BY <1>1, <1>3, ChangedLines
<1> HIDE DEF lines
<1>5. IsCart(row)
  BY <1>2, <1>4 DEF IsCart
<1>6. /\ \A e \in Holder : trolley'[e] = IF e = c THEN row ELSE trolley[e]
      /\ \A e \in Holder : asked'[e] = IF e = c THEN AskedAfter(change, asked[c]) ELSE asked[e]
  BY <1>1, <1>3 DEF AreFunctions
<1>7. trolley' = [e \in Holder |-> trolley'[e]] /\ asked' = [e \in Holder |-> asked'[e]]
  BY <1>1 DEF AreFunctions
<1>8. /\ clerk' = [q \in Request |-> clerk'[q]]
      /\ \A q \in Request : clerk'[q] = IF q = r THEN Idle ELSE clerk[q]
  BY <1>1 DEF AreFunctions, Answered
<1>9. AreFunctions'
  BY <1>1, <1>7, <1>8 DEF AreFunctions
<1>10. \A q \in Request : IsErrand(clerk'[q])
  BY <1>8, IdleIsErrand
<1>11. NothingAskedIsLost'
  <2> SUFFICES ASSUME NEW e \in Holder \ unsure' PROVE DOMAIN trolley'[e].lines = asked'[e]
    BY DEF NothingAskedIsLost
  <2>1. CASE e # c
    <3>1. e \notin unsure
      BY <1>1, <2>1
    <3> QED  BY <1>6, <2>1, <3>1 DEF NothingAskedIsLost
  <2>2. CASE e = c /\ change.op = "clear"
    BY <1>2, <1>4, <1>6, <2>2
  <2>3. CASE e = c /\ change.op # "clear"
    <3>1. trolley[c].lines = was /\ c \notin unsure
      BY <1>1, <2>3
    <3>2. DOMAIN was = asked[c]
      BY <1>3, <3>1 DEF NothingAskedIsLost
    <3> QED  BY <1>2, <1>4, <1>6, <2>3, <3>2
  <2> QED  BY <2>1, <2>2, <2>3
<1> QED  BY <1>5, <1>6, <1>9, <1>10, <1>11

LEMMA PurchasesStep == PurchasesInv /\ [PurchasesNext]_purchaseVars => PurchasesInv'
<1> SUFFICES ASSUME PurchasesInv, [PurchasesNext]_purchaseVars PROVE PurchasesInv'
  OBVIOUS
<1> USE DEF PurchasesInv
<1>1. ASSUME UNCHANGED <<trolley, clerk, asked, unsure>>,
             order' = [o \in Order |-> order'[o]]
      PROVE  PurchasesInv'
  BY <1>1 DEF AreFunctions, NothingAskedIsLost
<1>2. CASE purchaseVars' = purchaseVars
  BY <1>1, <1>2 DEF purchaseVars, AreFunctions
<1>3. ASSUME NEW r \in Request, NEW c \in Holder, BeginChange(r, c)
      PROVE  PurchasesInv'
  <2> DEFINE x == [stage |-> "headed", owner |-> c, head |-> trolley[c]]
  <2>1. IsErrand(x)
    BY DEF IsErrand
  <2>2. clerk' = [clerk EXCEPT ![r] = x]
    BY <1>3 DEF BeginChange
  <2> HIDE DEF x
  <2> QED  BY <1>3, <2>1, <2>2, ErrandKeeps DEF BeginChange, AreFunctions
<1>4. ASSUME NEW r \in Request, NEW failed \in BOOLEAN, AttachItems(r, failed)
      PROVE  PurchasesInv'
  <2> DEFINE lines == IF failed THEN <<>> ELSE trolley[clerk[r].owner].lines
             x == [stage |-> "loaded", owner |-> clerk[r].owner, head |-> clerk[r].head,
                   lines |-> lines]
  <2>1. clerk[r].owner \in Holder
    BY <1>4 DEF AttachItems, IsErrand
  <2>2. IsLines(lines)
    BY <2>1, EmptyIsLines DEF IsCart
  <2>3. IsErrand(x)
    BY <2>1, <2>2 DEF IsErrand
  <2>4. clerk' = [clerk EXCEPT ![r] = x]
    BY <1>4 DEF AttachItems
  <2> HIDE DEF x
  <2> QED  BY <1>4, <2>3, <2>4, ErrandKeeps DEF AttachItems, AreFunctions
<1>5. ASSUME NEW c \in Holder, NEW p \in Good, AddWish(c, p) \/ RemoveWish(c, p)
      PROVE  PurchasesInv'
  BY <1>1, <1>5 DEF AddWish, RemoveWish, AreFunctions
<1>6. ASSUME NEW o \in Order, NEW c \in Holder, CreateOrder(o, c)
      PROVE  PurchasesInv'
  BY <1>1, <1>6 DEF CreateOrder, AreFunctions
<1>7. ASSUME NEW o \in Order, NEW c \in Holder, NEW s \in OrderStatus, UpdateStatus(o, c, s)
      PROVE  PurchasesInv'
  BY <1>1, <1>7 DEF UpdateStatus, AreFunctions
<1>8. ASSUME NEW r \in Request, NEW o \in Order, NEW c \in Holder, BeginCancel(r, o, c)
      PROVE  PurchasesInv'
  <2> DEFINE x == [stage |-> "cancelling", order |-> o, owner |-> c,
                   seen |-> order[o].status]
  <2>1. IsErrand(x)
    BY <1>8 DEF IsErrand, BeginCancel, MayCancel
  <2>2. clerk' = [clerk EXCEPT ![r] = x]
    BY <1>8 DEF BeginCancel
  <2> HIDE DEF x
  <2> QED  BY <1>8, <2>1, <2>2, ErrandKeeps DEF BeginCancel, AreFunctions
<1>9. ASSUME NEW r \in Request, CancelOrder(r) \/ DropClerk(r)
      PROVE  PurchasesInv'
  <2>1. clerk' = [clerk EXCEPT ![r] = Idle] /\ UNCHANGED <<trolley, asked, unsure>>
    BY <1>9 DEF CancelOrder, DropClerk, Answered
  <2>2. order' = [o \in Order |-> order'[o]]
    BY <1>9 DEF CancelOrder, DropClerk, AreFunctions
  <2> QED  BY <2>1, <2>2, IdleIsErrand, ErrandKeeps
<1> QED
  BY <1>2, <1>3, <1>4, <1>5, <1>6, <1>7, <1>8, <1>9, SaveKeeps DEF PurchasesNext

-----------------------------------------------------------------------------

\* The cart holds what was asked for (NothingAskedIsLost; the saves of the store's
\* cart), for any customers and products and however many requests overlap, unless one
\* of them was overtaken or could not read the items.
THEOREM NothingIsLost == PurchasesSpec => []NothingAskedIsLost
<1>1. PurchasesInv => NothingAskedIsLost
  BY DEF PurchasesInv
<1> QED  BY <1>1, PurchasesBegin, PurchasesStep, PTL DEF PurchasesSpec

\* A discount is part of what there is to pay.
LEMMA DiscountIsPart ==
    ASSUME NEW k \in DOMAIN Promo, NEW n \in Nat
    PROVE  DiscountFor(Promo[k], n) \in 0..n
<1> DEFINE v == Promo[k].value
           product == n * v
<1>1. v \in Nat /\ product \in Nat
  BY PurchasesAssumption
<1> HIDE DEF product
<1>2. product \div 100 \in Nat
  BY <1>1
<1> QED  BY <1>1, <1>2 DEF DiscountFor, product

\* Header and items of a cart agree, and a valid coupon is worth at most the goods
\* (CartAddsUp; save and recompute, discountFor).
THEOREM CartsAddUp == PurchasesSpec => []CartAddsUp
<1>1. PurchasesInv => CartAddsUp
  BY TotalIsNat, DiscountIsPart DEF PurchasesInv, IsCart, CartAddsUp
<1> QED  BY <1>1, PurchasesBegin, PurchasesStep, PTL DEF PurchasesSpec

LEMMA CancelStep ==
    ASSUME PurchasesInv, [PurchasesNext]_purchaseVars, NEW o \in Order,
           order[o].status \in {"shipped", "delivered"}, order'[o].status = "cancelled",
           clerk' # clerk
    PROVE  o \in overtaken'
<1>1. PICK r \in Request : CancelOrder(r)
  <2>1. order' # order
    OBVIOUS
  <2> QED
    BY <2>1 DEF PurchasesNext, purchaseVars, BeginChange, AttachItems, SaveCart, AddWish,
                RemoveWish, CreateOrder, UpdateStatus, BeginCancel, DropClerk
<1>2. order' = [order EXCEPT ![clerk[r].order].status = "cancelled"]
  BY <1>1 DEF CancelOrder
<1>3. o = clerk[r].order
  <2> SUFFICES ASSUME o # clerk[r].order PROVE FALSE
    OBVIOUS
  <2>1. order'[o] = order[o]
    BY <1>2 DEF PurchasesInv, AreFunctions
  <2> QED  BY <2>1
<1>4. clerk[r].seen \in {"pending", "confirmed"}
  BY <1>1 DEF CancelOrder, PurchasesInv, IsErrand
<1> QED  BY <1>1, <1>3, <1>4 DEF CancelOrder

\* An order that was handed to delivery is cancelled by its customer only if it was
\* handed over after the cancellation had read it (ShippedIsNotCancelled; Cancel).
THEOREM ShippedStays == PurchasesSpec => ShippedIsNotCancelled
<1>1. PurchasesInv /\ [PurchasesNext]_purchaseVars
        => [\A o \in Order :
              /\ order[o].state = "there" /\ order[o].status \in {"shipped", "delivered"}
              /\ order'[o].status = "cancelled"
              /\ clerk' # clerk
              => o \in overtaken']_purchaseVars
  BY CancelStep
<1> QED
  BY <1>1, PurchasesBegin, PurchasesStep, PTL DEF PurchasesSpec, ShippedIsNotCancelled

-----------------------------------------------------------------------------
(* Reviews.  Whoever changes the reviews of a product owes it a count, and *)
(* pays it, drops it or hands it on; a vote is counted with the statement  *)
(* that records it.                                                        *)

IsReviewRow(x) ==
    x = [state |-> "there", article |-> x.article, author |-> x.author,
         rating |-> x.rating, helpful |-> x.helpful]

IsArticleRow(x) == x = [there |-> x.there, sum |-> x.sum, count |-> x.count]

IsPen(x) ==
    /\ x.stage \in {"edited", "removing"} =>
          /\ x.review \in Review /\ review[x.review].state # "none"
          /\ Posted(x.review) => review[x.review].article = x.article
    /\ x.stage = "voting" => x.review \in Review /\ x.voter \in Shopper /\ x.delta \in {1, -1}

ReviewTables ==
    /\ article = [a \in Article |-> article[a]]
    /\ review = [v \in Review |-> review[v]]
    /\ vote = [vc \in Review \X Shopper |-> vote[vc]]
    /\ pen = [r \in Request |-> pen[r]]
    /\ \A a \in Article : IsArticleRow(article[a])
    /\ \A v \in Review : Posted(v) => IsReviewRow(review[v])

\* What r has changed, or another's change that it will count.
OwesCount(r, a) ==
    /\ pen[r].article = a
    /\ \/ pen[r].stage \in {"counting", "counted"}
       \/ pen[r].stage = "edited" /\ Posted(pen[r].review)

FiguresKept(a) ==
    \/ a \in outdated
    \/ ~ article[a].there
    \/ \E r \in Request : OwesCount(r, a)
    \/ Tally(a) = [sum |-> article[a].sum, count |-> article[a].count]

VotesKept(v) ==
    /\ IsFiniteSet(Voters(v, 1)) /\ IsFiniteSet(Voters(v, -1))
    /\ Posted(v) => review[v].helpful = Cardinality(Voters(v, 1)) - Cardinality(Voters(v, -1))
    /\ ~ Posted(v) => \A c \in Shopper : vote[<<v, c>>] = 0

ReviewsInv ==
    /\ ReviewTables
    /\ \A r \in Request : IsPen(pen[r])
    /\ \A a \in Article : FiguresKept(a)
    /\ \A v \in Review : VotesKept(v)

-----------------------------------------------------------------------------

\* Nobody's votes are none.
LEMMA NoVotes ==
    ASSUME NEW v \in Review, \A c \in Shopper : vote[<<v, c>>] = 0
    PROVE  /\ IsFiniteSet(Voters(v, 1)) /\ IsFiniteSet(Voters(v, -1))
           /\ Cardinality(Voters(v, 1)) - Cardinality(Voters(v, -1)) = 0
<1>1. Voters(v, 1) = {} /\ Voters(v, -1) = {}
  BY DEF Voters
<1> QED  BY <1>1, FS_EmptySet

LEMMA ReviewsBegin == ReviewsInit => ReviewsInv
<1> SUFFICES ASSUME ReviewsInit PROVE ReviewsInv
  OBVIOUS
<1>1. \A v \in Review : ~ Posted(v)
  BY DEF ReviewsInit, Posted, NoReview
<1>2. ReviewTables
  BY <1>1 DEF ReviewsInit, ReviewTables, IsArticleRow
<1>3. \A r \in Request : IsPen(pen[r])
  BY DEF ReviewsInit, IsPen, Idle
<1>4. ASSUME NEW a \in Article
      PROVE  FiguresKept(a)
  <2> DEFINE ratings == [v \in ReviewsOf(a) |-> review[v].rating]
  <2>1. ReviewsOf(a) = {}
    BY <1>1 DEF ReviewsOf
  <2>2. IsFiniteSet({}) /\ Cardinality({}) = 0
    BY FS_EmptySet
  <2>3. DOMAIN ratings = {} /\ IsTable(ratings)
    BY <2>1, <2>2 DEF IsTable
  <2>4. CoinSum(ratings) = 0
    <3> HIDE DEF ratings
    <3> QED  BY <2>3, NoCoins
  <2>5. Tally(a) = [sum |-> 0, count |-> 0]
    BY <2>1, <2>2, <2>4 DEF Tally
  <2>6. article[a] = [there |-> TRUE, sum |-> 0, count |-> 0]
    BY DEF ReviewsInit
  <2> QED  BY <2>5, <2>6 DEF FiguresKept
<1>5. ASSUME NEW v \in Review
      PROVE  VotesKept(v)
  <2>1. \A c \in Shopper : vote[<<v, c>>] = 0
    BY DEF ReviewsInit
  <2> QED  BY <1>1, <2>1, NoVotes DEF VotesKept
<1> QED  BY <1>2, <1>3, <1>4, <1>5 DEF ReviewsInv

\* A tally is of the ratings of a product's reviews.
LEMMA TallyStays ==
    ASSUME NEW a, ReviewsOf(a)' = ReviewsOf(a),
           \A v \in ReviewsOf(a) : review'[v].rating = review[v].rating
    PROVE  Tally(a)' = Tally(a)
<1>1. [v \in ReviewsOf(a) |-> review[v].rating]'
        = [v \in ReviewsOf(a) |-> review[v].rating]
  OBVIOUS
<1> QED  BY <1>1 DEF Tally

\* A request's slot.
LEMMA PenSlot ==
    ASSUME ReviewTables, NEW r \in Request, NEW x, pen' = [pen EXCEPT ![r] = x]
    PROVE  /\ pen' = [q \in Request |-> pen'[q]]
           /\ pen'[r] = x
           /\ \A q \in Request \ {r} : pen'[q] = pen[q]
BY DEF ReviewTables

\* No id is used twice, and a review stays with its product.
ReviewsStay ==
    \A v \in Review : review[v].state # "none" =>
        /\ review'[v].state # "none"
        /\ Posted(v)' => Posted(v) /\ review'[v].article = review[v].article

LEMMA PensKeep ==
    ASSUME ReviewsInv, NEW r \in Request, NEW x, pen' = [pen EXCEPT ![r] = x],
           IsPen(x)', ReviewsStay
    PROVE  \A q \in Request : IsPen(pen[q])'
<1> SUFFICES ASSUME NEW q \in Request PROVE IsPen(pen[q])'
  OBVIOUS
<1>1. CASE q = r
  <2>1. pen'[q] = x
    BY <1>1, PenSlot DEF ReviewsInv
  <2> QED  BY <2>1 DEF IsPen
<1>2. CASE q # r
  <2>1. pen'[q] = pen[q] /\ IsPen(pen[q])
    BY <1>2, PenSlot DEF ReviewsInv
  <2> QED  BY <2>1 DEF IsPen, ReviewsStay
<1> QED  BY <1>1, <1>2

\* A vote counts where it was: the review is there as before, with as many votes.
LEMMA VotesStay ==
    ASSUME ReviewsInv, NEW v \in Review, vote' = vote, Posted(v)' <=> Posted(v),
           Posted(v) => review'[v].helpful = review[v].helpful
    PROVE  VotesKept(v)'
<1>1. VotesKept(v)
  BY DEF ReviewsInv
<1> QED  BY <1>1 DEF VotesKept, Voters

\* A step of one request that touches no table.
LEMMA SlotStep ==
    ASSUME ReviewsInv, NEW r \in Request, NEW x, pen' = [pen EXCEPT ![r] = x],
           IsPen(x), UNCHANGED <<article, review, vote>>, outdated \subseteq outdated',
           \A a \in Article : OwesCount(r, a) => \/ a \in outdated'
                                                 \/ x.article = a /\ x.stage = "counting"
                                                 \/ x.article = a /\ x.stage = "counted"
    PROVE  ReviewsInv'
<1>1. ReviewTables'
  BY PenSlot DEF ReviewsInv, ReviewTables, Posted
<1>2. IsPen(x)' /\ ReviewsStay
  BY DEF IsPen, ReviewsStay, Posted
<1>3. \A q \in Request : IsPen(pen[q])'
  BY <1>2, PensKeep
<1>4. ASSUME NEW a \in Article
      PROVE  FiguresKept(a)'
  <2>1. Tally(a)' = Tally(a)
    BY DEF Tally, ReviewsOf, Posted
  <2>2. ASSUME NEW q \in Request, OwesCount(q, a)
        PROVE  OwesCount(q, a)' \/ a \in outdated'
    <3>1. CASE q = r
      BY <2>2, <3>1, PenSlot DEF ReviewsInv, OwesCount
    <3>2. CASE q # r
      BY <2>2, <3>2, PenSlot DEF ReviewsInv, OwesCount, Posted
    <3> QED  BY <3>1, <3>2
  <2>3. FiguresKept(a)
    BY DEF ReviewsInv
  <2> QED  BY <2>1, <2>2, <2>3 DEF FiguresKept
<1>5. \A v \in Review : VotesKept(v)'
  BY VotesStay DEF Posted
<1> QED  BY <1>1, <1>3, <1>4, <1>5 DEF ReviewsInv

-----------------------------------------------------------------------------

\* A review comes, or its rating changes: its product is owed a count, and the
\* others are not concerned.
LEMMA PutReviewKeeps ==
    ASSUME ReviewsInv, NEW r \in Request, NEW x, NEW v \in Review, NEW row,
           pen[r] = Idle, pen' = [pen EXCEPT ![r] = x],
           review' = [review EXCEPT ![v] = row], IsReviewRow(row),
           \/ review[v] = NoReview /\ row.helpful = 0
           \/ Posted(v) /\ row.article = review[v].article /\ row.helpful = review[v].helpful,
           x.article = row.article,
           x.stage = "counting" \/ (x.stage = "edited" /\ x.review = v),
           UNCHANGED <<article, vote, outdated>>
    PROVE  ReviewsInv'
<1>1. /\ review' = [u \in Review |-> review'[u]]
      /\ review'[v] = row
      /\ \A u \in Review \ {v} : review'[u] = review[u]
  BY DEF ReviewsInv, ReviewTables
<1>2. row.state = "there" /\ NoReview.state = "none"
  BY DEF IsReviewRow, NoReview
<1>3. Posted(v)' /\ \A u \in Review \ {v} : Posted(u)' <=> Posted(u)
  BY <1>1, <1>2 DEF Posted
<1>4. ReviewTables'
  BY <1>1, <1>3, PenSlot DEF ReviewsInv, ReviewTables
<1>5. ReviewsStay
  BY <1>1, <1>2, <1>3 DEF ReviewsStay, Posted
<1>6. IsPen(x)'
  BY <1>1, <1>2 DEF IsPen
<1>7. \A q \in Request : IsPen(pen[q])'
  BY <1>5, <1>6, PensKeep
<1>8. ASSUME NEW a \in Article, a # row.article
      PROVE  FiguresKept(a)'
  <2>1. ReviewsOf(a)' = ReviewsOf(a)
    BY <1>1, <1>2, <1>3, <1>8 DEF ReviewsOf, Posted
  <2>2. v \notin ReviewsOf(a)
    BY <1>2, <1>8 DEF ReviewsOf, Posted
  <2>3. Tally(a)' = Tally(a)
    BY <1>1, <2>1, <2>2, TallyStays DEF ReviewsOf
  <2>4. ~ OwesCount(r, a)
    BY DEF OwesCount, Idle
  <2>5. \A q \in Request : OwesCount(q, a) => OwesCount(q, a)'
    <3> SUFFICES ASSUME NEW q \in Request, OwesCount(q, a) PROVE OwesCount(q, a)'
      OBVIOUS
    <3>1. pen'[q] = pen[q] /\ IsPen(pen[q])
      BY <2>4, PenSlot DEF ReviewsInv
    <3> QED  BY <1>3, <3>1 DEF OwesCount, IsPen
  <2>6. FiguresKept(a)
    BY DEF ReviewsInv
  <2> QED  BY <2>3, <2>5, <2>6 DEF FiguresKept
<1>9. ASSUME NEW a \in Article, a = row.article
      PROVE  FiguresKept(a)'
  <2>1. OwesCount(r, a)'
    BY <1>3, <1>9, PenSlot DEF ReviewsInv, OwesCount
  <2> QED  BY <2>1 DEF FiguresKept
<1>10. ASSUME NEW u \in Review, u # v
       PROVE  VotesKept(u)'
  BY <1>1, <1>3, <1>10, VotesStay
<1>11. VotesKept(v)'
  <2>1. CASE Posted(v) /\ row.helpful = review[v].helpful
    BY <1>1, <1>3, <2>1, VotesStay
  <2>2. CASE review[v] = NoReview /\ row.helpful = 0
    <3>1. \A c \in Shopper : vote'[<<v, c>>] = 0
      BY <1>2, <2>2 DEF ReviewsInv, VotesKept, Posted
    <3>2. /\ IsFiniteSet(Voters(v, 1)) /\ IsFiniteSet(Voters(v, -1))
          /\ Cardinality(Voters(v, 1)) - Cardinality(Voters(v, -1)) = 0
      BY <3>1, NoVotes
    <3>3. Voters(v, 1)' = Voters(v, 1) /\ Voters(v, -1)' = Voters(v, -1)
      BY DEF Voters
    <3> QED  BY <1>1, <1>3, <2>2, <3>2, <3>3 DEF VotesKept
  <2> QED  BY <2>1, <2>2
<1> QED  BY <1>4, <1>7, <1>8, <1>9, <1>10, <1>11 DEF ReviewsInv

LEMMA CreateReviewKeeps ==
    ASSUME ReviewsInv, NEW r \in Request, NEW v \in Review, NEW a, NEW c, NEW n,
           CreateReview(r, v, a, c, n)
    PROVE  ReviewsInv'
<1> DEFINE row == [state |-> "there", article |-> a, author |-> c, rating |-> n, helpful |-> 0]
           x == [stage |-> "counting", article |-> a]
<1>1. /\ IsReviewRow(row) /\ row.helpful = 0 /\ row.article = a
      /\ x.article = a /\ x.stage = "counting"
  BY DEF IsReviewRow
<1>2. /\ pen[r] = Idle /\ review[v] = NoReview
      /\ review' = [review EXCEPT ![v] = row]
      /\ pen' = [pen EXCEPT ![r] = x]
      /\ UNCHANGED <<article, vote, outdated>>
  BY DEF CreateReview, ToCount
<1> HIDE DEF row, x
<1> QED  BY <1>1, <1>2, PutReviewKeeps

LEMMA UpdateReviewKeeps ==
    ASSUME ReviewsInv, NEW r \in Request, NEW v \in Review, NEW n, UpdateReview(r, v, n)
    PROVE  ReviewsInv'
<1> DEFINE row == [review[v] EXCEPT !.rating = n]
           x == [stage |-> "edited", review |-> v, article |-> review[v].article]
<1>1. /\ pen[r] = Idle /\ Posted(v)
      /\ review' = [review EXCEPT ![v] = row]
      /\ pen' = [pen EXCEPT ![r] = x]
      /\ UNCHANGED <<article, vote, outdated>>
  BY DEF UpdateReview
<1>2. review[v] = [state |-> "there", article |-> review[v].article,
                   author |-> review[v].author, rating |-> review[v].rating,
                   helpful |-> review[v].helpful]
  BY <1>1 DEF ReviewsInv, ReviewTables, IsReviewRow
<1>3. row = [state |-> "there", article |-> review[v].article, author |-> review[v].author,
             rating |-> n, helpful |-> review[v].helpful]
  BY <1>2
<1>4. x.article = review[v].article /\ x.stage = "edited" /\ x.review = v
  OBVIOUS
<1> HIDE DEF row, x
<1>5. /\ IsReviewRow(row) /\ row.article = review[v].article
      /\ row.helpful = review[v].helpful
  BY <1>3 DEF IsReviewRow
<1> QED  BY <1>1, <1>4, <1>5, PutReviewKeeps

-----------------------------------------------------------------------------

\* Reviews go with their votes; those of the products they are not about stay.
LEMMA RemoveKeeps ==
    ASSUME ReviewsInv, NEW V \in SUBSET Review, \A v \in V : Posted(v), RemoveReviews(V)
    PROVE  /\ review' = [v \in Review |-> review'[v]]
           /\ vote' = [vc \in Review \X Shopper |-> vote'[vc]]
           /\ \A v \in Review : /\ Posted(v)' <=> Posted(v) /\ v \notin V
                                /\ Posted(v)' => review'[v] = review[v]
           /\ ReviewsStay
           /\ \A v \in Review : VotesKept(v)'
           /\ \A a : (\A v \in V : review[v].article # a) => Tally(a)' = Tally(a)
<1>1. /\ review' = [v \in Review |-> IF v \in V THEN GoneReview ELSE review[v]]
      /\ vote' = [vc \in Review \X Shopper |-> IF vc[1] \in V THEN 0 ELSE vote[vc]]
  <2>1. DOMAIN vote = Review \X Shopper
    BY DEF ReviewsInv, ReviewTables
  <2> QED  BY <2>1 DEF RemoveReviews
<1>2. review' = [v \in Review |-> review'[v]]
      /\ vote' = [vc \in Review \X Shopper |-> vote'[vc]]
  BY <1>1
<1>3. \A v \in Review : /\ Posted(v)' <=> Posted(v) /\ v \notin V
                        /\ Posted(v)' => review'[v] = review[v]
  BY <1>1 DEF Posted, GoneReview
<1>4. ReviewsStay
  BY <1>1, <1>3 DEF ReviewsStay, GoneReview
<1>5. ASSUME NEW v \in Review
      PROVE  VotesKept(v)'
  <2>1. CASE v \in V
    <3>1. \A c \in Shopper : vote'[<<v, c>>] = 0
      BY <1>1, <2>1
    <3>2. Voters(v, 1)' = {} /\ Voters(v, -1)' = {}
      BY <3>1 DEF Voters
    <3> QED  BY <1>3, <2>1, <3>1, <3>2, FS_EmptySet DEF VotesKept
  <2>2. CASE v \notin V
    <3>1. \A c \in Shopper : vote'[<<v, c>>] = vote[<<v, c>>]
      BY <1>1, <2>2
    <3>2. \A d : Voters(v, d)' = Voters(v, d)
      BY <3>1 DEF Voters
    <3>3. VotesKept(v)
      BY DEF ReviewsInv
    <3> QED  BY <1>3, <2>2, <3>1, <3>2, <3>3 DEF VotesKept
  <2> QED  BY <2>1, <2>2
<1>6. ASSUME NEW a, \A v \in V : review[v].article # a
      PROVE  Tally(a)' = Tally(a)
  <2>1. ReviewsOf(a)' = ReviewsOf(a)
    BY <1>3, <1>6 DEF ReviewsOf
  <2>2. \A v \in ReviewsOf(a) : review'[v].rating = review[v].rating
    BY <1>3, <1>6 DEF ReviewsOf
  <2> QED  BY <2>1, <2>2, TallyStays
<1> QED  BY <1>2, <1>3, <1>4, <1>5, <1>6

LEMMA DeleteReviewKeeps ==
    ASSUME ReviewsInv, NEW r \in Request, DeleteReview(r)
    PROVE  ReviewsInv'
<1> DEFINE V == {pen[r].review} \cap { v \in Review : Posted(v) }
<1>0. PICK x : x = [stage |-> "counting", article |-> pen[r].article]
  OBVIOUS
<1>1. /\ pen[r].stage = "removing"
      /\ RemoveReviews(V)
      /\ pen' = [pen EXCEPT ![r] = x]
      /\ UNCHANGED <<article, outdated>>
  BY <1>0 DEF DeleteReview, ToCount
<1>2. V \in SUBSET Review /\ \A v \in V : Posted(v)
  OBVIOUS
<1>3. \A v \in V : review[v].article = pen[r].article
  BY <1>1 DEF ReviewsInv, IsPen
<1> DEFINE a == pen[r].article
<1>4. x.stage = "counting" /\ x.article = a
  BY <1>0
<1> HIDE DEF V
<1>5. /\ review' = [v \in Review |-> review'[v]]
      /\ vote' = [vc \in Review \X Shopper |-> vote'[vc]]
      /\ \A v \in Review : /\ Posted(v)' <=> Posted(v) /\ v \notin V
                           /\ Posted(v)' => review'[v] = review[v]
      /\ ReviewsStay
      /\ \A v \in Review : VotesKept(v)'
      /\ \A b : (\A v \in V : review[v].article # b) => Tally(b)' = Tally(b)
  BY <1>1, <1>2, RemoveKeeps
<1>6. ReviewTables'
  BY <1>1, <1>5, PenSlot DEF ReviewsInv, ReviewTables
<1>7. IsPen(x)'
  BY <1>4 DEF IsPen
<1>8. \A q \in Request : IsPen(pen[q])'
  BY <1>1, <1>5, <1>7, PensKeep
<1>9. ASSUME NEW b \in Article, b = a
      PROVE  FiguresKept(b)'
  <2>1. OwesCount(r, b)'
    BY <1>1, <1>4, <1>9, PenSlot DEF ReviewsInv, OwesCount
  <2> QED  BY <2>1 DEF FiguresKept
<1>10. ASSUME NEW b \in Article, b # a
       PROVE  FiguresKept(b)'
  <2>1. Tally(b)' = Tally(b)
    BY <1>3, <1>5, <1>10
  <2>2. ASSUME NEW q \in Request, OwesCount(q, b)
        PROVE  OwesCount(q, b)'
    <3>1. q # r
      BY <1>1, <2>2 DEF OwesCount
    <3>2. pen'[q] = pen[q] /\ IsPen(pen[q])
      BY <1>1, <3>1, PenSlot DEF ReviewsInv
    <3>3. pen[q].stage = "edited" => pen[q].review \in Review /\ pen[q].review \notin V
      BY <1>3, <1>10, <2>2, <3>2 DEF OwesCount, IsPen
    <3> QED  BY <1>5, <2>2, <3>2, <3>3 DEF OwesCount
  <2>3. FiguresKept(b)
    BY DEF ReviewsInv
  <2> QED  BY <1>1, <2>1, <2>2, <2>3 DEF FiguresKept
<1> QED  BY <1>5, <1>6, <1>8, <1>9, <1>10 DEF ReviewsInv

\* The rows of the articles, when one is written.
LEMMA DeleteArticleKeeps ==
    ASSUME ReviewsInv, NEW a \in Article, DeleteArticle(a)
    PROVE  ReviewsInv'
<1> DEFINE V == ReviewsOf(a)
<1>1. /\ RemoveReviews(V)
      /\ article' = [article EXCEPT ![a].there = FALSE]
      /\ UNCHANGED <<pen, outdated>>
  BY DEF DeleteArticle
<1>2. /\ V \in SUBSET Review
      /\ \A v \in V : Posted(v) /\ review[v].article = a
  BY DEF ReviewsOf
<1> HIDE DEF V
<1>3. /\ review' = [v \in Review |-> review'[v]]
      /\ vote' = [vc \in Review \X Shopper |-> vote'[vc]]
      /\ \A v \in Review : /\ Posted(v)' <=> Posted(v) /\ v \notin V
                           /\ Posted(v)' => review'[v] = review[v]
      /\ ReviewsStay
      /\ \A v \in Review : VotesKept(v)'
      /\ \A b : (\A v \in V : review[v].article # b) => Tally(b)' = Tally(b)
  BY <1>1, <1>2, RemoveKeeps
<1>4. /\ article' = [b \in Article |-> article'[b]]
      /\ article'[a] = [article[a] EXCEPT !.there = FALSE]
      /\ \A b \in Article \ {a} : article'[b] = article[b]
  BY <1>1 DEF ReviewsInv, ReviewTables
<1>5. article'[a] = [there |-> FALSE, sum |-> article[a].sum, count |-> article[a].count]
  <2>1. article[a] = [there |-> article[a].there, sum |-> article[a].sum,
                      count |-> article[a].count]
    BY DEF ReviewsInv, ReviewTables, IsArticleRow
  <2> QED  BY <1>4, <2>1
<1>6. IsArticleRow(article'[a]) /\ ~ article'[a].there
  BY <1>5 DEF IsArticleRow
<1>7. ReviewTables'
  <2>1. \A b \in Article : IsArticleRow(article'[b])
    BY <1>4, <1>6 DEF ReviewsInv, ReviewTables
  <2> QED  BY <1>1, <1>3, <1>4, <2>1 DEF ReviewsInv, ReviewTables
<1>8. \A q \in Request : IsPen(pen[q])'
  <2> SUFFICES ASSUME NEW q \in Request PROVE IsPen(pen[q])'
    OBVIOUS
  <2>1. IsPen(pen[q]) /\ pen'[q] = pen[q]
    BY <1>1 DEF ReviewsInv
  <2> QED  BY <1>3, <2>1 DEF IsPen, ReviewsStay
<1>9. ASSUME NEW b \in Article, b # a
      PROVE  FiguresKept(b)'
  <2>1. Tally(b)' = Tally(b)
    BY <1>2, <1>3, <1>9
  <2>2. ASSUME NEW q \in Request, OwesCount(q, b)
        PROVE  OwesCount(q, b)'
    <3>1. pen'[q] = pen[q] /\ IsPen(pen[q])
      BY <1>1 DEF ReviewsInv
    <3>2. pen[q].stage = "edited" => pen[q].review \in Review /\ pen[q].review \notin V
      BY <1>2, <1>9, <2>2, <3>1 DEF OwesCount, IsPen
    <3> QED  BY <1>3, <2>2, <3>1, <3>2 DEF OwesCount
  <2>3. FiguresKept(b)
    BY DEF ReviewsInv
  <2> QED  BY <1>1, <1>4, <1>9, <2>1, <2>2, <2>3 DEF FiguresKept
<1>10. FiguresKept(a)'
  BY <1>6 DEF FiguresKept
<1> QED  BY <1>3, <1>7, <1>8, <1>9, <1>10 DEF ReviewsInv

-----------------------------------------------------------------------------

\* What is written is what was counted; if that is no longer so, it is known.
LEMMA WriteRatingKeeps ==
    ASSUME ReviewsInv, NEW r \in Request, WriteRating(r)
    PROVE  ReviewsInv'
<1> DEFINE tally == pen[r].tally
<1>1. PICK a : a = pen[r].article
  OBVIOUS
<1>2. /\ pen[r].stage = "counted"
      /\ article' = IF article[a].there
                    THEN [article EXCEPT ![a].sum = tally.sum, ![a].count = tally.count]
                    ELSE article
      /\ outdated' = IF tally = Tally(a) THEN outdated \ {a} ELSE outdated \cup {a}
      /\ pen' = [pen EXCEPT ![r] = Idle]
      /\ UNCHANGED <<review, vote>>
  BY <1>1 DEF WriteRating, Answered
<1> HIDE DEF tally
<1>3. /\ article' = [b \in Article |-> article'[b]]
      /\ \A b \in Article \ {a} : article'[b] = article[b]
  BY <1>2 DEF ReviewsInv, ReviewTables
<1>4. ASSUME a \in Article
      PROVE  /\ IsArticleRow(article'[a])
             /\ article'[a].there =>
                   article'[a].sum = tally.sum /\ article'[a].count = tally.count
  <2>1. article[a] = [there |-> article[a].there, sum |-> article[a].sum,
                      count |-> article[a].count]
    BY <1>4 DEF ReviewsInv, ReviewTables, IsArticleRow
  <2>2. CASE article[a].there
    <3>1. article'[a] = [article[a] EXCEPT !.sum = tally.sum, !.count = tally.count]
      BY <1>2, <1>4, <2>2 DEF ReviewsInv, ReviewTables
    <3>2. article'[a] = [there |-> article[a].there, sum |-> tally.sum,
                         count |-> tally.count]
      BY <2>1, <3>1
    <3> QED  BY <3>2 DEF IsArticleRow
  <2>3. CASE ~ article[a].there
    BY <1>2, <1>4, <2>3 DEF ReviewsInv, ReviewTables
  <2> QED  BY <2>2, <2>3
<1>5. ReviewTables'
  <2>1. \A b \in Article : IsArticleRow(article'[b])
    BY <1>3, <1>4 DEF ReviewsInv, ReviewTables
  <2> QED  BY <1>2, <1>3, <2>1, PenSlot DEF ReviewsInv, ReviewTables, Posted
<1>6. \A q \in Request : IsPen(pen[q])'
  <2>1. IsPen(Idle)'
    BY DEF IsPen, Idle
  <2>2. ReviewsStay
    BY <1>2 DEF ReviewsStay, Posted
  <2> QED  BY <1>2, <2>1, <2>2, PensKeep
<1>7. \A b : Tally(b)' = Tally(b)
  BY <1>2 DEF Tally, ReviewsOf, Posted
<1>8. ASSUME NEW b \in Article, b # a
      PROVE  FiguresKept(b)'
  <2>1. b \in outdated' <=> b \in outdated
    BY <1>2, <1>8
  <2>2. ASSUME NEW q \in Request, OwesCount(q, b)
        PROVE  OwesCount(q, b)'
    <3>1. q # r
      BY <1>1, <1>8, <2>2 DEF OwesCount
    <3>2. pen'[q] = pen[q]
      BY <1>2, <3>1, PenSlot DEF ReviewsInv
    <3> QED  BY <1>2, <2>2, <3>2 DEF OwesCount, Posted
  <2>3. FiguresKept(b)
    BY DEF ReviewsInv
  <2> QED  BY <1>3, <1>7, <1>8, <2>1, <2>2, <2>3 DEF FiguresKept
<1>9. ASSUME a \in Article
      PROVE  FiguresKept(a)'
  <2>1. CASE tally # Tally(a)
    BY <1>2, <2>1 DEF FiguresKept
  <2>2. CASE tally = Tally(a)
    <3>1. tally = [sum |-> tally.sum, count |-> tally.count]
      BY <2>2 DEF Tally
    <3> QED  BY <1>4, <1>7, <1>9, <2>2, <3>1 DEF FiguresKept
  <2> QED  BY <2>1, <2>2
<1>10. \A v \in Review : VotesKept(v)'
  BY <1>2, VotesStay DEF Posted
<1> QED  BY <1>5, <1>6, <1>8, <1>9, <1>10 DEF ReviewsInv

\* A first vote of c counts for one, whichever way.
LEMMA VoteCounts ==
    ASSUME ReviewsInv, NEW v \in Review, NEW c \in Shopper, NEW delta \in {1, -1},
           vote[<<v, c>>] = 0, vote' = [vote EXCEPT ![<<v, c>>] = delta]
    PROVE  /\ IsFiniteSet(Voters(v, 1)') /\ IsFiniteSet(Voters(v, -1)')
           /\ Cardinality(Voters(v, 1)') - Cardinality(Voters(v, -1)')
                = Cardinality(Voters(v, 1)) - Cardinality(Voters(v, -1)) + delta
<1>1. IsFiniteSet(Voters(v, 1)) /\ IsFiniteSet(Voters(v, -1))
  BY DEF ReviewsInv, VotesKept
<1>2. Cardinality(Voters(v, 1)) \in Nat /\ Cardinality(Voters(v, -1)) \in Nat
  BY <1>1, FS_CardinalityType
<1>3. vote'[<<v, c>>] = delta /\ \A s \in Shopper \ {c} : vote'[<<v, s>>] = vote[<<v, s>>]
  BY DEF ReviewsInv, ReviewTables
<1>4. \A d : c \notin Voters(v, d) \/ d = 0
  BY DEF Voters
<1>5. CASE delta = 1
  <2>1. Voters(v, 1)' = Voters(v, 1) \cup {c} /\ Voters(v, -1)' = Voters(v, -1)
    BY <1>3, <1>4, <1>5 DEF Voters
  <2>4. c \notin Voters(v, 1)
    BY <1>4
  <2>2. /\ IsFiniteSet(Voters(v, 1) \cup {c})
        /\ Cardinality(Voters(v, 1) \cup {c}) = Cardinality(Voters(v, 1)) + 1
    BY <1>1, <2>4, FS_AddElement
  <2>3. /\ IsFiniteSet(Voters(v, 1)') /\ IsFiniteSet(Voters(v, -1)')
        /\ Cardinality(Voters(v, 1)') = Cardinality(Voters(v, 1)) + 1
        /\ Cardinality(Voters(v, -1)') = Cardinality(Voters(v, -1))
    BY <1>1, <2>1, <2>2
  <2> QED  BY <1>2, <1>5, <2>3
<1>6. CASE delta = -1
  <2>1. Voters(v, -1)' = Voters(v, -1) \cup {c} /\ Voters(v, 1)' = Voters(v, 1)
    BY <1>3, <1>4, <1>6 DEF Voters
  <2>4. c \notin Voters(v, -1)
    BY <1>4
  <2>2. /\ IsFiniteSet(Voters(v, -1) \cup {c})
        /\ Cardinality(Voters(v, -1) \cup {c}) = Cardinality(Voters(v, -1)) + 1
    BY <1>1, <2>4, FS_AddElement
  <2>3. /\ IsFiniteSet(Voters(v, 1)') /\ IsFiniteSet(Voters(v, -1)')
        /\ Cardinality(Voters(v, -1)') = Cardinality(Voters(v, -1)) + 1
        /\ Cardinality(Voters(v, 1)') = Cardinality(Voters(v, 1))
    BY <1>1, <2>1, <2>2
  <2> QED  BY <1>2, <1>6, <2>3
<1> QED  BY <1>5, <1>6

LEMMA VoteKeeps ==
    ASSUME ReviewsInv, NEW r \in Request, Vote(r)
    PROVE  ReviewsInv'
<1>1. PICK v \in Review, c \in Shopper, delta \in {1, -1} :
         v = pen[r].review /\ c = pen[r].voter /\ delta = pen[r].delta
  BY DEF Vote, ReviewsInv, IsPen
<1>2. /\ pen[r].stage = "voting"
      /\ Posted(v) /\ vote[<<v, c>>] = 0
      /\ vote' = [vote EXCEPT ![<<v, c>>] = delta]
      /\ review' = [review EXCEPT ![v].helpful = @ + delta]
      /\ pen' = [pen EXCEPT ![r] = Idle]
      /\ UNCHANGED <<article, outdated>>
  BY <1>1 DEF Vote, Answered
<1> DEFINE row == [review[v] EXCEPT !.helpful = @ + delta]
<1>3. review[v] = [state |-> "there", article |-> review[v].article,
                   author |-> review[v].author, rating |-> review[v].rating,
                   helpful |-> review[v].helpful]
  BY <1>2 DEF ReviewsInv, ReviewTables, IsReviewRow
<1>4. row = [state |-> "there", article |-> review[v].article, author |-> review[v].author,
             rating |-> review[v].rating, helpful |-> review[v].helpful + delta]
  BY <1>3
<1>5. review' = [review EXCEPT ![v] = row]
  BY <1>2
<1> HIDE DEF row
<1>6. /\ review' = [u \in Review |-> review'[u]]
      /\ review'[v] = row
      /\ \A u \in Review \ {v} : review'[u] = review[u]
  BY <1>5 DEF ReviewsInv, ReviewTables
<1>7. /\ IsReviewRow(row) /\ row.state = "there"
      /\ row.article = review[v].article /\ row.rating = review[v].rating
      /\ row.helpful = review[v].helpful + delta
  BY <1>4 DEF IsReviewRow
<1>8. \A u \in Review : /\ Posted(u)' <=> Posted(u)
                        /\ Posted(u) => /\ review'[u].article = review[u].article
                                        /\ review'[u].rating = review[u].rating
  BY <1>2, <1>6, <1>7 DEF Posted
<1>9. ReviewTables'
  <2>1. vote' = [vc \in Review \X Shopper |-> vote'[vc]]
    BY <1>2 DEF ReviewsInv, ReviewTables
  <2>2. \A u \in Review : Posted(u)' => IsReviewRow(review'[u])
    BY <1>6, <1>7, <1>8 DEF ReviewsInv, ReviewTables
  <2> QED  BY <1>2, <1>6, <2>1, <2>2, PenSlot DEF ReviewsInv, ReviewTables
<1>10. \A q \in Request : IsPen(pen[q])'
  <2>1. IsPen(Idle)'
    BY DEF IsPen, Idle
  <2>2. ReviewsStay
    BY <1>6, <1>7, <1>8 DEF ReviewsStay
  <2> QED  BY <1>2, <2>1, <2>2, PensKeep
<1>11. ASSUME NEW a \in Article
       PROVE  FiguresKept(a)'
  <2>1. ReviewsOf(a)' = ReviewsOf(a)
    BY <1>8 DEF ReviewsOf
  <2>2. Tally(a)' = Tally(a)
    BY <1>8, <2>1, TallyStays DEF ReviewsOf
  <2>3. ASSUME NEW q \in Request, OwesCount(q, a)
        PROVE  OwesCount(q, a)'
    <3>1. q # r
      BY <1>2, <2>3 DEF OwesCount
    <3>2. pen'[q] = pen[q] /\ IsPen(pen[q])
      BY <1>2, <3>1, PenSlot DEF ReviewsInv
    <3> QED  BY <1>8, <2>3, <3>2 DEF OwesCount, IsPen
  <2>4. FiguresKept(a)
    BY DEF ReviewsInv
  <2> QED  BY <1>2, <2>2, <2>3, <2>4 DEF FiguresKept
<1>12. VotesKept(v)'
  <2>1. review[v].helpful = Cardinality(Voters(v, 1)) - Cardinality(Voters(v, -1))
    BY <1>2 DEF ReviewsInv, VotesKept
  <2>2. /\ IsFiniteSet(Voters(v, 1)') /\ IsFiniteSet(Voters(v, -1)')
        /\ Cardinality(Voters(v, 1)') - Cardinality(Voters(v, -1)')
             = Cardinality(Voters(v, 1)) - Cardinality(Voters(v, -1)) + delta
    BY <1>2, VoteCounts
  <2> QED  BY <1>2, <1>6, <1>7, <1>8, <2>1, <2>2 DEF VotesKept
<1>13. ASSUME NEW u \in Review, u # v
       PROVE  VotesKept(u)'
  <2>1. \A s \in Shopper : vote'[<<u, s>>] = vote[<<u, s>>]
    BY <1>2, <1>13 DEF ReviewsInv, ReviewTables
  <2>2. \A d : Voters(u, d)' = Voters(u, d)
    BY <2>1 DEF Voters
  <2>3. VotesKept(u)
    BY DEF ReviewsInv
  <2> QED  BY <1>6, <1>8, <1>13, <2>1, <2>2, <2>3 DEF VotesKept
<1> QED  BY <1>9, <1>10, <1>11, <1>12, <1>13 DEF ReviewsInv

-----------------------------------------------------------------------------

\* The steps between the statements.
LEMMA SlotStepsKeep ==
    ASSUME ReviewsInv, NEW r \in Request,
           \/ \E v \in Review : FindReview(r, v)
           \/ \E v \in Review, c \in Shopper, delta \in {1, -1} : FindVoted(r, v, c, delta)
           \/ RereadReview(r) \/ CountReviews(r) \/ DropPen(r)
    PROVE  ReviewsInv'
<1>1. IsPen(Idle) /\ Idle.stage = "idle"
  BY DEF IsPen, Idle
<1>2. ASSUME NEW v \in Review, FindReview(r, v)
      PROVE  ReviewsInv'
  <2> DEFINE x == [stage |-> "removing", review |-> v, article |-> review[v].article]
  <2>1. IsPen(x)
    BY <1>2 DEF FindReview, IsPen, Posted
  <2>2. /\ pen' = [pen EXCEPT ![r] = x] /\ pen[r] = Idle
        /\ UNCHANGED <<article, review, vote, outdated>>
    BY <1>2 DEF FindReview
  <2>3. \A a : ~ OwesCount(r, a)
    BY <1>1, <2>2 DEF OwesCount
  <2> HIDE DEF x
  <2> QED  BY <2>1, <2>2, <2>3, SlotStep
<1>3. ASSUME NEW v \in Review, NEW c \in Shopper, NEW delta \in {1, -1},
             FindVoted(r, v, c, delta)
      PROVE  ReviewsInv'
  <2> DEFINE x == [stage |-> "voting", review |-> v, voter |-> c,
                   delta |-> delta, article |-> review[v].article]
  <2>1. IsPen(x)
    BY DEF IsPen
  <2>2. /\ pen' = [pen EXCEPT ![r] = x] /\ pen[r] = Idle
        /\ UNCHANGED <<article, review, vote, outdated>>
    BY <1>3 DEF FindVoted
  <2>3. \A a : ~ OwesCount(r, a)
    BY <1>1, <2>2 DEF OwesCount
  <2> HIDE DEF x
  <2> QED  BY <2>1, <2>2, <2>3, SlotStep
<1>4. CASE RereadReview(r)
  <2>1. /\ pen[r].stage = "edited"
        /\ UNCHANGED <<article, review, vote, outdated>>
    BY <1>4 DEF RereadReview
  <2>2. CASE Posted(pen[r].review)
    <3> DEFINE x == [stage |-> "counting", article |-> pen[r].article]
    <3>1. pen' = [pen EXCEPT ![r] = x]
      BY <1>4, <2>2 DEF RereadReview, ToCount
    <3>2. IsPen(x) /\ x.stage = "counting" /\ x.article = pen[r].article
      BY DEF IsPen
    <3>3. \A a : OwesCount(r, a) => x.article = a
      BY <3>2 DEF OwesCount
    <3> HIDE DEF x
    <3> QED  BY <2>1, <3>1, <3>2, <3>3, SlotStep
  <2>3. CASE ~ Posted(pen[r].review)
    <3>1. pen' = [pen EXCEPT ![r] = Idle]
      BY <1>4, <2>3 DEF RereadReview, Answered
    <3>2. \A a : ~ OwesCount(r, a)
      BY <2>1, <2>3 DEF OwesCount
    <3> QED  BY <1>1, <2>1, <3>1, <3>2, SlotStep
  <2> QED  BY <2>2, <2>3
<1>5. CASE CountReviews(r)
  <2> DEFINE x == [stage |-> "counted", article |-> pen[r].article,
                   tally |-> Tally(pen[r].article)]
  <2>1. /\ pen' = [pen EXCEPT ![r] = x]
        /\ UNCHANGED <<article, review, vote, outdated>>
    BY <1>5 DEF CountReviews
  <2>2. IsPen(x) /\ x.stage = "counted" /\ x.article = pen[r].article
    BY DEF IsPen
  <2>3. \A a : OwesCount(r, a) => x.article = a
    BY <2>2 DEF OwesCount
  <2> HIDE DEF x
  <2> QED  BY <2>1, <2>2, <2>3, SlotStep
<1>6. CASE DropPen(r)
  <2>1. /\ pen' = [pen EXCEPT ![r] = Idle]
        /\ outdated' = IF pen[r].stage \in {"edited", "counting", "counted"}
                       THEN outdated \cup {pen[r].article} ELSE outdated
        /\ UNCHANGED <<article, review, vote>>
    BY <1>6 DEF DropPen, Answered
  <2>2. \A a : OwesCount(r, a) => a \in outdated'
    BY <2>1 DEF OwesCount
  <2> QED  BY <1>1, <2>1, <2>2, SlotStep
<1> QED  BY <1>2, <1>3, <1>4, <1>5, <1>6

LEMMA ReviewsKeep == ReviewsInv /\ [ReviewsNext]_reviewVars => ReviewsInv'
<1> SUFFICES ASSUME ReviewsInv, [ReviewsNext]_reviewVars PROVE ReviewsInv'
  OBVIOUS
<1>1. CASE UNCHANGED reviewVars
  BY <1>1 DEF reviewVars, ReviewsInv, ReviewTables, IsPen, FiguresKept, VotesKept, OwesCount,
              Tally, ReviewsOf, Voters, Posted
<1>2. ASSUME NEW r \in Request, NEW v \in Review, NEW n \in Stars, NEW a \in Article,
             NEW c \in Shopper, CreateReview(r, v, a, c, n)
      PROVE  ReviewsInv'
  BY <1>2, CreateReviewKeeps
<1>3. ASSUME NEW r \in Request, NEW v \in Review, NEW n \in Stars, UpdateReview(r, v, n)
      PROVE  ReviewsInv'
  BY <1>3, UpdateReviewKeeps
<1>4. ASSUME NEW r \in Request, NEW v \in Review,
             \/ FindReview(r, v)
             \/ \E c \in Shopper, delta \in {1, -1} : FindVoted(r, v, c, delta)
      PROVE  ReviewsInv'
  BY <1>4, SlotStepsKeep
<1>5. ASSUME NEW r \in Request, RereadReview(r) \/ CountReviews(r) \/ DropPen(r)
      PROVE  ReviewsInv'
  BY <1>5, SlotStepsKeep
<1>6. ASSUME NEW r \in Request, DeleteReview(r) \/ WriteRating(r) \/ Vote(r)
      PROVE  ReviewsInv'
  BY <1>6, DeleteReviewKeeps, WriteRatingKeeps, VoteKeeps
<1>7. ASSUME NEW a \in Article, DeleteArticle(a)
      PROVE  ReviewsInv'
  BY <1>7, DeleteArticleKeeps
<1> QED  BY <1>1, <1>2, <1>3, <1>4, <1>5, <1>6, <1>7 DEF ReviewsNext

LEMMA ReviewsInvImplies == ReviewsInv => FiguresAreTheReviews
<1> SUFFICES ASSUME ReviewsInv PROVE FiguresAreTheReviews
  OBVIOUS
<1>1. ASSUME NEW a \in Article \ outdated
      PROVE  \/ \E r \in Request : pen[r] # Idle /\ pen[r].article = a
             \/ ~ article[a].there
             \/ Tally(a) = [sum |-> article[a].sum, count |-> article[a].count]
  <2>1. FiguresKept(a)
    BY DEF ReviewsInv
  <2>2. \A r \in Request : OwesCount(r, a) => pen[r] # Idle /\ pen[r].article = a
    BY DEF OwesCount, Idle
  <2> QED  BY <2>1, <2>2 DEF FiguresKept
<1>2. \A v \in Review :
         Posted(v) => review[v].helpful = Cardinality(Voters(v, 1)) - Cardinality(Voters(v, -1))
  BY DEF ReviewsInv, VotesKept
<1> QED  BY <1>1, <1>2 DEF FiguresAreTheReviews

\* The rating and the number a product shows are those of its reviews, unless a
\* request is still at work on it or a recalculation was overtaken or failed; and
\* a review's helpful votes are one for each voter (recalcProduct, Vote).
THEOREM FiguresAreKept == ReviewsSpec => []FiguresAreTheReviews
<1>1. ReviewsInv /\ [ReviewsNext]_reviewVars => ReviewsInv'
  BY ReviewsKeep
<1> QED  BY <1>1, ReviewsBegin, ReviewsInvImplies, PTL DEF ReviewsSpec

-----------------------------------------------------------------------------

(* Bnpl.  Its types; that a debt counts what its payments add up to, and    *)
(* stays settled; that the balances hold the payments; and that nobody who *)
(* owes is deleted.                                                        *)
(*                                                                         *)
(* Types.  Every action of one request leaves the slots of the others, and *)
(* every write of a row leaves the other rows.                             *)

Absents == {NoDebtRow, GoneDebtRow}

LEMMA RowFacts ==
    /\ NoDebtRow.state = "absent" /\ NoDebtRow.customer = NoPhone
    /\ GoneDebtRow.state = "gone" /\ GoneDebtRow.customer = NoPhone
    /\ NoPaymentRow.debt = {} /\ NoPaymentRow.amount = 0
    /\ VoidedRow.debt = {} /\ VoidedRow.amount = 0
    /\ Idle.stage = "idle"
BY DEF NoDebtRow, GoneDebtRow, NoPaymentRow, VoidedRow, Idle

LEMMA SlotTyped ==
    ASSUME desk \in [Request -> Task \cup {Idle}], NEW r \in Request,
           NEW entry \in Task \cup {Idle}, desk' = [desk EXCEPT ![r] = entry]
    PROVE  desk' \in [Request -> Task \cup {Idle}]
OBVIOUS

LEMMA AnswerTyped ==
    ASSUME desk \in [Request -> Task \cup {Idle}], NEW r \in Request,
           desk' = Answered(desk, r)
    PROVE  desk' \in [Request -> Task \cup {Idle}]
BY SlotTyped DEF Answered

LEMMA LookUpTyped ==
    ASSUME NEW c \in Customer, NEW p \in Phone, NEW stage \in {"creating", "renaming"}
    PROVE  [stage |-> stage, customer |-> c, phone |-> p, seen |-> Holders(p)] \in Task
BY DEF Holders, Task

\* What a request in each stage carries.
LEMMA TaskFacts ==
    ASSUME NEW x \in Task \cup {Idle}
    PROVE  /\ x.stage \in {"creating", "renaming"} =>
                 x.customer \in Customer /\ x.phone \in Phone
           /\ x.stage = "removing" => x.customer \in Customer
           /\ x.stage = "crediting" =>
                 /\ x.debt \in Debt /\ x.amount \in Paying /\ x.method \in PayMethod
                 /\ x.seen \in DebtRow
BY RowFacts DEF Task

LEMMA Int32Range ==
    ASSUME NEW n \in Int
    PROVE  Int32(n) \in (-MaxInt - 1)..MaxInt
<1> DEFINE m == 2 * (MaxInt + 1)
<1>1. m \in Nat /\ m > 0
  BY BnplAssumption
<1>2. n + MaxInt + 1 \in Int
  BY BnplAssumption
<1>3. (n + MaxInt + 1) % m \in 0..(m - 1)
  BY <1>1, <1>2
<1> QED  BY <1>3, BnplAssumption DEF Int32

LEMMA UnlinkedTyped ==
    ASSUME payment \in [PaymentId -> PaymentRow \cup {NoPaymentRow, VoidedRow}],
           NEW D
    PROVE  Unlinked(D) \in [PaymentId -> PaymentRow \cup {NoPaymentRow, VoidedRow}]
<1> SUFFICES ASSUME NEW t \in PaymentId, payment[t].debt \in { {d} : d \in D }
             PROVE  [payment[t] EXCEPT !.debt = {}] \in PaymentRow
  BY DEF Unlinked
<1>1. payment[t].debt # {}
  OBVIOUS
<1>2. payment[t] \in PaymentRow
  BY <1>1, RowFacts
<1> QED  BY <1>2 DEF PaymentRow

LEMMA WithoutTyped ==
    ASSUME debt \in [Debt -> DebtRow \cup Absents], NEW D
    PROVE  Without(D) \in [Debt -> DebtRow \cup Absents]
BY DEF Without, Absents

LEMMA TypesInit == BnplInit => BnplTypeOK
<1> SUFFICES ASSUME BnplInit PROVE BnplTypeOK
  OBVIOUS
<1> USE DEF BnplInit
<1>1. /\ customer \in [Customer -> [state: {"absent", "there", "gone"},
                                    phone: Phone \cup {NoPhone}]]
      /\ debt \in [Debt -> DebtRow \cup {NoDebtRow, GoneDebtRow}]
      /\ payment \in [PaymentId -> PaymentRow \cup {NoPaymentRow, VoidedRow}]
  OBVIOUS
<1>2. coffer \in [Balance -> Int] /\ desk \in [Request -> Task \cup {Idle}]
  OBVIOUS
<1>3. doubtful \subseteq Customer \cup Debt /\ rewritten \in BOOLEAN
  OBVIOUS
<1> QED  BY <1>1, <1>2, <1>3 DEF BnplTypeOK

LEMMA DoubtTyped ==
    ASSUME doubtful \subseteq Customer \cup Debt, NEW ids, NEW changed,
           ids \subseteq Customer \cup Debt, DoubtIf(ids, changed)
    PROVE  doubtful' \subseteq Customer \cup Debt /\ doubtful \subseteq doubtful'
BY DEF DoubtIf

LEMMA CreditTyped ==
    ASSUME BnplTypeOK, NEW r \in Request, NEW t \in PaymentId, Credit(r, t)
    PROVE  BnplTypeOK'
<1> DEFINE d == desk[r].debt
           paid == Int32(desk[r].seen.paid + desk[r].amount)
           status == Settled(paid, desk[r].seen.total)
<1>1. CreditWith(r, t, paid, status)
  BY DEF Credit
<1>2. /\ d \in Debt /\ desk[r].amount \in Paying /\ desk[r].method \in PayMethod
      /\ desk[r].seen \in DebtRow
  BY <1>1, TaskFacts DEF CreditWith, BnplTypeOK
<1>3. desk[r].amount \in 0..MaxInt /\ desk[r].seen.paid \in Int
  <2>1. desk[r].amount \in 0..MaxInt
    BY <1>2, BnplAssumption
  <2> DEFINE seen == desk[r].seen
  <2>2. seen \in DebtRow
    BY <1>2
  <2> HIDE DEF seen
  <2>3. seen.paid \in Int
    BY <2>2, BnplAssumption DEF DebtRow
  <2> QED  BY <2>1, <2>3 DEF seen
<1>4. paid \in (-MaxInt - 1)..MaxInt
  BY <1>3, Int32Range, BnplAssumption
<1>5. status \in {"active", "completed"}
  BY DEF Settled
<1> HIDE DEF d, paid, status
<1>6. debt[d] \in DebtRow
  BY <1>1 DEF CreditWith, d
<1>7. debt' \in [Debt -> DebtRow \cup {NoDebtRow, GoneDebtRow}]
  <2>1. debt' = [debt EXCEPT ![d].paid = paid, ![d].state = status]
    BY <1>1 DEF CreditWith, d
  <2>2. [debt[d] EXCEPT !.paid = paid, !.state = status] \in DebtRow
    BY <1>4, <1>5, <1>6 DEF DebtRow
  <2>3. debt' = [debt EXCEPT ![d] = [debt[d] EXCEPT !.paid = paid, !.state = status]]
    BY <1>2, <2>1 DEF BnplTypeOK
  <2> QED  BY <2>2, <2>3 DEF BnplTypeOK
<1>8. payment' \in [PaymentId -> PaymentRow \cup {NoPaymentRow, VoidedRow}]
  <2> DEFINE row == [debt |-> {d}, amount |-> desk[r].amount, method |-> desk[r].method]
  <2>1. row \in PaymentRow
    BY <1>2, <1>3 DEF PaymentRow
  <2>2. payment' = [payment EXCEPT ![t] = row]
    BY <1>1 DEF CreditWith, d
  <2> HIDE DEF row
  <2> QED  BY <2>1, <2>2 DEF BnplTypeOK
<1>9. desk' \in [Request -> Task \cup {Idle}]
  BY <1>1, AnswerTyped DEF CreditWith, BnplTypeOK
<1>10. doubtful' \subseteq Customer \cup Debt
  BY <1>1, <1>2, DoubtTyped DEF CreditWith, BnplTypeOK, d
<1>11. coffer' \in [Balance -> Int]
  <2>1. coffer["cash"] + desk[r].amount \in Int
    BY <1>3 DEF BnplTypeOK, Balance
  <2> QED  BY <2>1 DEF Credit, BnplTypeOK
<1> QED  BY <1>1, <1>7, <1>8, <1>9, <1>10, <1>11 DEF CreditWith, BnplTypeOK

LEMMA VoidTyped ==
    ASSUME BnplTypeOK, NEW t \in PaymentId, VoidPayment(t)
    PROVE  BnplTypeOK'
<1>1. payment[t] \in PaymentRow
  BY DEF VoidPayment, Recorded, BnplTypeOK
<1>2. payment[t].amount \in Int /\ payment[t].debt \subseteq Debt
  BY <1>1 DEF PaymentRow
<1>3. payment' \in [PaymentId -> PaymentRow \cup {NoPaymentRow, VoidedRow}]
  BY DEF VoidPayment, BnplTypeOK
<1>4. coffer' \in [Balance -> Int]
  <2>1. \A k \in Balance : coffer[k] \in Int /\ coffer[k] - payment[t].amount \in Int
    BY <1>2 DEF BnplTypeOK
  <2> QED  BY <2>1 DEF VoidPayment
<1>5. doubtful' \subseteq Customer \cup Debt
  BY <1>2 DEF VoidPayment, BnplTypeOK
<1>6. rewritten' \in BOOLEAN
  <2>1. rewritten' = (rewritten \/ VoidBucket(payment[t].method) = {})
    BY DEF VoidPayment
  <2> QED  BY <2>1
<1>7. UNCHANGED <<customer, debt, desk>>
  BY DEF VoidPayment
<1> QED  BY <1>3, <1>4, <1>5, <1>6, <1>7 DEF BnplTypeOK

LEMMA RewriteTyped ==
    ASSUME BnplTypeOK, NEW t \in PaymentId, NEW a \in Paying, RewritePayment(t, a)
    PROVE  BnplTypeOK'
<1>1. payment[t] \in PaymentRow
  BY DEF RewritePayment, Recorded, BnplTypeOK
<1>2. a \in 0..MaxInt /\ payment[t].debt \subseteq Debt
  BY <1>1, BnplAssumption DEF PaymentRow
<1>3. [payment[t] EXCEPT !.amount = a] \in PaymentRow
  BY <1>1, <1>2 DEF PaymentRow
<1>4. payment' \in [PaymentId -> PaymentRow \cup {NoPaymentRow, VoidedRow}]
  BY <1>3 DEF RewritePayment, BnplTypeOK
<1>5. doubtful' \subseteq Customer \cup Debt
  BY <1>2 DEF RewritePayment, BnplTypeOK
<1> QED  BY <1>4, <1>5 DEF RewritePayment, BnplTypeOK

LEMMA CustomersTyped ==
    ASSUME BnplTypeOK, NEW r \in Request,
           CreateCustomer(r) \/ UpdateCustomer(r) \/ DeleteCustomer(r)
    PROVE  BnplTypeOK'
<1> DEFINE c == desk[r].customer
           Rows == [Customer -> [state: {"absent", "there", "gone"},
                                 phone: Phone \cup {NoPhone}]]
<1>1. c \in Customer
  BY TaskFacts DEF CreateCustomer, UpdateCustomer, DeleteCustomer, BnplTypeOK
<1>2. desk[r].stage \in {"creating", "renaming"} => desk[r].phone \in Phone
  BY TaskFacts DEF BnplTypeOK
<1>3. desk' \in [Request -> Task \cup {Idle}]
  BY AnswerTyped DEF CreateCustomer, UpdateCustomer, DeleteCustomer, BnplTypeOK
<1>4. doubtful' \subseteq Customer \cup Debt
  BY <1>1, DoubtTyped DEF CreateCustomer, UpdateCustomer, DeleteCustomer, BnplTypeOK
<1>5. CASE CreateCustomer(r)
  <2>1. customer' \in Rows
    BY <1>1, <1>2, <1>5 DEF CreateCustomer, BnplTypeOK
  <2> QED  BY <1>3, <1>4, <1>5, <2>1 DEF CreateCustomer, BnplTypeOK
<1>6. CASE UpdateCustomer(r)
  <2>1. customer' \in Rows
    BY <1>1, <1>2, <1>6 DEF UpdateCustomer, BnplTypeOK
  <2> QED  BY <1>3, <1>4, <1>6, <2>1 DEF UpdateCustomer, BnplTypeOK
<1>7. CASE DeleteCustomer(r)
  <2>1. customer' \in Rows
    BY <1>1, <1>7 DEF DeleteCustomer, BnplTypeOK
  <2>2. debt' \in [Debt -> DebtRow \cup {NoDebtRow, GoneDebtRow}]
    BY <1>7, WithoutTyped DEF DeleteCustomer, BnplTypeOK, Absents
  <2>3. payment' \in [PaymentId -> PaymentRow \cup {NoPaymentRow, VoidedRow}]
    BY <1>7, UnlinkedTyped DEF DeleteCustomer, BnplTypeOK
  <2> QED  BY <1>3, <1>4, <1>7, <2>1, <2>2, <2>3 DEF DeleteCustomer, BnplTypeOK
<1> QED  BY <1>5, <1>6, <1>7

LEMMA TypesStep == BnplTypeOK /\ [BnplNext]_bnplVars => BnplTypeOK'
<1> SUFFICES ASSUME BnplTypeOK, [BnplNext]_bnplVars PROVE BnplTypeOK'
  OBVIOUS
<1>1. CASE bnplVars' = bnplVars
  BY <1>1 DEF bnplVars, BnplTypeOK
<1>2. ASSUME NEW r \in Request, NEW c \in Customer, NEW p \in Phone,
             BeginCreate(r, c, p) \/ BeginUpdate(r, c, p)
      PROVE  BnplTypeOK'
  <2>1. \E stage \in {"creating", "renaming"} :
            desk' = [desk EXCEPT ![r] = [stage |-> stage, customer |-> c, phone |-> p,
                                         seen |-> Holders(p)]]
    BY <1>2 DEF BeginCreate, BeginUpdate, LookUpPhone
  <2>2. desk' \in [Request -> Task \cup {Idle}]
    BY <2>1, LookUpTyped, SlotTyped DEF BnplTypeOK
  <2> QED  BY <1>2, <2>2 DEF BeginCreate, BeginUpdate, BnplTypeOK
<1>3. ASSUME NEW r \in Request, NEW c \in Customer, BeginDelete(r, c)
      PROVE  BnplTypeOK'
  <2>1. Standing(c) \subseteq Debt \X {"active", "completed"}
    <3> SUFFICES ASSUME NEW d \in Debt, debt[d].customer = c
                 PROVE  debt[d].state \in {"active", "completed"}
      BY DEF Standing, DebtsOf
    <3>1. debt[d] \in DebtRow
      BY BnplAssumption, RowFacts DEF BnplTypeOK
    <3> QED  BY <3>1 DEF DebtRow
  <2>2. [stage |-> "removing", customer |-> c, seen |-> Standing(c)] \in Task
    BY <2>1 DEF Task
  <2>3. desk' \in [Request -> Task \cup {Idle}]
    BY <1>3, <2>2, SlotTyped DEF BeginDelete, BnplTypeOK
  <2> QED  BY <1>3, <2>3 DEF BeginDelete, BnplTypeOK
<1>4. ASSUME NEW d \in Debt, NEW c \in Customer,
             NEW total \in Total \cup { TotalAmount(b) : b \in Basket },
             NewBNPL(d, c, total)
      PROVE  BnplTypeOK'
  <2>1. total \in (-MaxInt - 1)..MaxInt
    BY BnplAssumption, BasketsHaveTotals
  <2> DEFINE row == [state |-> "active", customer |-> c, total |-> total, paid |-> 0]
  <2>2. row \in DebtRow
    BY <2>1, BnplAssumption DEF DebtRow
  <2>3. debt' = [debt EXCEPT ![d] = row]
    BY <1>4 DEF NewBNPL
  <2> HIDE DEF row
  <2> QED  BY <1>4, <2>2, <2>3 DEF NewBNPL, BnplTypeOK
<1>5. ASSUME NEW d \in Debt, DeleteBNPL(d)
      PROVE  BnplTypeOK'
  <2>1. debt' \in [Debt -> DebtRow \cup {NoDebtRow, GoneDebtRow}]
    BY <1>5, WithoutTyped DEF DeleteBNPL, BnplTypeOK, Absents
  <2>2. payment' \in [PaymentId -> PaymentRow \cup {NoPaymentRow, VoidedRow}]
    BY <1>5, UnlinkedTyped DEF DeleteBNPL, BnplTypeOK
  <2> QED  BY <1>5, <2>1, <2>2 DEF DeleteBNPL, BnplTypeOK
<1>6. ASSUME NEW r \in Request, NEW d \in Debt, NEW a \in Paying, NEW m \in PayMethod,
             BeginCredit(r, d, a, m)
      PROVE  BnplTypeOK'
  <2>1. [stage |-> "crediting", debt |-> d, amount |-> a, method |-> m,
         seen |-> debt[d]] \in Task
    BY <1>6 DEF BeginCredit, Task
  <2>2. desk' \in [Request -> Task \cup {Idle}]
    BY <1>6, <2>1, SlotTyped DEF BeginCredit, BnplTypeOK
  <2> QED  BY <1>6, <2>2 DEF BeginCredit, BnplTypeOK
<1>7. ASSUME NEW r \in Request, BnplStep(r)
      PROVE  BnplTypeOK'
  <2>1. CASE GiveUpDesk(r)
    BY <2>1, AnswerTyped DEF GiveUpDesk, BnplTypeOK
  <2> QED  BY <1>7, <2>1, CreditTyped, CustomersTyped DEF BnplStep
<1> QED
  BY <1>1, <1>2, <1>3, <1>4, <1>5, <1>6, <1>7, VoidTyped, RewriteTyped DEF BnplNext

-----------------------------------------------------------------------------
(* Arithmetic of int32.                                                    *)

\* A remainder is what it is.
LEMMA RemainderIs ==
    ASSUME NEW m \in Nat, m > 0, NEW q \in Int, NEW s \in 0..(m - 1)
    PROVE  (m * q + s) % m = s
<1> DEFINE y == m * q + s
<1>1. y \in Int
  OBVIOUS
<1>2. y % m \in 0..(m-1) /\ y = m * (y \div m) + (y % m) /\ y \div m \in Int
  BY <1>1
<1> QED BY <1>1, <1>2
LEMMA AddToRemainder ==
    ASSUME NEW m \in Nat, m > 0, NEW x \in Int, NEW a \in Int
    PROVE  ((x % m) + a) % m = (x + a) % m
<1> DEFINE k == x \div m
           y == (x % m) + a
<1>1. x % m \in 0..(m-1) /\ x = m * (x \div m) + (x % m) /\ x \div m \in Int
  OBVIOUS
<1>2. y \in Int /\ k \in Int /\ x + a = m * k + y
  BY <1>1
<1>3. y % m \in 0..(m-1) /\ y = m * (y \div m) + (y % m) /\ y \div m \in Int
  BY <1>2
<1> HIDE DEF k, y
<1>4. x + a = m * (k + (y \div m)) + (y % m)
  BY <1>2, <1>3
<1>5. k + (y \div m) \in Int
  BY <1>2, <1>3
<1>6. (x + a) % m = y % m
  BY <1>3, <1>4, <1>5, RemainderIs
<1> QED BY <1>6 DEF y

\* What a debt counts, once more: int32 additions may be postponed.
LEMMA Int32Adds ==
    ASSUME NEW n \in Int, NEW a \in Int
    PROVE  Int32(Int32(n) + a) = Int32(n + a)
<1> DEFINE m == 2 * (MaxInt + 1)
           h == MaxInt + 1
<1>1. m \in Nat /\ m > 0 /\ h \in Int
  BY BnplAssumption
<1>2. n + h \in Int /\ (n + h) % m \in Int
  BY <1>1
<1>3. (((n + h) % m) + a) % m = (n + h + a) % m
  BY <1>1, <1>2, AddToRemainder
<1>4. \A k \in Int : Int32(k) = ((k + h) % m) - h
  BY BnplAssumption DEF Int32
<1> HIDE DEF m, h
<1>5. Int32(n) \in Int /\ Int32(n) + a + h = ((n + h) % m) + a
  BY <1>1, <1>2, <1>4
<1>6. n + h + a = n + a + h
  BY <1>1
<1>7. Int32(Int32(n) + a) = ((Int32(n) + a + h) % m) - h
  BY <1>4, <1>5
<1>8. Int32(n + a) = ((n + a + h) % m) - h
  BY <1>4
<1>9. (Int32(n) + a + h) % m = (n + a + h) % m
  BY <1>3, <1>5, <1>6
<1> QED  BY <1>7, <1>8, <1>9

\* A sum that fits is itself.
LEMMA Int32Fits ==
    ASSUME NEW n \in 0..MaxInt
    PROVE  Int32(n) = n
<1> DEFINE m == 2 * (MaxInt + 1)
<1>1. m \in Nat /\ m > 0 /\ n + MaxInt + 1 \in 0..(m - 1)
  BY BnplAssumption
<1>2. (m * 0 + (n + MaxInt + 1)) % m = n + MaxInt + 1
  BY <1>1, RemainderIs
<1>3. m * 0 + (n + MaxInt + 1) = n + MaxInt + 1
  BY <1>1
<1> QED  BY <1>1, <1>2, <1>3, BnplAssumption DEF Int32

-----------------------------------------------------------------------------
(* The payments of a debt.                                                 *)

\* What the payments T of the table P are.
Amounts(P, T) == [t \in T |-> P[t].amount]

LEMMA CoinsAreAmounts ==
    \A T : Coins(T) = CoinSum(Amounts(payment, T))
BY DEF Coins, Amounts

\* The payments of a debt in the table P.
PaymentsIn(P, d) == { t \in PaymentId : P[t].debt = {d} }

PaymentTable == [PaymentId -> PaymentRow \cup {NoPaymentRow, VoidedRow}]

LEMMA AmountsAreNat ==
    ASSUME NEW P \in PaymentTable, NEW t \in PaymentId
    PROVE  P[t].amount \in Nat
BY RowFacts, BnplAssumption DEF PaymentTable, PaymentRow

LEMMA AmountsAreTables ==
    ASSUME NEW P \in PaymentTable, NEW T \in SUBSET PaymentId
    PROVE  /\ IsTable(Amounts(P, T)) /\ CoinSum(Amounts(P, T)) \in Nat
           /\ DOMAIN Amounts(P, T) = T
           /\ \A t \in T : Amounts(P, T)[t] = P[t].amount /\ P[t].amount \in Nat
<1>1. IsFiniteSet(PaymentId)
  BY FS_Interval, BnplAssumption DEF PaymentId
<1>2. IsFiniteSet(T)
  BY <1>1, FS_Subset
<1>3. \A t \in T : P[t].amount \in Nat
  BY AmountsAreNat
<1>4. IsTable(Amounts(P, T))
  BY <1>2, <1>3 DEF IsTable, Amounts
<1> QED  BY <1>3, <1>4, CoinsAreFinite DEF Amounts

\* A payment more.
LEMMA OnePaymentMore ==
    ASSUME NEW P \in PaymentTable, NEW Q \in PaymentTable, NEW S \in SUBSET PaymentId,
           NEW t \in PaymentId \ S, \A u \in S : Q[u].amount = P[u].amount
    PROVE  CoinSum(Amounts(Q, S \cup {t})) = CoinSum(Amounts(P, S)) + Q[t].amount
<1> DEFINE f == Amounts(P, S)
           g == Amounts(Q, S \cup {t})
<1>1. IsTable(f) /\ CoinSum(f) \in Nat /\ DOMAIN f = S
      /\ \A u \in S : f[u] = P[u].amount
  BY AmountsAreTables
<1>2. IsTable(g) /\ CoinSum(g) \in Nat /\ DOMAIN g = S \cup {t}
      /\ \A u \in S \cup {t} : g[u] = Q[u].amount /\ Q[u].amount \in Nat
  BY AmountsAreTables
<1> HIDE DEF f, g
<1>3. CoinSum(g) - Worth(g, t) = CoinSum(f) - Worth(f, t)
  <2>1. DOMAIN g \ {t} = DOMAIN f \ {t}
    BY <1>1, <1>2
  <2>2. \A y \in DOMAIN f \ {t} : g[y] = f[y]
    BY <1>1, <1>2
  <2> QED  BY <1>1, <1>2, <2>1, <2>2, CoinStep
<1>4. Worth(f, t) = 0 /\ Worth(g, t) = Q[t].amount
  BY <1>1, <1>2 DEF Worth
<1> QED  BY <1>1, <1>2, <1>3, <1>4 DEF f, g

\* A payment with another amount.
LEMMA OneAmountChanged ==
    ASSUME NEW P \in PaymentTable, NEW Q \in PaymentTable, NEW t \in PaymentId,
           \A u \in PaymentId \ {t} : Q[u].amount = P[u].amount
    PROVE  CoinSum(Amounts(Q, PaymentId))
             = CoinSum(Amounts(P, PaymentId)) + Q[t].amount - P[t].amount
<1> DEFINE f == Amounts(P, PaymentId)
           g == Amounts(Q, PaymentId)
<1>1. IsTable(f) /\ CoinSum(f) \in Nat /\ DOMAIN f = PaymentId
      /\ \A u \in PaymentId : f[u] = P[u].amount /\ P[u].amount \in Nat
  BY AmountsAreTables
<1>2. IsTable(g) /\ CoinSum(g) \in Nat /\ DOMAIN g = PaymentId
      /\ \A u \in PaymentId : g[u] = Q[u].amount /\ Q[u].amount \in Nat
  BY AmountsAreTables
<1> HIDE DEF f, g
<1>3. CoinSum(g) - Worth(g, t) = CoinSum(f) - Worth(f, t)
  <2>1. DOMAIN g \ {t} = DOMAIN f \ {t}
    BY <1>1, <1>2
  <2>2. \A y \in DOMAIN f \ {t} : g[y] = f[y]
    BY <1>1, <1>2
  <2> QED  BY <1>1, <1>2, <2>1, <2>2, CoinStep
<1>4. Worth(f, t) = P[t].amount /\ Worth(g, t) = Q[t].amount
  BY <1>1, <1>2 DEF Worth
<1> QED  BY <1>1, <1>2, <1>3, <1>4 DEF f, g

\* Payments that were never recorded, or voided, add nothing.
LEMMA RecordedIsAll ==
    ASSUME BnplTypeOK
    PROVE  Coins({ t \in PaymentId : Recorded(t) }) = CoinSum(Amounts(payment, PaymentId))
<1> DEFINE T == { t \in PaymentId : Recorded(t) }
           f == Amounts(payment, T)
           g == Amounts(payment, PaymentId)
<1>1. DOMAIN f = T /\ DOMAIN g = PaymentId
  BY DEF Amounts
<1>2. \A t \in T : f[t] = g[t]
  BY DEF Amounts
<1>3. \A t \in PaymentId \ T : g[t] = 0
  BY RowFacts DEF Amounts, Recorded
<1> HIDE DEF f, g
<1>4. \A t \in PaymentId \ T : {t} \X (1..g[t]) = {}
  BY <1>3
<1>5. CoinsOf(f) = CoinsOf(g)
  BY <1>1, <1>2, <1>4 DEF CoinsOf
<1> QED  BY <1>5, CoinsAreAmounts DEF CoinSum, f, g

-----------------------------------------------------------------------------
(* The three things that can happen to a debt that is in the books after a *)
(* step and about which there is no doubt.                                 *)

SamePayment(d, t) ==
    /\ payment'[t].debt = {d} <=> payment[t].debt = {d}
    /\ payment[t].debt = {d} => payment'[t].amount = payment[t].amount

Untouched(d) ==
    /\ debt'[d] = debt[d]
    /\ \A t \in PaymentId : SamePayment(d, t)

Opened(d) ==
    /\ debt[d] \notin DebtRow
    /\ debt'[d].state = "active" /\ debt'[d].paid = 0
    /\ payment' = payment

\* Payment t comes in, and is counted once.
Instalment(d, t) ==
    /\ debt[d] \in DebtRow
    /\ payment[t].debt # {d} /\ payment'[t].debt = {d}
    /\ \A u \in PaymentId \ {t} : payment'[u] = payment[u]
    /\ debt'[d].total = debt[d].total
    /\ debt'[d].paid = Int32(debt[d].paid + payment'[t].amount)
    /\ debt'[d].state = Settled(debt'[d].paid, debt'[d].total)

DebtMoves ==
    \A d \in Debt \ doubtful' : debt'[d] \in DebtRow =>
        Untouched(d) \/ Opened(d) \/ \E t \in PaymentId : Instalment(d, t)

LEMMA GoneIsNoRow == GoneDebtRow \notin DebtRow /\ NoDebtRow \notin DebtRow
BY RowFacts DEF DebtRow

LEMMA UnlinkedMoves ==
    ASSUME NEW D, BnplTypeOK, debt' = Without(D), payment' = Unlinked(D)
    PROVE  DebtMoves
<1> SUFFICES ASSUME NEW d \in Debt, debt'[d] \in DebtRow PROVE Untouched(d)
  BY DEF DebtMoves
<1>1. d \notin D /\ debt'[d] = debt[d]
  BY GoneIsNoRow DEF Without
<1>2. \A t \in PaymentId : SamePayment(d, t)
  <2> SUFFICES ASSUME NEW t \in PaymentId PROVE SamePayment(d, t)
    OBVIOUS
  <2>1. CASE payment[t].debt \in { {e} : e \in D }
    <3>1. payment[t] \in PaymentRow
      BY <2>1, RowFacts DEF BnplTypeOK
    <3>2. payment'[t].debt = {}
      BY <2>1, <3>1 DEF Unlinked, PaymentRow
    <3> QED  BY <1>1, <2>1, <3>2 DEF SamePayment
  <2>2. CASE payment[t].debt \notin { {e} : e \in D }
    <3>1. payment'[t] = payment[t]
      BY <2>2 DEF Unlinked
    <3> QED  BY <3>1 DEF SamePayment
  <2> QED  BY <2>1, <2>2
<1> QED  BY <1>1, <1>2 DEF Untouched

\* No debt is touched.
LEMMA QuietMoves ==
    ASSUME UNCHANGED <<debt, payment>>
    PROVE  DebtMoves
BY DEF DebtMoves, Untouched, SamePayment

LEMMA NewMoves ==
    ASSUME BnplTypeOK, NEW d \in Debt, NEW c, NEW total, NewBNPL(d, c, total)
    PROVE  DebtMoves
<1> SUFFICES ASSUME NEW e \in Debt PROVE Untouched(e) \/ Opened(e)
  BY DEF DebtMoves
<1>1. CASE e # d
  BY <1>1 DEF NewBNPL, Untouched, SamePayment, BnplTypeOK
<1>2. CASE e = d
  <2>1. debt[d] \notin DebtRow
    BY DEF NewBNPL, DebtRow
  <2> DEFINE row == [state |-> "active", customer |-> c, total |-> total, paid |-> 0]
  <2>2. debt' = [debt EXCEPT ![d] = row] /\ row.state = "active" /\ row.paid = 0
    BY DEF NewBNPL
  <2> HIDE DEF row
  <2>3. debt'[d] = row
    BY <2>2 DEF BnplTypeOK
  <2> QED  BY <1>2, <2>1, <2>2, <2>3 DEF NewBNPL, Opened
<1> QED  BY <1>1, <1>2

\* A payment of another debt, voided or rewritten, is none of d's.
LEMMA ElsewhereMoves ==
    ASSUME BnplTypeOK, NEW t \in PaymentId, payment[t].debt \subseteq doubtful',
           \A u \in PaymentId \ {t} : payment'[u] = payment[u],
           payment'[t].debt \subseteq payment[t].debt, debt' = debt
    PROVE  DebtMoves
<1> SUFFICES ASSUME NEW d \in Debt \ doubtful' PROVE Untouched(d)
  BY DEF DebtMoves
<1>1. payment[t].debt # {d} /\ payment'[t].debt # {d}
  OBVIOUS
<1> QED  BY <1>1 DEF Untouched, SamePayment

LEMMA VoidMoves ==
    ASSUME BnplTypeOK, NEW t \in PaymentId, VoidPayment(t)
    PROVE  DebtMoves
<1>1. payment' = [payment EXCEPT ![t] = VoidedRow]
  BY DEF VoidPayment
<1>2. payment'[t].debt = {}
  BY <1>1, RowFacts DEF BnplTypeOK
<1>3. \A u \in PaymentId \ {t} : payment'[u] = payment[u]
  BY <1>1 DEF BnplTypeOK
<1> QED  BY <1>2, <1>3, ElsewhereMoves DEF VoidPayment

LEMMA RewriteMoves ==
    ASSUME BnplTypeOK, NEW t \in PaymentId, NEW a, RewritePayment(t, a)
    PROVE  DebtMoves
<1>1. payment' = [payment EXCEPT ![t].amount = a]
  BY DEF RewritePayment
<1>2. payment[t] \in PaymentRow
  BY DEF RewritePayment, Recorded, BnplTypeOK
<1>3. payment'[t].debt = payment[t].debt
  BY <1>1, <1>2 DEF BnplTypeOK, PaymentRow
<1>4. \A u \in PaymentId \ {t} : payment'[u] = payment[u]
  BY <1>1 DEF BnplTypeOK
<1> QED  BY <1>3, <1>4, ElsewhereMoves DEF RewritePayment

LEMMA CreditMoves ==
    ASSUME BnplTypeOK, NEW r \in Request, NEW t \in PaymentId, Credit(r, t)
    PROVE  /\ DebtMoves
           /\ payment[t] = NoPaymentRow
           /\ payment'[t].amount = desk[r].amount /\ desk[r].amount \in Nat
           /\ payment'[t].debt = {desk[r].debt} /\ debt[desk[r].debt] \in DebtRow
           /\ debt'[desk[r].debt] \in DebtRow
           /\ \A u \in PaymentId \ {t} : payment'[u] = payment[u]
<1> DEFINE d == desk[r].debt
           a == desk[r].amount
           paid == Int32(desk[r].seen.paid + a)
           status == Settled(paid, desk[r].seen.total)
<1>1. CreditWith(r, t, paid, status)
  BY DEF Credit
<1>2. d \in Debt /\ a \in Nat
  BY <1>1, TaskFacts, BnplAssumption DEF CreditWith, BnplTypeOK
<1>3. /\ debt[d] \in DebtRow /\ payment[t] = NoPaymentRow
      /\ debt' = [debt EXCEPT ![d].paid = paid, ![d].state = status]
      /\ DoubtIf({d}, debt[d] # desk[r].seen)
  BY <1>1 DEF CreditWith
<1> DEFINE row == [debt |-> {d}, amount |-> a, method |-> desk[r].method]
<1>4. payment' = [payment EXCEPT ![t] = row] /\ row.debt = {d} /\ row.amount = a
  BY <1>1 DEF CreditWith
<1> HIDE DEF row
<1>5. payment'[t].debt = {d} /\ payment'[t].amount = a
  BY <1>4 DEF BnplTypeOK
<1>6. \A u \in PaymentId \ {t} : payment'[u] = payment[u]
  BY <1>4 DEF BnplTypeOK
<1>7. payment[t].debt = {}
  BY <1>3, RowFacts
<1>8. \A e \in Debt \ {d} : debt'[e] = debt[e]
  BY <1>3 DEF BnplTypeOK
<1>9. /\ debt'[d].paid = paid /\ debt'[d].state = status
      /\ debt'[d].total = debt[d].total
  BY <1>2, <1>3 DEF BnplTypeOK, DebtRow
<1>10. d \notin doubtful' => debt[d] = desk[r].seen
  BY <1>3 DEF DoubtIf
<1>11. debt'[d] \in DebtRow
  <2>1. BnplTypeOK'
    BY CreditTyped
  <2>2. debt'[d].state \in {"active", "completed"}
    BY <1>9 DEF Settled
  <2> QED  BY <1>2, <2>1, <2>2, RowFacts DEF BnplTypeOK
<1> HIDE DEF d, a
<1>12. DebtMoves
  <2> SUFFICES ASSUME NEW e \in Debt \ doubtful'
               PROVE  Untouched(e) \/ Instalment(e, t)
    BY DEF DebtMoves
  <2>1. CASE e # d
    <3>1. \A u \in PaymentId : SamePayment(e, u)
      BY <1>5, <1>6, <1>7, <2>1 DEF SamePayment
    <3> QED  BY <1>8, <2>1, <3>1 DEF Untouched
  <2>2. CASE e = d
    <3>1. desk[r].seen = debt[d]
      BY <1>10, <2>2
    <3>2. /\ debt'[d].paid = Int32(debt[d].paid + payment'[t].amount)
          /\ debt'[d].state = Settled(debt'[d].paid, debt'[d].total)
      BY <1>5, <1>9, <3>1
    <3> QED  BY <1>3, <1>5, <1>6, <1>7, <1>9, <2>2, <3>2 DEF Instalment
  <2> QED  BY <2>1, <2>2
<1> QED  BY <1>2, <1>3, <1>5, <1>6, <1>11, <1>12 DEF d, a

-----------------------------------------------------------------------------
(* The debts in the books are those of the payments, and about a debt not  *)
(* in doubt: what it counts as paid was paid, and if it is settled it was  *)
(* paid in full.                                                           *)
PaymentsHaveDebts ==
    \A t \in PaymentId, d \in Debt : payment[t].debt = {d} => debt[d] \in DebtRow

SettledIsPaid ==
    \A d \in Debt \ doubtful :
        debt[d] \in DebtRow /\ debt[d].state = "completed"
            => debt[d].paid >= debt[d].total

TillIsPayments ==
    rewritten \/ coffer["cash"] + coffer["bank"]
                    + coffer["terminal"] + coffer["mobile_apps"]
                 = CoinSum(Amounts(payment, PaymentId))

BooksInv ==
    BnplTypeOK /\ PaymentsHaveDebts /\ PaidIsWhatWasPaid /\ SettledIsPaid /\ TillIsPayments

\* What kind of step it was.
LEMMA BnplSteps ==
    ASSUME BnplTypeOK, [BnplNext]_bnplVars
    PROVE  \/ UNCHANGED <<debt, payment, coffer>> /\ doubtful \subseteq doubtful'
                                                  /\ rewritten' = rewritten
           \/ \E D \in SUBSET Debt :
                 /\ debt' = Without(D) /\ payment' = Unlinked(D)
                 /\ doubtful \subseteq doubtful'
                 /\ UNCHANGED <<coffer, rewritten>>
           \/ \E d \in Debt, c \in Customer :
                 \E total \in Total \cup { TotalAmount(b) : b \in Basket } : NewBNPL(d, c, total)
           \/ \E r \in Request, t \in PaymentId : Credit(r, t)
           \/ \E t \in PaymentId : VoidPayment(t)
           \/ \E t \in PaymentId, a \in Paying : RewritePayment(t, a)
<1> DEFINE Quiet == /\ UNCHANGED <<debt, payment, coffer>>
                    /\ doubtful \subseteq doubtful' /\ rewritten' = rewritten
           Gone(D) == /\ debt' = Without(D) /\ payment' = Unlinked(D)
                      /\ doubtful \subseteq doubtful' /\ UNCHANGED <<coffer, rewritten>>
<1>1. CASE bnplVars' = bnplVars
  BY <1>1 DEF bnplVars
<1>2. ASSUME NEW r \in Request, NEW c \in Customer, NEW p \in Phone,
             BeginCreate(r, c, p) \/ BeginUpdate(r, c, p)
      PROVE  Quiet
  BY <1>2 DEF BeginCreate, BeginUpdate
<1>3. ASSUME NEW r \in Request, NEW c \in Customer, BeginDelete(r, c)
      PROVE  Quiet
  BY <1>3 DEF BeginDelete
<1>4. ASSUME NEW d \in Debt, DeleteBNPL(d)
      PROVE  Gone({d})
  BY <1>4 DEF DeleteBNPL
<1>5. ASSUME NEW r \in Request, NEW d \in Debt, NEW a \in Paying, NEW m \in PayMethod,
             BeginCredit(r, d, a, m)
      PROVE  Quiet
  BY <1>5 DEF BeginCredit
<1>6. ASSUME NEW r \in Request, BnplStep(r), ~ \E t \in PaymentId : Credit(r, t)
      PROVE  Quiet \/ \E D \in SUBSET Debt : Gone(D)
  <2>1. CASE CreateCustomer(r)
    BY <2>1 DEF CreateCustomer, DoubtIf
  <2>2. CASE UpdateCustomer(r)
    BY <2>2 DEF UpdateCustomer, DoubtIf
  <2>3. CASE DeleteCustomer(r)
    <3>1. DebtsOf(desk[r].customer) \in SUBSET Debt
      BY DEF DebtsOf
    <3>2. Gone(DebtsOf(desk[r].customer))
      BY <2>3 DEF DeleteCustomer, DoubtIf
    <3> QED  BY <3>1, <3>2
  <2>4. CASE GiveUpDesk(r)
    BY <2>4 DEF GiveUpDesk
  <2> QED  BY <1>6, <2>1, <2>2, <2>3, <2>4 DEF BnplStep
<1> QED  BY <1>1, <1>2, <1>3, <1>4, <1>5, <1>6 DEF BnplNext

LEMMA StepsMoveDebts ==
    ASSUME BnplTypeOK, [BnplNext]_bnplVars
    PROVE  DebtMoves /\ doubtful \subseteq doubtful'
<1>1. \A r \in Request, t \in PaymentId : Credit(r, t) => doubtful \subseteq doubtful'
  BY DEF Credit, CreditWith, DoubtIf
<1>2. \A d, c, total : NewBNPL(d, c, total) => doubtful \subseteq doubtful'
  BY DEF NewBNPL
<1>3. \A t, a : VoidPayment(t) \/ RewritePayment(t, a) => doubtful \subseteq doubtful'
  BY DEF VoidPayment, RewritePayment
<1> QED
  BY <1>1, <1>2, <1>3, BnplSteps, QuietMoves, UnlinkedMoves, NewMoves, CreditMoves,
     VoidMoves, RewriteMoves

\* A debt that nothing touched counts the payments it counted.
LEMMA UntouchedKeeps ==
    ASSUME BnplTypeOK, BnplTypeOK', NEW d \in Debt, Untouched(d)
    PROVE  CoinSum(Amounts(payment', PaymentsIn(payment', d)))
             = CoinSum(Amounts(payment, PaymentsIn(payment, d)))
<1>1. PaymentsIn(payment', d) = PaymentsIn(payment, d)
  BY DEF PaymentsIn, Untouched, SamePayment
<1>2. \A t \in PaymentsIn(payment, d) : payment'[t].amount = payment[t].amount
  BY DEF PaymentsIn, Untouched, SamePayment
<1>3. Amounts(payment', PaymentsIn(payment, d)) = Amounts(payment, PaymentsIn(payment, d))
  BY <1>2 DEF Amounts
<1> QED  BY <1>1, <1>3

LEMMA InstalmentCounts ==
    ASSUME BnplTypeOK, BnplTypeOK', NEW d \in Debt, NEW t \in PaymentId, Instalment(d, t)
    PROVE  /\ CoinSum(Amounts(payment', PaymentsIn(payment', d)))
                = CoinSum(Amounts(payment, PaymentsIn(payment, d))) + payment'[t].amount
           /\ CoinSum(Amounts(payment, PaymentsIn(payment, d))) \in Nat
           /\ payment'[t].amount \in Nat
<1> DEFINE S == PaymentsIn(payment, d)
<1>1. PaymentsIn(payment', d) = S \cup {t}
  BY DEF PaymentsIn, Instalment
<1>2. t \notin S /\ S \subseteq PaymentId
  BY DEF PaymentsIn, Instalment
<1>3. \A u \in S : payment'[u].amount = payment[u].amount
  BY <1>2 DEF Instalment
<1>4. payment \in PaymentTable /\ payment' \in PaymentTable
  BY DEF BnplTypeOK, PaymentTable
<1> HIDE DEF S
<1>5. CoinSum(Amounts(payment', S \cup {t})) = CoinSum(Amounts(payment, S)) + payment'[t].amount
  BY <1>2, <1>3, <1>4, OnePaymentMore
<1>6. CoinSum(Amounts(payment, S)) \in Nat /\ payment'[t].amount \in Nat
  BY <1>2, <1>4, AmountsAreTables, AmountsAreNat
<1> QED  BY <1>1, <1>5, <1>6 DEF S

\* A debt just opened has no payments.
LEMMA OpenedHasNone ==
    ASSUME PaymentsHaveDebts, NEW d \in Debt, Opened(d)
    PROVE  CoinSum(Amounts(payment', PaymentsIn(payment', d))) = 0
<1>1. PaymentsIn(payment', d) = {}
  BY DEF PaymentsIn, Opened, PaymentsHaveDebts
<1>2. CoinsOf(Amounts(payment', PaymentsIn(payment', d))) = {}
  BY <1>1 DEF CoinsOf, Amounts
<1> QED  BY <1>2, FS_EmptySet DEF CoinSum

LEMMA PaidAsCoins ==
    /\ PaidIsWhatWasPaid <=> \A d \in Debt \ doubtful : debt[d] \in DebtRow =>
          debt[d].paid = Int32(CoinSum(Amounts(payment, PaymentsIn(payment, d))))
    /\ PaidIsWhatWasPaid' <=> \A d \in Debt \ doubtful' : debt'[d] \in DebtRow =>
          debt'[d].paid = Int32(CoinSum(Amounts(payment', PaymentsIn(payment', d))))
<1>1. \A d : Coins(PaymentsOf(d)) = CoinSum(Amounts(payment, PaymentsIn(payment, d)))
  BY DEF Coins, Amounts, PaymentsOf, PaymentsIn
<1>2. \A d : Coins(PaymentsOf(d))' = CoinSum(Amounts(payment', PaymentsIn(payment', d)))
  BY DEF Coins, Amounts, PaymentsOf, PaymentsIn
<1>3. PaidIsWhatWasPaid <=> \A d \in Debt \ doubtful : debt[d] \in DebtRow =>
          debt[d].paid = Int32(CoinSum(Amounts(payment, PaymentsIn(payment, d))))
  BY <1>1 DEF PaidIsWhatWasPaid
<1>4. PaidIsWhatWasPaid' <=> \A d \in Debt \ doubtful' : debt'[d] \in DebtRow =>
          debt'[d].paid = Int32(CoinSum(Amounts(payment', PaymentsIn(payment', d))))
  BY <1>2 DEF PaidIsWhatWasPaid
<1> QED  BY <1>3, <1>4

LEMMA PaidStep ==
    ASSUME BooksInv, BnplTypeOK', [BnplNext]_bnplVars
    PROVE  PaidIsWhatWasPaid' /\ SettledIsPaid'
<1>0. DebtMoves /\ doubtful \subseteq doubtful'
  BY StepsMoveDebts DEF BooksInv
<1> SUFFICES ASSUME NEW d \in Debt \ doubtful', debt'[d] \in DebtRow
             PROVE  /\ debt'[d].paid
                         = Int32(CoinSum(Amounts(payment', PaymentsIn(payment', d))))
                    /\ debt'[d].state = "completed" => debt'[d].paid >= debt'[d].total
  BY PaidAsCoins DEF SettledIsPaid
<1> DEFINE was == CoinSum(Amounts(payment, PaymentsIn(payment, d)))
           is == CoinSum(Amounts(payment', PaymentsIn(payment', d)))
<1>1. d \in Debt \ doubtful
  BY <1>0
<1>2. debt[d] \in DebtRow => debt[d].paid = Int32(was)
  BY <1>1, PaidAsCoins DEF BooksInv
<1>3. Untouched(d) \/ Opened(d) \/ \E t \in PaymentId : Instalment(d, t)
  BY <1>0 DEF DebtMoves
<1> HIDE DEF was, is
<1>4. CASE Untouched(d)
  <2>1. is = was
    BY <1>4, UntouchedKeeps DEF BooksInv, was, is
  <2>2. debt[d] \in DebtRow /\ debt'[d] = debt[d]
    BY <1>4 DEF Untouched
  <2>3. debt[d].state = "completed" => debt[d].paid >= debt[d].total
    BY <1>1, <2>2 DEF BooksInv, SettledIsPaid
  <2> QED  BY <1>2, <2>1, <2>2, <2>3 DEF is
<1>5. CASE Opened(d)
  <2>1. is = 0
    BY <1>5, OpenedHasNone DEF BooksInv, is
  <2>2. Int32(0) = 0
    BY Int32Fits, BnplAssumption
  <2> QED  BY <1>5, <2>1, <2>2 DEF Opened, is
<1>6. CASE \E t \in PaymentId : Instalment(d, t)
  <2> PICK t \in PaymentId : Instalment(d, t)
    BY <1>6
  <2>1. is = was + payment'[t].amount /\ was \in Nat /\ payment'[t].amount \in Nat
    BY InstalmentCounts DEF BooksInv, was, is
  <2>2. debt'[d].paid = Int32(Int32(was) + payment'[t].amount)
    BY <1>2 DEF Instalment
  <2>3. debt'[d].paid = Int32(is)
    BY <2>1, <2>2, Int32Adds
  <2>4. debt'[d].state = "completed" => debt'[d].paid >= debt'[d].total
    BY DEF Instalment, Settled
  <2> QED  BY <2>3, <2>4 DEF is
<1> QED  BY <1>3, <1>4, <1>5, <1>6

-----------------------------------------------------------------------------
(* The steps.                                                              *)

LEMMA LinksStep ==
    ASSUME BooksInv, BnplTypeOK', [BnplNext]_bnplVars
    PROVE  PaymentsHaveDebts'
<1> SUFFICES ASSUME NEW t \in PaymentId, NEW d \in Debt, payment'[t].debt = {d}
             PROVE  debt'[d] \in DebtRow
  BY DEF PaymentsHaveDebts
<1> USE DEF BooksInv
<1>0. payment[t].debt = {d} => debt[d] \in DebtRow
  BY DEF PaymentsHaveDebts
<1>1. CASE UNCHANGED <<debt, payment, coffer>>
  BY <1>0, <1>1
<1>2. CASE \E D \in SUBSET Debt : debt' = Without(D) /\ payment' = Unlinked(D)
  <2> PICK D \in SUBSET Debt : debt' = Without(D) /\ payment' = Unlinked(D)
    BY <1>2
  <2>1. payment[t].debt \notin { {e} : e \in D }
    <3> SUFFICES ASSUME payment[t].debt \in { {e} : e \in D } PROVE FALSE
      OBVIOUS
    <3>1. payment[t] \in PaymentRow
      BY RowFacts DEF BnplTypeOK
    <3>2. payment'[t].debt = {}
      BY <3>1 DEF Unlinked, PaymentRow
    <3> QED  BY <3>2
  <2>2. payment'[t] = payment[t]
    BY <2>1 DEF Unlinked
  <2>3. d \notin D
    BY <2>1, <2>2
  <2> QED  BY <1>0, <2>2, <2>3 DEF Without
<1>3. ASSUME NEW e \in Debt, NEW c, NEW total, NewBNPL(e, c, total)
      PROVE  debt'[d] \in DebtRow
  <2>1. payment' = payment /\ debt[e] \notin DebtRow
    BY <1>3 DEF NewBNPL, DebtRow
  <2>2. d # e
    BY <1>0, <2>1
  <2> QED  BY <1>0, <1>3, <2>1, <2>2 DEF NewBNPL, BnplTypeOK
<1>4. ASSUME NEW r \in Request, NEW u \in PaymentId, Credit(r, u)
      PROVE  debt'[d] \in DebtRow
  <2>1. /\ payment'[u].debt = {desk[r].debt} /\ debt'[desk[r].debt] \in DebtRow
        /\ \A v \in PaymentId \ {u} : payment'[v] = payment[v]
    BY <1>4, CreditMoves
  <2>2. d = desk[r].debt \/ debt[d] \in DebtRow
    BY <1>0, <2>1
  <2>3. \A e \in Debt \ {desk[r].debt} : debt'[e] = debt[e]
    BY <1>4 DEF Credit, CreditWith, BnplTypeOK
  <2> QED  BY <2>1, <2>2, <2>3
<1>5. ASSUME NEW u \in PaymentId, VoidPayment(u)
      PROVE  debt'[d] \in DebtRow
  <2>1. payment' = [payment EXCEPT ![u] = VoidedRow] /\ debt' = debt
    BY <1>5 DEF VoidPayment
  <2>2. payment'[u].debt = {}
    BY <2>1, RowFacts DEF BnplTypeOK
  <2> QED  BY <1>0, <2>1, <2>2 DEF BnplTypeOK
<1>6. ASSUME NEW u \in PaymentId, NEW a, RewritePayment(u, a)
      PROVE  debt'[d] \in DebtRow
  <2>1. payment' = [payment EXCEPT ![u].amount = a] /\ debt' = debt
    BY <1>6 DEF RewritePayment
  <2>2. payment[u] \in PaymentRow
    BY <1>6 DEF RewritePayment, Recorded, BnplTypeOK
  <2>3. payment'[u].debt = payment[u].debt
    BY <2>1, <2>2 DEF BnplTypeOK, PaymentRow
  <2> QED  BY <1>0, <2>1, <2>3 DEF BnplTypeOK
<1> QED  BY <1>1, <1>2, <1>3, <1>4, <1>5, <1>6, BnplSteps

-----------------------------------------------------------------------------
(* The balances.                                                           *)

\* The balances together.
Held(C) == C["cash"] + C["bank"] + C["terminal"] + C["mobile_apps"]

\* The balances C, with n taken from those in K.
TakenFrom(C, K, n) == [k \in Balance |-> IF k \in K THEN C[k] - n ELSE C[k]]

LEMMA BucketChanges ==
    ASSUME NEW C \in [Balance -> Int], NEW n \in Int, NEW K,
           K = {} \/ \E k \in Balance : K = {k},
           NEW E, E = TakenFrom(C, K, n)
    PROVE  Held(E) = IF K = {} THEN Held(C) ELSE Held(C) - n
<1>1. /\ C["cash"] \in Int /\ C["bank"] \in Int
      /\ C["terminal"] \in Int /\ C["mobile_apps"] \in Int
  BY DEF Balance
<1>2. /\ E["cash"] = IF "cash" \in K THEN C["cash"] - n ELSE C["cash"]
      /\ E["bank"] = IF "bank" \in K THEN C["bank"] - n ELSE C["bank"]
      /\ E["terminal"] = IF "terminal" \in K THEN C["terminal"] - n ELSE C["terminal"]
      /\ E["mobile_apps"] = IF "mobile_apps" \in K THEN C["mobile_apps"] - n
                            ELSE C["mobile_apps"]
  BY DEF Balance, TakenFrom
<1>3. CASE K = {}
  BY <1>2, <1>3 DEF Held
<1>4. CASE K = {"cash"}
  BY <1>1, <1>2, <1>4 DEF Held
<1>5. CASE K = {"bank"}
  BY <1>1, <1>2, <1>5 DEF Held
<1>6. CASE K = {"terminal"}
  BY <1>1, <1>2, <1>6 DEF Held
<1>7. CASE K = {"mobile_apps"}
  BY <1>1, <1>2, <1>7 DEF Held
<1> QED  BY <1>3, <1>4, <1>5, <1>6, <1>7 DEF Balance

LEMMA VoidBuckets ==
    ASSUME NEW m
    PROVE  VoidBucket(m) = {} \/ \E k \in Balance : VoidBucket(m) = {k}
<1>1. CASE m \in {"cash", "bank", "terminal"}
  BY <1>1 DEF VoidBucket, Balance
<1>2. CASE m \in {"online_payment", "online_transfer"}
  <2>1. m \notin {"cash", "bank", "terminal"}
    BY <1>2
  <2> QED  BY <1>2, <2>1 DEF VoidBucket, Balance
<1>3. CASE m \notin {"cash", "bank", "terminal", "online_payment", "online_transfer"}
  BY <1>3 DEF VoidBucket
<1> QED  BY <1>1, <1>2, <1>3

LEMMA UnlinkedAmounts ==
    ASSUME BnplTypeOK, NEW D, payment' = Unlinked(D)
    PROVE  Amounts(payment', PaymentId) = Amounts(payment, PaymentId)
<1> SUFFICES ASSUME NEW t \in PaymentId PROVE payment'[t].amount = payment[t].amount
  BY DEF Amounts
<1>1. CASE payment[t].debt \in { {e} : e \in D }
  <2>1. payment[t] \in PaymentRow
    BY <1>1, RowFacts DEF BnplTypeOK
  <2> QED  BY <1>1, <2>1 DEF Unlinked, PaymentRow
<1>2. CASE payment[t].debt \notin { {e} : e \in D }
  BY <1>2 DEF Unlinked
<1> QED  BY <1>1, <1>2

LEMMA TillStep ==
    ASSUME BooksInv, BnplTypeOK', [BnplNext]_bnplVars
    PROVE  TillIsPayments'
<1> DEFINE was == CoinSum(Amounts(payment, PaymentId))
           is == CoinSum(Amounts(payment', PaymentId))
<1> SUFFICES ASSUME ~ rewritten' PROVE Held(coffer') = is
  BY DEF TillIsPayments, Held
<1> USE DEF BooksInv
<1>0. ~ rewritten => Held(coffer) = was
  BY DEF TillIsPayments, Held
<1>t. /\ payment \in PaymentTable /\ payment' \in PaymentTable
      /\ coffer \in [Balance -> Int]
  BY DEF BnplTypeOK, PaymentTable
<1>n. was \in Nat
  BY <1>t, AmountsAreTables
<1>c. /\ coffer["cash"] \in Int /\ coffer["bank"] \in Int
      /\ coffer["terminal"] \in Int /\ coffer["mobile_apps"] \in Int
  BY <1>t DEF Balance
<1>1. CASE UNCHANGED <<debt, payment, coffer>> /\ rewritten' = rewritten
  BY <1>0, <1>1
<1>2. CASE \E D \in SUBSET Debt :
              debt' = Without(D) /\ payment' = Unlinked(D) /\ UNCHANGED <<coffer, rewritten>>
  BY <1>0, <1>2, UnlinkedAmounts
<1>3. ASSUME NEW e \in Debt, NEW c, NEW total, NewBNPL(e, c, total)
      PROVE  Held(coffer') = is
  BY <1>0, <1>3 DEF NewBNPL
<1>4. ASSUME NEW r \in Request, NEW u \in PaymentId, Credit(r, u)
      PROVE  Held(coffer') = is
  <2>1. /\ payment[u] = NoPaymentRow /\ payment'[u].amount = desk[r].amount
        /\ desk[r].amount \in Nat
        /\ \A v \in PaymentId \ {u} : payment'[v] = payment[v]
    BY <1>4, CreditMoves
  <2>2. is = was + payment'[u].amount - payment[u].amount
    BY <1>t, <2>1, OneAmountChanged
  <2>3. payment[u].amount = 0
    BY <2>1, RowFacts
  <2>4. coffer' = [coffer EXCEPT !["cash"] = @ + desk[r].amount] /\ rewritten' = rewritten
    BY <1>4 DEF Credit, CreditWith
  <2>5. /\ coffer'["cash"] = coffer["cash"] + desk[r].amount
        /\ coffer'["bank"] = coffer["bank"]
        /\ coffer'["terminal"] = coffer["terminal"]
        /\ coffer'["mobile_apps"] = coffer["mobile_apps"]
    BY <1>t, <2>4 DEF Balance
  <2> HIDE DEF was, is
  <2>6. is = was + desk[r].amount
    BY <1>n, <2>1, <2>2, <2>3
  <2>7. Held(coffer) = was
    BY <1>0, <2>4
  <2> QED  BY <1>c, <2>1, <2>5, <2>6, <2>7 DEF Held
<1>5. ASSUME NEW u \in PaymentId, VoidPayment(u)
      PROVE  Held(coffer') = is
  <2> DEFINE K == VoidBucket(payment[u].method)
             n == payment[u].amount
  <2>1. payment' = [payment EXCEPT ![u] = VoidedRow]
    BY <1>5 DEF VoidPayment
  <2>2. payment'[u].amount = 0 /\ \A v \in PaymentId \ {u} : payment'[v] = payment[v]
    BY <1>t, <2>1, RowFacts DEF PaymentTable
  <2>3. is = was + payment'[u].amount - n
    BY <1>t, <2>2, OneAmountChanged
  <2>4. n \in Nat
    BY <1>t, AmountsAreNat
  <2>5. K # {} /\ ~ rewritten
    BY <1>5 DEF VoidPayment
  <2>6. coffer' = TakenFrom(coffer, K, n)
    BY <1>5 DEF VoidPayment, TakenFrom
  <2>7. K = {} \/ \E k \in Balance : K = {k}
    BY VoidBuckets
  <2> HIDE DEF K, n, was, is
  <2>8. Held(coffer') = Held(coffer) - n
    <3>1. n \in Int
      BY <2>4
    <3>2. Held(coffer') = IF K = {} THEN Held(coffer) ELSE Held(coffer) - n
      BY <1>t, <2>6, <2>7, <3>1, BucketChanges
    <3> QED  BY <2>5, <3>2
  <2> QED  BY <1>0, <1>n, <2>2, <2>3, <2>4, <2>5, <2>8
<1>6. ASSUME NEW u \in PaymentId, NEW a, RewritePayment(u, a)
      PROVE  FALSE
  BY <1>6 DEF RewritePayment
<1> QED  BY <1>1, <1>2, <1>3, <1>4, <1>5, <1>6, BnplSteps

-----------------------------------------------------------------------------

LEMMA BooksInit == BnplInit => BooksInv
<1> SUFFICES ASSUME BnplInit PROVE BooksInv
  OBVIOUS
<1>1. BnplTypeOK
  BY TypesInit
<1>2. \A d \in Debt : debt[d] \notin DebtRow
  BY RowFacts, GoneIsNoRow DEF BnplInit
<1>3. \A t \in PaymentId : payment[t].debt = {} /\ payment[t].amount = 0
  BY RowFacts DEF BnplInit
<1>4. CoinSum(Amounts(payment, PaymentId)) = 0
  <2> DEFINE f == Amounts(payment, PaymentId)
  <2>1. DOMAIN f = PaymentId /\ \A t \in PaymentId : f[t] = 0
    BY <1>3 DEF Amounts
  <2> HIDE DEF f
  <2>2. \A t \in PaymentId : {t} \X (1..f[t]) = {}
    BY <2>1
  <2>3. CoinsOf(f) = {}
    BY <2>1, <2>2 DEF CoinsOf
  <2> QED  BY <2>3, FS_EmptySet DEF CoinSum, f
<1>5. TillIsPayments
  <2>1. /\ coffer["cash"] = 0 /\ coffer["bank"] = 0
        /\ coffer["terminal"] = 0 /\ coffer["mobile_apps"] = 0
    BY DEF BnplInit, Balance
  <2> QED  BY <1>4, <2>1 DEF TillIsPayments
<1> QED
  BY <1>1, <1>2, <1>3, <1>5 DEF BooksInv, PaymentsHaveDebts, PaidIsWhatWasPaid, SettledIsPaid

LEMMA BooksStep == BooksInv /\ [BnplNext]_bnplVars => BooksInv'
<1> SUFFICES ASSUME BooksInv, [BnplNext]_bnplVars PROVE BooksInv'
  OBVIOUS
<1>1. BnplTypeOK'
  BY TypesStep DEF BooksInv
<1> QED  BY <1>1, PaidStep, LinksStep, TillStep DEF BooksInv

\* The books of the customers' debts are in order (BooksInv), however many
\* requests run at once.
THEOREM BooksAreInOrder == BnplSpec => []BooksInv
<1> QED  BY BooksInit, BooksStep, PTL DEF BnplSpec

\* Every variable keeps its type (BnplTypeOK).
THEOREM BnplTypeCorrect == BnplSpec => []BnplTypeOK
<1>1. BooksInv => BnplTypeOK
  BY DEF BooksInv
<1> QED  BY <1>1, BooksAreInOrder, PTL

\* What a debt counts as paid is what its payments add up to, in int32
\* (PaidIsWhatWasPaid; bnpl's Credit), however payments interleave and debts and
\* customers go, as long as no two payments of it overlapped and none was voided
\* or rewritten as a transaction.
THEOREM PaidIsPaid == BnplSpec => []PaidIsWhatWasPaid
<1>1. BooksInv => PaidIsWhatWasPaid
  BY DEF BooksInv
<1> QED  BY <1>1, BooksAreInOrder, PTL

\* The balances hold what the recorded payments brought (PaymentsAreInTheTill;
\* Credit, and the deletion of the transaction), even when payments overlap.
THEOREM TillHoldsThePayments == BnplSpec => []PaymentsAreInTheTill
<1>1. BooksInv => PaymentsAreInTheTill
  BY RecordedIsAll DEF BooksInv, TillIsPayments, PaymentsAreInTheTill
<1> QED  BY <1>1, BooksAreInOrder, PTL

\* A debt whose payments fit an int32 stays settled: a payment adds to what was
\* paid, and what was paid was enough.
LEMMA SettledStep ==
    ASSUME BooksInv, BnplTypeOK', [BnplNext]_bnplVars, NEW d \in Debt,
           debt[d].state = "completed", debt'[d].state = "active", d \notin doubtful'
    PROVE  Coins(PaymentsOf(d))' > MaxInt
<1> USE DEF BooksInv
<1> DEFINE was == CoinSum(Amounts(payment, PaymentsIn(payment, d)))
           is == CoinSum(Amounts(payment', PaymentsIn(payment', d)))
<1>0. DebtMoves /\ d \notin doubtful
  BY StepsMoveDebts
<1>1. debt'[d] \in DebtRow /\ debt[d] \in DebtRow
  BY RowFacts DEF BnplTypeOK
<1>2. PICK t \in PaymentId : Instalment(d, t)
  BY <1>0, <1>1 DEF DebtMoves, Untouched, Opened
<1>3. is = was + payment'[t].amount /\ was \in Nat /\ payment'[t].amount \in Nat
  BY <1>2, InstalmentCounts
<1>4. debt[d].paid = Int32(was) /\ debt[d].paid >= debt[d].total
  BY <1>0, <1>1, PaidAsCoins DEF SettledIsPaid
<1>5. debt'[d].paid = Int32(debt[d].paid + payment'[t].amount)
  BY <1>2 DEF Instalment
<1>6. debt[d].paid \in Int /\ debt[d].total \in Int /\ MaxInt \in Nat
  BY <1>1, BnplAssumption DEF DebtRow
<1>7. ~ (debt'[d].paid >= debt[d].total)
  BY <1>2 DEF Instalment, Settled
<1> HIDE DEF was, is
<1>8. is > MaxInt
  <2> SUFFICES ASSUME is <= MaxInt PROVE FALSE
    BY <1>3, <1>6
  <2>1. was \in 0..MaxInt /\ is \in 0..MaxInt
    BY <1>3, <1>6
  <2>2. Int32(was) = was /\ Int32(is) = is
    BY <2>1, Int32Fits
  <2>3. debt'[d].paid = is
    BY <1>3, <1>4, <1>5, <2>2
  <2> QED  BY <1>3, <1>4, <1>6, <1>7, <2>2, <2>3
<1>9. Coins(PaymentsOf(d))' = is
  BY DEF Coins, Amounts, PaymentsOf, PaymentsIn, is
<1> QED  BY <1>8, <1>9

\* A settled debt is never open again while its payments fit an int32 and do not
\* overlap (SettledStaysSettled; Credit): a later payment, however small, does not
\* reopen it.
THEOREM SettledStays == BnplSpec => SettledStaysSettled
<1>1. BooksInv /\ [BnplNext]_bnplVars
        => [\A d \in Debt :
              /\ debt[d].state = "completed" /\ debt'[d].state = "active"
              /\ d \notin doubtful'
              => Coins(PaymentsOf(d))' > MaxInt]_bnplVars
  <2> SUFFICES ASSUME BooksInv, [BnplNext]_bnplVars, NEW d \in Debt,
                      debt[d].state = "completed", debt'[d].state = "active",
                      d \notin doubtful'
               PROVE  Coins(PaymentsOf(d))' > MaxInt
    OBVIOUS
  <2>1. BnplTypeOK'
    BY TypesStep DEF BooksInv
  <2> QED  BY <2>1, SettledStep
<1> QED  BY <1>1, BooksAreInOrder, PTL DEF BnplSpec, SettledStaysSettled

-----------------------------------------------------------------------------
(* Nobody who owes is deleted.                                             *)

(* What a deletion knows: it goes on only if no debt that its count saw was *)
(* open.  desk is a function, and customer one of records, so that an entry *)
(* of theirs may be replaced; what else a row holds does not matter.        *)
RemovalsSawNone ==
    /\ desk = [r \in Request |-> desk[r]]
    /\ \A r \in Request :
          desk[r].stage = "removing" => \A x \in desk[r].seen : x[2] # "active"

\* An entry that is no removal, or a removal that saw no open debt, is added.
LEMMA EntryKeeps ==
    ASSUME RemovalsSawNone, NEW r \in Request, NEW entry,
           desk' = [desk EXCEPT ![r] = entry],
           entry.stage = "removing" => \A x \in entry.seen : x[2] # "active"
    PROVE  RemovalsSawNone'
<1>1. \A q \in Request : desk'[q] = IF q = r THEN entry ELSE desk[q]
  BY DEF RemovalsSawNone
<1>2. desk' = [q \in Request |-> desk'[q]]
  BY <1>1 DEF RemovalsSawNone
<1> QED  BY <1>1, <1>2 DEF RemovalsSawNone

LEMMA AnswerKeeps ==
    ASSUME RemovalsSawNone, NEW r \in Request, desk' = Answered(desk, r)
    PROVE  RemovalsSawNone'
<1>1. Idle.stage # "removing"
  BY DEF Idle
<1> QED  BY <1>1, EntryKeeps DEF Answered

LEMMA LookUpKeeps ==
    ASSUME RemovalsSawNone, NEW r \in Request, NEW stage \in {"creating", "renaming"},
           NEW c, NEW p, LookUpPhone(r, stage, c, p)
    PROVE  RemovalsSawNone'
<1> DEFINE entry == [stage |-> stage, customer |-> c, phone |-> p, seen |-> Holders(p)]
<1>1. desk' = [desk EXCEPT ![r] = entry]
  BY DEF LookUpPhone
<1>2. entry.stage # "removing"
  OBVIOUS
<1> HIDE DEF entry
<1> QED  BY <1>1, <1>2, EntryKeeps

CustomersAreRows ==
    customer = [c \in Customer |-> [state |-> customer[c].state,
                                    phone |-> customer[c].phone]]

\* A customer's new row; the rest keep theirs.
LEMMA RowKeeps ==
    ASSUME CustomersAreRows, NEW k, NEW state, NEW phone,
           customer' = [customer EXCEPT ![k] = [state |-> state, phone |-> phone]]
    PROVE  /\ CustomersAreRows'
           /\ \A c \in Customer : c # k => customer'[c] = customer[c]
           /\ k \in Customer => customer'[k].state = state
<1> DEFINE row == [state |-> state, phone |-> phone]
<1>1. row = [state |-> row.state, phone |-> row.phone] /\ row.state = state
  OBVIOUS
<1>2. customer' = [customer EXCEPT ![k] = row]
  OBVIOUS
<1> HIDE DEF row
<1>3. \A c \in Customer : customer'[c] = IF c = k THEN row ELSE customer[c]
  BY <1>2 DEF CustomersAreRows
<1>4. customer' = [c \in Customer |-> customer'[c]]
  BY <1>2 DEF CustomersAreRows
<1>5. \A c \in Customer : customer[c] = [state |-> customer[c].state,
                                         phone |-> customer[c].phone]
  BY DEF CustomersAreRows
<1>6. \A c \in Customer : customer'[c] = [state |-> customer'[c].state,
                                          phone |-> customer'[c].phone]
  BY <1>1, <1>3, <1>5
<1> QED  BY <1>1, <1>3, <1>4, <1>6 DEF CustomersAreRows

\* A new number is a new row, or nobody's.
LEMMA RenameKeeps ==
    ASSUME CustomersAreRows, NEW k, NEW p, customer' = [customer EXCEPT ![k].phone = p]
    PROVE  /\ CustomersAreRows'
           /\ \A c \in Customer : customer'[c].state = customer[c].state
<1>1. CASE k \in Customer
  <2>1. customer[k] = [state |-> customer[k].state, phone |-> customer[k].phone]
    BY <1>1 DEF CustomersAreRows
  <2>2. [customer[k] EXCEPT !.phone = p] = [state |-> customer[k].state, phone |-> p]
    BY <2>1
  <2> DEFINE row == [state |-> customer[k].state, phone |-> p]
  <2>3. customer' = [customer EXCEPT ![k] = row]
    BY <2>2
  <2>4. row = [state |-> row.state, phone |-> row.phone] /\ row.state = customer[k].state
    OBVIOUS
  <2> HIDE DEF row
  <2>5. \A c \in Customer : customer'[c] = IF c = k THEN row ELSE customer[c]
    BY <2>3 DEF CustomersAreRows
  <2>6. customer' = [c \in Customer |-> customer'[c]]
    BY <2>3 DEF CustomersAreRows
  <2>7. \A c \in Customer : customer[c] = [state |-> customer[c].state,
                                           phone |-> customer[c].phone]
    BY DEF CustomersAreRows
  <2>8. \A c \in Customer : customer'[c] = [state |-> customer'[c].state,
                                            phone |-> customer'[c].phone]
    BY <2>4, <2>5, <2>7
  <2>9. CustomersAreRows'
    BY <2>6, <2>8 DEF CustomersAreRows
  <2> QED  BY <1>1, <2>4, <2>5, <2>9
<1>2. CASE k \notin Customer
  <2>1. customer' = customer
    BY <1>2 DEF CustomersAreRows
  <2> QED  BY <2>1 DEF CustomersAreRows
<1> QED  BY <1>1, <1>2

\* A step that changes the customers is one of these.
LEMMA CustomerSteps ==
    ASSUME [BnplNext]_bnplVars, customer' # customer
    PROVE  \E r \in Request : CreateCustomer(r) \/ UpdateCustomer(r) \/ DeleteCustomer(r)
<1>1. \A r \in Request : GiveUpDesk(r) \/ (\E t \in PaymentId : Credit(r, t))
                            => customer' = customer
  BY DEF GiveUpDesk, Credit, CreditWith
<1>2. \E r \in Request : BnplStep(r)
  BY DEF BnplNext, bnplVars, BeginCreate, BeginUpdate, BeginDelete, NewBNPL,
         DeleteBNPL, BeginCredit, VoidPayment, RewritePayment
<1> QED  BY <1>1, <1>2 DEF BnplStep

LEMMA RowsStep == CustomersAreRows /\ [BnplNext]_bnplVars => CustomersAreRows'
<1> SUFFICES ASSUME CustomersAreRows, [BnplNext]_bnplVars, customer' # customer
             PROVE  CustomersAreRows'
  BY DEF CustomersAreRows
<1> PICK r \in Request : CreateCustomer(r) \/ UpdateCustomer(r) \/ DeleteCustomer(r)
  BY CustomerSteps
<1>1. CASE CreateCustomer(r)
  BY <1>1, RowKeeps DEF CreateCustomer
<1>2. CASE UpdateCustomer(r)
  BY <1>2, RenameKeeps DEF UpdateCustomer
<1>3. CASE DeleteCustomer(r)
  BY <1>3, RowKeeps DEF DeleteCustomer
<1> QED  BY <1>1, <1>2, <1>3

LEMMA RemovalInit == BnplInit => CustomersAreRows /\ RemovalsSawNone
<1> SUFFICES ASSUME BnplInit PROVE CustomersAreRows /\ RemovalsSawNone
  OBVIOUS
<1>1. CustomersAreRows
  BY DEF BnplInit, CustomersAreRows
<1>2. desk = [r \in Request |-> Idle] /\ Idle.stage # "removing"
  BY DEF BnplInit, Idle
<1>3. RemovalsSawNone
  BY <1>2 DEF RemovalsSawNone
<1> QED  BY <1>1, <1>3

LEMMA DeleteSawNone ==
    ASSUME RemovalsSawNone, NEW r \in Request, NEW c \in Customer, BeginDelete(r, c)
    PROVE  RemovalsSawNone'
<1> DEFINE entry == [stage |-> "removing", customer |-> c, seen |-> Standing(c)]
<1>1. desk' = [desk EXCEPT ![r] = entry]
  BY DEF BeginDelete
<1>2. \A d \in DebtsOf(c) : debt[d].state # "active"
  BY DEF BeginDelete, MayDelete
<1>3. \A x \in Standing(c) : x[2] # "active"
  BY <1>2 DEF Standing
<1>4. entry.seen = Standing(c)
  OBVIOUS
<1> HIDE DEF entry
<1> QED  BY <1>1, <1>3, <1>4, EntryKeeps

LEMMA RemovalStep == RemovalsSawNone /\ [BnplNext]_bnplVars => RemovalsSawNone'
<1> SUFFICES ASSUME RemovalsSawNone, [BnplNext]_bnplVars PROVE RemovalsSawNone'
  OBVIOUS
<1>1. CASE UNCHANGED desk
  BY <1>1 DEF RemovalsSawNone
<1>2. CASE bnplVars' = bnplVars
  BY <1>1, <1>2 DEF bnplVars
<1>3. CASE \E r \in Request, c \in Customer, p \in Phone :
              BeginCreate(r, c, p) \/ BeginUpdate(r, c, p)
  <2> PICK r \in Request, c \in Customer, p \in Phone :
              BeginCreate(r, c, p) \/ BeginUpdate(r, c, p)
    BY <1>3
  <2> DEFINE entry == [stage |-> "renaming", customer |-> c, phone |-> p,
                       seen |-> Holders(p)]
  <2>1. CASE LookUpPhone(r, "creating", c, p) \/ LookUpPhone(r, "renaming", c, p)
    BY <2>1, LookUpKeeps
  <2>2. CASE desk' = [desk EXCEPT ![r] = entry]
    <3>1. entry.stage # "removing"
      OBVIOUS
    <3> HIDE DEF entry
    <3> QED  BY <2>2, <3>1, EntryKeeps
  <2> QED  BY <2>1, <2>2 DEF BeginCreate, BeginUpdate
<1>4. CASE \E r \in Request, c \in Customer : BeginDelete(r, c)
  BY <1>4, DeleteSawNone
<1>5. CASE \E d \in Debt, c \in Customer :
              \E total \in Total \cup { TotalAmount(b) : b \in Basket } :
                  NewBNPL(d, c, total)
  BY <1>1, <1>5 DEF NewBNPL
<1>6. CASE \E d \in Debt : DeleteBNPL(d)
  BY <1>1, <1>6 DEF DeleteBNPL
<1>7. CASE \E r \in Request, d \in Debt, a \in Paying, m \in PayMethod :
              BeginCredit(r, d, a, m)
  <2> PICK r \in Request, d \in Debt, a \in Paying, m \in PayMethod :
              BeginCredit(r, d, a, m)
    BY <1>7
  <2> DEFINE entry == [stage |-> "crediting", debt |-> d, amount |-> a, method |-> m,
                       seen |-> debt[d]]
  <2>1. desk' = [desk EXCEPT ![r] = entry]
    BY DEF BeginCredit
  <2>2. entry.stage # "removing"
    OBVIOUS
  <2> HIDE DEF entry
  <2> QED  BY <2>1, <2>2, EntryKeeps
<1>8. CASE \E r \in Request : BnplStep(r)
  <2> PICK r \in Request : BnplStep(r)
    BY <1>8
  <2>1. desk' = Answered(desk, r)
    BY DEF BnplStep, CreateCustomer, UpdateCustomer, DeleteCustomer, GiveUpDesk,
           Credit, CreditWith
  <2> QED  BY <2>1, AnswerKeeps
<1>9. CASE \E t \in PaymentId : VoidPayment(t)
  BY <1>1, <1>9 DEF VoidPayment
<1>10. CASE \E t \in PaymentId, a \in Paying : RewritePayment(t, a)
  BY <1>1, <1>10 DEF RewritePayment
<1> QED
  BY <1>2, <1>3, <1>4, <1>5, <1>6, <1>7, <1>8, <1>9, <1>10 DEF BnplNext

-----------------------------------------------------------------------------

\* Only its deletion takes a customer away, and what a deletion counted is what
\* it takes away, or the customer is noted as doubtful.
LEMMA OwingStep ==
    ASSUME CustomersAreRows, RemovalsSawNone, [BnplNext]_bnplVars, NEW c \in Customer,
           There(c), ~ There(c)', NEW d \in DebtsOf(c), debt[d].state = "active"
    PROVE  c \in doubtful'
<1> PICK r \in Request : CreateCustomer(r) \/ UpdateCustomer(r) \/ DeleteCustomer(r)
  BY CustomerSteps DEF There
<1>1. ~ CreateCustomer(r)
  <2> SUFFICES ASSUME CreateCustomer(r) PROVE FALSE
    OBVIOUS
  <2>1. customer' = [customer EXCEPT ![desk[r].customer] =
                       [state |-> "there", phone |-> desk[r].phone]]
    BY DEF CreateCustomer
  <2>2. CASE c = desk[r].customer
    BY <2>1, <2>2, RowKeeps DEF There
  <2>3. CASE c # desk[r].customer
    BY <2>1, <2>3, RowKeeps DEF There
  <2> QED  BY <2>2, <2>3
<1>2. ~ UpdateCustomer(r)
  <2> SUFFICES ASSUME UpdateCustomer(r) PROVE FALSE
    OBVIOUS
  <2>1. customer' = [customer EXCEPT ![desk[r].customer].phone = desk[r].phone]
    BY DEF UpdateCustomer
  <2>2. customer'[c].state = customer[c].state
    BY <2>1, RenameKeeps
  <2> QED  BY <2>2 DEF There
<1>3. DeleteCustomer(r)
  BY <1>1, <1>2
<1>4. desk[r].customer = c
  BY <1>3, RowKeeps DEF DeleteCustomer, There
<1>5. <<d, "active">> \in Standing(c)
  BY DEF Standing
<1>6. \A x \in desk[r].seen : x[2] # "active"
  BY <1>3 DEF DeleteCustomer, RemovalsSawNone
<1>7. Standing(c) # desk[r].seen
  BY <1>5, <1>6
<1> QED  BY <1>3, <1>4, <1>7 DEF DeleteCustomer, DoubtIf

\* Nobody who owes is deleted, unless the debt was opened or reopened after the
\* count that deletion makes first (OwingCustomersStay; bnpl's Delete of a
\* customer), however many requests run at once.
THEOREM DebtorsStay == BnplSpec => OwingCustomersStay
<1>1. CustomersAreRows /\ RemovalsSawNone /\ [BnplNext]_bnplVars
        => [\A c \in Customer :
              /\ There(c) /\ ~ There(c)'
              /\ \E d \in DebtsOf(c) : debt[d].state = "active"
              => c \in doubtful']_bnplVars
  BY OwingStep
<1> QED  BY <1>1, RemovalInit, RowsStep, RemovalStep, PTL DEF BnplSpec, OwingCustomersStay

=============================================================================
