-------------------------------- MODULE Bnpl --------------------------------
(***************************************************************************)
(* Customers and what they owe: pkg/repository/bnpl and customers with     *)
(* their controllers, and the two transaction endpoints that reach the     *)
(* payments of a debt behind its back.                                     *)
(*                                                                         *)
(* PostgreSQL at READ COMMITTED.  A handler that writes what an earlier    *)
(* statement of its own read is a step for the read and one for the        *)
(* writes (one transaction); the rest are one step.                        *)
(*                                                                         *)
(* Abstractions.  One branch.  bnpl_products rows are only deleted with    *)
(* their debt; they are the basket that its total is computed from.  That  *)
(* the customer exists is checked by a statement of its own, and again by  *)
(* the foreign key: one step.  Names, addresses and times are left out,    *)
(* and so are the queries.                                                 *)
(* A customer's phone is "" nowhere: creation requires one and an update   *)
(* leaves it out.                                                          *)
(***************************************************************************)
EXTENDS Handlers, FiniteSetsExt, CoinSums

CONSTANTS
    Customer, Phone, NoPhone,   \* customers, their numbers, and none
    Debt, Basket, Total,        \* debts; the baskets and totals clients send
    Paying, PayMethod,          \* the amounts and methods of payments
    MaxPayment,                 \* bound: payments ever recorded
    MaxInt                      \* the largest int32

ASSUME BnplAssumption ==
    /\ NoPhone \notin Phone \cup Customer
    /\ MaxInt \in Nat /\ MaxPayment \in Nat
    /\ Paying \subseteq 0..MaxInt
    /\ Total \subseteq (-MaxInt - 1)..MaxInt

VARIABLES
    customer,   \* customers: are they there, and their phone
    debt,       \* bnpls
    payment,    \* the transactions that carry a bnpl_id, and carried one
    coffer,     \* branch_finance: the balances payments move
    desk,       \* requests in flight
    doubtful,   \* history: customers and debts that a request wrote on rows
                \* changed since it read them, or that lost a payment
    rewritten   \* history: was a payment's amount or money changed alone?

bnplVars == <<customer, debt, payment, coffer, desk, doubtful, rewritten>>

\* int32 arithmetic.
Int32(n) == ((n + MaxInt + 1) % (2 * (MaxInt + 1))) - (MaxInt + 1)

PaymentId == 1..MaxPayment
Balance == {"cash", "bank", "terminal", "mobile_apps"}

NoDebtRow == [state |-> "absent", customer |-> NoPhone, total |-> 0, paid |-> 0]
GoneDebtRow == [NoDebtRow EXCEPT !.state = "gone"]
NoPaymentRow == [debt |-> {}, amount |-> 0, method |-> "none"]
VoidedRow == [debt |-> {}, amount |-> 0, method |-> "voided"]

There(c) == customer[c].state = "there"
Recorded(t) == payment[t] \notin {NoPaymentRow, VoidedRow}
DebtsOf(c) == { d \in Debt : debt[d].customer = c }
Holders(p) == { c \in Customer : There(c) /\ customer[c].phone = p }

\* DeleteSalesTransaction's bucket.
VoidBucket(method) ==
    CASE method \in {"cash", "bank", "terminal"} -> {method}
      [] method \in {"online_payment", "online_transfer"} -> {"mobile_apps"}
      [] OTHER -> {}

\* The coins of payments T.
Coins(T) == CoinSum([t \in T |-> payment[t].amount])
PaymentsOf(d) == { t \in PaymentId : payment[t].debt = {d} }

DebtRow == [state: {"active", "completed"}, customer: Customer,
            total: (-MaxInt - 1)..MaxInt, paid: (-MaxInt - 1)..MaxInt]
PaymentRow == [debt: { {d} : d \in Debt } \cup {{}}, amount: 0..MaxInt,
               method: PayMethod]

Task ==
    [stage: {"crediting"}, debt: Debt, amount: Paying, method: PayMethod,
     seen: DebtRow]
    \cup [stage: {"creating", "renaming"}, customer: Customer, phone: Phone,
          seen: SUBSET Customer]
    \cup [stage: {"removing"}, customer: Customer,
          seen: SUBSET (Debt \X {"active", "completed"})]

BnplTypeOK ==
    /\ customer \in [Customer -> [state: {"absent", "there", "gone"},
                                  phone: Phone \cup {NoPhone}]]
    /\ debt \in [Debt -> DebtRow \cup {NoDebtRow, GoneDebtRow}]
    /\ payment \in [PaymentId -> PaymentRow \cup {NoPaymentRow, VoidedRow}]
    /\ coffer \in [Balance -> Int]
    /\ desk \in [Request -> Task \cup {Idle}]
    /\ doubtful \subseteq Customer \cup Debt
    /\ rewritten \in BOOLEAN

BnplInit ==
    /\ customer = [c \in Customer |-> [state |-> "absent", phone |-> NoPhone]]
    /\ debt = [d \in Debt |-> NoDebtRow]
    /\ payment = [t \in PaymentId |-> NoPaymentRow]
    /\ coffer = [k \in Balance |-> 0]
    /\ desk = [r \in Request |-> Idle]
    /\ doubtful = {}
    /\ rewritten = FALSE

DoubtIf(ids, changed) ==
    doubtful' = IF changed THEN doubtful \cup ids ELSE doubtful

\* A refusal, an error, a lost connection: nothing was written.
GiveUpDesk(r) ==
    /\ desk[r] # Idle
    /\ desk' = Answered(desk, r)
    /\ UNCHANGED <<customer, debt, payment, coffer, doubtful, rewritten>>

-----------------------------------------------------------------------------
(* Customers.                                                              *)

\* getByPhone.
LookUpPhone(r, stage, c, p) ==
    /\ Holders(p) = {}
    /\ desk' = [desk EXCEPT ![r] = [stage |-> stage, customer |-> c, phone |-> p,
                                    seen |-> Holders(p)]]

BeginCreate(r, c, p) ==
    /\ desk[r] = Idle
    /\ customer[c].state = "absent"
    /\ LookUpPhone(r, "creating", c, p)
    /\ UNCHANGED <<customer, debt, payment, coffer, doubtful, rewritten>>

CreateCustomer(r) ==
    LET c == desk[r].customer p == desk[r].phone IN
    /\ desk[r].stage = "creating"
    /\ customer[c].state = "absent"
    /\ customer' = [customer EXCEPT ![c] = [state |-> "there", phone |-> p]]
    /\ desk' = Answered(desk, r)
    /\ DoubtIf({c}, Holders(p) # desk[r].seen)
    /\ UNCHANGED <<debt, payment, coffer, rewritten>>

\* A number that the customer already has is not looked up.
BeginUpdate(r, c, p) ==
    /\ desk[r] = Idle
    /\ There(c)
    /\ IF p = customer[c].phone
       THEN desk' = [desk EXCEPT ![r] = [stage |-> "renaming", customer |-> c,
                                         phone |-> p, seen |-> Holders(p)]]
       ELSE LookUpPhone(r, "renaming", c, p)
    /\ UNCHANGED <<customer, debt, payment, coffer, doubtful, rewritten>>

UpdateCustomer(r) ==
    LET c == desk[r].customer p == desk[r].phone IN
    /\ desk[r].stage = "renaming"
    /\ There(c)
    /\ customer' = [customer EXCEPT ![c].phone = p]
    /\ desk' = Answered(desk, r)
    /\ DoubtIf({c}, Holders(p) # desk[r].seen)
    /\ UNCHANGED <<debt, payment, coffer, rewritten>>

Standing(c) == { <<d, debt[d].state>> : d \in DebtsOf(c) }

\* The two counts of Delete (mutant: debts are not looked at).
MayDeleteAny(c) == There(c)
MayDelete(c) == There(c) /\ ~ \E d \in DebtsOf(c) : debt[d].state = "active"

BeginDelete(r, c) ==
    /\ desk[r] = Idle
    /\ MayDelete(c)
    /\ desk' = [desk EXCEPT ![r] = [stage |-> "removing", customer |-> c,
                                    seen |-> Standing(c)]]
    /\ UNCHANGED <<customer, debt, payment, coffer, doubtful, rewritten>>

\* The payments with the debts D deleted: bnpl_id becomes NULL.
Unlinked(D) ==
    [t \in PaymentId |->
        IF payment[t].debt \in { {d} : d \in D }
        THEN [payment[t] EXCEPT !.debt = {}] ELSE payment[t]]
Without(D) ==
    [d \in Debt |-> IF d \in D THEN GoneDebtRow ELSE debt[d]]

\* The debts go with the customer.
DeleteCustomer(r) ==
    LET c == desk[r].customer IN
    /\ desk[r].stage = "removing"
    /\ There(c)
    /\ customer' = [customer EXCEPT ![c] = [state |-> "gone", phone |-> NoPhone]]
    /\ debt' = Without(DebtsOf(c))
    /\ payment' = Unlinked(DebtsOf(c))
    /\ desk' = Answered(desk, r)
    /\ DoubtIf({c}, Standing(c) # desk[r].seen)
    /\ UNCHANGED <<coffer, rewritten>>

-----------------------------------------------------------------------------
(* Debts.                                                                  *)

\* NewBNPL's total: a line is a price and a quantity.
TotalAmount(basket) ==
    Int32(MapThenSumSet(LAMBDA p : basket[p].price * Int32(basket[p].quantity),
                        DOMAIN basket))

\* What the lines of a basket come to is a number.
ASSUME BasketsHaveTotals == \A b \in Basket : TotalAmount(b) \in (-MaxInt - 1)..MaxInt

NewBNPL(d, c, total) ==
    /\ debt[d].state = "absent"
    /\ There(c)
    /\ debt' = [debt EXCEPT ![d] = [state |-> "active", customer |-> c,
                                    total |-> total, paid |-> 0]]
    /\ UNCHANGED <<customer, payment, coffer, desk, doubtful, rewritten>>

DeleteBNPL(d) ==
    /\ debt[d] \in DebtRow
    /\ debt' = Without({d})
    /\ payment' = Unlinked({d})
    /\ UNCHANGED <<customer, coffer, desk, doubtful, rewritten>>

BeginCredit(r, d, amount, method) ==
    /\ desk[r] = Idle
    /\ debt[d] \in DebtRow
    /\ desk' = [desk EXCEPT ![r] = [stage |-> "crediting", debt |-> d,
                                    amount |-> amount, method |-> method,
                                    seen |-> debt[d]]]
    /\ UNCHANGED <<customer, debt, payment, coffer, doubtful, rewritten>>

Settled(paid, total) == IF paid >= total THEN "completed" ELSE "active"

\* The writes of Credit: the row it read plus the amount, whatever the row is
\* now; the cash balance, whatever the method.  A debt that is gone fails the
\* foreign key of the transaction.  Mutants: the paid amount is overwritten by
\* the payment; a debt stays open; the balance is written as it was computed.
CreditWith(r, t, paid, status) ==
    LET d == desk[r].debt IN
    /\ desk[r].stage = "crediting"
    /\ debt[d] \in DebtRow
    /\ payment[t] = NoPaymentRow
    /\ \A u \in PaymentId : payment[u] = NoPaymentRow => t <= u
    /\ payment' = [payment EXCEPT ![t] = [debt |-> {d}, amount |-> desk[r].amount,
                                          method |-> desk[r].method]]
    /\ debt' = [debt EXCEPT ![d].paid = paid, ![d].state = status]
    /\ desk' = Answered(desk, r)
    /\ DoubtIf({d}, debt[d] # desk[r].seen)
    /\ UNCHANGED <<customer, rewritten>>

CreditForgetful(r, t) ==
    /\ CreditWith(r, t, desk[r].amount, Settled(desk[r].amount, desk[r].seen.total))
    /\ coffer' = [coffer EXCEPT !["cash"] = @ + desk[r].amount]
CreditLastInstalment(r, t) ==
    /\ CreditWith(r, t, Int32(desk[r].seen.paid + desk[r].amount),
                  Settled(desk[r].amount, desk[r].seen.total))
    /\ coffer' = [coffer EXCEPT !["cash"] = @ + desk[r].amount]
CreditAbsolute(r, t) ==
    /\ CreditWith(r, t, Int32(desk[r].seen.paid + desk[r].amount),
                  Settled(desk[r].seen.paid + desk[r].amount, desk[r].seen.total))
    /\ coffer' = [coffer EXCEPT !["cash"] = desk[r].seen.paid + desk[r].amount]
Credit(r, t) ==
    LET paid == Int32(desk[r].seen.paid + desk[r].amount) IN
    /\ CreditWith(r, t, paid, Settled(paid, desk[r].seen.total))
    /\ coffer' = [coffer EXCEPT !["cash"] = @ + desk[r].amount]

-----------------------------------------------------------------------------
(* The payment as a transaction like any other.                            *)

\* SalesRepository.DeleteTransaction: the debt keeps its paid amount, and the
\* money is taken from the balance of the payment's method.
VoidPayment(t) ==
    /\ Recorded(t)
    /\ payment' = [payment EXCEPT ![t] = VoidedRow]
    /\ coffer' = [k \in Balance |->
                    IF k \in VoidBucket(payment[t].method)
                    THEN coffer[k] - payment[t].amount ELSE coffer[k]]
    /\ doubtful' = doubtful \cup payment[t].debt
    /\ rewritten' = (rewritten \/ VoidBucket(payment[t].method) = {})
    /\ UNCHANGED <<customer, debt, desk>>

\* TransactionsRepository.Update.
RewritePayment(t, amount) ==
    /\ Recorded(t) /\ payment[t].amount # amount
    /\ payment' = [payment EXCEPT ![t].amount = amount]
    /\ doubtful' = doubtful \cup payment[t].debt
    /\ rewritten' = TRUE
    /\ UNCHANGED <<customer, debt, coffer, desk>>

-----------------------------------------------------------------------------

BnplStep(r) ==
    \/ CreateCustomer(r)
    \/ UpdateCustomer(r)
    \/ DeleteCustomer(r)
    \/ \E t \in PaymentId : Credit(r, t)
    \/ GiveUpDesk(r)

BnplNext ==
    \/ \E r \in Request, c \in Customer, p \in Phone :
          BeginCreate(r, c, p) \/ BeginUpdate(r, c, p)
    \/ \E r \in Request, c \in Customer : BeginDelete(r, c)
    \/ \E d \in Debt, c \in Customer :
          \E total \in Total \cup { TotalAmount(b) : b \in Basket } :
              NewBNPL(d, c, total)
    \/ \E d \in Debt : DeleteBNPL(d)
    \/ \E r \in Request, d \in Debt, a \in Paying, m \in PayMethod :
          BeginCredit(r, d, a, m)
    \/ \E r \in Request : BnplStep(r)
    \/ \E t \in PaymentId : VoidPayment(t)
    \/ \E t \in PaymentId, a \in Paying : RewritePayment(t, a)

BnplSpec == BnplInit /\ [][BnplNext]_bnplVars

-----------------------------------------------------------------------------
(* Properties.                                                             *)

\* What a debt counts as paid is what its payments add up to (in int32), unless
\* two payments overlapped or one was voided or rewritten as a transaction.
PaidIsWhatWasPaid ==
    \A d \in Debt \ doubtful :
        debt[d] \in DebtRow => debt[d].paid = Int32(Coins(PaymentsOf(d)))

\* The money is there even when the debts are not: however payments overlap,
\* debts and customers are deleted and payments voided, the branch holds what
\* the recorded payments brought, unless one was rewritten (or voided) without
\* its money.
PaymentsAreInTheTill ==
    rewritten \/ coffer["cash"] + coffer["bank"]
                    + coffer["terminal"] + coffer["mobile_apps"]
                 = Coins({ t \in PaymentId : Recorded(t) })

\* A settled debt is never open again, unless payments overlapped or overflow
\* int32: a later payment, however small, does not reopen it.
SettledStaysSettled ==
    [][\A d \in Debt :
          /\ debt[d].state = "completed" /\ debt'[d].state = "active"
          /\ d \notin doubtful'
          => Coins(PaymentsOf(d))' > MaxInt]_bnplVars

\* "Cannot delete customer with active BNPL": nobody who owes is deleted, unless
\* the debt was opened, or reopened, after the check.
OwingCustomersStay ==
    [][\A c \in Customer :
          /\ There(c) /\ ~ There(c)'
          /\ \E d \in DebtsOf(c) : debt[d].state = "active"
          => c \in doubtful']_bnplVars
=============================================================================
