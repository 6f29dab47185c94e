------------------------------ MODULE Accounts ------------------------------
(***************************************************************************)
(* Customers of the store and their address books                          *)
(* (pkg/repository/store/customer, pkg/controllers/store/auth).            *)
(* Registration, login and profile are endpoints; the address book is      *)
(* complete in the repository while its endpoints still answer 501, so     *)
(* what may call it here is what the repository offers.                    *)
(*                                                                         *)
(* A call that makes an address the default clears the flag of all and     *)
(* sets it in a second statement; nothing makes the two one.               *)
(*                                                                         *)
(* Abstractions.  An e-mail address is one after trimming and lower-casing *)
(* (Mailbox); a password is itself, where the code keeps its hash, and     *)
(* Short those that registration refuses.  Everything else that a profile  *)
(* or an address holds is left out.                                        *)
(***************************************************************************)
EXTENDS Handlers

CONSTANTS
    Buyer,                  \* ids of customers; none is used twice
    Mailbox, Secret, Short, \* e-mail addresses, passwords, those too short
    Address                 \* ids of addresses

ASSUME AccountsAssumption == Short \subseteq Secret

VARIABLES
    account,    \* store_customers
    address,    \* addresses: whose they are, and is_default
    choosing,   \* requests that have cleared the flags of a customer
    raced       \* history: customers whose flags were last cleared while
                \* another request was between its two statements

accountVars == <<account, address, choosing, raced>>

NoAccount == [state |-> "none"]
NoAddress == [state |-> "none"]
Registered(c) == account[c].state = "there"
Owns(c, x) == address[x].state = "there" /\ address[x].owner = c
Book(c) == { x \in Address : Owns(c, x) }

AccountsInit ==
    /\ account = [c \in Buyer |-> NoAccount]
    /\ address = [x \in Address |-> NoAddress]
    /\ choosing = [r \in Request |-> Idle]
    /\ raced = {}

\* validateRegister, and Create behind the unique index of e-mails.
Register(c, mail, secret) ==
    /\ account[c] = NoAccount
    /\ secret \notin Short
    /\ \A e \in Buyer : Registered(e) => account[e].mail # mail
    /\ account' = [account EXCEPT ![c] = [state |-> "there", mail |-> mail,
                                          secret |-> secret]]
    /\ UNCHANGED <<address, choosing, raced>>

\* Who logs in with mail and secret.
Login(mail, secret) ==
    { c \in Buyer : Registered(c) /\ account[c].mail = mail
                                  /\ account[c].secret = secret }

UpdatePassword(c, secret) ==
    /\ Registered(c) /\ account[c].secret # secret
    /\ account' = [account EXCEPT ![c].secret = secret]
    /\ UNCHANGED <<address, choosing, raced>>

\* clearDefault, with what is to follow it.  The flags are clean again, unless
\* another request is about to set one.
ClearDefault(r, task) ==
    LET c == task.owner
        others == { q \in Request \ {r} : choosing[q] # Idle /\ choosing[q].owner = c }
    IN
    /\ choosing[r] = Idle
    /\ address' = [x \in Address |-> IF Owns(c, x)
                                     THEN [address[x] EXCEPT !.default = FALSE]
                                     ELSE address[x]]
    /\ choosing' = [choosing EXCEPT ![r] = task]
    /\ raced' = IF others = {} THEN raced \ {c} ELSE raced \cup {c}
    /\ UNCHANGED account

\* The statement that follows the clearing, or the only one.
Insert(c, x, default) ==
    address' = [address EXCEPT ![x] = [state |-> "there", owner |-> c,
                                       default |-> default]]

AddAddress(c, x) ==
    /\ Registered(c) /\ address[x] = NoAddress
    /\ Insert(c, x, FALSE)
    /\ UNCHANGED <<account, choosing, raced>>

BeginAddDefault(r, c, x) ==
    /\ Registered(c) /\ address[x] = NoAddress
    /\ ClearDefault(r, [stage |-> "adding", owner |-> c, address |-> x])

AddDefault(r) ==
    /\ choosing[r].stage = "adding"
    /\ address[choosing[r].address] = NoAddress
    /\ Insert(choosing[r].owner, choosing[r].address, TRUE)
    /\ choosing' = Answered(choosing, r)
    /\ UNCHANGED <<account, raced>>

\* An update that does not ask for the default takes it away.
UpdateAddress(c, x) ==
    /\ Owns(c, x)
    /\ Insert(c, x, FALSE)
    /\ UNCHANGED <<account, choosing, raced>>

\* SetDefaultAddress, and an update that asks for the default: the flags of all
\* are cleared before it is known whether the customer has the address.
\* Mutant: it sets the flag and leaves the others.
BeginSetDefaultQuick(r, c, x) ==
    /\ choosing[r] = Idle
    /\ choosing' = [choosing EXCEPT ![r] = [stage |-> "setting", owner |-> c, address |-> x]]
    /\ UNCHANGED <<account, address, raced>>
BeginSetDefault(r, c, x) ==
    ClearDefault(r, [stage |-> "setting", owner |-> c, address |-> x])

SetDefault(r) ==
    LET x == choosing[r].address c == choosing[r].owner IN
    /\ choosing[r].stage = "setting"
    /\ address' = IF Owns(c, x) THEN [address EXCEPT ![x].default = TRUE] ELSE address
    /\ choosing' = Answered(choosing, r)
    /\ UNCHANGED <<account, raced>>

DeleteAddress(c, x) ==
    /\ Owns(c, x)
    /\ address' = [address EXCEPT ![x] = [state |-> "gone"]]
    /\ UNCHANGED <<account, choosing, raced>>

\* The second statement fails, or never comes: the first stays.
DropChoice(r) ==
    /\ choosing[r] # Idle
    /\ choosing' = Answered(choosing, r)
    /\ UNCHANGED <<account, address, raced>>

AccountsNext ==
    \/ \E c \in Buyer, s \in Secret :
          UpdatePassword(c, s) \/ \E m \in Mailbox : Register(c, m, s)
    \/ \E c \in Buyer, x \in Address :
          \/ AddAddress(c, x) \/ UpdateAddress(c, x) \/ DeleteAddress(c, x)
          \/ \E r \in Request : BeginAddDefault(r, c, x) \/ BeginSetDefault(r, c, x)
    \/ \E r \in Request : AddDefault(r) \/ SetDefault(r) \/ DropChoice(r)

AccountsSpec == AccountsInit /\ [][AccountsNext]_accountVars

-----------------------------------------------------------------------------

\* A customer has at most one default address, whatever is added, updated, set,
\* deleted or abandoned half-way, unless two requests chose one at once (the
\* next choice repairs it); and no e-mail and password let two customers in.
OneDefaultAddress ==
    /\ \A c \in Buyer \ raced :
          \A x, y \in Book(c) : address[x].default /\ address[y].default => x = y
    /\ \A m \in Mailbox, s \in Secret : Cardinality(Login(m, s)) <= 1
=============================================================================
