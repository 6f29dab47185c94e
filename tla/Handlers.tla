------------------------------ MODULE Handlers ------------------------------
(***************************************************************************)
(* What the modules of the back office and of the storefront share: the    *)
(* server handles several requests at a time, and a handler whose work     *)
(* takes more than one statement is, between two of them, somewhere.       *)
(***************************************************************************)
EXTENDS Integers, FiniteSets

CONSTANT Request    \* requests the server handles at the same time

\* A request slot that no handler uses.
Idle == [stage |-> "idle"]

\* The slots q once request r has been answered.
Answered(q, r) == [q EXCEPT ![r] = Idle]
=============================================================================
