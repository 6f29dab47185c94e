-------------------------- MODULE MCJournalLedger --------------------------
(* JournalLedger for TLC: one branch, to which every journal belongs.      *)
EXTENDS JournalLedger, TLC

MCBranchOf == [j \in Journal |-> CHOOSE b \in Branch : TRUE]

\* A correction may be negative: TransactionsRepository.Update takes any integer.
MCCorrection == {-1, 2}

\* disturbed and unbalanced only grow, and nothing is claimed of a journal or a
\* branch once it is in them.  Shifts are followed to MaxId transactions, all cash
\* and without suppliers; money, with every method and a supplier, to MoneyIds.
Plain(call) == call.method = "cash" /\ call.supplier = NoSupplier
ShiftsOnly ==
    /\ disturbed # Journal
    /\ \A t \in Id : Stored(t) =>
          /\ tx[t].kind = "sale" /\ tx[t].method \in {"cash", "terminal"}
          /\ tx[t].journal # NoJournal
    /\ \A r \in Request : req[r] # Idle => Plain(req[r].call)
MoneyIds == 3
MoneyOnly == built <= MoneyIds /\ unbalanced # Branch
Scope == ShiftsOnly \/ MoneyOnly

Symmetry == Permutations(Request)
=============================================================================
