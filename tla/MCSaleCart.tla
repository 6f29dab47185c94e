----------------------------- MODULE MCSaleCart -----------------------------
(* SaleCart for TLC: the constants of the .cfg files, the symmetries, and  *)
(* the scope of the run in which requests race.                            *)
EXTENDS SaleCart, FiniteSets, TLC

\* Requests, sellers, tokens and keys are interchangeable: no definition
\* chooses one of them by name.
Symmetry ==
    Permutations(Request) \cup Permutations(Seller)
        \cup Permutations(Code) \cup Permutations(Key)

InFlight == { r \in Request : req[r] # Idle }

\* Only a refusal is left of the request.  It changes nothing, so what the
\* others do next is what they do without it (the one-request run takes the
\* refusals).
Hopeless(r) ==
    LET call == req[r].call
        seen == req[r].seen
    IN  \/ /\ req[r].stage \in {"attach", "serve"}
           /\ \/ Edits(call) /\ ~ AllowsEdit(call.cart, seen.state)
              \/ call.op = "mint" /\ seen.state \notin {"active", "ready"}
        \/ /\ req[r].stage = "serve"
           /\ \/ Edits(call) /\ ~ EditAdmitted(call, seen)
              \/ call.op = "mint" /\ seen.items = NoItems
              \/ /\ call.op \in {"cancel", "release", "drop"}
                 /\ ~ MoveAdmitted(call, seen)
              \/ call.op = "claim" /\ ~ AttemptCounts(r)

\* A sweep that would find nothing is left out.
Sweepable(c) ==
    \/ c \in HandoffCart /\ LapsedAt(c, sweep.at)
    \/ /\ c \in HandoffCart /\ cart[c].state \in {"active", "ready"}
       /\ session[c].dayEnd < sweep.at
    \/ /\ c \in PosCart /\ cart[c].state = "active"
       /\ cart[c].touched < sweep.at - posCartTTL

\* One cart, of either kind.  Two requests run at a time, of which at most one
\* adds a line, one hands off and one explains a claim; a removal runs alone.
\* A sweep runs against one request that is not an edit, within one tick.
RaceScope ==
    /\ \A r \in InFlight :
          /\ req[r].call.op = "add" => req[r].call.quantity = 1
          /\ req[r].call.op = "set" => /\ req[r].call.quantity = 0
                                       /\ InFlight = {r}
          /\ ~ Hopeless(r)
    /\ \A op \in {"add", "mint", "claim"} :
          Cardinality({ r \in InFlight : req[r].call.op = op }) <= 1
    /\ sweep.step # 0 => /\ Cardinality(InFlight) <= 1
                         /\ \A r \in InFlight : ~ Edits(req[r].call)
                         /\ now = sweep.at
    /\ sweep.step = 1 => \E c \in Cart : Sweepable(c)
    /\ Cardinality({ c \in Cart : cart[c].state # "absent" }) <= 1
=============================================================================
