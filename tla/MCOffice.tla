------------------------------ MODULE MCOffice ------------------------------
(* The back office for TLC: proposals, the catalogue with the lists that   *)
(* the storefront serves of it, the dashboards, and who gets in.  What one *)
(* of them writes no other does; a behaviour moves one, the focus, and     *)
(* makes no step out of the scope.                                         *)
EXTENDS Proposals, Storefront, Access, Analytics, TLC

VARIABLE focus

-----------------------------------------------------------------------------
(* Bounds.                                                                 *)

NoProducts == \A p \in Item : product[p] = NoItem
OneProduct == Cardinality({ p \in Item : product[p].state # "none" }) <= 1
NoTree ==
    /\ \A k \in Category : category[k].parent = NoId
    /\ \A b \in Brand : brand[b] = "none"
NoShelves == \A p \in Item : RowsOf(p) = {}
NoImages ==
    /\ \A p \in Item : product[p].images = {}
    /\ \A r \in Request : editor[r].stage # "listing"
NoCategories == \A k \in Category : category[k].state = "none"

\* What the storefront lists: live products of one category at most, on two
\* shelves at most, while nobody edits.
Shelved ==
    /\ Cardinality({ pl \in DOMAIN stock : stock[pl] # NoStock }) <= 2
    /\ Cardinality({ k \in Category : HasCategory(k) }) <= 1
    /\ NoTree /\ NoImages /\ crossed = {}
    /\ \A r \in Request : editor[r] = Idle
    /\ \A k \in Category : category[k].state # "gone"
    /\ \A p \in Item : product[p].state # "gone" /\ product[p].brand = NoId

\* The tree alone, one product with its categories, one with its images, and
\* the lists; and one request at the doors, with three tokens about.
Scope ==
    /\ \/ NoProducts
       \/ OneProduct /\ NoTree /\ NoShelves /\ NoImages
       \/ OneProduct /\ NoTree /\ NoShelves /\ NoCategories
       \/ Shelved
    /\ Cardinality({ r \in Request : visit[r] # Idle }) <= 1
    /\ Cardinality(token) <= 3

-----------------------------------------------------------------------------

\* Three shifts: with cash if they have operations that can be read, whatever the
\* total; of one that is out of the dashboards' range no figure matters.
Shifts ==
    LET done == { s \in DOMAIN shift : shift[s] # NoShift } IN
    /\ Cardinality(done) <= 3
    /\ \A s \in done :
          /\ shift[s].cash > 0 <=> shift[s].operations > 0 /\ shift[s].readable
          /\ shift[s].total \notin 0..Ceiling => shift[s].operations = 0

Init ==
    /\ focus \in {"proposals", "catalogue", "access", "dashboards"}
    /\ ProposalsInit /\ CatalogInit /\ AccessInit /\ AnalyticsInit

Next ==
    /\ \/ /\ focus = "proposals" /\ ProposalsNext
          /\ UNCHANGED <<catalogVars, accessVars, analyticsVars>>
       \/ /\ focus = "catalogue" /\ CatalogNext
          /\ UNCHANGED <<proposalVars, accessVars, analyticsVars>>
       \/ /\ focus = "access" /\ AccessNext
          /\ UNCHANGED <<proposalVars, catalogVars, analyticsVars>>
       \/ /\ focus = "dashboards" /\ AnalyticsNext
          /\ UNCHANGED <<proposalVars, catalogVars, accessVars>>
    /\ UNCHANGED focus
    /\ Scope' /\ Shifts'

Spec == Init /\ [][Next]_<<proposalVars, catalogVars, accessVars, analyticsVars, focus>>

Symmetry == Permutations(Request) \cup Permutations(Category) \cup Permutations(Item)
            \cup Permutations(Place)
=============================================================================
