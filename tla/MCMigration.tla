---------------------------- MODULE MCMigration ----------------------------
(* Migration for TLC: small document databases that have, or have not, what *)
(* the program treats apart.                                               *)
EXTENDS Migration

Txn(id, shape, initiator, amount) ==
    [id |-> id, shape |-> shape, initiator |-> initiator, amount |-> amount, branch |-> ""]

\* Databases that differ where the program distinguishes them.
MCSource ==
    { [finance |-> finance,
       users |-> users,
       activities |-> << [id |-> "a1"], [id |-> "a2"], [id |-> "a3"] >>,
       brands |-> << [id |-> "br1"] >>,
       categories |-> categories,
       suppliers |-> suppliers,
       products |-> << [id |-> "pr1", category |-> <<"c1", "c2">>, stock |-> <<"b1">>,
                        income |-> <<"x1", "x2">>] >>,
       customers |-> << [id |-> "cu1", bnpls |-> << [id |-> "bn1", branch |-> "",
                            products |-> <<"pr1">>, transactions |-> <<"t3">>] >>] >>,
       transactions |-> << Txn("t1", "nested", "sale", 1), Txn("t2", "flat", initiator, 2),
                           Txn("t3", "flat", "bnpl", 4) >>,
       journals |-> journals,
       store_customers |-> << [id |-> "sc1", addresses |-> <<"ad1">>] >>,
       carts |-> << [id |-> "ca1", customer_id |-> "sc1", items |-> <<"i1", "i2">>] >>,
       wishlists |-> << [id |-> "w1", customer_id |-> "sc1", items |-> <<"pr1">>] >>,
       orders |-> << [id |-> "o1", customer_id |-> "", items |-> <<"pr1">>] >>,
       reviews |-> << [id |-> "r1", product_id |-> "pr1", customer_id |-> "sc1", voters |-> voters] >>,
       promotions |-> << [id |-> "pm1"] >>,
       proposals |-> << [id |-> "pp1"], [id |-> "pp2"] >>,
       internal_expenses |-> expenses] :
      finance \in { <<>>, << [branch_id |-> "b1"] >>, << [branch_id |-> ""] >> },
      users \in { <<>>, << [id |-> "u1"] >> },
      categories \in { <<>>, << [id |-> "c1"], [id |-> "c2"] >> },
      suppliers \in { << [id |-> "s1", branch |-> "", transactions |-> << Txn("t2", "flat", "supplier", 2),
                            Txn("t4", "flat", "supplier", 8) >>],
                         [id |-> "s2", branch |-> "", transactions |-> << Txn("t5", "flat", "", 16),
                            Txn("t6", "flat", "supplier", 16) >>] >> },
      initiator \in {"supplier", "sale"},
      journals \in { << [id |-> "j1", branch |-> "", date |-> 1, total |-> 3, operations |-> <<"t1", "t2">>],
                        [id |-> "j2", branch |-> "", date |-> 1, total |-> 5, operations |-> <<"t1", "t4">>] >>,
                     << [id |-> "j1", branch |-> "", date |-> 1, total |-> 9, operations |-> <<"t1", "t4", "t9">>] >> },
      voters \in { <<"sc1">>, <<"sc1", "", "sc1">> },
      expenses \in { <<>>, << [id |-> "ie1", branch |-> ""] >> } }
=============================================================================
