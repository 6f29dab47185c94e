---------------------------- MODULE MCStockRows ----------------------------
(* StockRows for TLC: two products, sold in either order of their lines.   *)
EXTENDS StockRows

MCOrder == {<<"p", "q">>, <<"q", "p">>}
=============================================================================
