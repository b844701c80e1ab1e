--------------------------- MODULE MCMarkToMarket ---------------------------
(* Two workers and the fill thread, two symbols, two prices.               *)
EXTENDS MarkToMarket, TLC

CONSTANTS w1, w2, f

Perms == Permutations({w1, w2})
=============================================================================
