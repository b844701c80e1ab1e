------------------------- MODULE MCPriceLevelTable -------------------------
(* Four prices whose probe chains collide and wrap round in a table that   *)
(* starts with two slots and has to double twice.                          *)
EXTENDS PriceLevelTable

MCHash == [p \in Prices |-> <<15, 0, 15, 8>>[p]]
=============================================================================
