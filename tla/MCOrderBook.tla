---------------------------- MODULE MCOrderBook ----------------------------
(* Model checking of OrderBook: slots and references are interchangeable.  *)
EXTENDS OrderBook, TLC

Symmetric == Permutations(Slots) \cup Permutations(Refs)
=============================================================================
