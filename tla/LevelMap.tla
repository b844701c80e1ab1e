------------------------------ MODULE LevelMap ------------------------------
(* What PriceLevelTable promises the order book: the std::map from price to  *)
(* level that it replaced, and the extreme price of its keys at any time.    *)
EXTENDS Integers, FiniteSetsExt

CONSTANTS Prices, Levels, Fresh, WorstBid, WorstAsk

VARIABLES map,     \* price -> level
          got,     \* what the last access found in the level
          best,    \* the extreme price
          is_bid

Extreme(S) == CASE S = {} -> IF is_bid THEN WorstBid ELSE WorstAsk
                [] S # {} /\ is_bid -> Max(S)
                [] OTHER -> Min(S)

MInit == map = <<>> /\ got = Fresh /\ is_bid \in BOOLEAN /\ best = Extreme({})

(* operator[] turns m into n: the level of p, a fresh one if there was      *)
(* none, in which the caller leaves v.                                      *)
MAccess(m, n, p, v) ==
    /\ got' = IF p \in DOMAIN m THEN m[p] ELSE Fresh
    /\ n = [q \in DOMAIN m \cup {p} |-> IF q = p THEN v ELSE m[q]]

MErase(m, n, p) ==
    /\ n = [q \in DOMAIN m \ {p} |-> m[q]]
    /\ UNCHANGED got

MNext == LET m == map
             n == map'
         IN  /\ \E p \in Prices : \/ MErase(m, n, p)
                                  \/ \E v \in Levels : MAccess(m, n, p, v)
             /\ best' = Extreme(DOMAIN n)
             /\ UNCHANGED is_bid

MSpec == MInit /\ [][MNext]_<<map, got, best, is_bid>>
=============================================================================
