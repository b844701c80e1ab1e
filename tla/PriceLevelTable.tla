-------------------------- MODULE PriceLevelTable --------------------------
(***************************************************************************)
(* OrderBook::PriceLevelTable (market/book/order_book.h): open addressing  *)
(* with linear probing, tombstones, doubling when a probe finds no empty   *)
(* slot, and a cached extreme price.  A level is an opaque value: what the *)
(* caller of operator[] leaves in it.                                      *)
(***************************************************************************)
EXTENDS Integers, FiniteSetsExt

CONSTANTS Prices,     \* keys (positive integers)
          Levels,     \* contents of a level
          Fresh,      \* PriceLevel{}
          InitCap,    \* kInitCapacity, a power of two
          HashBits,   \* range of the multiplicative hash, and bound of cap_
          Hash        \* price -> 0 .. HashBits - 1, the product's high bits

ASSUME TableAssumption ==
    /\ Prices \subseteq Nat \ {0} /\ IsFiniteSet(Prices) /\ Fresh \in Levels
    /\ InitCap \in Nat \ {0} /\ HashBits \in Nat /\ InitCap <= HashBits
    /\ Hash \in [Prices -> 0 .. HashBits - 1]

VARIABLES slots,    \* slots_: 0 .. cap - 1 -> [price, lvl]
          cap,      \* cap_
          count,    \* count_
          best,     \* best_
          is_bid,   \* is_bid_
          got       \* history: what the last operator[] found

tableVars == <<slots, cap, count, best, is_bid, got>>

kEmpty == 0
kTombstone == -1
WorstBid == -2                    \* INT64_MIN
WorstAsk == Max(Prices) + 1       \* INT64_MAX

EmptyTable(c) == [i \in 0 .. c - 1 |-> [price |-> kEmpty, lvl |-> Fresh]]

(* The probe starts at the high log2(cap) bits of the product.             *)
Probe(p, c) == Hash[p] \div (HashBits \div c)
At(p, c, n) == (Probe(p, c) + n) % c

(* A search for p stops at p itself or at an empty slot.                   *)
Stops(f, c, p, n) == f[At(p, c, n)].price \in {p, kEmpty}
Full(f, c, p) == \A n \in 0 .. c - 1 : ~Stops(f, c, p, n)
Steps(f, c, p) == CHOOSE n \in 0 .. c - 1 :
                     /\ Stops(f, c, p, n)
                     /\ \A m \in 0 .. n - 1 : ~Stops(f, c, p, m)
Found(f, c, p) == At(p, c, Steps(f, c, p))
Present(f, c, p) == ~Full(f, c, p) /\ f[Found(f, c, p)].price = p

(* The tombstones a search for p passes.                                   *)
Tombs(f, c, p) == {n \in 0 .. Steps(f, c, p) :
                      f[At(p, c, n)].price = kTombstone}

(* grow: every live level is put into a table twice as large, in the order *)
(* of the old slots; tombstones are dropped.                               *)
Place(g, c, e) ==
    IF e.price \in {kEmpty, kTombstone} THEN g
    ELSE [g EXCEPT ![At(e.price, c, Min({n \in 0 .. c - 1 :
                         g[At(e.price, c, n)].price = kEmpty}))] = e]
Grown(f, c) ==
    LET upTo[i \in 0 .. c] == IF i = 0 THEN EmptyTable(2 * c)
                              ELSE Place(upTo[i - 1], 2 * c, f[i - 1])
    IN  upTo[c]

(* The table operator[] inserts into: grown when the probe came full round *)
(* without an empty slot, whatever tombstones it passed.                   *)
Table(f, c, p) == IF Full(f, c, p) THEN Grown(f, c) ELSE f

(* Where p goes: its own slot, the first tombstone passed, or the end.     *)
InsertSlot(f, c, p) ==
    IF ~Present(f, c, p) /\ Tombs(f, c, p) # {}
    THEN At(p, c, Min(Tombs(f, c, p))) ELSE Found(f, c, p)

Better(p, q) == IF is_bid THEN p > q ELSE p < q

(* Mutant: the cached price is only ever improved.                         *)
RescanBest_Never(f) == best

(* rescan_best: the extreme of the live prices.                            *)
RescanBest(f) ==
    LET live == {f[i].price : i \in DOMAIN f} \ {kEmpty, kTombstone}
    IN  CASE live = {} -> IF is_bid THEN WorstBid ELSE WorstAsk
          [] live # {} /\ is_bid -> Max(live)
          [] OTHER -> Min(live)

----------------------------------------------------------------------------
TableInit == /\ cap = InitCap /\ slots = EmptyTable(InitCap)
             /\ count = 0 /\ got = Fresh
             /\ is_bid \in BOOLEAN
             /\ best = IF is_bid THEN WorstBid ELSE WorstAsk

(* operator[](p), and v written through the reference it returned.  Bound: *)
(* a table grows no larger than the range of the hash (2^64 in the code).  *)
Access(p, v) ==
  /\ Full(slots, cap, p) => 2 * cap <= HashBits
  /\ LET f == Table(slots, cap, p)
         c == Cardinality(DOMAIN f)
         i == InsertSlot(f, c, p)
         new == f[i].price # p
     IN /\ slots' = [f EXCEPT ![i] = [price |-> p, lvl |-> v]]
        /\ cap' = c
        /\ got' = IF new THEN Fresh ELSE f[i].lvl
        /\ count' = IF new THEN count + 1 ELSE count
        /\ best' = IF Better(p, best) THEN p ELSE best
        /\ UNCHANGED is_bid

(* erase(p); a price that is not there changes nothing.                    *)
Erase(p) ==
    /\ Present(slots, cap, p)
    /\ slots' = [slots EXCEPT ![Found(slots, cap, p)].price = kTombstone]
    /\ count' = count - 1
    /\ best' = IF p = best THEN RescanBest(slots') ELSE best
    /\ UNCHANGED <<cap, is_bid, got>>

TableNext == \E p \in Prices : Erase(p) \/ \E v \in Levels : Access(p, v)

TableSpec == TableInit /\ [][TableNext]_tableVars

----------------------------------------------------------------------------
(* The hash table is the std::map it replaced: what find() answers, what   *)
(* operator[] finds, and best() as the extreme of the keys.                *)
Contents == [p \in {q \in Prices : Present(slots, cap, q)} |->
               slots[Found(slots, cap, p)].lvl]
M == INSTANCE LevelMap WITH map <- Contents
ImplementsMap == M!MSpec
=============================================================================
