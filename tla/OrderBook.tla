----------------------------- MODULE OrderBook -----------------------------
(***************************************************************************)
(* One symbol's market order book and the worker that feeds it             *)
(* (market/book/order_book.h, market/book/order_book_consumer.cpp) with    *)
(* the events the ITCH parser makes of the feed's messages.  The worker is *)
(* the only thread that touches the levels and the links, so every event   *)
(* is one step; that messages reach it in order is modules ByteRing's and  *)
(* Dispatcher's matter.                                                    *)
(*                                                                         *)
(* OrderPool is used by its contract (module SlotPool): allocate returns   *)
(* any free slot, or none, because the pool is shared with the books of    *)
(* other workers.  OrderMap is a map from order_ref to slot whose insert   *)
(* may be lost: its nodes are shared too, remove() returns a node later    *)
(* than the slot and a treeified bucket never does, so a slot can be free  *)
(* when no node is.  PriceLevelTable is a map from price to level (module  *)
(* PriceLevelTable shows that the hash table is one).  The time stamp, the *)
(* sequence number and the seq_id of an order are stored and never         *)
(* compared: left out.                                                     *)
(***************************************************************************)
EXTENDS ItchParser, FiniteSets, FiniteSetsExt

CONSTANTS Slots,      \* the pool's slots
          Wide,       \* modulus of the uint32_t level fields (2^32 in the code)
          MaxAdds,    \* bound: ADD and REPLACE events of a behaviour
          NoSlot      \* UINT32_MAX

ASSUME BookAssumption ==
    /\ NoSlot \notin Slots /\ IsFiniteSet(Slots)
    /\ MaxAdds \in Nat
    /\ Wide \in Nat /\ Wide > 1

VARIABLES slot,      \* storage_: the order kept in each slot
          used,      \* slots handed out by the pool
          index,     \* order_index_: order_ref -> slot
          orphans,   \* history: the slots whose insert into the index was lost
          lvl,       \* bids_ and asks_: side -> price -> PriceLevel
          tick,      \* last_tick_.last_price (0: none yet)
          miscount,  \* history: an order was unlinked with remaining # shares,
                     \* or a level's count or total wrapped
          adds       \* ADD and REPLACE events so far

vars == <<slot, used, index, orphans, lvl, tick, miscount, adds>>

Blank == [order_ref |-> 0, side |-> "NONE", price |-> 0, shares |-> 0,
          remaining |-> 0, prev |-> NoSlot, next |-> NoSlot]
Fresh == [head |-> NoSlot, tail |-> NoSlot, count |-> 0, total |-> 0]

(* The part of the state the book's own operations change, as one value,   *)
(* so that an event composes them in the order the code calls them.        *)
Book == [slot |-> slot, used |-> used, index |-> index, orphans |-> orphans, lvl |-> lvl]
Becomes(b) == /\ slot' = b.slot /\ used' = b.used
              /\ index' = b.index /\ orphans' = b.orphans /\ lvl' = b.lvl

----------------------------------------------------------------------------
(* m with the entry k |-> v, new or replaced.                              *)
Put(m, k, v) == [x \in DOMAIN m \cup {k} |-> IF x = k THEN v ELSE m[x]]

(* PriceLevelTable: operator[] makes the level when it is not there.       *)
LevelAt(b, sd, p) == IF p \in DOMAIN b.lvl[sd] THEN b.lvl[sd][p] ELSE Fresh
PutLevel(b, sd, p, l) == [b EXCEPT !.lvl[sd] = Put(@, p, l)]
EraseLevel(b, sd, p) ==
    [b EXCEPT !.lvl[sd] = [q \in DOMAIN @ \ {p} |-> @[q]]]

(* Mutant: the successor keeps its link to the freed order.                *)
Relinked_KeepsPrev(f, s) ==
    [x \in Slots |-> IF x = s THEN Blank
                     ELSE [f[x] EXCEPT
                             !.next = IF x = f[s].prev THEN f[s].next ELSE @]]

(* The links of the neighbours once s is out of its list.                  *)
Relinked(f, s) ==
    [x \in Slots |-> IF x = s THEN Blank
                     ELSE [f[x] EXCEPT
                             !.next = IF x = f[s].prev THEN f[s].next ELSE @,
                             !.prev = IF x = f[s].next THEN f[s].prev ELSE @]]

(* unlink_and_free: the level is fetched again with operator[], and the    *)
(* whole of shares is subtracted from it.                                  *)
UnlinkAndFree(b, s) ==
    LET o == b.slot[s]
        l == LevelAt(b, o.side, o.price)
        m == [head |-> IF o.prev = NoSlot THEN o.next ELSE l.head,
              tail |-> IF o.next = NoSlot THEN o.prev ELSE l.tail,
              count |-> (l.count - 1) % Wide,
              total |-> (l.total - o.shares) % Wide]
        put == PutLevel(b, o.side, o.price, m)
        c == IF m.count = 0 THEN EraseLevel(put, o.side, o.price) ELSE put
    IN  [c EXCEPT !.slot = Relinked(b.slot, s), !.used = @ \ {s}]

(* Mutant: the level's total is left alone by a partial reduction.         *)
DecLevelQty_Forgotten(b, sd, p, n) == b

DecLevelQty(b, sd, p, n) ==
    LET l == LevelAt(b, sd, p)
        t == (l.total - n) % Wide
    IN  IF t = 0 THEN EraseLevel(b, sd, p)
        ELSE PutLevel(b, sd, p, [l EXCEPT !.total = t])

Unindex(b, ref) ==
    [b EXCEPT !.index = [r \in DOMAIN @ \ {ref} |-> @[r]]]

(* OrderMap::insert: with no node the entry is dropped without a word.     *)
InsertIndex(b, ref, s, stored) ==
    IF stored THEN [b EXCEPT !.index = Put(@, ref, s)]
              ELSE [b EXCEPT !.orphans = @ \cup {s}]

(* add: with no slot the order is dropped; with no node it stays in the    *)
(* pool, in its list and in its level, where no event finds it any more.   *)
Add(b, s, stored, ref, sd, p, n) ==
    IF s = NoSlot THEN b
    ELSE LET l == LevelAt(b, sd, p)
             o == [order_ref |-> ref, side |-> sd, price |-> p, shares |-> n,
                   remaining |-> n, prev |-> NoSlot, next |-> l.head]
             m == [head |-> s,
                   tail |-> IF l.tail = NoSlot THEN s ELSE l.tail,
                   count |-> (l.count + 1) % Wide,
                   total |-> (l.total + n) % Wide]
             linked == [x \in Slots |->
                          CASE x = s -> o
                            [] x = l.head -> [b.slot[x] EXCEPT !.prev = s]
                            [] OTHER -> b.slot[x]]
         IN  InsertIndex([PutLevel(b, sd, p, m) EXCEPT !.slot = linked, !.used = @ \cup {s}],
                         ref, s, stored)

(* Mutant: the index keeps the entry of the freed slot.                    *)
Remove_KeepsIndex(b, ref) ==
    IF ref \notin DOMAIN b.index THEN b ELSE UnlinkAndFree(b, b.index[ref])

Remove(b, ref) ==
    IF ref \notin DOMAIN b.index THEN b
    ELSE Unindex(UnlinkAndFree(b, b.index[ref]), ref)

(* cancel and execute are the same function under two names.               *)
Reduce(b, ref, n) ==
    IF ref \notin DOMAIN b.index THEN b
    ELSE LET s == b.index[ref]
             k == Min({n, b.slot[s].remaining})
             c == DecLevelQty([b EXCEPT !.slot[s].remaining = @ - k],
                              b.slot[s].side, b.slot[s].price, k)
         IN  IF c.slot[s].remaining = 0
             THEN Unindex(UnlinkAndFree(c, s), ref) ELSE c

Replace(b, s, stored, old, new, sd, p, n) ==
    IF old \notin DOMAIN b.index THEN b
    ELSE Add(Remove(b, old), s, stored, new, sd, p, n)

SideOf(b, ref) ==
    IF ref \in DOMAIN b.index THEN b.slot[b.index[ref]].side ELSE "NONE"

----------------------------------------------------------------------------
Init == /\ slot = [s \in Slots |-> Blank] /\ used = {}
        /\ index = <<>> /\ orphans = {} /\ lvl = [sd \in Sides |-> <<>>]
        /\ tick = 0 /\ miscount = FALSE /\ adds = 0

(* What allocate may return: a free slot, or none when the other workers   *)
(* hold the rest of the pool.                                              *)
Allocation(b) == (Slots \ b.used) \cup {NoSlot}

(* The order ref has been reduced before.                                  *)
Miscounts(ref) ==
    /\ ref \in DOMAIN index
    /\ slot[index[ref]].shares # slot[index[ref]].remaining

(* A uint32_t of the level wraps when the order is added.                  *)
Wraps(b, s, sd, p, n) ==
    LET l == LevelAt(b, sd, p)
    IN  s # NoSlot /\ (l.count + 1 >= Wide \/ l.total + n >= Wide)

(* The feed names an order once: a reference in use is not added again.    *)
OnAdd(ev) ==
    /\ ev.type = "ADD"
    /\ adds < MaxAdds /\ ev.ref \notin DOMAIN index
    /\ \E s \in Allocation(Book), stored \in BOOLEAN :
          /\ Becomes(Add(Book, s, stored, ev.ref, ev.side, ev.price, ev.shares))
          /\ miscount' = (miscount \/ Wraps(Book, s, ev.side, ev.price, ev.shares))
    /\ adds' = adds + 1
    /\ UNCHANGED tick

OnDelete(ev) ==
    /\ ev.type = "DELETE"
    /\ Becomes(Remove(Book, ev.ref))
    /\ miscount' = (miscount \/ Miscounts(ev.ref))
    /\ UNCHANGED <<tick, adds>>

(* A reduction that empties an order unlinks it after remaining became 0.  *)
Reduced(ev) ==
    LET c == Reduce(Book, ev.ref, ev.shares)
    IN  /\ Becomes(c)
        /\ miscount' = (miscount \/ DOMAIN c.index # DOMAIN index)
        /\ UNCHANGED adds

OnCancel(ev) == ev.type = "CANCEL" /\ Reduced(ev) /\ UNCHANGED tick

(* P and C carry the price of the trade.                                   *)
OnTrade(ev) == ev.type = "TRADE" /\ Reduced(ev) /\ tick' = ev.price

(* E carries none: the book's price, or the last one kept.                 *)
OnExecute(ev) ==
    /\ ev.type = "EXECUTE"
    /\ Reduced(ev)
    /\ LET price == IF ev.ref \in DOMAIN index
                   THEN slot[index[ev.ref]].price ELSE ev.price
       IN  tick' = IF price >= 0 THEN price ELSE tick

(* The side of the event is not looked at: the new order takes the old     *)
(* one's.                                                                  *)
OnReplace(ev) ==
    /\ ev.type = "REPLACE"
    /\ adds < MaxAdds /\ ev.new \notin DOMAIN index
    /\ \E s \in Allocation(Remove(Book, ev.ref)), stored \in BOOLEAN :
          /\ Becomes(Replace(Book, s, stored, ev.ref, ev.new, SideOf(Book, ev.ref),
                             ev.price, ev.shares))
          /\ miscount' = \/ miscount \/ Miscounts(ev.ref)
                         \/ /\ ev.ref \in DOMAIN index
                            /\ Wraps(Remove(Book, ev.ref), s, SideOf(Book, ev.ref),
                                     ev.price, ev.shares)
    /\ adds' = adds + 1
    /\ UNCHANGED tick

(* A message of the feed, parsed, and the event handled.                   *)
OnEvent(ev) ==
    \/ OnAdd(ev) \/ OnDelete(ev) \/ OnCancel(ev) \/ OnTrade(ev)
    \/ OnExecute(ev) \/ OnReplace(ev)

Events == UNION {Feed(m) : m \in Messages}

Next == \E ev \in Events : OnEvent(ev)

Spec == Init /\ [][Next]_vars

----------------------------------------------------------------------------
(* remove, cancel, execute and replace give back exactly the slots whose   *)
(* index entry they erase: none is reachable once freed, and the only      *)
(* slots that leak are those of the inserts the map dropped when its nodes *)
(* had run out, each of them for good.                                     *)
IndexMatchesPool ==
    /\ used = {index[r] : r \in DOMAIN index} \cup orphans
    /\ \A r \in DOMAIN index :
          index[r] \notin orphans /\ slot[index[r]].order_ref = r

(* No link of a live order and no head of a level ever leads to a freed    *)
(* slot, whatever becomes of the level's count and total: the list code of *)
(* add and unlink_and_free is safe by itself.                              *)
LinksStayLive ==
    /\ \A s \in used :
          /\ slot[s].prev # NoSlot =>
                /\ slot[s].prev \in used /\ slot[slot[s].prev].next = s
                /\ slot[slot[s].prev].price = slot[s].price
          /\ slot[s].next # NoSlot =>
                /\ slot[s].next \in used /\ slot[slot[s].next].prev = s
                /\ slot[slot[s].next].side = slot[s].side
    /\ \A sd \in Sides : \A p \in DOMAIN lvl[sd] :
          lvl[sd][p].head # NoSlot =>
             /\ lvl[sd][p].head \in used
             /\ slot[lvl[sd][p].head].prev = NoSlot

RestingAt(sd, p) == {s \in used : slot[s].side = sd /\ slot[s].price = p}

(* Until an order leaves the book with part of it already cancelled or     *)
(* executed, or a level's quantity exceeds its 32 bits, the levels are     *)
(* exact: a level where orders rest and nowhere else, their number, their  *)
(* quantity, and the ends of their list.                                   *)
LevelsExactUnlessMiscounted ==
    ~miscount =>
       \A sd \in Sides, p \in Prices :
          /\ p \in DOMAIN lvl[sd] <=> RestingAt(sd, p) # {}
          /\ p \in DOMAIN lvl[sd] =>
             /\ lvl[sd][p].count = Cardinality(RestingAt(sd, p))
             /\ lvl[sd][p].total =
                   SumFunctionOnSet([s \in Slots |-> slot[s].remaining], RestingAt(sd, p))
             /\ \A s \in RestingAt(sd, p) :
                   /\ slot[s].prev = NoSlot <=> s = lvl[sd][p].head
                   /\ slot[s].next = NoSlot <=> s = lvl[sd][p].tail

=============================================================================
