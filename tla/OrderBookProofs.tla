-------------------------- MODULE OrderBookProofs --------------------------
(***************************************************************************)
(* Proofs about the order book and the order map, for every value of their *)
(* constants.                                                              *)
(*                                                                         *)
(* market/book/order_book.h: whatever the feed sends, the index and the    *)
(* pool agree but for dropped inserts, no link leads to a freed slot, and  *)
(* until something is miscounted the levels are exact.  The operations are *)
(* operators on the book, so each gets a lemma of its own about the        *)
(* structure and one about the levels, and an event composes them.         *)
(*                                                                         *)
(* core/memory/order_map.h: until a stale link is followed or published,   *)
(* a find is exact, chains end and every node is in one place.  The two    *)
(* modules share no variable.                                              *)
(***************************************************************************)
EXTENDS OrderBook, OrderMap, SumLemmas, TLAPS

Ends   == Slots \cup {NoSlot}
Orders == [order_ref : Refs \cup {0}, side : Sides \cup {"NONE"}, price : Prices \cup {0},
           shares : Nat, remaining : Nat, prev : Ends, next : Ends]
Levels == [head : Ends, tail : Ends, count : 0 .. Wide - 1, total : 0 .. Wide - 1]

SlotMaps  == [Slots -> Orders]
IndexMaps == UNION {[R -> Slots] : R \in SUBSET Refs}
LevelMaps == UNION {[P -> Levels] : P \in SUBSET Prices}

BookTypes(b) ==
  b \in [slot : SlotMaps, used : SUBSET Slots, index : IndexMaps, orphans : SUBSET Slots,
         lvl : [Sides -> LevelMaps]]

(* An order in the book has a place in the levels.                         *)
Placed(b) ==
  \A s \in b.used : b.slot[s].side \in Sides /\ b.slot[s].price \in Prices

(* Every link is answered by the opposite one of a live order of the same  *)
(* side and price.                                                         *)
Linked(b) ==
  \A s \in b.used :
    /\ b.slot[s].next # NoSlot =>
         /\ b.slot[s].next \in b.used /\ b.slot[b.slot[s].next].prev = s
         /\ b.slot[b.slot[s].next].side = b.slot[s].side
    /\ b.slot[s].prev # NoSlot =>
         /\ b.slot[s].prev \in b.used /\ b.slot[b.slot[s].prev].next = s
         /\ b.slot[b.slot[s].prev].price = b.slot[s].price

(* A level's head is a live order of that level with nothing before it: so *)
(* an unlinked order is the head of its own level or of none.              *)
HeadOK(b, sd, p, h) ==
  h # NoSlot => /\ h \in b.used /\ b.slot[h].prev = NoSlot
                /\ b.slot[h].side = sd /\ b.slot[h].price = p

Headed(b) ==
  \A sd \in Sides : \A p \in DOMAIN b.lvl[sd] : HeadOK(b, sd, p, b.lvl[sd][p].head)

(* What unlink_and_free needs of the book and gives back: all but the      *)
(* index, which its callers mend afterwards.                               *)
ListsOK(b) == BookTypes(b) /\ Placed(b) /\ Linked(b) /\ Headed(b)

Indexed(b) ==
  /\ b.used = {b.index[r] : r \in DOMAIN b.index} \cup b.orphans
  /\ \A r \in DOMAIN b.index :
       b.index[r] \notin b.orphans /\ b.slot[b.index[r]].order_ref = r

BookOK(b) == ListsOK(b) /\ Indexed(b)

BookInv == BookOK(Book)

----------------------------------------------------------------------------
(* A level as level_for_price creates it.                                  *)
LEMMA FreshIsLevel == Fresh \in Levels
  BY BookAssumption DEF Fresh, Levels, Ends

(* A slot that was never used.                                             *)
LEMMA BlankIsOrder == Blank \in Orders
  BY DEF Blank, Orders, Ends

(* A level, or the fresh one where there is none.                          *)
LEMMA LevelAtType ==
  ASSUME NEW b, BookTypes(b), NEW sd \in Sides, NEW p
  PROVE  LevelAt(b, sd, p) \in Levels
  <1>1. b.lvl[sd] \in LevelMaps
    BY DEF BookTypes
  <1>2. PICK P \in SUBSET Prices : b.lvl[sd] \in [P -> Levels]
    BY <1>1 DEF LevelMaps
  <1>3. CASE p \in DOMAIN b.lvl[sd]
    BY <1>2, <1>3 DEF LevelAt
  <1>4. CASE p \notin DOMAIN b.lvl[sd]
    BY <1>4, FreshIsLevel DEF LevelAt
  <1> QED  BY <1>3, <1>4

(* Only the level of sd and p may differ between b and c, where it is l.   *)
OnlyLevel(b, c, sd, p, l) ==
  /\ BookTypes(c)
  /\ c.slot = b.slot /\ c.used = b.used /\ c.index = b.index /\ c.orphans = b.orphans
  /\ \A t \in Sides : \A q \in DOMAIN c.lvl[t] :
       \/ t = sd /\ q = p /\ c.lvl[t][q] = l
       \/ ~(t = sd /\ q = p) /\ q \in DOMAIN b.lvl[t] /\ c.lvl[t][q] = b.lvl[t][q]

(* Storing a level changes that level only.                                *)
LEMMA PutLevelIs ==
  ASSUME NEW b, BookTypes(b), NEW sd \in Sides, NEW p \in Prices, NEW l \in Levels
  PROVE  OnlyLevel(b, PutLevel(b, sd, p, l), sd, p, l)
  <1> DEFINE f == Put(b.lvl[sd], p, l)
             c == PutLevel(b, sd, p, l)
  <1>1. PICK P \in SUBSET Prices : b.lvl[sd] \in [P -> Levels]
    BY DEF BookTypes, LevelMaps
  <1>2. f = [q \in {p} \cup P |-> IF q = p THEN l ELSE b.lvl[sd][q]]
    BY <1>1 DEF Put
  <1>3. f \in [{p} \cup P -> Levels]
    BY <1>1, <1>2
  <1>4. f \in LevelMaps
    BY <1>1, <1>3 DEF LevelMaps
  <1>5. c = [b EXCEPT !.lvl = [b.lvl EXCEPT ![sd] = f]]
    BY DEF PutLevel, BookTypes
  <1>6. BookTypes(c)
    BY <1>4, <1>5 DEF BookTypes
  <1>7. c.slot = b.slot /\ c.used = b.used /\ c.index = b.index /\ c.orphans = b.orphans
    BY <1>5 DEF BookTypes
  <1>8. ASSUME NEW t \in Sides, NEW q \in DOMAIN c.lvl[t]
        PROVE  \/ t = sd /\ q = p /\ c.lvl[t][q] = l
               \/ ~(t = sd /\ q = p) /\ q \in DOMAIN b.lvl[t] /\ c.lvl[t][q] = b.lvl[t][q]
    <2>1. c.lvl = [b.lvl EXCEPT ![sd] = f]
      BY <1>5 DEF BookTypes
    <2>2. b.lvl \in [Sides -> LevelMaps]
      BY DEF BookTypes
    <2>3. CASE t = sd
      BY <1>1, <1>2, <2>1, <2>2, <2>3
    <2>4. CASE t # sd
      BY <2>1, <2>2, <2>4
    <2> QED  BY <2>3, <2>4
  <1> QED  BY <1>6, <1>7, <1>8 DEF OnlyLevel

(* Erasing a level changes that level only.                                *)
LEMMA EraseLevelIs ==
  ASSUME NEW b, BookTypes(b), NEW sd \in Sides, NEW p \in Prices, NEW l
  PROVE  OnlyLevel(b, EraseLevel(b, sd, p), sd, p, l)
  <1> DEFINE f == [q \in DOMAIN b.lvl[sd] \ {p} |-> b.lvl[sd][q]]
             c == EraseLevel(b, sd, p)
  <1>1. PICK P \in SUBSET Prices : b.lvl[sd] \in [P -> Levels]
    BY DEF BookTypes, LevelMaps
  <1>3. f \in [P \ {p} -> Levels]
    BY <1>1
  <1>4. f \in LevelMaps
    BY <1>1, <1>3 DEF LevelMaps
  <1>5. c = [b EXCEPT !.lvl = [b.lvl EXCEPT ![sd] = f]]
    BY DEF EraseLevel, BookTypes
  <1>6. BookTypes(c)
    BY <1>4, <1>5 DEF BookTypes
  <1>7. c.slot = b.slot /\ c.used = b.used /\ c.index = b.index /\ c.orphans = b.orphans
    BY <1>5 DEF BookTypes
  <1>8. ASSUME NEW t \in Sides, NEW q \in DOMAIN c.lvl[t]
        PROVE  ~(t = sd /\ q = p) /\ q \in DOMAIN b.lvl[t] /\ c.lvl[t][q] = b.lvl[t][q]
    <2>1. c.lvl = [b.lvl EXCEPT ![sd] = f]
      BY <1>5 DEF BookTypes
    <2>2. b.lvl \in [Sides -> LevelMaps]
      BY DEF BookTypes
    <2>3. CASE t = sd
      BY <1>1, <2>1, <2>2, <2>3
    <2>4. CASE t # sd
      BY <2>1, <2>2, <2>4
    <2> QED  BY <2>3, <2>4
  <1> QED  BY <1>6, <1>7, <1>8 DEF OnlyLevel

(* A level that stays or disappears with its head keeps the lists whole.   *)
LEMMA SameHead ==
  ASSUME NEW b, ListsOK(b), NEW sd \in Sides, NEW p \in Prices, NEW l,
         l.head = LevelAt(b, sd, p).head,
         NEW c, OnlyLevel(b, c, sd, p, l)
  PROVE  ListsOK(c)
  <1>1. HeadOK(b, sd, p, l.head)
    <2>1. CASE p \in DOMAIN b.lvl[sd]
      <3>1. l.head = b.lvl[sd][p].head
        BY <2>1 DEF LevelAt
      <3> QED  BY <2>1, <3>1 DEF ListsOK, Headed
    <2>2. CASE p \notin DOMAIN b.lvl[sd]
      <3>1. l.head = NoSlot
        BY <2>2 DEF LevelAt, Fresh
      <3> QED  BY <3>1 DEF HeadOK
    <2> QED  BY <2>1, <2>2
  <1>4. c.slot = b.slot /\ c.used = b.used
    BY DEF OnlyLevel
  <1>2. Headed(c)
    <2> SUFFICES ASSUME NEW t \in Sides, NEW q \in DOMAIN c.lvl[t]
                 PROVE  HeadOK(c, t, q, c.lvl[t][q].head)
      BY DEF Headed
    <2>1. HeadOK(b, t, q, c.lvl[t][q].head)
      <3>1. CASE t = sd /\ q = p /\ c.lvl[t][q] = l
        BY <1>1, <3>1
      <3>2. CASE q \in DOMAIN b.lvl[t] /\ c.lvl[t][q] = b.lvl[t][q]
        <4>1. HeadOK(b, t, q, b.lvl[t][q].head)
          BY <3>2 DEF ListsOK, Headed
        <4> QED  BY <3>2, <4>1
      <3> QED  BY <3>1, <3>2 DEF OnlyLevel
    <2> QED  BY <1>4, <2>1 DEF HeadOK
  <1>3. BookTypes(c) /\ Placed(c) /\ Linked(c)
    BY DEF OnlyLevel, ListsOK, Placed, Linked
  <1> QED  BY <1>2, <1>3 DEF ListsOK

----------------------------------------------------------------------------
(* Taking one live order out of its list.                                  *)
LEMMA RelinkedType ==
  ASSUME NEW f \in SlotMaps, NEW s \in Slots
  PROVE  /\ Relinked(f, s) \in SlotMaps
         /\ \A x \in Slots \ {s} :
              /\ Relinked(f, s)[x].next = IF x = f[s].prev THEN f[s].next ELSE f[x].next
              /\ Relinked(f, s)[x].prev = IF x = f[s].next THEN f[s].prev ELSE f[x].prev
              /\ Relinked(f, s)[x].side = f[x].side
              /\ Relinked(f, s)[x].price = f[x].price
              /\ Relinked(f, s)[x].order_ref = f[x].order_ref
              /\ Relinked(f, s)[x].remaining = f[x].remaining
  <1> DEFINE g == Relinked(f, s)
             R(x) == [f[x] EXCEPT !.next = IF x = f[s].prev THEN f[s].next ELSE @,
                                  !.prev = IF x = f[s].next THEN f[s].prev ELSE @]
  <1>1. g = [x \in Slots |-> IF x = s THEN Blank ELSE R(x)]
    BY DEF Relinked
  <1>2. f[s].next \in Ends /\ f[s].prev \in Ends
    BY DEF SlotMaps, Orders
  <1>3. ASSUME NEW x \in Slots
        PROVE  /\ R(x) \in Orders
               /\ R(x).next = IF x = f[s].prev THEN f[s].next ELSE f[x].next
               /\ R(x).prev = IF x = f[s].next THEN f[s].prev ELSE f[x].prev
               /\ R(x).side = f[x].side /\ R(x).price = f[x].price
               /\ R(x).order_ref = f[x].order_ref /\ R(x).remaining = f[x].remaining
    <2>1. f[x] \in Orders
      BY DEF SlotMaps
    <2> QED  BY <1>2, <2>1 DEF Orders
  <1>4. g \in SlotMaps
    <2> HIDE DEF R
    <2> QED  BY <1>1, <1>3, BlankIsOrder DEF SlotMaps
  <1>5. \A x \in Slots \ {s} : g[x] = R(x)
    BY <1>1
  <1> HIDE DEF g, R
  <1>6. \A x \in Slots \ {s} :
          /\ g[x].next = IF x = f[s].prev THEN f[s].next ELSE f[x].next
          /\ g[x].prev = IF x = f[s].next THEN f[s].prev ELSE f[x].prev
          /\ g[x].side = f[x].side
          /\ g[x].price = f[x].price
          /\ g[x].order_ref = f[x].order_ref /\ g[x].remaining = f[x].remaining
    BY <1>3, <1>5
  <1> QED  BY <1>4, <1>6 DEF g

(* unlink_and_free keeps the lists of the orders that stay.                *)
LEMMA UnlinkAndFreeOK ==
  ASSUME NEW b, ListsOK(b), NEW s \in b.used,
         NEW c, c = UnlinkAndFree(b, s)
  PROVE  /\ ListsOK(c)
         /\ c.used = b.used \ {s} /\ c.index = b.index /\ c.orphans = b.orphans
         /\ \A x \in Slots \ {s} : c.slot[x].order_ref = b.slot[x].order_ref
  <1> DEFINE o == b.slot[s]
             sd == o.side
             p == o.price
             l == LevelAt(b, sd, p)
             m == [head |-> IF o.prev = NoSlot THEN o.next ELSE l.head,
                   tail |-> IF o.next = NoSlot THEN o.prev ELSE l.tail,
                   count |-> (l.count - 1) % Wide,
                   total |-> (l.total - o.shares) % Wide]
             put == PutLevel(b, sd, p, m)
             d == IF m.count = 0 THEN EraseLevel(put, sd, p) ELSE put
  <1>1. BookTypes(b) /\ b.slot \in SlotMaps /\ s \in Slots /\ o \in Orders /\ b.used \subseteq Slots
    BY DEF ListsOK, BookTypes, SlotMaps
  <1>2. sd \in Sides /\ p \in Prices
    BY DEF ListsOK, Placed
  <1>3. l \in Levels
    BY <1>1, <1>2, LevelAtType
  <1>4. m \in Levels
    <2>1. o.next \in Ends /\ o.prev \in Ends /\ o.shares \in Nat
      BY <1>1 DEF Orders
    <2>2. l.head \in Ends /\ l.tail \in Ends /\ l.count \in Nat /\ l.total \in Nat
      BY <1>3, BookAssumption DEF Levels
    <2>3. (l.count - 1) % Wide \in 0 .. Wide - 1
      BY <2>2, BookAssumption
    <2>4. (l.total - o.shares) % Wide \in 0 .. Wide - 1
      BY <2>1, <2>2, BookAssumption
    <2> HIDE DEF o, l
    <2> QED  BY <2>1, <2>2, <2>3, <2>4 DEF Levels
  <1>5. OnlyLevel(b, d, sd, p, m)
    <2> HIDE DEF m, sd, p
    <2>1. OnlyLevel(b, put, sd, p, m)
      BY <1>1, <1>2, <1>4, PutLevelIs
    <2> HIDE DEF put
    <2>2. OnlyLevel(put, EraseLevel(put, sd, p), sd, p, m)
      <3>1. BookTypes(put)
        BY <2>1 DEF OnlyLevel
      <3> QED  BY <3>1, <1>2, EraseLevelIs
    <2>3. CASE m.count = 0
      BY <2>1, <2>2, <2>3 DEF OnlyLevel
    <2>4. CASE m.count # 0
      BY <2>1, <2>4
    <2> QED  BY <2>3, <2>4
  <1> DEFINE g == Relinked(b.slot, s)
  <1>6. c = [d EXCEPT !.slot = g, !.used = b.used \ {s}]
    <2>1. d.used = b.used
      BY <1>5 DEF OnlyLevel
    <2> QED  BY <2>1 DEF UnlinkAndFree
  <1>7. g \in SlotMaps
    BY <1>1, RelinkedType
  <1>8. /\ c.slot = g /\ c.used = b.used \ {s} /\ c.index = b.index /\ c.lvl = d.lvl
        /\ c.orphans = b.orphans /\ BookTypes(c)
    <2> HIDE DEF d, g, m, sd, p
    <2>1. /\ c.slot = g /\ c.used = b.used \ {s} /\ c.index = d.index /\ c.lvl = d.lvl
          /\ c.orphans = d.orphans
      BY <1>5, <1>6 DEF OnlyLevel, BookTypes
    <2>2. BookTypes(c)
      BY <1>1, <1>5, <1>6, <1>7 DEF OnlyLevel, BookTypes
    <2> QED  BY <1>5, <2>1, <2>2 DEF OnlyLevel
  <1>9. \A x \in Slots \ {s} :
          /\ g[x].next = IF x = o.prev THEN o.next ELSE b.slot[x].next
          /\ g[x].prev = IF x = o.next THEN o.prev ELSE b.slot[x].prev
          /\ g[x].side = b.slot[x].side
          /\ g[x].price = b.slot[x].price
          /\ g[x].order_ref = b.slot[x].order_ref
    BY <1>1, RelinkedType
  <1> HIDE DEF g, d, put
  <1>10. Placed(c)
    BY <1>1, <1>8, <1>9 DEF ListsOK, Placed
  <1>11. /\ o.next # NoSlot => /\ o.next \in b.used /\ b.slot[o.next].prev = s
                               /\ b.slot[o.next].side = sd
         /\ o.prev # NoSlot => /\ o.prev \in b.used /\ b.slot[o.prev].next = s
                               /\ b.slot[o.prev].price = p
    BY DEF ListsOK, Linked
  <1>12. NoSlot \notin Slots
    BY BookAssumption
  <1>13. Linked(c)
    <2>1. ASSUME NEW x \in c.used, c.slot[x].next # NoSlot
          PROVE  /\ c.slot[x].next \in c.used /\ c.slot[c.slot[x].next].prev = x
                 /\ c.slot[c.slot[x].next].side = c.slot[x].side
      <3>1. x \in b.used /\ x # s
        BY <1>8
      <3>2. b.slot[x].next # NoSlot =>
              /\ b.slot[x].next \in b.used /\ b.slot[b.slot[x].next].prev = x
              /\ b.slot[b.slot[x].next].side = b.slot[x].side
        BY <3>1 DEF ListsOK, Linked
      <3>3. CASE x = o.prev
        <4>1. b.slot[x].next = s /\ b.slot[x].side = sd
          BY <3>1, <3>2, <3>3, <1>11, <1>12, <1>1
        <4>2. g[x].next = o.next
          BY <1>1, <1>9, <3>1, <3>3
        <4>3. o.next # s
          BY <3>3, <4>1, <3>1, <1>11, <1>12, <1>1
        <4>4. g[o.next].prev = x
          BY <4>2, <4>3, <2>1, <1>1, <1>8, <1>9, <1>11, <3>3
        <4>5. g[o.next].side = g[x].side
          BY <4>1, <4>2, <4>3, <2>1, <1>1, <1>8, <1>9, <1>11, <3>1
        <4> QED  BY <4>2, <4>3, <4>4, <4>5, <2>1, <1>8, <1>11
      <3>4. CASE x # o.prev
        <4>1. g[x].next = b.slot[x].next
          BY <1>1, <1>9, <3>1, <3>4
        <4>2. b.slot[x].next # s
          BY <3>2, <3>4, <1>1, <1>12
        <4>3. b.slot[x].next # o.next
          BY <4>1, <2>1, <1>8, <3>2, <3>1, <1>11
        <4> HIDE DEF o
        <4> QED  BY <4>1, <4>2, <4>3, <2>1, <1>1, <1>8, <1>9, <3>1, <3>2
      <3> QED  BY <3>3, <3>4
    <2>2. ASSUME NEW x \in c.used, c.slot[x].prev # NoSlot
          PROVE  /\ c.slot[x].prev \in c.used /\ c.slot[c.slot[x].prev].next = x
                 /\ c.slot[c.slot[x].prev].price = c.slot[x].price
      <3>1. x \in b.used /\ x # s
        BY <1>8
      <3>2. b.slot[x].prev # NoSlot =>
              /\ b.slot[x].prev \in b.used /\ b.slot[b.slot[x].prev].next = x
              /\ b.slot[b.slot[x].prev].price = b.slot[x].price
        BY <3>1 DEF ListsOK, Linked
      <3>3. CASE x = o.next
        <4>1. b.slot[x].prev = s /\ b.slot[x].price = p
          BY <3>1, <3>2, <3>3, <1>11, <1>12, <1>1
        <4>2. g[x].prev = o.prev
          BY <1>1, <1>9, <3>1, <3>3
        <4>3. o.prev # s
          BY <3>3, <4>1, <3>1, <1>11, <1>12, <1>1
        <4>4. g[o.prev].next = x
          BY <4>2, <4>3, <2>2, <1>1, <1>8, <1>9, <1>11, <3>3
        <4>5. g[o.prev].price = g[x].price
          BY <4>1, <4>2, <4>3, <2>2, <1>1, <1>8, <1>9, <1>11, <3>1
        <4> QED  BY <4>2, <4>3, <4>4, <4>5, <2>2, <1>8, <1>11
      <3>4. CASE x # o.next
        <4>1. g[x].prev = b.slot[x].prev
          BY <1>1, <1>9, <3>1, <3>4
        <4>2. b.slot[x].prev # s
          BY <3>2, <3>4, <1>1, <1>12
        <4>3. b.slot[x].prev # o.prev
          BY <4>1, <2>2, <1>8, <3>2, <3>1, <1>11
        <4> HIDE DEF o
        <4> QED  BY <4>1, <4>2, <4>3, <2>2, <1>1, <1>8, <1>9, <3>1, <3>2
      <3> QED  BY <3>3, <3>4
    <2> QED  BY <2>1, <2>2 DEF Linked
  <1>14. Headed(c)
    <2>1. ASSUME NEW t \in Sides, NEW q \in DOMAIN c.lvl[t]
          PROVE  HeadOK(c, t, q, c.lvl[t][q].head)
      <3>1. HeadOK(b, sd, p, l.head)
        <4> HIDE DEF sd, p
        <4> QED  BY <1>2 DEF LevelAt, Fresh, HeadOK, ListsOK, Headed
      <3>2. HeadOK(c, sd, p, m.head)
        <4>1. CASE o.prev = NoSlot
          <5>1. m.head = o.next
            BY <4>1
          <5>2. CASE o.next = NoSlot
            BY <5>1, <5>2 DEF HeadOK
          <5>3. CASE o.next # NoSlot
            <6>1. o.next # s
              BY <5>3, <4>1, <1>11, <1>1, <1>12
            <6>2. b.slot[o.next].price = p
              <7>1. b.slot[o.next].prev = s /\ s # NoSlot /\ o.next \in b.used
                BY <5>3, <1>11, <1>1, <1>12
              <7> HIDE DEF o
              <7>2. b.slot[s].price = b.slot[o.next].price
                BY <7>1 DEF ListsOK, Linked
              <7> QED  BY <7>2 DEF o
            <6>3. g[o.next].prev = NoSlot /\ g[o.next].side = sd /\ g[o.next].price = p
              BY <6>1, <6>2, <5>3, <4>1, <1>1, <1>9, <1>11
            <6> HIDE DEF m
            <6> QED  BY <5>1, <6>1, <6>3, <5>3, <1>8, <1>11 DEF HeadOK
          <5> QED  BY <5>2, <5>3
        <4>2. CASE o.prev # NoSlot
          <5>1. m.head = l.head
            BY <4>2
          <5> HIDE DEF l, m
          <5>2. ASSUME l.head # NoSlot PROVE l.head # s /\ l.head # o.next
            BY <5>2, <3>1, <4>2, <1>1, <1>11, <1>12 DEF HeadOK
          <5> QED  BY <5>1, <5>2, <3>1, <1>1, <1>8, <1>9 DEF HeadOK
        <4> QED  BY <4>1, <4>2
      <3> HIDE DEF m
      <3>3. CASE t = sd /\ q = p
        <4>1. c.lvl[t][q] = m
          BY <3>3, <1>5, <1>8 DEF OnlyLevel
        <4> QED  BY <3>2, <3>3, <4>1
      <3>4. CASE ~(t = sd /\ q = p)
        <4>1. q \in DOMAIN b.lvl[t] /\ c.lvl[t][q] = b.lvl[t][q]
          BY <3>4, <1>5, <1>8 DEF OnlyLevel
        <4> DEFINE h == b.lvl[t][q].head
        <4>2. HeadOK(b, t, q, h)
          BY <4>1 DEF ListsOK, Headed
        <4> HIDE DEF h
        <4>3. ASSUME h # NoSlot PROVE h # s /\ h # o.next
          BY <4>2, <4>3, <3>4, <1>1, <1>11, <1>12 DEF HeadOK
        <4>4. HeadOK(c, t, q, h)
          BY <4>2, <4>3, <1>1, <1>8, <1>9 DEF HeadOK
        <4> QED  BY <4>1, <4>4 DEF h
      <3> QED  BY <3>3, <3>4
    <2> QED  BY <2>1 DEF Headed
  <1> QED  BY <1>8, <1>9, <1>10, <1>13, <1>14 DEF ListsOK

----------------------------------------------------------------------------
(* remove, and the end of a reduction: the slot and its index entry go     *)
(* together, and no other entry leads to the slot.                         *)
LEMMA UnindexedOK ==
  ASSUME NEW b, BookOK(b), NEW ref \in DOMAIN b.index,
         NEW c, c = Unindex(UnlinkAndFree(b, b.index[ref]), ref)
  PROVE  BookOK(c) /\ DOMAIN c.index = DOMAIN b.index \ {ref}
  <1> DEFINE s == b.index[ref]
             d == UnlinkAndFree(b, s)
             f == [r \in DOMAIN b.index \ {ref} |-> b.index[r]]
  <1>1. ListsOK(b) /\ s \in b.used
    BY DEF BookOK, Indexed
  <1>2. /\ ListsOK(d) /\ d.used = b.used \ {s} /\ d.index = b.index /\ d.orphans = b.orphans
        /\ \A x \in Slots \ {s} : d.slot[x].order_ref = b.slot[x].order_ref
    <2> HIDE DEF d, s
    <2> QED  BY <1>1, UnlinkAndFreeOK DEF d
  <1> HIDE DEF d
  <1>3. c = [d EXCEPT !.index = f]
    BY <1>2 DEF Unindex, d
  <1>4. PICK R \in SUBSET Refs : b.index \in [R -> Slots]
    BY <1>1 DEF ListsOK, BookTypes, IndexMaps
  <1>5. f \in IndexMaps /\ DOMAIN f = R \ {ref}
    <2>1. f \in [R \ {ref} -> Slots]
      BY <1>4
    <2> QED  BY <1>4, <2>1 DEF IndexMaps
  <1> HIDE DEF f
  <1>6. /\ BookTypes(c)
        /\ c.slot = d.slot /\ c.used = d.used /\ c.lvl = d.lvl /\ c.index = f
        /\ c.orphans = d.orphans
    BY <1>2, <1>3, <1>5 DEF ListsOK, BookTypes
  <1>7. ListsOK(c)
    <2>1. Placed(c) /\ Linked(c)
      BY <1>2, <1>6 DEF ListsOK, Placed, Linked
    <2>2. Headed(c)
      BY <1>2, <1>6 DEF ListsOK, Headed, HeadOK
    <2> QED  BY <1>6, <2>1, <2>2 DEF ListsOK
  <1>8. \A r \in R \ {ref} : f[r] = b.index[r] /\ b.index[r] \in Slots \ {s}
    <2>1. \A r \in R \ {ref} : f[r] = b.index[r] /\ b.index[r] \in Slots
      BY <1>4 DEF f
    <2>2. ASSUME NEW r \in R \ {ref} PROVE b.index[r] # s
      BY <1>4 DEF BookOK, Indexed
    <2> QED  BY <2>1, <2>2
  <1>9. Indexed(c)
    <2>1. b.used = {b.index[r] : r \in R} \cup b.orphans /\ s \notin b.orphans
      BY <1>4 DEF BookOK, Indexed
    <2>2. c.used = {f[r] : r \in R \ {ref}} \cup c.orphans
      <3> HIDE DEF s
      <3>1. \A x : x \in b.used <=> (\E r \in R : x = b.index[r]) \/ x \in b.orphans
        BY <2>1
      <3>2. \A x : x \in c.used <=> (\E r \in R \ {ref} : x = b.index[r]) \/ x \in c.orphans
        BY <2>1, <3>1, <1>2, <1>6, <1>8 DEF s
      <3> QED  BY <3>2, <1>8
    <2>3. \A r \in R \ {ref} : f[r] \notin c.orphans /\ c.slot[f[r]].order_ref = r
      BY <1>2, <1>4, <1>6, <1>8 DEF BookOK, Indexed
    <2> QED  BY <2>2, <2>3, <1>5, <1>6 DEF Indexed
  <1> QED  BY <1>4, <1>5, <1>6, <1>7, <1>9 DEF BookOK

(* delete_order keeps the book.                                            *)
LEMMA RemoveOK ==
  ASSUME NEW b, BookOK(b), NEW ref
  PROVE  BookOK(Remove(b, ref)) /\ DOMAIN Remove(b, ref).index = DOMAIN b.index \ {ref}
  <1>1. CASE ref \in DOMAIN b.index
    BY <1>1, UnindexedOK DEF Remove
  <1>2. CASE ref \notin DOMAIN b.index
    BY <1>2 DEF Remove
  <1> QED  BY <1>1, <1>2

----------------------------------------------------------------------------
(* cancel and execute.                                                     *)
LEMMA DecLevelQtyOK ==
  ASSUME NEW b, BookOK(b), NEW sd \in Sides, NEW p \in Prices, NEW n \in Nat,
         NEW c, c = DecLevelQty(b, sd, p, n)
  PROVE  BookOK(c) /\ c.index = b.index /\ c.slot = b.slot
  <1> DEFINE l == LevelAt(b, sd, p)
             t == (l.total - n) % Wide
             m == [l EXCEPT !.total = t]
  <1>1. BookTypes(b) /\ ListsOK(b)
    BY DEF BookOK, ListsOK
  <1>2. l \in Levels
    BY <1>1, LevelAtType
  <1>3. t \in 0 .. Wide - 1
    <2>1. l.total \in Nat
      BY <1>2, BookAssumption DEF Levels
    <2> HIDE DEF l
    <2> QED  BY <2>1, BookAssumption
  <1>4. m \in Levels /\ m.head = l.head
    <2> HIDE DEF l, t
    <2> QED  BY <1>2, <1>3 DEF Levels
  <1>5. OnlyLevel(b, c, sd, p, m)
    <2>1. CASE t = 0
      <3> HIDE DEF m
      <3> QED  BY <1>1, <2>1, EraseLevelIs DEF DecLevelQty
    <2>2. CASE t # 0
      <3>1. c = PutLevel(b, sd, p, m)
        BY <2>2 DEF DecLevelQty
      <3> HIDE DEF m
      <3> QED  BY <1>1, <1>4, <3>1, PutLevelIs
    <2> QED  BY <2>1, <2>2
  <1> HIDE DEF m
  <1>6. ListsOK(c)
    BY <1>1, <1>4, <1>5, SameHead
  <1>7. Indexed(c)
    BY <1>5 DEF OnlyLevel, BookOK, Indexed
  <1> QED  BY <1>5, <1>6, <1>7 DEF BookOK, OnlyLevel

(* The order alone, with k shares less.                                    *)
Lowered(b, s, k) == [b EXCEPT !.slot[s].remaining = @ - k]

(* An order's remaining shares are lowered.                                *)
LEMMA LoweredOK ==
  ASSUME NEW b, BookOK(b), NEW s \in b.used, NEW k \in Nat, b.slot[s].remaining - k \in Nat,
         NEW d, d = Lowered(b, s, k)
  PROVE  /\ BookOK(d) /\ d.used = b.used /\ d.index = b.index /\ d.lvl = b.lvl
         /\ d.slot[s].remaining = b.slot[s].remaining - k
         /\ \A x \in Slots :
              /\ d.slot[x].order_ref = b.slot[x].order_ref /\ d.slot[x].side = b.slot[x].side
              /\ d.slot[x].price = b.slot[x].price /\ d.slot[x].prev = b.slot[x].prev
              /\ d.slot[x].next = b.slot[x].next
              /\ x # s => d.slot[x].remaining = b.slot[x].remaining
  <1> DEFINE o == [b.slot[s] EXCEPT !.remaining = @ - k]
  <1>1. BookTypes(b) /\ s \in Slots /\ b.slot \in SlotMaps /\ b.slot[s] \in Orders
    BY DEF BookOK, ListsOK, BookTypes, SlotMaps
  <1>2. d = [b EXCEPT !.slot = [b.slot EXCEPT ![s] = o]]
    BY <1>1 DEF Lowered, BookTypes, SlotMaps
  <1>3. /\ o \in Orders /\ o.remaining = b.slot[s].remaining - k
        /\ o.order_ref = b.slot[s].order_ref /\ o.side = b.slot[s].side
        /\ o.price = b.slot[s].price /\ o.prev = b.slot[s].prev /\ o.next = b.slot[s].next
    BY <1>1 DEF Orders
  <1> HIDE DEF o
  <1>4. /\ d.slot = [b.slot EXCEPT ![s] = o] /\ d.used = b.used /\ d.index = b.index
        /\ d.lvl = b.lvl /\ d.orphans = b.orphans
    BY <1>1, <1>2 DEF BookTypes
  <1>5. d.slot \in SlotMaps
    BY <1>1, <1>3, <1>4 DEF SlotMaps
  <1>6. BookTypes(d)
    BY <1>1, <1>2, <1>4, <1>5 DEF BookTypes
  <1>7. \A x \in Slots : d.slot[x] = IF x = s THEN o ELSE b.slot[x]
    BY <1>1, <1>4 DEF SlotMaps
  <1>8. /\ d.slot[s].remaining = b.slot[s].remaining - k
        /\ \A x \in Slots :
             /\ d.slot[x].order_ref = b.slot[x].order_ref /\ d.slot[x].side = b.slot[x].side
             /\ d.slot[x].price = b.slot[x].price /\ d.slot[x].prev = b.slot[x].prev
             /\ d.slot[x].next = b.slot[x].next
             /\ x # s => d.slot[x].remaining = b.slot[x].remaining
    BY <1>1, <1>3, <1>7
  <1>9. BookOK(d)
    <2>1. d.used \subseteq Slots /\ \A r \in DOMAIN d.index : d.index[r] \in Slots
      BY <1>6 DEF BookTypes, IndexMaps
    <2>2. Placed(d) /\ Indexed(d)
      BY <1>4, <1>8, <2>1 DEF BookOK, ListsOK, Placed, Indexed
    <2>3. Linked(d)
      <3>1. ASSUME NEW x \in d.used
            PROVE  /\ d.slot[x].next # NoSlot =>
                        /\ d.slot[x].next \in d.used /\ d.slot[d.slot[x].next].prev = x
                        /\ d.slot[d.slot[x].next].side = d.slot[x].side
                   /\ d.slot[x].prev # NoSlot =>
                        /\ d.slot[x].prev \in d.used /\ d.slot[d.slot[x].prev].next = x
                        /\ d.slot[d.slot[x].prev].price = d.slot[x].price
        BY <1>4, <1>8, <2>1 DEF BookOK, ListsOK, Linked
      <3> QED  BY <3>1 DEF Linked
    <2>4. Headed(d)
      <3> SUFFICES ASSUME NEW t \in Sides, NEW q \in DOMAIN d.lvl[t]
                   PROVE  HeadOK(d, t, q, d.lvl[t][q].head)
        BY DEF Headed
      <3>1. HeadOK(b, t, q, d.lvl[t][q].head)
        BY <1>4 DEF BookOK, ListsOK, Headed
      <3> QED  BY <1>4, <1>8, <2>1, <3>1 DEF HeadOK
    <2> QED  BY <1>6, <2>2, <2>3, <2>4 DEF BookOK, ListsOK
  <1> QED  BY <1>4, <1>8, <1>9

(* How much a reduction takes.                                             *)
LEMMA Smaller ==
  ASSUME NEW n \in Nat, NEW x \in Nat
  PROVE  Min({n, x}) \in Nat /\ x - Min({n, x}) \in Nat
  <1>1. \E z \in {n, x} : \A y \in {n, x} : z =< y
    OBVIOUS
  <1>2. Min({n, x}) \in {n, x} /\ \A y \in {n, x} : Min({n, x}) =< y
    BY <1>1 DEF Min
  <1> QED  BY <1>2

(* The order and its level, before an empty order is unlinked.             *)
Cut(b, s, n) ==
  LET k == Min({n, b.slot[s].remaining})
  IN  DecLevelQty(Lowered(b, s, k), b.slot[s].side, b.slot[s].price, k)

(* The shares of an order and of its level are cut.                        *)
LEMMA CutOK ==
  ASSUME NEW b, BookOK(b), NEW ref \in DOMAIN b.index, NEW n \in Nat, NEW s, s = b.index[ref]
  PROVE  /\ BookOK(Cut(b, s, n)) /\ Cut(b, s, n).index = b.index
         /\ Reduce(b, ref, n) = IF Cut(b, s, n).slot[s].remaining = 0
                                THEN Unindex(UnlinkAndFree(Cut(b, s, n), s), ref) ELSE Cut(b, s, n)
  <1> DEFINE k == Min({n, b.slot[s].remaining})
             d == Lowered(b, s, k)
             c == Cut(b, s, n)
  <1>1. /\ s \in b.used /\ b.slot[s].side \in Sides /\ b.slot[s].price \in Prices
        /\ b.slot[s].remaining \in Nat
    BY DEF BookOK, Indexed, ListsOK, BookTypes, Placed, SlotMaps, Orders
  <1>2. k \in Nat /\ b.slot[s].remaining - k \in Nat
    BY <1>1, Smaller
  <1>3. c = DecLevelQty(d, b.slot[s].side, b.slot[s].price, k)
    BY DEF Cut
  <1>4. Reduce(b, ref, n) = IF c.slot[s].remaining = 0
                            THEN Unindex(UnlinkAndFree(c, s), ref) ELSE c
    BY DEF Reduce, Cut, Lowered
  <1> HIDE DEF k, c
  <1>5. BookOK(d) /\ d.index = b.index
    BY <1>1, <1>2, LoweredOK
  <1> HIDE DEF d
  <1>6. BookOK(c) /\ c.index = b.index
    <2> DEFINE sd == b.slot[s].side
               p == b.slot[s].price
    <2>1. /\ BookOK(d) /\ d.index = b.index /\ sd \in Sides /\ p \in Prices
          /\ k \in Nat /\ c = DecLevelQty(d, sd, p, k)
      BY <1>1, <1>2, <1>3, <1>5
    <2> HIDE DEF sd, p
    <2> QED  BY ONLY <2>1, DecLevelQtyOK
  <1> QED  BY <1>4, <1>6 DEF c

(* A partial cancel or execution keeps the book.                           *)
LEMMA ReduceOK ==
  ASSUME NEW b, BookOK(b), NEW ref, NEW n \in Nat
  PROVE  BookOK(Reduce(b, ref, n)) /\ DOMAIN Reduce(b, ref, n).index \subseteq DOMAIN b.index
  <1>1. CASE ref \notin DOMAIN b.index
    BY <1>1 DEF Reduce
  <1>2. CASE ref \in DOMAIN b.index
    <2> DEFINE s == b.index[ref]
               c == Cut(b, s, n)
    <2>1. /\ BookOK(c) /\ c.index = b.index
          /\ Reduce(b, ref, n) = IF c.slot[s].remaining = 0
                                 THEN Unindex(UnlinkAndFree(c, s), ref) ELSE c
      BY <1>2, CutOK
    <2> HIDE DEF c
    <2>2. CASE c.slot[s].remaining = 0
      <3>1. Reduce(b, ref, n) = Unindex(UnlinkAndFree(c, c.index[ref]), ref)
        BY <2>1, <2>2
      <3>2. ref \in DOMAIN c.index
        BY <1>2, <2>1
      <3> QED  BY <2>1, <3>1, <3>2, UnindexedOK
    <2>3. CASE c.slot[s].remaining # 0
      BY <2>1, <2>3
    <2> QED  BY <2>2, <2>3
  <1> QED  BY <1>1, <1>2

----------------------------------------------------------------------------
(* What the insert into the index changes, with room for it or without.  *)
LEMMA InsertIndexIs ==
  ASSUME NEW b, BookTypes(b), NEW ref \in Refs, NEW s \in Slots, NEW room \in BOOLEAN,
         NEW c, c = InsertIndex(b, ref, s, room)
  PROVE  /\ BookTypes(c)
         /\ c.slot = b.slot /\ c.used = b.used /\ c.lvl = b.lvl
         /\ room => /\ DOMAIN c.index = DOMAIN b.index \cup {ref} /\ c.index[ref] = s
                    /\ \A r \in DOMAIN b.index \ {ref} : c.index[r] = b.index[r]
                    /\ c.orphans = b.orphans
         /\ ~room => c.index = b.index /\ c.orphans = b.orphans \cup {s}
  <1> DEFINE f == Put(b.index, ref, s)
  <1>1. PICK R \in SUBSET Refs : b.index \in [R -> Slots]
    BY DEF BookTypes, IndexMaps
  <1>2. f \in [R \cup {ref} -> Slots]
    BY <1>1 DEF Put
  <1>3. f \in IndexMaps
    BY <1>1, <1>2 DEF IndexMaps
  <1>4. /\ DOMAIN f = DOMAIN b.index \cup {ref} /\ f[ref] = s
        /\ \A r \in DOMAIN b.index \ {ref} : f[r] = b.index[r]
    BY <1>1 DEF Put
  <1>5. CASE room
    <2>1. c = [b EXCEPT !.index = f]
      BY <1>5 DEF InsertIndex
    <2> HIDE DEF f
    <2> QED  BY <1>3, <1>4, <1>5, <2>1 DEF BookTypes
  <1>6. CASE ~room
    <2>1. c = [b EXCEPT !.orphans = b.orphans \cup {s}]
      BY <1>6 DEF InsertIndex
    <2> QED  BY <1>6, <2>1 DEF BookTypes
  <1> QED  BY <1>5, <1>6

(* add puts a free slot in front of the list of its level, and in the      *)
(* index if that has a node for it.                                        *)
LEMMA AddOK ==
  ASSUME NEW b, BookOK(b), NEW s \in (Slots \ b.used) \cup {NoSlot}, NEW room \in BOOLEAN,
         NEW ref \in Refs, ref \notin DOMAIN b.index,
         NEW sd \in Sides, NEW p \in Prices, NEW n \in Nat
  PROVE  BookOK(Add(b, s, room, ref, sd, p, n))
  <1>1. CASE s = NoSlot
    BY <1>1 DEF Add
  <1>2. CASE s # NoSlot
    <2> DEFINE l == LevelAt(b, sd, p)
               o == [order_ref |-> ref, side |-> sd, price |-> p, shares |-> n,
                     remaining |-> n, prev |-> NoSlot, next |-> l.head]
               m == [head |-> s,
                     tail |-> IF l.tail = NoSlot THEN s ELSE l.tail,
                     count |-> (l.count + 1) % Wide,
                     total |-> (l.total + n) % Wide]
               g == [x \in Slots |->
                       CASE x = s -> o
                         [] x = l.head -> [b.slot[x] EXCEPT !.prev = s]
                         [] OTHER -> b.slot[x]]
               put == PutLevel(b, sd, p, m)
               c1 == [put EXCEPT !.slot = g, !.used = @ \cup {s}]
               c == Add(b, s, room, ref, sd, p, n)
    <2>1. s \in Slots \ b.used /\ NoSlot \notin Slots
      BY <1>2, BookAssumption
    <2>2. BookTypes(b) /\ ListsOK(b) /\ b.slot \in SlotMaps /\ b.used \subseteq Slots
      BY DEF BookOK, ListsOK, BookTypes
    <2>3. l \in Levels /\ l.head \in Ends
      BY <2>2, LevelAtType DEF Levels
    <2>4. HeadOK(b, sd, p, l.head)
      BY <2>2 DEF LevelAt, Fresh, HeadOK, ListsOK, Headed
    <2>5. m \in Levels
      <3>1. l.tail \in Ends /\ l.count \in Nat /\ l.total \in Nat
        BY <2>3, BookAssumption DEF Levels
      <3>2. (l.count + 1) % Wide \in 0 .. Wide - 1 /\ (l.total + n) % Wide \in 0 .. Wide - 1
        BY <3>1, BookAssumption
      <3> HIDE DEF l
      <3> QED  BY <2>1, <3>1, <3>2 DEF Levels, Ends
    <2>6. OnlyLevel(b, put, sd, p, m) /\ m.head = s
      <3>1. m.head = s
        OBVIOUS
      <3> HIDE DEF m
      <3> QED  BY <2>2, <2>5, <3>1, PutLevelIs
    <2>7. o \in Orders
      BY <2>3 DEF Orders, Ends
    <2>8. /\ g \in SlotMaps
          /\ g[s] = o
          /\ \A x \in Slots \ {s} :
               /\ g[x].next = b.slot[x].next /\ g[x].side = b.slot[x].side
               /\ g[x].price = b.slot[x].price /\ g[x].order_ref = b.slot[x].order_ref
               /\ g[x].prev = IF x = l.head THEN s ELSE b.slot[x].prev
      <3> HIDE DEF o, l
      <3>1. \A x \in Slots : b.slot[x] \in Orders
        BY <2>2 DEF SlotMaps
      <3>2. \A x \in Slots : [b.slot[x] EXCEPT !.prev = s] \in Orders
        BY <2>1, <3>1 DEF Orders, Ends
      <3>3. \A x \in Slots : g[x] = IF x = s THEN o
                                    ELSE IF x = l.head THEN [b.slot[x] EXCEPT !.prev = s]
                                    ELSE b.slot[x]
        <4>1. ASSUME NEW x \in Slots, x = s PROVE g[x] = o
          <5>1. x # l.head
            BY <2>1, <2>4, <4>1 DEF HeadOK
          <5> QED  BY <4>1, <5>1
        <4>2. ASSUME NEW x \in Slots, x # s, x = l.head
              PROVE  g[x] = [b.slot[x] EXCEPT !.prev = s]
          BY <4>2
        <4>3. ASSUME NEW x \in Slots, x # s, x # l.head PROVE g[x] = b.slot[x]
          BY <4>3
        <4> HIDE DEF g
        <4> QED  BY <4>1, <4>2, <4>3
      <3>4. g = [x \in Slots |-> g[x]]
        OBVIOUS
      <3> HIDE DEF g
      <3>5. g \in SlotMaps
        BY <2>7, <3>1, <3>2, <3>3, <3>4 DEF SlotMaps
      <3>6. ASSUME NEW x \in Slots \ {s}
            PROVE  /\ g[x].next = b.slot[x].next /\ g[x].side = b.slot[x].side
                   /\ g[x].price = b.slot[x].price /\ g[x].order_ref = b.slot[x].order_ref
                   /\ g[x].prev = IF x = l.head THEN s ELSE b.slot[x].prev
        BY <3>1, <3>3 DEF Orders
      <3> QED  BY <2>1, <3>3, <3>5, <3>6
    <2>9. c = InsertIndex(c1, ref, s, room)
      BY <1>2 DEF Add
    <2> HIDE DEF g, put, c
    <2>10. /\ c1.slot = g /\ c1.used = b.used \cup {s} /\ c1.index = b.index
           /\ c1.orphans = b.orphans /\ c1.lvl = put.lvl /\ BookTypes(c1)
      <3>1. /\ BookTypes(put) /\ put.slot = b.slot /\ put.used = b.used
            /\ put.index = b.index /\ put.orphans = b.orphans
        BY <2>6 DEF OnlyLevel
      <3> QED  BY <2>1, <2>2, <2>8, <3>1 DEF BookTypes
    <2> HIDE DEF c1
    <2>11. /\ c.slot = g /\ c.used = b.used \cup {s} /\ c.lvl = put.lvl /\ BookTypes(c)
           /\ room => /\ DOMAIN c.index = DOMAIN b.index \cup {ref} /\ c.index[ref] = s
                      /\ \A r \in DOMAIN b.index : c.index[r] = b.index[r]
                      /\ c.orphans = b.orphans
           /\ ~room => c.index = b.index /\ c.orphans = b.orphans \cup {s}
      BY <2>1, <2>9, <2>10, InsertIndexIs
    <2>12. g[s].next = l.head /\ g[s].prev = NoSlot /\ g[s].side = sd /\ g[s].price = p
           /\ g[s].order_ref = ref
      BY <2>8
    <2> HIDE DEF o, l, m
    <2>13. Placed(c)
      BY <2>2, <2>8, <2>11, <2>12 DEF ListsOK, Placed
    <2>14. Linked(c)
      <3>1. ASSUME NEW x \in c.used, c.slot[x].next # NoSlot
            PROVE  /\ c.slot[x].next \in c.used /\ c.slot[c.slot[x].next].prev = x
                   /\ c.slot[c.slot[x].next].side = c.slot[x].side
        <4>1. CASE x = s
          <5>1. l.head # NoSlot /\ l.head \in b.used /\ l.head # s /\ b.slot[l.head].side = sd
            BY <2>1, <2>4, <2>11, <2>12, <3>1, <4>1 DEF HeadOK
          <5> QED  BY <2>2, <2>8, <2>11, <2>12, <4>1, <5>1
        <4>2. CASE x # s
          <5>1. x \in b.used /\ g[x].next = b.slot[x].next /\ g[x].side = b.slot[x].side
            BY <2>2, <2>8, <2>11, <4>2
          <5> DEFINE y == b.slot[x].next
          <5>2. y \in b.used /\ b.slot[y].prev = x /\ b.slot[y].side = b.slot[x].side
            BY <2>2, <2>11, <3>1, <5>1 DEF ListsOK, Linked
          <5> HIDE DEF y
          <5>3. y # l.head /\ y # s
            BY <2>1, <2>2, <2>4, <5>1, <5>2 DEF HeadOK
          <5> QED  BY <2>2, <2>8, <2>11, <5>1, <5>2, <5>3 DEF y
        <4> QED  BY <4>1, <4>2
      <3>2. ASSUME NEW x \in c.used, c.slot[x].prev # NoSlot
            PROVE  /\ c.slot[x].prev \in c.used /\ c.slot[c.slot[x].prev].next = x
                   /\ c.slot[c.slot[x].prev].price = c.slot[x].price
        <4>1. x # s /\ x \in b.used /\ g[x].price = b.slot[x].price
          BY <2>2, <2>8, <2>11, <2>12, <3>2
        <4>2. CASE x = l.head
          <5>1. b.slot[x].price = p
            BY <2>1, <2>2, <2>4, <4>1, <4>2 DEF HeadOK
          <5> QED  BY <2>2, <2>8, <2>11, <2>12, <4>1, <4>2, <5>1
        <4>3. CASE x # l.head
          <5> DEFINE y == b.slot[x].prev
          <5>1. g[x].prev = y
            BY <2>2, <2>8, <4>1, <4>3
          <5>2. y \in b.used /\ b.slot[y].next = x /\ b.slot[y].price = b.slot[x].price
            BY <2>2, <2>11, <3>2, <4>1, <5>1 DEF ListsOK, Linked
          <5> HIDE DEF y
          <5> QED  BY <2>1, <2>2, <2>8, <2>11, <4>1, <5>1, <5>2
        <4> QED  BY <4>2, <4>3
      <3> QED  BY <3>1, <3>2 DEF Linked
    <2>15. Headed(c)
      <3>1. ASSUME NEW t \in Sides, NEW q \in DOMAIN c.lvl[t]
            PROVE  HeadOK(c, t, q, c.lvl[t][q].head)
        <4>1. CASE t = sd /\ q = p
          <5>1. c.lvl[t][q].head = s
            BY <2>6, <2>11, <4>1 DEF OnlyLevel
          <5> QED  BY <2>11, <2>12, <4>1, <5>1 DEF HeadOK
        <4>2. CASE ~(t = sd /\ q = p)
          <5> DEFINE h == b.lvl[t][q].head
          <5>1. q \in DOMAIN b.lvl[t] /\ c.lvl[t][q].head = h
            BY <2>6, <2>11, <4>2 DEF OnlyLevel
          <5>2. HeadOK(b, t, q, h)
            BY <2>2, <5>1 DEF ListsOK, Headed
          <5> HIDE DEF h
          <5>3. h # NoSlot => h # s /\ h # l.head
            BY <2>1, <2>4, <4>2, <5>2 DEF HeadOK
          <5>4. HeadOK(c, t, q, h)
            BY <2>2, <2>8, <2>11, <5>2, <5>3 DEF HeadOK
          <5> QED  BY <5>1, <5>4
        <4> QED  BY <4>1, <4>2
      <3> QED  BY <3>1 DEF Headed
    <2>16. Indexed(c)
      <3>1. /\ \A x : x \in b.used <=> (\E r \in DOMAIN b.index : x = b.index[r]) \/ x \in b.orphans
            /\ \A r \in DOMAIN b.index :
                 b.index[r] \notin b.orphans /\ b.slot[b.index[r]].order_ref = r
        BY DEF BookOK, Indexed
      <3>2. \A r \in DOMAIN b.index : b.index[r] \in Slots \ {s}
        BY <2>1, <2>2, <3>1
      <3>3. \A r \in DOMAIN b.index : c.slot[b.index[r]].order_ref = r
        BY <2>8, <2>11, <3>1, <3>2
      <3>4. s \notin b.orphans
        BY <2>1, <3>1
      <3>5. \A x : x \in c.used <=> (\E r \in DOMAIN c.index : x = c.index[r]) \/ x \in c.orphans
        <4>1. \A x : x \in c.used <=>
                      x = s \/ (\E r \in DOMAIN b.index : x = b.index[r]) \/ x \in b.orphans
          BY <2>11, <3>1
        <4>2. CASE room
          <5>1. /\ DOMAIN c.index = DOMAIN b.index \cup {ref} /\ c.index[ref] = s
                /\ \A r \in DOMAIN b.index : c.index[r] = b.index[r]
                /\ c.orphans = b.orphans
            BY <2>11, <4>2
          <5> HIDE DEF c
          <5>2. ASSUME NEW x
                PROVE  (\E r \in DOMAIN c.index : x = c.index[r])
                       <=> x = s \/ \E r \in DOMAIN b.index : x = b.index[r]
            <6>1. ASSUME NEW r \in DOMAIN c.index, x = c.index[r]
                  PROVE  x = s \/ \E q \in DOMAIN b.index : x = b.index[q]
              <7>1. CASE r = ref
                BY <5>1, <6>1, <7>1
              <7>2. CASE r \in DOMAIN b.index
                BY <5>1, <6>1, <7>2
              <7> QED  BY <5>1, <6>1, <7>1, <7>2
            <6>2. x = s => \E r \in DOMAIN c.index : x = c.index[r]
              BY <5>1
            <6>3. ASSUME NEW r \in DOMAIN b.index, x = b.index[r]
                  PROVE  \E q \in DOMAIN c.index : x = c.index[q]
              BY <5>1, <6>3
            <6> QED  BY <6>1, <6>2, <6>3
          <5> QED  BY <4>1, <5>1, <5>2
        <4>3. CASE ~room
          BY <2>11, <4>1, <4>3
        <4> QED  BY <4>2, <4>3
      <3>6. \A r \in DOMAIN c.index : c.index[r] \notin c.orphans /\ c.slot[c.index[r]].order_ref = r
        <4>1. c.slot[s].order_ref = ref
          BY <2>11, <2>12
        <4>2. CASE room
          BY <2>11, <3>1, <3>3, <3>4, <4>1, <4>2
        <4>3. CASE ~room
          BY <2>11, <3>1, <3>2, <3>3, <4>3
        <4> QED  BY <4>2, <4>3
      <3>7. c.used = {c.index[r] : r \in DOMAIN c.index} \cup c.orphans
        BY <3>5
      <3> QED  BY <3>6, <3>7 DEF Indexed
    <2>17. BookOK(c)
      BY <2>11, <2>13, <2>14, <2>15, <2>16 DEF BookOK, ListsOK
    <2> QED  BY <2>17 DEF c
  <1> QED  BY <1>1, <1>2

----------------------------------------------------------------------------
(* What the parser puts into the fields the book uses.                     *)
LEMMA EventFields ==
  ASSUME NEW ev \in Events
  PROVE  /\ ev.type \in {"ADD", "REPLACE"} => ev.price \in Prices
         /\ ev.type = "ADD" => ev.ref \in Refs /\ ev.side \in Sides
         /\ ev.type = "REPLACE" => ev.new \in Refs
         /\ ev.type # "DELETE" => ev.shares \in Nat
  <1>1. PICK w \in Messages : ev \in Feed(w)
    BY DEF Events
  <1>2. ~(w.len < 3)
    BY <1>1 DEF Feed
  <1>3. w.type \in {"A", "F"} =>
          /\ w.ref \in Refs /\ w.side \in {"B", "S"} /\ w.shares \in Shares /\ w.price \in WirePrices
    BY <1>2 DEF Messages
  <1>4. w.type = "U" =>
          /\ w.new \in Refs /\ w.shares \in Shares /\ w.price \in WirePrices
    BY DEF Messages
  <1>5. w.type \in {"X", "P", "E", "C"} => w.shares \in Shares
    BY DEF Messages
  <1>6. Shares \subseteq Nat
    BY DEF Shares
  <1>7. \A z \in WirePrices : ItchToCents(z) \in Prices
    BY DEF Prices
  <1>8. CASE w.type \in {"A", "F"}
    <2>1. ev \in ParseA(w)
      BY <1>1, <1>2, <1>8 DEF Feed
    <2>2. /\ ev.type = "ADD" /\ ev.side = SideByte(w) /\ ev.shares = w.shares
          /\ ev.price = ItchToCents(w.price) /\ ev.ref = w.ref
      BY <2>1 DEF ParseA, Zero
    <2> QED  BY <2>2, <1>3, <1>6, <1>7, <1>8 DEF SideByte, Sides
  <1>9. CASE w.type = "D"
    <2>1. ev \in ParseD(w)
      BY <1>1, <1>2, <1>9 DEF Feed
    <2>2. ev.type = "DELETE"
      BY <2>1 DEF ParseD, Zero
    <2> QED  BY <2>2
  <1>10. CASE w.type = "X"
    <2>1. ev \in ParseX(w)
      BY <1>1, <1>2, <1>10 DEF Feed
    <2>2. ev.type = "CANCEL" /\ ev.shares = w.shares
      BY <2>1 DEF ParseX, Zero
    <2> QED  BY <2>2, <1>5, <1>6, <1>10
  <1>11. CASE w.type = "U"
    <2>1. ev \in ParseU(w)
      BY <1>1, <1>2, <1>11 DEF Feed
    <2>2. /\ ev.type = "REPLACE" /\ ev.shares = w.shares /\ ev.new = w.new
          /\ ev.price = ItchToCents(w.price)
      BY <2>1 DEF ParseU, Zero
    <2> QED  BY <2>2, <1>4, <1>6, <1>7, <1>11
  <1>12. CASE w.type = "P"
    <2>1. ev \in ParseP(w)
      BY <1>1, <1>2, <1>12 DEF Feed
    <2>2. ev.type = "TRADE" /\ ev.shares = w.shares
      BY <2>1 DEF ParseP, Zero
    <2> QED  BY <2>2, <1>5, <1>6, <1>12
  <1>13. CASE w.type = "E"
    <2>1. ev \in ParseE(w)
      BY <1>1, <1>2, <1>13 DEF Feed
    <2>2. ev.type = "EXECUTE" /\ ev.shares = w.shares
      BY <2>1 DEF ParseE, Zero
    <2> QED  BY <2>2, <1>5, <1>6, <1>13
  <1>14. CASE w.type = "C"
    <2>1. ev \in ParseC(w)
      BY <1>1, <1>2, <1>14 DEF Feed
    <2>2. ev.type = "TRADE" /\ ev.shares = w.shares
      BY <2>1 DEF ParseC, Zero
    <2> QED  BY <2>2, <1>5, <1>6, <1>14
  <1>15. CASE w.type \notin {"A", "F", "D", "X", "U", "P", "E", "C"}
    BY <1>1, <1>2, <1>15 DEF Feed
  <1> QED  BY <1>8, <1>9, <1>10, <1>11, <1>12, <1>13, <1>14, <1>15

----------------------------------------------------------------------------
(* The empty book.                                                         *)
LEMMA InitBook == Init => BookInv
  <1> SUFFICES ASSUME Init PROVE BookInv
    OBVIOUS
  <1> DEFINE b == Book
  <1>1. b.slot = [s \in Slots |-> Blank] /\ b.used = {} /\ b.index = <<>> /\ b.orphans = {}
        /\ b.lvl = [sd \in Sides |-> <<>>]
    BY DEF Book, Init
  <1>2. b.slot \in SlotMaps
    BY <1>1, BlankIsOrder DEF SlotMaps
  <1>3. <<>> \in [{} -> Slots] /\ <<>> \in [{} -> Levels] /\ DOMAIN <<>> = {}
    OBVIOUS
  <1>4. <<>> \in IndexMaps
    BY <1>3 DEF IndexMaps
  <1>5. <<>> \in LevelMaps
    BY <1>3 DEF LevelMaps
  <1>6. BookTypes(b)
    BY <1>1, <1>2, <1>4, <1>5 DEF BookTypes, Book
  <1>7. Placed(b) /\ Linked(b) /\ Headed(b) /\ Indexed(b)
    BY <1>1, <1>3 DEF Placed, Linked, Headed, Indexed
  <1> QED  BY <1>6, <1>7 DEF BookInv, BookOK, ListsOK

(* The book the primed variables make up.                                  *)
LEMMA BecomesBook ==
  ASSUME NEW b, BookTypes(b), Becomes(b)
  PROVE  Book' = b
  BY DEF Book, Becomes, BookTypes

(* Every message keeps the book.                                           *)
LEMMA StepBook == BookInv /\ [Next]_vars => BookInv'
  <1> SUFFICES ASSUME BookInv, [Next]_vars PROVE BookInv'
    OBVIOUS
  <1>1. BookOK(Book)
    BY DEF BookInv
  <1>2. /\ Book.slot = slot /\ Book.used = used /\ Book.index = index /\ Book.lvl = lvl
        /\ Book.orphans = orphans
    BY DEF Book
  <1>3. ASSUME NEW b, BookOK(b), Becomes(b) PROVE BookInv'
    BY <1>3, BecomesBook DEF BookInv, BookOK, ListsOK
  <1>4. CASE UNCHANGED vars
    BY <1>1, <1>4 DEF BookInv, Book, vars
  <1>5. ASSUME NEW ev \in Events, OnAdd(ev) PROVE BookInv'
    <2>1. PICK s \in Allocation(Book), room \in BOOLEAN :
             Becomes(Add(Book, s, room, ev.ref, ev.side, ev.price, ev.shares))
      BY <1>5 DEF OnAdd
    <2>2. /\ ev.ref \in Refs /\ ev.side \in Sides /\ ev.price \in Prices /\ ev.shares \in Nat
          /\ ev.ref \notin DOMAIN Book.index
      BY <1>2, <1>5, EventFields DEF OnAdd
    <2>3. BookOK(Add(Book, s, room, ev.ref, ev.side, ev.price, ev.shares))
      BY <1>1, <2>2, AddOK DEF Allocation
    <2> QED  BY <1>3, <2>1, <2>3
  <1>6. ASSUME NEW ev \in Events, OnDelete(ev) PROVE BookInv'
    BY <1>1, <1>3, <1>6, RemoveOK DEF OnDelete
  <1>7. ASSUME NEW ev \in Events, ev.type # "DELETE", Reduced(ev) PROVE BookInv'
    <2>1. ev.shares \in Nat
      BY <1>7, EventFields
    <2>2. BookOK(Reduce(Book, ev.ref, ev.shares))
      BY <1>1, <2>1, ReduceOK
    <2> QED  BY <1>3, <1>7, <2>2 DEF Reduced
  <1>8. ASSUME NEW ev \in Events, OnReplace(ev) PROVE BookInv'
    <2> DEFINE d == Remove(Book, ev.ref)
               sd == SideOf(Book, ev.ref)
    <2>1. PICK s \in Allocation(d), room \in BOOLEAN :
             Becomes(Replace(Book, s, room, ev.ref, ev.new, sd, ev.price, ev.shares))
      BY <1>8 DEF OnReplace
    <2>2. /\ ev.new \in Refs /\ ev.price \in Prices /\ ev.shares \in Nat
          /\ ev.new \notin DOMAIN Book.index
      BY <1>2, <1>8, EventFields DEF OnReplace
    <2>3. CASE ev.ref \notin DOMAIN Book.index
      BY <1>1, <1>3, <2>1, <2>3 DEF Replace
    <2>4. CASE ev.ref \in DOMAIN Book.index
      <3>1. BookOK(d) /\ ev.new \notin DOMAIN d.index
        BY <1>1, <2>2, RemoveOK
      <3>2. sd \in Sides
        BY <1>1, <2>4 DEF SideOf, BookOK, ListsOK, Placed, Indexed
      <3> HIDE DEF d, sd
      <3>3. BookOK(Add(d, s, room, ev.new, sd, ev.price, ev.shares))
        BY <2>2, <3>1, <3>2, AddOK DEF Allocation
      <3>4. Becomes(Add(d, s, room, ev.new, sd, ev.price, ev.shares))
        BY <2>1, <2>4 DEF Replace, d
      <3> QED  BY <1>3, <3>3, <3>4
    <2> QED  BY <2>3, <2>4
  <1>9. CASE Next
    <2>1. PICK ev \in Events : OnEvent(ev)
      BY <1>9 DEF Next
    <2>2. CASE OnAdd(ev)
      BY <1>5, <2>2
    <2>3. CASE OnDelete(ev)
      BY <1>6, <2>3
    <2>4. CASE OnCancel(ev)
      BY <1>7, <2>4 DEF OnCancel
    <2>5. CASE OnTrade(ev)
      BY <1>7, <2>5 DEF OnTrade
    <2>6. CASE OnExecute(ev)
      BY <1>7, <2>6 DEF OnExecute
    <2>7. CASE OnReplace(ev)
      BY <1>8, <2>7
    <2> QED  BY <2>1, <2>2, <2>3, <2>4, <2>5, <2>6, <2>7 DEF OnEvent
  <1> QED  BY <1>4, <1>9

(* The book is well typed, every link is answered by a live order of the   *)
(* same level, a level's head is the first of an intact list, and the      *)
(* index and the pool agree (order_book.h, every operation).               *)
THEOREM BookInvariant == Spec => []BookInv
  BY InitBook, StepBook, PTL DEF Spec

(* remove, cancel, execute and replace give back exactly the slots whose   *)
(* index entry they erase (order_book.h); what else the pool holds are the *)
(* slots whose insert OrderMap dropped (order_map.h).                      *)
THEOREM PoolHoldsTheIndexed == Spec => []IndexMatchesPool
  <1>1. BookInv => IndexMatchesPool
    BY DEF BookInv, BookOK, Indexed, Book, IndexMatchesPool
  <1> QED  BY <1>1, BookInvariant, PTL

(* No link of a live order and no head of a level leads to a freed slot,   *)
(* even where a level's count or total has gone wrong (add and             *)
(* unlink_and_free of order_book.h).                                       *)
THEOREM NoLinkIsStale == Spec => []LinksStayLive
  <1>1. BookInv => LinksStayLive
    BY DEF BookInv, BookOK, ListsOK, Linked, Headed, HeadOK, Book, LinksStayLive
  <1> QED  BY <1>1, BookInvariant, PTL

----------------------------------------------------------------------------
(* What is left of the order in each slot.                                 *)
Remains(f) == [s \in Slots |-> f[s].remaining]

(* l is the level of the orders R, there exactly when there are some.      *)
ExactAt(f, R, there, l) ==
  /\ there <=> R # {}
  /\ there => /\ l.count = Cardinality(R)
              /\ l.total = SumFunctionOnSet(Remains(f), R)
              /\ l.head = NoSlot <=> l.tail = NoSlot
              /\ l.head # NoSlot => l.head \in R
              /\ l.tail # NoSlot => l.tail \in R
              /\ \A s \in R : /\ f[s].prev = NoSlot <=> s = l.head
                              /\ f[s].next = NoSlot <=> s = l.tail

(* The level of sd and p is l in c, or there is none; the others are as in *)
(* b.                                                                      *)
LevelNow(b, c, sd, p, there, l) ==
  \A t \in Sides, q \in Prices :
    /\ t = sd /\ q = p => /\ q \in DOMAIN c.lvl[t] <=> there
                          /\ there => c.lvl[t][q] = l
    /\ ~(t = sd /\ q = p) => /\ q \in DOMAIN c.lvl[t] <=> q \in DOMAIN b.lvl[t]
                             /\ q \in DOMAIN b.lvl[t] => c.lvl[t][q] = b.lvl[t][q]

(* A stored level is there.                                              *)
LEMMA PutNow ==
  ASSUME NEW b, BookTypes(b), NEW sd \in Sides, NEW p \in Prices, NEW l
  PROVE  LevelNow(b, PutLevel(b, sd, p, l), sd, p, TRUE, l)
  <1> DEFINE f == Put(b.lvl[sd], p, l)
             c == PutLevel(b, sd, p, l)
  <1>1. /\ DOMAIN f = DOMAIN b.lvl[sd] \cup {p} /\ f[p] = l
        /\ \A q \in DOMAIN b.lvl[sd] : q # p => f[q] = b.lvl[sd][q]
    BY DEF Put
  <1>2. c.lvl = [b.lvl EXCEPT ![sd] = f] /\ b.lvl \in [Sides -> LevelMaps]
    BY DEF PutLevel, BookTypes
  <1> HIDE DEF f, c
  <1>3. \A t \in Sides : c.lvl[t] = IF t = sd THEN f ELSE b.lvl[t]
    BY <1>2
  <1>4. LevelNow(b, c, sd, p, TRUE, l)
    BY <1>1, <1>3 DEF LevelNow
  <1> QED  BY <1>4 DEF c

(* An erased level is not.                                                 *)
LEMMA EraseNow ==
  ASSUME NEW b, BookTypes(b), NEW sd \in Sides, NEW p \in Prices, NEW l
  PROVE  LevelNow(b, EraseLevel(b, sd, p), sd, p, FALSE, l)
  <1> DEFINE f == [q \in DOMAIN b.lvl[sd] \ {p} |-> b.lvl[sd][q]]
             c == EraseLevel(b, sd, p)
  <1>1. /\ DOMAIN f = DOMAIN b.lvl[sd] \ {p}
        /\ \A q \in DOMAIN b.lvl[sd] : q # p => f[q] = b.lvl[sd][q]
    OBVIOUS
  <1>2. c.lvl = [b.lvl EXCEPT ![sd] = f] /\ b.lvl \in [Sides -> LevelMaps]
    BY DEF EraseLevel, BookTypes
  <1> HIDE DEF f, c
  <1>3. \A t \in Sides : c.lvl[t] = IF t = sd THEN f ELSE b.lvl[t]
    BY <1>2
  <1>4. LevelNow(b, c, sd, p, FALSE, l)
    BY <1>1, <1>3 DEF LevelNow
  <1> QED  BY <1>4 DEF c

(* The second change is the one that counts.                               *)
LEMMA LevelTwice ==
  ASSUME NEW b, NEW c, NEW d, NEW sd, NEW p, NEW x, NEW y, NEW l, NEW m,
         LevelNow(b, c, sd, p, x, l), LevelNow(c, d, sd, p, y, m)
  PROVE  LevelNow(b, d, sd, p, y, m)
  BY DEF LevelNow

(* What the facts about sums and cardinalities need of orders in the pool. *)
LEMMA RemainTypes ==
  ASSUME NEW f \in SlotMaps, NEW R, R \subseteq Slots
  PROVE  /\ IsFiniteSet(R) /\ Cardinality(R) \in Nat
         /\ Cardinality(R) = 0 <=> R = {}
         /\ \A x \in R : Remains(f)[x] = f[x].remaining /\ Remains(f)[x] \in Nat /\ Remains(f)[x] \in Int
         /\ SumFunctionOnSet(Remains(f), R) \in Nat
  <1>1. IsFiniteSet(R)
    BY BookAssumption, FS_Subset
  <1>2. Cardinality(R) \in Nat /\ (Cardinality(R) = 0 <=> R = {})
    BY <1>1, FS_CardinalityType, FS_EmptySet
  <1>3. \A x \in R : Remains(f)[x] = f[x].remaining /\ f[x].remaining \in Nat
    BY DEF Remains, SlotMaps, Orders
  <1>4. \A x \in R : Remains(f)[x] \in Nat /\ Remains(f)[x] \in Int
    BY <1>3
  <1>5. SumFunctionOnSet(Remains(f), R) \in Nat
    BY <1>1, <1>4, SumNat
  <1> QED  BY <1>1, <1>2, <1>3, <1>4, <1>5

(* The orders of a level that an operation leaves alone.                   *)
LEMMA ExactSame ==
  ASSUME NEW f \in SlotMaps, NEW g \in SlotMaps, NEW R, R \subseteq Slots, NEW there, NEW l,
         ExactAt(f, R, there, l),
         \A x \in R : /\ g[x].remaining = f[x].remaining
                      /\ g[x].prev = f[x].prev /\ g[x].next = f[x].next
  PROVE  ExactAt(g, R, there, l)
  <1>1. SumFunctionOnSet(Remains(f), R) = SumFunctionOnSet(Remains(g), R)
    <2>1. \A x \in R : Remains(f)[x] = Remains(g)[x]
      BY DEF Remains
    <2>2. IsFiniteSet(R)
      BY RemainTypes
    <2> QED  BY <2>1, <2>2, SumSame
  <1> QED  BY <1>1 DEF ExactAt

(* A sum that fits its field is not wrapped.                               *)
LEMMA SmallRemainder ==
  ASSUME NEW n \in Nat, n < Wide
  PROVE  n % Wide = n
  BY BookAssumption

(* unlink_and_free's level, when the order's shares are all left.          *)
LEMMA ExactOut ==
  ASSUME NEW f \in SlotMaps, NEW g \in SlotMaps, NEW R, R \subseteq Slots, NEW l \in Levels,
         NEW s \in R, ExactAt(f, R, TRUE, l), f[s].shares = f[s].remaining,
         f[s].next # NoSlot => f[s].next \in R /\ f[f[s].next].prev = s,
         f[s].prev # NoSlot => f[s].prev \in R /\ f[f[s].prev].next = s,
         \A x \in R \ {s} :
           /\ g[x].next = IF x = f[s].prev THEN f[s].next ELSE f[x].next
           /\ g[x].prev = IF x = f[s].next THEN f[s].prev ELSE f[x].prev
           /\ g[x].remaining = f[x].remaining,
         NEW m, m.head = (IF f[s].prev = NoSlot THEN f[s].next ELSE l.head),
         m.tail = (IF f[s].next = NoSlot THEN f[s].prev ELSE l.tail),
         m.count = (l.count - 1) % Wide, m.total = (l.total - f[s].shares) % Wide
  PROVE  ExactAt(g, R \ {s}, m.count # 0, m)
  <1> DEFINE Q == R \ {s}
             S == SumFunctionOnSet(Remains(f), Q)
  <1>0. Q \subseteq Slots /\ s \in Slots /\ NoSlot \notin Slots /\ NoSlot \notin R
    BY BookAssumption
  <1>1. /\ IsFiniteSet(R) /\ IsFiniteSet(Q) /\ Cardinality(Q) \in Nat /\ S \in Nat
        /\ Cardinality(Q) = 0 <=> Q = {}
        /\ \A x \in R : Remains(f)[x] = f[x].remaining /\ Remains(f)[x] \in Int
        /\ f[s].remaining \in Nat /\ Cardinality(R) \in Nat
    <2> HIDE DEF Q
    <2> QED  BY <1>0, RemainTypes
  <1>2. Cardinality(Q) = Cardinality(R) - 1
    BY <1>1, FS_RemoveElement
  <1>3. SumFunctionOnSet(Remains(f), R) = f[s].remaining + S
    <2>1. SumFunctionOnSet(Remains(f), R) = Remains(f)[s] + SumFunctionOnSet(Remains(f), R \ {s})
      <3>1. \A x \in R : Remains(f)[x] \in Int
        BY <1>1
      <3>2. IsFiniteSet(R)
        BY <1>1
      <3> QED  BY <3>1, <3>2, SumTake
    <2> QED  BY <1>1, <2>1
  <1>4. /\ l.count = Cardinality(R) /\ l.total = f[s].remaining + S
        /\ l.count < Wide /\ l.total < Wide /\ Wide \in Nat
    BY <1>3, BookAssumption DEF ExactAt, Levels
  <1>5. m.count = Cardinality(Q)
    <2>1. l.count - 1 = Cardinality(Q) /\ Cardinality(Q) < Wide
      BY <1>1, <1>2, <1>4
    <2> QED  BY <1>1, <2>1, SmallRemainder
  <1>7. m.total = S
    <2>1. l.total - f[s].shares = S /\ S \in Nat /\ S < Wide
      BY <1>1, <1>4
    <2> QED  BY <2>1, SmallRemainder
  <1>8. S = SumFunctionOnSet(Remains(g), Q)
    <2>1. \A x \in Q : Remains(f)[x] = Remains(g)[x]
      BY <1>0 DEF Remains
    <2> HIDE DEF Q
    <2> QED  BY <1>1, <2>1, SumSame
  <1>9. /\ l.head = NoSlot <=> l.tail = NoSlot
        /\ l.head # NoSlot => l.head \in R
        /\ l.tail # NoSlot => l.tail \in R
        /\ \A x \in R : (f[x].prev = NoSlot <=> x = l.head) /\ (f[x].next = NoSlot <=> x = l.tail)
    BY DEF ExactAt
  <1>10. /\ m.head = NoSlot <=> m.tail = NoSlot
         /\ m.head # NoSlot => m.head \in Q
         /\ m.tail # NoSlot => m.tail \in Q
    <2>1. /\ f[s].prev = NoSlot => f[s].next # s
          /\ f[s].next = NoSlot => f[s].prev # s
      BY <1>0
    <2> QED  BY <1>0, <1>9, <2>1
  <1>11. \A x \in Q : (g[x].prev = NoSlot <=> x = m.head) /\ (g[x].next = NoSlot <=> x = m.tail)
    <2> SUFFICES ASSUME NEW x \in Q
                 PROVE  (g[x].prev = NoSlot <=> x = m.head) /\ (g[x].next = NoSlot <=> x = m.tail)
      OBVIOUS
    <2>1. g[x].prev = NoSlot <=> x = m.head
      <3>1. CASE f[s].prev = NoSlot
        BY <1>0, <1>9, <3>1
      <3>2. CASE f[s].prev # NoSlot
        BY <1>0, <1>9, <3>2
      <3> QED  BY <3>1, <3>2
    <2>2. g[x].next = NoSlot <=> x = m.tail
      <3>1. CASE f[s].next = NoSlot
        BY <1>0, <1>9, <3>1
      <3>2. CASE f[s].next # NoSlot
        BY <1>0, <1>9, <3>2
      <3> QED  BY <3>1, <3>2
    <2> QED  BY <2>1, <2>2
  <1> QED  BY <1>1, <1>5, <1>7, <1>8, <1>10, <1>11 DEF ExactAt

(* add's level: the new order in front.                                    *)
AddedTo(l, s, n) ==
  [head |-> s, tail |-> IF l.tail = NoSlot THEN s ELSE l.tail,
   count |-> (l.count + 1) % Wide, total |-> (l.total + n) % Wide]

InFront(f, g, R, l, s, n) ==
  /\ f \in SlotMaps /\ g \in SlotMaps /\ R \subseteq Slots /\ l \in Levels
  /\ s \in Slots /\ s \notin R /\ n \in Nat /\ l.count + 1 < Wide /\ l.total + n < Wide
  /\ g[s].prev = NoSlot /\ g[s].next = l.head /\ g[s].remaining = n
  /\ \A x \in R : /\ g[x].next = f[x].next /\ g[x].remaining = f[x].remaining
                  /\ g[x].prev = IF x = l.head THEN s ELSE f[x].prev

(* A level stays exact when an order with its shares is put in.            *)
LEMMA ExactIn ==
  ASSUME NEW f, NEW g, NEW R, NEW l, NEW s, NEW n, InFront(f, g, R, l, s, n),
         NEW there \in BOOLEAN, ExactAt(f, R, there, l), ~there => l = Fresh
  PROVE  ExactAt(g, R \cup {s}, TRUE, AddedTo(l, s, n))
  <1> DEFINE m == AddedTo(l, s, n)
  <1>a. /\ f \in SlotMaps /\ g \in SlotMaps /\ R \subseteq Slots /\ l \in Levels
        /\ s \in Slots /\ s \notin R /\ n \in Nat /\ l.count + 1 < Wide /\ l.total + n < Wide
        /\ g[s].prev = NoSlot /\ g[s].next = l.head /\ g[s].remaining = n
        /\ \A x \in R : /\ g[x].next = f[x].next /\ g[x].remaining = f[x].remaining
                        /\ g[x].prev = IF x = l.head THEN s ELSE f[x].prev
    BY DEF InFront
  <1>b. /\ m.head = s /\ m.tail = (IF l.tail = NoSlot THEN s ELSE l.tail)
        /\ m.count = (l.count + 1) % Wide /\ m.total = (l.total + n) % Wide
    BY DEF AddedTo
  <1> HIDE DEF m
  <1> USE <1>a, <1>b
  <1> DEFINE Q == R \cup {s}
             S == SumFunctionOnSet(Remains(g), R)
  <1>0. Q \subseteq Slots /\ NoSlot \notin Slots /\ NoSlot \notin R /\ s # NoSlot
    BY BookAssumption
  <1>1. /\ IsFiniteSet(R) /\ S \in Nat /\ Cardinality(R) \in Nat
        /\ \A x \in R : Remains(g)[x] = g[x].remaining /\ Remains(f)[x] = f[x].remaining
    BY RemainTypes
  <1>2. \A x \in Q : Remains(g)[x] = g[x].remaining /\ Remains(g)[x] \in Int
    <2> HIDE DEF Q
    <2> QED  BY <1>0, RemainTypes
  <1>3. Cardinality(Q) = Cardinality(R) + 1
    BY <1>1, FS_AddElement
  <1>4. SumFunctionOnSet(Remains(g), Q) = n + S
    <2>1. Remains(g)[s] = n
      BY <1>2
    <2>2. SumFunctionOnSet(Remains(g), R \cup {s}) = Remains(g)[s] + SumFunctionOnSet(Remains(g), R)
      <3>1. \A x \in R \cup {s} : Remains(g)[x] \in Int
        BY <1>2
      <3>2. IsFiniteSet(R)
        BY <1>1
      <3>3. s \notin R
        OBVIOUS
      <3> QED  BY ONLY <3>1, <3>2, <3>3, SumPut
    <2> QED  BY <2>1, <2>2
  <1>5. S = SumFunctionOnSet(Remains(f), R)
    <2>1. \A x \in R : Remains(g)[x] = Remains(f)[x]
      BY <1>1
    <2> QED  BY <1>1, <2>1, SumSame
  <1>6. l.count = Cardinality(R) /\ l.total = S
    <2>1. CASE there
      BY <1>5, <2>1 DEF ExactAt
    <2>2. CASE ~there
      <3>1. R = {} /\ l.count = 0 /\ l.total = 0
        BY <2>2 DEF ExactAt, Fresh
      <3>2. Cardinality(R) = 0 /\ S = 0
        BY <3>1, FS_EmptySet, SumEmpty
      <3> QED  BY <3>1, <3>2
    <2> QED  BY <2>1, <2>2
  <1>7. m.count = Cardinality(Q) /\ m.total = SumFunctionOnSet(Remains(g), Q)
    <2>1. /\ l.count + 1 = Cardinality(Q) /\ l.count + 1 \in Nat
          /\ l.total + n = SumFunctionOnSet(Remains(g), Q) /\ l.total + n \in Nat
      <3> HIDE DEF Q, S
      <3> QED  BY <1>1, <1>3, <1>4, <1>6
    <2> QED  BY <2>1, SmallRemainder
  <1>8. /\ l.head = NoSlot <=> l.tail = NoSlot
        /\ l.head # NoSlot => l.head \in R
        /\ l.tail # NoSlot => l.tail \in R
        /\ \A x \in R : (f[x].prev = NoSlot <=> x = l.head) /\ (f[x].next = NoSlot <=> x = l.tail)
    BY DEF ExactAt, Fresh
  <1>9. /\ m.head = NoSlot <=> m.tail = NoSlot
        /\ m.head # NoSlot => m.head \in Q
        /\ m.tail # NoSlot => m.tail \in Q
    BY <1>0, <1>8
  <1>10. \A x \in Q : (g[x].prev = NoSlot <=> x = m.head) /\ (g[x].next = NoSlot <=> x = m.tail)
    <2>1. \A x \in R : (g[x].prev = NoSlot <=> x = m.head) /\ (g[x].next = NoSlot <=> x = m.tail)
      BY <1>0, <1>8
    <2>2. (g[s].prev = NoSlot <=> s = m.head) /\ (g[s].next = NoSlot <=> s = m.tail)
      BY <1>0, <1>8
    <2> QED  BY <2>1, <2>2
  <1> QED  BY <1>7, <1>9, <1>10 DEF ExactAt, m

(* dec_level_qty, when something of the order is left.                     *)
LessBy(f, g, R, l, s, k) ==
  /\ f \in SlotMaps /\ g \in SlotMaps /\ R \subseteq Slots /\ l \in Levels
  /\ s \in R /\ k \in Nat /\ k < f[s].remaining
  /\ g[s].remaining = f[s].remaining - k
  /\ \A x \in R : g[x].next = f[x].next /\ g[x].prev = f[x].prev
  /\ \A x \in R \ {s} : g[x].remaining = f[x].remaining

Lesser(l, k) == [l EXCEPT !.total = (l.total - k) % Wide]

(* A level stays exact when an order and the level are lowered alike.      *)
LEMMA ExactLess ==
  ASSUME NEW f, NEW g, NEW R, NEW l, NEW s, NEW k, LessBy(f, g, R, l, s, k),
         ExactAt(f, R, TRUE, l)
  PROVE  Lesser(l, k).total # 0 /\ ExactAt(g, R, TRUE, Lesser(l, k))
  <1>0. /\ f \in SlotMaps /\ g \in SlotMaps /\ R \subseteq Slots /\ l \in Levels
        /\ s \in R /\ k \in Nat /\ k < f[s].remaining
        /\ g[s].remaining = f[s].remaining - k
        /\ \A x \in R : g[x].next = f[x].next /\ g[x].prev = f[x].prev
        /\ \A x \in R \ {s} : g[x].remaining = f[x].remaining
    BY DEF LessBy
  <1> USE <1>0
  <1> DEFINE m == Lesser(l, k)
  <1>1. /\ IsFiniteSet(R) /\ SumFunctionOnSet(Remains(f), R) \in Nat
        /\ SumFunctionOnSet(Remains(g), R) \in Nat
        /\ \A x \in R : /\ Remains(f)[x] = f[x].remaining /\ Remains(g)[x] = g[x].remaining
                        /\ Remains(f)[x] \in Int /\ Remains(g)[x] \in Int /\ Remains(g)[x] \in Nat
    BY RemainTypes
  <1>2. SumFunctionOnSet(Remains(g), R) =
          SumFunctionOnSet(Remains(f), R) + (Remains(g)[s] - Remains(f)[s])
    <2>1. \A x \in R \ {s} : Remains(f)[x] = Remains(g)[x]
      BY <1>1
    <2>2. \A x \in R : Remains(f)[x] \in Int /\ Remains(g)[x] \in Int
      BY <1>1
    <2> QED  BY <1>1, <2>1, <2>2, SumChange
  <1>3. SumFunctionOnSet(Remains(g), R) = Remains(g)[s] + SumFunctionOnSet(Remains(g), R \ {s})
    <2>1. \A x \in R : Remains(g)[x] \in Int
      BY <1>1
    <2> QED  BY <1>1, <2>1, SumTake
  <1>4. SumFunctionOnSet(Remains(g), R \ {s}) \in Nat
    BY RemainTypes
  <1>5. /\ l.total = SumFunctionOnSet(Remains(f), R) /\ l.total < Wide /\ Wide \in Nat
        /\ f[s].remaining \in Nat
    BY <1>1, BookAssumption DEF ExactAt, Levels, SlotMaps, Orders
  <1>6. /\ l.total - k = SumFunctionOnSet(Remains(g), R) /\ l.total - k \in Nat
        /\ l.total - k < Wide /\ l.total - k # 0
    <2> DEFINE F == SumFunctionOnSet(Remains(f), R)
               G == SumFunctionOnSet(Remains(g), R)
               H == SumFunctionOnSet(Remains(g), R \ {s})
    <2>1. /\ G = F + (Remains(g)[s] - Remains(f)[s]) /\ G = Remains(g)[s] + H
          /\ F \in Nat /\ G \in Nat /\ H \in Nat
          /\ Remains(f)[s] = f[s].remaining /\ Remains(g)[s] = f[s].remaining - k
          /\ l.total = F /\ l.total < Wide /\ Wide \in Nat
          /\ f[s].remaining \in Nat /\ k \in Nat /\ k < f[s].remaining
      BY <1>1, <1>2, <1>3, <1>4, <1>5
    <2> HIDE DEF F, G, H
    <2>2. l.total - k = G /\ G # 0 /\ G < Wide
      BY ONLY <2>1
    <2> QED  BY ONLY <2>1, <2>2 DEF G
  <1>7. (l.total - k) % Wide = l.total - k
    BY <1>6, SmallRemainder
  <1>8. m.count = l.count /\ m.total = l.total - k /\ m.head = l.head /\ m.tail = l.tail
    BY <1>7 DEF Levels, Lesser
  <1> HIDE DEF m
  <1>9. ExactAt(g, R, TRUE, m)
    BY <1>6, <1>8 DEF ExactAt
  <1> QED  BY <1>6, <1>8, <1>9 DEF m

----------------------------------------------------------------------------
Resting(b, sd, p) == {s \in b.used : b.slot[s].side = sd /\ b.slot[s].price = p}

Exact(b) ==
  \A sd \in Sides, p \in Prices :
    ExactAt(b.slot, Resting(b, sd, p), p \in DOMAIN b.lvl[sd], b.lvl[sd][p])

(* The neighbours of an order rest at its level.                           *)
LEMMA Neighbours ==
  ASSUME NEW b, ListsOK(b), NEW s \in b.used, NEW R, R = Resting(b, b.slot[s].side, b.slot[s].price)
  PROVE  /\ s \in R /\ R \subseteq Slots
         /\ b.slot[s].next # NoSlot => b.slot[s].next \in R /\ b.slot[b.slot[s].next].prev = s
         /\ b.slot[s].prev # NoSlot => b.slot[s].prev \in R /\ b.slot[b.slot[s].prev].next = s
  <1>1. b.used \subseteq Slots /\ NoSlot \notin Slots
    BY BookAssumption DEF ListsOK, BookTypes
  <1>2. Linked(b)
    BY DEF ListsOK
  <1>3. ASSUME b.slot[s].next # NoSlot
        PROVE  b.slot[s].next \in R /\ b.slot[b.slot[s].next].prev = s
    <2> DEFINE y == b.slot[s].next
    <2>1. y \in b.used /\ b.slot[y].prev = s /\ b.slot[y].side = b.slot[s].side
      BY <1>2, <1>3 DEF Linked
    <2> HIDE DEF y
    <2>2. b.slot[s].price = b.slot[y].price
      BY <1>1, <1>2, <2>1 DEF Linked
    <2> QED  BY <2>1, <2>2 DEF Resting, y
  <1>4. ASSUME b.slot[s].prev # NoSlot
        PROVE  b.slot[s].prev \in R /\ b.slot[b.slot[s].prev].next = s
    <2> DEFINE y == b.slot[s].prev
    <2>1. y \in b.used /\ b.slot[y].next = s /\ b.slot[y].price = b.slot[s].price
      BY <1>2, <1>4 DEF Linked
    <2> HIDE DEF y
    <2>2. b.slot[s].side = b.slot[y].side
      BY <1>1, <1>2, <2>1 DEF Linked
    <2> QED  BY <2>1, <2>2 DEF Resting, y
  <1> QED  BY <1>1, <1>3, <1>4 DEF Resting

(* What unlink_and_free does to slots, used slots and levels.              *)
LEMMA UnlinkIs ==
  ASSUME NEW b, ListsOK(b), NEW s \in b.used, NEW c, c = UnlinkAndFree(b, s),
         NEW o, o = b.slot[s], NEW l, l = LevelAt(b, o.side, o.price),
         NEW m, m = [head |-> IF o.prev = NoSlot THEN o.next ELSE l.head,
                     tail |-> IF o.next = NoSlot THEN o.prev ELSE l.tail,
                     count |-> (l.count - 1) % Wide,
                     total |-> (l.total - o.shares) % Wide]
  PROVE  /\ c.slot = Relinked(b.slot, s) /\ c.used = b.used \ {s}
         /\ LevelNow(b, c, o.side, o.price, m.count # 0, m)
  <1> DEFINE sd == o.side
             p == o.price
             put == PutLevel(b, sd, p, m)
             d == IF m.count = 0 THEN EraseLevel(put, sd, p) ELSE put
  <1>1. BookTypes(b) /\ o \in Orders /\ sd \in Sides /\ p \in Prices /\ s \in Slots
    BY DEF ListsOK, BookTypes, SlotMaps, Placed
  <1>2. l \in Levels
    <2> HIDE DEF sd, p
    <2> QED  BY <1>1, LevelAtType DEF sd, p
  <1>3. m \in Levels
    <2>1. o.next \in Ends /\ o.prev \in Ends /\ o.shares \in Nat
      BY <1>1 DEF Orders
    <2>2. l.head \in Ends /\ l.tail \in Ends /\ l.count \in Nat /\ l.total \in Nat
      BY <1>2, BookAssumption DEF Levels
    <2>3. (l.count - 1) % Wide \in 0 .. Wide - 1
      BY <2>2, BookAssumption
    <2>4. (l.total - o.shares) % Wide \in 0 .. Wide - 1
      BY <2>1, <2>2, BookAssumption
    <2> QED  BY <2>1, <2>2, <2>3, <2>4 DEF Levels
  <1>4. OnlyLevel(b, put, sd, p, m) /\ LevelNow(b, put, sd, p, TRUE, m)
    <2> HIDE DEF sd, p
    <2> QED  BY <1>1, <1>3, PutLevelIs, PutNow
  <1>5. /\ OnlyLevel(put, EraseLevel(put, sd, p), sd, p, m)
        /\ LevelNow(put, EraseLevel(put, sd, p), sd, p, FALSE, m)
    <2>1. BookTypes(put)
      BY <1>4 DEF OnlyLevel
    <2> HIDE DEF sd, p, put
    <2> QED  BY <1>1, <2>1, EraseLevelIs, EraseNow
  <1> DEFINE there == m.count # 0
  <1>6. LevelNow(b, d, sd, p, there, m)
    <2> HIDE DEF sd, p, put
    <2>1. CASE m.count = 0
      <3>1. LevelNow(b, EraseLevel(put, sd, p), sd, p, FALSE, m)
        BY ONLY <1>4, <1>5, LevelTwice
      <3>2. d = EraseLevel(put, sd, p) /\ there = FALSE
        BY <2>1
      <3> QED  BY <3>1, <3>2
    <2>2. CASE m.count # 0
      BY <1>4, <2>2
    <2> QED  BY <2>1, <2>2
  <1>7. BookTypes(d) /\ d.used = b.used /\ d.slot = b.slot
    <2> HIDE DEF sd, p, put
    <2> QED  BY <1>4, <1>5 DEF OnlyLevel
  <1>8. c = [d EXCEPT !.slot = Relinked(b.slot, s), !.used = b.used \ {s}]
    <2>1. d.used = b.used
      BY <1>7
    <2> QED  BY <2>1 DEF UnlinkAndFree
  <1> HIDE DEF d
  <1>9. c.slot = Relinked(b.slot, s) /\ c.used = b.used \ {s} /\ c.lvl = d.lvl
    BY <1>7, <1>8 DEF BookTypes
  <1>10. LevelNow(b, c, sd, p, there, m)
    <2> HIDE DEF sd, p, there
    <2> QED  BY <1>6, <1>9 DEF LevelNow
  <1> QED  BY <1>9, <1>10

(* unlink_and_free keeps all levels exact if nothing was cut before.       *)
LEMMA ExactUnlink ==
  ASSUME NEW b, ListsOK(b), Exact(b), NEW s \in b.used, b.slot[s].shares = b.slot[s].remaining,
         NEW c, c = UnlinkAndFree(b, s)
  PROVE  Exact(c)
  <1> DEFINE f == b.slot
             g == c.slot
             sd == f[s].side
             p == f[s].price
             l == LevelAt(b, sd, p)
             m == [head |-> IF f[s].prev = NoSlot THEN f[s].next ELSE l.head,
                   tail |-> IF f[s].next = NoSlot THEN f[s].prev ELSE l.tail,
                   count |-> (l.count - 1) % Wide,
                   total |-> (l.total - f[s].shares) % Wide]
             R == Resting(b, sd, p)
  <1>1. /\ BookTypes(b) /\ f \in SlotMaps /\ b.used \subseteq Slots /\ s \in Slots
        /\ sd \in Sides /\ p \in Prices
    BY DEF ListsOK, BookTypes, Placed
  <1>2. g = Relinked(f, s) /\ c.used = b.used \ {s} /\ LevelNow(b, c, sd, p, m.count # 0, m)
    BY UnlinkIs
  <1>3. /\ m.head = (IF f[s].prev = NoSlot THEN f[s].next ELSE l.head)
        /\ m.tail = (IF f[s].next = NoSlot THEN f[s].prev ELSE l.tail)
        /\ m.count = (l.count - 1) % Wide /\ m.total = (l.total - f[s].shares) % Wide
    OBVIOUS
  <1>4. /\ s \in R /\ R \subseteq Slots
        /\ f[s].next # NoSlot => f[s].next \in R /\ f[f[s].next].prev = s
        /\ f[s].prev # NoSlot => f[s].prev \in R /\ f[f[s].prev].next = s
    BY Neighbours
  <1>5. /\ g \in SlotMaps
        /\ \A x \in Slots \ {s} :
             /\ g[x].next = IF x = f[s].prev THEN f[s].next ELSE f[x].next
             /\ g[x].prev = IF x = f[s].next THEN f[s].prev ELSE f[x].prev
             /\ g[x].side = f[x].side /\ g[x].price = f[x].price
             /\ g[x].remaining = f[x].remaining
    <2> HIDE DEF f, g
    <2> QED  BY <1>1, <1>2, RelinkedType
  <1>6. l \in Levels
    <2> HIDE DEF sd, p
    <2> QED  BY <1>1, LevelAtType
  <1>7. ExactAt(f, R, TRUE, l)
    <2>1. ExactAt(f, R, p \in DOMAIN b.lvl[sd], b.lvl[sd][p])
      <3> HIDE DEF sd, p
      <3> QED  BY <1>1 DEF Exact
    <2>2. p \in DOMAIN b.lvl[sd]
      BY <1>4, <2>1 DEF ExactAt
    <2> HIDE DEF R, sd, p
    <2> QED  BY <2>1, <2>2 DEF LevelAt, ExactAt
  <1> HIDE DEF m, l
  <1>8. f[s].shares = f[s].remaining
    OBVIOUS
  <1> HIDE DEF f, g
  <1>9. ExactAt(g, R \ {s}, m.count # 0, m)
    <2>1. \A x \in R \ {s} :
           /\ g[x].next = IF x = f[s].prev THEN f[s].next ELSE f[x].next
           /\ g[x].prev = IF x = f[s].next THEN f[s].prev ELSE f[x].prev
           /\ g[x].remaining = f[x].remaining
      BY <1>4, <1>5
    <2> HIDE DEF R, sd, p
    <2> QED  BY <1>1, <1>3, <1>4, <1>5, <1>6, <1>7, <1>8, <2>1, ExactOut
  <1>10. ASSUME NEW t \in Sides, NEW q \in Prices
         PROVE  ExactAt(g, Resting(c, t, q), q \in DOMAIN c.lvl[t], c.lvl[t][q])
    <2>1. CASE t = sd /\ q = p
      <3>1. Resting(c, t, q) = R \ {s}
        BY <1>1, <1>2, <1>5, <2>1 DEF Resting, f, g
      <3>2. (q \in DOMAIN c.lvl[t] <=> m.count # 0) /\ (m.count # 0 => c.lvl[t][q] = m)
        <4> HIDE DEF sd, p
        <4> QED  BY <1>1, <1>2, <2>1 DEF LevelNow
      <3> HIDE DEF R, sd, p
      <3> QED  BY <1>9, <3>1, <3>2 DEF ExactAt
    <2>2. CASE ~(t = sd /\ q = p)
      <3> DEFINE T == Resting(b, t, q)
      <3>1. T \subseteq Slots /\ \A x \in T : x # s /\ x \notin R
        BY <1>1, <2>2 DEF Resting, f
      <3>2. Resting(c, t, q) = T
        BY <1>1, <1>2, <1>5, <2>2, <3>1 DEF Resting, f, g
      <3>3. \A x \in T : /\ g[x].remaining = f[x].remaining
                         /\ g[x].prev = f[x].prev /\ g[x].next = f[x].next
        <4>1. \A x \in T : x # f[s].next /\ x # f[s].prev
          BY <1>4, <3>1, BookAssumption
        <4> HIDE DEF T
        <4> QED  BY <1>5, <3>1, <4>1
      <3>4. ExactAt(f, T, q \in DOMAIN b.lvl[t], b.lvl[t][q])
        BY DEF Exact, f
      <3>5. /\ q \in DOMAIN c.lvl[t] <=> q \in DOMAIN b.lvl[t]
            /\ q \in DOMAIN b.lvl[t] => c.lvl[t][q] = b.lvl[t][q]
        <4> HIDE DEF sd, p
        <4> QED  BY <1>1, <1>2, <2>2 DEF LevelNow
      <3>6. ExactAt(g, T, q \in DOMAIN b.lvl[t], b.lvl[t][q])
        <4> HIDE DEF T
        <4> QED  BY <1>1, <1>5, <3>1, <3>3, <3>4, ExactSame
      <3> HIDE DEF T
      <3> QED  BY <3>2, <3>5, <3>6 DEF ExactAt
    <2> QED  BY <2>1, <2>2
  <1> QED  BY <1>10 DEF Exact, g

(* An order that is not used yet, and the level it is put into.            *)
AddDone(b, c, s, sd, p, n, l) ==
  /\ c.used = b.used \cup {s} /\ LevelNow(b, c, sd, p, TRUE, AddedTo(l, s, n))
  /\ c.slot[s].prev = NoSlot /\ c.slot[s].next = l.head /\ c.slot[s].remaining = n
  /\ c.slot[s].side = sd /\ c.slot[s].price = p
  /\ \A x \in Slots \ {s} :
       /\ c.slot[x].next = b.slot[x].next /\ c.slot[x].side = b.slot[x].side
       /\ c.slot[x].price = b.slot[x].price /\ c.slot[x].remaining = b.slot[x].remaining
       /\ c.slot[x].prev = IF x = l.head THEN s ELSE b.slot[x].prev

(* What add_order does to slots, used slots and levels.                    *)
LEMMA AddIs ==
  ASSUME NEW b, ListsOK(b), NEW s \in Slots \ b.used, NEW ref, NEW sd \in Sides, NEW p \in Prices,
         NEW n \in Nat, NEW room \in BOOLEAN
  PROVE  AddDone(b, Add(b, s, room, ref, sd, p, n), s, sd, p, n, LevelAt(b, sd, p))
  <1> DEFINE c == Add(b, s, room, ref, sd, p, n)
             l == LevelAt(b, sd, p)
             m == AddedTo(l, s, n)
  <1> DEFINE o == [order_ref |-> ref, side |-> sd, price |-> p, shares |-> n,
                   remaining |-> n, prev |-> NoSlot, next |-> l.head]
             g == [x \in Slots |->
                     CASE x = s -> o
                       [] x = l.head -> [b.slot[x] EXCEPT !.prev = s]
                       [] OTHER -> b.slot[x]]
             put == PutLevel(b, sd, p, m)
             c1 == [put EXCEPT !.slot = g, !.used = put.used \cup {s}]
  <1>1. BookTypes(b) /\ b.slot \in SlotMaps /\ s # NoSlot /\ b.used \subseteq Slots
    BY BookAssumption DEF ListsOK, BookTypes
  <1>2. l.head # s
    BY <1>1 DEF ListsOK, Headed, HeadOK, LevelAt, Fresh
  <1>3. LevelNow(b, put, sd, p, TRUE, m)
    <2> HIDE DEF put
    <2> HIDE DEF m
    <2> QED  BY <1>1, PutNow DEF put
  <1>4. put = [b EXCEPT !.lvl = [b.lvl EXCEPT ![sd] = Put(b.lvl[sd], p, m)]]
    BY <1>1 DEF PutLevel, BookTypes
  <1>5. c = InsertIndex(c1, ref, s, room)
    BY <1>1 DEF Add, AddedTo
  <1>6. put.used = b.used
    BY <1>1, <1>4 DEF BookTypes
  <1>7. c.slot = g /\ c.used = b.used \cup {s} /\ c.lvl = put.lvl
    <2>1. c1.slot = g /\ c1.used = b.used \cup {s} /\ c1.lvl = put.lvl
      <3> HIDE DEF g
      <3> QED  BY <1>1, <1>4, <1>6 DEF BookTypes
    <2>2. DOMAIN c1 = DOMAIN b /\ c1 = [k \in DOMAIN b |-> c1[k]]
      <3> HIDE DEF g
      <3> QED  BY <1>1, <1>4 DEF BookTypes
    <2>3. {"slot", "used", "lvl"} \subseteq DOMAIN b
      BY <1>1 DEF BookTypes
    <2> HIDE DEF c1
    <2>4. CASE room
      BY <1>5, <2>1, <2>2, <2>3, <2>4 DEF InsertIndex
    <2>5. CASE ~room
      BY <1>5, <2>1, <2>2, <2>3, <2>5 DEF InsertIndex
    <2> QED  BY <2>4, <2>5
  <1>8. LevelNow(b, c, sd, p, TRUE, m)
    <2> HIDE DEF put
    <2> QED  BY <1>3, <1>7 DEF LevelNow
  <1>9. g[s] = o
    <2> HIDE DEF o
    <2> QED  BY <1>2
  <1>10. ASSUME NEW x \in Slots \ {s}
         PROVE  /\ g[x].next = b.slot[x].next /\ g[x].side = b.slot[x].side
                /\ g[x].price = b.slot[x].price /\ g[x].remaining = b.slot[x].remaining
                /\ g[x].prev = IF x = l.head THEN s ELSE b.slot[x].prev
    <2>1. b.slot[x] \in Orders
      BY <1>1 DEF SlotMaps
    <2>2. CASE x = l.head
      <3>1. g[x] = [b.slot[x] EXCEPT !.prev = s]
        <4> HIDE DEF o
        <4> QED  BY <2>2
      <3> HIDE DEF g
      <3> QED  BY <2>1, <2>2, <3>1 DEF Orders
    <2>3. CASE x # l.head
      <3>1. g[x] = b.slot[x]
        <4> HIDE DEF o
        <4> QED  BY <2>3
      <3> HIDE DEF g
      <3> QED  BY <2>3, <3>1
    <2> QED  BY <2>2, <2>3
  <1>11. /\ o.prev = NoSlot /\ o.next = l.head /\ o.remaining = n /\ o.side = sd /\ o.price = p
    OBVIOUS
  <1> HIDE DEF g, o, c, l
  <1>12. AddDone(b, c, s, sd, p, n, l)
    BY <1>7, <1>8, <1>9, <1>10, <1>11 DEF AddDone
  <1> QED  BY <1>12 DEF c, l

(* add_order keeps all levels exact if the level's fields do not wrap.     *)
LEMMA ExactAdd ==
  ASSUME NEW b, BookOK(b), Exact(b), NEW s \in Slots \ b.used, NEW ref \in Refs,
         ref \notin DOMAIN b.index, NEW sd \in Sides,
         NEW p \in Prices, NEW n \in Nat, ~Wraps(b, s, sd, p, n),
         NEW room \in BOOLEAN, NEW c, c = Add(b, s, room, ref, sd, p, n)
  PROVE  Exact(c)
  <1> DEFINE f == b.slot
             g == c.slot
             l == LevelAt(b, sd, p)
             m == AddedTo(l, s, n)
             R == Resting(b, sd, p)
             there == p \in DOMAIN b.lvl[sd]
  <1>1. /\ ListsOK(b) /\ BookTypes(b) /\ f \in SlotMaps /\ b.used \subseteq Slots /\ s # NoSlot
    BY BookAssumption DEF BookOK, ListsOK, BookTypes
  <1>2. /\ c.used = b.used \cup {s} /\ LevelNow(b, c, sd, p, TRUE, m)
        /\ g[s].prev = NoSlot /\ g[s].next = l.head /\ g[s].remaining = n
        /\ g[s].side = sd /\ g[s].price = p
        /\ \A x \in Slots \ {s} :
             /\ g[x].next = f[x].next /\ g[x].side = f[x].side
             /\ g[x].price = f[x].price /\ g[x].remaining = f[x].remaining
             /\ g[x].prev = IF x = l.head THEN s ELSE f[x].prev
    <2>1. AddDone(b, c, s, sd, p, n, l)
      BY <1>1, AddIs
    <2> HIDE DEF l
    <2> QED  BY <2>1 DEF AddDone
  <1>3. g \in SlotMaps
    BY AddOK DEF BookOK, ListsOK, BookTypes
  <1>4. l \in Levels
    BY <1>1, LevelAtType
  <1>5. l.count + 1 < Wide /\ l.total + n < Wide
    <2>1. l.count \in Nat /\ l.total \in Nat /\ Wide \in Nat
      BY <1>4, BookAssumption DEF Levels
    <2>2. ~(l.count + 1 >= Wide \/ l.total + n >= Wide)
      BY <1>1 DEF Wraps
    <2> HIDE DEF l
    <2> QED  BY <2>1, <2>2
  <1>6. ExactAt(f, R, there, l) /\ there \in BOOLEAN /\ (~there => l = Fresh)
    <2>1. ExactAt(f, R, there, b.lvl[sd][p])
      BY DEF Exact
    <2> HIDE DEF R
    <2> QED  BY <2>1 DEF ExactAt, LevelAt
  <1>8. R \subseteq Slots /\ s \notin R /\ \A x \in R : x \in Slots \ {s}
    BY <1>1 DEF Resting
  <1>9. l.head # NoSlot => l.head \in R
    BY <1>6 DEF ExactAt, Fresh
  <1> HIDE DEF l, f, g, there
  <1>10. ExactAt(g, R \cup {s}, TRUE, m)
    <2>1. \A x \in R : /\ g[x].next = f[x].next /\ g[x].remaining = f[x].remaining
                       /\ g[x].prev = IF x = l.head THEN s ELSE f[x].prev
      BY <1>2, <1>8
    <2> HIDE DEF R
    <2>2. InFront(f, g, R, l, s, n)
      BY <1>1, <1>2, <1>3, <1>4, <1>5, <1>8, <2>1 DEF InFront
    <2> QED  BY <1>6, <2>2, ExactIn
  <1> HIDE DEF m
  <1>11. ASSUME NEW t \in Sides, NEW q \in Prices
         PROVE  ExactAt(g, Resting(c, t, q), q \in DOMAIN c.lvl[t], c.lvl[t][q])
    <2>1. CASE t = sd /\ q = p
      <3>1. Resting(c, t, q) = R \cup {s}
        BY <1>1, <1>2, <2>1 DEF Resting, f, g
      <3>2. q \in DOMAIN c.lvl[t] /\ c.lvl[t][q] = m
        BY <1>2, <2>1 DEF LevelNow
      <3> HIDE DEF R
      <3> QED  BY <1>10, <3>1, <3>2 DEF ExactAt
    <2>2. CASE ~(t = sd /\ q = p)
      <3> DEFINE T == Resting(b, t, q)
      <3>1. T \subseteq Slots /\ \A x \in T : x # s /\ x \notin R
        BY <1>1, <2>2 DEF Resting, f
      <3>2. Resting(c, t, q) = T
        BY <1>1, <1>2, <2>2, <3>1 DEF Resting, f, g
      <3>3. \A x \in T : /\ g[x].remaining = f[x].remaining
                         /\ g[x].prev = f[x].prev /\ g[x].next = f[x].next
        <4>1. \A x \in T : x # l.head
          BY <1>9, <3>1, BookAssumption
        <4> HIDE DEF T
        <4> QED  BY <1>2, <3>1, <4>1
      <3>4. ExactAt(f, T, q \in DOMAIN b.lvl[t], b.lvl[t][q])
        BY DEF Exact, f
      <3>5. /\ q \in DOMAIN c.lvl[t] <=> q \in DOMAIN b.lvl[t]
            /\ q \in DOMAIN b.lvl[t] => c.lvl[t][q] = b.lvl[t][q]
        BY <1>2, <2>2 DEF LevelNow
      <3>6. ExactAt(g, T, q \in DOMAIN b.lvl[t], b.lvl[t][q])
        <4> HIDE DEF T
        <4> QED  BY <1>1, <1>3, <3>1, <3>3, <3>4, ExactSame
      <3> HIDE DEF T
      <3> QED  BY <3>2, <3>5, <3>6 DEF ExactAt
    <2> QED  BY <2>1, <2>2
  <1> QED  BY <1>11 DEF Exact, g

(* A reduction that leaves something of the order.                         *)
LEMMA ExactCut ==
  ASSUME NEW b, BookOK(b), Exact(b), NEW s \in b.used, NEW n \in Nat,
         NEW c, c = Cut(b, s, n), c.slot[s].remaining # 0
  PROVE  Exact(c)
  <1> DEFINE k == Min({n, b.slot[s].remaining})
             d == Lowered(b, s, k)
             sd == b.slot[s].side
             p == b.slot[s].price
             R == Resting(b, sd, p)
             f == b.slot
             g == d.slot
             l == LevelAt(b, sd, p)
             m == Lesser(l, k)
  <1>1. /\ BookTypes(b) /\ ListsOK(b) /\ f \in SlotMaps /\ b.used \subseteq Slots /\ s \in Slots
        /\ sd \in Sides /\ p \in Prices /\ f[s].remaining \in Nat
    BY DEF BookOK, ListsOK, BookTypes, Placed, SlotMaps, Orders
  <1>2. k \in Nat /\ f[s].remaining - k \in Nat
    BY <1>1, Smaller
  <1>3. c = DecLevelQty(d, sd, p, k)
    BY DEF Cut
  <1> HIDE DEF k
  <1>4. /\ BookOK(d) /\ d.used = b.used /\ d.index = b.index /\ d.lvl = b.lvl
        /\ d.slot[s].remaining = b.slot[s].remaining - k
        /\ \A x \in Slots :
             /\ d.slot[x].order_ref = b.slot[x].order_ref /\ d.slot[x].side = b.slot[x].side
             /\ d.slot[x].price = b.slot[x].price /\ d.slot[x].prev = b.slot[x].prev
             /\ d.slot[x].next = b.slot[x].next
             /\ x # s => d.slot[x].remaining = b.slot[x].remaining
    BY <1>2, LoweredOK
  <1> HIDE DEF d
  <1>5. c.slot = g
    <2>1. BookOK(d) /\ sd \in Sides /\ p \in Prices /\ k \in Nat
      BY <1>1, <1>2, <1>4
    <2> HIDE DEF sd, p
    <2> QED  BY ONLY <1>3, <2>1, DecLevelQtyOK
  <1>6. l = LevelAt(d, sd, p)
    BY <1>4 DEF LevelAt
  <1>8. R \subseteq Slots /\ s \in R /\ g \in SlotMaps /\ BookTypes(d)
    BY <1>1, <1>4 DEF Resting, BookOK, ListsOK, BookTypes
  <1>9. l \in Levels
    <2> HIDE DEF sd, p
    <2> QED  BY <1>1, LevelAtType
  <1>10. ExactAt(f, R, TRUE, l)
    <2>1. ExactAt(f, R, p \in DOMAIN b.lvl[sd], b.lvl[sd][p])
      <3> HIDE DEF sd, p
      <3> QED  BY <1>1 DEF Exact
    <2>2. p \in DOMAIN b.lvl[sd]
      BY <1>8, <2>1 DEF ExactAt
    <2> HIDE DEF R, sd, p
    <2> QED  BY <2>1, <2>2 DEF LevelAt, ExactAt
  <1>11. k < f[s].remaining
    BY <1>1, <1>2, <1>4, <1>5
  <1> HIDE DEF l, sd, p
  <1>12. m.total # 0 /\ ExactAt(g, R, TRUE, m)
    <2>1. LessBy(f, g, R, l, s, k)
      <3>1. /\ \A x \in R : g[x].next = f[x].next /\ g[x].prev = f[x].prev
            /\ \A x \in R \ {s} : g[x].remaining = f[x].remaining
        BY <1>4, <1>8
      <3> HIDE DEF R
      <3> QED  BY <1>1, <1>2, <1>4, <1>8, <1>9, <1>11, <3>1 DEF LessBy
    <2> HIDE DEF R, f, g
    <2> QED  BY <1>10, <2>1, ExactLess
  <1>13. c = PutLevel(d, sd, p, m)
    <2>1. m.total = (l.total - k) % Wide
      BY <1>9 DEF Lesser, Levels
    <2> QED  BY <1>3, <1>6, <1>12, <2>1 DEF DecLevelQty, Lesser
  <1>14. LevelNow(d, c, sd, p, TRUE, m)
    <2> HIDE DEF m
    <2> QED  BY <1>1, <1>8, <1>13, PutNow
  <1>15. c.used = b.used
    <2> HIDE DEF m
    <2> QED  BY <1>4, <1>8, <1>13 DEF PutLevel, BookTypes
  <1> HIDE DEF m
  <1>16. ASSUME NEW t \in Sides, NEW q \in Prices
         PROVE  ExactAt(c.slot, Resting(c, t, q), q \in DOMAIN c.lvl[t], c.lvl[t][q])
    <2> DEFINE T == Resting(b, t, q)
    <2>1. T \subseteq Slots /\ Resting(c, t, q) = T
      BY <1>1, <1>4, <1>5, <1>15 DEF Resting
    <2>2. CASE t = sd /\ q = p
      <3>1. q \in DOMAIN c.lvl[t] /\ c.lvl[t][q] = m /\ T = R
        BY <1>14, <2>2 DEF LevelNow
      <3> HIDE DEF T, R, g
      <3> QED  BY <1>5, <1>12, <2>1, <3>1 DEF ExactAt
    <2>3. CASE ~(t = sd /\ q = p)
      <3>1. s \notin T
        BY <2>3 DEF Resting, sd, p
      <3>2. \A x \in T : /\ g[x].remaining = f[x].remaining
                         /\ g[x].prev = f[x].prev /\ g[x].next = f[x].next
        BY <1>4, <2>1, <3>1
      <3>3. ExactAt(f, T, q \in DOMAIN b.lvl[t], b.lvl[t][q])
        BY DEF Exact
      <3>4. /\ q \in DOMAIN c.lvl[t] <=> q \in DOMAIN b.lvl[t]
            /\ q \in DOMAIN b.lvl[t] => c.lvl[t][q] = b.lvl[t][q]
        BY <1>4, <1>14, <2>3 DEF LevelNow
      <3>5. ExactAt(g, T, q \in DOMAIN b.lvl[t], b.lvl[t][q])
        <4> HIDE DEF T, f, g
        <4> QED  BY <1>1, <1>8, <2>1, <3>2, <3>3, ExactSame
      <3> HIDE DEF T, g
      <3> QED  BY <1>5, <2>1, <3>4, <3>5 DEF ExactAt
    <2> QED  BY <2>2, <2>3
  <1> QED  BY <1>16 DEF Exact

(* The levels do not depend on the index.                                  *)
LEMMA ExactUnindex ==
  ASSUME NEW b, BookTypes(b), Exact(b), NEW ref, NEW c, c = Unindex(b, ref)
  PROVE  Exact(c)
  <1>1. c.slot = b.slot /\ c.used = b.used /\ c.lvl = b.lvl
    BY DEF Unindex, BookTypes
  <1>2. \A sd, p : Resting(c, sd, p) = Resting(b, sd, p)
    BY <1>1 DEF Resting
  <1> QED  BY <1>1, <1>2 DEF Exact

(* delete_order does if the order was never cut.                           *)
LEMMA ExactRemove ==
  ASSUME NEW b, BookOK(b), Exact(b), NEW ref,
         ref \in DOMAIN b.index => b.slot[b.index[ref]].shares = b.slot[b.index[ref]].remaining
  PROVE  Exact(Remove(b, ref))
  <1>1. CASE ref \notin DOMAIN b.index
    BY <1>1 DEF Remove
  <1>2. CASE ref \in DOMAIN b.index
    <2> DEFINE s == b.index[ref]
               d == UnlinkAndFree(b, s)
    <2>1. ListsOK(b) /\ s \in b.used /\ b.slot[s].shares = b.slot[s].remaining
      BY <1>2 DEF BookOK, Indexed
    <2> HIDE DEF s
    <2>2. Exact(d) /\ ListsOK(d)
      BY <2>1, ExactUnlink, UnlinkAndFreeOK
    <2>3. Remove(b, ref) = Unindex(d, ref)
      BY <1>2 DEF Remove, s
    <2> HIDE DEF d
    <2> QED  BY <2>2, <2>3, ExactUnindex DEF ListsOK
  <1> QED  BY <1>1, <1>2

(* An order that a reduction empties leaves the index too.                 *)
LEMMA ExactReduce ==
  ASSUME NEW b, BookOK(b), Exact(b), NEW ref, NEW n \in Nat,
         DOMAIN Reduce(b, ref, n).index = DOMAIN b.index
  PROVE  Exact(Reduce(b, ref, n))
  <1>1. CASE ref \notin DOMAIN b.index
    BY <1>1 DEF Reduce
  <1>2. CASE ref \in DOMAIN b.index
    <2> DEFINE s == b.index[ref]
               c == Cut(b, s, n)
    <2>1. /\ BookOK(c) /\ c.index = b.index
          /\ Reduce(b, ref, n) = IF c.slot[s].remaining = 0
                                 THEN Unindex(UnlinkAndFree(c, s), ref) ELSE c
      BY <1>2, CutOK
    <2>2. s \in b.used
      BY <1>2 DEF BookOK, Indexed
    <2> HIDE DEF c
    <2>3. CASE c.slot[s].remaining = 0
      <3>1. Reduce(b, ref, n) = Unindex(UnlinkAndFree(c, c.index[ref]), ref)
        BY <2>1, <2>3
      <3>2. ref \in DOMAIN c.index
        BY <1>2, <2>1
      <3>3. DOMAIN Reduce(b, ref, n).index = DOMAIN c.index \ {ref}
        BY <2>1, <3>1, <3>2, UnindexedOK
      <3> QED  BY <1>2, <2>1, <3>3
    <2>4. CASE c.slot[s].remaining # 0
      <3>1. Exact(c)
        <4> HIDE DEF s
        <4> QED  BY <2>2, <2>4, ExactCut DEF c
      <3> QED  BY <2>1, <2>4, <3>1
    <2> QED  BY <2>3, <2>4
  <1> QED  BY <1>1, <1>2

(* add_order does, whichever slot the pool hands out.                      *)
LEMMA ExactAllocated ==
  ASSUME NEW b, BookOK(b), Exact(b), NEW s \in Allocation(b), NEW ref \in Refs,
         ref \notin DOMAIN b.index, NEW sd \in Sides,
         NEW p \in Prices, NEW n \in Nat, ~Wraps(b, s, sd, p, n), NEW room \in BOOLEAN
  PROVE  Exact(Add(b, s, room, ref, sd, p, n))
  <1>1. CASE s = NoSlot
    BY <1>1 DEF Add
  <1>2. CASE s # NoSlot
    <2>1. s \in Slots \ b.used
      BY <1>2 DEF Allocation
    <2> QED  BY <2>1, ExactAdd
  <1> QED  BY <1>1, <1>2

----------------------------------------------------------------------------
(* The levels are exact until a step miscounts.                            *)
LevelInv == BookInv /\ (~miscount => Exact(Book))

(* The empty book has no level.                                            *)
LEMMA InitLevel == Init => LevelInv
  <1> SUFFICES ASSUME Init PROVE LevelInv
    OBVIOUS
  <1>1. Book.used = {} /\ Book.lvl = [sd \in Sides |-> <<>>]
    BY DEF Book, Init
  <1>2. \A sd \in Sides, p \in Prices : Resting(Book, sd, p) = {} /\ p \notin DOMAIN Book.lvl[sd]
    BY <1>1 DEF Resting
  <1>3. Exact(Book)
    BY <1>2 DEF Exact, ExactAt
  <1> QED  BY <1>3, InitBook DEF LevelInv

(* Every message keeps all levels exact, or raises miscount.               *)
LEMMA StepLevel == LevelInv /\ [Next]_vars => LevelInv'
  <1> SUFFICES ASSUME LevelInv, [Next]_vars, ~miscount' PROVE Exact(Book)'
    BY StepBook DEF LevelInv
  <1>1. BookOK(Book)
    BY DEF LevelInv, BookInv
  <1>2. /\ Book.slot = slot /\ Book.used = used /\ Book.index = index /\ Book.lvl = lvl
        /\ Book.orphans = orphans
    BY DEF Book
  <1>3. ASSUME NEW b, BookOK(b), Exact(b), Becomes(b) PROVE Exact(Book)'
    <2>1. Book' = b
      BY <1>3, BecomesBook DEF BookOK, ListsOK
    <2> QED  BY <1>3, <2>1 DEF Exact, Resting
  <1>4. CASE UNCHANGED vars
    <2>1. Book' = Book /\ Exact(Book)
      BY <1>4 DEF Book, vars, LevelInv
    <2> QED  BY <2>1 DEF Exact, Resting
  <1>5. ASSUME NEW ev \in Events, OnAdd(ev) PROVE Exact(Book)'
    <2>1. PICK s \in Allocation(Book), room \in BOOLEAN :
             /\ Becomes(Add(Book, s, room, ev.ref, ev.side, ev.price, ev.shares))
             /\ miscount' = (miscount \/ Wraps(Book, s, ev.side, ev.price, ev.shares))
      BY <1>5 DEF OnAdd
    <2>2. /\ ev.ref \in Refs /\ ev.side \in Sides /\ ev.price \in Prices /\ ev.shares \in Nat
          /\ ev.ref \notin DOMAIN Book.index
      BY <1>2, <1>5, EventFields DEF OnAdd
    <2>3. BookOK(Add(Book, s, room, ev.ref, ev.side, ev.price, ev.shares))
      BY <1>1, <2>2, AddOK DEF Allocation
    <2>4. Exact(Book) /\ ~Wraps(Book, s, ev.side, ev.price, ev.shares)
      BY <2>1 DEF LevelInv
    <2>5. Exact(Add(Book, s, room, ev.ref, ev.side, ev.price, ev.shares))
      BY <1>1, <2>2, <2>4, ExactAllocated
    <2> QED  BY <1>3, <2>1, <2>3, <2>5
  <1>6. ASSUME NEW ev \in Events, OnDelete(ev) PROVE Exact(Book)'
    <2>1. Becomes(Remove(Book, ev.ref)) /\ ~miscount /\ ~Miscounts(ev.ref)
      BY <1>6 DEF OnDelete
    <2>2. Exact(Remove(Book, ev.ref))
      BY <1>1, <1>2, <2>1, ExactRemove DEF LevelInv, Miscounts
    <2> QED  BY <1>1, <1>3, <2>1, <2>2, RemoveOK
  <1>7. ASSUME NEW ev \in Events, ev.type # "DELETE", Reduced(ev) PROVE Exact(Book)'
    <2> DEFINE c == Reduce(Book, ev.ref, ev.shares)
    <2>1. ev.shares \in Nat
      BY <1>7, EventFields
    <2>2. Becomes(c) /\ ~miscount /\ DOMAIN c.index = DOMAIN Book.index
      BY <1>2, <1>7 DEF Reduced
    <2>3. BookOK(c)
      BY <1>1, <2>1, ReduceOK
    <2>4. Exact(c)
      BY <1>1, <2>1, <2>2, ExactReduce DEF LevelInv
    <2> QED  BY <1>3, <2>2, <2>3, <2>4
  <1>8. ASSUME NEW ev \in Events, OnReplace(ev) PROVE Exact(Book)'
    <2> DEFINE d == Remove(Book, ev.ref)
               sd == SideOf(Book, ev.ref)
    <2>1. PICK s \in Allocation(d), room \in BOOLEAN :
             /\ Becomes(Replace(Book, s, room, ev.ref, ev.new, sd, ev.price, ev.shares))
             /\ miscount' = \/ miscount \/ Miscounts(ev.ref)
                            \/ ev.ref \in DOMAIN index /\ Wraps(d, s, sd, ev.price, ev.shares)
      BY <1>8 DEF OnReplace
    <2>2. /\ ev.new \in Refs /\ ev.price \in Prices /\ ev.shares \in Nat
          /\ ev.new \notin DOMAIN Book.index
      BY <1>2, <1>8, EventFields DEF OnReplace
    <2>3. CASE ev.ref \notin DOMAIN Book.index
      BY <1>1, <1>3, <2>1, <2>3 DEF Replace, LevelInv
    <2>4. CASE ev.ref \in DOMAIN Book.index
      <3>1. BookOK(d) /\ ev.new \notin DOMAIN d.index
        BY <1>1, <2>2, RemoveOK
      <3>2. sd \in Sides
        BY <1>1, <2>4 DEF SideOf, BookOK, ListsOK, Placed, Indexed
      <3>3. Exact(d)
        <4>1. ~miscount /\ ~Miscounts(ev.ref)
          BY <2>1
        <4> QED  BY <1>1, <1>2, <4>1, ExactRemove DEF LevelInv, Miscounts
      <3>4. ~Wraps(d, s, sd, ev.price, ev.shares)
        BY <1>2, <2>1, <2>4
      <3> HIDE DEF d, sd
      <3>5. BookOK(Add(d, s, room, ev.new, sd, ev.price, ev.shares))
        BY <2>2, <3>1, <3>2, AddOK DEF Allocation
      <3>6. Exact(Add(d, s, room, ev.new, sd, ev.price, ev.shares))
        BY <2>2, <3>1, <3>2, <3>3, <3>4, ExactAllocated
      <3>7. Becomes(Add(d, s, room, ev.new, sd, ev.price, ev.shares))
        BY <2>1, <2>4 DEF Replace, d
      <3> QED  BY <1>3, <3>5, <3>6, <3>7
    <2> QED  BY <2>3, <2>4
  <1>9. CASE Next
    <2>1. PICK ev \in Events : OnEvent(ev)
      BY <1>9 DEF Next
    <2>2. CASE OnAdd(ev)
      BY <1>5, <2>2
    <2>3. CASE OnDelete(ev)
      BY <1>6, <2>3
    <2>4. CASE OnCancel(ev)
      BY <1>7, <2>4 DEF OnCancel
    <2>5. CASE OnTrade(ev)
      BY <1>7, <2>5 DEF OnTrade
    <2>6. CASE OnExecute(ev)
      BY <1>7, <2>6 DEF OnExecute
    <2>7. CASE OnReplace(ev)
      BY <1>8, <2>7
    <2> QED  BY <2>1, <2>2, <2>3, <2>4, <2>5, <2>6, <2>7 DEF OnEvent
  <1> QED  BY <1>4, <1>9

(* The book keeps its structure, and until something is miscounted every   *)
(* level has the number, the quantity and the ends of the orders that rest *)
(* there (order_book.h, add, unlink_and_free and dec_level_qty).           *)
THEOREM LevelInvariant == Spec => []LevelInv
  BY InitLevel, StepLevel, PTL DEF Spec

(* Until an order leaves partly filled or a level's 32 bits overflow, the  *)
(* count, the total, the head and the tail of every level are those of the *)
(* orders resting there, and there is a level nowhere else (add,           *)
(* unlink_and_free and dec_level_qty of order_book.h).                     *)
THEOREM LevelsAreExact == Spec => []LevelsExactUnlessMiscounted
  <1>1. LevelInv => LevelsExactUnlessMiscounted
    <2> SUFFICES ASSUME Exact(Book), NEW sd \in Sides, NEW p \in Prices
                 PROVE  /\ p \in DOMAIN lvl[sd] <=> RestingAt(sd, p) # {}
                        /\ p \in DOMAIN lvl[sd] =>
                           /\ lvl[sd][p].count = Cardinality(RestingAt(sd, p))
                           /\ lvl[sd][p].total =
                                 SumFunctionOnSet([s \in Slots |-> slot[s].remaining], RestingAt(sd, p))
                           /\ \A s \in RestingAt(sd, p) :
                                 /\ slot[s].prev = NoSlot <=> s = lvl[sd][p].head
                                 /\ slot[s].next = NoSlot <=> s = lvl[sd][p].tail
      BY DEF LevelInv, LevelsExactUnlessMiscounted
    <2>1. ExactAt(Book.slot, Resting(Book, sd, p), p \in DOMAIN Book.lvl[sd], Book.lvl[sd][p])
      BY DEF Exact
    <2>2. Book.slot = slot /\ Book.lvl = lvl /\ Resting(Book, sd, p) = RestingAt(sd, p)
      BY DEF Book, Resting, RestingAt
    <2>3. ExactAt(slot, RestingAt(sd, p), p \in DOMAIN lvl[sd], lvl[sd][p])
      BY <2>1, <2>2
    <2> QED  BY <2>3 DEF ExactAt, Remains
  <1> QED  BY <1>1, LevelInvariant, PTL

----------------------------------------------------------------------------
(***************************************************************************)
(* The order map.                                                          *)
(***************************************************************************)

(* The fields of the map.                                                  *)
Slot == 0 .. Capacity
NodeFields == [ref : Keys \cup {NoKey}, order : Nat, next : Slot, bucket : Buckets]
MapPlaces == {"idle", "insert", "alloc", "load", "publish", "count", "length", "give_up", "put",
              "convert", "lock", "copy", "find", "get", "find_head", "find_test", "find_next",
              "erase", "del", "erase_head", "head_next", "head_cas", "walk_test", "walk_next",
              "walk_load", "walk_cas", "release"}
CallFields == [pc : MapPlaces, key : Keys \cup {NoKey}, then : {"idle", "put"},
               idx : Slot, next : Slot, nxt : Slot]

MapTypes ==
  /\ node \in [Nodes -> NodeFields] /\ head \in [Buckets -> Slot] /\ free \in Seq(Nodes)
  /\ state \in [Buckets -> 0 .. 2] /\ overflow \in [Keys \cup {NoKey} -> Nat]
  /\ lock \in Threads \cup {NoThread} /\ at \in [Threads -> CallFields]
  /\ calls \in [Threads -> Nat] /\ stored \in [Keys -> Nat]

(* A chain is a set of nodes with a rank that rises along it: a new node   *)
(* goes to the front, under every rank there was, and a removal leaves the *)
(* ranks of the others alone.  s is the first node of S, or the one that   *)
(* follows n.                                                              *)
IsFirst(S, r, s) == \/ s = Nil /\ S = {}
                    \/ s \in S /\ \A m \in S : r[s] <= r[m]
IsAfter(S, r, n, s) == \/ s = Nil /\ \A m \in S : r[m] <= r[n]
                       \/ s \in S /\ r[n] < r[s] /\ \A m \in S : r[m] <= r[n] \/ r[s] <= r[m]

Chains(C, r, low) ==
  /\ C \in [Buckets -> SUBSET Nodes] /\ r \in [Nodes -> Int] /\ low \in Int
  /\ \A b \in Buckets :
       /\ IsFirst(C[b], r, head[b])
       /\ \A n \in C[b] : /\ low < r[n] /\ IsAfter(C[b], r, n, node[n].next)
                          /\ node[n].bucket = b /\ node[n].order > 0
                          /\ node[n].ref \in Keys /\ Hash[node[n].ref] = b
       /\ \A n, m \in C[b] : r[m] = r[n] \/ node[m].ref = node[n].ref => m = n

(* A node is in a chain or loose, and loose in one place.                  *)
Hands == {"load", "publish", "give_up", "release"}
OnFree(n) == \E i \in DOMAIN free : free[i] = n
InHandOf(t, n) == at[t].idx = n /\ at[t].pc \in Hands

Accounted(C) ==
  /\ \A i, j \in DOMAIN free : free[i] = free[j] => i = j
  /\ \A n \in Nodes : /\ Loose(n) <=> \A b \in Buckets : n \notin C[b]
                      /\ \A t \in Threads : InHandOf(t, n) => ~OnFree(n)
                      /\ \A t, u \in Threads : InHandOf(t, n) /\ InHandOf(u, n) => t = u

(* What the chain says of a key is what its owner stored.                  *)
Absent(C, k) == \A n \in C[Hash[k]] : node[n].ref # k
Consistent(C, k) == /\ \A n \in C[Hash[k]] : node[n].ref = k => stored[k] = node[n].order
                    /\ Absent(C, k) => stored[k] = 0

(* What will be stored for the key once its owner has finished a step it   *)
(* has begun.                                                              *)
Due(k) ==
  IF at[Owner[k]].key = k /\ at[Owner[k]].pc = "count" THEN node[at[Owner[k]].idx].order
  ELSE IF at[Owner[k]].key = k /\ at[Owner[k]].pc = "release" THEN 0 ELSE stored[k]

KeyOK(C, k) ==
  /\ state[Hash[k]] = 0 => overflow[k] = 0
  /\ state[Hash[k]] # 2 /\ Absent(C, k) => overflow[k] = Due(k)
  /\ state[Hash[k]] # 2 => \A n \in C[Hash[k]] : node[n].ref = k =>
                             Due(k) = node[n].order /\ overflow[k] \in {0, node[n].order}
  /\ state[Hash[k]] = 2 => overflow[k] = Due(k)

(* The nodes of the key are at n or behind it, strictly behind it.         *)
AtOrBehind(C, r, k, n) == \A m \in C[Hash[k]] : node[m].ref = k => r[n] <= r[m]
Behind(C, r, k, n) == \A m \in C[Hash[k]] : node[m].ref = k => r[n] < r[m]

Inserting(a) == \/ a.pc \in {"insert", "alloc", "load", "publish", "count", "give_up", "put"}
                \/ a.pc \in {"convert", "lock", "copy"} /\ a.then = "put"
Walking(a) == a.pc \in {"find_head", "find_test", "find_next", "erase_head", "head_next", "head_cas",
                        "walk_test", "walk_next", "walk_load", "walk_cas"}

(* Where a call is, and what it knows there.                               *)
CallOK(C, r, t, a) ==
  LET k == a.key
      b == Hash[a.key]
  IN  a.pc # "idle" =>
        /\ k \in Keys /\ Owner[k] = t
        /\ Inserting(a) => stored[k] = 0
        /\ Walking(a) => Consistent(C, k)
        /\ a.pc \in Hands =>
             a.idx \in Nodes /\ node[a.idx].ref = k /\ node[a.idx].bucket = b /\ node[a.idx].order > 0
        /\ a.pc = "publish" => node[a.idx].next = a.next
        /\ a.pc = "count" => a.idx \in C[b] /\ node[a.idx].ref = k
        /\ a.pc \in {"give_up", "put", "get", "del"} => state[b] # 0
        /\ a.pc \in {"lock", "copy"} => state[b] = 1
        /\ a.pc = "copy" => /\ lock = t /\ (a.idx = Nil \/ a.idx \in C[b])
                            /\ \A n \in C[b] : a.idx = Nil \/ r[n] < r[a.idx] =>
                                                 overflow[node[n].ref] = node[n].order
        /\ a.pc = "find_test" => /\ a.idx = Nil => Absent(C, k)
                                 /\ a.idx \in C[b] => AtOrBehind(C, r, k, a.idx)
                                 /\ a.idx # Nil /\ node[a.idx].ref = k => a.idx \in C[b]
        /\ a.pc \in {"find_next", "walk_next"} => a.idx \in C[b] /\ Behind(C, r, k, a.idx)
        /\ a.pc = "walk_test" => /\ a.idx \in Nodes /\ node[a.idx].ref # k
                                 /\ a.idx \in C[b] => Behind(C, r, k, a.idx)
        /\ a.pc \in {"head_next", "head_cas"} => a.idx \in C[b] /\ node[a.idx].ref = k
        /\ a.pc \in {"walk_load", "walk_cas"} => /\ a.idx \in Nodes
                                                 /\ a.next \in C[b] /\ node[a.next].ref = k

(* One thread converts a bucket.                                           *)
OneConverts ==
  \A t, u \in Threads : at[t].pc \in {"lock", "copy"} /\ at[u].pc \in {"lock", "copy"}
                          /\ Hash[at[t].key] = Hash[at[u].key] => t = u

(* A call that has begun was counted: the orders it stores are not 0.      *)
CallsCounted == \A t \in Threads : at[t].pc # "idle" => calls[t] > 0

MapOK(C, r, low) ==
  /\ MapTypes /\ exact /\ OneConverts /\ CallsCounted
  /\ Chains(C, r, low) /\ Accounted(C)
  /\ \A k \in Keys : KeyOK(C, k)
  /\ \A t \in Threads : CallOK(C, r, t, at[t])

MapInv == ~strayed => \E C, r, low : MapOK(C, r, low)


----------------------------------------------------------------------------
(* A loose node is on the free stack or in a hand.                         *)
LEMMA LooseIs == \A n : Loose(n) <=> OnFree(n) \/ \E t \in Threads : InHandOf(t, n)
  BY DEF Loose, OnFree, InHandOf, Hands

(* At the start every node is free and every chain empty.                  *)
LEMMA InitMap == MapInit => MapInv
  <1> SUFFICES ASSUME MapInit PROVE \E C, r, low : MapOK(C, r, low)
    BY DEF MapInv
  <1> USE MapAssumption
  <1> DEFINE C == [b \in Buckets |-> {}]
             r == [n \in Nodes |-> 0]
  <1>1. \A n \in Nodes : n + 1 \in Slot /\ n + 1 \in 1 .. Capacity /\ n \in Int
    BY DEF Nodes, Slot
  <1>2. MapTypes
    <2>1. node \in [Nodes -> NodeFields]
      BY <1>1 DEF MapInit, NodeFields
    <2>2. head \in [Buckets -> Slot]
      BY DEF MapInit, Slot, Nil
    <2>3. free \in Seq(Nodes)
      <3>1. \A i \in 1 .. Capacity : i - 1 \in Nodes
        BY DEF Nodes
      <3>2. free \in [1 .. Capacity -> Nodes]
        BY <3>1 DEF MapInit
      <3> QED  BY <3>2
    <2>4. Idle \in CallFields
      BY DEF Idle, CallFields, MapPlaces, Slot, Nil
    <2>5. at \in [Threads -> CallFields]
      BY <2>4 DEF MapInit
    <2>6. state \in [Buckets -> 0 .. 2] /\ overflow \in [Keys \cup {NoKey} -> Nat]
          /\ lock \in Threads \cup {NoThread} /\ calls \in [Threads -> Nat] /\ stored \in [Keys -> Nat]
      BY DEF MapInit
    <2> QED  BY <2>1, <2>2, <2>3, <2>5, <2>6 DEF MapTypes
  <1>3. \A t \in Threads : at[t].pc = "idle" /\ at[t].key = NoKey
    BY DEF MapInit, Idle
  <1>4. Chains(C, r, 0)
    BY DEF Chains, IsFirst, MapInit
  <1>5. Accounted(C)
    <2>1. DOMAIN free = 1 .. Capacity /\ \A i \in 1 .. Capacity : free[i] = i - 1
      BY DEF MapInit
    <2>2. \A i, j \in DOMAIN free : free[i] = free[j] => i = j
      <3> SUFFICES ASSUME NEW i \in 1 .. Capacity, NEW j \in 1 .. Capacity, i - 1 = j - 1 PROVE i = j
        BY <2>1
      <3> QED  OBVIOUS
    <2>3. \A n \in Nodes : OnFree(n)
      <3> SUFFICES ASSUME NEW n \in Nodes PROVE OnFree(n)
        OBVIOUS
      <3>1. n + 1 \in 1 .. Capacity /\ (n + 1) - 1 = n
        BY <1>1
      <3> QED  BY <2>1, <3>1 DEF OnFree
    <2>4. \A t \in Threads, n \in Nodes : ~InHandOf(t, n)
      BY <1>3 DEF InHandOf, Hands
    <2>5. \A n \in Nodes : Loose(n)
      BY <2>3, LooseIs
    <2>6. \A b \in Buckets, n \in Nodes : n \notin C[b]
      OBVIOUS
    <2> HIDE DEF C
    <2> QED  BY <2>2, <2>4, <2>5, <2>6 DEF Accounted
  <1>6. ASSUME NEW k \in Keys PROVE KeyOK(C, k)
    <2>1. Hash[k] \in Buckets /\ state[Hash[k]] = 0 /\ overflow[k] = 0 /\ stored[k] = 0
          /\ C[Hash[k]] = {}
      BY DEF MapInit
    <2>2. Due(k) = 0
      <3>1. at[Owner[k]].key # k
        BY <1>3
      <3> QED  BY <2>1, <3>1 DEF Due
    <2> HIDE DEF C
    <2> QED  BY <2>1, <2>2 DEF KeyOK
  <1>7. \A t \in Threads : CallOK(C, r, t, at[t])
    BY <1>3 DEF CallOK
  <1>8. OneConverts /\ CallsCounted /\ exact
    BY <1>3 DEF OneConverts, CallsCounted, MapInit
  <1> HIDE DEF C, r
  <1>9. MapOK(C, r, 0)
    BY <1>2, <1>4, <1>5, <1>6, <1>7, <1>8 DEF MapOK
  <1> QED  BY <1>9

----------------------------------------------------------------------------
(* Steps that change nothing but where the thread is.                      *)
MovesTo(t, a) == a \in CallFields /\ at' = [at EXCEPT ![t] = a]

(* A thread's step changes its own locals only.                            *)
LEMMA MovedAt ==
  ASSUME MapTypes, NEW t \in Threads, NEW a, MovesTo(t, a)
  PROVE  at' \in [Threads -> CallFields] /\ \A u \in Threads : at'[u] = IF u = t THEN a ELSE at[u]
  BY DEF MapTypes, MovesTo

LocalStep(t, a) ==
  /\ MovesTo(t, a) /\ UNCHANGED <<node, head, free, state, overflow, lock, stored>>
  /\ calls' \in [Threads -> Nat] /\ \A u \in Threads : u # t => calls'[u] = calls[u]
  /\ a.pc # "idle" => calls'[t] > 0
  /\ a.pc \notin {"lock", "copy", "count", "release"} /\ at[t].pc \notin {"count", "release"}
  /\ a.pc \in Hands <=> at[t].pc \in Hands
  /\ a.pc \in Hands => a.idx = at[t].idx

(* A local step keeps everything the step does not read.                   *)
LEMMA LocalKeeps ==
  ASSUME NEW C, NEW r, NEW low, MapOK(C, r, low), NEW t \in Threads, NEW a, LocalStep(t, a),
         CallOK(C, r, t, a), exact'
  PROVE  MapOK(C, r, low)'
  <1>1. MapTypes /\ OneConverts /\ CallsCounted /\ Chains(C, r, low) /\ Accounted(C)
        /\ (\A k \in Keys : KeyOK(C, k)) /\ (\A u \in Threads : CallOK(C, r, u, at[u]))
    BY DEF MapOK
  <1>2. UNCHANGED <<node, head, free, state, overflow, lock, stored>>
    BY DEF LocalStep
  <1>3. at' \in [Threads -> CallFields] /\ \A u \in Threads : at'[u] = IF u = t THEN a ELSE at[u]
    BY <1>1, MovedAt DEF LocalStep
  <1>4. MapTypes'
    BY <1>1, <1>2, <1>3 DEF MapTypes, LocalStep
  <1>5. OneConverts'
    BY <1>1, <1>3 DEF OneConverts, LocalStep
  <1>6. CallsCounted'
    BY <1>1, <1>3 DEF CallsCounted, LocalStep
  <1>7. Chains(C, r, low)'
    BY <1>1, <1>2 DEF Chains
  <1>8. \A u \in Threads : \A n : InHandOf(u, n)' <=> InHandOf(u, n)
    BY <1>3 DEF InHandOf, LocalStep
  <1>9. \A n : OnFree(n)' <=> OnFree(n)
    BY <1>2 DEF OnFree
  <1>10. \A n : Loose(n)' <=> Loose(n)
    <2>1. \A n : Loose(n)' <=> OnFree(n)' \/ \E u \in Threads : InHandOf(u, n)'
      BY DEF Loose, OnFree, InHandOf, Hands
    <2> QED  BY <1>8, <1>9, <2>1, LooseIs
  <1>11. Accounted(C)'
    BY <1>1, <1>2, <1>8, <1>9, <1>10 DEF Accounted
  <1>12. \A k \in Keys : Due(k)' = Due(k)
    <2> SUFFICES ASSUME NEW k \in Keys PROVE Due(k)' = Due(k)
      OBVIOUS
    <2>1. Owner[k] \in Threads
      BY MapAssumption
    <2>2. CASE Owner[k] = t
      <3>1. at[t].pc \notin {"count", "release"} /\ at'[t].pc \notin {"count", "release"}
        BY <1>3 DEF LocalStep
      <3> QED  BY <1>2, <2>2, <3>1 DEF Due
    <2>3. CASE Owner[k] # t
      <3>1. at'[Owner[k]] = at[Owner[k]]
        BY <1>3, <2>1, <2>3
      <3> QED  BY <1>2, <3>1 DEF Due
    <2> QED  BY <2>2, <2>3
  <1>13. \A k \in Keys : KeyOK(C, k)'
    BY <1>1, <1>2, <1>12 DEF KeyOK, Absent
  <1>14. ASSUME NEW u \in Threads PROVE CallOK(C, r, u, at[u])'
    <2>1. \A c : CallOK(C, r, u, c) => CallOK(C, r, u, c)'
      BY <1>2 DEF CallOK, Consistent, Absent, AtOrBehind, Behind
    <2>2. PICK c : c = at'[u]
      OBVIOUS
    <2>3. CallOK(C, r, u, c)
      BY <1>1, <1>3, <2>2
    <2>4. CallOK(C, r, u, c)'
      BY <2>1, <2>3
    <2> QED  BY <2>2, <2>4 DEF CallOK
  <1> QED  BY <1>4, <1>5, <1>6, <1>7, <1>11, <1>13, <1>14 DEF MapOK

----------------------------------------------------------------------------
(* The fields after a step.                                                *)
Fits(t, a, l, th, i, n, x) ==
  /\ MovesTo(t, a)
  /\ a.pc = l /\ a.key = at[t].key /\ a.then = th /\ a.idx = i /\ a.next = n /\ a.nxt = x

(* The fields of a call have their types.                                  *)
LEMMA CallTypes ==
  ASSUME MapTypes, NEW t \in Threads
  PROVE  /\ at[t] \in CallFields /\ at[t].pc \in MapPlaces /\ at[t].key \in Keys \cup {NoKey}
         /\ at[t].then \in {"idle", "put"} /\ at[t].idx \in Slot /\ at[t].next \in Slot
         /\ at[t].nxt \in Slot
  <1>1. at[t] \in CallFields
    BY DEF MapTypes
  <1> QED  BY <1>1 DEF CallFields

Fields(c, d, l, th, i, n, x) ==
  d \in CallFields /\ d.pc = l /\ d.key = c.key /\ d.then = th /\ d.idx = i /\ d.next = n /\ d.nxt = x

(* Setting one field.                                                      *)
LEMMA FieldSet ==
  ASSUME NEW c \in CallFields
  PROVE  /\ \A l \in MapPlaces : Fields(c, [c EXCEPT !.pc = l], l, c.then, c.idx, c.next, c.nxt)
         /\ \A th \in {"idle", "put"} : Fields(c, [c EXCEPT !.then = th], c.pc, th, c.idx, c.next, c.nxt)
         /\ \A i \in Slot : Fields(c, [c EXCEPT !.idx = i], c.pc, c.then, i, c.next, c.nxt)
         /\ \A n \in Slot : Fields(c, [c EXCEPT !.next = n], c.pc, c.then, c.idx, n, c.nxt)
         /\ \A x \in Slot : Fields(c, [c EXCEPT !.nxt = x], c.pc, c.then, c.idx, c.next, x)
  <1>1. \A l \in MapPlaces : Fields(c, [c EXCEPT !.pc = l], l, c.then, c.idx, c.next, c.nxt)
    BY DEF Fields, CallFields
  <1>2. \A th \in {"idle", "put"} : Fields(c, [c EXCEPT !.then = th], c.pc, th, c.idx, c.next, c.nxt)
    BY DEF Fields, CallFields
  <1>3. \A i \in Slot : Fields(c, [c EXCEPT !.idx = i], c.pc, c.then, i, c.next, c.nxt)
    BY DEF Fields, CallFields
  <1>4. \A n \in Slot : Fields(c, [c EXCEPT !.next = n], c.pc, c.then, c.idx, n, c.nxt)
    BY DEF Fields, CallFields
  <1>5. \A x \in Slot : Fields(c, [c EXCEPT !.nxt = x], c.pc, c.then, c.idx, c.next, x)
    BY DEF Fields, CallFields
  <1> QED  BY <1>1, <1>2, <1>3, <1>4, <1>5

(* A step that sets locals to values of their types.                       *)
LEMMA FitsFields ==
  ASSUME MapTypes, NEW t \in Threads, NEW d, NEW l, NEW th, NEW i, NEW n, NEW x,
         Fields(at[t], d, l, th, i, n, x), at' = [at EXCEPT ![t] = d]
  PROVE  \E a : Fits(t, a, l, th, i, n, x)
  BY DEF Fits, MovesTo, Fields

(* A step that only moves on.                                              *)
LEMMA FitsGoto ==
  ASSUME MapTypes, NEW t \in Threads, NEW l \in MapPlaces, Goto(t, l)
  PROVE  \E a : Fits(t, a, l, at[t].then, at[t].idx, at[t].next, at[t].nxt)
  <1>1. at' = [at EXCEPT ![t] = [at[t] EXCEPT !.pc = l]]
    BY DEF Goto
  <1>2. Fields(at[t], [at[t] EXCEPT !.pc = l], l, at[t].then, at[t].idx, at[t].next, at[t].nxt)
    BY CallTypes, FieldSet
  <1> QED  BY <1>1, <1>2, FitsFields

(* A step that only takes another node.                                    *)
LEMMA FitsOnlyIdx ==
  ASSUME MapTypes, NEW t \in Threads, NEW i \in Slot, at' = [at EXCEPT ![t].idx = i]
  PROVE  \E a : Fits(t, a, at[t].pc, at[t].then, i, at[t].next, at[t].nxt)
  <1>1. at' = [at EXCEPT ![t] = [at[t] EXCEPT !.idx = i]]
    BY DEF MapTypes
  <1>2. Fields(at[t], [at[t] EXCEPT !.idx = i], at[t].pc, at[t].then, i, at[t].next, at[t].nxt)
    BY CallTypes, FieldSet
  <1> QED  BY <1>1, <1>2, FitsFields

(* A step that moves on and notes where to return.                         *)
LEMMA FitsThen ==
  ASSUME MapTypes, NEW t \in Threads, NEW l \in MapPlaces, NEW th \in {"idle", "put"},
         at' = [at EXCEPT ![t].pc = l, ![t].then = th]
  PROVE  \E a : Fits(t, a, l, th, at[t].idx, at[t].next, at[t].nxt)
  <1> DEFINE c == at[t]
             d == [c EXCEPT !.pc = l]
             e == [d EXCEPT !.then = th]
  <1>1. at' = [at EXCEPT ![t] = e]
    BY DEF MapTypes
  <1>2. c \in CallFields
    BY CallTypes
  <1> HIDE DEF c
  <1>3. Fields(c, d, l, c.then, c.idx, c.next, c.nxt)
    BY <1>2, FieldSet
  <1> HIDE DEF d
  <1>4. Fields(d, e, d.pc, th, d.idx, d.next, d.nxt)
    BY <1>3, FieldSet DEF Fields
  <1> HIDE DEF e
  <1>5. Fields(c, e, l, th, c.idx, c.next, c.nxt)
    BY <1>3, <1>4 DEF Fields
  <1>6. Fields(at[t], e, l, th, at[t].idx, at[t].next, at[t].nxt)
    BY <1>5 DEF c
  <1> QED  BY <1>1, <1>6, FitsFields

(* A step that moves on with another node in hand.                         *)
LEMMA FitsIdx ==
  ASSUME MapTypes, NEW t \in Threads, NEW l \in MapPlaces, NEW i \in Slot,
         at' = [at EXCEPT ![t].pc = l, ![t].idx = i]
  PROVE  \E a : Fits(t, a, l, at[t].then, i, at[t].next, at[t].nxt)
  <1> DEFINE c == at[t]
             d == [c EXCEPT !.pc = l]
             e == [d EXCEPT !.idx = i]
  <1>1. at' = [at EXCEPT ![t] = e]
    BY DEF MapTypes
  <1>2. c \in CallFields
    BY CallTypes
  <1> HIDE DEF c
  <1>3. Fields(c, d, l, c.then, c.idx, c.next, c.nxt)
    BY <1>2, FieldSet
  <1> HIDE DEF d
  <1>4. Fields(d, e, d.pc, d.then, i, d.next, d.nxt)
    BY <1>3, FieldSet DEF Fields
  <1> HIDE DEF e
  <1>5. Fields(c, e, l, c.then, i, c.next, c.nxt)
    BY <1>3, <1>4 DEF Fields
  <1>6. Fields(at[t], e, l, at[t].then, i, at[t].next, at[t].nxt)
    BY <1>5 DEF c
  <1> QED  BY <1>1, <1>6, FitsFields

(* A step that moves on with another successor.                            *)
LEMMA FitsNext ==
  ASSUME MapTypes, NEW t \in Threads, NEW l \in MapPlaces, NEW n \in Slot,
         at' = [at EXCEPT ![t].pc = l, ![t].next = n]
  PROVE  \E a : Fits(t, a, l, at[t].then, at[t].idx, n, at[t].nxt)
  <1> DEFINE c == at[t]
             d == [c EXCEPT !.pc = l]
             e == [d EXCEPT !.next = n]
  <1>1. at' = [at EXCEPT ![t] = e]
    BY DEF MapTypes
  <1>2. c \in CallFields
    BY CallTypes
  <1> HIDE DEF c
  <1>3. Fields(c, d, l, c.then, c.idx, c.next, c.nxt)
    BY <1>2, FieldSet
  <1> HIDE DEF d
  <1>4. Fields(d, e, d.pc, d.then, d.idx, n, d.nxt)
    BY <1>3, FieldSet DEF Fields
  <1> HIDE DEF e
  <1>5. Fields(c, e, l, c.then, c.idx, n, c.nxt)
    BY <1>3, <1>4 DEF Fields
  <1>6. Fields(at[t], e, l, at[t].then, at[t].idx, n, at[t].nxt)
    BY <1>5 DEF c
  <1> QED  BY <1>1, <1>6, FitsFields

(* A step that moves on with another link.                                 *)
LEMMA FitsNxt ==
  ASSUME MapTypes, NEW t \in Threads, NEW l \in MapPlaces, NEW x \in Slot,
         at' = [at EXCEPT ![t].pc = l, ![t].nxt = x]
  PROVE  \E a : Fits(t, a, l, at[t].then, at[t].idx, at[t].next, x)
  <1> DEFINE c == at[t]
             d == [c EXCEPT !.pc = l]
             e == [d EXCEPT !.nxt = x]
  <1>1. at' = [at EXCEPT ![t] = e]
    BY DEF MapTypes
  <1>2. c \in CallFields
    BY CallTypes
  <1> HIDE DEF c
  <1>3. Fields(c, d, l, c.then, c.idx, c.next, c.nxt)
    BY <1>2, FieldSet
  <1> HIDE DEF d
  <1>4. Fields(d, e, d.pc, d.then, d.idx, d.next, x)
    BY <1>3, FieldSet DEF Fields
  <1> HIDE DEF e
  <1>5. Fields(c, e, l, c.then, c.idx, c.next, x)
    BY <1>3, <1>4 DEF Fields
  <1>6. Fields(at[t], e, l, at[t].then, at[t].idx, at[t].next, x)
    BY <1>5 DEF c
  <1> QED  BY <1>1, <1>6, FitsFields

(* A call that returns knows nothing any more.                             *)
LEMMA FitsReturn ==
  ASSUME MapTypes, NEW t \in Threads, Return(t)
  PROVE  \E a : MovesTo(t, a) /\ a.pc = "idle" /\ a.key = NoKey /\ a.idx = Nil
  <1>1. Idle \in CallFields /\ Idle.pc = "idle" /\ Idle.key = NoKey /\ Idle.idx = Nil
    BY MapAssumption DEF Idle, CallFields, MapPlaces, Slot, Nil
  <1> QED  BY <1>1 DEF Return, MovesTo


----------------------------------------------------------------------------
(* What a thread inside a call knows.                                      *)
LEMMA InCall ==
  ASSUME NEW C, NEW r, NEW low, MapOK(C, r, low), NEW t \in Threads, at[t].pc # "idle"
  PROVE  /\ Key(t) \in Keys /\ B(t) \in Buckets /\ B(t) = Hash[Key(t)] /\ Owner[Key(t)] = t
         /\ MapTypes /\ exact /\ calls[t] > 0 /\ calls[t] \in Nat
         /\ CallOK(C, r, t, at[t]) /\ KeyOK(C, Key(t))
         /\ C[B(t)] \subseteq Nodes /\ Nil \notin C[B(t)] /\ Nil \notin Nodes
         /\ \A n \in C[B(t)] : r[n] \in Int
         /\ stored[Key(t)] \in Nat
  <1>1. Key(t) \in Keys /\ Owner[Key(t)] = t /\ CallOK(C, r, t, at[t])
    BY DEF MapOK, CallOK, Key
  <1>2. Hash[Key(t)] \in Buckets
    BY <1>1, MapAssumption
  <1>3. C \in [Buckets -> SUBSET Nodes] /\ r \in [Nodes -> Int]
    BY DEF MapOK, Chains
  <1>4. Nil \notin Nodes
    BY MapAssumption DEF Nil, Nodes
  <1>5. MapTypes /\ exact /\ CallsCounted /\ KeyOK(C, Key(t))
    BY <1>1 DEF MapOK
  <1> QED  BY <1>1, <1>2, <1>3, <1>4, <1>5 DEF B, Key, CallsCounted, MapTypes

(* A local step of a call already begun.                                   *)
LEMMA CallMoves ==
  ASSUME NEW C, NEW r, NEW low, MapOK(C, r, low), NEW t \in Threads, NEW a,
         MovesTo(t, a), UNCHANGED <<node, head, free, state, overflow, lock, stored, calls>>,
         at[t].pc \notin {"idle", "count", "release"} ,
         a.pc \notin {"lock", "copy", "count", "release"},
         a.pc \in Hands <=> at[t].pc \in Hands, a.pc \in Hands => a.idx = at[t].idx,
         CallOK(C, r, t, a), exact'
  PROVE  MapOK(C, r, low)'
  <1>1. LocalStep(t, a)
    BY InCall DEF LocalStep, MapTypes
  <1> QED  BY <1>1, LocalKeeps

(* A local step that ends the call.                                        *)
LEMMA CallEnds ==
  ASSUME NEW C, NEW r, NEW low, MapOK(C, r, low), NEW t \in Threads, Return(t),
         UNCHANGED <<node, head, free, state, overflow, lock, stored, calls>>,
         at[t].pc \notin {"idle", "count", "release"} \cup Hands, exact'
  PROVE  MapOK(C, r, low)'
  <1>1. PICK a : MovesTo(t, a) /\ a.pc = "idle" /\ a.key = NoKey /\ a.idx = Nil
    BY InCall, FitsReturn
  <1>2. CallOK(C, r, t, a)
    BY <1>1 DEF CallOK
  <1> QED  BY <1>1, <1>2, CallMoves DEF Hands

(* A call begins.                                                          *)
LEMMA CallKeeps ==
  ASSUME NEW C, NEW r, NEW low, MapOK(C, r, low), NEW t \in Threads, NEW k \in Keys,
         NEW op \in {"insert", "find", "erase"}, Call(t, k, op)
  PROVE  MapOK(C, r, low)'
  <1> DEFINE a == [pc |-> op, key |-> k, then |-> "idle", idx |-> Nil, next |-> Nil, nxt |-> Nil]
  <1>1. a \in CallFields /\ a.pc = op /\ a.key = k
    BY MapAssumption DEF CallFields, MapPlaces, Slot, Nil
  <1>2. at' = [at EXCEPT ![t] = a]
    <2>1. [Idle EXCEPT !.pc = op] =
            [pc |-> op, key |-> NoKey, then |-> "idle", idx |-> Nil, next |-> Nil, nxt |-> Nil]
      BY DEF Idle
    <2>2. [[pc |-> op, key |-> NoKey, then |-> "idle", idx |-> Nil, next |-> Nil, nxt |-> Nil]
             EXCEPT !.key = k] = a
      OBVIOUS
    <2>3. [Idle EXCEPT !.pc = op, !.key = k] = [[Idle EXCEPT !.pc = op] EXCEPT !.key = k]
      OBVIOUS
    <2>4. [Idle EXCEPT !.pc = op, !.key = k] = a
      BY <2>1, <2>2, <2>3, Zenon
    <2> HIDE DEF a
    <2> QED  BY <2>4, Zenon DEF Call
  <1> HIDE DEF a
  <1>3. MapTypes /\ exact'
    BY DEF MapOK, Call
  <1>4. calls' \in [Threads -> Nat] /\ calls'[t] > 0 /\ \A u \in Threads : u # t => calls'[u] = calls[u]
    BY <1>3 DEF MapTypes, Call
  <1>5. LocalStep(t, a)
    BY <1>1, <1>2, <1>4 DEF LocalStep, MovesTo, Call, At, shared, Hands
  <1>6. CallOK(C, r, t, a)
    BY <1>1 DEF CallOK, Call, Inserting, Walking, Hands
  <1> QED  BY <1>3, <1>5, <1>6, LocalKeeps

(* The gate of insert.                                                     *)
LEMMA InsertGateKeeps ==
  ASSUME NEW C, NEW r, NEW low, MapOK(C, r, low), NEW t \in Threads, InsertGate(t)
  PROVE  MapOK(C, r, low)'
  <1>1. at[t].pc = "insert" /\ exact' = exact
        /\ UNCHANGED <<node, head, free, state, overflow, lock, stored, calls>>
    BY DEF InsertGate, At, shared, history
  <1>2. MapTypes /\ exact /\ CallOK(C, r, t, at[t])
    BY <1>1, InCall
  <1>3. PICK l \in {"put", "convert", "alloc"} :
          at' = [at EXCEPT ![t].pc = l, ![t].then = "put"] /\ (l = "put" => state[B(t)] # 0)
    BY DEF InsertGate
  <1>4. PICK a : Fits(t, a, l, "put", at[t].idx, at[t].next, at[t].nxt)
    BY <1>2, <1>3, FitsThen DEF MapPlaces
  <1>5. CallOK(C, r, t, a)
    BY <1>1, <1>2, <1>3, <1>4 DEF CallOK, Fits, Inserting, Walking, Hands, B
  <1> QED  BY <1>1, <1>2, <1>3, <1>4, <1>5, CallMoves DEF Fits, Hands

(* The length test after an insert.                                        *)
LEMMA InsertLengthKeeps ==
  ASSUME NEW C, NEW r, NEW low, MapOK(C, r, low), NEW t \in Threads, InsertLength(t)
  PROVE  MapOK(C, r, low)'
  <1>1. at[t].pc = "length" /\ exact' = exact
        /\ UNCHANGED <<node, head, free, state, overflow, lock, stored, calls>>
    BY DEF InsertLength, At, shared, history
  <1>2. MapTypes /\ exact /\ CallOK(C, r, t, at[t])
    BY <1>1, InCall
  <1>3. CASE Return(t)
    BY <1>1, <1>2, <1>3, CallEnds DEF Hands
  <1>4. CASE at' = [at EXCEPT ![t].pc = "convert", ![t].then = "idle"]
    <2>1. PICK a : Fits(t, a, "convert", "idle", at[t].idx, at[t].next, at[t].nxt)
      BY <1>2, <1>4, FitsThen DEF MapPlaces
    <2>2. CallOK(C, r, t, a)
      BY <1>1, <1>2, <2>1 DEF CallOK, Fits, Inserting, Walking, Hands, B
    <2> QED  BY <1>1, <1>2, <2>1, <2>2, CallMoves DEF Fits, Hands
  <1> QED  BY <1>3, <1>4 DEF InsertLength

(* Another thread has won the conversion: the order goes to the overflow   *)
(* map.                                                                    *)
LEMMA AfterTreeifyKeeps ==
  ASSUME NEW C, NEW r, NEW low, MapOK(C, r, low), NEW t \in Threads, at[t].pc = "convert",
         state[B(t)] # 0, AfterTreeify(t),
         UNCHANGED <<node, head, free, state, overflow, lock, stored, calls, exact>>
  PROVE  MapOK(C, r, low)'
  <1>1. MapTypes /\ exact /\ CallOK(C, r, t, at[t])
    BY InCall
  <1>2. CASE Return(t)
    BY <1>1, <1>2, CallEnds DEF Hands
  <1>3. CASE at[t].then = "put" /\ Goto(t, "put")
    <2>1. PICK a : Fits(t, a, "put", at[t].then, at[t].idx, at[t].next, at[t].nxt)
      BY <1>1, <1>3, FitsGoto DEF MapPlaces
    <2>2. CallOK(C, r, t, a)
      BY <1>1, <1>3, <2>1 DEF CallOK, Fits, Inserting, Walking, Hands, B
    <2> QED  BY <1>1, <2>1, <2>2, CallMoves DEF Fits, Hands
  <1> QED  BY <1>2, <1>3 DEF AfterTreeify

(* With the chain still in use, it says what is stored.                    *)
LEMMA ChainSays ==
  ASSUME NEW C, NEW r, NEW low, MapOK(C, r, low), NEW t \in Threads,
         at[t].pc \notin {"idle", "count", "release"}, state[B(t)] = 0
  PROVE  Consistent(C, Key(t))
  <1>1. Due(Key(t)) = stored[Key(t)]
    BY InCall DEF Due, Key
  <1> QED  BY <1>1, InCall DEF KeyOK, Consistent

(* The gate of find: while the chain is in use it says what is stored.     *)
LEMMA FindGateKeeps ==
  ASSUME NEW C, NEW r, NEW low, MapOK(C, r, low), NEW t \in Threads, FindGate(t)
  PROVE  MapOK(C, r, low)'
  <1>1. at[t].pc = "find" /\ exact' = exact
        /\ UNCHANGED <<node, head, free, state, overflow, lock, stored, calls>>
    BY DEF FindGate, At, shared, history
  <1>2. MapTypes /\ exact /\ CallOK(C, r, t, at[t])
    BY <1>1, InCall
  <1>3. PICK l \in {"get", "find_head"} :
          Goto(t, l) /\ (l = "get" <=> state[B(t)] # 0)
    BY DEF FindGate
  <1>4. PICK a : Fits(t, a, l, at[t].then, at[t].idx, at[t].next, at[t].nxt)
    BY <1>2, <1>3, FitsGoto DEF MapPlaces
  <1>5. l = "find_head" => Consistent(C, Key(t))
    BY <1>1, <1>3, ChainSays
  <1>6. CallOK(C, r, t, a)
    BY <1>1, <1>2, <1>3, <1>4, <1>5 DEF CallOK, Fits, Inserting, Walking, Hands, B, Key
  <1> QED  BY <1>1, <1>2, <1>3, <1>4, <1>6, CallMoves DEF Fits, Hands

(* The gate of erase.                                                      *)
LEMMA EraseGateKeeps ==
  ASSUME NEW C, NEW r, NEW low, MapOK(C, r, low), NEW t \in Threads, EraseGate(t)
  PROVE  MapOK(C, r, low)'
  <1>1. at[t].pc = "erase" /\ exact' = exact
        /\ UNCHANGED <<node, head, free, state, overflow, lock, stored, calls>>
    BY DEF EraseGate, At, shared, history
  <1>2. MapTypes /\ exact /\ CallOK(C, r, t, at[t])
    BY <1>1, InCall
  <1>3. PICK l \in {"del", "erase_head"} :
          Goto(t, l) /\ (l = "del" <=> state[B(t)] # 0)
    BY DEF EraseGate
  <1>4. PICK a : Fits(t, a, l, at[t].then, at[t].idx, at[t].next, at[t].nxt)
    BY <1>2, <1>3, FitsGoto DEF MapPlaces
  <1>5. l = "erase_head" => Consistent(C, Key(t))
    BY <1>1, <1>3, ChainSays
  <1>6. CallOK(C, r, t, a)
    BY <1>1, <1>2, <1>3, <1>4, <1>5 DEF CallOK, Fits, Inserting, Walking, Hands, B, Key
  <1> QED  BY <1>1, <1>2, <1>3, <1>4, <1>6, CallMoves DEF Fits, Hands

(* A find in the overflow map, which holds what is stored once the copy is *)
(* done.                                                                   *)
LEMMA FindOverflowKeeps ==
  ASSUME NEW C, NEW r, NEW low, MapOK(C, r, low), NEW t \in Threads, FindOverflow(t), ~strayed'
  PROVE  MapOK(C, r, low)'
  <1>1. at[t].pc = "get" /\ Return(t) /\ exact' = (exact /\ overflow[Key(t)] = stored[Key(t)])
        /\ state[B(t)] # 1
        /\ UNCHANGED <<node, head, free, state, overflow, lock, stored, calls>>
    BY DEF FindOverflow, At, shared, Answer
  <1>2. exact /\ state[B(t)] # 0 /\ state[B(t)] \in 0 .. 2
    BY <1>1, InCall DEF CallOK, MapTypes, B
  <1>3. Due(Key(t)) = stored[Key(t)]
    BY <1>1, InCall DEF Due, Key
  <1>4. overflow[Key(t)] = stored[Key(t)]
    <2>1. state[B(t)] = 2
      BY <1>1, <1>2
    <2> QED  BY <1>1, <1>3, <2>1, InCall DEF KeyOK
  <1> QED  BY <1>1, <1>2, <1>4, CallEnds DEF Hands


(* The first node of a chain, and the one after n.                         *)
LEMMA FirstOf ==
  ASSUME NEW C, NEW r, NEW low, MapOK(C, r, low), NEW b \in Buckets
  PROVE  \/ head[b] = Nil /\ C[b] = {}
         \/ head[b] \in C[b] /\ head[b] \in Nodes /\ \A m \in C[b] : r[head[b]] <= r[m]
  <1>1. IsFirst(C[b], r, head[b]) /\ C[b] \subseteq Nodes
    BY DEF MapOK, Chains
  <1> QED  BY <1>1 DEF IsFirst

(* The link of a chain's node is Nil at the end, or a node of higher       *)
(* rank.                                                                   *)
LEMMA AfterOf ==
  ASSUME NEW C, NEW r, NEW low, MapOK(C, r, low), NEW b \in Buckets, NEW n \in C[b]
  PROVE  \/ node[n].next = Nil /\ \A m \in C[b] : r[m] <= r[n]
         \/ /\ node[n].next \in C[b] /\ node[n].next \in Nodes
            /\ \A m \in C[b] : r[m] <= r[n] \/ r[node[n].next] <= r[m]
  <1>1. IsAfter(C[b], r, n, node[n].next) /\ C[b] \subseteq Nodes
    BY DEF MapOK, Chains
  <1> QED  BY <1>1 DEF IsAfter

(* A rank, and a key, occurs once in a chain.                              *)
LEMMA RankIsUnique ==
  ASSUME NEW C, NEW r, NEW low, MapOK(C, r, low), NEW b \in Buckets, NEW n \in C[b], NEW m \in C[b],
         r[m] = r[n] \/ node[m].ref = node[n].ref
  PROVE  m = n
  BY DEF MapOK, Chains

(* A node with another key at or before which the key cannot be has it     *)
(* strictly behind.                                                        *)
LEMMA OtherKey ==
  ASSUME NEW C, NEW r, NEW low, MapOK(C, r, low), NEW k \in Keys, NEW n \in C[Hash[k]],
         AtOrBehind(C, r, k, n), node[n].ref # k
  PROVE  Behind(C, r, k, n)
  <1>1. Hash[k] \in Buckets
    BY MapAssumption
  <1>2. \A m \in C[Hash[k]] : r[m] \in Int
    BY <1>1 DEF MapOK, Chains
  <1>3. SUFFICES ASSUME NEW m \in C[Hash[k]], node[m].ref = k PROVE r[n] < r[m]
    BY DEF Behind
  <1>4. r[n] <= r[m]
    BY <1>3 DEF AtOrBehind
  <1>5. r[n] # r[m]
    BY <1>1, <1>3, RankIsUnique
  <1> QED  BY <1>2, <1>4, <1>5

(* A node that is not loose is in the chain its bucket field names.        *)
LEMMA NotLoose ==
  ASSUME NEW C, NEW r, NEW low, MapOK(C, r, low), NEW n \in Nodes, ~Loose(n)
  PROVE  n \in C[node[n].bucket]
  <1>1. PICK b \in Buckets : n \in C[b]
    BY DEF MapOK, Accounted
  <1>2. node[n].bucket = b
    BY <1>1 DEF MapOK, Chains
  <1> QED  BY <1>1, <1>2

(* A walk starts at the head: its key can only be there or behind.         *)
LEMMA FindHeadKeeps ==
  ASSUME NEW C, NEW r, NEW low, MapOK(C, r, low), NEW t \in Threads, FindHead(t)
  PROVE  MapOK(C, r, low)'
  <1>1. at[t].pc = "find_head" /\ exact' = exact
        /\ UNCHANGED <<node, head, free, state, overflow, lock, stored, calls>>
    BY DEF FindHead, At, shared, history
  <1>2. MapTypes /\ exact /\ CallOK(C, r, t, at[t]) /\ head[B(t)] \in Slot
    BY <1>1, InCall DEF MapTypes
  <1>3. PICK a : Fits(t, a, "find_test", at[t].then, head[B(t)], at[t].next, at[t].nxt)
    BY <1>2, FitsIdx DEF MapPlaces, FindHead
  <1>4. /\ head[B(t)] = Nil => Absent(C, Key(t))
        /\ head[B(t)] \in C[B(t)] => AtOrBehind(C, r, Key(t), head[B(t)])
        /\ head[B(t)] # Nil => head[B(t)] \in C[B(t)]
    BY <1>1, InCall, FirstOf DEF Absent, AtOrBehind
  <1>5. CallOK(C, r, t, a)
    BY <1>1, <1>2, <1>3, <1>4 DEF CallOK, Fits, Inserting, Walking, Hands, B, Key
  <1> QED  BY <1>1, <1>2, <1>3, <1>5, CallMoves DEF Fits, Hands

(* The node of a walk is tested: its answer is what is stored.             *)
LEMMA FindTestKeeps ==
  ASSUME NEW C, NEW r, NEW low, MapOK(C, r, low), NEW t \in Threads, FindTest(t), ~strayed'
  PROVE  MapOK(C, r, low)'
  <1>1. at[t].pc = "find_test"
        /\ UNCHANGED <<node, head, free, state, overflow, lock, stored, calls>>
    BY DEF FindTest, At, shared
  <1>2. MapTypes /\ exact /\ CallOK(C, r, t, at[t]) /\ at[t].idx \in Slot /\ Consistent(C, Key(t))
    BY <1>1, InCall, CallTypes DEF CallOK, Walking, Key
  <1> DEFINE n == at[t].idx
  <1>3. CASE n = Nil
    <2>1. Answer(t, 0)
      BY <1>3 DEF FindTest
    <2>2. stored[Key(t)] = 0
      BY <1>1, <1>2, <1>3 DEF CallOK, Consistent, Key
    <2> QED  BY <1>1, <1>2, <2>1, <2>2, CallEnds DEF Answer, Hands
  <1>4. CASE n # Nil /\ Elsewhere(t, n)
    <2>1. Goto(t, "find_head") /\ exact' = exact
      BY <1>4 DEF FindTest
    <2>2. PICK a : Fits(t, a, "find_head", at[t].then, at[t].idx, at[t].next, at[t].nxt)
      BY <1>2, <2>1, FitsGoto DEF MapPlaces
    <2>3. CallOK(C, r, t, a)
      BY <1>1, <1>2, <2>2 DEF CallOK, Fits, Inserting, Walking, Hands, Key
    <2> QED  BY <1>1, <1>2, <2>1, <2>2, <2>3, CallMoves DEF Fits, Hands
  <1>5. CASE n # Nil /\ ~Elsewhere(t, n) /\ node[n].ref = Key(t)
    <2>1. Answer(t, node[n].order)
      BY <1>5 DEF FindTest
    <2>2. stored[Key(t)] = node[n].order
      BY <1>1, <1>2, <1>5 DEF CallOK, Consistent, Key
    <2> QED  BY <1>1, <1>2, <2>1, <2>2, CallEnds DEF Answer, Hands
  <1>6. CASE n # Nil /\ ~Elsewhere(t, n) /\ node[n].ref # Key(t)
    <2>1. Goto(t, "find_next") /\ exact' = exact /\ ~Loose(n)
      BY <1>6 DEF FindTest
    <2>2. n \in Nodes
      BY <1>2, <1>6, MapAssumption DEF Slot, Nil, Nodes
    <2>3. n \in C[B(t)]
      BY <1>6, <2>1, <2>2, NotLoose DEF Elsewhere
    <2>4. Behind(C, r, Key(t), n)
      <3>1. AtOrBehind(C, r, Key(t), n)
        BY <1>1, <1>2, <2>3 DEF CallOK, Key, B
      <3> QED  BY <1>1, <1>6, <2>3, <3>1, InCall, OtherKey
    <2>5. PICK a : Fits(t, a, "find_next", at[t].then, at[t].idx, at[t].next, at[t].nxt)
      BY <1>2, <2>1, FitsGoto DEF MapPlaces
    <2>6. CallOK(C, r, t, a)
      BY <1>1, <1>2, <2>3, <2>4, <2>5 DEF CallOK, Fits, Inserting, Walking, Hands, Key, B
    <2> QED  BY <1>1, <1>2, <2>1, <2>5, <2>6, CallMoves DEF Fits, Hands
  <1> QED  BY <1>3, <1>4, <1>5, <1>6

(* What a thread finds behind the node it stands on.                       *)
LEMMA NextOf ==
  ASSUME NEW C, NEW r, NEW low, MapOK(C, r, low), NEW k \in Keys, NEW n \in C[Hash[k]],
         Behind(C, r, k, n)
  PROVE  \/ node[n].next = Nil /\ Absent(C, k)
         \/ /\ node[n].next \in C[Hash[k]] /\ node[n].next \in Nodes
            /\ AtOrBehind(C, r, k, node[n].next)
  <1>1. Hash[k] \in Buckets
    BY MapAssumption
  <1>2. C[Hash[k]] \subseteq Nodes /\ \A m \in C[Hash[k]] : r[m] \in Int
    BY <1>1 DEF MapOK, Chains
  <1>3. \A m \in C[Hash[k]] : node[m].ref = k => ~(r[m] <= r[n])
    BY <1>2 DEF Behind
  <1> QED  BY <1>1, <1>3, AfterOf DEF Absent, AtOrBehind

(* The link is followed.                                                   *)
LEMMA FindNextKeeps ==
  ASSUME NEW C, NEW r, NEW low, MapOK(C, r, low), NEW t \in Threads, FindNext(t)
  PROVE  MapOK(C, r, low)'
  <1> DEFINE n == at[t].idx
             m == node[n].next
  <1>1. at[t].pc = "find_next" /\ exact' = exact
        /\ UNCHANGED <<node, head, free, state, overflow, lock, stored, calls>>
    BY DEF FindNext, At, shared, history
  <1>2. MapTypes /\ exact /\ CallOK(C, r, t, at[t])
    BY <1>1, InCall
  <1>3. n \in C[B(t)] /\ Behind(C, r, Key(t), n)
    BY <1>1, <1>2 DEF CallOK, B, Key
  <1>4. \/ m = Nil /\ Absent(C, Key(t))
        \/ m \in C[B(t)] /\ m \in Nodes /\ AtOrBehind(C, r, Key(t), m)
    BY <1>1, <1>3, InCall, NextOf
  <1>5. m \in Slot
    BY <1>4, MapAssumption DEF Slot, Nil, Nodes
  <1>6. PICK a : Fits(t, a, "find_test", at[t].then, m, at[t].next, at[t].nxt)
    BY <1>2, <1>5, FitsIdx DEF MapPlaces, FindNext
  <1>7. Nil \notin C[B(t)]
    BY <1>1, InCall
  <1> HIDE DEF m
  <1>8. CallOK(C, r, t, a)
    BY <1>1, <1>2, <1>4, <1>6, <1>7 DEF CallOK, Fits, Inserting, Walking, Hands, B, Key
  <1> QED  BY <1>1, <1>2, <1>6, <1>8, CallMoves DEF Fits, Hands


(* Back to the start of a walk.                                            *)
LEMMA RestartKeeps ==
  ASSUME NEW C, NEW r, NEW low, MapOK(C, r, low), NEW t \in Threads, Walking(at[t]),
         Goto(t, "erase_head"),
         UNCHANGED <<node, head, free, state, overflow, lock, stored, calls, exact>>
  PROVE  MapOK(C, r, low)'
  <1>1. at[t].pc \notin {"idle", "count", "release"} \cup Hands
    BY DEF Walking, Hands
  <1>2. MapTypes /\ exact /\ CallOK(C, r, t, at[t])
    BY <1>1, InCall
  <1>3. PICK a : Fits(t, a, "erase_head", at[t].then, at[t].idx, at[t].next, at[t].nxt)
    BY <1>2, FitsGoto DEF MapPlaces
  <1>4. CallOK(C, r, t, a)
    BY <1>1, <1>2, <1>3 DEF CallOK, Fits, Inserting, Walking, Hands
  <1> QED  BY <1>1, <1>2, <1>3, <1>4, CallMoves DEF Fits, Hands

(* Nothing to erase: nothing was stored.                                   *)
LEMMA NothingErased ==
  ASSUME NEW C, NEW r, NEW low, MapOK(C, r, low), NEW t \in Threads, Walking(at[t]),
         Absent(C, Key(t)), Erased(t),
         UNCHANGED <<node, head, free, state, overflow, lock, calls, exact>>
  PROVE  MapOK(C, r, low)'
  <1>1. at[t].pc \notin {"idle", "count", "release"} \cup Hands
    BY DEF Walking, Hands
  <1>2. MapTypes /\ exact /\ CallOK(C, r, t, at[t]) /\ Key(t) \in Keys
    BY <1>1, InCall
  <1>3. stored[Key(t)] = 0
    BY <1>1, <1>2 DEF CallOK, Consistent, Key
  <1>4. stored' = stored
    BY <1>2, <1>3 DEF Erased, MapTypes
  <1> QED  BY <1>1, <1>2, <1>4, CallEnds DEF Erased

(* erase looks at the head.                                                *)
LEMMA EraseHeadKeeps ==
  ASSUME NEW C, NEW r, NEW low, MapOK(C, r, low), NEW t \in Threads, EraseHead(t)
  PROVE  MapOK(C, r, low)'
  <1> DEFINE n == head[B(t)]
  <1>1. at[t].pc = "erase_head" /\ exact' = exact
        /\ UNCHANGED <<node, head, free, state, overflow, lock, calls>>
    BY DEF EraseHead, At, shared
  <1>2. MapTypes /\ exact /\ CallOK(C, r, t, at[t]) /\ n \in Slot /\ B(t) \in Buckets /\ Key(t) \in Keys
        /\ B(t) = Hash[Key(t)]
    BY <1>1, InCall DEF MapTypes
  <1>3. \/ n = Nil /\ C[B(t)] = {}
        \/ n \in C[B(t)] /\ n \in Nodes /\ \A m \in C[B(t)] : r[n] <= r[m]
    BY <1>2, FirstOf
  <1>4. n # Nil => AtOrBehind(C, r, Key(t), n)
    BY <1>2, <1>3 DEF AtOrBehind
  <1>5. CASE n = Nil
    <2>1. Erased(t) /\ Walking(at[t])
      BY <1>1, <1>5 DEF EraseHead, Walking
    <2>2. Absent(C, Key(t))
      BY <1>1, <1>2, <1>3, <1>5, InCall DEF Absent
    <2> QED  BY <1>1, <2>1, <2>2, NothingErased
  <1>6. CASE n # Nil /\ node[n].ref = Key(t)
    <2>1. at' = [at EXCEPT ![t].pc = "head_next", ![t].idx = n] /\ stored' = stored
      BY <1>6 DEF EraseHead
    <2>2. PICK a : Fits(t, a, "head_next", at[t].then, n, at[t].next, at[t].nxt)
      BY <1>2, <2>1, FitsIdx DEF MapPlaces
    <2>3. n \in C[B(t)]
      BY <1>3, <1>6
    <2> HIDE DEF n
    <2>4. CallOK(C, r, t, a)
      BY <1>1, <1>2, <1>6, <2>2, <2>3 DEF CallOK, Fits, Inserting, Walking, Hands, B, Key
    <2> QED  BY <1>1, <1>2, <2>1, <2>2, <2>4, CallMoves DEF Fits, Hands
  <1>7. CASE n # Nil /\ node[n].ref # Key(t)
    <2>1. at' = [at EXCEPT ![t].pc = "walk_test", ![t].idx = n] /\ stored' = stored
      BY <1>7 DEF EraseHead
    <2>2. PICK a : Fits(t, a, "walk_test", at[t].then, n, at[t].next, at[t].nxt)
      BY <1>2, <2>1, FitsIdx DEF MapPlaces
    <2>3. n \in C[B(t)] /\ n \in Nodes
      BY <1>3, <1>7
    <2>4. Behind(C, r, Key(t), n)
      BY <1>2, <1>4, <1>7, <2>3, OtherKey
    <2> HIDE DEF n
    <2>5. CallOK(C, r, t, a)
      BY <1>1, <1>2, <1>7, <2>2, <2>3, <2>4 DEF CallOK, Fits, Inserting, Walking, Hands, B, Key
    <2> QED  BY <1>1, <1>2, <2>1, <2>2, <2>5, CallMoves DEF Fits, Hands
  <1> QED  BY <1>5, <1>6, <1>7

(* erase reads the link of the first node.                                 *)
LEMMA HeadNextKeeps ==
  ASSUME NEW C, NEW r, NEW low, MapOK(C, r, low), NEW t \in Threads, HeadNext(t)
  PROVE  MapOK(C, r, low)'
  <1> DEFINE x == node[at[t].idx].next
  <1>1. at[t].pc = "head_next" /\ exact' = exact
        /\ UNCHANGED <<node, head, free, state, overflow, lock, stored, calls>>
    BY DEF HeadNext, At, shared, history
  <1>2. MapTypes /\ exact /\ CallOK(C, r, t, at[t]) /\ C[B(t)] \subseteq Nodes
    BY <1>1, InCall
  <1>3. at[t].idx \in Nodes
    BY <1>1, <1>2 DEF CallOK, B
  <1>4. x \in Slot
    BY <1>2, <1>3 DEF MapTypes, NodeFields
  <1>5. PICK a : Fits(t, a, "head_cas", at[t].then, at[t].idx, at[t].next, x)
    BY <1>2, <1>4, FitsNxt DEF MapPlaces, HeadNext
  <1> HIDE DEF x
  <1>6. CallOK(C, r, t, a)
    BY <1>1, <1>2, <1>5 DEF CallOK, Fits, Inserting, Walking, Hands
  <1> QED  BY <1>1, <1>2, <1>5, <1>6, CallMoves DEF Fits, Hands

(* The bucket of the node a removal walks past is tested.                  *)
LEMMA WalkTestKeeps ==
  ASSUME NEW C, NEW r, NEW low, MapOK(C, r, low), NEW t \in Threads, WalkTest(t), ~strayed'
  PROVE  MapOK(C, r, low)'
  <1> DEFINE n == at[t].idx
  <1>1. at[t].pc = "walk_test" /\ exact' = exact
        /\ UNCHANGED <<node, head, free, state, overflow, lock, stored, calls>>
    BY DEF WalkTest, At, shared, history
  <1>2. MapTypes /\ exact /\ CallOK(C, r, t, at[t])
    BY <1>1, InCall
  <1>3. CASE Elsewhere(t, n)
    BY <1>1, <1>3, RestartKeeps DEF WalkTest, Walking
  <1>4. CASE ~Elsewhere(t, n)
    <2>1. Goto(t, "walk_next") /\ ~Loose(n)
      BY <1>4 DEF WalkTest
    <2>2. n \in Nodes
      BY <1>1, <1>2 DEF CallOK
    <2>3. n \in C[B(t)]
      BY <1>4, <2>1, <2>2, NotLoose DEF Elsewhere
    <2>4. PICK a : Fits(t, a, "walk_next", at[t].then, at[t].idx, at[t].next, at[t].nxt)
      BY <1>2, <2>1, FitsGoto DEF MapPlaces
    <2>5. CallOK(C, r, t, a)
      BY <1>1, <1>2, <2>3, <2>4 DEF CallOK, Fits, Inserting, Walking, Hands, B
    <2> QED  BY <1>1, <1>2, <2>1, <2>4, <2>5, CallMoves DEF Fits, Hands
  <1> QED  BY <1>3, <1>4

(* A removal looks at the node behind.                                     *)
LEMMA WalkNextKeeps ==
  ASSUME NEW C, NEW r, NEW low, MapOK(C, r, low), NEW t \in Threads, WalkNext(t)
  PROVE  MapOK(C, r, low)'
  <1> DEFINE n == node[at[t].idx].next
  <1>1. at[t].pc = "walk_next" /\ exact' = exact
        /\ UNCHANGED <<node, head, free, state, overflow, lock, calls>>
    BY DEF WalkNext, At, shared
  <1>2. MapTypes /\ exact /\ CallOK(C, r, t, at[t]) /\ B(t) \in Buckets /\ Key(t) \in Keys
        /\ B(t) = Hash[Key(t)] /\ C[B(t)] \subseteq Nodes
    BY <1>1, InCall
  <1>3. at[t].idx \in C[B(t)] /\ Behind(C, r, Key(t), at[t].idx)
    BY <1>1, <1>2 DEF CallOK, B, Key
  <1>4. \/ n = Nil /\ Absent(C, Key(t))
        \/ n \in C[B(t)] /\ n \in Nodes /\ AtOrBehind(C, r, Key(t), n)
    BY <1>2, <1>3, NextOf
  <1>5. n \in Slot
    BY <1>4, MapAssumption DEF Slot, Nil, Nodes
  <1>6. CASE n = Nil
    <2>1. Erased(t) /\ Walking(at[t])
      BY <1>1, <1>6 DEF WalkNext, Walking
    <2>2. Absent(C, Key(t))
      BY <1>1, <1>4, <1>6, InCall
    <2> QED  BY <1>1, <2>1, <2>2, NothingErased
  <1>7. CASE n # Nil /\ node[n].ref = Key(t)
    <2>1. at' = [at EXCEPT ![t].pc = "walk_load", ![t].next = n] /\ stored' = stored
      BY <1>7 DEF WalkNext
    <2>2. PICK a : Fits(t, a, "walk_load", at[t].then, at[t].idx, n, at[t].nxt)
      BY <1>2, <1>5, <2>1, FitsNext DEF MapPlaces
    <2>3. n \in C[B(t)] /\ at[t].idx \in Nodes
      BY <1>2, <1>3, <1>4, <1>7
    <2> HIDE DEF n
    <2>4. CallOK(C, r, t, a)
      BY <1>1, <1>2, <1>7, <2>2, <2>3 DEF CallOK, Fits, Inserting, Walking, Hands, B, Key
    <2> QED  BY <1>1, <1>2, <2>1, <2>2, <2>4, CallMoves DEF Fits, Hands
  <1>8. CASE n # Nil /\ node[n].ref # Key(t)
    <2>1. at' = [at EXCEPT ![t].pc = "walk_test", ![t].idx = n] /\ stored' = stored
      BY <1>8 DEF WalkNext
    <2>2. PICK a : Fits(t, a, "walk_test", at[t].then, n, at[t].next, at[t].nxt)
      BY <1>2, <1>5, <2>1, FitsIdx DEF MapPlaces
    <2>3. n \in C[B(t)] /\ n \in Nodes
      BY <1>4, <1>8
    <2>4. Behind(C, r, Key(t), n)
      BY <1>2, <1>4, <1>8, <2>3, OtherKey
    <2> HIDE DEF n
    <2>5. CallOK(C, r, t, a)
      BY <1>1, <1>2, <1>8, <2>2, <2>3, <2>4 DEF CallOK, Fits, Inserting, Walking, Hands, B, Key
    <2> QED  BY <1>1, <1>2, <2>1, <2>2, <2>5, CallMoves DEF Fits, Hands
  <1> QED  BY <1>6, <1>7, <1>8

(* erase walks on and reads a link.                                        *)
LEMMA WalkLoadKeeps ==
  ASSUME NEW C, NEW r, NEW low, MapOK(C, r, low), NEW t \in Threads, WalkLoad(t)
  PROVE  MapOK(C, r, low)'
  <1> DEFINE x == node[at[t].next].next
  <1>1. at[t].pc = "walk_load" /\ exact' = exact
        /\ UNCHANGED <<node, head, free, state, overflow, lock, stored, calls>>
    BY DEF WalkLoad, At, shared, history
  <1>2. MapTypes /\ exact /\ CallOK(C, r, t, at[t]) /\ C[B(t)] \subseteq Nodes
    BY <1>1, InCall
  <1>3. at[t].next \in Nodes
    BY <1>1, <1>2 DEF CallOK, B
  <1>4. x \in Slot
    BY <1>2, <1>3 DEF MapTypes, NodeFields
  <1>5. PICK a : Fits(t, a, "walk_cas", at[t].then, at[t].idx, at[t].next, x)
    BY <1>2, <1>4, FitsNxt DEF MapPlaces, WalkLoad
  <1> HIDE DEF x
  <1>6. CallOK(C, r, t, a)
    BY <1>1, <1>2, <1>5 DEF CallOK, Fits, Inserting, Walking, Hands
  <1> QED  BY <1>1, <1>2, <1>5, <1>6, CallMoves DEF Fits, Hands

(* From one step with a node in hand to another.                           *)
LEMMA HoldKeeps ==
  ASSUME NEW C, NEW r, NEW low, MapOK(C, r, low), NEW t \in Threads,
         \/ at[t].pc = "load" /\ state[B(t)] # 0 /\ Goto(t, "give_up")
         \/ at[t].pc = "publish" /\ Goto(t, "load"),
         UNCHANGED <<node, head, free, state, overflow, lock, stored, calls, exact>>
  PROVE  MapOK(C, r, low)'
  <1>1. PICK l \in {"give_up", "load"} : Goto(t, l) /\ (l = "give_up" => state[B(t)] # 0)
    OBVIOUS
  <1>2. MapTypes /\ exact /\ CallOK(C, r, t, at[t])
    BY InCall
  <1>3. PICK a : Fits(t, a, l, at[t].then, at[t].idx, at[t].next, at[t].nxt)
    BY <1>1, <1>2, FitsGoto DEF MapPlaces
  <1>4. CallOK(C, r, t, a)
    BY <1>1, <1>2, <1>3 DEF CallOK, Fits, Inserting, Walking, Hands, B
  <1> QED  BY <1>2, <1>3, <1>4, CallMoves DEF Fits, Hands


----------------------------------------------------------------------------
(* Steps that change a node in no chain: it is taken, linked or put back.  *)
NodeStep(C, t, a, n) ==
  /\ MovesTo(t, a) /\ \A b \in Buckets : n \notin C[b]
  /\ node' \in [Nodes -> NodeFields] /\ \A m \in Nodes : m # n => node'[m] = node[m]
  /\ node'[n].ref = node[n].ref \/ (node'[n].ref \in Keys /\ Owner[node'[n].ref] = t)
  /\ \A u \in Threads : u # t => ~InHandOf(u, n)
  /\ UNCHANGED <<head, state, overflow, lock, calls>> /\ exact' = exact
  /\ stored' \in [Keys -> Nat] /\ \A k \in Keys : Owner[k] # t => stored'[k] = stored[k]
  /\ at[t].pc # "idle" /\ a.pc \notin {"lock", "copy"}

(* The calls of the others do not notice.                                  *)
LEMMA NodeStepOthers ==
  ASSUME NEW C, NEW r, NEW low, MapOK(C, r, low), NEW t \in Threads, NEW a, NEW n,
         NodeStep(C, t, a, n), NEW u \in Threads, u # t, NEW c, c = at[u]
  PROVE  CallOK(C, r, u, c)'
  <1>1. CASE c.pc = "idle"
    BY <1>1 DEF CallOK
  <1>2. CASE c.pc # "idle"
    <2> DEFINE k == c.key
               b == Hash[c.key]
    <2>1. CallOK(C, r, u, c) /\ k \in Keys /\ Owner[k] = u /\ b \in Buckets /\ C[b] \subseteq Nodes
          /\ Nil \notin C[b]
      BY <1>2, InCall DEF Key, B
    <2>2. \A m \in C[b] : m \in Nodes /\ m # n /\ node'[m] = node[m]
      BY <2>1 DEF NodeStep
    <2>3. stored'[k] = stored[k] /\ UNCHANGED <<state, overflow, lock>>
      BY <2>1 DEF NodeStep
    <2>4. c.pc \in Hands => c.idx # n
      BY DEF NodeStep, InHandOf
    <2>5. \A m \in Nodes : m # n => node'[m] = node[m]
      BY DEF NodeStep
    <2>6. (Consistent(C, k) => Consistent(C, k)') /\ (Absent(C, k) <=> Absent(C, k)')
      BY <2>2, <2>3 DEF Consistent, Absent
    <2>7. \A i : (AtOrBehind(C, r, k, i) <=> AtOrBehind(C, r, k, i)') /\ (Behind(C, r, k, i) <=> Behind(C, r, k, i)')
      BY <2>2 DEF AtOrBehind, Behind
    <2>8. c.pc = "find_test" /\ c.idx # Nil /\ node'[c.idx].ref = k => c.idx \in C[b]
      <3>1. SUFFICES ASSUME c.pc = "find_test", c.idx # Nil, node'[c.idx].ref = k PROVE c.idx \in C[b]
        OBVIOUS
      <3>2. c.idx \in Slot
        BY CallTypes DEF MapOK
      <3>3. c.idx \in Nodes
        BY <3>1, <3>2, MapAssumption DEF Slot, Nodes, Nil
      <3>4. node[c.idx].ref = k
        <4>1. CASE c.idx = n
          BY <2>1, <3>1, <4>1 DEF NodeStep
        <4>2. CASE c.idx # n
          BY <2>5, <3>1, <3>3, <4>2
        <4> QED  BY <4>1, <4>2
      <3> QED  BY <1>2, <2>1, <3>1, <3>4 DEF CallOK
    <2>9. c.pc = "walk_test" => node'[c.idx].ref # k
      <3>1. SUFFICES ASSUME c.pc = "walk_test" PROVE node'[c.idx].ref # k
        OBVIOUS
      <3>2. c.idx \in Nodes /\ node[c.idx].ref # k
        BY <1>2, <2>1, <3>1 DEF CallOK
      <3>3. CASE c.idx = n
        BY <2>1, <3>2, <3>3 DEF NodeStep
      <3>4. CASE c.idx # n
        BY <2>5, <3>2, <3>4
      <3> QED  BY <3>3, <3>4
    <2>10. \A m \in C[b] : node'[m].ref = node[m].ref /\ node'[m].order = node[m].order
      BY <2>2
    <2> QED  BY <1>2, <2>1, <2>2, <2>3, <2>4, <2>5, <2>6, <2>7, <2>8, <2>9, <2>10 DEF CallOK, Inserting, Walking, Hands
  <1> QED  BY <1>1, <1>2

(* Neither do the chains.                                                  *)
LEMMA NodeStepChains ==
  ASSUME NEW C, NEW r, NEW low, MapOK(C, r, low), NEW t \in Threads, NEW a, NEW n, NodeStep(C, t, a, n)
  PROVE  Chains(C, r, low)'
  <1>1. \A b \in Buckets : C[b] \subseteq Nodes /\ \A m \in C[b] : node'[m] = node[m]
    BY DEF MapOK, Chains, NodeStep
  <1>2. head' = head
    BY DEF NodeStep
  <1> QED  BY <1>1, <1>2 DEF MapOK, Chains

(* A step that changes a node outside the chains.                          *)
LEMMA NodeStepKeeps ==
  ASSUME NEW C, NEW r, NEW low, MapOK(C, r, low), NEW t \in Threads, NEW a, NEW n,
         NodeStep(C, t, a, n), free' \in Seq(Nodes), Accounted(C)', CallOK(C, r, t, a)',
         \A k \in Keys : Owner[k] = t => Due(k)' = Due(k)
  PROVE  MapOK(C, r, low)'
  <1>1. MapTypes /\ OneConverts /\ CallsCounted /\ exact /\ (\A k \in Keys : KeyOK(C, k))
    BY DEF MapOK
  <1>2. at' \in [Threads -> CallFields] /\ \A u \in Threads : at'[u] = IF u = t THEN a ELSE at[u]
    BY <1>1, MovedAt DEF NodeStep
  <1>3. MapTypes'
    BY <1>1, <1>2 DEF MapTypes, NodeStep
  <1>4. OneConverts' /\ CallsCounted' /\ exact'
    BY <1>1, <1>2 DEF OneConverts, CallsCounted, NodeStep
  <1>5. ASSUME NEW k \in Keys PROVE Due(k)' = Due(k)
    <2>1. CASE Owner[k] = t
      BY <2>1
    <2>2. CASE Owner[k] # t
      <3> DEFINE u == Owner[k]
      <3>1. u \in Threads /\ at'[u] = at[u] /\ stored'[k] = stored[k]
        BY <1>2, <2>2, MapAssumption DEF NodeStep
      <3>2. at[u].key = k /\ at[u].pc = "count" => node'[at[u].idx] = node[at[u].idx]
        <4>1. SUFFICES ASSUME at[u].key = k, at[u].pc = "count" PROVE node'[at[u].idx] = node[at[u].idx]
          OBVIOUS
        <4>2. at[u].idx \in C[Hash[k]] /\ Hash[k] \in Buckets /\ C[Hash[k]] \subseteq Nodes
          BY <3>1, <4>1, InCall DEF CallOK, Key, B
        <4> QED  BY <4>2 DEF NodeStep
      <3> QED  BY <3>1, <3>2 DEF Due
    <2> QED  BY <2>1, <2>2
  <1>6. ASSUME NEW k \in Keys PROVE KeyOK(C, k)'
    <2>1. Hash[k] \in Buckets
      BY MapAssumption
    <2>2. \A m \in C[Hash[k]] : node'[m] = node[m]
      BY <2>1 DEF MapOK, Chains, NodeStep
    <2>3. UNCHANGED <<state, overflow>>
      BY DEF NodeStep
    <2> QED  BY <1>1, <1>5, <2>2, <2>3 DEF KeyOK, Absent
  <1>7. ASSUME NEW u \in Threads PROVE CallOK(C, r, u, at[u])'
    <2>1. PICK c : c = at'[u]
      OBVIOUS
    <2>2. CallOK(C, r, u, c)'
      BY <1>2, <2>1, NodeStepOthers
    <2> QED  BY <2>1, <2>2 DEF CallOK
  <1>8. Chains(C, r, low)'
    BY NodeStepChains
  <1> QED  BY <1>3, <1>4, <1>6, <1>7, <1>8 DEF MapOK


(* The free stack and the hands, after a node was taken or put back.       *)
LEMMA LooseNext == \A n : Loose(n)' <=> OnFree(n)' \/ \E t \in Threads : InHandOf(t, n)'
  BY DEF Loose, OnFree, InHandOf, Hands

(* The top of the free stack goes into a hand.                             *)
LEMMA TakenAccounted ==
  ASSUME NEW C, NEW r, NEW low, MapOK(C, r, low), NEW t \in Threads, NEW a, MovesTo(t, a),
         free # <<>>, free' = Tail(free), a.idx = free[1], a.pc \in Hands, at[t].pc \notin Hands
  PROVE  /\ Accounted(C)' /\ free' \in Seq(Nodes)
         /\ free[1] \in Nodes /\ (\A b \in Buckets : free[1] \notin C[b])
         /\ \A u \in Threads : ~InHandOf(u, free[1])
  <1> DEFINE n == free[1]
  <1>1. MapTypes /\ Accounted(C)
    BY DEF MapOK
  <1>2. \A u \in Threads : at'[u] = IF u = t THEN a ELSE at[u]
    BY <1>1, MovedAt
  <1>3. /\ free \in Seq(Nodes) /\ Len(free) \in Nat /\ Len(free) > 0 /\ DOMAIN free = 1 .. Len(free)
        /\ n \in Nodes /\ free' \in Seq(Nodes) /\ DOMAIN free' = 1 .. Len(free) - 1
        /\ \A i \in DOMAIN free' : i + 1 \in DOMAIN free /\ free'[i] = free[i + 1]
    BY <1>1 DEF MapTypes
  <1>4. \A i \in DOMAIN free : i # 1 => i - 1 \in DOMAIN free' /\ free'[i - 1] = free[i]
    BY <1>3
  <1>5. OnFree(n)
    BY <1>3 DEF OnFree
  <1>6. Loose(n) /\ (\A b \in Buckets : n \notin C[b]) /\ \A u \in Threads : ~InHandOf(u, n)
    BY <1>1, <1>3, <1>5, LooseIs DEF Accounted
  <1>7. \A i, j \in DOMAIN free : free[i] = free[j] => i = j
    BY <1>1 DEF Accounted
  <1>8. \A i, j \in DOMAIN free' : free'[i] = free'[j] => i = j
    <2> SUFFICES ASSUME NEW i \in DOMAIN free', NEW j \in DOMAIN free', free'[i] = free'[j] PROVE i = j
      OBVIOUS
    <2>1. i + 1 = j + 1
      BY <1>3, <1>7
    <2> QED  BY <1>3, <2>1
  <1>9. ASSUME NEW m PROVE OnFree(m)' <=> OnFree(m) /\ m # n
    <2>1. ASSUME OnFree(m)' PROVE OnFree(m) /\ m # n
      <3>1. PICK i \in DOMAIN free' : free'[i] = m
        BY <2>1 DEF OnFree
      <3>2. i + 1 \in DOMAIN free /\ free[i + 1] = m /\ i + 1 # 1 /\ 1 \in DOMAIN free
        BY <1>3, <3>1
      <3> QED  BY <1>7, <3>2 DEF OnFree
    <2>2. ASSUME OnFree(m), m # n PROVE OnFree(m)'
      <3>1. PICK i \in DOMAIN free : free[i] = m
        BY <2>2 DEF OnFree
      <3>2. i # 1
        BY <2>2, <3>1
      <3> QED  BY <1>4, <3>1, <3>2 DEF OnFree
    <2> QED  BY <2>1, <2>2
  <1>10. \A u \in Threads : \A m : InHandOf(u, m)' <=> (u = t /\ m = n) \/ (u # t /\ InHandOf(u, m))
    BY <1>2 DEF InHandOf
  <1>11. \A u \in Threads : \A m : InHandOf(u, m) => u # t
    BY DEF InHandOf
  <1>12. \A m : Loose(m)' <=> Loose(m)
    BY <1>5, <1>9, <1>10, <1>11, LooseIs, LooseNext
  <1>13. Accounted(C)'
    <2> HIDE DEF n
    <2> QED  BY <1>1, <1>6, <1>8, <1>9, <1>10, <1>11, <1>12 DEF Accounted
  <1> QED  BY <1>3, <1>6, <1>13

(* A node in a hand goes back to the free stack.                           *)
LEMMA PutBackAccounted ==
  ASSUME NEW C, NEW r, NEW low, MapOK(C, r, low), NEW t \in Threads, NEW a, MovesTo(t, a), NEW n \in Nodes,
         at[t].idx = n, at[t].pc \in Hands, free' = <<n>> \o free, a.pc \notin Hands
  PROVE  /\ Accounted(C)' /\ free' \in Seq(Nodes) /\ (\A b \in Buckets : n \notin C[b])
         /\ \A u \in Threads : u # t => ~InHandOf(u, n)
  <1>1. MapTypes /\ Accounted(C)
    BY DEF MapOK
  <1>2. \A u \in Threads : at'[u] = IF u = t THEN a ELSE at[u]
    BY <1>1, MovedAt
  <1>3. /\ free \in Seq(Nodes) /\ Len(free) \in Nat /\ DOMAIN free = 1 .. Len(free)
        /\ free' \in Seq(Nodes) /\ DOMAIN free' = 1 .. Len(free) + 1
        /\ free'[1] = n /\ \A i \in DOMAIN free' : i # 1 => i - 1 \in DOMAIN free /\ free'[i] = free[i - 1]
    BY <1>1 DEF MapTypes
  <1>4. \A i \in DOMAIN free : i + 1 \in DOMAIN free' /\ free'[i + 1] = free[i]
    BY <1>3
  <1>5. InHandOf(t, n)
    BY DEF InHandOf
  <1>6. Loose(n) /\ (\A b \in Buckets : n \notin C[b]) /\ (\A u \in Threads : u # t => ~InHandOf(u, n)) /\ ~OnFree(n)
    BY <1>1, <1>5, LooseIs DEF Accounted
  <1>7. \A i, j \in DOMAIN free : free[i] = free[j] => i = j
    BY <1>1 DEF Accounted
  <1>8. \A i, j \in DOMAIN free' : free'[i] = free'[j] => i = j
    <2> SUFFICES ASSUME NEW i \in DOMAIN free', NEW j \in DOMAIN free', free'[i] = free'[j] PROVE i = j
      OBVIOUS
    <2>1. \A h \in DOMAIN free' : h # 1 => free'[h] # n
      BY <1>3, <1>6 DEF OnFree
    <2>2. CASE i = 1 \/ j = 1
      BY <1>3, <2>1, <2>2
    <2>3. CASE i # 1 /\ j # 1
      <3>1. i - 1 = j - 1
        BY <1>3, <1>7, <2>3
      <3> QED  BY <1>3, <3>1
    <2> QED  BY <2>2, <2>3
  <1>9. ASSUME NEW m PROVE OnFree(m)' <=> OnFree(m) \/ m = n
    <2>1. ASSUME OnFree(m)', m # n PROVE OnFree(m)
      <3>1. PICK i \in DOMAIN free' : free'[i] = m
        BY <2>1 DEF OnFree
      <3> QED  BY <1>3, <2>1, <3>1 DEF OnFree
    <2>2. ASSUME OnFree(m) PROVE OnFree(m)'
      BY <1>4, <2>2 DEF OnFree
    <2>3. 1 \in DOMAIN free'
      BY <1>3
    <2>4. OnFree(n)'
      BY <1>3, <2>3 DEF OnFree
    <2> QED  BY <2>1, <2>2, <2>4
  <1>10. \A u \in Threads : \A m : InHandOf(u, m)' <=> u # t /\ InHandOf(u, m)
    BY <1>2 DEF InHandOf
  <1>11. \A m : InHandOf(t, m) => m = n
    BY DEF InHandOf
  <1>12. \A m : Loose(m)' <=> Loose(m)
    BY <1>5, <1>9, <1>10, <1>11, LooseIs, LooseNext
  <1>13. Accounted(C)'
    BY <1>1, <1>6, <1>8, <1>9, <1>10, <1>11, <1>12 DEF Accounted
  <1> QED  BY <1>3, <1>6, <1>13

(* Nodes stay accounted for when no hand and no stack changes.             *)
LEMMA SameAccounted ==
  ASSUME NEW C, Accounted(C), UNCHANGED free, \A u \in Threads : \A m : InHandOf(u, m)' <=> InHandOf(u, m)
  PROVE  Accounted(C)'
  <1>1. \A m : OnFree(m)' <=> OnFree(m)
    BY DEF OnFree
  <1>2. \A m : Loose(m)' <=> Loose(m)
    BY <1>1, LooseIs, LooseNext
  <1> QED  BY <1>1, <1>2 DEF Accounted


(* The link of one node.                                                   *)
LEMMA NextSet ==
  ASSUME MapTypes, NEW n \in Nodes, NEW x \in Slot, node' = [node EXCEPT ![n].next = x]
  PROVE  /\ node' \in [Nodes -> NodeFields] /\ \A m \in Nodes : m # n => node'[m] = node[m]
         /\ node'[n].ref = node[n].ref /\ node'[n].order = node[n].order
         /\ node'[n].bucket = node[n].bucket /\ node'[n].next = x
  <1>1. node[n] \in NodeFields
    BY DEF MapTypes
  <1> DEFINE d == [node[n] EXCEPT !.next = x]
  <1>2. d \in NodeFields /\ d.ref = node[n].ref /\ d.order = node[n].order /\ d.bucket = node[n].bucket
        /\ d.next = x
    BY <1>1 DEF NodeFields
  <1>3. node' = [node EXCEPT ![n] = d]
    OBVIOUS
  <1> HIDE DEF d
  <1> QED  BY <1>2, <1>3 DEF MapTypes

(* The top of the node stack is a node or Nil.                             *)
LEMMA TopIsSlot ==
  ASSUME MapTypes
  PROVE  (IF free = <<>> THEN Nil ELSE free[1]) \in Slot
  <1>1. Nil \in Slot /\ Nodes \subseteq Slot
    BY MapAssumption DEF Slot, Nil, Nodes
  <1>2. free # <<>> => free[1] \in Nodes
    BY DEF MapTypes
  <1> QED  BY <1>1, <1>2

(* A node is taken and filled in.                                          *)
LEMMA InsertAllocKeeps ==
  ASSUME NEW C, NEW r, NEW low, MapOK(C, r, low), NEW t \in Threads, InsertAlloc(t)
  PROVE  MapOK(C, r, low)'
  <1>1. at[t].pc = "alloc" /\ exact' = exact /\ UNCHANGED <<head, state, overflow, lock, stored, calls>>
    BY DEF InsertAlloc, At, history
  <1>2. MapTypes /\ exact /\ CallOK(C, r, t, at[t]) /\ Key(t) \in Keys /\ B(t) \in Buckets
        /\ Owner[Key(t)] = t /\ calls[t] \in Nat /\ calls[t] > 0
    BY <1>1, InCall
  <1>3. CASE free = <<>>
    BY <1>1, <1>2, <1>3, CallEnds DEF InsertAlloc, Hands
  <1>4. CASE free # <<>>
    <2> DEFINE n == free[1]
               d == [ref |-> Key(t), order |-> calls[t], next |-> node[n].next, bucket |-> B(t)]
    <2>1. /\ at' = [at EXCEPT ![t].pc = "load", ![t].idx = n] /\ free' = Tail(free)
          /\ node' = [node EXCEPT ![n] = d]
      BY <1>4 DEF InsertAlloc, AllocNode
    <2>2. n \in Nodes /\ n \in Slot
      BY <1>2, <1>4, MapAssumption DEF MapTypes, Nodes, Slot
    <2>3. PICK a : Fits(t, a, "load", at[t].then, n, at[t].next, at[t].nxt)
      BY <1>2, <2>1, <2>2, FitsIdx DEF MapPlaces
    <2>4. /\ Accounted(C)' /\ free' \in Seq(Nodes) /\ (\A b \in Buckets : n \notin C[b])
          /\ \A u \in Threads : ~InHandOf(u, n)
      BY <1>1, <1>4, <2>1, <2>3, TakenAccounted DEF Fits, Hands
    <2>5. d \in NodeFields /\ d.ref = Key(t) /\ d.order = calls[t] /\ d.bucket = B(t)
      <3>1. node[n].next \in Slot
        BY <1>2, <2>2 DEF MapTypes, NodeFields
      <3> QED  BY <1>2, <3>1 DEF NodeFields
    <2> HIDE DEF d
    <2>6. node' \in [Nodes -> NodeFields] /\ node'[n] = d /\ \A m \in Nodes : m # n => node'[m] = node[m]
      BY <1>2, <2>1, <2>2, <2>5 DEF MapTypes
    <2> HIDE DEF n
    <2>7. NodeStep(C, t, a, n)
      BY <1>1, <1>2, <2>2, <2>3, <2>4, <2>5, <2>6 DEF NodeStep, Fits, MapTypes
    <2>8. CallOK(C, r, t, a)'
      BY <1>1, <1>2, <2>2, <2>3, <2>5, <2>6 DEF CallOK, Fits, Inserting, Walking, Hands, Key, B
    <2>9. \A k \in Keys : Owner[k] = t => Due(k)' = Due(k)
      <3>1. at'[t] = a
        BY <1>2, <2>3, MovedAt DEF Fits
      <3> QED  BY <1>1, <2>3, <3>1 DEF Due, Fits
    <2> QED  BY <2>4, <2>7, <2>8, <2>9, NodeStepKeeps
  <1> QED  BY <1>3, <1>4

(* The node is linked to the current head.                                 *)
LEMMA InsertLoadKeeps ==
  ASSUME NEW C, NEW r, NEW low, MapOK(C, r, low), NEW t \in Threads, InsertLoad(t)
  PROVE  MapOK(C, r, low)'
  <1>1. at[t].pc = "load" /\ exact' = exact /\ UNCHANGED <<head, free, state, overflow, lock, stored, calls>>
    BY DEF InsertLoad, At, history
  <1>2. MapTypes /\ exact /\ CallOK(C, r, t, at[t]) /\ Key(t) \in Keys /\ B(t) \in Buckets
        /\ Owner[Key(t)] = t
    BY <1>1, InCall
  <1>3. CASE state[B(t)] # 0
    BY <1>1, <1>2, <1>3, HoldKeeps DEF InsertLoad
  <1>4. CASE state[B(t)] = 0
    <2> DEFINE n == at[t].idx
               x == head[B(t)]
    <2>1. /\ at' = [at EXCEPT ![t].pc = "publish", ![t].next = x]
          /\ node' = [node EXCEPT ![n].next = x]
      BY <1>4 DEF InsertLoad
    <2>2. n \in Nodes /\ x \in Slot
      BY <1>1, <1>2 DEF MapTypes, CallOK, Hands
    <2>3. PICK a : Fits(t, a, "publish", at[t].then, n, x, at[t].nxt)
      BY <1>2, <2>1, <2>2, FitsNext DEF MapPlaces
    <2>4. at'[t] = a /\ \A u \in Threads : u # t => at'[u] = at[u]
      BY <1>2, <2>3, MovedAt DEF Fits
    <2>5. \A u \in Threads : \A m : InHandOf(u, m)' <=> InHandOf(u, m)
      BY <1>1, <2>3, <2>4 DEF InHandOf, Fits, Hands
    <2>6. Accounted(C)'
      BY <1>1, <2>5, SameAccounted DEF MapOK
    <2>7. InHandOf(t, n)
      BY <1>1 DEF InHandOf, Hands
    <2>8. (\A b \in Buckets : n \notin C[b]) /\ \A u \in Threads : u # t => ~InHandOf(u, n)
      BY <2>2, <2>7, LooseIs DEF MapOK, Accounted
    <2>9. /\ node' \in [Nodes -> NodeFields] /\ \A m \in Nodes : m # n => node'[m] = node[m]
          /\ node'[n].ref = node[n].ref /\ node'[n].order = node[n].order
          /\ node'[n].bucket = node[n].bucket /\ node'[n].next = x
      BY <1>2, <2>1, <2>2, NextSet
    <2>10. NodeStep(C, t, a, n)
      <3>1. MovesTo(t, a) /\ a.pc = "publish" /\ stored \in [Keys -> Nat]
        BY <1>2, <2>3 DEF Fits, MapTypes
      <3> HIDE DEF n
      <3> QED  BY <1>1, <2>2, <2>8, <2>9, <3>1 DEF NodeStep
    <2>11. CallOK(C, r, t, a)'
      BY <1>1, <1>2, <2>2, <2>3, <2>9 DEF CallOK, Fits, Inserting, Walking, Hands, Key, B
    <2>12. \A k \in Keys : Owner[k] = t => Due(k)' = Due(k)
      BY <1>1, <2>3, <2>4 DEF Due, Fits
    <2>13. free' \in Seq(Nodes)
      BY <1>1, <1>2 DEF MapTypes
    <2> QED  BY <2>6, <2>10, <2>11, <2>12, <2>13, NodeStepKeeps
  <1> QED  BY <1>3, <1>4

(* A node that was not published goes back.                                *)
LEMMA InsertGiveUpKeeps ==
  ASSUME NEW C, NEW r, NEW low, MapOK(C, r, low), NEW t \in Threads, InsertGiveUp(t)
  PROVE  MapOK(C, r, low)'
  <1> DEFINE n == at[t].idx
             x == IF free = <<>> THEN Nil ELSE free[1]
  <1>1. at[t].pc = "give_up" /\ exact' = exact /\ UNCHANGED <<head, state, overflow, lock, stored, calls>>
        /\ node' = [node EXCEPT ![n].next = x] /\ free' = <<n>> \o free /\ Goto(t, "put")
    BY DEF InsertGiveUp, At, history, FreeNode
  <1>2. MapTypes /\ exact /\ CallOK(C, r, t, at[t]) /\ Key(t) \in Keys /\ B(t) \in Buckets
        /\ Owner[Key(t)] = t
    BY <1>1, InCall
  <1>3. n \in Nodes /\ x \in Slot
    BY <1>1, <1>2, TopIsSlot DEF CallOK, Hands
  <1>4. PICK a : Fits(t, a, "put", at[t].then, at[t].idx, at[t].next, at[t].nxt)
    BY <1>1, <1>2, FitsGoto DEF MapPlaces
  <1>5. /\ Accounted(C)' /\ free' \in Seq(Nodes) /\ (\A b \in Buckets : n \notin C[b])
        /\ \A u \in Threads : u # t => ~InHandOf(u, n)
    BY <1>1, <1>3, <1>4, PutBackAccounted DEF Fits, Hands
  <1> HIDE DEF x
  <1>6. /\ node' \in [Nodes -> NodeFields] /\ \A m \in Nodes : m # n => node'[m] = node[m]
        /\ node'[n].ref = node[n].ref
    BY <1>1, <1>2, <1>3, NextSet
  <1>7. NodeStep(C, t, a, n)
    <2>1. MovesTo(t, a) /\ a.pc = "put" /\ stored \in [Keys -> Nat]
      BY <1>2, <1>4 DEF Fits, MapTypes
    <2>2. at[t].pc # "idle" /\ exact' = exact /\ UNCHANGED <<head, state, overflow, lock, stored, calls>>
      BY <1>1
    <2> HIDE DEF n
    <2> QED  BY <1>3, <1>5, <1>6, <2>1, <2>2 DEF NodeStep
  <1>8. CallOK(C, r, t, a)'
    BY <1>1, <1>2, <1>4 DEF CallOK, Fits, Inserting, Walking, Hands, B
  <1>9. \A k \in Keys : Owner[k] = t => Due(k)' = Due(k)
    <2>1. at'[t] = a
      BY <1>2, <1>4, MovedAt DEF Fits
    <2> QED  BY <1>1, <1>4, <2>1 DEF Due, Fits
  <1> QED  BY <1>5, <1>7, <1>8, <1>9, NodeStepKeeps

(* A node that was removed goes back.                                      *)
LEMMA EraseReleaseKeeps ==
  ASSUME NEW C, NEW r, NEW low, MapOK(C, r, low), NEW t \in Threads, EraseRelease(t)
  PROVE  MapOK(C, r, low)'
  <1> DEFINE n == at[t].idx
             x == IF free = <<>> THEN Nil ELSE free[1]
  <1>1. at[t].pc = "release" /\ exact' = exact /\ UNCHANGED <<head, state, overflow, lock, calls>>
        /\ node' = [node EXCEPT ![n].next = x] /\ free' = <<n>> \o free /\ Return(t)
        /\ stored' = [stored EXCEPT ![Key(t)] = 0]
    BY DEF EraseRelease, At, FreeNode, Erased
  <1>2. MapTypes /\ exact /\ CallOK(C, r, t, at[t]) /\ Key(t) \in Keys /\ B(t) \in Buckets
        /\ Owner[Key(t)] = t
    BY <1>1, InCall
  <1>3. n \in Nodes /\ x \in Slot
    BY <1>1, <1>2, TopIsSlot DEF CallOK, Hands
  <1>4. PICK a : MovesTo(t, a) /\ a.pc = "idle" /\ a.key = NoKey /\ a.idx = Nil
    BY <1>1, <1>2, FitsReturn
  <1>5. /\ Accounted(C)' /\ free' \in Seq(Nodes) /\ (\A b \in Buckets : n \notin C[b])
        /\ \A u \in Threads : u # t => ~InHandOf(u, n)
    BY <1>1, <1>3, <1>4, PutBackAccounted DEF Hands
  <1> HIDE DEF x
  <1>6. /\ node' \in [Nodes -> NodeFields] /\ \A m \in Nodes : m # n => node'[m] = node[m]
        /\ node'[n].ref = node[n].ref
    BY <1>1, <1>2, <1>3, NextSet
  <1>7. stored' \in [Keys -> Nat] /\ stored'[Key(t)] = 0 /\ \A k \in Keys : k # Key(t) => stored'[k] = stored[k]
    BY <1>1, <1>2 DEF MapTypes
  <1>8. NodeStep(C, t, a, n)
    <2>1. at[t].pc # "idle" /\ exact' = exact /\ UNCHANGED <<head, state, overflow, lock, calls>>
      BY <1>1
    <2>2. \A k \in Keys : Owner[k] # t => stored'[k] = stored[k]
      BY <1>2, <1>7
    <2> HIDE DEF n
    <2> QED  BY <1>3, <1>4, <1>5, <1>6, <1>7, <2>1, <2>2 DEF NodeStep
  <1>9. CallOK(C, r, t, a)'
    BY <1>4 DEF CallOK
  <1>10. \A k \in Keys : Owner[k] = t => Due(k)' = Due(k)
    <2>1. at'[t] = a
      BY <1>2, <1>4, MovedAt
    <2> QED  BY <1>1, <1>4, <1>7, <2>1 DEF Due, Key
  <1> QED  BY <1>5, <1>8, <1>9, <1>10, NodeStepKeeps


----------------------------------------------------------------------------
(* Steps that change the state of a bucket, the overflow map or its lock.  *)
StateStep(t, a) ==
  /\ MovesTo(t, a) /\ UNCHANGED <<node, head, free, calls>> /\ exact' = exact
  /\ at[t].pc \notin Hands \cup {"idle"} /\ a.pc \notin Hands
  /\ state' \in [Buckets -> 0 .. 2] /\ overflow' \in [Keys \cup {NoKey} -> Nat]
  /\ lock' \in Threads \cup {NoThread} /\ stored' \in [Keys -> Nat]
  /\ \A k \in Keys : Owner[k] # t => stored'[k] = stored[k]
  /\ \A b \in Buckets : state[b] # 0 => state'[b] # 0
  /\ \A u \in Threads \ {t} :
       /\ at[u].pc \in {"lock", "copy"} => state'[Hash[at[u].key]] = 1
       /\ at[u].pc = "copy" => lock' = lock /\ overflow' = overflow
       /\ at[u].pc \in {"lock", "copy"} /\ a.pc \in {"lock", "copy"} => Hash[at[u].key] # Hash[a.key]

(* The calls of the others do not notice.                                  *)
LEMMA StateStepOthers ==
  ASSUME NEW C, NEW r, NEW low, MapOK(C, r, low), NEW t \in Threads, NEW a, StateStep(t, a),
         NEW u \in Threads, u # t, NEW c, c = at[u]
  PROVE  CallOK(C, r, u, c)'
  <1>1. CASE c.pc = "idle"
    BY <1>1 DEF CallOK
  <1>2. CASE c.pc # "idle"
    <2> DEFINE k == c.key
               b == Hash[c.key]
    <2>1. CallOK(C, r, u, c) /\ k \in Keys /\ Owner[k] = u /\ b \in Buckets
      BY <1>2, InCall DEF Key, B
    <2>2. stored'[k] = stored[k] /\ node' = node /\ (state[b] # 0 => state'[b] # 0)
          /\ (c.pc \in {"lock", "copy"} => state'[b] = 1) /\ (c.pc = "copy" => lock' = lock /\ overflow' = overflow)
      BY <2>1 DEF StateStep
    <2>3. (Consistent(C, k) => Consistent(C, k)') /\ (Absent(C, k) <=> Absent(C, k)')
      BY <2>2 DEF Consistent, Absent
    <2>4. \A i : (AtOrBehind(C, r, k, i) <=> AtOrBehind(C, r, k, i)') /\ (Behind(C, r, k, i) <=> Behind(C, r, k, i)')
      BY <2>2 DEF AtOrBehind, Behind
    <2> QED  BY <1>2, <2>1, <2>2, <2>3, <2>4 DEF CallOK, Inserting, Walking, Hands
  <1> QED  BY <1>1, <1>2

(* A step that changes states, tree or lock, and no chain.                 *)
LEMMA StateStepKeeps ==
  ASSUME NEW C, NEW r, NEW low, MapOK(C, r, low), NEW t \in Threads, NEW a, StateStep(t, a),
         CallOK(C, r, t, a)', \A k \in Keys : KeyOK(C, k)'
  PROVE  MapOK(C, r, low)'
  <1>1. MapTypes /\ OneConverts /\ CallsCounted /\ exact /\ Accounted(C) /\ Chains(C, r, low)
    BY DEF MapOK
  <1>2. at' \in [Threads -> CallFields] /\ \A u \in Threads : at'[u] = IF u = t THEN a ELSE at[u]
    BY <1>1, MovedAt DEF StateStep
  <1>3. MapTypes'
    BY <1>1, <1>2 DEF MapTypes, StateStep
  <1>4. OneConverts'
    BY <1>1, <1>2 DEF OneConverts, StateStep
  <1>5. CallsCounted' /\ exact'
    BY <1>1, <1>2 DEF CallsCounted, StateStep
  <1>6. Chains(C, r, low)'
    BY <1>1 DEF Chains, StateStep
  <1>7. Accounted(C)'
    <2>1. \A u \in Threads : \A m : InHandOf(u, m)' <=> InHandOf(u, m)
      BY <1>2 DEF InHandOf, StateStep
    <2> QED  BY <1>1, <2>1, SameAccounted DEF StateStep
  <1>8. ASSUME NEW u \in Threads PROVE CallOK(C, r, u, at[u])'
    <2>1. PICK c : c = at'[u]
      OBVIOUS
    <2>2. CallOK(C, r, u, c)'
      BY <1>2, <2>1, StateStepOthers
    <2> QED  BY <2>1, <2>2 DEF CallOK
  <1> QED  BY <1>3, <1>4, <1>5, <1>6, <1>7, <1>8 DEF MapOK

(* What is due for the keys of others does not change.                     *)
LEMMA OthersDue ==
  ASSUME NEW C, NEW r, NEW low, MapOK(C, r, low), NEW t \in Threads, NEW a, MovesTo(t, a),
         UNCHANGED node, NEW k \in Keys, stored'[k] = stored[k],
         \/ Owner[k] # t
         \/ at[t].key # k /\ a.key # k
         \/ at[t].pc \notin {"count", "release"} /\ a.pc \notin {"count", "release"}
  PROVE  Due(k)' = Due(k)
  <1>1. Owner[k] \in Threads /\ MapTypes
    BY MapAssumption DEF MapOK
  <1>2. \A u \in Threads : at'[u] = IF u = t THEN a ELSE at[u]
    BY <1>1, MovedAt
  <1>3. CASE Owner[k] # t
    BY <1>1, <1>2, <1>3 DEF Due
  <1>4. CASE Owner[k] = t
    <2>1. at'[t] = a
      BY <1>2
    <2> QED  BY <1>4, <2>1 DEF Due
  <1> QED  BY <1>3, <1>4

(* A published order counts as stored.                                     *)
LEMMA InsertCountKeeps ==
  ASSUME NEW C, NEW r, NEW low, MapOK(C, r, low), NEW t \in Threads, InsertCount(t)
  PROVE  MapOK(C, r, low)'
  <1> DEFINE k == Key(t)
             o == node[at[t].idx].order
  <1>1. at[t].pc = "count" /\ exact' = exact /\ UNCHANGED <<node, head, free, state, overflow, lock, calls>>
        /\ Goto(t, "length") /\ stored' = [stored EXCEPT ![k] = o]
    BY DEF InsertCount, At
  <1>2. MapTypes /\ exact /\ CallOK(C, r, t, at[t]) /\ k \in Keys /\ B(t) \in Buckets
        /\ Owner[k] = t /\ C[B(t)] \subseteq Nodes
    BY <1>1, InCall
  <1>3. at[t].idx \in Nodes
    BY <1>1, <1>2 DEF CallOK, B
  <1>4. o \in Nat
    BY <1>2, <1>3 DEF MapTypes, NodeFields
  <1>5. PICK a : Fits(t, a, "length", at[t].then, at[t].idx, at[t].next, at[t].nxt)
    BY <1>1, <1>2, FitsGoto DEF MapPlaces
  <1>6. stored' \in [Keys -> Nat] /\ stored'[k] = o /\ \A q \in Keys : q # k => stored'[q] = stored[q]
    BY <1>1, <1>2, <1>4 DEF MapTypes
  <1>7. StateStep(t, a)
    <2>1. \A q \in Keys : Owner[q] # t => stored'[q] = stored[q]
      BY <1>2, <1>6
    <2>2. at[t].pc \notin Hands \cup {"idle"} /\ a.pc \notin Hands /\ a.pc \notin {"lock", "copy"} /\ MovesTo(t, a)
      BY <1>1, <1>5 DEF Fits, Hands
    <2>3. \A u \in Threads : at[u].pc \in {"lock", "copy"} => state[Hash[at[u].key]] = 1
      BY DEF MapOK, CallOK
    <2>4. state \in [Buckets -> 0 .. 2] /\ overflow \in [Keys \cup {NoKey} -> Nat]
          /\ lock \in Threads \cup {NoThread}
      BY <1>2 DEF MapTypes
    <2>5. exact' = exact /\ UNCHANGED <<node, head, free, state, overflow, lock, calls>>
      BY <1>1
    <2> HIDE DEF k, o
    <2> QED  BY <1>6, <2>1, <2>2, <2>3, <2>4, <2>5 DEF StateStep
  <1>8. CallOK(C, r, t, a)'
    BY <1>1, <1>2, <1>5 DEF CallOK, Fits, Inserting, Walking, Hands
  <1>9. ASSUME NEW q \in Keys PROVE Due(q)' = Due(q)
    <2>1. CASE q = k
      <3>1. at'[t] = a
        BY <1>2, <1>5, MovedAt DEF Fits
      <3>2. Due(q)' = o
        BY <1>2, <1>5, <1>6, <2>1, <3>1 DEF Due, Fits, Key
      <3>3. Due(q) = o
        BY <1>1, <1>2, <2>1 DEF Due, Key
      <3> QED  BY <3>2, <3>3
    <2>2. CASE q # k
      BY <1>1, <1>5, <1>6, <2>2, OthersDue DEF Fits, Key
    <2> QED  BY <2>1, <2>2
  <1>10. \A q \in Keys : KeyOK(C, q)'
    BY <1>1, <1>9 DEF MapOK, KeyOK, Absent
  <1> QED  BY <1>7, <1>8, <1>10, StateStepKeeps


(* Facts of every thread that converts, and of nobody while the mutex is   *)
(* free.                                                                   *)
LEMMA Converting ==
  ASSUME NEW C, NEW r, NEW low, MapOK(C, r, low), NEW u \in Threads
  PROVE  /\ at[u].pc \in {"lock", "copy"} => state[Hash[at[u].key]] = 1 /\ Hash[at[u].key] \in Buckets
         /\ at[u].pc = "copy" => lock = u /\ lock # NoThread
  <1>1. at[u].pc \in {"lock", "copy"} => CallOK(C, r, u, at[u]) /\ Hash[at[u].key] \in Buckets
    BY InCall DEF B
  <1> QED  BY <1>1, MapAssumption DEF CallOK

(* A store into the overflow map under the free mutex.                     *)
LEMMA OverflowKeeps ==
  ASSUME NEW C, NEW r, NEW low, MapOK(C, r, low), NEW t \in Threads, NEW v \in Nat,
         at[t].pc \in {"put", "del"}, lock = NoThread, Return(t),
         overflow' = [overflow EXCEPT ![Key(t)] = v], stored' = [stored EXCEPT ![Key(t)] = v],
         UNCHANGED <<node, head, free, state, lock, calls, exact>>,
         state[B(t)] # 2 => Absent(C, Key(t)), state[B(t)] # 0
  PROVE  MapOK(C, r, low)'
  <1> DEFINE k == Key(t)
  <1>1. MapTypes /\ exact /\ k \in Keys /\ B(t) \in Buckets /\ Owner[k] = t /\ B(t) = Hash[k]
    BY InCall
  <1>2. PICK a : MovesTo(t, a) /\ a.pc = "idle" /\ a.key = NoKey /\ a.idx = Nil
    BY <1>1, FitsReturn
  <1>3. stored' \in [Keys -> Nat] /\ stored'[k] = v /\ \A q \in Keys : q # k => stored'[q] = stored[q]
    BY <1>1 DEF MapTypes
  <1>4. overflow' \in [Keys \cup {NoKey} -> Nat] /\ overflow'[k] = v
        /\ \A q \in Keys : q # k => overflow'[q] = overflow[q]
    BY <1>1 DEF MapTypes
  <1>5. StateStep(t, a)
    <2>1. \A q \in Keys : Owner[q] # t => stored'[q] = stored[q]
      BY <1>1, <1>3
    <2>2. at[t].pc \notin Hands \cup {"idle"} /\ a.pc \notin Hands /\ a.pc \notin {"lock", "copy"} /\ MovesTo(t, a)
      BY <1>2 DEF Hands
    <2>3. state \in [Buckets -> 0 .. 2] /\ lock \in Threads \cup {NoThread}
      BY <1>1 DEF MapTypes
    <2>4. exact' = exact /\ UNCHANGED <<node, head, free, state, lock, calls>>
      OBVIOUS
    <2>5. \A u \in Threads : (at[u].pc \in {"lock", "copy"} => state[Hash[at[u].key]] = 1) /\ at[u].pc # "copy"
      BY Converting
    <2> QED  BY <1>3, <1>4, <2>1, <2>2, <2>3, <2>4, <2>5 DEF StateStep
  <1>6. CallOK(C, r, t, a)'
    BY <1>2 DEF CallOK
  <1>7. ASSUME NEW q \in Keys PROVE KeyOK(C, q)'
    <2>1. CASE q = k
      <3>1. at'[t] = a
        BY <1>1, <1>2, MovedAt
      <3>2. Due(q)' = v
        BY <1>1, <1>2, <1>3, <2>1, <3>1 DEF Due
      <3>3. Absent(C, q)' <=> Absent(C, q)
        BY DEF Absent
      <3>4. overflow'[q] = v /\ state' = state /\ state[Hash[q]] # 0
        BY <1>1, <1>4, <2>1
      <3>5. state[Hash[q]] # 2 => Absent(C, q)
        BY <1>1, <2>1
      <3> QED  BY <3>2, <3>3, <3>4, <3>5 DEF KeyOK, Absent
    <2>2. CASE q # k
      <3>1. Due(q)' = Due(q)
        BY <1>2, <1>3, <2>2, MapAssumption, OthersDue DEF Key
      <3>2. overflow'[q] = overflow[q] /\ KeyOK(C, q)
        BY <1>4, <2>2 DEF MapOK
      <3> QED  BY <3>1, <3>2 DEF KeyOK, Absent
    <2> QED  BY <2>1, <2>2
  <1> QED  BY <1>5, <1>6, <1>7, StateStepKeeps

(* An order goes to the overflow map: the chain has no node of its key.    *)
LEMMA InsertOverflowKeeps ==
  ASSUME NEW C, NEW r, NEW low, MapOK(C, r, low), NEW t \in Threads, InsertOverflow(t)
  PROVE  MapOK(C, r, low)'
  <1>1. at[t].pc = "put" /\ lock = NoThread /\ Return(t)
        /\ overflow' = [overflow EXCEPT ![Key(t)] = calls[t]] /\ stored' = [stored EXCEPT ![Key(t)] = calls[t]]
        /\ UNCHANGED <<node, head, free, state, lock, calls, exact>>
    BY DEF InsertOverflow, At
  <1>2. CallOK(C, r, t, at[t]) /\ KeyOK(C, Key(t)) /\ calls[t] \in Nat /\ B(t) = Hash[Key(t)] /\ B(t) \in Buckets
        /\ Key(t) \in Keys
    BY <1>1, InCall
  <1>3. stored[Key(t)] = 0 /\ state[B(t)] # 0
    BY <1>1, <1>2 DEF CallOK, Inserting, Key, B
  <1>4. Due(Key(t)) = 0
    BY <1>1, <1>2, <1>3, InCall DEF Due, Key
  <1>5. state[B(t)] # 2 => Absent(C, Key(t))
    <2>1. \A n \in C[B(t)] : node[n].order > 0
      BY <1>2 DEF MapOK, Chains
    <2> QED  BY <1>2, <1>4, <2>1 DEF KeyOK, Absent
  <1> QED  BY <1>1, <1>2, <1>3, <1>5, OverflowKeeps

(* An order leaves the overflow map of a converted bucket.                 *)
LEMMA EraseOverflowKeeps ==
  ASSUME NEW C, NEW r, NEW low, MapOK(C, r, low), NEW t \in Threads, EraseOverflow(t), ~strayed'
  PROVE  MapOK(C, r, low)'
  <1>1. at[t].pc = "del" /\ lock = NoThread /\ Return(t) /\ state[B(t)] # 1
        /\ overflow' = [overflow EXCEPT ![Key(t)] = 0] /\ stored' = [stored EXCEPT ![Key(t)] = 0]
        /\ UNCHANGED <<node, head, free, state, lock, calls, exact>>
    BY DEF EraseOverflow, At, Erased
  <1>2. CallOK(C, r, t, at[t]) /\ B(t) \in Buckets /\ MapTypes
    BY <1>1, InCall
  <1>3. state[B(t)] # 0 /\ state[B(t)] \in 0 .. 2
    BY <1>1, <1>2 DEF CallOK, B, MapTypes
  <1>4. state[B(t)] = 2
    BY <1>1, <1>3
  <1>5. 0 \in Nat /\ (state[B(t)] # 2 => Absent(C, Key(t))) /\ state[B(t)] # 0 /\ at[t].pc \in {"put", "del"}
    BY <1>1, <1>4
  <1> QED  BY <1>1, <1>5, OverflowKeeps

(* A thread claims the conversion.                                         *)
LEMMA TreeifyClaimKeeps ==
  ASSUME NEW C, NEW r, NEW low, MapOK(C, r, low), NEW t \in Threads, TreeifyClaim(t)
  PROVE  MapOK(C, r, low)'
  <1> DEFINE b == B(t)
  <1>1. at[t].pc = "convert" /\ exact' = exact /\ UNCHANGED <<node, head, free, overflow, lock, stored, calls>>
    BY DEF TreeifyClaim, At, history
  <1>2. MapTypes /\ exact /\ CallOK(C, r, t, at[t]) /\ Key(t) \in Keys /\ b \in Buckets /\ b = Hash[Key(t)]
    BY <1>1, InCall
  <1>3. CASE state[b] # 0
    BY <1>1, <1>2, <1>3, AfterTreeifyKeeps DEF TreeifyClaim
  <1>4. CASE state[b] = 0
    <2>1. Goto(t, "lock") /\ state' = [state EXCEPT ![b] = 1]
      BY <1>4 DEF TreeifyClaim
    <2>2. PICK a : Fits(t, a, "lock", at[t].then, at[t].idx, at[t].next, at[t].nxt)
      BY <1>2, <2>1, FitsGoto DEF MapPlaces
    <2>3. state' \in [Buckets -> 0 .. 2] /\ state'[b] = 1 /\ \A d \in Buckets : d # b => state'[d] = state[d]
      BY <1>2, <2>1 DEF MapTypes
    <2>4. StateStep(t, a)
      <3>1. \A u \in Threads : at[u].pc \in {"lock", "copy"} =>
              Hash[at[u].key] \in Buckets /\ Hash[at[u].key] # b /\ state[Hash[at[u].key]] = 1
        BY <1>4, Converting
      <3>2. at[t].pc \notin Hands \cup {"idle"} /\ a.pc \notin Hands /\ MovesTo(t, a) /\ Hash[a.key] = b
        BY <1>1, <1>2, <2>2 DEF Hands, Fits, B
      <3>3. stored \in [Keys -> Nat] /\ lock \in Threads \cup {NoThread} /\ overflow \in [Keys \cup {NoKey} -> Nat]
        BY <1>2 DEF MapTypes
      <3>4. \A d \in Buckets : state[d] # 0 => state'[d] # 0
        BY <2>3, <1>4
      <3>5. \A u \in Threads : at[u].pc \in {"lock", "copy"} => state'[Hash[at[u].key]] = 1
        BY <2>3, <3>1
      <3> HIDE DEF b
      <3> QED  BY <1>1, <2>3, <3>1, <3>2, <3>3, <3>4, <3>5 DEF StateStep
    <2>5. CallOK(C, r, t, a)'
      BY <1>1, <1>2, <2>2, <2>3 DEF CallOK, Fits, Inserting, Walking, Hands, B
    <2>6. ASSUME NEW q \in Keys PROVE KeyOK(C, q)'
      <3>1. Due(q)' = Due(q)
        BY <1>1, <2>2, OthersDue DEF Fits
      <3>2. KeyOK(C, q) /\ Hash[q] \in Buckets
        BY MapAssumption DEF MapOK
      <3>3. CASE Hash[q] # b
        BY <1>1, <2>3, <3>1, <3>2, <3>3 DEF KeyOK, Absent
      <3>4. CASE Hash[q] = b
        BY <1>1, <1>4, <2>3, <3>1, <3>2, <3>4 DEF KeyOK, Absent
      <3> QED  BY <3>3, <3>4
    <2> QED  BY <2>4, <2>5, <2>6, StateStepKeeps
  <1> QED  BY <1>3, <1>4

(* The copy starts at the head.                                            *)
LEMMA TreeifyLockKeeps ==
  ASSUME NEW C, NEW r, NEW low, MapOK(C, r, low), NEW t \in Threads, TreeifyLock(t)
  PROVE  MapOK(C, r, low)'
  <1> DEFINE b == B(t)
             n == head[b]
  <1>1. at[t].pc = "lock" /\ lock = NoThread /\ exact' = exact
        /\ UNCHANGED <<node, head, free, state, overflow, stored, calls>>
        /\ lock' = t /\ at' = [at EXCEPT ![t].pc = "copy", ![t].idx = n]
    BY DEF TreeifyLock, At, history
  <1>2. MapTypes /\ exact /\ CallOK(C, r, t, at[t]) /\ Key(t) \in Keys /\ b \in Buckets /\ b = Hash[Key(t)]
        /\ \A m \in C[b] : r[m] \in Int
    BY <1>1, InCall
  <1>3. n \in Slot
    BY <1>2 DEF MapTypes
  <1>4. PICK a : Fits(t, a, "copy", at[t].then, n, at[t].next, at[t].nxt)
    BY <1>1, <1>2, <1>3, FitsIdx DEF MapPlaces
  <1>5. \/ n = Nil /\ C[b] = {}
        \/ n \in C[b] /\ \A m \in C[b] : ~(r[m] < r[n])
    BY <1>2, FirstOf
  <1>6. StateStep(t, a)
    <2>1. \A u \in Threads : at[u].pc \in {"lock", "copy"} => state[Hash[at[u].key]] = 1
      BY Converting
    <2>2. \A u \in Threads : at[u].pc # "copy"
      BY <1>1, Converting
    <2>3. \A u \in Threads \ {t} : at[u].pc \in {"lock", "copy"} => Hash[at[u].key] # Hash[at[t].key]
      BY <1>1 DEF MapOK, OneConverts
    <2>4. at[t].pc \notin Hands \cup {"idle"} /\ a.pc \notin Hands /\ MovesTo(t, a) /\ a.key = at[t].key
      BY <1>1, <1>4 DEF Hands, Fits
    <2>5. stored \in [Keys -> Nat] /\ state \in [Buckets -> 0 .. 2] /\ overflow \in [Keys \cup {NoKey} -> Nat]
      BY <1>2 DEF MapTypes
    <2>6. lock' = t /\ exact' = exact /\ UNCHANGED <<node, head, free, state, overflow, stored, calls>>
      BY <1>1
    <2> QED  BY <2>1, <2>2, <2>3, <2>4, <2>5, <2>6 DEF StateStep
  <1>7. CallOK(C, r, t, a)'
    <2>1. lock' = t /\ UNCHANGED <<node, head, free, state, overflow, stored, calls>> /\ at[t].pc = "lock"
      BY <1>1
    <2>2. \A m \in C[b] : ~(n = Nil \/ r[m] < r[n])
      BY <1>1, <1>5, InCall
    <2> HIDE DEF n
    <2> QED  BY <1>2, <1>4, <1>5, <2>1, <2>2 DEF CallOK, Fits, Inserting, Walking, Hands, B
  <1>8. ASSUME NEW q \in Keys PROVE KeyOK(C, q)'
    <2>1. Due(q)' = Due(q)
      BY <1>1, <1>4, OthersDue DEF Fits
    <2>2. KeyOK(C, q)
      BY DEF MapOK
    <2> QED  BY <1>1, <2>1, <2>2 DEF KeyOK, Absent
  <1> QED  BY <1>6, <1>7, <1>8, StateStepKeeps


(* A node is copied: those before the next one are all copied.             *)
LEMMA TreeifyCopyKeeps ==
  ASSUME NEW C, NEW r, NEW low, MapOK(C, r, low), NEW t \in Threads, TreeifyCopy(t)
  PROVE  MapOK(C, r, low)'
  <1> DEFINE b == B(t)
             n == at[t].idx
             x == node[n].next
             k == node[n].ref
             o == node[n].order
  <1>1. at[t].pc = "copy" /\ exact' = exact /\ n # Nil
        /\ UNCHANGED <<node, head, free, state, lock, stored, calls>>
        /\ overflow' = [overflow EXCEPT ![k] = o] /\ at' = [at EXCEPT ![t].idx = x]
    BY DEF TreeifyCopy, At, history
  <1>2. MapTypes /\ exact /\ CallOK(C, r, t, at[t]) /\ Key(t) \in Keys /\ b \in Buckets /\ b = Hash[Key(t)]
        /\ C[b] \subseteq Nodes /\ \A m \in C[b] : r[m] \in Int
    BY <1>1, InCall
  <1>3. n \in C[b] /\ n \in Nodes /\ lock = t /\ state[b] = 1
    BY <1>1, <1>2 DEF CallOK, B
  <1>4. x \in Slot /\ o \in Nat /\ k \in Keys /\ Hash[k] = b
    BY <1>2, <1>3 DEF MapTypes, NodeFields, MapOK, Chains
  <1>5. PICK a : Fits(t, a, "copy", at[t].then, x, at[t].next, at[t].nxt)
    BY <1>1, <1>2, <1>4, FitsOnlyIdx
  <1>6. overflow' \in [Keys \cup {NoKey} -> Nat] /\ overflow'[k] = o
        /\ \A q \in Keys : q # k => overflow'[q] = overflow[q]
    BY <1>1, <1>2, <1>4 DEF MapTypes
  <1>7. StateStep(t, a)
    <2>1. \A u \in Threads : at[u].pc \in {"lock", "copy"} => state[Hash[at[u].key]] = 1
      BY Converting
    <2>2. \A u \in Threads \ {t} : at[u].pc # "copy"
      BY <1>3, Converting
    <2>3. \A u \in Threads \ {t} : at[u].pc \in {"lock", "copy"} => Hash[at[u].key] # Hash[at[t].key]
      BY <1>1 DEF MapOK, OneConverts
    <2>4. at[t].pc \notin Hands \cup {"idle"} /\ a.pc \notin Hands /\ MovesTo(t, a) /\ a.key = at[t].key
      BY <1>1, <1>5 DEF Hands, Fits
    <2>5. stored \in [Keys -> Nat] /\ state \in [Buckets -> 0 .. 2] /\ lock \in Threads \cup {NoThread}
      BY <1>2 DEF MapTypes
    <2>6. exact' = exact /\ UNCHANGED <<node, head, free, state, lock, stored, calls>>
      BY <1>1
    <2>7. overflow' \in [Keys \cup {NoKey} -> Nat]
      BY <1>6
    <2> QED  BY <2>1, <2>2, <2>3, <2>4, <2>5, <2>6, <2>7 DEF StateStep
  <1>8. CallOK(C, r, t, a)'
    <2>1. UNCHANGED <<node, head, free, state, lock, stored, calls>> /\ at[t].pc = "copy"
      BY <1>1
    <2>2. x = Nil \/ x \in C[b]
      BY <1>2, <1>3, AfterOf
    <2>3. ASSUME NEW m \in C[b], x = Nil \/ r[m] < r[x] PROVE overflow'[node[m].ref] = node[m].order
      <3>1. CASE m = n
        BY <1>6, <3>1
      <3>2. CASE m # n
        <4>1. r[m] <= r[n]
          <5>1. x = Nil => \A j \in C[b] : r[j] <= r[n]
            BY <1>1, <1>2, <1>3, InCall, AfterOf
          <5>2. x # Nil => x \in C[b] /\ (r[m] <= r[n] \/ r[x] <= r[m])
            BY <1>2, <1>3, AfterOf
          <5>3. x # Nil => r[x] \in Int
            BY <1>2, <5>2
          <5> HIDE DEF x
          <5> QED  BY <1>2, <2>3, <5>1, <5>2, <5>3
        <4>2. r[m] # r[n] /\ node[m].ref # k
          BY <1>2, <1>3, <3>2, RankIsUnique
        <4>3. r[m] < r[n]
          BY <1>2, <1>3, <4>1, <4>2
        <4>4. overflow[node[m].ref] = node[m].order
          BY <1>1, <1>2, <4>3 DEF CallOK, B
        <4>5. node[m].ref \in Keys
          BY <1>2 DEF MapOK, Chains
        <4> QED  BY <1>6, <4>2, <4>4, <4>5
      <3> QED  BY <3>1, <3>2
    <2> HIDE DEF x
    <2> QED  BY <1>2, <1>3, <1>5, <2>1, <2>2, <2>3 DEF CallOK, Fits, Inserting, Walking, Hands, B
  <1>9. ASSUME NEW q \in Keys PROVE KeyOK(C, q)'
    <2>1. Due(q)' = Due(q)
      BY <1>1, <1>5, OthersDue DEF Fits
    <2>2. KeyOK(C, q)
      BY DEF MapOK
    <2>3. CASE q # k
      <3>1. overflow'[q] = overflow[q] /\ UNCHANGED <<node, state>>
        BY <1>1, <1>6, <2>3
      <3> QED  BY <2>1, <2>2, <3>1 DEF KeyOK, Absent
    <2>4. CASE q = k
      <3>1. state'[Hash[q]] = 1 /\ UNCHANGED <<node, state>> /\ overflow'[q] = o
        BY <1>1, <1>3, <1>4, <1>6, <2>4
      <3>2. \A m \in C[Hash[q]] : node[m].ref = q => m = n
        BY <1>2, <1>3, <1>4, <2>4, RankIsUnique
      <3>3. ~Absent(C, q)'
        BY <1>3, <1>4, <2>4, <3>1 DEF Absent
      <3>4. Due(q) = o
        BY <1>3, <1>4, <2>2, <2>4, <3>1 DEF KeyOK
      <3>5. \A m \in C[Hash[q]] : node'[m].ref = q => Due(q)' = node'[m].order /\ overflow'[q] \in {0, node'[m].order}
        BY <2>1, <3>1, <3>2, <3>4
      <3> QED  BY <3>1, <3>3, <3>5 DEF KeyOK
    <2> QED  BY <2>3, <2>4
  <1> QED  BY <1>7, <1>8, <1>9, StateStepKeeps

(* At the end of the chain all of it is copied.                            *)
LEMMA TreeifyDoneKeeps ==
  ASSUME NEW C, NEW r, NEW low, MapOK(C, r, low), NEW t \in Threads, TreeifyDone(t)
  PROVE  MapOK(C, r, low)'
  <1> DEFINE b == B(t)
  <1>1. at[t].pc = "copy" /\ exact' = exact /\ at[t].idx = Nil
        /\ UNCHANGED <<node, head, free, overflow, stored, calls>>
        /\ state' = [state EXCEPT ![b] = 2] /\ lock' = NoThread /\ AfterTreeify(t)
    BY DEF TreeifyDone, At, history
  <1>2. MapTypes /\ exact /\ CallOK(C, r, t, at[t]) /\ Key(t) \in Keys /\ b \in Buckets /\ b = Hash[Key(t)]
        /\ C[b] \subseteq Nodes
    BY <1>1, InCall
  <1>3. state[b] = 1 /\ lock = t /\ \A m \in C[b] : overflow[node[m].ref] = node[m].order
    BY <1>1, <1>2 DEF CallOK, B
  <1>4. state' \in [Buckets -> 0 .. 2] /\ state'[b] = 2 /\ \A d \in Buckets : d # b => state'[d] = state[d]
    BY <1>1, <1>2 DEF MapTypes
  <1>5. \E a : MovesTo(t, a) /\ (a.pc = "idle" \/ (a.pc = "put" /\ a.key = at[t].key /\ at[t].then = "put"))
    <2>1. CASE Return(t)
      BY <1>2, <2>1, FitsReturn
    <2>2. CASE at[t].then = "put" /\ Goto(t, "put")
      BY <1>2, <2>2, FitsGoto DEF MapPlaces, Fits
    <2> QED  BY <1>1, <2>1, <2>2 DEF AfterTreeify
  <1>6. PICK a : MovesTo(t, a) /\ (a.pc = "idle" \/ (a.pc = "put" /\ a.key = at[t].key /\ at[t].then = "put"))
    BY <1>5
  <1>7. StateStep(t, a)
    <2>1. \A u \in Threads \ {t} : at[u].pc # "copy"
      BY <1>3, Converting
    <2>2. \A u \in Threads \ {t} : at[u].pc \in {"lock", "copy"} =>
            state[Hash[at[u].key]] = 1 /\ Hash[at[u].key] \in Buckets /\ Hash[at[u].key] # b
      BY <1>1, Converting DEF MapOK, OneConverts, B
    <2>3. \A u \in Threads \ {t} : at[u].pc \in {"lock", "copy"} => state'[Hash[at[u].key]] = 1
      BY <1>4, <2>2
    <2>4. at[t].pc \notin Hands \cup {"idle"} /\ a.pc \notin Hands /\ MovesTo(t, a) /\ a.pc \notin {"lock", "copy"}
      BY <1>1, <1>6 DEF Hands
    <2>5. stored \in [Keys -> Nat] /\ overflow \in [Keys \cup {NoKey} -> Nat] /\ lock' \in Threads \cup {NoThread}
      BY <1>1, <1>2 DEF MapTypes
    <2>6. exact' = exact /\ UNCHANGED <<node, head, free, overflow, stored, calls>>
      BY <1>1
    <2>7. \A d \in Buckets : state[d] # 0 => state'[d] # 0
      BY <1>4
    <2>8. state' \in [Buckets -> 0 .. 2]
      BY <1>4
    <2> HIDE DEF b
    <2> QED  BY <2>1, <2>3, <2>4, <2>5, <2>6, <2>7, <2>8 DEF StateStep
  <1>8. CallOK(C, r, t, a)'
    BY <1>1, <1>2, <1>4, <1>6 DEF CallOK, Inserting, Walking, Hands, B
  <1>9. ASSUME NEW q \in Keys PROVE KeyOK(C, q)'
    <2>1. Due(q)' = Due(q)
      BY <1>1, <1>6, OthersDue
    <2>2. KeyOK(C, q) /\ Hash[q] \in Buckets
      BY MapAssumption DEF MapOK
    <2>3. CASE Hash[q] # b
      BY <1>1, <1>4, <2>1, <2>2, <2>3 DEF KeyOK, Absent
    <2>4. CASE Hash[q] = b
      <3>1. overflow[q] = Due(q)
        <4>1. CASE Absent(C, q)
          BY <1>3, <2>2, <2>4, <4>1 DEF KeyOK
        <4>2. CASE ~Absent(C, q)
          <5>1. PICK m \in C[Hash[q]] : node[m].ref = q
            BY <4>2 DEF Absent
          <5> QED  BY <1>3, <2>2, <2>4, <5>1 DEF KeyOK
        <4> QED  BY <4>1, <4>2
      <3>2. overflow' = overflow /\ state'[Hash[q]] = 2
        BY <1>1, <1>4, <2>4
      <3> QED  BY <2>1, <3>1, <3>2 DEF KeyOK
    <2> QED  BY <2>3, <2>4
  <1> QED  BY <1>7, <1>8, <1>9, StateStepKeeps


----------------------------------------------------------------------------
(* A node goes to the front of its chain.                                  *)
Fronted(C, b, n) == [C EXCEPT ![b] = @ \cup {n}]
Ranked(r, n, low) == [r EXCEPT ![n] = low]

(* What holds when the CAS of InsertPublish succeeds; D and s are the new  *)
(* chains and ranks.                                                       *)
PublishStep(C, r, low, t, a, b, n, D, s) ==
  /\ MovesTo(t, a) /\ a.pc = "count" /\ a.idx = n /\ a.key = at[t].key
  /\ UNCHANGED <<node, free, state, overflow, lock, stored, calls>> /\ exact' = exact
  /\ head' \in [Buckets -> Slot] /\ head'[b] = n /\ \A d \in Buckets : d # b => head'[d] = head[d]
  /\ b \in Buckets /\ b = Hash[at[t].key] /\ at[t].key \in Keys /\ Owner[at[t].key] = t
  /\ at[t].pc = "publish" /\ at[t].idx = n /\ n \in Nodes
  /\ \A d \in Buckets : n \notin C[d]
  /\ node[n].next = head[b] /\ node[n].ref = at[t].key /\ node[n].bucket = b /\ node[n].order > 0
  /\ state[b] = 0 /\ stored[at[t].key] = 0 /\ Absent(C, at[t].key)
  /\ D \in [Buckets -> SUBSET Nodes] /\ s \in [Nodes -> Int]
  /\ D[b] = C[b] \cup {n} /\ \A d \in Buckets : d # b => D[d] = C[d]
  /\ s[n] = low /\ \A m \in Nodes : m # n => s[m] = r[m]

(* insert's CAS, when nothing strayed: the new node is in front of its     *)
(* chain.                                                                  *)
LEMMA PublishIs ==
  ASSUME NEW C, NEW r, NEW low, MapOK(C, r, low), NEW t \in Threads, InsertPublish(t), ~strayed',
         head[B(t)] = at[t].next
  PROVE  \E a : PublishStep(C, r, low, t, a, B(t), at[t].idx, Fronted(C, B(t), at[t].idx),
                            Ranked(r, at[t].idx, low))
  <1> DEFINE n == at[t].idx
             b == B(t)
             D == Fronted(C, b, n)
             s == Ranked(r, n, low)
  <1>1. at[t].pc = "publish" /\ exact' = exact /\ state[b] = 0 /\ Goto(t, "count")
        /\ UNCHANGED <<node, free, state, overflow, lock, stored, calls>>
        /\ head' = [head EXCEPT ![b] = n]
    BY DEF InsertPublish, At, history
  <1>2. MapTypes /\ exact /\ CallOK(C, r, t, at[t]) /\ Key(t) \in Keys /\ b \in Buckets /\ b = Hash[Key(t)]
        /\ Owner[Key(t)] = t /\ KeyOK(C, Key(t)) /\ Key(t) = at[t].key
    BY <1>1, InCall DEF Key
  <1>3. n \in Nodes /\ node[n].next = at[t].next /\ node[n].ref = Key(t) /\ node[n].bucket = b /\ node[n].order > 0
        /\ stored[Key(t)] = 0
    BY <1>1, <1>2 DEF CallOK, Inserting, Hands, Key, B
  <1>4. InHandOf(t, n)
    BY <1>1 DEF InHandOf, Hands
  <1>5. \A d \in Buckets : n \notin C[d]
    BY <1>3, <1>4, LooseIs DEF MapOK, Accounted
  <1>6. PICK a : Fits(t, a, "count", at[t].then, at[t].idx, at[t].next, at[t].nxt)
    BY <1>1, <1>2, FitsGoto DEF MapPlaces
  <1>7. Absent(C, Key(t))
    <2>1. Due(Key(t)) = 0
      BY <1>1, <1>2, <1>3 DEF Due
    <2>2. \A m \in C[b] : node[m].order > 0
      BY <1>2 DEF MapOK, Chains
    <2> QED  BY <1>1, <1>2, <2>1, <2>2 DEF KeyOK, Absent
  <1>8. C \in [Buckets -> SUBSET Nodes] /\ r \in [Nodes -> Int] /\ low \in Int
    BY DEF MapOK, Chains
  <1>9. D \in [Buckets -> SUBSET Nodes] /\ D[b] = C[b] \cup {n} /\ \A d \in Buckets : d # b => D[d] = C[d]
    BY <1>2, <1>3, <1>8 DEF Fronted
  <1>10. s \in [Nodes -> Int] /\ s[n] = low /\ \A m \in Nodes : m # n => s[m] = r[m]
    BY <1>3, <1>8 DEF Ranked
  <1>11. head' \in [Buckets -> Slot] /\ head'[b] = n /\ \A d \in Buckets : d # b => head'[d] = head[d]
    <2>1. n \in Slot
      BY <1>3, MapAssumption DEF Nodes, Slot
    <2> QED  BY <1>1, <1>2, <2>1 DEF MapTypes
  <1>12. MovesTo(t, a) /\ a.pc = "count" /\ a.idx = n /\ a.key = at[t].key
    BY <1>6 DEF Fits
  <1>13. node[n].next = head[b]
    BY <1>3
  <1>14. UNCHANGED <<node, free, state, overflow, lock, stored, calls>> /\ exact' = exact /\ at[t].pc = "publish" /\ at[t].idx = n /\ state[b] = 0
    BY <1>1
  <1>15. PublishStep(C, r, low, t, a, b, n, D, s)
    <2> HIDE DEF n, b, D, s
    <2> QED  BY <1>2, <1>3, <1>5, <1>7, <1>9, <1>10, <1>11, <1>12, <1>13, <1>14 DEF PublishStep
  <1> QED  BY <1>15

(* The new front has the lowest rank.                                      *)
LEMMA PublishChains ==
  ASSUME NEW C, NEW r, NEW low, MapOK(C, r, low), NEW t \in Threads, NEW a, NEW b, NEW n, NEW D, NEW s,
         PublishStep(C, r, low, t, a, b, n, D, s)
  PROVE  Chains(D, s, low - 1)'
  <1>1. node' = node /\ head'[b] = n /\ (\A d \in Buckets : d # b => head'[d] = head[d]) /\ b \in Buckets
        /\ n \in Nodes /\ (\A d \in Buckets : n \notin C[d])
        /\ D \in [Buckets -> SUBSET Nodes] /\ s \in [Nodes -> Int]
        /\ D[b] = C[b] \cup {n} /\ (\A d \in Buckets : d # b => D[d] = C[d])
        /\ s[n] = low /\ (\A m \in Nodes : m # n => s[m] = r[m])
        /\ node[n].next = head[b] /\ node[n].bucket = b /\ node[n].order > 0 /\ node[n].ref \in Keys
        /\ Hash[node[n].ref] = b /\ \A m \in C[b] : node[m].ref # node[n].ref
    BY DEF PublishStep, Absent
  <1>2. Chains(C, r, low) /\ C \in [Buckets -> SUBSET Nodes] /\ r \in [Nodes -> Int] /\ low \in Int
    BY DEF MapOK, Chains
  <1>3. ASSUME NEW d \in Buckets, NEW m \in C[d]
        PROVE  m \in Nodes /\ m # n /\ s[m] = r[m] /\ r[m] \in Int /\ low < s[m] /\ IsAfter(C[d], r, m, node[m].next)
               /\ node[m].bucket = d /\ node[m].order > 0 /\ node[m].ref \in Keys /\ Hash[node[m].ref] = d
    <2>1. m \in Nodes /\ m # n
      BY <1>1, <1>2
    <2> QED  BY <1>1, <1>2, <2>1 DEF Chains
  <1>4. ASSUME NEW d \in Buckets PROVE IsFirst(D[d], s, head'[d])
    <2>1. CASE d = b
      <3>1. \A m \in D[b] : s[n] <= s[m]
        BY <1>1, <1>2, <1>3
      <3> QED  BY <1>1, <2>1, <3>1 DEF IsFirst
    <2>2. CASE d # b
      BY <1>1, <1>2, <1>3, <2>2 DEF Chains, IsFirst
    <2> QED  BY <2>1, <2>2
  <1>5. ASSUME NEW d \in Buckets, NEW m \in D[d] PROVE IsAfter(D[d], s, m, node[m].next)
    <2>1. CASE d # b
      BY <1>1, <1>3, <2>1 DEF IsAfter
    <2>2. CASE d = b /\ m # n
      <3>1. m \in C[b] /\ IsAfter(C[b], r, m, node[m].next)
        BY <1>1, <1>3, <2>2
      <3>2. \A j \in D[b] : s[j] <= s[m] \/ j \in C[b]
        BY <1>1, <1>2, <1>3, <3>1
      <3>3. CASE node[m].next = Nil /\ \A j \in C[b] : r[j] <= r[m]
        BY <1>1, <1>3, <2>2, <3>1, <3>2, <3>3 DEF IsAfter
      <3>4. CASE node[m].next \in C[b] /\ r[m] < r[node[m].next]
                 /\ \A j \in C[b] : r[j] <= r[m] \/ r[node[m].next] <= r[j]
        BY <1>1, <1>3, <2>2, <3>1, <3>2, <3>4 DEF IsAfter
      <3> QED  BY <3>1, <3>3, <3>4 DEF IsAfter
    <2>3. CASE d = b /\ m = n
      <3>1. IsFirst(C[b], r, head[b])
        BY <1>1, <1>2 DEF Chains
      <3>2. CASE head[b] = Nil /\ C[b] = {}
        BY <1>1, <1>2, <2>3, <3>2 DEF IsAfter
      <3>3. CASE head[b] \in C[b] /\ \A j \in C[b] : r[head[b]] <= r[j]
        BY <1>1, <1>2, <1>3, <2>3, <3>3 DEF IsAfter
      <3> QED  BY <3>1, <3>2, <3>3 DEF IsFirst
    <2> QED  BY <2>1, <2>2, <2>3
  <1>6. ASSUME NEW d \in Buckets, NEW i \in D[d], NEW j \in D[d], s[j] = s[i] \/ node[j].ref = node[i].ref
        PROVE  j = i
    <2>1. CASE i \in C[d] /\ j \in C[d]
      BY <1>3, <1>6, <2>1, RankIsUnique
    <2>2. CASE ~(i \in C[d] /\ j \in C[d])
      <3>1. d = b
        BY <1>1, <2>2
      <3> QED  BY <1>1, <1>2, <1>3, <1>6, <2>2, <3>1
    <2> QED  BY <2>1, <2>2
  <1>7. ASSUME NEW d \in Buckets, NEW m \in D[d]
        PROVE  low - 1 < s[m] /\ node[m].bucket = d /\ node[m].order > 0 /\ node[m].ref \in Keys /\ Hash[node[m].ref] = d
    <2>1. CASE m \in C[d]
      BY <1>2, <1>3, <2>1
    <2>2. CASE m \notin C[d]
      BY <1>1, <1>2, <2>2
    <2> QED  BY <2>1, <2>2
  <1>8. low - 1 \in Int
    BY <1>2
  <1> QED  BY <1>1, <1>4, <1>5, <1>6, <1>7, <1>8 DEF Chains

(* A walk is not disturbed by a node in front of it with another key.      *)
LEMMA PublishOthers ==
  ASSUME NEW C, NEW r, NEW low, MapOK(C, r, low), NEW t \in Threads, NEW a, NEW b, NEW n, NEW D, NEW s,
         PublishStep(C, r, low, t, a, b, n, D, s), NEW u \in Threads, u # t, NEW c, c = at[u]
  PROVE  CallOK(D, s, u, c)'
  <1>1. CASE c.pc = "idle"
    BY <1>1 DEF CallOK
  <1>2. CASE c.pc # "idle"
    <2> DEFINE k == c.key
               d == Hash[c.key]
    <2>1. CallOK(C, r, u, c) /\ k \in Keys /\ Owner[k] = u /\ d \in Buckets /\ C[d] \subseteq Nodes
          /\ Nil \notin C[d] /\ \A m \in C[d] : r[m] \in Int
      BY <1>2, InCall DEF Key, B
    <2>2. UNCHANGED <<node, state, overflow, lock, stored>> /\ node[n].ref # k /\ n \in Nodes /\ s[n] = low /\ state[b] = 0
      BY <2>1 DEF PublishStep
    <2>3. C[d] \subseteq D[d] /\ \A m \in D[d] : m \in C[d] \/ m = n
      BY <2>1 DEF PublishStep
    <2>4. \A m \in C[d] : m # n /\ s[m] = r[m] /\ low < r[m] /\ low \in Int
      BY <2>1 DEF PublishStep, MapOK, Chains
    <2>5. (Consistent(C, k) => Consistent(D, k)') /\ (Absent(C, k) => Absent(D, k)')
      BY <2>2, <2>3 DEF Consistent, Absent
    <2>6. \A i \in C[d] : (AtOrBehind(C, r, k, i) => AtOrBehind(D, s, k, i)') /\ (Behind(C, r, k, i) => Behind(D, s, k, i)')
      BY <2>2, <2>3, <2>4 DEF AtOrBehind, Behind
    <2>7. Behind(D, s, k, n)' /\ AtOrBehind(D, s, k, n)'
      <3>1. \A m \in D[d] : node'[m].ref = k => s[n] < s[m] /\ s[n] <= s[m]
        BY <2>1, <2>2, <2>3, <2>4
      <3> QED  BY <3>1 DEF AtOrBehind, Behind
    <2>8. \A i \in D[d] : (i \in C[d] => AtOrBehind(C, r, k, i)) => AtOrBehind(D, s, k, i)'
      BY <2>3, <2>6, <2>7
    <2>9. \A i \in D[d] : (i \in C[d] => Behind(C, r, k, i)) => Behind(D, s, k, i)'
      BY <2>3, <2>6, <2>7
    <2>10. c.pc = "copy" => state[d] = 1 /\ D[d] = C[d] /\ lock = u /\ (c.idx = Nil \/ c.idx \in C[d])
             /\ \A i \in C[d] : c.idx = Nil \/ s[i] < s[c.idx] => overflow[node[i].ref] = node[i].order
      <3>1. SUFFICES ASSUME c.pc = "copy"
            PROVE state[d] = 1 /\ D[d] = C[d] /\ lock = u /\ (c.idx = Nil \/ c.idx \in C[d])
             /\ \A i \in C[d] : c.idx = Nil \/ s[i] < s[c.idx] => overflow[node[i].ref] = node[i].order
        OBVIOUS
      <3>2. state[d] = 1 /\ lock = u /\ (c.idx = Nil \/ c.idx \in C[d])
            /\ \A i \in C[d] : c.idx = Nil \/ r[i] < r[c.idx] => overflow[node[i].ref] = node[i].order
        BY <1>2, <2>1, <3>1 DEF CallOK
      <3>3. D[d] = C[d]
        BY <2>1, <2>2, <3>2 DEF PublishStep
      <3> QED  BY <2>4, <3>2, <3>3
    <2> HIDE DEF k, d
    <2>11. CallOK(D, s, u, c)'
      <3> USE DEF k, d
      <3> QED  BY <1>2, <2>1, <2>2, <2>3, <2>5, <2>6, <2>8, <2>9, <2>10 DEF CallOK, Inserting, Walking, Hands
    <2> QED  BY <2>11
  <1> QED  BY <1>1, <1>2


(* The published node left its thread's hand for one chain.                *)
LEMMA PublishAccounted ==
  ASSUME NEW C, NEW r, NEW low, MapOK(C, r, low), NEW t \in Threads, NEW a, NEW b, NEW n, NEW D, NEW s,
         PublishStep(C, r, low, t, a, b, n, D, s)
  PROVE  Accounted(D)'
  <1>1. MapTypes /\ Accounted(C)
    BY DEF MapOK
  <1>2. \A u \in Threads : at'[u] = IF u = t THEN a ELSE at[u]
    BY <1>1, MovedAt DEF PublishStep
  <1>3. InHandOf(t, n) /\ (\A m : InHandOf(t, m) => m = n) /\ n \in Nodes
    BY DEF InHandOf, Hands, PublishStep
  <1>4. ~OnFree(n) /\ \A u \in Threads : InHandOf(u, n) => u = t
    BY <1>1, <1>3 DEF Accounted
  <1>5. \A u \in Threads : \A m : InHandOf(u, m)' <=> u # t /\ InHandOf(u, m)
    BY <1>2 DEF InHandOf, PublishStep, Hands
  <1>6. free' = free /\ \A m : OnFree(m)' <=> OnFree(m)
    BY DEF OnFree, PublishStep
  <1>7. \A m : Loose(m)' <=> Loose(m) /\ m # n
    <2>1. \A m : Loose(m)' => Loose(m) /\ m # n
      BY <1>3, <1>4, <1>5, <1>6, LooseIs, LooseNext
    <2>2. \A m : Loose(m) /\ m # n => Loose(m)'
      BY <1>3, <1>5, <1>6, LooseIs, LooseNext
    <2> QED  BY <2>1, <2>2
  <1>8. \A m \in Nodes : (\A d \in Buckets : m \notin D[d]) <=> m # n /\ \A d \in Buckets : m \notin C[d]
    <2>1. b \in Buckets /\ D[b] = C[b] \cup {n} /\ \A d \in Buckets : d # b => D[d] = C[d]
      BY DEF PublishStep
    <2>2. n \in D[b] /\ \A m : \A d \in Buckets : m \in C[d] => m \in D[d]
      BY <2>1
    <2>3. \A m : \A d \in Buckets : m \in D[d] /\ m # n => m \in C[d]
      BY <2>1
    <2> QED  BY <2>1, <2>2, <2>3
  <1> QED  BY <1>1, <1>5, <1>6, <1>7, <1>8 DEF Accounted

(* The chains with the new node in front keep the invariant, one rank      *)
(* lower.                                                                  *)
LEMMA PublishKeeps ==
  ASSUME NEW C, NEW r, NEW low, MapOK(C, r, low), NEW t \in Threads, NEW a, NEW b, NEW n, NEW D, NEW s,
         PublishStep(C, r, low, t, a, b, n, D, s)
  PROVE  MapOK(D, s, low - 1)'
  <1> DEFINE k == at[t].key
  <1>1. MapTypes /\ OneConverts /\ CallsCounted /\ exact
    BY DEF MapOK
  <1>2. at' \in [Threads -> CallFields] /\ \A u \in Threads : at'[u] = IF u = t THEN a ELSE at[u]
    BY <1>1, MovedAt DEF PublishStep
  <1>3. MapTypes'
    BY <1>1, <1>2 DEF MapTypes, PublishStep
  <1>4. OneConverts' /\ CallsCounted' /\ exact'
    BY <1>1, <1>2 DEF OneConverts, CallsCounted, PublishStep
  <1>5. ASSUME NEW u \in Threads PROVE CallOK(D, s, u, at[u])'
    <2>1. PICK c : c = at'[u]
      OBVIOUS
    <2>2. CallOK(D, s, u, c)'
      <3>1. CASE u # t
        BY <1>2, <2>1, <3>1, PublishOthers
      <3>2. CASE u = t
        <4>1. c = a
          BY <1>2, <2>1, <3>2
        <4> QED  BY <3>2, <4>1 DEF PublishStep, CallOK, Inserting, Walking, Hands
      <3> QED  BY <3>1, <3>2
    <2> QED  BY <2>1, <2>2 DEF CallOK
  <1>6. ASSUME NEW q \in Keys PROVE KeyOK(D, q)'
    <2>1. KeyOK(C, q) /\ Hash[q] \in Buckets
      BY MapAssumption DEF MapOK
    <2>2. CASE q = k
      <3>1. at'[t] = a
        BY <1>2
      <3>2. Due(q)' = node[n].order
        BY <2>2, <3>1 DEF Due, PublishStep
      <3>3. Hash[q] = b /\ n \in D[b] /\ node[n].ref = q /\ state'[b] = 0 /\ node' = node
            /\ \A m \in D[b] : node[m].ref = q => m = n
        BY <2>2 DEF PublishStep, Absent
      <3>4. overflow'[q] = 0
        BY <2>1, <2>2, <3>3 DEF KeyOK, PublishStep
      <3>5. ~Absent(D, q)'
        BY <3>3 DEF Absent
      <3> QED  BY <3>2, <3>3, <3>4, <3>5 DEF KeyOK
    <2>3. CASE q # k
      <3>1. Due(q)' = Due(q)
        BY <2>3, OthersDue DEF PublishStep
      <3>2. \A m \in D[Hash[q]] : node[m].ref = q => m \in C[Hash[q]]
        BY <2>1, <2>3 DEF PublishStep
      <3>3. C[Hash[q]] \subseteq D[Hash[q]]
        BY <2>1 DEF PublishStep
      <3>4. Absent(D, q)' <=> Absent(C, q)
        BY <3>2, <3>3 DEF Absent, PublishStep
      <3>5. UNCHANGED <<node, state, overflow>>
        BY DEF PublishStep
      <3> QED  BY <2>1, <3>1, <3>2, <3>4, <3>5 DEF KeyOK
    <2> QED  BY <2>2, <2>3
  <1> QED  BY <1>3, <1>4, <1>5, <1>6, PublishChains, PublishAccounted DEF MapOK

(* A node is published.                                                    *)
LEMMA InsertPublishKeeps ==
  ASSUME NEW C, NEW r, NEW low, MapOK(C, r, low), NEW t \in Threads, InsertPublish(t), ~strayed'
  PROVE  MapInv'
  <1>1. at[t].pc = "publish" /\ exact' = exact /\ UNCHANGED <<node, free, state, overflow, lock, stored, calls>>
    BY DEF InsertPublish, At, history
  <1>2. CASE head[B(t)] # at[t].next
    <2>1. MapOK(C, r, low)'
      BY <1>1, <1>2, HoldKeeps DEF InsertPublish
    <2> QED  BY <2>1 DEF MapInv
  <1>3. CASE head[B(t)] = at[t].next
    <2>1. PICK a : PublishStep(C, r, low, t, a, B(t), at[t].idx, Fronted(C, B(t), at[t].idx),
                               Ranked(r, at[t].idx, low))
      BY <1>3, PublishIs
    <2>2. PICK b, n, D, s : PublishStep(C, r, low, t, a, b, n, D, s)
      BY <2>1
    <2>3. MapOK(D, s, low - 1)'
      BY <2>2, PublishKeeps
    <2>4. PICK low2 : low2 = low - 1
      OBVIOUS
    <2>5. MapOK(D, s, low2)'
      BY <2>3, <2>4
    <2> QED  BY <2>5 DEF MapInv
  <1> QED  BY <1>2, <1>3


----------------------------------------------------------------------------
(* A node leaves its chain.                                                *)
(* What holds when the CAS of HeadCas or WalkCas succeeds.                 *)
RemoveStep(C, r, t, a, b, n, D) ==
  /\ MovesTo(t, a) /\ a.pc = "release" /\ a.idx = n /\ a.key = at[t].key
  /\ UNCHANGED <<free, state, overflow, lock, stored, calls>> /\ exact' = exact
  /\ head' \in [Buckets -> Slot] /\ \A d \in Buckets : d # b => head'[d] = head[d]
  /\ node' \in [Nodes -> NodeFields]
  /\ \A m \in Nodes :
       /\ node'[m].ref = node[m].ref /\ node'[m].order = node[m].order /\ node'[m].bucket = node[m].bucket
       /\ m \notin C[b] => node'[m].next = node[m].next
  /\ b \in Buckets /\ b = Hash[at[t].key] /\ at[t].key \in Keys /\ Owner[at[t].key] = t
  /\ at[t].pc \notin Hands \cup {"idle", "count", "lock", "copy"}
  /\ n \in C[b] /\ node[n].ref = at[t].key /\ state[b] = 0
  /\ \A u \in Threads \ {t} : ~(at[u].idx = n /\ at[u].pc \in {"find_next", "walk_next"})
  /\ D \in [Buckets -> SUBSET Nodes] /\ D[b] = C[b] \ {n} /\ \A d \in Buckets : d # b => D[d] = C[d]
  /\ IsFirst(D[b], r, head'[b]) /\ \A m \in D[b] : IsAfter(D[b], r, m, node'[m].next)

(* A node is in one chain.                                                 *)
LEMMA OneChain ==
  ASSUME NEW C, NEW r, NEW low, MapOK(C, r, low), NEW b \in Buckets, NEW d \in Buckets,
         NEW n, n \in C[b], n \in C[d]
  PROVE  b = d
  BY DEF MapOK, Chains

(* A chain without one node still spells its nodes in rising rank.         *)
LEMMA RemoveChains ==
  ASSUME NEW C, NEW r, NEW low, MapOK(C, r, low), NEW t \in Threads, NEW a, NEW b, NEW n, NEW D,
         RemoveStep(C, r, t, a, b, n, D)
  PROVE  Chains(D, r, low)'
  <1>1. b \in Buckets /\ D \in [Buckets -> SUBSET Nodes] /\ D[b] = C[b] \ {n}
        /\ (\A d \in Buckets : d # b => D[d] = C[d])
    BY DEF RemoveStep
  <1>2. \A d \in Buckets : D[d] \subseteq C[d] /\ C[d] \subseteq Nodes
    BY <1>1 DEF MapOK, Chains
  <1>3. ASSUME NEW d \in Buckets PROVE IsFirst(D[d], r, head'[d])
    <2>1. CASE d = b
      BY <2>1 DEF RemoveStep
    <2>2. CASE d # b
      BY <1>1, <2>2 DEF RemoveStep, MapOK, Chains
    <2> QED  BY <2>1, <2>2
  <1>4. ASSUME NEW d \in Buckets, NEW m \in D[d] PROVE IsAfter(D[d], r, m, node'[m].next)
    <2>1. CASE d = b
      BY <2>1 DEF RemoveStep
    <2>2. CASE d # b
      <3>1. m \in C[d] /\ m \notin C[b] /\ m \in Nodes /\ D[d] = C[d]
        BY <1>1, <1>2, <2>2, OneChain
      <3>2. node'[m].next = node[m].next
        BY <3>1 DEF RemoveStep
      <3>3. IsAfter(C[d], r, m, node[m].next)
        BY <3>1 DEF MapOK, Chains
      <3> QED  BY <3>1, <3>2, <3>3
    <2> QED  BY <2>1, <2>2
  <1>5. ASSUME NEW d \in Buckets, NEW m \in D[d]
        PROVE  low < r[m] /\ node'[m].bucket = d /\ node'[m].order > 0 /\ node'[m].ref \in Keys /\ Hash[node'[m].ref] = d
    <2>1. m \in C[d] /\ m \in Nodes
      BY <1>2
    <2>2. low < r[m] /\ node[m].bucket = d /\ node[m].order > 0 /\ node[m].ref \in Keys /\ Hash[node[m].ref] = d
      BY <2>1 DEF MapOK, Chains
    <2> QED  BY <2>1, <2>2 DEF RemoveStep
  <1>6. ASSUME NEW d \in Buckets, NEW i \in D[d], NEW j \in D[d], r[j] = r[i] \/ node'[j].ref = node'[i].ref
        PROVE  j = i
    <2>1. i \in C[d] /\ j \in C[d] /\ i \in Nodes /\ j \in Nodes
      BY <1>2
    <2>2. node'[j].ref = node[j].ref /\ node'[i].ref = node[i].ref
      BY <2>1 DEF RemoveStep
    <2> QED  BY <1>6, <2>1, <2>2, RankIsUnique
  <1>7. r \in [Nodes -> Int] /\ low \in Int
    BY DEF MapOK, Chains
  <1> QED  BY <1>1, <1>3, <1>4, <1>5, <1>6, <1>7 DEF Chains

(* Nobody stands on the node that goes, and the others look for other      *)
(* keys.                                                                   *)
LEMMA RemoveOthers ==
  ASSUME NEW C, NEW r, NEW low, MapOK(C, r, low), NEW t \in Threads, NEW a, NEW b, NEW n, NEW D,
         RemoveStep(C, r, t, a, b, n, D), NEW u \in Threads, u # t, NEW c, c = at[u]
  PROVE  CallOK(D, r, u, c)'
  <1>1. CASE c.pc = "idle"
    BY <1>1 DEF CallOK
  <1>2. CASE c.pc # "idle"
    <2> DEFINE k == c.key
               d == Hash[c.key]
    <2>1. CallOK(C, r, u, c) /\ k \in Keys /\ Owner[k] = u /\ d \in Buckets /\ C[d] \subseteq Nodes
          /\ Nil \notin C[d]
      BY <1>2, InCall DEF Key, B
    <2>2. UNCHANGED <<state, overflow, lock, stored>> /\ node[n].ref # k /\ state[b] = 0
          /\ \A m \in Nodes : node'[m].ref = node[m].ref /\ node'[m].order = node[m].order /\ node'[m].bucket = node[m].bucket
      BY <2>1 DEF RemoveStep
    <2>3. D[d] \subseteq C[d] /\ \A m \in C[d] : m \in D[d] \/ m = n
      BY <2>1 DEF RemoveStep
    <2>4. \A m \in C[d] : node[m].ref = k => m \in D[d]
      BY <2>2, <2>3
    <2>5. (Consistent(C, k) => Consistent(D, k)') /\ (Absent(C, k) => Absent(D, k)')
      <3>1. Absent(D, k)' => Absent(C, k)
        BY <2>1, <2>2, <2>4 DEF Absent
      <3>2. Absent(C, k) => Absent(D, k)'
        BY <2>1, <2>2, <2>3 DEF Absent
      <3>3. Consistent(C, k) => \A m \in D[d] : node'[m].ref = k => stored'[k] = node'[m].order
        BY <2>1, <2>2, <2>3 DEF Consistent
      <3> QED  BY <2>2, <3>1, <3>2, <3>3 DEF Consistent
    <2>6. \A i : (AtOrBehind(C, r, k, i) => AtOrBehind(D, r, k, i)') /\ (Behind(C, r, k, i) => Behind(D, r, k, i)')
      <3>1. \A m \in D[d] : m \in C[d] /\ node'[m].ref = node[m].ref
        BY <2>1, <2>2, <2>3
      <3> QED  BY <3>1 DEF AtOrBehind, Behind
    <2>7. c.pc = "copy" => D[d] = C[d]
      <3>1. c.pc = "copy" => state[d] = 1
        BY <1>2, <2>1 DEF CallOK
      <3> QED  BY <2>1, <2>2, <3>1 DEF RemoveStep
    <2>8. c.pc \in Hands => c.idx \in Nodes /\ node'[c.idx].next = node[c.idx].next
      <3>1. SUFFICES ASSUME c.pc \in Hands PROVE c.idx \in Nodes /\ node'[c.idx].next = node[c.idx].next
        OBVIOUS
      <3>2. c.idx \in Nodes
        BY <1>2, <2>1, <3>1 DEF CallOK
      <3>3. InHandOf(u, c.idx)
        BY <3>1 DEF InHandOf
      <3>4. \A e \in Buckets : c.idx \notin C[e]
        BY <3>2, <3>3, LooseIs DEF MapOK, Accounted
      <3> QED  BY <3>2, <3>4 DEF RemoveStep
    <2>9. c.pc \in {"find_next", "walk_next"} => c.idx # n
      BY DEF RemoveStep
    <2>10. \A m \in C[d] : m \in Nodes
      BY <2>1
    <2>11. c.pc = "find_test" /\ c.idx # Nil => c.idx \in Nodes
      <3>1. c.idx \in Slot
        BY CallTypes DEF MapOK
      <3> QED  BY <3>1, MapAssumption DEF Slot, Nodes, Nil
    <2> QED  BY <1>2, <2>1, <2>2, <2>3, <2>4, <2>5, <2>6, <2>7, <2>8, <2>9, <2>10, <2>11 DEF CallOK, Inserting, Walking, Hands
  <1> QED  BY <1>1, <1>2

(* The removed node left one chain for its thread's hand.                  *)
LEMMA RemoveAccounted ==
  ASSUME NEW C, NEW r, NEW low, MapOK(C, r, low), NEW t \in Threads, NEW a, NEW b, NEW n, NEW D,
         RemoveStep(C, r, t, a, b, n, D)
  PROVE  Accounted(D)'
  <1>1. MapTypes /\ Accounted(C) /\ C[b] \subseteq Nodes
    BY DEF MapOK, Chains, RemoveStep
  <1>2. \A u \in Threads : at'[u] = IF u = t THEN a ELSE at[u]
    BY <1>1, MovedAt DEF RemoveStep
  <1>3. n \in Nodes /\ ~Loose(n) /\ \A m : ~InHandOf(t, m)
    <2>1. n \in Nodes /\ ~Loose(n)
      BY <1>1 DEF Accounted, RemoveStep
    <2> QED  BY <2>1 DEF InHandOf, RemoveStep
  <1>4. ~OnFree(n) /\ \A u \in Threads : ~InHandOf(u, n)
    BY <1>3, LooseIs
  <1>5. \A u \in Threads : \A m : InHandOf(u, m)' <=> InHandOf(u, m) \/ (u = t /\ m = n)
    <2>1. ASSUME NEW u \in Threads, NEW m PROVE InHandOf(u, m)' <=> InHandOf(u, m) \/ (u = t /\ m = n)
      <3>1. CASE u = t
        BY <1>2, <1>3, <3>1 DEF InHandOf, RemoveStep, Hands
      <3>2. CASE u # t
        BY <1>2, <3>2 DEF InHandOf
      <3> QED  BY <3>1, <3>2
    <2> QED  BY <2>1
  <1>6. free' = free /\ \A m : OnFree(m)' <=> OnFree(m)
    BY DEF OnFree, RemoveStep
  <1>7. \A m : Loose(m)' <=> Loose(m) \/ m = n
    <2>1. \A m : Loose(m)' => Loose(m) \/ m = n
      BY <1>5, <1>6, LooseIs, LooseNext
    <2>2. \A m : Loose(m) \/ m = n => Loose(m)'
      BY <1>5, <1>6, LooseIs, LooseNext
    <2> QED  BY <2>1, <2>2
  <1>8. \A m \in Nodes : (\A d \in Buckets : m \notin D[d]) <=> m = n \/ \A d \in Buckets : m \notin C[d]
    <2>1. b \in Buckets /\ D[b] = C[b] \ {n} /\ (\A d \in Buckets : d # b => D[d] = C[d]) /\ n \in C[b]
      BY DEF RemoveStep
    <2>2. \A d \in Buckets : n \notin D[d]
      BY <2>1, OneChain
    <2>3. \A m : \A d \in Buckets : m \in D[d] => m \in C[d]
      BY <2>1
    <2>4. \A m : \A d \in Buckets : m \in C[d] /\ m # n => m \in D[d]
      BY <2>1
    <2> QED  BY <2>2, <2>3, <2>4
  <1> QED  BY <1>1, <1>4, <1>5, <1>6, <1>7, <1>8 DEF Accounted

(* The chains without the removed node keep the invariant.                 *)
LEMMA RemoveKeeps ==
  ASSUME NEW C, NEW r, NEW low, MapOK(C, r, low), NEW t \in Threads, NEW a, NEW b, NEW n, NEW D,
         RemoveStep(C, r, t, a, b, n, D)
  PROVE  MapOK(D, r, low)'
  <1> DEFINE k == at[t].key
  <1>1. MapTypes /\ OneConverts /\ CallsCounted /\ exact
    BY DEF MapOK
  <1>2. at' \in [Threads -> CallFields] /\ \A u \in Threads : at'[u] = IF u = t THEN a ELSE at[u]
    BY <1>1, MovedAt DEF RemoveStep
  <1>3. MapTypes'
    BY <1>1, <1>2 DEF MapTypes, RemoveStep
  <1>4. OneConverts' /\ CallsCounted' /\ exact'
    BY <1>1, <1>2 DEF OneConverts, CallsCounted, RemoveStep
  <1>5. \A m \in C[b] : m \in Nodes
    BY DEF MapOK, Chains, RemoveStep
  <1>6. ASSUME NEW u \in Threads PROVE CallOK(D, r, u, at[u])'
    <2>1. PICK c : c = at'[u]
      OBVIOUS
    <2>2. CallOK(D, r, u, c)'
      <3>1. CASE u # t
        BY <1>2, <2>1, <3>1, RemoveOthers
      <3>2. CASE u = t
        <4>1. c = a
          BY <1>2, <2>1, <3>2
        <4>2. node[n].bucket = b /\ node[n].order > 0 /\ n \in Nodes
          BY <1>5 DEF MapOK, Chains, RemoveStep
        <4> QED  BY <3>2, <4>1, <4>2 DEF RemoveStep, CallOK, Inserting, Walking, Hands
      <3> QED  BY <3>1, <3>2
    <2> QED  BY <2>1, <2>2 DEF CallOK
  <1>7. ASSUME NEW q \in Keys PROVE KeyOK(D, q)'
    <2>1. KeyOK(C, q) /\ Hash[q] \in Buckets /\ C[Hash[q]] \subseteq Nodes
      BY MapAssumption DEF MapOK, Chains
    <2>2. \A m \in Nodes : node'[m].ref = node[m].ref /\ node'[m].order = node[m].order
      BY DEF RemoveStep
    <2>3. UNCHANGED <<state, overflow>> /\ D[Hash[q]] \subseteq C[Hash[q]]
      BY <2>1 DEF RemoveStep
    <2>4. CASE q = k
      <3>1. at'[t] = a
        BY <1>2
      <3>2. Due(q)' = 0
        BY <2>4, <3>1 DEF Due, RemoveStep
      <3>3. Hash[q] = b /\ state[b] = 0 /\ n \in C[b] /\ node[n].ref = q /\ D[b] = C[b] \ {n} /\ b \in Buckets
        BY <2>4 DEF RemoveStep
      <3>4. \A m \in D[b] : node'[m].ref # q
        BY <1>5, <2>2, <3>3, RankIsUnique
      <3>5. overflow'[q] = 0
        BY <2>1, <2>3, <3>3 DEF KeyOK
      <3> QED  BY <2>3, <3>2, <3>3, <3>4, <3>5 DEF KeyOK
    <2>5. CASE q # k
      <3>1. Due(q)' = Due(q)
        <4>1. Owner[q] \in Threads
          BY MapAssumption
        <4>2. CASE Owner[q] = t
          <5>1. at'[t] = a
            BY <1>2
          <5> QED  BY <2>5, <4>2, <5>1 DEF Due, RemoveStep
        <4>3. CASE Owner[q] # t
          <5>1. at'[Owner[q]] = at[Owner[q]] /\ stored' = stored
            BY <1>2, <4>1, <4>3 DEF RemoveStep
          <5>2. at[Owner[q]].key = q /\ at[Owner[q]].pc = "count" => at[Owner[q]].idx \in Nodes
            BY <2>1, <4>1, InCall DEF CallOK, Key, B
          <5> QED  BY <2>2, <5>1, <5>2 DEF Due
        <4> QED  BY <4>2, <4>3
      <3>2. \A m \in C[Hash[q]] : node[m].ref = q => m \in D[Hash[q]]
        BY <2>1, <2>5 DEF RemoveStep
      <3>3. Absent(D, q)' <=> Absent(C, q)
        BY <2>1, <2>2, <2>3, <3>2 DEF Absent
      <3>4. \A m \in D[Hash[q]] : m \in C[Hash[q]] /\ node'[m].ref = node[m].ref /\ node'[m].order = node[m].order
        BY <2>1, <2>2, <2>3
      <3> QED  BY <2>1, <2>3, <3>1, <3>3, <3>4 DEF KeyOK
    <2> QED  BY <2>4, <2>5
  <1> QED  BY <1>3, <1>4, <1>6, <1>7, RemoveChains, RemoveAccounted DEF MapOK


Removable(C, b, n) ==
  \E D : D \in [Buckets -> SUBSET Nodes] /\ D[b] = C[b] \ {n} /\ \A d \in Buckets : d # b => D[d] = C[d]

(* What is left of a chain without one of its nodes.                       *)
LEMMA WithoutIs ==
  ASSUME NEW C, NEW r, NEW low, MapOK(C, r, low), NEW b \in Buckets, NEW n
  PROVE  Removable(C, b, n)
  <1> DEFINE D == [C EXCEPT ![b] = @ \ {n}]
  <1>1. C \in [Buckets -> SUBSET Nodes]
    BY DEF MapOK, Chains
  <1>2. D \in [Buckets -> SUBSET Nodes] /\ D[b] = C[b] \ {n} /\ \A d \in Buckets : d # b => D[d] = C[d]
    BY <1>1
  <1> HIDE DEF D
  <1> QED  BY <1>2 DEF Removable

(* The first node goes: the next one is the first.                         *)
LEMMA HeadGone ==
  ASSUME NEW C, NEW r, NEW low, MapOK(C, r, low), NEW b \in Buckets, NEW n \in C[b], head[b] = n,
         NEW D, D = C[b] \ {n}
  PROVE  IsFirst(D, r, node[n].next) /\ \A m \in D : IsAfter(D, r, m, node[m].next)
  <1>1. C[b] \subseteq Nodes /\ (\A m \in C[b] : r[m] \in Int /\ IsAfter(C[b], r, m, node[m].next))
        /\ Nil \notin Nodes
    BY MapAssumption DEF MapOK, Chains, Nil, Nodes
  <1>2. \A m \in C[b] : r[n] <= r[m]
    BY <1>1, FirstOf
  <1>3. \A m \in D : m \in C[b] /\ m # n /\ r[n] < r[m]
    <2> SUFFICES ASSUME NEW m \in D PROVE m \in C[b] /\ m # n /\ r[n] < r[m]
      OBVIOUS
    <2>1. m \in C[b] /\ m # n
      OBVIOUS
    <2>2. r[m] # r[n]
      BY <2>1, RankIsUnique
    <2> QED  BY <1>1, <1>2, <2>1, <2>2
  <1>4. IsFirst(D, r, node[n].next)
    <2>0. PICK x : x = node[n].next
      OBVIOUS
    <2> SUFFICES IsFirst(D, r, x)
      BY <2>0
    <2>1. IsAfter(C[b], r, n, x)
      BY <1>1, <2>0
    <2>2. CASE x = Nil /\ \A m \in C[b] : r[m] <= r[n]
      <3>1. D = {}
        BY <1>1, <1>3, <2>2
      <3> QED  BY <2>2, <3>1 DEF IsFirst
    <2>3. CASE x \in C[b] /\ r[n] < r[x] /\ \A m \in C[b] : r[m] <= r[n] \/ r[x] <= r[m]
      <3>1. x # n
        BY <1>1, <2>3
      <3>2. \A m \in D : r[x] <= r[m]
        BY <1>1, <1>3, <2>3
      <3> QED  BY <2>3, <3>1, <3>2 DEF IsFirst
    <2> QED  BY <2>1, <2>2, <2>3 DEF IsAfter
  <1>5. ASSUME NEW m \in D PROVE IsAfter(D, r, m, node[m].next)
    <2>0. PICK x : x = node[m].next
      OBVIOUS
    <2> SUFFICES IsAfter(D, r, m, x)
      BY <2>0
    <2>1. IsAfter(C[b], r, m, x)
      BY <1>1, <2>0
    <2>2. CASE x = Nil /\ \A j \in C[b] : r[j] <= r[m]
      BY <2>2 DEF IsAfter
    <2>3. CASE x \in C[b] /\ r[m] < r[x] /\ \A j \in C[b] : r[j] <= r[m] \/ r[x] <= r[j]
      <3>1. x # n
        BY <1>1, <1>3, <2>3
      <3> QED  BY <2>3, <3>1 DEF IsAfter
    <2> QED  BY <2>1, <2>2, <2>3 DEF IsAfter
  <1> QED  BY <1>4, <1>5

(* A node behind p goes: p is followed by what followed it.                *)
LEMMA BehindGone ==
  ASSUME NEW C, NEW r, NEW low, MapOK(C, r, low), NEW b \in Buckets, NEW n \in C[b], NEW p \in C[b],
         node[p].next = n, NEW D, D = C[b] \ {n}
  PROVE  /\ p # n /\ IsFirst(D, r, head[b]) /\ IsAfter(D, r, p, node[n].next)
         /\ \A m \in D : m # p => IsAfter(D, r, m, node[m].next)
  <1>1. C[b] \subseteq Nodes /\ (\A m \in C[b] : r[m] \in Int /\ IsAfter(C[b], r, m, node[m].next))
        /\ Nil \notin Nodes /\ n # Nil
    BY MapAssumption DEF MapOK, Chains, Nil, Nodes
  <1>2. r[p] < r[n] /\ \A m \in C[b] : r[m] <= r[p] \/ r[n] <= r[m]
    BY <1>1 DEF IsAfter
  <1>3. \A m \in D : m \in C[b] /\ m # n /\ r[m] # r[n]
    BY RankIsUnique
  <1>4. p # n /\ p \in D
    BY <1>1, <1>2
  <1>5. IsFirst(D, r, head[b])
    <2>1. head[b] \in C[b] /\ \A m \in C[b] : r[head[b]] <= r[m]
      BY FirstOf
    <2>2. head[b] # n
      BY <1>1, <1>2, <2>1
    <2> QED  BY <2>1, <2>2 DEF IsFirst
  <1>6. IsAfter(D, r, p, node[n].next)
    <2>0. PICK x : x = node[n].next
      OBVIOUS
    <2> SUFFICES IsAfter(D, r, p, x)
      BY <2>0
    <2>1. IsAfter(C[b], r, n, x)
      BY <1>1, <2>0
    <2>2. CASE x = Nil /\ \A m \in C[b] : r[m] <= r[n]
      <3>1. \A m \in D : r[m] <= r[p]
        BY <1>1, <1>2, <1>3, <2>2
      <3> QED  BY <2>2, <3>1 DEF IsAfter
    <2>3. CASE x \in C[b] /\ r[n] < r[x] /\ \A m \in C[b] : r[m] <= r[n] \/ r[x] <= r[m]
      <3>1. x # n /\ r[p] < r[x]
        BY <1>1, <1>2, <2>3
      <3>2. \A m \in D : r[m] <= r[p] \/ r[x] <= r[m]
        BY <1>1, <1>2, <1>3, <2>3
      <3> QED  BY <2>3, <3>1, <3>2 DEF IsAfter
    <2> QED  BY <2>1, <2>2, <2>3 DEF IsAfter
  <1>7. ASSUME NEW m \in D, m # p PROVE IsAfter(D, r, m, node[m].next)
    <2>0. PICK x : x = node[m].next
      OBVIOUS
    <2> SUFFICES IsAfter(D, r, m, x)
      BY <2>0
    <2>1. IsAfter(C[b], r, m, x) /\ m \in C[b]
      BY <1>1, <2>0
    <2>2. CASE x = Nil /\ \A j \in C[b] : r[j] <= r[m]
      BY <2>2 DEF IsAfter
    <2>3. CASE x \in C[b] /\ r[m] < r[x] /\ \A j \in C[b] : r[j] <= r[m] \/ r[x] <= r[j]
      <3>1. x # n
        <4>1. SUFFICES ASSUME x = n PROVE FALSE
          OBVIOUS
        <4>2. r[m] = r[p]
          BY <1>1, <1>2, <2>1, <2>3, <4>1
        <4> QED  BY <1>7, <2>1, <4>2, RankIsUnique
      <3> QED  BY <2>3, <3>1 DEF IsAfter
    <2> QED  BY <2>1, <2>2, <2>3 DEF IsAfter
  <1> QED  BY <1>4, <1>5, <1>6, <1>7

(* The head is removed.                                                    *)
LEMMA HeadCasKeeps ==
  ASSUME NEW C, NEW r, NEW low, MapOK(C, r, low), NEW t \in Threads, HeadCas(t), ~strayed'
  PROVE  MapInv'
  <1> DEFINE n == at[t].idx
             b == B(t)
             x == at[t].nxt
  <1>1. at[t].pc = "head_cas" /\ exact' = exact
        /\ UNCHANGED <<node, free, state, overflow, lock, stored, calls>>
    BY DEF HeadCas, At, history
  <1>2. MapTypes /\ exact /\ CallOK(C, r, t, at[t]) /\ Key(t) \in Keys /\ b \in Buckets /\ b = Hash[Key(t)]
        /\ Owner[Key(t)] = t /\ Key(t) = at[t].key /\ C[b] \subseteq Nodes
    BY <1>1, InCall DEF Key
  <1>3. CASE head[b] # n
    <2>1. Goto(t, "erase_head") /\ head' = head /\ Walking(at[t])
      BY <1>1, <1>3 DEF HeadCas, Walking
    <2>2. MapOK(C, r, low)'
      BY <1>1, <2>1, RestartKeeps
    <2> QED  BY <2>2 DEF MapInv
  <1>4. CASE head[b] = n
    <2>1. head' = [head EXCEPT ![b] = x] /\ ~Stale(t, n) /\ Goto(t, "release")
      BY <1>4 DEF HeadCas
    <2>2. n \in C[b] /\ node[n].ref = Key(t)
      BY <1>1, <1>2 DEF CallOK, B, Key
    <2>3. node[n].next = x /\ state[b] = 0
          /\ \A u \in Threads \ {t} : ~(at[u].idx = n /\ at[u].pc \in {"find_next", "walk_next"})
      BY <2>1 DEF Stale
    <2>4. PICK a : Fits(t, a, "release", at[t].then, at[t].idx, at[t].next, at[t].nxt)
      BY <1>2, <2>1, FitsGoto DEF MapPlaces
    <2>5. head' \in [Buckets -> Slot] /\ head'[b] = x /\ \A d \in Buckets : d # b => head'[d] = head[d]
      BY <1>2, <2>1, CallTypes DEF MapTypes
    <2>6. PICK D : D \in [Buckets -> SUBSET Nodes] /\ D[b] = C[b] \ {n} /\ \A d \in Buckets : d # b => D[d] = C[d]
      <3>1. Removable(C, b, n)
        BY <1>2, WithoutIs
      <3> HIDE DEF b, n
      <3> QED  BY <3>1 DEF Removable
    <2>7. IsFirst(D[b], r, head'[b]) /\ \A m \in D[b] : IsAfter(D[b], r, m, node[m].next)
      BY <1>2, <1>4, <2>2, <2>3, <2>5, <2>6, HeadGone
    <2>8. MovesTo(t, a) /\ a.pc = "release" /\ a.idx = n /\ a.key = at[t].key
          /\ at[t].pc \notin Hands \cup {"idle", "count", "lock", "copy"}
      BY <1>1, <2>4 DEF Fits, Hands
    <2>9. node' = node /\ node \in [Nodes -> NodeFields]
      BY <1>1, <1>2 DEF MapTypes
    <2>10. UNCHANGED <<free, state, overflow, lock, stored, calls>> /\ exact' = exact
      BY <1>1
    <2>11. PICK i, d : RemoveStep(C, r, t, a, d, i, D)
      <3>1. RemoveStep(C, r, t, a, b, n, D)
        <4> HIDE DEF n, b, x
        <4> QED  BY <1>2, <2>2, <2>3, <2>5, <2>6, <2>7, <2>8, <2>9, <2>10 DEF RemoveStep
      <3> HIDE DEF n, b
      <3> QED  BY <3>1
    <2>12. MapOK(D, r, low)'
      BY <2>11, RemoveKeeps
    <2> QED  BY <2>12 DEF MapInv
  <1> QED  BY <1>3, <1>4

(* A node behind the head is removed: its predecessor, which is not loose, *)
(* is in the same chain.                                                   *)
LEMMA WalkCasKeeps ==
  ASSUME NEW C, NEW r, NEW low, MapOK(C, r, low), NEW t \in Threads, WalkCas(t), ~strayed'
  PROVE  MapInv'
  <1> DEFINE p == at[t].idx
             n == at[t].next
             b == B(t)
             x == at[t].nxt
  <1>1. at[t].pc = "walk_cas" /\ exact' = exact
        /\ UNCHANGED <<head, free, state, overflow, lock, stored, calls>>
    BY DEF WalkCas, At, history
  <1>2. MapTypes /\ exact /\ CallOK(C, r, t, at[t]) /\ Key(t) \in Keys /\ b \in Buckets /\ b = Hash[Key(t)]
        /\ Owner[Key(t)] = t /\ Key(t) = at[t].key /\ C[b] \subseteq Nodes
    BY <1>1, InCall DEF Key
  <1>3. CASE node[p].next # n
    <2>1. Goto(t, "erase_head") /\ node' = node /\ Walking(at[t])
      BY <1>1, <1>3 DEF WalkCas, Walking
    <2>2. MapOK(C, r, low)'
      BY <1>1, <2>1, RestartKeeps
    <2> QED  BY <2>2 DEF MapInv
  <1>4. CASE node[p].next = n
    <2>1. node' = [node EXCEPT ![p].next = x] /\ ~Loose(p) /\ ~Stale(t, n)
          /\ at' = [at EXCEPT ![t].pc = "release", ![t].idx = n]
      BY <1>4 DEF WalkCas
    <2>2. p \in Nodes /\ n \in C[b] /\ node[n].ref = Key(t) /\ n \in Nodes
      BY <1>1, <1>2 DEF CallOK, B, Key
    <2>3. node[n].next = x /\ state[b] = 0
          /\ \A u \in Threads \ {t} : ~(at[u].idx = n /\ at[u].pc \in {"find_next", "walk_next"})
      BY <2>1 DEF Stale
    <2>4. p \in C[b]
      <3>1. PICK d \in Buckets : p \in C[d]
        BY <2>1, <2>2 DEF MapOK, Accounted
      <3>2. n # Nil
        BY <2>2, MapAssumption DEF Nil, Nodes
      <3>3. n \in C[d]
        BY <1>4, <3>1, <3>2, AfterOf
      <3>4. d = b
        BY <1>2, <2>2, <3>3, OneChain
      <3> QED  BY <3>1, <3>4
    <2>5. n \in Slot /\ x \in Slot
      BY <1>2, CallTypes
    <2>6. PICK a : Fits(t, a, "release", at[t].then, n, at[t].next, at[t].nxt)
      BY <1>2, <2>1, <2>5, FitsIdx DEF MapPlaces
    <2>7. /\ node' \in [Nodes -> NodeFields] /\ \A m \in Nodes : m # p => node'[m] = node[m]
          /\ node'[p].ref = node[p].ref /\ node'[p].order = node[p].order
          /\ node'[p].bucket = node[p].bucket /\ node'[p].next = x
      BY <1>2, <2>1, <2>2, <2>5, NextSet
    <2>8. PICK D : D \in [Buckets -> SUBSET Nodes] /\ D[b] = C[b] \ {n} /\ \A d \in Buckets : d # b => D[d] = C[d]
      <3>1. Removable(C, b, n)
        BY <1>2, WithoutIs
      <3> HIDE DEF b, n
      <3> QED  BY <3>1 DEF Removable
    <2>9. /\ p # n /\ IsFirst(D[b], r, head[b]) /\ IsAfter(D[b], r, p, node[n].next)
          /\ \A m \in D[b] : m # p => IsAfter(D[b], r, m, node[m].next)
      BY <1>2, <1>4, <2>2, <2>4, <2>8, BehindGone
    <2>10. IsFirst(D[b], r, head'[b]) /\ \A m \in D[b] : IsAfter(D[b], r, m, node'[m].next)
      <3>1. \A m \in D[b] : m \in Nodes
        BY <1>2, <2>8
      <3>2. \A m \in D[b] : m # p => node'[m].next = node[m].next
        BY <2>7, <3>1
      <3> HIDE DEF p, n, b, x
      <3> QED  BY <1>1, <2>3, <2>7, <2>9, <3>2
    <2>11. \A m \in Nodes :
             /\ node'[m].ref = node[m].ref /\ node'[m].order = node[m].order /\ node'[m].bucket = node[m].bucket
             /\ m \notin C[b] => node'[m].next = node[m].next
      <3> HIDE DEF p, n, b, x
      <3> QED  BY <2>4, <2>7
    <2>12. MovesTo(t, a) /\ a.pc = "release" /\ a.idx = n /\ a.key = at[t].key
          /\ at[t].pc \notin Hands \cup {"idle", "count", "lock", "copy"}
      BY <1>1, <2>6 DEF Fits, Hands
    <2>13. UNCHANGED <<head, free, state, overflow, lock, stored, calls>> /\ exact' = exact /\ head \in [Buckets -> Slot]
      BY <1>1, <1>2 DEF MapTypes
    <2>14. PICK i, d : RemoveStep(C, r, t, a, d, i, D)
      <3>1. RemoveStep(C, r, t, a, b, n, D)
        <4> HIDE DEF p, n, b, x
        <4> QED  BY <1>2, <2>2, <2>3, <2>7, <2>8, <2>10, <2>11, <2>12, <2>13 DEF RemoveStep
      <3> HIDE DEF n, b
      <3> QED  BY <3>1
    <2>15. MapOK(D, r, low)'
      BY <2>14, RemoveKeeps
    <2> QED  BY <2>15 DEF MapInv
  <1> QED  BY <1>3, <1>4

----------------------------------------------------------------------------
(* A map that has strayed stays so.                                        *)
LEMMA StrayedStays ==
  ASSUME MapNext, ~strayed' PROVE ~strayed
  <1>1. PICK t \in Threads : \/ \E k \in Keys, op \in {"insert", "find", "erase"} : Call(t, k, op)
                             \/ Insert(t) \/ Treeify(t) \/ Find(t) \/ Erase(t)
    BY DEF MapNext
  <1>2. CASE \E k \in Keys, op \in {"insert", "find", "erase"} : Call(t, k, op)
    BY <1>2 DEF Call
  <1>3. CASE Insert(t)
    <2>1. CASE InsertGate(t)
      BY <2>1 DEF InsertGate
    <2>2. CASE InsertAlloc(t)
      BY <2>2 DEF InsertAlloc
    <2>3. CASE InsertLoad(t)
      BY <2>3 DEF InsertLoad
    <2>4. CASE InsertPublish(t)
      BY <2>4 DEF InsertPublish
    <2>5. CASE InsertCount(t)
      BY <2>5 DEF InsertCount
    <2>6. CASE InsertLength(t)
      BY <2>6 DEF InsertLength
    <2>7. CASE InsertGiveUp(t)
      BY <2>7 DEF InsertGiveUp
    <2>8. CASE InsertOverflow(t)
      BY <2>8 DEF InsertOverflow
    <2> QED  BY <1>3, <2>1, <2>2, <2>3, <2>4, <2>5, <2>6, <2>7, <2>8 DEF Insert
  <1>4. CASE Treeify(t)
    <2>1. CASE TreeifyClaim(t)
      BY <2>1 DEF TreeifyClaim
    <2>2. CASE TreeifyLock(t)
      BY <2>2 DEF TreeifyLock
    <2>3. CASE TreeifyCopy(t)
      BY <2>3 DEF TreeifyCopy
    <2>4. CASE TreeifyDone(t)
      BY <2>4 DEF TreeifyDone
    <2> QED  BY <1>4, <2>1, <2>2, <2>3, <2>4 DEF Treeify
  <1>5. CASE Find(t)
    <2>1. CASE FindGate(t)
      BY <2>1 DEF FindGate
    <2>2. CASE FindOverflow(t)
      BY <2>2 DEF FindOverflow
    <2>3. CASE FindHead(t)
      BY <2>3 DEF FindHead
    <2>4. CASE FindTest(t)
      BY <2>4 DEF FindTest
    <2>5. CASE FindNext(t)
      BY <2>5 DEF FindNext
    <2> QED  BY <1>5, <2>1, <2>2, <2>3, <2>4, <2>5 DEF Find
  <1>6. CASE Erase(t)
    <2>1. CASE EraseGate(t)
      BY <2>1 DEF EraseGate
    <2>2. CASE EraseOverflow(t)
      BY <2>2 DEF EraseOverflow
    <2>3. CASE EraseHead(t)
      BY <2>3 DEF EraseHead
    <2>4. CASE HeadNext(t)
      BY <2>4 DEF HeadNext
    <2>5. CASE HeadCas(t)
      BY <2>5 DEF HeadCas
    <2>6. CASE WalkTest(t)
      BY <2>6 DEF WalkTest
    <2>7. CASE WalkNext(t)
      BY <2>7 DEF WalkNext
    <2>8. CASE WalkLoad(t)
      BY <2>8 DEF WalkLoad
    <2>9. CASE WalkCas(t)
      BY <2>9 DEF WalkCas
    <2>10. CASE EraseRelease(t)
      BY <2>10 DEF EraseRelease
    <2> QED  BY <1>6, <2>1, <2>2, <2>3, <2>4, <2>5, <2>6, <2>7, <2>8, <2>9, <2>10 DEF Erase
  <1> QED  BY <1>1, <1>2, <1>3, <1>4, <1>5, <1>6

(* Every step keeps the invariant.                                         *)
LEMMA NextMap ==
  ASSUME MapInv, MapNext
  PROVE  MapInv'
  <1>1. CASE strayed'
    BY <1>1 DEF MapInv
  <1>2. CASE ~strayed'
    <2>1. PICK C, r, low : MapOK(C, r, low)
      BY <1>2, StrayedStays DEF MapInv
    <2>2. PICK t \in Threads : \/ \E k \in Keys, op \in {"insert", "find", "erase"} : Call(t, k, op)
                               \/ Insert(t) \/ Treeify(t) \/ Find(t) \/ Erase(t)
      BY DEF MapNext
    <2>3. MapOK(C, r, low)' => MapInv'
      BY DEF MapInv
    <2>4. CASE \E k \in Keys, op \in {"insert", "find", "erase"} : Call(t, k, op)
      BY <2>1, <2>3, <2>4, CallKeeps
    <2>5. CASE Insert(t)
      BY <1>2, <2>1, <2>3, <2>5, InsertGateKeeps, InsertAllocKeeps, InsertLoadKeeps, InsertPublishKeeps,
         InsertCountKeeps, InsertLengthKeeps, InsertGiveUpKeeps, InsertOverflowKeeps DEF Insert
    <2>6. CASE Treeify(t)
      BY <2>1, <2>3, <2>6, TreeifyClaimKeeps, TreeifyLockKeeps, TreeifyCopyKeeps, TreeifyDoneKeeps DEF Treeify
    <2>7. CASE Find(t)
      BY <1>2, <2>1, <2>3, <2>7, FindGateKeeps, FindOverflowKeeps, FindHeadKeeps, FindTestKeeps,
         FindNextKeeps DEF Find
    <2>8. CASE Erase(t)
      BY <1>2, <2>1, <2>3, <2>8, EraseGateKeeps, EraseOverflowKeeps, EraseHeadKeeps, HeadNextKeeps,
         HeadCasKeeps, WalkTestKeeps, WalkNextKeeps, WalkLoadKeeps, WalkCasKeeps, EraseReleaseKeeps DEF Erase
    <2> QED  BY <2>2, <2>4, <2>5, <2>6, <2>7, <2>8
  <1> QED  BY <1>1, <1>2

(* So does a step that changes nothing.                                    *)
LEMMA StutterMap ==
  ASSUME MapInv, UNCHANGED mapVars
  PROVE  MapInv'
  <1>1. UNCHANGED <<node, head, free, untagged, len, state, overflow, lock, at, calls, stored, exact, strayed>>
    BY DEF mapVars, shared, history
  <1>2. CASE strayed
    BY <1>1, <1>2 DEF MapInv
  <1>3. CASE ~strayed
    <2>1. PICK C, r, low : MapOK(C, r, low)
      BY <1>3 DEF MapInv
    <2>2. MapTypes' /\ OneConverts' /\ CallsCounted' /\ exact' /\ Chains(C, r, low)'
      BY <1>1, <2>1 DEF MapOK, MapTypes, OneConverts, CallsCounted, Chains
    <2>3. Accounted(C)'
      <3>1. \A u \in Threads : \A m : InHandOf(u, m)' <=> InHandOf(u, m)
        BY <1>1 DEF InHandOf
      <3> QED  BY <1>1, <2>1, <3>1, SameAccounted DEF MapOK
    <2>4. \A k \in Keys : KeyOK(C, k)'
      <3>1. \A k \in Keys : Due(k)' = Due(k)
        BY <1>1 DEF Due
      <3> QED  BY <1>1, <2>1, <3>1 DEF MapOK, KeyOK, Absent
    <2>5. ASSUME NEW u \in Threads PROVE CallOK(C, r, u, at[u])'
      <3>1. \A c : CallOK(C, r, u, c) => CallOK(C, r, u, c)'
        BY <1>1 DEF CallOK, Consistent, Absent, AtOrBehind, Behind
      <3>2. PICK c : c = at[u]
        OBVIOUS
      <3>3. CallOK(C, r, u, c)'
        BY <2>1, <3>1, <3>2 DEF MapOK
      <3> QED  BY <1>1, <3>2, <3>3 DEF CallOK
    <2>6. MapOK(C, r, low)'
      BY <2>2, <2>3, <2>4, <2>5 DEF MapOK
    <2> QED  BY <2>6 DEF MapInv
  <1> QED  BY <1>2, <1>3

(* Chains whose ranks rise, nodes in one place, and what every call knows  *)
(* where it is (order_map.h, insert, find, erase and treeify).             *)
THEOREM MapInvariant == MapSpec => []MapInv
  <1>1. MapInv /\ [MapNext]_mapVars => MapInv'
    BY NextMap, StutterMap
  <1> QED  BY InitMap, <1>1, PTL DEF MapSpec

(* Whatever the threads that share a chain do to it, a find is exact until *)
(* a stale link was followed or published (OrderMap::find of               *)
(* core/memory/order_map.h).                                               *)
THEOREM FindIsExactThere == MapSpec => []FindIsExactUnlessStrayed
  <1>1. MapInv => FindIsExactUnlessStrayed
    BY DEF MapInv, MapOK, FindIsExactUnlessStrayed
  <1> QED  BY MapInvariant, <1>1, PTL


----------------------------------------------------------------------------
(* The recursion of Reach has a solution: step i is the i-th node.         *)
StepsTo(f, b, n) ==
  f = [i \in 0 .. n |-> IF i = 0 THEN head[b] ELSE IF f[i - 1] = Nil THEN Nil ELSE node[f[i - 1]].next]

(* A walk of any length exists.                                            *)
LEMMA StepsExist ==
  ASSUME NEW b, NEW n \in Nat
  PROVE  \E f : StepsTo(f, b, n)
  <1> DEFINE T == {k \in Nat : \E f : StepsTo(f, b, k)}
  <1>1. 0 \in T
    <2>1. StepsTo([i \in 0 .. 0 |-> head[b]], b, 0)
      BY DEF StepsTo
    <2> QED  BY <2>1
  <1>2. \A k \in Nat : k \in T => k + 1 \in T
    <2> SUFFICES ASSUME NEW k \in Nat, NEW f, StepsTo(f, b, k) PROVE \E g : StepsTo(g, b, k + 1)
      OBVIOUS
    <2> DEFINE V(h, i) == IF i = 0 THEN head[b] ELSE IF h[i - 1] = Nil THEN Nil ELSE node[h[i - 1]].next
               g == [i \in 0 .. k + 1 |-> V(f, i)]
    <2>1. f = [i \in 0 .. k |-> V(f, i)]
      BY DEF StepsTo
    <2> HIDE DEF V
    <2>2. \A i \in 0 .. k : g[i] = f[i]
      BY <2>1
    <2>3. ASSUME NEW i \in 0 .. k + 1 PROVE V(f, i) = V(g, i)
      <3>1. CASE i = 0
        BY <3>1 DEF V
      <3>2. CASE i # 0
        <4>1. i - 1 \in 0 .. k
          BY <3>2
        <4>2. g[i - 1] = f[i - 1]
          BY <2>2, <4>1
        <4> HIDE DEF g
        <4> QED  BY <4>2 DEF V
      <3> QED  BY <3>1, <3>2
    <2>4. g = [i \in 0 .. k + 1 |-> V(g, i)]
      <3>1. g = [i \in 0 .. k + 1 |-> V(f, i)]
        OBVIOUS
      <3> HIDE DEF g
      <3> QED  BY <2>3, <3>1
    <2> HIDE DEF g
    <2>5. StepsTo(g, b, k + 1)
      BY <2>4 DEF StepsTo, V
    <2> QED  BY <2>5
  <1> HIDE DEF T
  <1>3. n \in T
    BY <1>1, <1>2, SetInduction
  <1> QED  BY <1>3 DEF T

(* The walk from a bucket follows the links.                               *)
LEMMA ReachIs ==
  ASSUME NEW b
  PROVE  /\ Reach(b)[0] = head[b]
         /\ \A i \in 1 .. Capacity :
              Reach(b)[i] = IF Reach(b)[i - 1] = Nil THEN Nil ELSE node[Reach(b)[i - 1]].next
  <1> DEFINE f == CHOOSE f : StepsTo(f, b, Capacity)
  <1>0. Capacity \in Nat /\ Capacity > 0
    BY MapAssumption
  <1>1. Reach(b) = [i \in 0 .. Capacity |-> f[i]]
    BY Zenon DEF Reach, StepsTo
  <1>2. StepsTo(f, b, Capacity)
    BY <1>0, StepsExist
  <1> HIDE DEF f
  <1>3. /\ f[0] = head[b]
        /\ \A i \in 1 .. Capacity : f[i] = IF f[i - 1] = Nil THEN Nil ELSE node[f[i - 1]].next
    <2> DEFINE V(i) == IF i = 0 THEN head[b] ELSE IF f[i - 1] = Nil THEN Nil ELSE node[f[i - 1]].next
    <2>1. f = [i \in 0 .. Capacity |-> V(i)]
      BY <1>2 DEF StepsTo
    <2> HIDE DEF V
    <2>2. \A i \in 0 .. Capacity : f[i] = V(i)
      BY <2>1
    <2>3. f[0] = V(0) /\ \A i \in 1 .. Capacity : f[i] = V(i) /\ i # 0
      BY <1>0, <2>2
    <2> QED  BY <2>3 DEF V
  <1>4. \A i \in 0 .. Capacity : Reach(b)[i] = f[i]
    BY <1>1
  <1>5. \A i \in 1 .. Capacity : i \in 0 .. Capacity /\ i - 1 \in 0 .. Capacity
    BY <1>0
  <1>6. 0 \in 0 .. Capacity
    BY <1>0
  <1> QED  BY <1>3, <1>4, <1>5, <1>6

(* The first i steps along a chain: they stay in it, their ranks rise, and *)
(* they leave nothing out.                                                 *)
Along(C, r, b, g, i) ==
  /\ g[i] = Nil \/ g[i] \in C[b]
  /\ g[i] \in C[b] => \A j \in 0 .. i - 1 : g[j] \in C[b] /\ r[g[j]] < r[g[i]]
  /\ \A m \in C[b] : (\E j \in 0 .. i : g[j] = m) \/ (g[i] \in C[b] /\ r[g[i]] < r[m])

(* The walk stays in the bucket's chain and its ranks rise, until it       *)
(* ends.                                                                   *)
LEMMA StaysAlong ==
  ASSUME NEW C, NEW r, NEW low, MapOK(C, r, low), NEW b \in Buckets, NEW i \in 0 .. Capacity
  PROVE  Along(C, r, b, Reach(b), i)
  <1> DEFINE g == Reach(b)
             T == {n \in Nat : n <= Capacity => Along(C, r, b, Reach(b), n)}
  <1>0. Capacity \in Nat /\ Capacity > 0
    BY MapAssumption
  <1>1. C[b] \subseteq Nodes /\ (\A m \in C[b] : r[m] \in Int /\ IsAfter(C[b], r, m, node[m].next))
        /\ Nil \notin C[b]
    BY MapAssumption DEF MapOK, Chains, Nil, Nodes
  <1>2. g[0] = head[b] /\ \A n \in 1 .. Capacity : g[n] = IF g[n - 1] = Nil THEN Nil ELSE node[g[n - 1]].next
    BY ReachIs
  <1> HIDE DEF g
  <1>3. Along(C, r, b, g, 0)
    <2>1. CASE head[b] = Nil /\ C[b] = {}
      BY <1>2, <2>1 DEF Along
    <2>2. CASE head[b] \in C[b] /\ \A m \in C[b] : r[head[b]] <= r[m]
      <3>1. ASSUME NEW m \in C[b], m # head[b] PROVE r[head[b]] < r[m]
        <4>1. r[head[b]] # r[m]
          BY <2>2, <3>1, RankIsUnique
        <4> QED  BY <1>1, <2>2, <4>1
      <3>2. 0 \in 0 .. 0 /\ \A j \in 0 .. 0 - 1 : FALSE
        OBVIOUS
      <3> QED  BY <1>2, <2>2, <3>1, <3>2 DEF Along
    <2> QED  BY <2>1, <2>2, FirstOf
  <1>4. ASSUME NEW n \in Nat, n + 1 <= Capacity, Along(C, r, b, g, n) PROVE Along(C, r, b, g, n + 1)
    <2>0. \A m \in C[b] : (\E j \in 0 .. n : g[j] = m) \/ (g[n] \in C[b] /\ r[g[n]] < r[m])
      BY <1>4 DEF Along
    <2>1. n + 1 \in 1 .. Capacity /\ (n + 1) - 1 = n
      BY <1>0, <1>4
    <2>2. g[n + 1] = IF g[n] = Nil THEN Nil ELSE node[g[n]].next
      BY <1>2, <2>1
    <2>3. \A j \in 0 .. n : j \in 0 .. n + 1 /\ (j = n \/ j \in 0 .. n - 1)
      OBVIOUS
    <2>4. n + 1 \in 0 .. n + 1 /\ 0 .. (n + 1) - 1 = 0 .. n
      OBVIOUS
    <2>5. CASE g[n] = Nil
      <3>1. g[n + 1] = Nil
        BY <2>2, <2>5
      <3>2. \A m \in C[b] : \E j \in 0 .. n + 1 : g[j] = m
        BY <1>1, <2>0, <2>3, <2>5
      <3> QED  BY <1>1, <3>1, <3>2 DEF Along
    <2>6. CASE g[n] \in C[b]
      <3>1. IsAfter(C[b], r, g[n], g[n + 1]) /\ r[g[n]] \in Int
        BY <1>1, <2>2, <2>6
      <3>2. CASE g[n + 1] = Nil /\ \A m \in C[b] : r[m] <= r[g[n]]
        <4>1. \A m \in C[b] : ~(r[g[n]] < r[m])
          BY <1>1, <3>1, <3>2
        <4>2. \A m \in C[b] : \E j \in 0 .. n + 1 : g[j] = m
          BY <2>0, <2>3, <4>1
        <4> QED  BY <1>1, <3>2, <4>2 DEF Along
      <3>3. CASE g[n + 1] \in C[b] /\ r[g[n]] < r[g[n + 1]]
                 /\ \A m \in C[b] : r[m] <= r[g[n]] \/ r[g[n + 1]] <= r[m]
        <4>1. ASSUME NEW j \in 0 .. n PROVE g[j] \in C[b] /\ r[g[j]] < r[g[n + 1]]
          <5>1. CASE j = n
            BY <2>6, <3>3, <5>1
          <5>2. CASE j \in 0 .. n - 1
            <6>1. g[j] \in C[b] /\ r[g[j]] < r[g[n]]
              BY <1>4, <2>6, <5>2 DEF Along
            <6>2. r[g[j]] \in Int /\ r[g[n]] \in Int /\ r[g[n + 1]] \in Int
              BY <1>1, <2>6, <3>3, <6>1
            <6> QED  BY <3>3, <6>1, <6>2
          <5> QED  BY <2>3, <5>1, <5>2
        <4>2. ASSUME NEW m \in C[b], ~(\E j \in 0 .. n + 1 : g[j] = m) PROVE r[g[n + 1]] < r[m]
          <5>1. r[g[n]] < r[m]
            BY <2>0, <2>3, <4>2
          <5>2. r[m] # r[g[n + 1]]
            BY <2>4, <3>3, <4>2, RankIsUnique
          <5>3. r[m] \in Int /\ r[g[n]] \in Int /\ r[g[n + 1]] \in Int
            BY <1>1, <2>6, <3>3
          <5>4. r[m] <= r[g[n]] \/ r[g[n + 1]] <= r[m]
            BY <3>3
          <5> QED  BY <5>1, <5>2, <5>3, <5>4
        <4> QED  BY <2>4, <3>3, <4>1, <4>2 DEF Along
      <3> QED  BY <3>1, <3>2, <3>3 DEF IsAfter
    <2> QED  BY <1>4, <2>5, <2>6 DEF Along
  <1>5. 0 \in T /\ \A n \in Nat : n \in T => n + 1 \in T
    <2> USE DEF g
    <2>1. 0 \in T
      BY <1>3
    <2>2. \A n \in Nat : n \in T => n + 1 \in T
      <3>1. ASSUME NEW n \in Nat, n \in T, n + 1 <= Capacity PROVE Along(C, r, b, Reach(b), n + 1)
        <4>1. n <= Capacity
          BY <1>0, <3>1
        <4> QED  BY <1>4, <3>1, <4>1
      <3> QED  BY <3>1
    <2> QED  BY <2>1, <2>2
  <1> HIDE DEF T
  <1>6. i \in T
    BY <1>0, <1>5, SetInduction
  <1>7. i \in Nat /\ i <= Capacity
    BY <1>0
  <1> QED  BY <1>6, <1>7 DEF T


(* There are more steps than nodes: a chain ends.                          *)
LEMMA ChainEnds ==
  ASSUME NEW C, NEW r, NEW low, MapOK(C, r, low), NEW b \in Buckets
  PROVE  Reach(b)[Capacity] = Nil
  <1> DEFINE g == Reach(b)
  <1>0. Capacity \in Nat /\ Capacity > 0
    BY MapAssumption
  <1>1. \A i \in 0 .. Capacity : Along(C, r, b, g, i)
    BY StaysAlong
  <1>2. C[b] \subseteq Nodes /\ \A m \in C[b] : r[m] \in Int
    BY DEF MapOK, Chains
  <1> HIDE DEF g
  <1>3. SUFFICES ASSUME g[Capacity] # Nil PROVE FALSE
    BY DEF g
  <1>4. Capacity \in 0 .. Capacity /\ \A i \in 0 .. Capacity : i = Capacity \/ i \in 0 .. Capacity - 1
    BY <1>0
  <1>5. g[Capacity] \in C[b]
    BY <1>1, <1>3, <1>4 DEF Along
  <1>6. \A i \in 0 .. Capacity : g[i] \in C[b]
    BY <1>1, <1>4, <1>5 DEF Along
  <1>7. \A i, j \in 0 .. Capacity : i < j => r[g[i]] < r[g[j]]
    <2> SUFFICES ASSUME NEW i \in 0 .. Capacity, NEW j \in 0 .. Capacity, i < j PROVE r[g[i]] < r[g[j]]
      OBVIOUS
    <2>1. i \in 0 .. j - 1
      OBVIOUS
    <2> QED  BY <1>1, <1>6, <2>1 DEF Along
  <1>8. \A i, j \in 0 .. Capacity : i # j => g[i] # g[j]
    <2> SUFFICES ASSUME NEW i \in 0 .. Capacity, NEW j \in 0 .. Capacity, i # j PROVE g[i] # g[j]
      OBVIOUS
    <2>1. r[g[i]] # r[g[j]]
      <3>1. r[g[i]] \in Int /\ r[g[j]] \in Int
        BY <1>2, <1>6
      <3>2. i < j \/ j < i
        OBVIOUS
      <3> QED  BY <1>7, <3>1, <3>2
    <2> QED  BY <2>1
  <1> DEFINE f == [i \in 0 .. Capacity |-> g[i]]
  <1>9. f \in [0 .. Capacity -> Nodes]
    BY <1>2, <1>6
  <1>10. /\ IsFiniteSet(Nodes) /\ Cardinality(Nodes) = Capacity
         /\ IsFiniteSet(0 .. Capacity) /\ Cardinality(0 .. Capacity) = Capacity + 1
    <2>1. 0 \in Int /\ Capacity \in Int /\ Capacity - 1 \in Int /\ ~(0 > Capacity) /\ ~(0 > Capacity - 1)
          /\ (Capacity - 1) - 0 + 1 = Capacity /\ Capacity - 0 + 1 = Capacity + 1
      BY <1>0
    <2> QED  BY <2>1, FS_Interval DEF Nodes
  <1>11. Cardinality(Nodes) < Cardinality(0 .. Capacity)
    BY <1>0, <1>10
  <1>12. \E i, j \in 0 .. Capacity : i # j /\ f[i] = f[j]
    <2> DEFINE S == 0 .. Capacity
    <2>1. f \in [S -> Nodes] /\ IsFiniteSet(S) /\ IsFiniteSet(Nodes) /\ Cardinality(Nodes) < Cardinality(S)
      BY <1>9, <1>10, <1>11
    <2> HIDE DEF S, f
    <2>2. \E i, j \in S : i # j /\ f[i] = f[j]
      BY <2>1, FS_PigeonHole, Zenon
    <2> QED  BY <2>2 DEF S
  <1> QED  BY <1>8, <1>12

(* A node of a chain is reached once, from its own bucket.                 *)
LEMMA ReachedOnce ==
  ASSUME NEW C, NEW r, NEW low, MapOK(C, r, low), NEW n \in Nodes
  PROVE  /\ \A b \in Buckets : n \in C[b] => \E j \in 0 .. Capacity : Reach(b)[j] = n
         /\ \A b \in Buckets : \A i \in 0 .. Capacity : Reach(b)[i] = n => n \in C[b]
         /\ \A b \in Buckets : \A i, j \in 0 .. Capacity : Reach(b)[i] = n /\ Reach(b)[j] = n => i = j
  <1>0. Capacity \in Nat /\ n # Nil /\ Capacity \in 0 .. Capacity
    BY MapAssumption DEF Nil, Nodes
  <1>1. \A b \in Buckets : \A i \in 0 .. Capacity : Along(C, r, b, Reach(b), i)
    BY StaysAlong
  <1>2. \A b \in Buckets : Reach(b)[Capacity] = Nil /\ Nil \notin C[b]
    <2>1. \A b \in Buckets : Nil \notin C[b]
      BY MapAssumption DEF MapOK, Chains, Nil, Nodes
    <2> QED  BY <2>1, ChainEnds
  <1>3. \A b \in Buckets : n \in C[b] => \E j \in 0 .. Capacity : Reach(b)[j] = n
    BY <1>0, <1>1, <1>2 DEF Along
  <1>4. \A b \in Buckets : \A i \in 0 .. Capacity : Reach(b)[i] = n => n \in C[b]
    BY <1>0, <1>1 DEF Along
  <1>5. ASSUME NEW b \in Buckets, NEW i \in 0 .. Capacity, NEW j \in 0 .. Capacity, i < j,
               Reach(b)[i] = n, Reach(b)[j] = n
        PROVE  FALSE
    <2>1. i \in 0 .. j - 1 /\ n \in C[b]
      BY <1>4, <1>5
    <2>2. r[n] < r[n]
      BY <1>1, <1>5, <2>1 DEF Along
    <2>3. r[n] \in Int
      BY DEF MapOK, Chains
    <2> QED  BY <2>2, <2>3
  <1>6. ASSUME NEW b \in Buckets, NEW i \in 0 .. Capacity, NEW j \in 0 .. Capacity,
               Reach(b)[i] = n, Reach(b)[j] = n
        PROVE  i = j
    <2>1. i < j \/ j < i \/ i = j
      OBVIOUS
    <2> QED  BY <1>5, <1>6, <2>1
  <1> QED  BY <1>3, <1>4, <1>6

(* Each of the three sets of places has at most one element, and one has.  *)
LEMMA NodesAccounted ==
  ASSUME NEW C, NEW r, NEW low, MapOK(C, r, low)
  PROVE  NodesAccountedUnlessStrayed
  <1>1. \A b \in Buckets : Reach(b)[Capacity] = Nil
    BY ChainEnds
  <1>2. ASSUME NEW n \in Nodes
        PROVE  LET inChain == {p \in Buckets \X (0 .. Capacity) : Reach(p[1])[p[2]] = n}
                   inHand  == {t \in Threads : at[t].idx = n /\ at[t].pc \in {"load", "publish", "give_up", "release"}}
                   inFree  == {i \in DOMAIN free : free[i] = n}
               IN  Cardinality(inChain) + Cardinality(inHand) + Cardinality(inFree) = 1
    <2> DEFINE inChain == {p \in Buckets \X (0 .. Capacity) : Reach(p[1])[p[2]] = n}
               inHand  == {t \in Threads : at[t].idx = n /\ at[t].pc \in {"load", "publish", "give_up", "release"}}
               inFree  == {i \in DOMAIN free : free[i] = n}
    <2>0. Accounted(C)
      BY DEF MapOK
    <2>1. \A t : t \in inHand <=> t \in Threads /\ InHandOf(t, n)
      BY DEF InHandOf, Hands
    <2>2. (inFree # {} <=> OnFree(n)) /\ \A i, j \in inFree : i = j
      BY <2>0 DEF OnFree, Accounted
    <2>3. \A t, u \in inHand : t = u
      BY <2>0, <2>1 DEF Accounted
    <2>4. inHand # {} => inFree = {}
      BY <2>0, <2>1, <2>2 DEF Accounted
    <2>5. Loose(n) <=> inHand # {} \/ inFree # {}
      <3> HIDE DEF inFree, inHand
      <3> QED  BY <2>1, <2>2, LooseIs
    <2>6. inChain # {} <=> ~Loose(n)
      <3>1. ASSUME inChain # {} PROVE ~Loose(n)
        <4>1. PICK p \in Buckets \X (0 .. Capacity) : Reach(p[1])[p[2]] = n
          BY <3>1
        <4>2. p[1] \in Buckets /\ p[2] \in 0 .. Capacity
          BY <4>1
        <4>3. n \in C[p[1]]
          BY <4>1, <4>2, ReachedOnce
        <4> QED  BY <2>0, <4>2, <4>3 DEF Accounted
      <3>2. ASSUME ~Loose(n) PROVE inChain # {}
        <4>1. PICK b \in Buckets : n \in C[b]
          BY <2>0, <3>2 DEF Accounted
        <4>2. PICK j \in 0 .. Capacity : Reach(b)[j] = n
          BY <4>1, ReachedOnce
        <4>3. <<b, j>> \in inChain
          BY <4>2
        <4> QED  BY <4>3
      <3> QED  BY <3>1, <3>2
    <2>7. \A p, q \in inChain : p = q
      <3> SUFFICES ASSUME NEW p \in inChain, NEW q \in inChain PROVE p = q
        OBVIOUS
      <3>1. /\ p[1] \in Buckets /\ p[2] \in 0 .. Capacity /\ p = <<p[1], p[2]>> /\ Reach(p[1])[p[2]] = n
            /\ q[1] \in Buckets /\ q[2] \in 0 .. Capacity /\ q = <<q[1], q[2]>> /\ Reach(q[1])[q[2]] = n
        OBVIOUS
      <3>2. n \in C[p[1]] /\ n \in C[q[1]]
        BY <3>1, ReachedOnce
      <3>3. p[1] = q[1]
        BY <3>1, <3>2, OneChain
      <3>4. p[2] = q[2]
        BY <3>1, <3>3, ReachedOnce
      <3> QED  BY <3>1, <3>3, <3>4
    <2> HIDE DEF inChain, inHand, inFree
    <2>8. ASSUME NEW S, \A p, q \in S : p = q PROVE Cardinality(S) = IF S = {} THEN 0 ELSE 1
      <3>1. CASE S = {}
        BY <3>1, FS_EmptySet
      <3>2. CASE S # {}
        <4>1. PICK p : p \in S
          BY <3>2
        <4>2. S = {p}
          BY <2>8, <4>1
        <4> QED  BY <3>2, <4>2, FS_Singleton
      <3> QED  BY <3>1, <3>2
    <2>9. /\ Cardinality(inChain) = IF inChain = {} THEN 0 ELSE 1
          /\ Cardinality(inHand) = IF inHand = {} THEN 0 ELSE 1
          /\ Cardinality(inFree) = IF inFree = {} THEN 0 ELSE 1
      BY <2>2, <2>3, <2>7, <2>8
    <2>10. \/ inChain # {} /\ inHand = {} /\ inFree = {}
           \/ inChain = {} /\ inHand # {} /\ inFree = {}
           \/ inChain = {} /\ inHand = {} /\ inFree # {}
      BY <2>4, <2>5, <2>6
    <2>11. Cardinality(inChain) + Cardinality(inHand) + Cardinality(inFree) = 1
      BY <2>9, <2>10
    <2> QED  BY <2>11 DEF inChain, inHand, inFree
  <1> QED  BY <1>1, <1>2, Zenon DEF NodesAccountedUnlessStrayed

(* Until then chains end and every node is in one place: on the free       *)
(* stack, in one thread's hand or once in one chain (allocNode, freeNode   *)
(* and the CASes of order_map.h).                                          *)
THEOREM NodesAreAccounted == MapSpec => []NodesAccountedUnlessStrayed
  <1>1. MapInv => NodesAccountedUnlessStrayed
    <2> SUFFICES ASSUME MapInv, ~strayed PROVE NodesAccountedUnlessStrayed
      BY Zenon DEF NodesAccountedUnlessStrayed
    <2> QED  BY NodesAccounted DEF MapInv
  <1> QED  BY MapInvariant, <1>1, PTL
=============================================================================
