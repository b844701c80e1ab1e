----------------------------- MODULE CoreProofs -----------------------------
(***************************************************************************)
(* Proofs about the shared data structures of core/: the order pool        *)
(* (memory/order_pool.h), the event ring (queue/spsc_event_ring.h) and the *)
(* dispatcher with the retry thread (dispatch/dispatcher.h, main.cpp), for *)
(* any number of threads, workers, slots and events.                       *)
(***************************************************************************)
EXTENDS OrderPool, EventRing, Dispatcher, SequenceTheorems, TLAPS

(* Numbers less than c apart differ modulo c.                              *)
LEMMA RemainderDistinct ==
  ASSUME NEW c \in Nat \ {0}, NEW m \in Nat, NEW n \in Nat, m < n, n - m < c
  PROVE  m % c # n % c
<1> DEFINE a == m \div c
           b == n \div c
<1>1. /\ a \in Int /\ b \in Int
      /\ m = c * a + (m % c) /\ n = c * b + (n % c)
  OBVIOUS
<1> HIDE DEF a, b
<1>2. SUFFICES ASSUME m % c = n % c PROVE FALSE
  OBVIOUS
<1>3. n - m = c * (b - a)
  BY <1>1, <1>2
<1>4. b - a >= 1
  BY <1>1, <1>3
<1>5. c * (b - a) >= c
  BY <1>1, <1>4
<1> QED BY <1>3, <1>5
-----------------------------------------------------------------------------
(* The order pool: any set of threads, any capacity and any number of      *)
(* CASes below the tag's range.                                            *)

(* initFreeList() establishes the invariant.                               *)
LEMMA InitPoolInv == PoolInit => PoolInv
<1> SUFFICES ASSUME PoolInit PROVE PoolInv
  OBVIOUS
<1> USE PoolAssumption DEF PoolInit, FreshLinks, Slots, Nil
<1>1. PoolTypeOK
  BY DEF PoolTypeOK, HeadWord, Labels
<1>2. ExclusiveSlots
  BY DEF ExclusiveSlots, Held, Hand
<1>3. FreeListIntact
  <2>1. \A s \in Slots : s \in FreeSet
    <3> TAKE s \in Slots
    <3>1. PoolCapacity - s \in 1 .. depth /\ chain[PoolCapacity - s] = s
      OBVIOUS
    <3> QED BY <3>1 DEF FreeSet
  <2> QED BY <2>1 DEF FreeListIntact
<1>4. \A t \in Threads : fh[t].tag = 0 /\ free_head.tag = 0 /\ pc[t] = "idle"
  OBVIOUS
<1>5. LocalsCurrent
  <2> HIDE DEF PoolInit, FreshLinks, Slots, Nil
  <2> SUFFICES ASSUME NEW t \in Threads
               PROVE  fh[t].tag <= free_head.tag /\ pc[t] = "idle"
    BY Zenon DEF LocalsCurrent
  <2> QED BY <1>4
<1> QED BY <1>1, <1>2, <1>3, <1>5 DEF PoolInv

(* A thread moves only itself: an action of t leaves the others' holdings. *)
LEMMA HeldFrame ==
  ASSUME PoolTypeOK, NEW t \in Threads,
         \A u \in Threads \ {t} : /\ pc'[u] = pc[u]
                                   /\ slot'[u] = slot[u]
                                   /\ own'[u] = own[u]
  PROVE  \A u \in Threads \ {t} : Hand(u)' = Hand(u) /\ Held(u)' = Held(u)
  BY DEF Hand, Held, PoolTypeOK

(* Steps of allocate() that only load: head and link are read, nothing is  *)
(* written to the shared words.                                            *)
LEMMA LoadStep ==
  ASSUME PoolInv, NEW t \in Threads, AllocLoad(t) \/ AllocRetry(t)
  PROVE  PoolInv'
<1> USE PoolAssumption DEF PoolInv, AllocLoad, AllocRetry, LoadHead, At, Goto, shared
<1>1. PoolTypeOK'
  BY DEF PoolTypeOK, Labels
<1>2. \A u \in Threads : Hand(u)' = Hand(u) /\ Held(u)' = Held(u)
  BY DEF PoolTypeOK, Hand, Held, Labels
<1>3. FreeSet' = FreeSet
  BY DEF FreeSet
<1>4. ExclusiveSlots'
  BY <1>2, <1>3 DEF ExclusiveSlots, PoolTypeOK
<1>5. FreeListIntact'
  BY <1>2, <1>3 DEF FreeListIntact
<1>6. LocalsCurrent'
  BY DEF LocalsCurrent, PoolTypeOK, HeadWord, Labels
<1> QED BY <1>1, <1>4, <1>5, <1>6

(* allocate reads the link of the slot it saw on top.                      *)
LEMMA AllocNextStep ==
  ASSUME PoolInv, NEW t \in Threads, AllocNext(t)
  PROVE  PoolInv'
<1> USE PoolAssumption DEF PoolInv, AllocNext, At, Goto, shared
<1>1. PoolTypeOK'
  BY DEF PoolTypeOK, Labels, LocalsCurrent, HeadWord
<1>2. \A u \in Threads : Hand(u)' = Hand(u) /\ Held(u)' = Held(u)
  BY DEF PoolTypeOK, Hand, Held, Labels
<1>3. FreeSet' = FreeSet
  BY DEF FreeSet
<1>4. ExclusiveSlots'
  BY <1>2, <1>3 DEF ExclusiveSlots, PoolTypeOK
<1>5. FreeListIntact'
  BY <1>2, <1>3 DEF FreeListIntact
<1>6. LocalsCurrent'
  BY DEF LocalsCurrent, PoolTypeOK, HeadWord, Labels
<1> QED BY <1>1, <1>4, <1>5, <1>6

(* The CAS of allocate(): the tag is current, so the copied link is the    *)
(* real one and the slot taken is the top of the list.                     *)
LEMMA TakeFacts ==
  ASSUME PoolInv, NEW t \in Threads, AllocTake(t)
  PROVE  /\ depth \in Nat \ {0}
         /\ fh[t].idx = chain[depth]
         /\ fh[t].idx \in Slots
         /\ next[t] = IF depth = 1 THEN Nil ELSE chain[depth - 1]
         /\ FreeSet' = FreeSet \ {fh[t].idx}
         /\ fh[t].idx \in FreeSet
         /\ depth' = depth - 1
         /\ \A i \in 1 .. depth - 1 : chain'[i] = chain[i]
<1> USE DEF PoolInv, AllocTake, At, Goto, HeadIs
<1>1. fh[t].idx # Nil /\ fh[t].idx = free_head.idx
  BY DEF LocalsCurrent
<1>2. depth \in Nat \ {0} /\ fh[t].idx = chain[depth]
  BY <1>1 DEF FreeListIntact, PoolTypeOK
<1>3. next[t] = IF depth = 1 THEN Nil ELSE chain[depth - 1]
  BY <1>2 DEF FreeListIntact, LocalsCurrent
<1>4. fh[t].idx \in Slots /\ fh[t].idx \in FreeSet
  BY <1>2 DEF PoolTypeOK, FreeSet
<1>5. depth' = depth - 1 /\ \A i \in 1 .. depth - 1 : chain'[i] = chain[i]
  BY <1>2
<1>6. FreeSet' = FreeSet \ {fh[t].idx}
  <2>1. \A i \in 1 .. depth - 1 : i \in 1 .. depth /\ chain[i] # chain[depth]
    BY <1>2 DEF FreeListIntact
  <2>2. FreeSet' = {chain[i] : i \in 1 .. depth - 1}
    BY <1>2, <1>5 DEF FreeSet
  <2>3. 1 .. depth = (1 .. depth - 1) \cup {depth}
    BY <1>2
  <2> QED BY <1>2, <2>1, <2>2, <2>3 DEF FreeSet
<1> QED BY <1>2, <1>3, <1>4, <1>5, <1>6

(* allocate's CAS succeeds: the slot is the thread's.                      *)
LEMMA AllocTakeStep ==
  ASSUME PoolInv, NEW t \in Threads, AllocTake(t)
  PROVE  PoolInv'
<1> USE PoolAssumption DEF PoolInv, AllocTake, At, Goto
<1>1. /\ depth \in Nat \ {0}
      /\ fh[t].idx = chain[depth]
      /\ fh[t].idx \in Slots
      /\ next[t] = IF depth = 1 THEN Nil ELSE chain[depth - 1]
      /\ FreeSet' = FreeSet \ {fh[t].idx}
      /\ fh[t].idx \in FreeSet
      /\ depth' = depth - 1
      /\ \A i \in 1 .. depth - 1 : chain'[i] = chain[i]
  BY TakeFacts
<1>2. PoolTypeOK'
  BY <1>1 DEF PoolTypeOK, Labels, HeadWord
<1>3. /\ Hand(t) = {} /\ Hand(t)' = {fh[t].idx} /\ own'[t] = own[t]
      /\ Held(t)' = Held(t) \cup {fh[t].idx}
  BY DEF Hand, Held, PoolTypeOK
<1>4. \A u \in Threads \ {t} : Hand(u)' = Hand(u) /\ Held(u)' = Held(u)
  BY HeldFrame DEF PoolTypeOK
<1>5. ExclusiveSlots'
  <2>1. \A u, v \in Threads : u # v => Held(u)' \cap Held(v)' = {}
    <3> TAKE u, v \in Threads
    <3> HAVE u # v
    <3>1. Held(u) \cap Held(v) = {} /\ fh[t].idx \notin Held(u) /\ fh[t].idx \notin Held(v)
      BY <1>1 DEF ExclusiveSlots
    <3>2. CASE u = t
      BY <1>3, <1>4, <3>1, <3>2
    <3>3. CASE v = t
      BY <1>3, <1>4, <3>1, <3>3
    <3>4. CASE u # t /\ v # t
      BY <1>4, <3>1, <3>4
    <3> QED BY <3>2, <3>3, <3>4
  <2>2. ASSUME NEW u \in Threads
        PROVE  Hand(u)' \cap own'[u] = {} /\ Held(u)' \cap FreeSet' = {}
    <3>1. fh[t].idx \notin Held(u) /\ Hand(u) \cap own[u] = {} /\ Held(u) \cap FreeSet = {}
      BY <1>1 DEF ExclusiveSlots
    <3>2. CASE u = t
      BY <1>1, <1>3, <3>1, <3>2 DEF Held
    <3>3. CASE u # t
      BY <1>1, <1>4, <3>1, <3>3
    <3> QED BY <3>2, <3>3
  <2> QED BY <2>1, <2>2 DEF ExclusiveSlots
<1>6. FreeListIntact'
  <2>1. free_head'.idx = IF depth' = 0 THEN Nil ELSE chain'[depth']
    BY <1>1
  <2>2. \A i \in 1 .. depth' :
          pool_next_free'[chain'[i]] = IF i = 1 THEN Nil ELSE chain'[i - 1]
    <3> TAKE i \in 1 .. depth'
    <3>1. i \in 1 .. depth /\ i \in 1 .. depth - 1 /\ (i # 1 => i - 1 \in 1 .. depth - 1)
      BY <1>1
    <3>2. chain'[i] = chain[i] /\ (i # 1 => chain'[i - 1] = chain[i - 1])
      BY <1>1, <3>1
    <3>3. pool_next_free[chain[i]] = IF i = 1 THEN Nil ELSE chain[i - 1]
      BY <3>1 DEF FreeListIntact
    <3> QED BY <3>2, <3>3
  <2>3. \A i, j \in 1 .. depth' : chain'[i] = chain'[j] => i = j
    BY <1>1 DEF FreeListIntact
  <2>4. \A s \in Slots : s \in FreeSet' \/ \E u \in Threads : s \in Held(u)'
    BY <1>1, <1>3, <1>4 DEF FreeListIntact
  <2> QED BY <2>1, <2>2, <2>3, <2>4 DEF FreeListIntact
<1>7. LocalsCurrent'
  BY <1>1, <1>2 DEF LocalsCurrent, PoolTypeOK, HeadWord, Nil, Slots
<1> QED BY <1>2, <1>5, <1>6, <1>7

(* allocate counts and returns the slot.                                   *)
LEMMA AllocSizeStep ==
  ASSUME PoolInv, NEW t \in Threads, AllocSize(t)
  PROVE  PoolInv'
<1> USE PoolAssumption DEF PoolInv, AllocSize, At, Goto
<1>1. slot[t] \in Slots
  BY DEF LocalsCurrent, PoolTypeOK
<1>2. PoolTypeOK'
  BY <1>1 DEF PoolTypeOK, Labels
<1>3. Hand(t)' = {} /\ Held(t)' = Held(t)
  BY DEF Hand, Held, PoolTypeOK
<1>4. \A u \in Threads \ {t} : Hand(u)' = Hand(u) /\ Held(u)' = Held(u) /\ own'[u] = own[u]
  BY HeldFrame DEF PoolTypeOK
<1>5. FreeSet' = FreeSet
  BY DEF FreeSet
<1>6. \A u \in Threads : Held(u)' = Held(u)
  BY <1>3, <1>4
<1>7. ExclusiveSlots'
  <2>1. \A u \in Threads : Hand(u)' \cap own'[u] = {}
    BY <1>3, <1>4 DEF ExclusiveSlots
  <2> QED BY <2>1, <1>5, <1>6 DEF ExclusiveSlots
<1>8. FreeListIntact'
  BY <1>5, <1>6 DEF FreeListIntact
<1>9. LocalsCurrent'
  BY DEF LocalsCurrent, PoolTypeOK, Labels
<1> QED BY <1>2, <1>7, <1>8, <1>9

(* deallocate gives up its slot and reads the head.                        *)
LEMMA FreeLoadStep ==
  ASSUME PoolInv, NEW t \in Threads, NEW s \in Slots, FreeLoad(t, s)
  PROVE  PoolInv'
<1> USE PoolAssumption DEF PoolInv, FreeLoad, At, Goto, shared
<1>1. PoolTypeOK'
  BY DEF PoolTypeOK, Labels
<1>2. Hand(t)' = {s} /\ own'[t] = own[t] \ {s} /\ Held(t)' = Held(t)
  BY DEF Hand, Held, PoolTypeOK
<1>3. \A u \in Threads \ {t} : Hand(u)' = Hand(u) /\ Held(u)' = Held(u) /\ own'[u] = own[u]
  BY HeldFrame DEF PoolTypeOK
<1>4. FreeSet' = FreeSet
  BY DEF FreeSet
<1>5. \A u \in Threads : Held(u)' = Held(u)
  BY <1>2, <1>3
<1>6. ExclusiveSlots'
  <2>1. \A u \in Threads : Hand(u)' \cap own'[u] = {}
    BY <1>2, <1>3 DEF ExclusiveSlots
  <2> QED BY <2>1, <1>4, <1>5 DEF ExclusiveSlots
<1>7. FreeListIntact'
  BY <1>4, <1>5 DEF FreeListIntact
<1>8. LocalsCurrent'
  BY DEF LocalsCurrent, PoolTypeOK, HeadWord, Labels, Slots, Nil
<1> QED BY <1>1, <1>6, <1>7, <1>8

(* deallocate() writes the link of a slot in its own hands: neither the    *)
(* free list nor another thread's knowledge of it is touched.              *)
LEMMA FreeLinkStep ==
  ASSUME PoolInv, NEW t \in Threads, FreeLink(t)
  PROVE  PoolInv'
<1> USE PoolAssumption DEF PoolInv, FreeLink, At, Goto
<1>1. slot[t] \in Slots /\ slot[t] \in Held(t) /\ slot[t] \notin FreeSet
  BY DEF LocalsCurrent, PoolTypeOK, Held, Hand, ExclusiveSlots
<1>2. PoolTypeOK'
  BY <1>1 DEF PoolTypeOK, Labels, HeadWord
<1>3. \A u \in Threads : Hand(u)' = Hand(u) /\ Held(u)' = Held(u)
  BY DEF PoolTypeOK, Hand, Held, Labels
<1>4. FreeSet' = FreeSet
  BY DEF FreeSet
<1>5. ExclusiveSlots'
  BY <1>3, <1>4 DEF ExclusiveSlots
<1>6. \A x \in Slots \ {slot[t]} : pool_next_free'[x] = pool_next_free[x]
  BY DEF PoolTypeOK
<1>7. FreeListIntact'
  <2>1. \A i \in 1 .. depth : chain[i] \in Slots /\ chain[i] # slot[t]
    BY <1>1 DEF PoolTypeOK, FreeSet
  <2>2. \A i \in 1 .. depth : pool_next_free'[chain[i]] = pool_next_free[chain[i]]
    BY <2>1, <1>6
  <2> QED BY <2>2, <1>3, <1>4 DEF FreeListIntact
<1>8. LocalsCurrent'
  <2> SUFFICES ASSUME NEW u \in Threads
               PROVE  /\ fh[u].tag <= free_head.tag
                      /\ pc'[u] \in {"alloc_next", "alloc_cas"} => fh[u].idx # Nil
                      /\ pc'[u] \in {"alloc_next", "alloc_cas", "free_link", "free_cas"}
                           /\ fh[u].tag = free_head.tag => fh[u].idx = free_head.idx
                      /\ pc'[u] = "alloc_cas" /\ fh[u].tag = free_head.tag
                           => next[u] = pool_next_free'[fh[u].idx]
                      /\ pc'[u] = "free_cas" => pool_next_free'[slot[u]] = fh[u].idx
                      /\ pc'[u] \in {"alloc_size", "free_link", "free_cas"} => slot[u] # Nil
    BY DEF LocalsCurrent
  <2>1. CASE u = t
    BY <2>1, <1>1 DEF LocalsCurrent, PoolTypeOK
  <2>2. CASE u # t
    <3>1. pc'[u] = pc[u]
      BY <2>2 DEF PoolTypeOK
    <3>2. ASSUME pc[u] = "alloc_cas", fh[u].tag = free_head.tag
          PROVE  pool_next_free'[fh[u].idx] = pool_next_free[fh[u].idx]
      <4>1. fh[u].idx = free_head.idx /\ fh[u].idx # Nil
        BY <3>2 DEF LocalsCurrent
      <4>2. fh[u].idx \in FreeSet
        BY <4>1 DEF FreeListIntact, FreeSet, PoolTypeOK
      <4>3. fh[u].idx \in Slots
        BY <4>1 DEF PoolTypeOK, HeadWord
      <4> QED BY <4>2, <4>3, <1>1, <1>6
    <3>3. ASSUME pc[u] = "free_cas"
          PROVE  pool_next_free'[slot[u]] = pool_next_free[slot[u]]
      <4>1. slot[u] \in Held(u) /\ slot[u] \in Slots
        BY <3>3 DEF Held, Hand, LocalsCurrent, PoolTypeOK
      <4>2. slot[u] # slot[t]
        BY <4>1, <1>1, <2>2 DEF ExclusiveSlots
      <4> QED BY <4>1, <4>2, <1>6
    <3> QED BY <3>1, <3>2, <3>3 DEF LocalsCurrent
  <2> QED BY <2>1, <2>2
<1> QED BY <1>2, <1>5, <1>7, <1>8

(* The CAS of deallocate(): the pushed slot already links to the head it   *)
(* replaces, so the list grows by exactly that slot.                       *)
LEMMA PushFacts ==
  ASSUME PoolInv, NEW t \in Threads, FreePush(t)
  PROVE  /\ slot[t] \in Slots
         /\ slot[t] \notin FreeSet
         /\ slot[t] \in Held(t)
         /\ pool_next_free[slot[t]] = IF depth = 0 THEN Nil ELSE chain[depth]
         /\ depth \in Nat
         /\ depth' = depth + 1
         /\ chain'[depth + 1] = slot[t]
         /\ \A i \in 1 .. depth : chain'[i] = chain[i]
         /\ FreeSet' = FreeSet \cup {slot[t]}
<1> USE DEF PoolInv, FreePush, At, Goto, HeadIs
<1>1. slot[t] \in Slots /\ slot[t] \in Held(t) /\ slot[t] \notin FreeSet
  BY DEF LocalsCurrent, PoolTypeOK, Held, Hand, ExclusiveSlots
<1>2. pool_next_free[slot[t]] = IF depth = 0 THEN Nil ELSE chain[depth]
  BY DEF LocalsCurrent, FreeListIntact
<1>3. /\ depth \in Nat /\ depth' = depth + 1 /\ chain'[depth + 1] = slot[t]
      /\ \A i \in 1 .. depth : chain'[i] = chain[i]
  BY DEF PoolTypeOK
<1>4. 1 .. depth' = (1 .. depth) \cup {depth + 1}
  BY <1>3
<1>5. FreeSet' = FreeSet \cup {slot[t]}
  BY <1>3, <1>4 DEF FreeSet
<1> QED BY <1>1, <1>2, <1>3, <1>5

(* deallocate's CAS succeeds: its slot is on top.                          *)
LEMMA FreePushStep ==
  ASSUME PoolInv, NEW t \in Threads, FreePush(t)
  PROVE  PoolInv'
<1> USE PoolAssumption DEF PoolInv, FreePush, At, Goto
<1>1. /\ slot[t] \in Slots
      /\ slot[t] \notin FreeSet
      /\ slot[t] \in Held(t)
      /\ pool_next_free[slot[t]] = IF depth = 0 THEN Nil ELSE chain[depth]
      /\ depth \in Nat
      /\ depth' = depth + 1
      /\ chain'[depth + 1] = slot[t]
      /\ \A i \in 1 .. depth : chain'[i] = chain[i]
      /\ FreeSet' = FreeSet \cup {slot[t]}
  BY PushFacts
<1>2. PoolTypeOK'
  BY <1>1 DEF PoolTypeOK, Labels, HeadWord
<1>3. /\ Hand(t) = {slot[t]} /\ Hand(t)' = {} /\ own'[t] = own[t]
      /\ slot[t] \notin own[t] /\ Held(t)' = Held(t) \ {slot[t]}
  BY DEF Hand, Held, PoolTypeOK, ExclusiveSlots
<1>4. \A u \in Threads \ {t} : Hand(u)' = Hand(u) /\ Held(u)' = Held(u) /\ own'[u] = own[u]
  BY HeldFrame DEF PoolTypeOK
<1>5. ExclusiveSlots'
  <2>1. \A u, v \in Threads : u # v => Held(u)' \cap Held(v)' = {}
    <3>1. \A u \in Threads : Held(u)' \subseteq Held(u)
      BY <1>3, <1>4
    <3> QED BY <3>1 DEF ExclusiveSlots
  <2>2. ASSUME NEW u \in Threads
        PROVE  Hand(u)' \cap own'[u] = {} /\ Held(u)' \cap FreeSet' = {}
    <3>1. Hand(u) \cap own[u] = {} /\ Held(u) \cap FreeSet = {}
      BY DEF ExclusiveSlots
    <3>2. CASE u = t
      BY <1>1, <1>3, <3>1, <3>2
    <3>3. CASE u # t
      <4>1. slot[t] \notin Held(u)
        BY <3>3, <1>1 DEF ExclusiveSlots
      <4> QED BY <1>1, <1>4, <3>1, <3>3, <4>1
    <3> QED BY <3>2, <3>3
  <2> QED BY <2>1, <2>2 DEF ExclusiveSlots
<1>6. FreeListIntact'
  <2>1. free_head'.idx = IF depth' = 0 THEN Nil ELSE chain'[depth']
    BY <1>1
  <2>2. \A i \in 1 .. depth' :
          pool_next_free'[chain'[i]] = IF i = 1 THEN Nil ELSE chain'[i - 1]
    <3> TAKE i \in 1 .. depth'
    <3>1. CASE i = depth + 1
      BY <1>1, <3>1
    <3>2. CASE i \in 1 .. depth
      <4>1. chain'[i] = chain[i] /\ (i # 1 => chain'[i - 1] = chain[i - 1])
        BY <1>1, <3>2
      <4>2. pool_next_free[chain[i]] = IF i = 1 THEN Nil ELSE chain[i - 1]
        BY <3>2 DEF FreeListIntact
      <4> QED BY <4>1, <4>2
    <3> QED BY <1>1, <3>1, <3>2
  <2>3. \A i, j \in 1 .. depth' : chain'[i] = chain'[j] => i = j
    <3>1. \A i \in 1 .. depth : chain[i] # slot[t]
      BY <1>1 DEF FreeSet
    <3> QED BY <1>1, <3>1 DEF FreeListIntact
  <2>4. \A s \in Slots : s \in FreeSet' \/ \E u \in Threads : s \in Held(u)'
    BY <1>1, <1>3, <1>4 DEF FreeListIntact
  <2> QED BY <2>1, <2>2, <2>3, <2>4 DEF FreeListIntact
<1>7. LocalsCurrent'
  BY <1>1, <1>2 DEF LocalsCurrent, PoolTypeOK, HeadWord
<1> QED BY <1>2, <1>5, <1>6, <1>7

(* deallocate's CAS failed and it tries again.                             *)
LEMMA FreeRetryStep ==
  ASSUME PoolInv, NEW t \in Threads, FreeRetry(t)
  PROVE  PoolInv'
<1> USE PoolAssumption DEF PoolInv, FreeRetry, At, Goto, shared
<1>1. PoolTypeOK'
  BY DEF PoolTypeOK, Labels
<1>2. \A u \in Threads : Hand(u)' = Hand(u) /\ Held(u)' = Held(u)
  BY DEF PoolTypeOK, Hand, Held, Labels
<1>3. FreeSet' = FreeSet
  BY DEF FreeSet
<1>4. ExclusiveSlots'
  BY <1>2, <1>3 DEF ExclusiveSlots, PoolTypeOK
<1>5. FreeListIntact'
  BY <1>2, <1>3 DEF FreeListIntact
<1>6. LocalsCurrent'
  BY DEF LocalsCurrent, PoolTypeOK, HeadWord, Labels
<1> QED BY <1>1, <1>4, <1>5, <1>6

(* deallocate counts and returns.                                          *)
LEMMA FreeSizeStep ==
  ASSUME PoolInv, NEW t \in Threads, FreeSize(t)
  PROVE  PoolInv'
<1> USE PoolAssumption DEF PoolInv, FreeSize, At, Goto
<1>1. PoolTypeOK'
  BY DEF PoolTypeOK, Labels
<1>2. \A u \in Threads : Hand(u)' = Hand(u) /\ Held(u)' = Held(u)
  BY DEF PoolTypeOK, Hand, Held, Labels
<1>3. FreeSet' = FreeSet
  BY DEF FreeSet
<1>4. ExclusiveSlots'
  BY <1>2, <1>3 DEF ExclusiveSlots, PoolTypeOK
<1>5. FreeListIntact'
  BY <1>2, <1>3 DEF FreeListIntact
<1>6. LocalsCurrent'
  BY DEF LocalsCurrent, PoolTypeOK, Labels
<1> QED BY <1>1, <1>4, <1>5, <1>6

(* Every step of every thread preserves the invariant.                     *)
LEMMA NextPoolInv == PoolInv /\ [PoolNext]_poolVars => PoolInv'
<1> SUFFICES ASSUME PoolInv, [PoolNext]_poolVars PROVE PoolInv'
  OBVIOUS
<1>1. CASE UNCHANGED poolVars
  BY <1>1 DEF poolVars, PoolInv, PoolTypeOK, ExclusiveSlots, FreeListIntact, LocalsCurrent,
              Held, Hand, FreeSet
<1>2. ASSUME NEW t \in Threads, AllocLoad(t) \/ AllocRetry(t) PROVE PoolInv'
  BY <1>2, LoadStep
<1>3. ASSUME NEW t \in Threads, AllocNext(t) PROVE PoolInv'
  BY <1>3, AllocNextStep
<1>4. ASSUME NEW t \in Threads, AllocTake(t) PROVE PoolInv'
  BY <1>4, AllocTakeStep
<1>5. ASSUME NEW t \in Threads, AllocSize(t) PROVE PoolInv'
  BY <1>5, AllocSizeStep
<1>6. ASSUME NEW t \in Threads, NEW s \in Slots, FreeLoad(t, s) PROVE PoolInv'
  BY <1>6, FreeLoadStep
<1>7. ASSUME NEW t \in Threads, FreeLink(t) PROVE PoolInv'
  BY <1>7, FreeLinkStep
<1>8. ASSUME NEW t \in Threads, FreePush(t) PROVE PoolInv'
  BY <1>8, FreePushStep
<1>9. ASSUME NEW t \in Threads, FreeRetry(t) PROVE PoolInv'
  BY <1>9, FreeRetryStep
<1>10. ASSUME NEW t \in Threads, FreeSize(t) PROVE PoolInv'
  BY <1>10, FreeSizeStep
<1> QED
  BY <1>1, <1>2, <1>3, <1>4, <1>5, <1>6, <1>7, <1>8, <1>9, <1>10 DEF PoolNext

(* The inductive invariant of the pool: types, owners, list and locals.    *)
THEOREM PoolInvariant == PoolSpec => []PoolInv
  BY InitPoolInv, NextPoolInv, PTL DEF PoolSpec

(* The pool's words and every thread's locals keep their types.            *)
THEOREM PoolTypeCorrect == PoolSpec => []PoolTypeOK
  BY PoolInvariant, PTL DEF PoolInv

(* allocate() never hands out a slot that is in use, whatever the number   *)
(* of threads and slots and however they interleave.                       *)
THEOREM SlotsAreExclusive == PoolSpec => []ExclusiveSlots
  BY PoolInvariant, PTL DEF PoolInv

(* The links in memory always spell exactly the free slots.                *)
THEOREM ListStaysIntact == PoolSpec => []FreeListIntact
  BY PoolInvariant, PTL DEF PoolInv

(* Holdings and free set are untouched by every step but the two CASes.    *)
LEMMA QuietSteps ==
  ASSUME PoolInv, NEW t \in Threads,
         \/ AllocLoad(t) \/ AllocNext(t) \/ AllocRetry(t) \/ AllocSize(t)
         \/ \E s \in Slots : FreeLoad(t, s)
         \/ FreeLink(t) \/ FreeRetry(t) \/ FreeSize(t)
  PROVE  FreeSet' = FreeSet /\ \A u \in Threads : Held(u)' = Held(u)
<1> USE DEF PoolInv, PoolTypeOK, Held, Hand, FreeSet, At, Goto
<1>1. CASE AllocLoad(t) \/ AllocRetry(t)
  BY <1>1 DEF AllocLoad, AllocRetry, LoadHead
<1>2. CASE AllocNext(t)
  BY <1>2 DEF AllocNext
<1>3. CASE AllocSize(t)
  BY <1>3 DEF AllocSize
<1>4. ASSUME NEW s \in Slots, FreeLoad(t, s)
      PROVE  FreeSet' = FreeSet /\ \A u \in Threads : Held(u)' = Held(u)
  BY <1>4 DEF FreeLoad
<1>5. CASE FreeLink(t) \/ FreeRetry(t) \/ FreeSize(t)
  BY <1>5 DEF FreeLink, FreeRetry, FreeSize
<1> QED BY <1>1, <1>2, <1>3, <1>4, <1>5

(* The lock-free pool implements the abstract pool of SlotPool: the CAS of *)
(* allocate() is its Take, the CAS of deallocate() its Give.               *)
THEOREM PoolRefinement == PoolSpec => ImplementsSlotPool
<1> DEFINE held == [t \in Threads |-> Held(t)]
<1>1. PoolInit => Pool!Init
  <2> SUFFICES ASSUME PoolInit PROVE FreeSet = Slots /\ held = [t \in Threads |-> {}]
    BY DEF Pool!Init
  <2>1. \A t \in Threads : Held(t) = {}
    BY DEF PoolInit, Held, Hand
  <2>2. FreeSet \subseteq Slots /\ Slots \subseteq FreeSet
    <3>1. PoolTypeOK /\ FreeListIntact
      BY InitPoolInv DEF PoolInv
    <3>2. Slots \subseteq FreeSet
      BY <3>1, <2>1 DEF FreeListIntact
    <3>3. FreeSet \subseteq Slots
      BY <3>1 DEF FreeSet, PoolTypeOK
    <3> QED BY <3>2, <3>3
  <2> QED BY <2>1, <2>2
<1>2. PoolInv /\ [PoolNext]_poolVars => [Pool!Next]_<<FreeSet, held>>
  <2> SUFFICES ASSUME PoolInv, [PoolNext]_poolVars
               PROVE  Pool!Next \/ (FreeSet' = FreeSet /\ held' = held)
    OBVIOUS
  <2>1. CASE UNCHANGED poolVars
    BY <2>1 DEF poolVars, FreeSet, Held, Hand
  <2>2. ASSUME NEW t \in Threads,
               \/ AllocLoad(t) \/ AllocNext(t) \/ AllocRetry(t) \/ AllocSize(t)
               \/ \E s \in Slots : FreeLoad(t, s)
               \/ FreeLink(t) \/ FreeRetry(t) \/ FreeSize(t)
        PROVE  FreeSet' = FreeSet /\ held' = held
    BY <2>2, QuietSteps
  <2>3. ASSUME NEW t \in Threads, AllocTake(t)
        PROVE  Pool!Next
    <3> DEFINE s == fh[t].idx
    <3>1. s \in Slots /\ s \in FreeSet /\ FreeSet' = FreeSet \ {s}
      BY <2>3, TakeFacts
    <3>2. Held(t)' = Held(t) \cup {s} /\ \A u \in Threads \ {t} : Held(u)' = Held(u)
      BY <2>3 DEF AllocTake, At, Goto, Held, Hand, PoolInv, PoolTypeOK
    <3>3. held' = [held EXCEPT ![t] = @ \cup {s}]
      BY <3>2
    <3>4. Pool!Take(t, s)
      BY <3>1, <3>3 DEF Pool!Take
    <3> QED BY <3>1, <3>4 DEF Pool!Next
  <2>4. ASSUME NEW t \in Threads, FreePush(t)
        PROVE  Pool!Next
    <3> DEFINE s == slot[t]
    <3>1. s \in Slots /\ s \in Held(t) /\ FreeSet' = FreeSet \cup {s}
      BY <2>4, PushFacts
    <3>2. Held(t)' = Held(t) \ {s} /\ \A u \in Threads \ {t} : Held(u)' = Held(u)
      BY <2>4 DEF FreePush, At, Goto, Held, Hand, PoolInv, PoolTypeOK, ExclusiveSlots
    <3>3. held' = [held EXCEPT ![t] = @ \ {s}]
      BY <3>2
    <3>4. Pool!Give(t, s)
      BY <3>1, <3>3 DEF Pool!Give
    <3> QED BY <3>1, <3>4 DEF Pool!Next
  <2> QED BY <2>1, <2>2, <2>3, <2>4 DEF PoolNext
<1>3. PoolSpec => []PoolInv
  BY PoolInvariant
<1> QED BY <1>1, <1>2, <1>3, PTL DEF PoolSpec, ImplementsSlotPool, Pool!Spec
-----------------------------------------------------------------------------
(* The event ring.                                                         *)

(* Cursors less than a lap apart never share a slot.                       *)
LEMMA IndexDistinct ==
  ASSUME NEW m \in Nat, NEW n \in Nat, m < n, n - m < Capacity
  PROVE  Index(m) # Index(n)
BY RingAssumption, RemainderDistinct DEF Index

(* A cursor's slot lies in the ring.                                       *)
LEMMA RingIndexRange ==
  ASSUME NEW n \in Nat
  PROVE  Index(n) \in 0 .. Capacity - 1
  BY RingAssumption DEF Index

(* The ring starts empty.                                                  *)
LEMMA InitRingInv == RingInit => RingInv
  BY RingAssumption DEF RingInit, RingInv, RingTypeOK

(* Producer and consumer work on different slots as long as the producer   *)
(* found room and the consumer found an event.                             *)
LEMMA SlotsApart ==
  ASSUME RingInv, ppc # "idle", head_ < tail_
  PROVE  Index(head_) # Index(tail_)
  BY IndexDistinct DEF RingInv, RingTypeOK

(* Every access of the producer and the consumer keeps the invariant.      *)
LEMMA NextRingInv == RingInv /\ [RingNext]_eventVars => RingInv'
<1> SUFFICES ASSUME RingInv, [RingNext]_eventVars PROVE RingInv'
  OBVIOUS
<1> USE RingAssumption
<1>0. Index(head_) \in 0 .. Capacity - 1 /\ Index(tail_) \in 0 .. Capacity - 1
  BY RingIndexRange DEF RingInv, RingTypeOK
<1>1. CASE UNCHANGED eventVars
  BY <1>1 DEF eventVars, RingInv, RingTypeOK
<1>2. ASSUME NEW v \in Values, PushCheck(v) PROVE RingInv'
  BY <1>2 DEF PushCheck, HasRoom, RingInv, RingTypeOK, ring, consumer
<1>3. CASE PushWrite
  <2>1. head_ < tail_ => slots_'[Index(head_)] = slots_[Index(head_)]
    BY <1>0, <1>3, SlotsApart DEF PushWrite, RingInv, RingTypeOK
  <2>2. slots_'[Index(tail_)] = pev
    BY <1>0, <1>3 DEF PushWrite, RingInv, RingTypeOK
  <2>3. RingTypeOK'
    BY <1>0, <1>3 DEF PushWrite, RingInv, RingTypeOK, consumer
  <2>4. Index(head_)' = Index(head_) /\ Index(tail_)' = Index(tail_)
    BY <1>3 DEF PushWrite, Index
  <2> QED BY <1>3, <2>1, <2>2, <2>3, <2>4 DEF PushWrite, RingInv, RingTypeOK, consumer
<1>4. CASE PushPublish
  <2>1. Index(head_)' = Index(head_)
    BY <1>4 DEF PushPublish, Index
  <2> QED BY <1>4, <2>1 DEF PushPublish, RingInv, RingTypeOK, consumer
<1>5. CASE PopCheck
  BY <1>5 DEF PopCheck, RingInv, RingTypeOK, ring, producer
<1>6. CASE PopRead
  <2>1. Index(head_)' = Index(head_) /\ Index(tail_)' = Index(tail_)
    BY <1>6 DEF PopRead, ring, Index
  <2> QED BY <1>0, <1>6, <2>1 DEF PopRead, RingInv, RingTypeOK, ring, producer
<1>7. CASE PopAdvance
  <2>1. Index(tail_)' = Index(tail_)
    BY <1>7 DEF PopAdvance, Index
  <2> QED BY <1>7, <2>1 DEF PopAdvance, RingInv, RingTypeOK, producer
<1>8. CASE PeekCheck
  BY <1>8 DEF PeekCheck, RingInv, RingTypeOK, ring, producer
<1>9. CASE PeekRead
  <2>1. Index(head_)' = Index(head_) /\ Index(tail_)' = Index(tail_)
    BY <1>9 DEF PeekRead, ring, Index
  <2> QED BY <1>0, <1>9, <2>1 DEF PeekRead, RingInv, RingTypeOK, ring, producer
<1>10. CASE PushRefused \/ PopRefused
  BY <1>1, <1>10 DEF PushRefused, PopRefused
<1> QED
  BY <1>1, <1>2, <1>3, <1>4, <1>5, <1>6, <1>7, <1>8, <1>9, <1>10 DEF RingNext

(* The inductive invariant of push, pop and peek.                          *)
THEOREM RingInvariant == RingSpec => []RingInv
  BY InitRingInv, NextRingInv, PTL DEF RingSpec

(* The cursors stay within a lap of each other for every capacity.         *)
THEOREM RingTypeCorrect == RingSpec => []RingTypeOK
  BY RingInvariant, PTL DEF RingInv

(* push() never writes the slot that pop() or peek() is copying.           *)
THEOREM SlotNeverTorn == RingSpec => []NoTornSlot
<1>1. RingInv => NoTornSlot
  BY SlotsApart DEF RingInv, NoTornSlot
<1> QED BY <1>1, RingInvariant, PTL

(* The retry thread pops exactly the event it peeked and pushed on.        *)
THEOREM PeekThenPop == RingSpec => []PopTakesPeeked
<1>1. RingInv => PopTakesPeeked
  BY DEF RingInv, PopTakesPeeked
<1> QED BY <1>1, RingInvariant, PTL

(* The ring's contents as a sequence.                                      *)
LEMMA ContentsSeq ==
  ASSUME RingInv
  PROVE  /\ tail_ - head_ \in Nat
         /\ Contents \in Seq(Values \cup {NoValue})
         /\ Len(Contents) = tail_ - head_
         /\ \A i \in 1 .. tail_ - head_ : Contents[i] = slots_[Index(head_ + i - 1)]
<1>1. tail_ - head_ \in Nat
  BY DEF RingInv, RingTypeOK
<1>2. \A i \in 1 .. tail_ - head_ : slots_[Index(head_ + i - 1)] \in Values \cup {NoValue}
  <2> TAKE i \in 1 .. tail_ - head_
  <2>1. head_ + i - 1 \in Nat
    BY <1>1 DEF RingInv, RingTypeOK
  <2>2. Index(head_ + i - 1) \in 0 .. Capacity - 1
    BY <2>1, RingIndexRange
  <2> QED BY <2>2 DEF RingInv, RingTypeOK
<1> QED BY <1>1, <1>2 DEF Contents

(* Publishing the tail appends the event the producer wrote.               *)
LEMMA PublishIsPush ==
  ASSUME RingInv, RingInv', PushPublish
  PROVE  Fifo!Push(pev)
<1> USE DEF PushPublish, RingInv, RingTypeOK
<1> DEFINE n == tail_ - head_
<1>1. /\ n \in Nat /\ Len(Contents) = n /\ Contents \in Seq(Values \cup {NoValue})
      /\ \A i \in 1 .. n : Contents[i] = slots_[Index(head_ + i - 1)]
  BY ContentsSeq
<1>2. n < Capacity
  OBVIOUS
<1>3. Contents' = [i \in 1 .. n + 1 |-> slots_[Index(head_ + i - 1)]]
  BY <1>1 DEF Contents, Index
<1>4. head_ + (n + 1) - 1 = tail_ /\ slots_[Index(tail_)] = pev
  OBVIOUS
<1>5. Contents' = Append(Contents, pev)
  <2> DEFINE S == Values \cup {NoValue}
             q == Contents
             r == Contents'
  <2>1. r \in Seq(S) /\ Len(r) = n + 1
    <3>1. \A i \in 1 .. n + 1 : slots_[Index(head_ + i - 1)] \in S
      <4> TAKE i \in 1 .. n + 1
      <4>1. head_ + i - 1 \in Nat
        BY <1>1
      <4>2. Index(head_ + i - 1) \in 0 .. Capacity - 1
        BY <4>1, RingIndexRange
      <4> QED BY <4>2
    <3>2. n + 1 \in Nat
      BY <1>1
    <3> HIDE DEF n
    <3> QED BY <1>3, <3>1, <3>2
  <2>2. \A i \in 1 .. n : r[i] = q[i]
    BY <1>1, <1>3
  <2>3. r[n + 1] = pev
    BY <1>1, <1>3, <1>4
  <2>4. q \in Seq(S) /\ Len(q) = n /\ pev \in S /\ n \in Nat
    BY <1>1
  <2> HIDE DEF q, r, S, n
  <2>5. /\ Append(q, pev) \in Seq(S) /\ Len(Append(q, pev)) = n + 1
        /\ \A i \in 1 .. n : Append(q, pev)[i] = q[i]
        /\ Append(q, pev)[n + 1] = pev
    BY <2>4, AppendProperties
  <2>6. \A i \in 1 .. n + 1 : r[i] = Append(q, pev)[i]
    BY <2>2, <2>3, <2>4, <2>5
  <2>7. r = Append(q, pev)
    BY <2>1, <2>5, <2>6, SeqEqual
  <2> QED BY <2>7 DEF q, r
<1>6. taken' = taken
  BY DEF consumer
<1> QED BY <1>1, <1>2, <1>5, <1>6 DEF Fifo!Push

(* Releasing the head removes the event the consumer copied.               *)
LEMMA AdvanceIsPop ==
  ASSUME RingInv, RingInv', PopAdvance
  PROVE  Fifo!Pop
<1> USE DEF PopAdvance, RingInv, RingTypeOK
<1> DEFINE n == tail_ - head_
<1>1. /\ n \in Nat \ {0} /\ Len(Contents) = n /\ Contents \in Seq(Values \cup {NoValue})
      /\ \A i \in 1 .. n : Contents[i] = slots_[Index(head_ + i - 1)]
  BY ContentsSeq
<1>2. Contents # <<>> /\ Head(Contents) = slots_[Index(head_)]
  BY <1>1
<1>3. taken' = Head(Contents)
  BY <1>2
<1>4. Contents' = [i \in 1 .. n - 1 |-> slots_[Index(head_ + 1 + i - 1)]]
  BY <1>1 DEF Contents, Index
<1>5. \A i \in 1 .. n - 1 : slots_[Index(head_ + 1 + i - 1)] = Contents[i + 1]
  BY <1>1
<1>6. Contents' = Tail(Contents)
  <2> DEFINE S == Values \cup {NoValue}
             q == Contents
             r == Contents'
  <2>1. r \in Seq(S) /\ Len(r) = n - 1
    <3>1. \A i \in 1 .. n - 1 : slots_[Index(head_ + 1 + i - 1)] \in S
      <4> TAKE i \in 1 .. n - 1
      <4>1. head_ + 1 + i - 1 \in Nat
        BY <1>1
      <4>2. Index(head_ + 1 + i - 1) \in 0 .. Capacity - 1
        BY <4>1, RingIndexRange
      <4> QED BY <4>2
    <3>2. n - 1 \in Nat
      BY <1>1
    <3> HIDE DEF n
    <3> QED BY <1>4, <3>1, <3>2
  <2>2. \A i \in 1 .. n - 1 : r[i] = q[i + 1]
    BY <1>4, <1>5
  <2>3. q \in Seq(S) /\ Len(q) = n /\ q # <<>>
    BY <1>1, <1>2
  <2> HIDE DEF q, r, S, n
  <2>4. /\ Tail(q) \in Seq(S) /\ Len(Tail(q)) = n - 1
        /\ \A i \in 1 .. n - 1 : Tail(q)[i] = q[i + 1]
    BY <2>3, HeadTailProperties
  <2>5. r = Tail(q)
    BY <2>1, <2>2, <2>4, SeqEqual
  <2> QED BY <2>5 DEF q, r
<1> QED BY <1>2, <1>3, <1>6 DEF Fifo!Pop

(* No other step changes the contents or the event last returned; the slot *)
(* a push is writing lies beyond the published tail.                       *)
LEMMA OtherStepsKeepContents ==
  ASSUME RingInv, [RingNext]_eventVars, ~PushPublish, ~PopAdvance
  PROVE  Contents' = Contents /\ taken' = taken
<1>1. CASE PushWrite
  <2>1. /\ tail_ - head_ \in Nat /\ head_ \in Nat /\ tail_ \in Nat
        /\ tail_ - head_ < Capacity
    BY <1>1 DEF PushWrite, RingInv, RingTypeOK
  <2>2. \A i \in 1 .. tail_ - head_ :
          slots_'[Index(head_ + i - 1)] = slots_[Index(head_ + i - 1)]
    <3> TAKE i \in 1 .. tail_ - head_
    <3>1. /\ head_ + i - 1 \in Nat /\ head_ + i - 1 < tail_
          /\ tail_ - (head_ + i - 1) < Capacity
      BY <2>1, RingAssumption
    <3>2. Index(head_ + i - 1) # Index(tail_)
      BY <2>1, <3>1, IndexDistinct
    <3>3. Index(head_ + i - 1) \in 0 .. Capacity - 1
      BY <3>1, RingIndexRange
    <3> QED BY <1>1, <3>2, <3>3 DEF PushWrite, RingInv, RingTypeOK
  <2> QED BY <1>1, <2>2 DEF PushWrite, Contents, consumer, Index
<1>2. CASE ~PushWrite
  BY <1>2 DEF RingNext, eventVars, PushCheck, PopCheck, PopRead, PeekCheck, PeekRead, PushRefused,
     PopRefused, ring, producer, consumer, Contents, Index
<1> QED BY <1>1, <1>2

(* SPSCEventRing implements the bounded FIFO, for every capacity.          *)
THEOREM RingRefinement == RingSpec => ImplementsFifo
<1>1. RingInit => Fifo!Init
  BY DEF RingInit, Fifo!Init, Contents
<1>2. RingInv /\ RingInv' /\ [RingNext]_eventVars => [Fifo!Next]_<<Contents, taken>>
  <2> SUFFICES ASSUME RingInv, RingInv', [RingNext]_eventVars
               PROVE  Fifo!Next \/ UNCHANGED <<Contents, taken>>
    OBVIOUS
  <2>1. CASE PushPublish
    <3>1. pev \in Values
      BY <2>1 DEF PushPublish, RingInv
    <3> QED BY <2>1, <3>1, PublishIsPush DEF Fifo!Next
  <2>2. CASE PopAdvance
    BY <2>2, AdvanceIsPop DEF Fifo!Next
  <2>3. CASE ~PushPublish /\ ~PopAdvance
    BY <2>3, OtherStepsKeepContents
  <2> QED BY <2>1, <2>2, <2>3
<1> QED BY <1>1, <1>2, RingInvariant, PTL DEF RingSpec, ImplementsFifo, Fifo!Spec
-----------------------------------------------------------------------------
(* The dispatcher.                                                         *)

ParserPcs == {"idle", "test_active", "bucket_active", "ring_check", "ring_write",
              "ring_publish", "bucket_full", "set_active"}
RetryPcs  == {"scan", "peek", "push_check", "push_write", "push_publish", "pop",
              "test_empty", "clear"}

(* The states of the two ring writers, the worker rings and the buckets.   *)
ThreadsOK ==
  /\ parser \in [pc : ParserPcs, ev : Nat, owner : Workers, tail : Nat]
  /\ retry \in [pc : RetryPcs, ev : Nat, i : Workers, tail : Nat]
  /\ owner_ \in [Locates -> Workers \cup {kNone}]

RingsOK ==
  /\ heads_ \in [Workers -> Nat]
  /\ tails_ \in [Workers -> Nat]
  /\ rings_ \in [Workers -> [0 .. RingCap - 1 -> Nat]]

QueuesOK ==
  /\ bucket \in [Workers -> Seq(Nat)]
  /\ routed \in [Workers -> Seq(Nat)]
  /\ delivered \in [Workers -> Seq(Nat)]

FlagsOK ==
  /\ active \in [Workers -> BOOLEAN]
  /\ lateClear \in BOOLEAN
  /\ wake_fd \in BOOLEAN

WakeOK ==
  /\ sleep \in [Workers -> {"no", "armed", "poll", "woken"}]
  /\ swallowed \subseteq Workers

(* Between its peek and its pop the retry thread holds a copy of the event *)
(* at the head of a bucket that nobody else pops.                          *)
RetryHolds ==
  retry.pc \in {"push_check", "push_write", "push_publish", "pop"} =>
    bucket[retry.i] # <<>> /\ retry.ev = bucket[retry.i][1]

DispatchTypes == ThreadsOK /\ RingsOK /\ QueuesOK /\ WakeOK /\ RetryHolds

(* As long as the flag was never lowered over a backlog, a bucket that     *)
(* holds events is announced, by the flag or by the parser about to raise  *)
(* it; the parser appends to the bucket of a raised flag, and pushes into  *)
(* a ring only while the bucket is empty.                                  *)
BucketAnnounced ==
  /\ \A w \in Workers : bucket[w] # <<>> =>
       active[w] \/ (parser.pc = "set_active" /\ parser.owner = w)
  /\ parser.pc = "bucket_active" => active[parser.owner]
  /\ parser.pc \in {"ring_check", "ring_write", "ring_publish", "bucket_full"} =>
       bucket[parser.owner] = <<>>

(* The retry thread has published the head of bucket w and not popped it.  *)
Republished(w) == IF retry.pc = "pop" /\ retry.i = w THEN 1 ELSE 0

(* The parser has routed its event to w and not yet queued it anywhere.    *)
InHand(w) == IF parser.pc \notin {"idle", "set_active"} /\ parser.owner = w THEN 1 ELSE 0

(* Where the k-th event routed to w is: delivered, then in the ring, then  *)
(* in the bucket, then in the parser's hand.                               *)
Cursors(w) ==
  /\ heads_[w] <= tails_[w] /\ tails_[w] <= heads_[w] + RingCap
  /\ Republished(w) <= tails_[w]
  /\ Len(delivered[w]) = heads_[w]

Counts(w)    == Len(routed[w]) = tails_[w] - Republished(w) + Len(bucket[w]) + InHand(w)

Delivered(w) == \A k \in 1 .. heads_[w] : delivered[w][k] = routed[w][k]
InRing(w)    == \A k \in heads_[w] + 1 .. tails_[w] :
                  rings_[w][(k - 1) % RingCap] = routed[w][k]
InBucket(w)  == \A k \in 1 .. Len(bucket[w]) :
                  bucket[w][k] = routed[w][tails_[w] - Republished(w) + k]
HandLast(w)  == InHand(w) = 1 => routed[w][Len(routed[w])] = parser.ev

PlacesOf(w) ==
  Cursors(w) /\ Counts(w) /\ Delivered(w) /\ InRing(w) /\ InBucket(w) /\ HandLast(w)

(* What a thread inside push knows of its ring.                            *)
PushLocals ==
  /\ parser.pc \in {"ring_write", "ring_publish"} =>
       /\ parser.tail = tails_[parser.owner]
       /\ tails_[parser.owner] < heads_[parser.owner] + RingCap
  /\ parser.pc = "ring_publish" =>
       rings_[parser.owner][parser.tail % RingCap] = parser.ev
  /\ retry.pc \in {"push_write", "push_publish"} =>
       /\ retry.tail = tails_[retry.i]
       /\ tails_[retry.i] < heads_[retry.i] + RingCap
  /\ retry.pc = "push_publish" =>
       rings_[retry.i][retry.tail % RingCap] = retry.ev

EventsInPlace == PushLocals /\ \A w \in Workers : PlacesOf(w)

DispatchInv ==
  /\ DispatchTypes
  /\ ~lateClear => BucketAnnounced
  /\ ~lateClear => EventsInPlace
-----------------------------------------------------------------------------

(* An event added behind leaves the first one first.                       *)
LEMMA AppendKeepsHead ==
  ASSUME NEW s \in Seq(Nat), NEW e \in Nat
  PROVE  Append(s, e) # <<>> /\ (s # <<>> => Append(s, e)[1] = s[1])
<1>1. s # <<>> => 1 \in 1 .. Len(s)
  BY EmptySeq
<1> QED BY <1>1, AppendProperties

(* A cursor's slot lies in the worker's ring.                              *)
LEMMA IndexRange ==
  ASSUME NEW n \in Nat
  PROVE  n % RingCap \in 0 .. RingCap - 1
  BY DispatcherAssumption

(* All queues start empty.                                                 *)
LEMMA InitTypes == Init => DispatchTypes
  BY DispatcherAssumption, EmptySeq
  DEF Init, WakeInit, DispatchTypes, ThreadsOK, RingsOK, QueuesOK, WakeOK, RetryHolds,
      ParserPcs, RetryPcs, Workers, kNone

(* The parser's steps inside dispatch.                                     *)
LEMMA DispatchStepTypes ==
  ASSUME DispatchTypes, NEW l \in Locates, Dispatch(l)
  PROVE  DispatchTypes'
<1> PICK w \in Workers :
       /\ LookupOrRegister(l, w)
       /\ parser' = [parser EXCEPT !.pc = "test_active", !.ev = @ + 1, !.owner = w]
       /\ routed' = [routed EXCEPT ![w] = Append(@, parser.ev + 1)]
  BY DEF Dispatch
<1> USE DEF DispatchTypes
<1>1. UNCHANGED <<ringVars, bucket, active, retry, delivered, lateClear, wakeVars>>
  BY DEF Dispatch
<1>2. owner_' \in [Locates -> Workers \cup {kNone}]
  BY DEF LookupOrRegister, ThreadsOK
<1>0. parser.ev + 1 \in Nat
  BY DEF ThreadsOK
<1>3. ThreadsOK'
  BY <1>0, <1>1, <1>2 DEF ThreadsOK, ParserPcs
<1>4. QueuesOK'
  BY <1>0, <1>1, AppendProperties DEF QueuesOK
<1> QED BY <1>1, <1>3, <1>4 DEF RingsOK, WakeOK, RetryHolds, ringVars, wakeVars

(* A push into the retry bucket keeps the types.                           *)
LEMMA BucketPushTypes ==
  ASSUME DispatchTypes, NEW label, NEW after \in {"idle", "set_active"},
         BucketPush(label, after)
  PROVE  DispatchTypes'
<1> USE DEF DispatchTypes
<1>1. UNCHANGED <<owner_, registered, ringVars, active, retry, histVars, wakeVars>>
  BY DEF BucketPush
<1>2. ThreadsOK'
  BY <1>1 DEF BucketPush, ThreadsOK, ParserPcs, histVars
<1>3. /\ parser.owner \in Workers /\ parser.ev \in Nat /\ retry.i \in Workers
      /\ bucket[parser.owner] \in Seq(Nat) /\ bucket[retry.i] \in Seq(Nat)
      /\ bucket' = [bucket EXCEPT ![parser.owner] = Append(bucket[parser.owner], parser.ev)]
  BY DEF BucketPush, ThreadsOK, QueuesOK
<1>4. QueuesOK'
  BY <1>1, <1>3, AppendProperties DEF QueuesOK, histVars
<1>5. bucket[retry.i] # <<>> =>
        bucket'[retry.i] # <<>> /\ bucket'[retry.i][1] = bucket[retry.i][1]
  <2>1. CASE retry.i # parser.owner
    BY <1>3, <2>1 DEF QueuesOK
  <2>2. CASE retry.i = parser.owner
    <3>1. bucket'[retry.i] = Append(bucket[retry.i], parser.ev)
      BY <1>3, <2>2 DEF QueuesOK
    <3> QED BY <1>3, <3>1, AppendKeepsHead
  <2> QED BY <2>1, <2>2
<1> QED BY <1>1, <1>2, <1>4, <1>5 DEF RingsOK, WakeOK, RetryHolds, ringVars, wakeVars

(* So do the parser's other steps inside dispatch.                         *)
LEMMA ParserStepTypes ==
  ASSUME DispatchTypes,
         TestActive \/ ParserCheck \/ ParserWrite \/ ParserPublish \/ SetActive
  PROVE  DispatchTypes'
<1> USE DispatcherAssumption DEF DispatchTypes
<1>1. UNCHANGED <<owner_, bucket, retry, histVars>>
  BY DEF TestActive, ParserCheck, ParserWrite, ParserPublish, SetActive
<1>0. /\ parser.tail \in Nat /\ parser.tail + 1 \in Nat /\ parser.ev \in Nat
      /\ parser.owner \in Workers /\ tails_[parser.owner] \in Nat
      /\ parser.tail % RingCap \in 0 .. RingCap - 1
  <2>1. parser.tail \in Nat /\ parser.ev \in Nat /\ parser.owner \in Workers
    BY DEF ThreadsOK
  <2>2. tails_[parser.owner] \in Nat
    BY <2>1 DEF RingsOK
  <2> QED BY <2>1, <2>2, IndexRange
<1>2. parser' \in [pc : ParserPcs, ev : Nat, owner : Workers, tail : Nat]
  BY <1>0 DEF TestActive, ParserCheck, ParserWrite, ParserPublish, SetActive,
              ThreadsOK, ParserPcs
<1>3. RingsOK' /\ WakeOK'
  <2>1. CASE TestActive \/ ParserCheck \/ SetActive
    BY <2>1 DEF TestActive, ParserCheck, SetActive, RingsOK, WakeOK, ringVars, wakeVars
  <2>2. CASE ParserWrite
    BY <1>0, <2>2 DEF ParserWrite, Write, RingsOK, WakeOK, wakeVars
  <2>3. CASE ParserPublish
    BY <1>0, <2>3 DEF ParserPublish, Publish, Wake, RingsOK, WakeOK
  <2> QED BY <2>1, <2>2, <2>3
<1> QED BY <1>1, <1>2, <1>3 DEF ThreadsOK, QueuesOK, RetryHolds, histVars

(* The retry thread's steps.                                               *)
LEMMA NextBucketType ==
  ASSUME ThreadsOK
  PROVE  /\ NextBucket \in [pc : {"peek", "scan"}, ev : Nat, i : Workers, tail : Nat]
<1>1. retry.i + 1 < NWorkers => retry.i + 1 \in Workers
  BY DispatcherAssumption DEF ThreadsOK, Workers
<1> QED BY <1>1 DEF NextBucket, ThreadsOK

(* So do the steps of the retry thread.                                    *)
LEMMA RetryStepTypes ==
  ASSUME DispatchTypes, Retry
  PROVE  DispatchTypes'
<1> USE DispatcherAssumption DEF DispatchTypes
<1>1. UNCHANGED <<owner_, parser, routed, delivered>>
  BY DEF Retry, RetryScan, RetryPeek, RetryCheck, RetryWrite, RetryPublish, RetryPop,
         RetryTest, RetryClear, histVars
<1>2. CASE RetryScan \/ RetryPeek \/ RetryCheck \/ RetryTest
  <2>1. UNCHANGED <<ringVars, bucket, active, histVars, wakeVars>>
    BY <1>2 DEF RetryScan, RetryPeek, RetryCheck, RetryTest
  <2>2. retry' \in [pc : RetryPcs, ev : Nat, i : Workers, tail : Nat] /\ RetryHolds'
    <3>1. CASE RetryScan
      <4>1. 0 \in Workers
        BY DEF Workers
      <4> QED BY <3>1, <2>1, <4>1 DEF RetryScan, ThreadsOK, RetryPcs, RetryHolds
    <3>2. CASE RetryPeek
      <4>1. bucket[retry.i] \in Seq(Nat)
        BY DEF ThreadsOK, QueuesOK
      <4>2. bucket[retry.i] # <<>> =>
              Head(bucket[retry.i]) \in Nat /\ Head(bucket[retry.i]) = bucket[retry.i][1]
        BY <4>1, HeadTailProperties
      <4> QED BY <3>2, <2>1, <4>2 DEF RetryPeek, ThreadsOK, RetryPcs, RetryHolds
    <3>3. CASE RetryCheck
      BY <3>3, <2>1 DEF RetryCheck, ThreadsOK, RingsOK, RetryPcs, RetryHolds
    <3>4. CASE RetryTest
      BY <3>4, <2>1, NextBucketType DEF RetryTest, ThreadsOK, RetryPcs, RetryHolds
    <3> QED BY <1>2, <3>1, <3>2, <3>3, <3>4
  <2> QED BY <1>1, <2>1, <2>2 DEF ThreadsOK, RingsOK, QueuesOK, WakeOK, ringVars,
                                  histVars, wakeVars
<1>3. CASE RetryWrite \/ RetryPublish
  <2>0. /\ retry.tail \in Nat /\ retry.tail + 1 \in Nat /\ retry.ev \in Nat
        /\ retry.i \in Workers /\ retry.tail % RingCap \in 0 .. RingCap - 1
    BY IndexRange DEF ThreadsOK
  <2>1. RingsOK' /\ WakeOK'
    <3>1. CASE RetryWrite
      BY <2>0, <3>1 DEF RetryWrite, Write, RingsOK, WakeOK, wakeVars
    <3>2. CASE RetryPublish
      BY <2>0, <3>2 DEF RetryPublish, Publish, Wake, RingsOK, WakeOK
    <3> QED BY <1>3, <3>1, <3>2
  <2> QED BY <1>1, <1>3, <2>1 DEF RetryWrite, RetryPublish, ThreadsOK, QueuesOK,
                                  RetryHolds, RetryPcs, histVars
<1>4. CASE RetryPop
  <2>1. Tail(bucket[retry.i]) \in Seq(Nat)
    BY <1>4, HeadTailProperties DEF RetryPop, ThreadsOK, QueuesOK, RetryHolds
  <2> QED BY <1>1, <1>4, <2>1 DEF RetryPop, ThreadsOK, RingsOK, QueuesOK, WakeOK,
                 RetryHolds, RetryPcs, ringVars, histVars, wakeVars
<1>5. CASE RetryClear
  BY <1>1, <1>5, NextBucketType DEF RetryClear, ThreadsOK, RingsOK, QueuesOK, WakeOK,
         RetryHolds, RetryPcs, ringVars, wakeVars, Backlog
<1> QED BY <1>2, <1>3, <1>4, <1>5 DEF Retry

(* A worker's steps.                                                       *)
LEMMA WorkerStepTypes ==
  ASSUME DispatchTypes, NEW w \in Workers, Worker(w)
  PROVE  DispatchTypes'
<1> USE DispatcherAssumption DEF DispatchTypes
<1>1. CASE WorkerPop(w)
  <2>1. rings_[w][heads_[w] % RingCap] \in Nat /\ delivered[w] \in Seq(Nat)
    BY DEF RingsOK, QueuesOK
  <2>2. QueuesOK'
    BY <1>1, <2>1, AppendProperties DEF WorkerPop, QueuesOK
  <2>3. RingsOK'
    <3>1. heads_[w] + 1 \in Nat
      BY DEF RingsOK
    <3> QED BY <1>1, <3>1 DEF WorkerPop, RingsOK
  <2> QED BY <1>1, <2>2, <2>3 DEF WorkerPop, ThreadsOK, WakeOK, RetryHolds, wakeVars
<1>2. CASE WorkerSleeps(w)
  <2>1. WakeOK'
    BY <1>2 DEF WorkerSleeps, SetBlocked, Drain, PollReturns, Woken, PollTimesOut,
                ReadFd, WakeOK
  <2> QED BY <1>2, <2>1 DEF WorkerSleeps, ThreadsOK, RingsOK, QueuesOK, RetryHolds,
                            ringVars, histVars
<1> QED BY <1>1, <1>2 DEF Worker

(* So does every step.                                                     *)
LEMMA NextTypes == DispatchTypes /\ [Next]_vars => DispatchTypes'
<1> SUFFICES ASSUME DispatchTypes, [Next]_vars PROVE DispatchTypes'
  OBVIOUS
<1>1. CASE UNCHANGED vars
  BY <1>1 DEF vars, ringVars, histVars, wakeVars, DispatchTypes, ThreadsOK, RingsOK,
              QueuesOK, WakeOK, RetryHolds
<1>2. CASE Parser
  BY <1>2, DispatchStepTypes, BucketPushTypes, ParserStepTypes DEF Parser
<1> QED
  BY <1>1, <1>2, RetryStepTypes, WorkerStepTypes DEF Next

(* Whatever the threads do, also after the flag was lowered too early,     *)
(* cursors, buckets and program counters stay well formed, and the retry   *)
(* thread pops only from a bucket that holds the event it peeked.          *)
THEOREM DispatchTypeCorrect == Spec => []DispatchTypes
  BY InitTypes, NextTypes, PTL DEF Spec

(* The flags are Booleans; kept apart because only this needs them to be.  *)
LEMMA InitFlags == Init => FlagsOK
  BY DEF Init, WakeInit, FlagsOK

(* The flags keep what they say about the two threads' places.             *)
LEMMA NextFlags == FlagsOK /\ [Next]_vars => FlagsOK'
<1> SUFFICES ASSUME FlagsOK, [Next]_vars PROVE FlagsOK'
  OBVIOUS
<1> USE DEF FlagsOK, vars, ringVars, histVars, wakeVars
<1>1. CASE UNCHANGED vars
  BY <1>1
<1>2. CASE Parser
  <2>1. ASSUME NEW l \in Locates, Dispatch(l) PROVE FlagsOK'
    BY <2>1 DEF Dispatch
  <2>2. CASE BucketPush("bucket_active", "idle") \/ BucketPush("bucket_full", "set_active")
    BY <2>2 DEF BucketPush
  <2>3. CASE TestActive \/ ParserCheck \/ ParserWrite
    BY <2>3 DEF TestActive, ParserCheck, ParserWrite, Write
  <2>4. CASE ParserPublish
    BY <2>4 DEF ParserPublish, Publish, Wake
  <2>5. CASE SetActive
    BY <2>5 DEF SetActive
  <2> QED BY <1>2, <2>1, <2>2, <2>3, <2>4, <2>5 DEF Parser
<1>3. CASE Retry
  <2>1. CASE RetryScan \/ RetryPeek \/ RetryCheck \/ RetryWrite \/ RetryPop \/ RetryTest
    BY <2>1 DEF RetryScan, RetryPeek, RetryCheck, RetryWrite, RetryPop, RetryTest, Write
  <2>2. CASE RetryPublish
    BY <2>2 DEF RetryPublish, Publish, Wake
  <2>3. CASE RetryClear
    BY <2>3 DEF RetryClear, Backlog
  <2> QED BY <1>3, <2>1, <2>2, <2>3 DEF Retry
<1>4. ASSUME NEW w \in Workers, Worker(w) PROVE FlagsOK'
  BY <1>4 DEF Worker, WorkerPop, WorkerSleeps, SetBlocked, Drain, ReadFd, PollReturns,
              Woken, PollTimesOut
<1> QED BY <1>1, <1>2, <1>3, <1>4 DEF Next
-----------------------------------------------------------------------------
(* Wake-ups.  A ring becomes non-empty only by a push, which writes the    *)
(* eventfd; the eventfd is cleared only by a read, which is charged to     *)
(* every worker that sleeps, or is about to, over a non-empty ring.        *)
LEMMA NextWoken ==
  DispatchTypes /\ WokenUnlessSwallowed /\ [Next]_vars => WokenUnlessSwallowed'
<1> SUFFICES ASSUME DispatchTypes, WokenUnlessSwallowed, [Next]_vars,
                    NEW v \in Workers, sleep'[v] = "poll", Pending(v)'
             PROVE  wake_fd' \/ v \in swallowed'
  BY DEF WokenUnlessSwallowed
<1> USE DEF WokenUnlessSwallowed, Pending
<1>1. CASE UNCHANGED <<ringVars, wakeVars>>
  BY <1>1 DEF ringVars, wakeVars
<1>2. CASE Parser
  <2>1. CASE ParserWrite
    BY <2>1 DEF ParserWrite, Write, wakeVars
  <2>2. CASE ParserPublish
    BY <2>2 DEF ParserPublish, Publish, Wake
  <2>3. CASE ~ParserWrite /\ ~ParserPublish
    BY <1>1, <1>2, <2>3 DEF Parser, Dispatch, TestActive, BucketPush, ParserCheck, SetActive
  <2> QED BY <2>1, <2>2, <2>3
<1>3. CASE Retry
  <2>1. CASE RetryWrite
    BY <2>1 DEF RetryWrite, Write, wakeVars
  <2>2. CASE RetryPublish
    BY <2>2 DEF RetryPublish, Publish, Wake
  <2>3. CASE ~RetryWrite /\ ~RetryPublish
    BY <1>1, <1>3, <2>3 DEF Retry, RetryScan, RetryPeek, RetryCheck, RetryPop, RetryTest,
                            RetryClear
  <2> QED BY <2>1, <2>2, <2>3
<1>4. ASSUME NEW w \in Workers, WorkerPop(w) PROVE wake_fd' \/ v \in swallowed'
  BY <1>4 DEF WorkerPop, wakeVars, DispatchTypes, RingsOK, WakeOK
<1>5. ASSUME NEW w \in Workers, WorkerSleeps(w) PROVE wake_fd' \/ v \in swallowed'
  <2>1. UNCHANGED <<heads_, tails_>> /\ Pending(v)
    BY <1>5 DEF WorkerSleeps, ringVars
  <2>2. CASE SetBlocked(w)
    BY <2>2 DEF SetBlocked
  <2>3. CASE Drain(w, {x \in Workers : Pending(x)})
    BY <2>1, <2>3 DEF Drain, ReadFd, DispatchTypes, WakeOK
  <2>4. CASE PollReturns(w) \/ PollTimesOut(w)
    BY <2>1, <2>4 DEF PollReturns, PollTimesOut, DispatchTypes, WakeOK
  <2>5. CASE Woken(w, {x \in Workers : Pending(x)})
    BY <2>1, <2>5 DEF Woken, ReadFd, DispatchTypes, WakeOK
  <2> QED BY <1>5, <2>2, <2>3, <2>4, <2>5 DEF WorkerSleeps
<1>6. CASE UNCHANGED vars
  BY <1>1, <1>6 DEF vars
<1> QED BY <1>2, <1>3, <1>4, <1>5, <1>6 DEF Next, Worker

(* A worker sleeps over a non-empty ring, with nothing to wake it before   *)
(* its time-out, only when a worker swallowed its wake-up.                 *)
THEOREM WakeUpsNotLost == Spec => []WokenUnlessSwallowed
<1>1. Init => WokenUnlessSwallowed
  BY DEF Init, WakeInit, WokenUnlessSwallowed
<1> QED BY <1>1, NextWoken, DispatchTypeCorrect, PTL DEF Spec
-----------------------------------------------------------------------------
(* The retry protocol.  Each lemma assumes the invariant and a step after  *)
(* which active still was never lowered over a backlog.                    *)
LEMMA NextAnnounced ==
  ASSUME DispatchTypes, FlagsOK, BucketAnnounced, [Next]_vars, ~lateClear'
  PROVE  BucketAnnounced'
<1> USE DEF BucketAnnounced
<1>0. /\ parser \in [pc : ParserPcs, ev : Nat, owner : Workers, tail : Nat]
      /\ retry.i \in Workers /\ bucket \in [Workers -> Seq(Nat)] /\ DOMAIN active = Workers
  BY DEF DispatchTypes, ThreadsOK, QueuesOK, FlagsOK
<1>1. CASE UNCHANGED <<bucket, active, parser>>
  BY <1>1
<1>2. CASE Parser
  <2>1. ASSUME NEW l \in Locates, Dispatch(l) PROVE BucketAnnounced'
    BY <1>0, <2>1 DEF Dispatch
  <2>2. CASE TestActive
    BY <1>0, <2>2 DEF TestActive
  <2>3. CASE BucketPush("bucket_active", "idle")
    BY <1>0, <2>3 DEF BucketPush
  <2>4. CASE ParserCheck \/ ParserWrite \/ ParserPublish
    BY <1>0, <2>4 DEF ParserCheck, ParserWrite, ParserPublish
  <2>5. CASE BucketPush("bucket_full", "set_active")
    BY <1>0, <2>5 DEF BucketPush
  <2>6. CASE SetActive
    BY <1>0, <2>6 DEF SetActive
  <2> QED BY <1>2, <2>1, <2>2, <2>3, <2>4, <2>5, <2>6 DEF Parser
<1>3. CASE Retry
  <2>1. CASE RetryPop
    <3>1. bucket[retry.i] # <<>>
      BY <2>1 DEF RetryPop, DispatchTypes, RetryHolds
    <3> QED BY <1>0, <2>1, <3>1 DEF RetryPop
  <2>2. CASE RetryClear
    BY <1>0, <2>2 DEF RetryClear, Backlog
  <2>3. CASE ~RetryPop /\ ~RetryClear
    BY <1>1, <1>3, <2>3 DEF Retry, RetryScan, RetryPeek, RetryCheck, RetryWrite,
                            RetryPublish, RetryTest
  <2> QED BY <2>1, <2>2, <2>3
<1>4. ASSUME NEW w \in Workers, Worker(w) PROVE BucketAnnounced'
  BY <1>1, <1>4 DEF Worker, WorkerPop, WorkerSleeps
<1> QED BY <1>1, <1>2, <1>3, <1>4 DEF Next, vars

(* No bucket holds anything at the start.                                  *)
LEMMA InitAnnounced == Init => BucketAnnounced
  BY DEF Init, BucketAnnounced

(* While the parser is inside push of a ring its bucket is empty, and      *)
(* while the retry thread is, it is not: they are in different rings.      *)
LEMMA WritersApart ==
  ASSUME DispatchTypes, BucketAnnounced,
         parser.pc \in {"ring_check", "ring_write", "ring_publish", "bucket_full"},
         retry.pc \in {"push_check", "push_write", "push_publish", "pop"}
  PROVE  parser.owner # retry.i
  BY DEF DispatchTypes, RetryHolds, BucketAnnounced

(* Nothing takes lateClear back.                                           *)
LEMMA OnlyClearSets ==
  ASSUME [Next]_vars, ~lateClear' PROVE ~lateClear
  BY DEF Next, Parser, Dispatch, TestActive, BucketPush, ParserCheck, ParserWrite,
         ParserPublish, SetActive, Retry, RetryScan, RetryPeek, RetryCheck, RetryWrite,
         RetryPublish, RetryPop, RetryTest, RetryClear, Worker, WorkerPop, WorkerSleeps,
         histVars, vars

(* A bucket that holds events is announced, until a late clear.            *)
LEMMA AnnouncedInvariant ==
  Spec => [](DispatchTypes /\ FlagsOK /\ (~lateClear => BucketAnnounced))
<1>1. FlagsOK /\ DispatchTypes /\ (~lateClear => BucketAnnounced) /\ [Next]_vars
        => (~lateClear => BucketAnnounced)'
  <2> SUFFICES ASSUME FlagsOK, DispatchTypes, ~lateClear => BucketAnnounced, [Next]_vars,
                      ~lateClear'
               PROVE  BucketAnnounced'
    OBVIOUS
  <2> QED BY OnlyClearSets, NextAnnounced
<1> QED BY <1>1, InitTypes, InitFlags, InitAnnounced, NextTypes, NextFlags, PTL DEF Spec

(* dispatcher.h, on thread roles: the parser and the retry thread are      *)
(* never inside push of the same ring, for any number of workers.          *)
THEOREM OneRingWriter == Spec => []OneWriterUnlessLateClear
<1>1. DispatchTypes /\ (~lateClear => BucketAnnounced) => OneWriterUnlessLateClear
  BY WritersApart DEF OneWriterUnlessLateClear, InPush
<1> QED BY <1>1, AnnouncedInvariant, PTL
-----------------------------------------------------------------------------
(* Dispatch order.                                                         *)

(* Cursors less than a lap apart have different slots.                     *)
LEMMA SlotDistinct ==
  ASSUME NEW m \in Nat, NEW n \in Nat, m < n, n - m < RingCap
  PROVE  m % RingCap # n % RingCap
BY DispatcherAssumption, RemainderDistinct

(* The types of everything PlacesOf speaks of.                             *)
LEMMA QueueTypes ==
  ASSUME DispatchTypes, NEW w \in Workers
  PROVE  /\ heads_[w] \in Nat /\ tails_[w] \in Nat
         /\ Republished(w) \in 0 .. 1 /\ InHand(w) \in 0 .. 1
         /\ bucket[w] \in Seq(Nat) /\ routed[w] \in Seq(Nat) /\ delivered[w] \in Seq(Nat)
         /\ Len(bucket[w]) \in Nat /\ Len(routed[w]) \in Nat /\ Len(delivered[w]) \in Nat
<1>1. bucket[w] \in Seq(Nat) /\ routed[w] \in Seq(Nat) /\ delivered[w] \in Seq(Nat)
  BY DEF DispatchTypes, QueuesOK
<1>2. Republished(w) \in 0 .. 1 /\ InHand(w) \in 0 .. 1
  BY DEF Republished, InHand
<1> QED BY <1>1, <1>2, LenProperties DEF DispatchTypes, RingsOK

(* The locals of parser and retry thread, one by one.                      *)
LEMMA ThreadTypes ==
  ASSUME DispatchTypes
  PROVE  /\ parser.pc \in ParserPcs /\ parser.ev \in Nat /\ parser.owner \in Workers
         /\ parser.tail \in Nat
         /\ retry.pc \in RetryPcs /\ retry.ev \in Nat /\ retry.i \in Workers
         /\ retry.tail \in Nat
  BY DEF DispatchTypes, ThreadsOK

(* A write to the slot behind the tail leaves the published slots alone.   *)
LEMMA PublishedUntouched ==
  ASSUME DispatchTypes, NEW w \in Workers, tails_[w] < heads_[w] + RingCap,
         NEW e \in Nat, rings_' = [rings_ EXCEPT ![w][tails_[w] % RingCap] = e]
  PROVE  /\ \A k \in heads_[w] + 1 .. tails_[w] :
              rings_'[w][(k - 1) % RingCap] = rings_[w][(k - 1) % RingCap]
         /\ rings_'[w][tails_[w] % RingCap] = e
<1> USE DispatcherAssumption
<1>1. heads_[w] \in Nat /\ tails_[w] \in Nat
  BY QueueTypes
<1>2. tails_[w] % RingCap \in 0 .. RingCap - 1
  BY <1>1, IndexRange
<1>3. rings_ \in [Workers -> [0 .. RingCap - 1 -> Nat]]
  BY DEF DispatchTypes, RingsOK
<1>4. ASSUME NEW k \in heads_[w] + 1 .. tails_[w]
      PROVE  rings_'[w][(k - 1) % RingCap] = rings_[w][(k - 1) % RingCap]
  <2>1. k - 1 \in Nat /\ k - 1 < tails_[w] /\ tails_[w] - (k - 1) < RingCap
    BY <1>1
  <2>2. (k - 1) % RingCap # tails_[w] % RingCap
    BY <1>1, <2>1, SlotDistinct
  <2>3. (k - 1) % RingCap \in 0 .. RingCap - 1
    BY <2>1, IndexRange
  <2> QED BY <1>2, <1>3, <2>2, <2>3
<1> QED BY <1>2, <1>3, <1>4

(* Places counted from a tail that moved by one.                           *)
LEMMA Regroup ==
  ASSUME NEW t \in Int, NEW n \in Int, NEW h \in Int
  PROVE  /\ (t + 1) - 1 + n = t - 0 + n
         /\ (t + 1) - 1 + n + h = t - 0 + n + h
  OBVIOUS

(* A worker's queue is as it was when nothing of it changed.               *)
LEMMA PlacesFrame ==
  ASSUME NEW w, PlacesOf(w),
         heads_'[w] = heads_[w], tails_'[w] = tails_[w], rings_'[w] = rings_[w],
         bucket'[w] = bucket[w], routed'[w] = routed[w], delivered'[w] = delivered[w],
         Republished(w)' = Republished(w), InHand(w)' = InHand(w),
         InHand(w) = 1 => parser'.ev = parser.ev
  PROVE  PlacesOf(w)'
  BY DEF PlacesOf, Cursors, Counts, Delivered, InRing, InBucket, HandLast

(* What the pushing threads know of their rings survives every step.       *)
LEMMA NextPushLocals ==
  ASSUME DispatchTypes, BucketAnnounced, EventsInPlace, [Next]_vars
  PROVE  PushLocals'
<1> USE DispatcherAssumption
<1>0. /\ heads_ \in [Workers -> Nat] /\ tails_ \in [Workers -> Nat]
      /\ rings_ \in [Workers -> [0 .. RingCap - 1 -> Nat]]
      /\ parser \in [pc : ParserPcs, ev : Nat, owner : Workers, tail : Nat]
      /\ retry \in [pc : RetryPcs, ev : Nat, i : Workers, tail : Nat]
      /\ PushLocals
  BY DEF DispatchTypes, ThreadsOK, RingsOK, EventsInPlace
<1>1. CASE UNCHANGED <<ringVars, parser, retry>>
  BY <1>0, <1>1 DEF PushLocals, ringVars
<1>2. CASE \/ \E l \in Locates : Dispatch(l)
           \/ BucketPush("bucket_active", "idle") \/ BucketPush("bucket_full", "set_active")
           \/ TestActive \/ SetActive
  <2>1. UNCHANGED <<ringVars, retry>>
        /\ parser'.pc \in {"idle", "test_active", "bucket_active", "ring_check", "set_active"}
    BY <1>0, <1>2 DEF Dispatch, BucketPush, TestActive, SetActive
  <2> QED BY <1>0, <2>1 DEF PushLocals, ringVars
<1>3. CASE ParserCheck
  <2>1. UNCHANGED <<ringVars, retry>>
    BY <1>3 DEF ParserCheck
  <2>2. parser'.pc = "bucket_full"
        \/ /\ parser'.pc = "ring_write" /\ parser'.tail = tails_[parser'.owner]
           /\ tails_[parser'.owner] < heads_[parser'.owner] + RingCap
    <3>1. tails_[parser.owner] \in Nat /\ heads_[parser.owner] \in Nat
      BY <1>0
    <3>2. ~Full(parser.owner) => tails_[parser.owner] < heads_[parser.owner] + RingCap
      BY <3>1 DEF Full
    <3> QED BY <1>0, <1>3, <3>2 DEF ParserCheck
  <2> QED BY <1>0, <2>1, <2>2 DEF PushLocals, ringVars
<1>4. CASE ParserWrite
  <2>1. /\ UNCHANGED <<heads_, tails_, retry>>
        /\ parser' = [parser EXCEPT !.pc = "ring_publish"]
        /\ rings_' = [rings_ EXCEPT ![parser.owner][tails_[parser.owner] % RingCap] = parser.ev]
        /\ tails_[parser.owner] < heads_[parser.owner] + RingCap
    BY <1>0, <1>4 DEF ParserWrite, Write, PushLocals
  <2>2. rings_'[parser.owner][tails_[parser.owner] % RingCap] = parser.ev
    BY <1>0, <2>1, PublishedUntouched
  <2>3. retry.pc = "push_publish" => rings_'[retry.i] = rings_[retry.i]
    BY <1>0, <1>4, <2>1, WritersApart DEF ParserWrite
  <2> QED BY <1>0, <1>4, <2>1, <2>2, <2>3 DEF ParserWrite, PushLocals
<1>5. CASE ParserPublish
  <2>1. retry.pc \in {"push_write", "push_publish"} => tails_'[retry.i] = tails_[retry.i]
    BY <1>0, <1>5, WritersApart DEF ParserPublish, Publish
  <2> QED BY <1>0, <1>5, <2>1 DEF ParserPublish, Publish, PushLocals
<1>6. CASE RetryScan \/ RetryPeek \/ RetryPop \/ RetryTest \/ RetryClear
  <2>1. NextBucket.pc \in {"peek", "scan"}
    BY NextBucketType DEF DispatchTypes
  <2>2. UNCHANGED <<ringVars, parser>> /\ retry'.pc \notin {"push_write", "push_publish"}
    BY <1>0, <1>6, <2>1 DEF RetryScan, RetryPeek, RetryPop, RetryTest, RetryClear
  <2> QED BY <1>0, <2>2 DEF PushLocals, ringVars
<1>7. CASE RetryCheck
  <2>1. UNCHANGED <<ringVars, parser>>
    BY <1>7 DEF RetryCheck
  <2>2. retry'.pc = "test_empty"
        \/ /\ retry'.pc = "push_write" /\ retry'.tail = tails_[retry'.i]
           /\ tails_[retry'.i] < heads_[retry'.i] + RingCap
    <3>1. tails_[retry.i] \in Nat /\ heads_[retry.i] \in Nat
      BY <1>0
    <3>2. ~Full(retry.i) => tails_[retry.i] < heads_[retry.i] + RingCap
      BY <3>1 DEF Full
    <3> QED BY <1>0, <1>7, <3>2 DEF RetryCheck
  <2> QED BY <1>0, <2>1, <2>2 DEF PushLocals, ringVars
<1>8. CASE RetryWrite
  <2>1. /\ UNCHANGED <<heads_, tails_, parser>>
        /\ retry' = [retry EXCEPT !.pc = "push_publish"]
        /\ rings_' = [rings_ EXCEPT ![retry.i][tails_[retry.i] % RingCap] = retry.ev]
        /\ tails_[retry.i] < heads_[retry.i] + RingCap
    BY <1>0, <1>8 DEF RetryWrite, Write, PushLocals
  <2>2. rings_'[retry.i][tails_[retry.i] % RingCap] = retry.ev
    BY <1>0, <2>1, PublishedUntouched
  <2>3. parser.pc = "ring_publish" => rings_'[parser.owner] = rings_[parser.owner]
    BY <1>0, <1>8, <2>1, WritersApart DEF RetryWrite
  <2> QED BY <1>0, <1>8, <2>1, <2>2, <2>3 DEF RetryWrite, PushLocals
<1>9. CASE RetryPublish
  <2>1. parser.pc \in {"ring_write", "ring_publish"} => tails_'[parser.owner] = tails_[parser.owner]
    BY <1>0, <1>9, WritersApart DEF RetryPublish, Publish
  <2> QED BY <1>0, <1>9, <2>1 DEF RetryPublish, Publish, PushLocals
<1>10. ASSUME NEW w \in Workers, WorkerPop(w) PROVE PushLocals'
  <2>1. /\ UNCHANGED <<tails_, rings_, parser, retry>>
        /\ heads_' = [heads_ EXCEPT ![w] = heads_[w] + 1]
    BY <1>10 DEF WorkerPop
  <2>2. \A v \in Workers : heads_[v] \in Nat /\ tails_[v] \in Nat
                         /\ (heads_'[v] = heads_[v] \/ heads_'[v] = heads_[v] + 1)
    BY <1>0, <2>1
  <2>3. \A v \in Workers : tails_[v] < heads_[v] + RingCap => tails_[v] < heads_'[v] + RingCap
    BY <2>2
  <2> QED BY <1>0, <2>1, <2>3 DEF PushLocals
<1>11. ASSUME NEW w \in Workers, WorkerSleeps(w) PROVE PushLocals'
  BY <1>1, <1>11 DEF WorkerSleeps
<1> QED
  BY <1>1, <1>2, <1>3, <1>4, <1>5, <1>6, <1>7, <1>8, <1>9, <1>10, <1>11
  DEF Next, Parser, Retry, Worker, vars

(* Routing an event puts it into the parser's hand, last in its queue.     *)
LEMMA DispatchPlaces ==
  ASSUME DispatchTypes, EventsInPlace, NEW l \in Locates, Dispatch(l), NEW w \in Workers
  PROVE  PlacesOf(w)'
<1>0. /\ heads_[w] \in Nat /\ tails_[w] \in Nat /\ Republished(w) \in 0 .. 1
      /\ Len(bucket[w]) \in Nat /\ Len(routed[w]) \in Nat /\ Len(delivered[w]) \in Nat
  BY QueueTypes
<1> PICK u \in Workers :
       /\ parser' = [parser EXCEPT !.pc = "test_active", !.ev = @ + 1, !.owner = u]
       /\ routed' = [routed EXCEPT ![u] = Append(@, parser.ev + 1)]
  BY DEF Dispatch
<1>1. /\ UNCHANGED <<heads_, tails_, rings_, bucket, delivered, retry>>
      /\ parser.pc = "idle"
  BY DEF Dispatch, ringVars
<1>2. parser'.pc = "test_active" /\ parser'.owner = u /\ parser'.ev = parser.ev + 1
  BY DEF DispatchTypes, ThreadsOK
<1>3. PlacesOf(w) /\ Republished(w)' = Republished(w) /\ InHand(w) = 0
  BY <1>1 DEF EventsInPlace, Republished, InHand
<1>4. CASE w # u
  <2>1. InHand(w)' = 0 /\ routed'[w] = routed[w]
    BY <1>2, <1>4 DEF InHand, DispatchTypes, QueuesOK
  <2> QED BY <1>1, <1>3, <2>1, PlacesFrame
<1>5. CASE w = u
  <2>1. InHand(w)' = 1 /\ routed'[w] = Append(routed[w], parser.ev + 1)
    BY <1>2, <1>5 DEF InHand, DispatchTypes, QueuesOK
  <2>2. parser.ev + 1 \in Nat
    BY ThreadTypes
  <2>3. /\ Len(routed'[w]) = Len(routed[w]) + 1
        /\ \A k \in 1 .. Len(routed[w]) : routed'[w][k] = routed[w][k]
        /\ routed'[w][Len(routed[w]) + 1] = parser.ev + 1
    BY <2>1, <2>2, QueueTypes, AppendProperties
  <2>4. Republished(w) = 1 => Len(bucket[w]) >= 1
    BY QueueTypes, EmptySeq DEF Republished, DispatchTypes, RetryHolds
  <2>5. heads_[w] <= tails_[w] /\ tails_[w] <= Len(routed[w])
    BY <1>0, <1>3, <2>4 DEF PlacesOf, Cursors, Counts
  <2>6. Cursors(w)' /\ Counts(w)'
    BY <1>0, <1>1, <1>3, <2>1, <2>3 DEF PlacesOf, Cursors, Counts
  <2>7. Delivered(w)'
    BY <1>0, <1>1, <1>3, <2>3, <2>5 DEF PlacesOf, Delivered
  <2>8. InRing(w)'
    BY <1>0, <1>1, <1>3, <2>3, <2>5 DEF PlacesOf, InRing
  <2>9. InBucket(w)'
    <3>1. \A k \in 1 .. Len(bucket[w]) : tails_[w] - Republished(w) + k \in 1 .. Len(routed[w])
      BY <1>0, <1>3 DEF PlacesOf, Cursors, Counts
    <3> QED BY <1>1, <1>3, <2>3, <3>1 DEF PlacesOf, InBucket
  <2>10. HandLast(w)'
    BY <1>2, <2>3 DEF HandLast
  <2> QED BY <2>6, <2>7, <2>8, <2>9, <2>10 DEF PlacesOf
<1> QED BY <1>4, <1>5

(* Appending the event in hand to the bucket.                              *)
LEMMA BucketPushPlaces ==
  ASSUME DispatchTypes, EventsInPlace, NEW w \in Workers,
         NEW label \in {"bucket_active", "bucket_full"}, NEW after \in {"idle", "set_active"},
         BucketPush(label, after)
  PROVE  PlacesOf(w)'
<1>0. /\ heads_[w] \in Nat /\ tails_[w] \in Nat /\ Republished(w) \in 0 .. 1
      /\ Len(bucket[w]) \in Nat /\ Len(routed[w]) \in Nat /\ Len(delivered[w]) \in Nat
  BY QueueTypes
<1>1. /\ UNCHANGED <<heads_, tails_, rings_, routed, delivered, retry>>
      /\ parser.pc = label
      /\ bucket' = [bucket EXCEPT ![parser.owner] = Append(bucket[parser.owner], parser.ev)]
      /\ parser' = [parser EXCEPT !.pc = after]
  BY DEF BucketPush, ringVars, histVars
<1>2. parser'.pc = after /\ parser'.owner = parser.owner /\ parser'.ev = parser.ev
  BY <1>1 DEF DispatchTypes, ThreadsOK
<1>3. PlacesOf(w) /\ Republished(w)' = Republished(w) /\ InHand(w)' = 0
  BY <1>1, <1>2 DEF EventsInPlace, Republished, InHand
<1>4. CASE w # parser.owner
  <2>1. InHand(w) = 0 /\ bucket'[w] = bucket[w]
    BY <1>1, <1>4 DEF InHand, DispatchTypes, QueuesOK
  <2> QED BY <1>1, <1>3, <2>1, PlacesFrame
<1>5. CASE w = parser.owner
  <2>1. InHand(w) = 1 /\ bucket'[w] = Append(bucket[w], parser.ev)
    BY <1>1, <1>5 DEF InHand, DispatchTypes, QueuesOK
  <2>2. parser.ev \in Nat
    BY ThreadTypes
  <2>3. /\ Len(bucket'[w]) = Len(bucket[w]) + 1
        /\ \A k \in 1 .. Len(bucket[w]) : bucket'[w][k] = bucket[w][k]
        /\ bucket'[w][Len(bucket[w]) + 1] = parser.ev
    BY <2>1, <2>2, QueueTypes, AppendProperties
  <2>4. tails_[w] - Republished(w) + (Len(bucket[w]) + 1)
          = tails_[w] - Republished(w) + Len(bucket[w]) + 1
    <3>1. tails_[w] \in Nat /\ Republished(w) \in 0 .. 1 /\ Len(bucket[w]) \in Nat
      BY <1>0
    <3> QED BY <3>1
  <2>5. tails_[w] - Republished(w) + (Len(bucket[w]) + 1) = Len(routed[w])
    BY <1>3, <2>1, <2>4 DEF PlacesOf, Counts
  <2>6. routed[w][Len(routed[w])] = parser.ev
    BY <1>3, <2>1 DEF PlacesOf, HandLast
  <2>7. ASSUME NEW k \in 1 .. Len(bucket'[w])
        PROVE  bucket'[w][k] = routed[w][tails_[w] - Republished(w) + k]
    <3>1. CASE k = Len(bucket[w]) + 1
      BY <2>3, <2>5, <2>6, <3>1
    <3>2. CASE k # Len(bucket[w]) + 1
      <4>1. k \in 1 .. Len(bucket[w])
        BY <1>0, <2>3, <3>2
      <4> QED BY <1>3, <2>3, <4>1 DEF PlacesOf, InBucket
    <3> QED BY <3>1, <3>2
  <2>8. Counts(w)'
    <3>1. tails_[w] - Republished(w) + (Len(bucket[w]) + 1) + 0
            = tails_[w] - Republished(w) + (Len(bucket[w]) + 1)
      BY <1>0
    <3> QED BY <1>1, <1>3, <2>3, <2>5, <3>1 DEF Counts
  <2> QED BY <1>1, <1>3, <2>7, <2>8 DEF PlacesOf, Cursors, Delivered, InRing, InBucket, HandLast
<1> QED BY <1>4, <1>5

(* Publishing the parser's slot moves the event from its hand to the ring. *)
LEMMA ParserPublishPlaces ==
  ASSUME DispatchTypes, BucketAnnounced, EventsInPlace, NEW w \in Workers, ParserPublish
  PROVE  PlacesOf(w)'
<1>0. /\ heads_[w] \in Nat /\ tails_[w] \in Nat /\ Republished(w) \in 0 .. 1
      /\ Len(bucket[w]) \in Nat /\ Len(routed[w]) \in Nat /\ Len(delivered[w]) \in Nat
  BY QueueTypes
<1> USE DispatcherAssumption
<1>1. /\ UNCHANGED <<heads_, rings_, bucket, routed, delivered, retry>>
      /\ parser.pc = "ring_publish"
      /\ tails_' = [tails_ EXCEPT ![parser.owner] = parser.tail + 1]
      /\ parser' = [parser EXCEPT !.pc = "idle"]
  BY DEF ParserPublish, Publish, histVars
<1>2. parser'.pc = "idle" /\ parser'.ev = parser.ev
  BY <1>1 DEF DispatchTypes, ThreadsOK
<1>3. PlacesOf(w) /\ Republished(w)' = Republished(w) /\ InHand(w)' = 0
  BY <1>1, <1>2 DEF EventsInPlace, Republished, InHand
<1>4. CASE w # parser.owner
  <2>1. InHand(w) = 0 /\ tails_'[w] = tails_[w]
    BY <1>1, <1>4 DEF InHand, DispatchTypes, RingsOK
  <2> QED BY <1>1, <1>3, <2>1, PlacesFrame
<1>5. CASE w = parser.owner
  <2>1. InHand(w) = 1 /\ bucket[w] = <<>>
    BY <1>1, <1>5 DEF InHand, BucketAnnounced
  <2>2. Republished(w) = 0
    BY <1>1, <1>5, WritersApart DEF Republished
  <2>3. /\ parser.tail = tails_[w] /\ tails_[w] < heads_[w] + RingCap
        /\ rings_[w][tails_[w] % RingCap] = parser.ev
    BY <1>1, <1>5 DEF EventsInPlace, PushLocals
  <2>4. tails_'[w] = tails_[w] + 1
    BY <1>1, <1>5, <2>3 DEF DispatchTypes, RingsOK
  <2>5. Len(bucket[w]) = 0
    BY <2>1, EmptySeq
  <2>6. Len(routed[w]) = tails_[w] + 1 /\ routed[w][tails_[w] + 1] = parser.ev
    <3>1. Len(routed[w]) = tails_[w] + 1
      BY <1>0, <1>3, <2>1, <2>2, <2>5 DEF PlacesOf, Counts
    <3> QED BY <1>3, <2>1, <3>1 DEF PlacesOf, HandLast
  <2>7. Cursors(w)' /\ Counts(w)'
    BY <1>0, <1>1, <1>3, <2>2, <2>3, <2>4, <2>5, <2>6 DEF PlacesOf, Cursors, Counts
  <2>8. ASSUME NEW k \in heads_[w] + 1 .. tails_[w] + 1
        PROVE  rings_[w][(k - 1) % RingCap] = routed[w][k]
    <3>1. CASE k = tails_[w] + 1
      <4>1. k - 1 = tails_[w]
        BY <1>0, <3>1
      <4> QED BY <2>3, <2>6, <3>1, <4>1
    <3>2. CASE k # tails_[w] + 1
      <4>1. k \in heads_[w] + 1 .. tails_[w]
        BY <1>0, <3>2
      <4> QED BY <1>3, <4>1 DEF PlacesOf, InRing
    <3> QED BY <3>1, <3>2
  <2>9. InRing(w)'
    BY <1>1, <2>4, <2>8 DEF InRing
  <2>10. InBucket(w)'
    BY <1>1, <2>5 DEF InBucket
  <2> QED BY <1>1, <1>3, <2>7, <2>9, <2>10 DEF PlacesOf, Delivered, HandLast
<1> QED BY <1>4, <1>5

(* Publishing the retry thread's slot: the head of the bucket is now also  *)
(* the last event of the ring, until it is popped.                         *)
LEMMA RetryPublishPlaces ==
  ASSUME DispatchTypes, EventsInPlace, NEW w \in Workers, RetryPublish
  PROVE  PlacesOf(w)'
<1>0. /\ heads_[w] \in Nat /\ tails_[w] \in Nat /\ Republished(w) \in 0 .. 1
      /\ Len(bucket[w]) \in Nat /\ Len(routed[w]) \in Nat /\ Len(delivered[w]) \in Nat
  BY QueueTypes
<1>1. /\ UNCHANGED <<heads_, rings_, bucket, routed, delivered, parser>>
      /\ retry.pc = "push_publish"
      /\ tails_' = [tails_ EXCEPT ![retry.i] = retry.tail + 1]
      /\ retry' = [retry EXCEPT !.pc = "pop"]
  BY DEF RetryPublish, Publish, histVars
<1>2. retry'.pc = "pop" /\ retry'.i = retry.i
  BY <1>1 DEF DispatchTypes, ThreadsOK
<1>3. PlacesOf(w) /\ Republished(w) = 0 /\ InHand(w)' = InHand(w) /\ InHand(w) \in 0 .. 1
  BY <1>1 DEF EventsInPlace, Republished, InHand
<1>4. CASE w # retry.i
  <2>1. Republished(w)' = 0 /\ tails_'[w] = tails_[w]
    BY <1>1, <1>2, <1>4 DEF Republished, DispatchTypes, RingsOK
  <2> QED BY <1>1, <1>3, <2>1, PlacesFrame
<1>5. CASE w = retry.i
  <2>1. Republished(w)' = 1
    BY <1>2, <1>5 DEF Republished
  <2>2. bucket[w] # <<>> /\ retry.ev = bucket[w][1]
    BY <1>1, <1>5 DEF DispatchTypes, RetryHolds
  <2>3. /\ retry.tail = tails_[w] /\ tails_[w] < heads_[w] + RingCap
        /\ rings_[w][tails_[w] % RingCap] = retry.ev
    BY <1>1, <1>5 DEF EventsInPlace, PushLocals
  <2>4. tails_'[w] = tails_[w] + 1
    BY <1>1, <1>5, <2>3 DEF DispatchTypes, RingsOK
  <2>5. 1 \in 1 .. Len(bucket[w])
    BY <2>2, QueueTypes, EmptySeq
  <2>6. routed[w][tails_[w] + 1] = retry.ev
    <3>1. tails_[w] - 0 + 1 = tails_[w] + 1
      BY <1>0
    <3> QED BY <1>3, <2>2, <2>5, <3>1 DEF PlacesOf, InBucket
  <2>7. Cursors(w)'
    BY <1>0, <1>1, <1>3, <2>1, <2>3, <2>4, DispatcherAssumption DEF PlacesOf, Cursors
  <2>11. Counts(w)'
    <3>1. (tails_[w] + 1) - 1 + Len(bucket[w]) + InHand(w)
            = tails_[w] - 0 + Len(bucket[w]) + InHand(w)
      BY <1>0, <1>3, Regroup
    <3> QED BY <1>1, <1>3, <2>1, <2>4, <3>1 DEF PlacesOf, Counts
  <2>8. ASSUME NEW k \in heads_[w] + 1 .. tails_[w] + 1
        PROVE  rings_[w][(k - 1) % RingCap] = routed[w][k]
    <3>1. CASE k = tails_[w] + 1
      <4>1. k - 1 = tails_[w]
        BY <1>0, <3>1
      <4> QED BY <2>3, <2>6, <3>1, <4>1
    <3>2. CASE k # tails_[w] + 1
      <4>1. k \in heads_[w] + 1 .. tails_[w]
        BY <1>0, <3>2
      <4> QED BY <1>3, <4>1 DEF PlacesOf, InRing
    <3> QED BY <3>1, <3>2
  <2>9. InRing(w)'
    BY <1>1, <2>4, <2>8 DEF InRing
  <2>10. InBucket(w)'
    <3>1. \A k \in 1 .. Len(bucket[w]) : (tails_[w] + 1) - 1 + k = tails_[w] - 0 + k
      BY <1>0, Regroup
    <3> QED BY <1>1, <1>3, <2>1, <2>4, <3>1 DEF PlacesOf, InBucket
  <2> QED BY <1>1, <1>3, <2>7, <2>9, <2>10, <2>11 DEF PlacesOf, Delivered, HandLast
<1> QED BY <1>4, <1>5

(* Popping the bucket's head, which is in the ring already.                *)
LEMMA RetryPopPlaces ==
  ASSUME DispatchTypes, EventsInPlace, NEW w \in Workers, RetryPop
  PROVE  PlacesOf(w)'
<1>0. /\ heads_[w] \in Nat /\ tails_[w] \in Nat /\ Republished(w) \in 0 .. 1
      /\ Len(bucket[w]) \in Nat /\ Len(routed[w]) \in Nat /\ Len(delivered[w]) \in Nat
  BY QueueTypes
<1>1. /\ UNCHANGED <<heads_, tails_, rings_, routed, delivered, parser>>
      /\ retry.pc = "pop"
      /\ bucket' = [bucket EXCEPT ![retry.i] = Tail(bucket[retry.i])]
      /\ retry' = [retry EXCEPT !.pc = "peek"]
  BY DEF RetryPop, ringVars, histVars
<1>2. retry'.pc = "peek"
  BY <1>1 DEF DispatchTypes, ThreadsOK
<1>3. PlacesOf(w) /\ Republished(w)' = 0 /\ InHand(w)' = InHand(w) /\ InHand(w) \in 0 .. 1
  BY <1>1, <1>2 DEF EventsInPlace, Republished, InHand
<1>4. CASE w # retry.i
  <2>1. Republished(w) = 0 /\ bucket'[w] = bucket[w]
    BY <1>1, <1>4 DEF Republished, DispatchTypes, QueuesOK
  <2> QED BY <1>1, <1>3, <2>1, PlacesFrame
<1>5. CASE w = retry.i
  <2>1. Republished(w) = 1 /\ bucket[w] # <<>> /\ bucket'[w] = Tail(bucket[w])
    BY <1>1, <1>5 DEF Republished, DispatchTypes, QueuesOK, RetryHolds
  <2>2. /\ Len(bucket'[w]) = Len(bucket[w]) - 1
        /\ \A k \in 1 .. Len(bucket'[w]) : bucket'[w][k] = bucket[w][k + 1]
    BY <2>1, QueueTypes, HeadTailProperties
  <2>3. Cursors(w)'
    BY <1>0, <1>1, <1>3, <2>1 DEF PlacesOf, Cursors
  <2>5. Counts(w)'
    <3>1. tails_[w] - 0 + (Len(bucket[w]) - 1) + InHand(w) = tails_[w] - 1 + Len(bucket[w]) + InHand(w)
      <4>1. tails_[w] \in Nat /\ Len(bucket[w]) \in Nat
        BY <1>0
      <4>2. tails_[w] - 0 + (Len(bucket[w]) - 1) = tails_[w] - 1 + Len(bucket[w])
        BY <4>1
      <4> QED BY <4>2
    <3> QED BY <1>1, <1>3, <2>1, <2>2, <3>1 DEF PlacesOf, Counts
  <2>4. ASSUME NEW k \in 1 .. Len(bucket'[w])
        PROVE  bucket'[w][k] = routed[w][tails_[w] - 0 + k]
    <3>1. k + 1 \in 1 .. Len(bucket[w])
      BY <1>0, <2>2
    <3>2. tails_[w] - 1 + (k + 1) = tails_[w] - 0 + k
      <4>1. tails_[w] \in Nat
        BY <1>0
      <4> QED BY <4>1
    <3> QED BY <3>2, <1>3, <2>1, <2>2, <3>1 DEF PlacesOf, InBucket
  <2> QED BY <1>1, <1>3, <2>3, <2>4, <2>5 DEF PlacesOf, Delivered, InRing, InBucket, HandLast
<1> QED BY <1>4, <1>5

(* A worker takes the oldest event of its ring.                            *)
LEMMA WorkerPopPlaces ==
  ASSUME DispatchTypes, EventsInPlace, NEW w \in Workers, NEW u \in Workers, WorkerPop(u)
  PROVE  PlacesOf(w)'
<1>0. /\ heads_[w] \in Nat /\ tails_[w] \in Nat /\ Republished(w) \in 0 .. 1
      /\ Len(bucket[w]) \in Nat /\ Len(routed[w]) \in Nat /\ Len(delivered[w]) \in Nat
  BY QueueTypes
<1>1. /\ UNCHANGED <<tails_, rings_, bucket, routed, parser, retry>> /\ Pending(u)
      /\ delivered' = [delivered EXCEPT ![u] = Append(delivered[u], rings_[u][heads_[u] % RingCap])]
      /\ heads_' = [heads_ EXCEPT ![u] = heads_[u] + 1]
  BY DEF WorkerPop
<1>2. /\ PlacesOf(w) /\ Republished(w)' = Republished(w)
      /\ InHand(w)' = InHand(w) /\ InHand(w) \in 0 .. 1
  BY <1>1 DEF EventsInPlace, Republished, InHand
<1>3. CASE w # u
  <2>1. heads_'[w] = heads_[w] /\ delivered'[w] = delivered[w]
    BY <1>1, <1>3 DEF DispatchTypes, RingsOK, QueuesOK
  <2> QED BY <1>1, <1>2, <2>1, PlacesFrame
<1>4. CASE w = u
  <2> DEFINE e == rings_[w][heads_[w] % RingCap]
  <2>1. heads_'[w] = heads_[w] + 1 /\ delivered'[w] = Append(delivered[w], e)
    BY <1>1, <1>4 DEF DispatchTypes, RingsOK, QueuesOK
  <2>2. heads_[w] < tails_[w] /\ Len(delivered[w]) = heads_[w]
    BY <1>0, <1>1, <1>2, <1>4 DEF Pending, PlacesOf, Cursors
  <2>3. e \in Nat
    BY <1>0, IndexRange DEF DispatchTypes, RingsOK
  <2>4. e = routed[w][heads_[w] + 1]
    <3>1. heads_[w] + 1 \in heads_[w] + 1 .. tails_[w] /\ (heads_[w] + 1) - 1 = heads_[w]
      BY <1>0, <2>2
    <3> QED BY <1>2, <3>1 DEF PlacesOf, InRing
  <2> HIDE DEF e
  <2>5. /\ Len(delivered'[w]) = heads_[w] + 1
        /\ \A k \in 1 .. heads_[w] : delivered'[w][k] = delivered[w][k]
        /\ delivered'[w][heads_[w] + 1] = e
    BY <2>1, <2>2, <2>3, QueueTypes, AppendProperties
  <2>6. Cursors(w)' /\ Counts(w)'
    BY <1>0, <1>1, <1>2, <2>1, <2>2, <2>5, DispatcherAssumption DEF PlacesOf, Cursors, Counts
  <2>7. ASSUME NEW k \in 1 .. heads_[w] + 1 PROVE delivered'[w][k] = routed[w][k]
    <3>1. CASE k = heads_[w] + 1
      BY <2>4, <2>5, <3>1
    <3>2. CASE k # heads_[w] + 1
      <4>1. k \in 1 .. heads_[w]
        BY <1>0, <3>2
      <4> QED BY <1>2, <2>5, <4>1 DEF PlacesOf, Delivered
    <3> QED BY <3>1, <3>2
  <2>8. InRing(w)'
    BY <1>0, <1>1, <1>2, <2>1 DEF PlacesOf, InRing
  <2> QED BY <1>1, <1>2, <2>1, <2>6, <2>7, <2>8 DEF PlacesOf, Delivered, InBucket, HandLast
<1> QED BY <1>3, <1>4

(* Writing a slot that is not published yet.                               *)
LEMMA WritePlaces ==
  ASSUME DispatchTypes, EventsInPlace, NEW w \in Workers, ParserWrite \/ RetryWrite
  PROVE  PlacesOf(w)'
<1>1. /\ UNCHANGED <<heads_, tails_, bucket, routed, delivered>>
      /\ parser'.ev = parser.ev
      /\ InHand(w)' = InHand(w) /\ Republished(w)' = Republished(w)
  BY DEF ParserWrite, RetryWrite, Write, histVars, DispatchTypes, ThreadsOK, InHand,
         Republished
<1>2. PICK u \in Workers, e \in Nat :
        /\ tails_[u] < heads_[u] + RingCap
        /\ rings_' = [rings_ EXCEPT ![u][tails_[u] % RingCap] = e]
  <2>1. CASE ParserWrite
    BY <2>1, ThreadTypes DEF ParserWrite, Write, EventsInPlace, PushLocals
  <2>2. CASE RetryWrite
    BY <2>2, ThreadTypes DEF RetryWrite, Write, EventsInPlace, PushLocals
  <2> QED BY <2>1, <2>2
<1>3. PlacesOf(w)
  BY DEF EventsInPlace
<1>4. CASE w # u
  <2>1. rings_'[w] = rings_[w]
    BY <1>2, <1>4 DEF DispatchTypes, RingsOK
  <2> QED BY <1>1, <1>3, <2>1, PlacesFrame
<1>5. CASE w = u
  <2>0. \A k \in heads_[w] + 1 .. tails_[w] :
          rings_'[w][(k - 1) % RingCap] = rings_[w][(k - 1) % RingCap]
    BY <1>2, <1>5, PublishedUntouched
  <2>1. InRing(w)'
    BY <1>1, <1>3, <2>0 DEF PlacesOf, InRing
  <2> QED BY <1>1, <1>3, <2>1
          DEF PlacesOf, Cursors, Counts, Delivered, InBucket, HandLast
<1> QED BY <1>4, <1>5

(* Every other step moves no event.                                        *)
LEMMA QuietPlaces ==
  ASSUME DispatchTypes, EventsInPlace, NEW w \in Workers,
         \/ TestActive \/ ParserCheck \/ SetActive
         \/ RetryScan \/ RetryPeek \/ RetryCheck \/ RetryTest \/ RetryClear
         \/ \E u \in Workers : WorkerSleeps(u)
         \/ UNCHANGED vars
  PROVE  PlacesOf(w)'
<1>1. UNCHANGED <<heads_, tails_, rings_, bucket, routed, delivered>>
  BY DEF TestActive, ParserCheck, SetActive, RetryScan, RetryPeek, RetryCheck, RetryTest,
         RetryClear, WorkerSleeps, vars, ringVars, histVars
<1>2. /\ parser'.ev = parser.ev /\ parser'.owner = parser.owner
      /\ parser'.pc \in {"idle", "set_active"} <=> parser.pc \in {"idle", "set_active"}
  BY DEF TestActive, ParserCheck, SetActive, RetryScan, RetryPeek, RetryCheck, RetryTest,
         RetryClear, WorkerSleeps, vars, DispatchTypes, ThreadsOK
<1>3. Republished(w)' = Republished(w)
  <2>1. NextBucket.pc \in {"peek", "scan"}
    BY NextBucketType DEF DispatchTypes
  <2> QED BY <2>1 DEF TestActive, ParserCheck, SetActive, RetryScan, RetryPeek, RetryCheck,
             RetryTest, RetryClear, WorkerSleeps, vars, DispatchTypes, ThreadsOK, Republished
<1>4. InHand(w)' = InHand(w) /\ PlacesOf(w)
  BY <1>2 DEF InHand, EventsInPlace
<1> QED BY <1>1, <1>2, <1>3, <1>4, PlacesFrame

(* Every step keeps each event in its place.                               *)
LEMMA NextInPlace ==
  ASSUME DispatchTypes, BucketAnnounced, EventsInPlace, [Next]_vars
  PROVE  EventsInPlace'
<1>1. ASSUME NEW w \in Workers PROVE PlacesOf(w)'
  BY DispatchPlaces, BucketPushPlaces, ParserPublishPlaces, RetryPublishPlaces,
     RetryPopPlaces, WorkerPopPlaces, WritePlaces, QuietPlaces
  DEF Next, Parser, Retry, Worker
<1> QED BY <1>1, NextPushLocals DEF EventsInPlace

(* Nothing is routed yet.                                                  *)
LEMMA InitInPlace == Init => EventsInPlace
  BY DispatcherAssumption, EmptySeq
  DEF Init, EventsInPlace, PushLocals, PlacesOf, Cursors, Counts, Delivered, InRing,
      InBucket, HandLast, InHand, Republished, Workers

(* The inductive invariant of the retry protocol.                          *)
THEOREM DispatchInvariant == Spec => []DispatchInv
<1>1. Init => DispatchInv
  BY InitTypes, InitAnnounced, InitInPlace DEF DispatchInv
<1>2. DispatchInv /\ FlagsOK /\ [Next]_vars => DispatchInv'
  <2> SUFFICES ASSUME DispatchInv, FlagsOK, [Next]_vars PROVE DispatchInv'
    OBVIOUS
  <2>1. DispatchTypes'
    BY NextTypes DEF DispatchInv
  <2>2. ASSUME ~lateClear' PROVE BucketAnnounced' /\ EventsInPlace'
    BY <2>2, OnlyClearSets, NextAnnounced, NextInPlace DEF DispatchInv
  <2> QED BY <2>1, <2>2 DEF DispatchInv
<1> QED BY <1>1, <1>2, AnnouncedInvariant, PTL DEF Spec

(* dispatcher.h: the workers receive the events routed to them in dispatch *)
(* order, none skipped and none twice, through the ring or through the     *)
(* retry bucket, as long as active is never lowered over a backlog.        *)
THEOREM DispatchOrderKept == Spec => []OrderedUnlessLateClear
<1>1. DispatchInv => OrderedUnlessLateClear
  <2> SUFFICES ASSUME DispatchInv, ~lateClear, NEW w \in Workers
               PROVE  IsPrefix(delivered[w], routed[w])
    BY DEF OrderedUnlessLateClear
  <2>0. DispatchTypes /\ EventsInPlace
    BY DEF DispatchInv
  <2>1. /\ heads_[w] \in Nat /\ tails_[w] \in Nat /\ Republished(w) \in 0 .. 1
        /\ Len(bucket[w]) \in Nat /\ InHand(w) \in 0 .. 1
        /\ delivered[w] \in Seq(Nat) /\ routed[w] \in Seq(Nat) /\ Len(routed[w]) \in Nat
    BY <2>0, QueueTypes
  <2>2. Republished(w) = 1 => Len(bucket[w]) >= 1
    BY <2>0, QueueTypes, EmptySeq DEF Republished, DispatchTypes, RetryHolds
  <2>3. Len(delivered[w]) = heads_[w] /\ heads_[w] <= Len(routed[w])
    BY <2>0, <2>1, <2>2 DEF EventsInPlace, PlacesOf, Cursors, Counts
  <2>4. \A k \in 1 .. heads_[w] : delivered[w][k] = routed[w][k]
    BY <2>0 DEF EventsInPlace, PlacesOf, Delivered
  <2>5. SubSeq(delivered[w], 1, heads_[w]) = SubSeq(routed[w], 1, heads_[w])
    BY <2>1, <2>3, <2>4
  <2> QED BY <2>1, <2>3, <2>5 DEF IsPrefix
<1> QED BY <1>1, DispatchInvariant, PTL
=============================================================================
