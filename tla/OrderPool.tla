------------------------------ MODULE OrderPool ------------------------------
(***************************************************************************)
(* core/memory/order_pool.h: the fixed pool of OrderSlots that every book  *)
(* worker allocates resting orders from.  The free slots form a lock-free  *)
(* Treiber stack threaded through pool_next_free; its head is one 64-bit   *)
(* word holding the top index and a tag that every successful CAS bumps.   *)
(*                                                                         *)
(* One action per atomic access of allocate() and deallocate(), so that    *)
(* any number of threads interleave between the load of the head, the      *)
(* access to pool_next_free, the CAS and the update of size_.              *)
(***************************************************************************)
EXTENDS Integers

CONSTANTS
  Threads,    \* the book workers that share the pool
  PoolCapacity,   \* number of slots
  MaxTag      \* bound: successful CASes explored; the code's tag has 32 bits

ASSUME PoolAssumption == /\ PoolCapacity \in Nat \ {0}
                         /\ MaxTag \in Nat

Slots == 0 .. PoolCapacity - 1
Nil   == -1                  \* UINT32_MAX, the end of the free list

VARIABLES
  free_head,       \* [idx, tag], the atomic head word
  pool_next_free,  \* Slots -> Slots \cup {Nil}
  size_,           \* the usage counter behind size()
  pc,              \* where each thread is inside allocate()/deallocate()
  fh,              \* its last loaded head word
  next,            \* allocate(): its copy of the top slot's link
  slot,            \* the slot being handed out or given back
  own,             \* the slots a thread's books use
  chain,           \* history: the free slots, bottom first
  depth            \* history: how many there are

shared == <<free_head, pool_next_free, size_>>
poolVars   == <<free_head, pool_next_free, size_, pc, fh, next, slot, own, chain, depth>>

HeadWord == [idx : Slots \cup {Nil}, tag : 0 .. MaxTag]
-----------------------------------------------------------------------------
(* initFreeList(): slot i links to i + 1, the last one ends the list.      *)
FreshLinks == [i \in Slots |-> IF i = PoolCapacity - 1 THEN Nil ELSE i + 1]

PoolInit ==
  /\ free_head = [idx |-> 0, tag |-> 0]
  /\ pool_next_free = FreshLinks
  /\ size_ = 0
  /\ pc = [t \in Threads |-> "idle"]
  /\ fh = [t \in Threads |-> [idx |-> Nil, tag |-> 0]]
  /\ next = [t \in Threads |-> Nil]
  /\ slot = [t \in Threads |-> Nil]
  /\ own = [t \in Threads |-> {}]
  /\ chain = [i \in 1 .. PoolCapacity |-> PoolCapacity - i]
  /\ depth = PoolCapacity

At(t, label)    == pc[t] = label
Goto(t, label)  == pc' = [pc EXCEPT ![t] = label]

(* The head word is (re)loaded; an empty stack makes allocate() return     *)
(* nullptr, otherwise the loop body runs.                                  *)
LoadHead(t) ==
  /\ fh' = [fh EXCEPT ![t] = free_head]
  /\ Goto(t, IF free_head.idx = Nil THEN "idle" ELSE "alloc_next")

AllocLoad(t) ==
  /\ At(t, "idle")
  /\ LoadHead(t)
  /\ UNCHANGED <<shared, next, slot, own, chain, depth>>

AllocNext(t) ==
  /\ At(t, "alloc_next")
  /\ next' = [next EXCEPT ![t] = pool_next_free[fh[t].idx]]
  /\ Goto(t, "alloc_cas")
  /\ UNCHANGED <<shared, fh, slot, own, chain, depth>>

(* Mutant of HeadIs: an untagged stack, which compares the index alone.    *)
HeadIs_Untagged(w) == free_head.idx = w.idx

(* compare_exchange: the whole word is compared.                           *)
HeadIs(w) == free_head = w

(* Mutant of AllocTake: the head is stored without comparing it.           *)
AllocTake_PlainStore(t) ==
  /\ At(t, "alloc_cas")
  /\ free_head.tag < MaxTag /\ depth > 0
  /\ free_head' = [idx |-> next[t], tag |-> free_head.tag + 1]
  /\ slot' = [slot EXCEPT ![t] = fh[t].idx]
  /\ depth' = depth - 1
  /\ chain' = [i \in 1 .. depth - 1 |-> chain[i]]
  /\ Goto(t, "alloc_size")
  /\ UNCHANGED <<pool_next_free, size_, fh, next, own>>

AllocTake(t) ==
  /\ At(t, "alloc_cas")
  /\ HeadIs(fh[t])
  /\ free_head.tag < MaxTag
  /\ free_head' = [idx |-> next[t], tag |-> free_head.tag + 1]
  /\ slot' = [slot EXCEPT ![t] = fh[t].idx]
  /\ depth' = depth - 1
  /\ chain' = [i \in 1 .. depth - 1 |-> chain[i]]
  /\ Goto(t, "alloc_size")
  /\ UNCHANGED <<pool_next_free, size_, fh, next, own>>

(* compare_exchange_weak may fail although the word is unchanged.          *)
AllocRetry(t) ==
  /\ At(t, "alloc_cas")
  /\ LoadHead(t)
  /\ UNCHANGED <<shared, next, slot, own, chain, depth>>

AllocSize(t) ==
  /\ At(t, "alloc_size")
  /\ size_' = size_ + 1
  /\ own' = [own EXCEPT ![t] = @ \cup {slot[t]}]
  /\ Goto(t, "idle")
  /\ UNCHANGED <<free_head, pool_next_free, fh, next, slot, chain, depth>>

(* Mutant of FreeLoad: a thread gives back a slot of another thread's book.*)
FreeLoad_Foreign(t, s) ==
  /\ At(t, "idle")
  /\ \E u \in Threads : s \in own[u]
  /\ own' = [u \in Threads |-> own[u] \ {s}]
  /\ slot' = [slot EXCEPT ![t] = s]
  /\ fh' = [fh EXCEPT ![t] = free_head]
  /\ Goto(t, "free_link")
  /\ UNCHANGED <<shared, next, chain, depth>>

FreeLoad(t, s) ==
  /\ At(t, "idle")
  /\ s \in own[t]
  /\ own' = [own EXCEPT ![t] = @ \ {s}]
  /\ slot' = [slot EXCEPT ![t] = s]
  /\ fh' = [fh EXCEPT ![t] = free_head]
  /\ Goto(t, "free_link")
  /\ UNCHANGED <<shared, next, chain, depth>>

FreeLink(t) ==
  /\ At(t, "free_link")
  /\ pool_next_free' = [pool_next_free EXCEPT ![slot[t]] = fh[t].idx]
  /\ Goto(t, "free_cas")
  /\ UNCHANGED <<free_head, size_, fh, next, slot, own, chain, depth>>

FreePush(t) ==
  /\ At(t, "free_cas")
  /\ HeadIs(fh[t])
  /\ free_head.tag < MaxTag
  /\ free_head' = [idx |-> slot[t], tag |-> free_head.tag + 1]
  /\ depth' = depth + 1
  /\ chain' = [i \in 1 .. depth + 1 |-> IF i <= depth THEN chain[i] ELSE slot[t]]
  /\ Goto(t, "free_size")
  /\ UNCHANGED <<pool_next_free, size_, fh, next, slot, own>>

FreeRetry(t) ==
  /\ At(t, "free_cas")
  /\ fh' = [fh EXCEPT ![t] = free_head]
  /\ Goto(t, "free_link")
  /\ UNCHANGED <<shared, next, slot, own, chain, depth>>

FreeSize(t) ==
  /\ At(t, "free_size")
  /\ size_' = size_ - 1
  /\ Goto(t, "idle")
  /\ UNCHANGED <<free_head, pool_next_free, fh, next, slot, own, chain, depth>>

PoolNext ==
  \E t \in Threads :
    \/ AllocLoad(t) \/ AllocNext(t) \/ AllocTake(t) \/ AllocRetry(t) \/ AllocSize(t)
    \/ \E s \in Slots : FreeLoad(t, s)
    \/ FreeLink(t) \/ FreePush(t) \/ FreeRetry(t) \/ FreeSize(t)

PoolSpec == PoolInit /\ [][PoolNext]_poolVars
-----------------------------------------------------------------------------
Labels == {"idle", "alloc_next", "alloc_cas", "alloc_size",
           "free_link", "free_cas", "free_size"}

(* Types of the head word, the links, the threads' locals and the history. *)
PoolTypeOK ==
  /\ free_head \in HeadWord
  /\ pool_next_free \in [Slots -> Slots \cup {Nil}]
  /\ size_ \in Int
  /\ pc \in [Threads -> Labels]
  /\ fh \in [Threads -> HeadWord]
  /\ next \in [Threads -> Slots \cup {Nil}]
  /\ slot \in [Threads -> Slots \cup {Nil}]
  /\ own \in [Threads -> SUBSET Slots]
  /\ depth \in Nat
  /\ chain \in [1 .. depth -> Slots]

(* The slot a thread is being handed or is giving back.                    *)
Hand(t) == IF pc[t] \in {"alloc_size", "free_link", "free_cas"} THEN {slot[t]} ELSE {}
Held(t) == own[t] \cup Hand(t)
FreeSet == {chain[i] : i \in 1 .. depth}

(* allocate()'s comment: without the tag "two threads own the same slot".  *)
(* No slot is ever in the hands of two threads, handed twice to one, or in *)
(* someone's hands while it is still on the free list.                     *)
ExclusiveSlots ==
  /\ \A t, u \in Threads : t # u => Held(t) \cap Held(u) = {}
  /\ \A t \in Threads : Hand(t) \cap own[t] = {} /\ Held(t) \cap FreeSet = {}

(* The links in memory spell exactly the free slots, each of them once: no *)
(* interleaving of allocate() and deallocate() cuts, ties or loses a part  *)
(* of the list, and every slot is on it or in someone's hands.             *)
FreeListIntact ==
  /\ free_head.idx = IF depth = 0 THEN Nil ELSE chain[depth]
  /\ \A i \in 1 .. depth :
       pool_next_free[chain[i]] = IF i = 1 THEN Nil ELSE chain[i - 1]
  /\ \A i, j \in 1 .. depth : chain[i] = chain[j] => i = j
  /\ \A s \in Slots : s \in FreeSet \/ \E t \in Threads : s \in Held(t)

(* What a thread inside allocate() or deallocate() knows.  A head word it  *)
(* loaded is current exactly as long as its tag is; then the link it       *)
(* copied is still the top slot's.  The slot it is about to push already   *)
(* points to the head it compares with.                                    *)
LocalsCurrent ==
  \A t \in Threads :
    /\ fh[t].tag <= free_head.tag
    /\ pc[t] \in {"alloc_next", "alloc_cas"} => fh[t].idx # Nil
    /\ pc[t] \in {"alloc_next", "alloc_cas", "free_link", "free_cas"}
         /\ fh[t].tag = free_head.tag => fh[t].idx = free_head.idx
    /\ pc[t] = "alloc_cas" /\ fh[t].tag = free_head.tag
         => next[t] = pool_next_free[fh[t].idx]
    /\ pc[t] = "free_cas" => pool_next_free[slot[t]] = fh[t].idx
    /\ pc[t] \in {"alloc_size", "free_link", "free_cas"} => slot[t] # Nil

(* The inductive invariant behind ExclusiveSlots and FreeListIntact.       *)
PoolInv == PoolTypeOK /\ ExclusiveSlots /\ FreeListIntact /\ LocalsCurrent

(* The lock-free pool implements the abstract one: every step takes a free *)
(* slot, gives one back, or changes neither.                               *)
Pool == INSTANCE SlotPool WITH free <- FreeSet, held <- [t \in Threads |-> Held(t)]

ImplementsSlotPool == Pool!Spec
=============================================================================
