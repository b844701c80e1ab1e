------------------------------ MODULE OrderMap ------------------------------
(***************************************************************************)
(* core/memory/order_map.h: the order_ref -> OrderSlot* index all workers  *)
(* share.  Buckets are singly linked chains changed by CAS, nodes come     *)
(* from a common free stack, and a chain that grows too long is copied     *)
(* into one mutex-protected map (treeify).  An order_ref is used by one    *)
(* worker alone (its locate has one owner), so each thread's calls for a   *)
(* key are sequential; what is concurrent is everything they walk past.    *)
(*                                                                         *)
(* A step is one access to shared memory, with these exceptions.  Loads of *)
(* a node's key ride with the load that led to the node: only its owner    *)
(* ever stores or frees a node with its key, so no other thread can make   *)
(* the comparison come out differently.  The stores into a node nobody can *)
(* reach yet, and the gate of a call with its first length test, are one   *)
(* step.  allocNode and freeNode are one step each: module OrderPool has   *)
(* the same tagged stack access by access; that freeNode overwrites the    *)
(* node's link is kept.                                                    *)
(* The mutex is held across the copying loop of treeify only; every other  *)
(* critical section is one step.  The size counter is left out.            *)
(***************************************************************************)
EXTENDS Integers, Sequences, FiniteSets

CONSTANTS
  Threads, Keys,
  Owner,        \* key -> the thread that uses it
  Buckets,      \* bucket numbers, 0 among them
  Hash,         \* key -> bucket
  Capacity,     \* number of nodes
  Threshold,    \* TREEIFY_THRESHOLD
  MaxCalls,     \* bound: calls of one thread
  NoThread, NoKey

ASSUME MapAssumption ==
  /\ Owner \in [Keys -> Threads] /\ Hash \in [Keys -> Buckets] /\ 0 \in Buckets
  /\ Capacity \in Nat \ {0} /\ Threshold \in Nat \ {0} /\ MaxCalls \in Nat
  /\ NoThread \notin Threads /\ NoKey \notin Keys

Nodes == 0 .. Capacity - 1
Nil   == Capacity            \* UINT32_MAX

VARIABLES
  node,                    \* nodes_: [ref, order, next, bucket]
  head,                    \* buckets_
  free,                    \* the free stack, top first
  untagged,                \* free_head_ still has tag 0
  len,                     \* bucket_len_
  state,                   \* state_: 0 chain, 1 converting, 2 treeified
  overflow,                \* overflow_: key -> order, 0 when absent
  lock,                    \* owner of overflow_lock_ across treeify's loop
  at,                      \* per thread: [pc, key, then, idx, next, nxt]
  calls,                   \* per thread: calls made
  stored,                  \* history: key -> the order its owner stored, 0 when none
  exact,                   \* history: every find returned what was stored
  strayed                  \* history: a stale link was followed or published

shared  == <<node, head, free, untagged, len, state, overflow, lock>>
history == <<calls, stored, exact>>
mapVars == <<shared, at, history, strayed>>

Idle == [pc |-> "idle", key |-> NoKey, then |-> "idle", idx |-> Nil, next |-> Nil, nxt |-> Nil]

MapInit ==
  /\ node = [n \in Nodes |-> [ref |-> NoKey, order |-> 0, next |-> n + 1, bucket |-> 0]]
  /\ head = [b \in Buckets |-> Nil]
  /\ free = [i \in 1 .. Capacity |-> i - 1] /\ untagged = TRUE
  /\ len = [b \in Buckets |-> 0] /\ state = [b \in Buckets |-> 0]
  /\ overflow = [k \in Keys \cup {NoKey} |-> 0] /\ lock = NoThread
  /\ at = [t \in Threads |-> Idle]
  /\ calls = [t \in Threads |-> 0] /\ stored = [k \in Keys |-> 0]
  /\ exact = TRUE /\ strayed = FALSE

Key(t) == at[t].key
B(t)   == Hash[at[t].key]
At(t, l) == at[t].pc = l
Goto(t, l) == at' = [at EXCEPT ![t].pc = l]
Return(t)  == at' = [at EXCEPT ![t] = Idle]

(* A node that is in no chain: on the free stack or in a thread's hand.    *)
Loose(n) ==
  \/ \E i \in DOMAIN free : free[i] = n
  \/ \E t \in Threads : at[t].idx = n /\ at[t].pc \in {"load", "publish", "give_up", "release"}
-----------------------------------------------------------------------------
(* The calls of an owner: a new order, a lookup, a removal.                *)
Call(t, k, op) ==
  /\ At(t, "idle") /\ Owner[k] = t /\ calls[t] < MaxCalls
  /\ op = "insert" => stored[k] = 0
  /\ calls' = [calls EXCEPT ![t] = @ + 1]
  /\ at' = [at EXCEPT ![t] = [Idle EXCEPT !.pc = op, !.key = k]]
  /\ UNCHANGED <<shared, stored, exact, strayed>>

FreeNode(n) == /\ node' = [node EXCEPT ![n].next = IF free = <<>> THEN Nil ELSE free[1]]
               /\ free' = <<n>> \o free

TooLong(b) == len[b] >= Threshold \/ (free = <<>> /\ untagged)

(* insert: the gate, then the length test.  The test for an empty stack    *)
(* compares the whole word, tag included, with UINT32_MAX.                 *)
InsertGate(t) ==
  /\ At(t, "insert")
  /\ at' = [at EXCEPT ![t].pc =
              CASE state[B(t)] # 0 -> "put"
                [] state[B(t)] = 0 /\ TooLong(B(t)) -> "convert"
                [] OTHER -> "alloc", ![t].then = "put"]
  /\ UNCHANGED <<shared, history, strayed>>

AllocNode == free' = Tail(free) /\ untagged' = FALSE

(* An exhausted pool drops the order.  The fields of a new node are stored *)
(* before anyone can reach it.                                             *)
InsertAlloc(t) ==
  /\ At(t, "alloc")
  /\ IF free = <<>> THEN Return(t) /\ UNCHANGED <<node, free, untagged>>
     ELSE /\ at' = [at EXCEPT ![t].pc = "load", ![t].idx = free[1]]
          /\ AllocNode
          /\ node' = [node EXCEPT ![free[1]] = [ref |-> Key(t), order |-> calls[t],
                                                next |-> @.next, bucket |-> B(t)]]
  /\ UNCHANGED <<head, len, state, overflow, lock, history, strayed>>

(* The state is read again; then the link to the current head is stored.   *)
InsertLoad(t) ==
  /\ At(t, "load")
  /\ IF state[B(t)] # 0 THEN Goto(t, "give_up") /\ UNCHANGED node
     ELSE /\ at' = [at EXCEPT ![t].pc = "publish", ![t].next = head[B(t)]]
          /\ node' = [node EXCEPT ![at[t].idx].next = head[B(t)]]
  /\ UNCHANGED <<head, free, untagged, len, state, overflow, lock, history, strayed>>

(* Mutant of InsertPublish: a store instead of the CAS.                    *)
InsertPublish_Store(t) ==
  /\ At(t, "publish")
  /\ head' = [head EXCEPT ![B(t)] = at[t].idx]
  /\ strayed' = (strayed \/ state[B(t)] # 0)
  /\ Goto(t, "count")
  /\ UNCHANGED <<node, free, untagged, len, state, overflow, lock, history>>

(* CAS of the bucket's head.                                               *)
InsertPublish(t) ==
  /\ At(t, "publish")
  /\ IF head[B(t)] = at[t].next
     THEN /\ head' = [head EXCEPT ![B(t)] = at[t].idx]
          /\ strayed' = (strayed \/ state[B(t)] # 0)
          /\ Goto(t, "count")
     ELSE Goto(t, "load") /\ UNCHANGED <<head, strayed>>
  /\ UNCHANGED <<node, free, untagged, len, state, overflow, lock, history>>

InsertCount(t) ==
  /\ At(t, "count")
  /\ len' = [len EXCEPT ![B(t)] = @ + 1]
  /\ stored' = [stored EXCEPT ![Key(t)] = node[at[t].idx].order]
  /\ Goto(t, "length")
  /\ UNCHANGED <<node, head, free, untagged, state, overflow, lock, calls, exact, strayed>>

InsertLength(t) ==
  /\ At(t, "length")
  /\ IF len[B(t)] >= Threshold
     THEN at' = [at EXCEPT ![t].pc = "convert", ![t].then = "idle"]
     ELSE Return(t)
  /\ UNCHANGED <<shared, history, strayed>>

InsertGiveUp(t) ==
  /\ At(t, "give_up")
  /\ FreeNode(at[t].idx)
  /\ Goto(t, "put")
  /\ UNCHANGED <<head, untagged, len, state, overflow, lock, history, strayed>>

InsertOverflow(t) ==
  /\ At(t, "put") /\ lock = NoThread
  /\ overflow' = [overflow EXCEPT ![Key(t)] = calls[t]]
  /\ stored' = [stored EXCEPT ![Key(t)] = calls[t]]
  /\ Return(t)
  /\ UNCHANGED <<node, head, free, untagged, len, state, lock, calls, exact, strayed>>
-----------------------------------------------------------------------------
(* treeify: one thread wins the conversion, copies the chain under the     *)
(* mutex and closes the bucket for good; the nodes stay where they are.    *)
AfterTreeify(t) == IF at[t].then = "put" THEN Goto(t, "put") ELSE Return(t)

TreeifyClaim(t) ==
  /\ At(t, "convert")
  /\ IF state[B(t)] = 0
     THEN Goto(t, "lock") /\ state' = [state EXCEPT ![B(t)] = 1]
     ELSE AfterTreeify(t) /\ UNCHANGED state
  /\ UNCHANGED <<node, head, free, untagged, len, overflow, lock, history, strayed>>

TreeifyLock(t) ==
  /\ At(t, "lock") /\ lock = NoThread
  /\ lock' = t
  /\ at' = [at EXCEPT ![t].pc = "copy", ![t].idx = head[B(t)]]
  /\ UNCHANGED <<node, head, free, untagged, len, state, overflow, history, strayed>>

TreeifyCopy(t) ==
  /\ At(t, "copy") /\ at[t].idx # Nil
  /\ LET n == at[t].idx
     IN  /\ overflow' = [overflow EXCEPT ![node[n].ref] = node[n].order]
         /\ at' = [at EXCEPT ![t].idx = node[n].next]
         /\ strayed' = (strayed \/ Loose(n))
  /\ UNCHANGED <<node, head, free, untagged, len, state, lock, history>>

TreeifyDone(t) ==
  /\ At(t, "copy") /\ at[t].idx = Nil
  /\ state' = [state EXCEPT ![B(t)] = 2]
  /\ lock' = NoThread
  /\ AfterTreeify(t)
  /\ UNCHANGED <<node, head, free, untagged, len, overflow, history, strayed>>
-----------------------------------------------------------------------------
(* find: lock-free along the chain; a node of another bucket means that    *)
(* the walk was led astray and starts again.                               *)
Answer(t, order) == exact' = (exact /\ order = stored[Key(t)]) /\ Return(t)

(* Mutant of Elsewhere: the bucket of a node is not compared.              *)
Elsewhere_Never(t, n) == FALSE

Elsewhere(t, n) == node[n].bucket # B(t)

FindGate(t) ==
  /\ At(t, "find")
  /\ Goto(t, IF state[B(t)] # 0 THEN "get" ELSE "find_head")
  /\ UNCHANGED <<shared, history, strayed>>

FindOverflow(t) ==
  /\ At(t, "get") /\ lock = NoThread
  /\ Answer(t, overflow[Key(t)])
  /\ strayed' = (strayed \/ state[B(t)] = 1)
  /\ UNCHANGED <<shared, calls, stored>>

FindHead(t) ==
  /\ At(t, "find_head")
  /\ at' = [at EXCEPT ![t].pc = "find_test", ![t].idx = head[B(t)]]
  /\ UNCHANGED <<shared, history, strayed>>

FindTest(t) ==
  /\ At(t, "find_test")
  /\ LET n == at[t].idx
     IN  CASE n = Nil -> Answer(t, 0) /\ UNCHANGED strayed
           [] n # Nil /\ Elsewhere(t, n) -> Goto(t, "find_head") /\ UNCHANGED <<exact, strayed>>
           [] n # Nil /\ ~Elsewhere(t, n) /\ node[n].ref = Key(t) ->
                Answer(t, node[n].order) /\ UNCHANGED strayed
           [] OTHER -> /\ Goto(t, "find_next") /\ UNCHANGED exact
                       /\ strayed' = (strayed \/ Loose(n))
  /\ UNCHANGED <<shared, calls, stored>>

FindNext(t) ==
  /\ At(t, "find_next")
  /\ at' = [at EXCEPT ![t].pc = "find_test", ![t].idx = node[at[t].idx].next]
  /\ UNCHANGED <<shared, history, strayed>>
-----------------------------------------------------------------------------
(* erase: the head of the chain by a CAS of the bucket, any other node by  *)
(* a CAS of its predecessor's link.                                        *)
EraseGate(t) ==
  /\ At(t, "erase")
  /\ Goto(t, IF state[B(t)] # 0 THEN "del" ELSE "erase_head")
  /\ UNCHANGED <<shared, history, strayed>>

Erased(t) == stored' = [stored EXCEPT ![Key(t)] = 0] /\ Return(t)

EraseOverflow(t) ==
  /\ At(t, "del") /\ lock = NoThread
  /\ overflow' = [overflow EXCEPT ![Key(t)] = 0]
  /\ Erased(t)
  /\ strayed' = (strayed \/ state[B(t)] = 1)
  /\ UNCHANGED <<node, head, free, untagged, len, state, lock, calls, exact>>

EraseHead(t) ==
  /\ At(t, "erase_head")
  /\ LET n == head[B(t)]
     IN  CASE n = Nil -> Erased(t)
           [] n # Nil /\ node[n].ref = Key(t) ->
                at' = [at EXCEPT ![t].pc = "head_next", ![t].idx = n] /\ UNCHANGED stored
           [] OTHER -> at' = [at EXCEPT ![t].pc = "walk_test", ![t].idx = n] /\ UNCHANGED stored
  /\ UNCHANGED <<shared, calls, exact, strayed>>

HeadNext(t) ==
  /\ At(t, "head_next")
  /\ at' = [at EXCEPT ![t].pc = "head_cas", ![t].nxt = node[at[t].idx].next]
  /\ UNCHANGED <<shared, history, strayed>>

(* What goes unnoticed when victim leaves the chain: its link has changed  *)
(* since it was loaded, the chain is being converted, or another thread    *)
(* has tested the victim's bucket and is about to follow its link.         *)
Stale(t, victim) ==
  \/ node[victim].next # at[t].nxt
  \/ state[B(t)] # 0
  \/ \E u \in Threads \ {t} : at[u].idx = victim /\ at[u].pc \in {"find_next", "walk_next"}

HeadCas(t) ==
  /\ At(t, "head_cas")
  /\ IF head[B(t)] = at[t].idx
     THEN /\ head' = [head EXCEPT ![B(t)] = at[t].nxt]
          /\ strayed' = (strayed \/ Stale(t, at[t].idx))
          /\ Goto(t, "release")
     ELSE /\ Goto(t, "erase_head")
          /\ UNCHANGED <<head, strayed>>
  /\ UNCHANGED <<node, free, untagged, len, state, overflow, lock, history>>

WalkTest(t) ==
  /\ At(t, "walk_test")
  /\ IF Elsewhere(t, at[t].idx)
     THEN Goto(t, "erase_head") /\ UNCHANGED strayed
     ELSE Goto(t, "walk_next") /\ strayed' = (strayed \/ Loose(at[t].idx))
  /\ UNCHANGED <<shared, history>>

WalkNext(t) ==
  /\ At(t, "walk_next")
  /\ LET n == node[at[t].idx].next
     IN  CASE n = Nil -> Erased(t)
           [] n # Nil /\ node[n].ref = Key(t) ->
                at' = [at EXCEPT ![t].pc = "walk_load", ![t].next = n] /\ UNCHANGED stored
           [] OTHER -> at' = [at EXCEPT ![t].pc = "walk_test", ![t].idx = n] /\ UNCHANGED stored
  /\ UNCHANGED <<shared, calls, exact, strayed>>

WalkLoad(t) ==
  /\ At(t, "walk_load")
  /\ at' = [at EXCEPT ![t].pc = "walk_cas", ![t].nxt = node[at[t].next].next]
  /\ UNCHANGED <<shared, history, strayed>>

WalkCas(t) ==
  /\ At(t, "walk_cas")
  /\ LET pred == at[t].idx
     IN  IF node[pred].next = at[t].next
         THEN /\ node' = [node EXCEPT ![pred].next = at[t].nxt]
              /\ strayed' = (strayed \/ Loose(pred) \/ Stale(t, at[t].next))
              /\ at' = [at EXCEPT ![t].pc = "release", ![t].idx = at[t].next]
         ELSE Goto(t, "erase_head") /\ UNCHANGED <<node, strayed>>
  /\ UNCHANGED <<head, free, untagged, len, state, overflow, lock, history>>

EraseRelease(t) ==
  /\ At(t, "release")
  /\ FreeNode(at[t].idx)
  /\ len' = [len EXCEPT ![B(t)] = @ - 1]
  /\ Erased(t)
  /\ UNCHANGED <<head, untagged, state, overflow, lock, calls, exact, strayed>>
-----------------------------------------------------------------------------
Insert(t)  == \/ InsertGate(t) \/ InsertAlloc(t) \/ InsertLoad(t) \/ InsertPublish(t)
              \/ InsertCount(t) \/ InsertLength(t) \/ InsertGiveUp(t) \/ InsertOverflow(t)
Treeify(t) == TreeifyClaim(t) \/ TreeifyLock(t) \/ TreeifyCopy(t) \/ TreeifyDone(t)
Find(t)    == FindGate(t) \/ FindOverflow(t) \/ FindHead(t) \/ FindTest(t) \/ FindNext(t)
Erase(t)   == \/ EraseGate(t) \/ EraseOverflow(t) \/ EraseHead(t) \/ HeadNext(t) \/ HeadCas(t)
              \/ WalkTest(t) \/ WalkNext(t) \/ WalkLoad(t) \/ WalkCas(t) \/ EraseRelease(t)

MapNext == \E t \in Threads : \/ \E k \in Keys, op \in {"insert", "find", "erase"} : Call(t, k, op)
                           \/ Insert(t) \/ Treeify(t) \/ Find(t) \/ Erase(t)

MapSpec == MapInit /\ [][MapNext]_mapVars
-----------------------------------------------------------------------------
(* Every find returns what the key's owner stored last, or nothing when it *)
(* erased the key or never stored it.                                      *)
FindIsExact == exact

(* Whatever the threads that share a chain do to it, a find is exact until *)
(* a stale link was followed or published.                                 *)
FindIsExactUnlessStrayed == ~strayed => exact

Reach(b) ==
  LET step[i \in 0 .. Capacity] ==
        IF i = 0 THEN head[b] ELSE IF step[i - 1] = Nil THEN Nil ELSE node[step[i - 1]].next
  IN  [i \in 0 .. Capacity |-> step[i]]

(* Every node is in exactly one place: once on the free stack, in one      *)
(* thread's hand or in one chain, and chains end.                          *)
NodesAccountedUnlessStrayed ==
  ~strayed =>
    /\ \A b \in Buckets : Reach(b)[Capacity] = Nil
    /\ \A n \in Nodes :
         LET inChain == {p \in Buckets \X (0 .. Capacity) : Reach(p[1])[p[2]] = n}
             inHand  == {t \in Threads : at[t].idx = n /\ at[t].pc \in {"load", "publish", "give_up", "release"}}
             inFree  == {i \in DOMAIN free : free[i] = n}
         IN  Cardinality(inChain) + Cardinality(inHand) + Cardinality(inFree) = 1
=============================================================================
