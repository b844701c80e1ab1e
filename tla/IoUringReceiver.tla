-------------------------- MODULE IoUringReceiver --------------------------
(***************************************************************************)
(* The receive side of io_uring with several reads in flight:              *)
(* IoUringPoller's registered buffers (core/net/io_uring_poller.h) as      *)
(* IoUringReceiver::recv_batch cycles them (core/net/io_uring_receiver.cpp)*)
(* The calls on the poller belong to recv_th but for those of stop(),      *)
(* which main makes, without a lock, while recv_th may still run.  A call  *)
(* loads the poller's plain fields and stores them later: it may store     *)
(* over what the other thread has changed in between.  The kernel,         *)
(* external, fills the buffers of the reads in flight.                     *)
(***************************************************************************)
EXTENDS Integers, Sequences, Functions, FiniteSets

CONSTANTS MaxBuffers,  \* MAX_BUFFERS
          MaxFaults    \* bound: failed reads and empty datagrams

ASSUME ReceiverAssumption == MaxBuffers \in Nat \ {0, 1} /\ MaxFaults \in Nat

Buffers == 1 .. MaxBuffers
NoBuf == 0                \* UINT32_MAX
Empty == 0                \* a datagram without bytes
Failed == -1              \* an error completion

Callers == {"recv_th", "main"}

VARIABLES
  running, single,        \* running_, buf_idx_
  freeBufs,               \* buf_free_stack_
  staged,                 \* reads prepared but not submitted
  inflight,               \* reads the kernel holds
  cqes,                   \* completions: buffer and packet
  ready,                  \* ready_ between ready_head_ and ready_len_: buffer and packet
  held,                   \* main's buffer between take_ready and free_buffer in stop()
  seen,                   \* per thread: ready and freeBufs as its call under way loaded them
  faults,
  clashed                 \* history: the calls of the two threads overlapped

receiverVars == <<running, single, freeBufs, staged, inflight, cqes, ready, held, seen, faults, clashed>>

Loaded(q, s) == [ready |-> q, free |-> s]
NotLoaded == Loaded(<<>>, {})

(* submit_inflight, from begin_batch: a read for every buffer but the      *)
(* first, which start() keeps for the single-packet path.                  *)
Submitted == [i \in 1 .. MaxBuffers - 1 |-> i + 1]

ReceiverInit ==
  /\ running = TRUE /\ single = 1 /\ freeBufs = {}
  /\ staged = <<>> /\ inflight = Submitted
  /\ cqes = <<>> /\ ready = <<>> /\ held = NoBuf /\ faults = 0
  /\ seen = [t \in Callers |-> NotLoaded] /\ clashed = FALSE

Completion(b, p) == [buf |-> b, pkt |-> p]
BufsOf(cs) == [i \in DOMAIN cs |-> cs[i].buf]

(* The completions that did not fail, in their order.                      *)
Good(cs) ==
  LET upTo[i \in 0 .. Len(cs)] ==
        IF i = 0 THEN <<>>
        ELSE IF cs[i].pkt = Failed THEN upTo[i - 1] ELSE Append(upTo[i - 1], cs[i])
  IN  upTo[Len(cs)]

(* A packet p reaches the first read in flight.                            *)
KernelRecv(p) ==
  /\ inflight # <<>>
  /\ cqes' = Append(cqes, Completion(Head(inflight), p))
  /\ inflight' = Tail(inflight)
  /\ UNCHANGED <<running, single, freeBufs, staged, ready, held, seen, clashed>>

(* A read fails, or takes an empty datagram; after close(fd) it may fail   *)
(* at any time.                                                            *)
KernelFault(p) ==
  /\ faults < MaxFaults \/ (~running /\ p = Failed)
  /\ faults' = IF running THEN faults + 1 ELSE faults
  /\ KernelRecv(p)

(* submit_and_wait_timeout: the staged reads go to the kernel.             *)
SubmitStaged ==
  /\ inflight' = inflight \o staged
  /\ staged' = <<>>
  /\ UNCHANGED <<running, single, freeBufs, cqes, ready, held, seen, faults, clashed>>

(* What a call on the poller begins with: ready_empty() before take_ready, *)
(* the first reads of ready_len_ and buf_free_top_ in reap_more.           *)
LoadOnly == UNCHANGED <<running, single, freeBufs, staged, inflight, cqes, ready, held, faults, clashed>>
LoadReady(t) == seen' = [seen EXCEPT ![t] = Loaded(ready, {})] /\ LoadOnly
LoadBoth(t) == seen' = [seen EXCEPT ![t] = Loaded(ready, freeBufs)] /\ LoadOnly

(* What a store works on: a field as loaded, or as it is by now.           *)
Queues(t) == {seen[t].ready, ready}
Stacks(t) == {seen[t].free, freeBufs}
Overlaps(overlap) == clashed' = (clashed \/ overlap)
Stored(t) == seen' = [seen EXCEPT ![t] = NotLoaded]

FailedBufs(cs) == {cs[i].buf : i \in {j \in DOMAIN cs : cs[j].pkt = Failed}}

AppendGood == \E q \in Queues("recv_th") :
                ready' = IF Good(cqes) = <<>> THEN ready ELSE q \o Good(cqes)

(* Mutant of ReapMore: the buffer of a failed read is forgotten.           *)
ReapMore_LosesFailed ==
  /\ AppendGood
  /\ cqes' = <<>>
  /\ Overlaps(seen["recv_th"] # Loaded(ready, freeBufs)) /\ Stored("recv_th")
  /\ UNCHANGED <<running, single, freeBufs, staged, inflight, held, faults>>

(* reap_more: completed reads become ready, failed ones free their buffer. *)
ReapMore ==
  /\ AppendGood
  /\ \E s \in Stacks("recv_th") :
       freeBufs' = IF FailedBufs(cqes) = {} THEN freeBufs ELSE s \cup FailedBufs(cqes)
  /\ cqes' = <<>>
  /\ Overlaps(seen["recv_th"] # Loaded(ready, freeBufs)) /\ Stored("recv_th")
  /\ UNCHANGED <<running, single, staged, inflight, held, faults>>

(* take_ready takes c: the head may be that of one moment and the length   *)
(* that of another, so that a buffer is taken twice, one is skipped or an  *)
(* old slot x comes round again; without a length there is no buffer.      *)
NoEntry == Completion(NoBuf, Empty)
Slots(t) == {NoEntry} \cup Range(seen[t].ready) \cup Range(ready)
Left(q, n, x) == [i \in 1 .. n |-> IF i < Len(q) THEN q[i + 1] ELSE x]
TakeReady(t, c) ==
  \E q, r \in Queues(t), x \in Slots(t) :
    IF r = <<>> THEN c = NoEntry /\ ready' = ready
    ELSE /\ c = IF q = <<>> THEN x ELSE Head(q)
         /\ ready' = Left(q, Len(r) - 1, x)

(* take_ready, the copy and resubmit_recv: the read is prepared again at   *)
(* once.  If stop() has emptied the queue there is no buffer.              *)
TakeAndResubmit(c) ==
  /\ TakeReady("recv_th", c)
  /\ staged' = Append(staged, c.buf)
  /\ Overlaps(seen["recv_th"].ready # ready \/ c = NoEntry) /\ Stored("recv_th")
  /\ UNCHANGED <<running, single, freeBufs, inflight, cqes, held, faults>>

(* stop(): no more reads, the descriptor closed ...                        *)
StopReceiver ==
  /\ running' = FALSE
  /\ seen' = [seen EXCEPT !["main"] = Loaded(<<>>, freeBufs)]
  /\ UNCHANGED <<single, freeBufs, staged, inflight, cqes, ready, held, faults, clashed>>

FreeBuffer(b) ==
  /\ \E s \in Stacks("main") : freeBufs' = s \cup {b}
  /\ Overlaps(seen["main"].free # freeBufs) /\ Stored("main")
  /\ UNCHANGED <<running, staged, inflight, cqes, ready, faults>>

(* ... the single buffer freed ...                                         *)
FreeSingle == FreeBuffer(single) /\ single' = NoBuf /\ UNCHANGED held

(* ... and ready buffers taken and freed, one by one.                      *)
DrainTake(c) ==
  /\ TakeReady("main", c)
  /\ held' = c.buf
  /\ Overlaps(seen["main"].ready # ready \/ c = NoEntry)
  /\ seen' = [seen EXCEPT !["main"] = Loaded(<<>>, freeBufs)]
  /\ UNCHANGED <<running, single, freeBufs, staged, inflight, cqes, faults>>

DrainFree == FreeBuffer(held) /\ held' = NoBuf /\ UNCHANGED single

----------------------------------------------------------------------------
(* Where a buffer can be: free, kept for single reads, prepared, in        *)
(* flight, completed, ready or in main's hand.                             *)
Places == <<freeBufs, {single}, Range(staged), Range(inflight),
            Range(BufsOf(cqes)), Range(BufsOf(ready)), {held}>>

(* The state machine of io_uring_poller.h:133-136: every buffer is in      *)
(* exactly one place, and once in it, through faults and while main stops  *)
(* the receiver under recv_th, as long as no two calls on the poller       *)
(* overlapped.                                                             *)
BuffersConservedUnlessClashed ==
  ~clashed =>
    /\ \A b \in Buffers : \E i \in DOMAIN Places :
         \A j \in DOMAIN Places : b \in Places[j] <=> j = i
    /\ \A q \in {staged, inflight, BufsOf(cqes), BufsOf(ready)} : IsInjective(q)
=============================================================================
