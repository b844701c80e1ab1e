----------------------------- MODULE Dispatcher -----------------------------
(***************************************************************************)
(* core/dispatch/dispatcher.h with the retry thread and the workers of     *)
(* main.cpp.  The parser thread routes every event by its locate to one    *)
(* worker's SPSCEventRing; when that ring is full the event goes to the    *)
(* worker's retry bucket, which the retry thread pushes back into the ring *)
(* later.  While the bucket's active flag is up the parser must keep using *)
(* the bucket, so that the worker sees its events in dispatch order.       *)
(*                                                                         *)
(* Both the parser and the retry thread push into a ring, so a push is     *)
(* modelled access by access: load of tail and head, write of the slot,    *)
(* publication of the tail.  A bucket has one writer and one reader and is *)
(* the bounded FIFO that EventRing is shown to implement.                  *)
(***************************************************************************)
EXTENDS WakeUps, Sequences, SequencesExt, FiniteSets

CONSTANTS
  Locates,     \* the stock locates that occur
  RingCap,     \* capacity_ of every worker's ring
  BucketCap,   \* capacity_ of every retry bucket
  MaxEvents,   \* bound: events the parser produces
  MaxPops      \* bound: pops of one worker (a corrupted ring never runs dry)

ASSUME DispatcherAssumption ==
  /\ NWorkers \in Nat \ {0}
  /\ RingCap \in Nat \ {0} /\ BucketCap \in Nat \ {0}
  /\ MaxEvents \in Nat /\ MaxPops \in Nat

Events  == 1 .. MaxEvents       \* an event is its seq_id
kNone   == -1

VARIABLES
  owner_, registered,           \* Dispatcher: locate -> worker, load per worker
  heads_, tails_, rings_,         \* the workers' rings
  bucket, active,               \* the retry buckets
  parser,                       \* parser thread: [pc, ev, owner, tail]
  retry,                        \* retry thread:  [pc, ev, i, tail]
  routed, delivered,            \* history: per worker, events in and out
  lateClear                     \* history: active was lowered over a backlog

ringVars  == <<heads_, tails_, rings_>>
histVars  == <<routed, delivered, lateClear>>
vars == <<owner_, registered, ringVars, bucket, active, parser, retry, histVars,
          wakeVars>>

Init ==
  /\ owner_ = [l \in Locates |-> kNone]
  /\ registered = [w \in Workers |-> 0]
  /\ heads_ = [w \in Workers |-> 0]
  /\ tails_ = [w \in Workers |-> 0]
  /\ rings_ = [w \in Workers |-> [i \in 0 .. RingCap - 1 |-> 0]]
  /\ bucket = [w \in Workers |-> <<>>]
  /\ active = [w \in Workers |-> FALSE]
  /\ parser = [pc |-> "idle", ev |-> 0, owner |-> 0, tail |-> 0]
  /\ retry = [pc |-> "scan", ev |-> 0, i |-> 0, tail |-> 0]
  /\ routed = [w \in Workers |-> <<>>]
  /\ delivered = [w \in Workers |-> <<>>]
  /\ lateClear = FALSE
  /\ WakeInit
-----------------------------------------------------------------------------
(* SPSCEventRing::push, one access at a time, for ring w and a caller that *)
(* loaded tail t.  The difference of the cursors is unsigned: a tail that  *)
(* fell behind the head counts as full.                                    *)
Full(w) == tails_[w] - heads_[w] \notin 0 .. RingCap - 1
Write(w, t, e) == /\ rings_' = [rings_ EXCEPT ![w][t % RingCap] = e]
                  /\ UNCHANGED <<heads_, tails_, wakeVars>>

(* Mutant of Publish: a push that does not write the eventfd.              *)
Publish_Silent(w, t) ==
  /\ tails_' = [tails_ EXCEPT ![w] = t + 1]
  /\ UNCHANGED <<heads_, rings_, wakeVars>>

(* The tail is stored and the eventfd written: what happens in between can *)
(* only wake a worker that has taken the event already.                    *)
Publish(w, t) ==
  /\ tails_' = [tails_ EXCEPT ![w] = t + 1]
  /\ Wake
  /\ UNCHANGED <<heads_, rings_>>
-----------------------------------------------------------------------------
(* The parser thread: Dispatcher::dispatch.                                *)

(* The first worker with the fewest registered locates.                    *)
LeastLoaded == CHOOSE w \in Workers :
  \A v \in Workers : registered[w] < registered[v] \/ (registered[w] = registered[v] /\ w <= v)

(* lookup_or_register: single-threaded, so the CAS always succeeds.        *)
LookupOrRegister(l, w) ==
  \/ /\ owner_[l] # kNone
     /\ w = owner_[l]
     /\ UNCHANGED <<owner_, registered>>
  \/ /\ owner_[l] = kNone
     /\ w = LeastLoaded
     /\ owner_' = [owner_ EXCEPT ![l] = w]
     /\ registered' = [registered EXCEPT ![w] = @ + 1]

Dispatch(l) ==
  /\ parser.pc = "idle"
  /\ parser.ev < MaxEvents
  /\ \E w \in Workers :
       /\ LookupOrRegister(l, w)
       /\ parser' = [parser EXCEPT !.pc = "test_active", !.ev = @ + 1, !.owner = w]
       /\ routed' = [routed EXCEPT ![w] = Append(@, parser.ev + 1)]
  /\ UNCHANGED <<ringVars, bucket, active, retry, delivered, lateClear, wakeVars>>

(* Mutant of TestActive: the flag is ignored, every event tries the ring.  *)
TestActive_Ignored ==
  /\ parser.pc = "test_active"
  /\ parser' = [parser EXCEPT !.pc = "ring_check"]
  /\ UNCHANGED <<owner_, registered, ringVars, bucket, active, retry, histVars, wakeVars>>

TestActive ==
  /\ parser.pc = "test_active"
  /\ parser' = [parser EXCEPT !.pc = IF active[parser.owner] THEN "bucket_active"
                                                             ELSE "ring_check"]
  /\ UNCHANGED <<owner_, registered, ringVars, bucket, active, retry, histVars, wakeVars>>

(* while (!rq->bucket.push(ev)) _mm_pause(): waits while the bucket is     *)
(* full, pushes, and goes on to label next.                                *)
BucketPush(label, next) ==
  /\ parser.pc = label
  /\ Len(bucket[parser.owner]) < BucketCap
  /\ bucket' = [bucket EXCEPT ![parser.owner] = Append(@, parser.ev)]
  /\ parser' = [parser EXCEPT !.pc = next]
  /\ UNCHANGED <<owner_, registered, ringVars, active, retry, histVars, wakeVars>>

ParserCheck ==
  /\ parser.pc = "ring_check"
  /\ parser' = IF Full(parser.owner)
               THEN [parser EXCEPT !.pc = "bucket_full"]
               ELSE [parser EXCEPT !.pc = "ring_write", !.tail = tails_[parser.owner]]
  /\ UNCHANGED <<owner_, registered, ringVars, bucket, active, retry, histVars, wakeVars>>

ParserWrite ==
  /\ parser.pc = "ring_write"
  /\ Write(parser.owner, parser.tail, parser.ev)
  /\ parser' = [parser EXCEPT !.pc = "ring_publish"]
  /\ UNCHANGED <<owner_, registered, bucket, active, retry, histVars>>

ParserPublish ==
  /\ parser.pc = "ring_publish"
  /\ Publish(parser.owner, parser.tail)
  /\ parser' = [parser EXCEPT !.pc = "idle"]
  /\ UNCHANGED <<owner_, registered, bucket, active, retry, histVars>>

SetActive ==
  /\ parser.pc = "set_active"
  /\ active' = [active EXCEPT ![parser.owner] = TRUE]
  /\ parser' = [parser EXCEPT !.pc = "idle"]
  /\ UNCHANGED <<owner_, registered, ringVars, bucket, retry, histVars, wakeVars>>

Parser ==
  \/ \E l \in Locates : Dispatch(l)
  \/ TestActive
  \/ BucketPush("bucket_active", "idle")
  \/ ParserCheck \/ ParserWrite \/ ParserPublish
  \/ BucketPush("bucket_full", "set_active")
  \/ SetActive
-----------------------------------------------------------------------------
(* The retry thread of main.cpp.                                           *)

(* Mutant of NextBucket: the last bucket of the round is left out.         *)
NextBucket_OffByOne ==
  IF retry.i + 1 < NWorkers - 1 THEN [retry EXCEPT !.pc = "peek", !.i = @ + 1]
                                ELSE [retry EXCEPT !.pc = "scan"]

(* On to the next bucket, or back to the outer loop after the last one.    *)
NextBucket ==
  IF retry.i + 1 < NWorkers THEN [retry EXCEPT !.pc = "peek", !.i = @ + 1]
                            ELSE [retry EXCEPT !.pc = "scan"]

(* all_empty(): poll (at most a second) and look again, or go round.       *)
RetryScan ==
  /\ retry.pc = "scan"
  /\ retry' = IF \A w \in Workers : bucket[w] = <<>>
              THEN retry
              ELSE [retry EXCEPT !.pc = "peek", !.i = 0]
  /\ UNCHANGED <<owner_, registered, ringVars, bucket, active, parser, histVars, wakeVars>>

RetryPeek ==
  /\ retry.pc = "peek"
  /\ retry' = IF bucket[retry.i] = <<>>
              THEN [retry EXCEPT !.pc = "test_empty"]
              ELSE [retry EXCEPT !.pc = "push_check", !.ev = Head(bucket[retry.i])]
  /\ UNCHANGED <<owner_, registered, ringVars, bucket, active, parser, histVars, wakeVars>>

(* Mutant of RetryCheck: an event the ring refuses is popped all the same. *)
RetryCheck_Drops ==
  /\ retry.pc = "push_check"
  /\ retry' = IF Full(retry.i)
              THEN [retry EXCEPT !.pc = "pop"]
              ELSE [retry EXCEPT !.pc = "push_write", !.tail = tails_[retry.i]]
  /\ UNCHANGED <<owner_, registered, ringVars, bucket, active, parser, histVars, wakeVars>>

RetryCheck ==
  /\ retry.pc = "push_check"
  /\ retry' = IF Full(retry.i)
              THEN [retry EXCEPT !.pc = "test_empty"]
              ELSE [retry EXCEPT !.pc = "push_write", !.tail = tails_[retry.i]]
  /\ UNCHANGED <<owner_, registered, ringVars, bucket, active, parser, histVars, wakeVars>>

RetryWrite ==
  /\ retry.pc = "push_write"
  /\ Write(retry.i, retry.tail, retry.ev)
  /\ retry' = [retry EXCEPT !.pc = "push_publish"]
  /\ UNCHANGED <<owner_, registered, bucket, active, parser, histVars>>

RetryPublish ==
  /\ retry.pc = "push_publish"
  /\ Publish(retry.i, retry.tail)
  /\ retry' = [retry EXCEPT !.pc = "pop"]
  /\ UNCHANGED <<owner_, registered, bucket, active, parser, histVars>>

RetryPop ==
  /\ retry.pc = "pop"
  /\ bucket' = [bucket EXCEPT ![retry.i] = Tail(@)]
  /\ retry' = [retry EXCEPT !.pc = "peek"]
  /\ UNCHANGED <<owner_, registered, ringVars, active, parser, histVars, wakeVars>>

RetryTest ==
  /\ retry.pc = "test_empty"
  /\ retry' = IF bucket[retry.i] = <<>> THEN [retry EXCEPT !.pc = "clear"]
                                        ELSE NextBucket
  /\ UNCHANGED <<owner_, registered, ringVars, bucket, active, parser, histVars, wakeVars>>

(* The parser's claim on bucket w at the moment the flag is lowered: a     *)
(* backlog it will not announce again, or a decision to use the bucket     *)
(* taken while the flag was still up.                                      *)
Backlog(w) ==
  \/ bucket[w] # <<>> /\ ~(parser.pc = "set_active" /\ parser.owner = w)
  \/ parser.pc = "bucket_active" /\ parser.owner = w

RetryClear ==
  /\ retry.pc = "clear"
  /\ active' = [active EXCEPT ![retry.i] = FALSE]
  /\ lateClear' = (lateClear \/ Backlog(retry.i))
  /\ retry' = NextBucket
  /\ UNCHANGED <<owner_, registered, ringVars, bucket, parser, routed, delivered, wakeVars>>

Retry == \/ RetryScan \/ RetryPeek \/ RetryCheck \/ RetryWrite \/ RetryPublish
         \/ RetryPop \/ RetryTest \/ RetryClear
-----------------------------------------------------------------------------
(* A worker: SPSCEventRing::pop by the ring's only reader.                 *)
Pending(w) == heads_[w] # tails_[w]

WorkerPop(w) ==
  /\ sleep[w] = "no"
  /\ Pending(w)
  /\ Len(delivered[w]) < MaxPops
  /\ delivered' = [delivered EXCEPT ![w] = Append(@, rings_[w][heads_[w] % RingCap])]
  /\ heads_' = [heads_ EXCEPT ![w] = @ + 1]
  /\ UNCHANGED <<owner_, registered, tails_, rings_, bucket, active, parser, retry,
                 routed, lateClear, wakeVars>>

(* Its loop: an empty ring sends it to sleep.                              *)
WorkerSleeps(w) ==
  /\ \/ ~Pending(w) /\ SetBlocked(w)
     \/ Drain(w, {v \in Workers : Pending(v)})
     \/ PollReturns(w)
     \/ Woken(w, {v \in Workers : Pending(v)})
     \/ PollTimesOut(w)
  /\ UNCHANGED <<owner_, registered, ringVars, bucket, active, parser, retry,
                 histVars>>

Worker(w) == WorkerPop(w) \/ WorkerSleeps(w)

Next == Parser \/ Retry \/ \E w \in Workers : Worker(w)

Spec == Init /\ [][Next]_vars

(* Every thread keeps running: the busy-waits spin and every poll of the   *)
(* retry thread and of a worker times out within a second.  The retry      *)
(* thread's own eventfd is never read, so it only ever polls for nothing.  *)
FairSpec == /\ Spec
            /\ WF_vars(Parser)
            /\ WF_vars(Retry)
            /\ \A w \in Workers : WF_vars(Worker(w))
-----------------------------------------------------------------------------
(* dispatcher.h: as long as active is never lowered over a backlog, every  *)
(* worker receives exactly the events routed to it, in dispatch order,     *)
(* none skipped, none twice, whether they went through the bucket or not.  *)
OrderedUnlessLateClear ==
  ~lateClear => \A w \in Workers : IsPrefix(delivered[w], routed[w])

InPush(th, w, labels, who) == th.pc \in labels /\ who = w

(* dispatcher.h, on thread roles: a ring has one writer at a time.  Under  *)
(* the same proviso the parser and the retry thread are never inside push  *)
(* of the same ring together.                                              *)
OneWriterUnlessLateClear ==
  ~lateClear => ~ \E w \in Workers :
     /\ InPush(parser, w, {"ring_check", "ring_write", "ring_publish"}, parser.owner)
     /\ InPush(retry, w, {"push_write", "push_publish", "pop"}, retry.i)

(* SPSCEventRing::push writes the eventfd unconditionally so that no       *)
(* worker has to wait for the time-out of its poll.  A worker sleeps over  *)
(* a non-empty ring with nothing to wake it only if its wake-up was        *)
(* swallowed: drained by itself on the way to poll, or read by another     *)
(* worker of the shared eventfd.                                           *)
WokenUnlessSwallowed ==
  \A w \in Workers :
    sleep[w] = "poll" /\ Pending(w) => wake_fd \/ w \in swallowed

(* Nothing is stuck: unless active was lowered over a backlog, every event *)
(* the parser routes is eventually processed by its worker, however full   *)
(* rings and buckets get and whoever swallows the wake-ups.                *)
AllDeliveredUnlessLateClear ==
  []<>(lateClear \/ \A w \in Workers : ToSet(routed[w]) \subseteq ToSet(delivered[w]))
=============================================================================
