------------------------------ MODULE Shutdown ------------------------------
(***************************************************************************)
(* main.cpp, the pipeline's threads from the last packets to the last      *)
(* join: the replay client (benchmark/main.cpp) sends and sets done, main  *)
(* waits until received has caught up with sent, sets stop, joins the      *)
(* receive and parser threads, sets parse_done, joins the retry thread,    *)
(* the workers and at last fill_th.  The queues between the threads are    *)
(* bounded FIFOs (EventRing and ByteRing look inside them) and the choice  *)
(* between ring and bucket is one step (Dispatcher does).  recv_th reads   *)
(* through IoUringReceiver.  Without the shared memory (--no-shm) the      *)
(* client does not wait and main stops when nothing was parsed for a while.*)
(***************************************************************************)
EXTENDS IoUringReceiver

CONSTANTS
  NWorkers,    \* nworkers
  MaxPackets,  \* bound: packets replayed, one message each
  ByteCap,     \* messages the byte ring holds
  RingCap,     \* events a worker's ring holds
  BucketCap    \* events a retry bucket holds

ASSUME ShutdownAssumption ==
  /\ NWorkers \in Nat \ {0} /\ MaxPackets \in Nat
  /\ ByteCap \in Nat \ {0} /\ RingCap \in Nat \ {0} /\ BucketCap \in Nat \ {0}

Workers == 0 .. NWorkers - 1
Packets == 1 .. MaxPackets
OwnerOf(p) == p % NWorkers     \* the dispatcher's worker for the packet's locate

VARIABLES
  shm,                         \* the flow-control handshake is used
  sent, received, done,        \* FlowControl
  net,                         \* packets in the kernel
  stop, parse_done, fill_stop,
  recv, pkt,                   \* recv_th: place, packet in hand
  bytes,                       \* the byte ring
  parse,                       \* parse_th: place
  ring, bucket, active,        \* per worker
  retry, worker, fill,         \* retry_th, workers, fill_th: place
  looked,                      \* retry_th: buckets found empty in a row by all_empty()
  main,                        \* the main thread's place
  processed,                   \* history: events processed
  deaf,                        \* history: recv_th left before it was stopped
  lateFeed,                    \* history: parse_th left before a packet was fed
  early                        \* history: retry_th or a worker left an event queued for it

flow    == <<shm, sent, received, done, net>>
flags   == <<stop, parse_done, fill_stop, fill>>
recvVars == <<recv, pkt>>
queues  == <<ring, bucket, active>>
retryVars == <<retry, looked>>
late    == <<deaf, lateFeed, early>>
vars == <<receiverVars, flow, flags, recvVars, bytes, parse, queues, retryVars, worker, main, processed, late>>

Init ==
  /\ ReceiverInit /\ shm \in BOOLEAN
  /\ sent = 0 /\ received = 0 /\ done = FALSE /\ net = <<>>
  /\ stop = FALSE /\ parse_done = FALSE /\ fill_stop = FALSE /\ fill = "run"
  /\ recv = "test" /\ pkt = 0 /\ bytes = <<>> /\ parse = "test"
  /\ ring = [w \in Workers |-> <<>>]
  /\ bucket = [w \in Workers |-> <<>>]
  /\ active = [w \in Workers |-> FALSE]
  /\ retry = "run" /\ looked = 0 /\ worker = [w \in Workers |-> "run"]
  /\ main = "wait_done" /\ processed = {}
  /\ deaf = FALSE /\ lateFeed = FALSE /\ early = FALSE
-----------------------------------------------------------------------------
(* The replay client: one packet, then wait until it has been received.    *)
ClientSend ==
  /\ ~done /\ sent < MaxPackets
  /\ shm => received >= sent
  /\ net' = Append(net, sent + 1)
  /\ sent' = sent + 1
  /\ UNCHANGED <<receiverVars, shm, received, done, flags, recvVars, bytes, parse, queues, retryVars, worker, main, processed, late>>

ClientDone ==
  /\ shm /\ ~done /\ sent = MaxPackets
  /\ done' = TRUE
  /\ UNCHANGED <<receiverVars, shm, sent, received, net, flags, recvVars, bytes, parse, queues, retryVars,
                 worker, main, processed, late>>
-----------------------------------------------------------------------------
(* recv_th: test stop, recv_batch, count the packet, feed the ring.        *)
RecvOnly == UNCHANGED <<shm, sent, done, net, flags, parse, queues, retryVars, worker, main,
                        processed, early>>

(* The loop's condition and recv_batch's first: running_ is lowered after  *)
(* stop is set, and either way the thread leaves.                          *)
RecvTest ==
  /\ recv = "test"
  /\ recv' = IF stop \/ ~running THEN "exit" ELSE "ready"
  /\ RecvOnly /\ UNCHANGED <<receiverVars, received, pkt, bytes, deaf, lateFeed>>

PktsOf(cs) == {cs[i].pkt : i \in DOMAIN cs}

(* recv_batch: a ready packet, or submit and wait for completions.         *)
RecvReady ==
  /\ recv = "ready"
  /\ IF ready = <<>> THEN recv' = "wait" /\ SubmitStaged
                     ELSE recv' = "take" /\ LoadReady("recv_th")
  /\ RecvOnly /\ UNCHANGED <<received, pkt, bytes, deaf, lateFeed>>

(* Completions or the time-out of 50 ms.                                   *)
RecvWake ==
  /\ recv = "wait"
  /\ IF cqes # <<>>
     THEN recv' = "reap" /\ LoadBoth("recv_th")
     ELSE recv' = (IF running THEN "ready" ELSE "exit") /\ UNCHANGED receiverVars
  /\ RecvOnly /\ UNCHANGED <<received, pkt, bytes, deaf, lateFeed>>

(* After an error recv_batch fails and the thread leaves, with nothing it  *)
(* waits on.                                                               *)
RecvReap ==
  /\ recv = "reap"
  /\ ReapMore
  /\ recv' = IF Failed \in PktsOf(cqes) THEN "exit" ELSE "ready"
  /\ deaf' = (deaf \/ (recv' = "exit" /\ ~stop))
  /\ RecvOnly /\ UNCHANGED <<received, pkt, bytes, lateFeed>>

(* A packet of no bytes, or none, ends the thread like an error.           *)
RecvTake ==
  /\ recv = "take"
  /\ \E c \in Slots("recv_th") :
       /\ TakeAndResubmit(c)
       /\ IF c.pkt = Empty
          THEN /\ recv' = "exit"
               /\ deaf' = (deaf \/ ~stop)
               /\ UNCHANGED <<received, pkt, lateFeed>>
          ELSE /\ pkt' = c.pkt
               /\ received' = received + 1
               /\ recv' = "feed"
               /\ lateFeed' = (lateFeed \/ parse = "exit")
               /\ UNCHANGED deaf
  /\ RecvOnly /\ UNCHANGED bytes

(* unpacker.feed(): spins while the ring is full.                          *)
RecvFeed ==
  /\ recv = "feed" /\ Len(bytes) < ByteCap
  /\ bytes' = Append(bytes, pkt)
  /\ recv' = "test"
  /\ RecvOnly /\ UNCHANGED <<receiverVars, received, pkt, deaf, lateFeed>>

Recv == RecvTest \/ RecvReady \/ RecvWake \/ RecvReap \/ RecvTake \/ RecvFeed

(* The kernel delivers the next packet; external.  What completes after    *)
(* recv_th has left is seen by no thread and left out.                     *)
Arrive ==
  /\ net # <<>> /\ recv # "exit"
  /\ KernelRecv(Head(net))
  /\ net' = Tail(net)
  /\ UNCHANGED <<faults, shm, sent, received, done, flags, recvVars, bytes, parse, queues, retryVars,
                 worker, main, processed, late>>

Fault ==
  /\ recv # "exit"
  /\ \E p \in {Empty, Failed} : KernelFault(p)
  /\ UNCHANGED <<flow, flags, recvVars, bytes, parse, queues, retryVars, worker, main, processed, late>>
-----------------------------------------------------------------------------
(* parse_th: parse_available() until stop, and once more after it.         *)
ParseTest ==
  /\ parse = "test"
  /\ parse' = IF stop THEN "drain" ELSE "parse"
  /\ UNCHANGED <<receiverVars, flow, flags, recvVars, bytes, queues, retryVars, worker, main, processed, late>>

(* Dispatcher::dispatch: the ring, or the bucket while it is active or the *)
(* ring is full; waits while the bucket is full.                           *)
Dispatch(p, w) ==
  \/ /\ ~active[w] /\ Len(ring[w]) < RingCap
     /\ ring' = [ring EXCEPT ![w] = Append(@, p)]
     /\ UNCHANGED <<bucket, active>>
  \/ /\ active[w] \/ Len(ring[w]) >= RingCap
     /\ Len(bucket[w]) < BucketCap
     /\ bucket' = [bucket EXCEPT ![w] = Append(@, p)]
     /\ active' = [active EXCEPT ![w] = TRUE]
     /\ UNCHANGED ring

ParseMessage ==
  /\ parse \in {"parse", "drain"} /\ bytes # <<>>
  /\ Dispatch(Head(bytes), OwnerOf(Head(bytes)))
  /\ bytes' = Tail(bytes)
  /\ UNCHANGED <<receiverVars, flow, flags, recvVars, parse, retryVars, worker, main, processed, late>>

(* Mutant of ParseEmpty: the thread leaves without the last drain.         *)
ParseEmpty_NoDrain ==
  /\ parse \in {"parse", "drain"} /\ (bytes = <<>> \/ parse = "drain")
  /\ parse' = IF parse = "drain" THEN "exit" ELSE "test"
  /\ lateFeed' = (lateFeed \/ (parse = "drain" /\ recv = "feed"))
  /\ UNCHANGED <<receiverVars, flow, flags, recvVars, bytes, queues, retryVars, worker, main, processed,
                 deaf, early>>

ParseEmpty ==
  /\ parse \in {"parse", "drain"} /\ bytes = <<>>
  /\ parse' = IF parse = "drain" THEN "exit" ELSE "test"
  /\ lateFeed' = (lateFeed \/ (parse = "drain" /\ recv = "feed"))
  /\ UNCHANGED <<receiverVars, flow, flags, recvVars, bytes, queues, retryVars, worker, main, processed,
                 deaf, early>>

Parse == ParseTest \/ ParseMessage \/ ParseEmpty
-----------------------------------------------------------------------------
(* retry_th: moves what fits from a bucket to its ring and lowers active   *)
(* when the bucket is empty.  Before it does, all_empty() looks at the     *)
(* buckets one by one, up to the first that is not empty.                  *)
RetryMove(w) ==
  /\ retry = "run" /\ bucket[w] # <<>> /\ Len(ring[w]) < RingCap
  /\ ring' = [ring EXCEPT ![w] = Append(@, Head(bucket[w]))]
  /\ bucket' = [bucket EXCEPT ![w] = Tail(@)]
  /\ active' = [active EXCEPT ![w] = Tail(bucket[w]) # <<>>]
  /\ looked' = 0
  /\ UNCHANGED <<receiverVars, flow, flags, recvVars, bytes, parse, retry, worker, main, processed, late>>

RetryLook ==
  /\ retry = "run" /\ looked < NWorkers /\ bucket[looked] = <<>>
  /\ looked' = looked + 1
  /\ UNCHANGED <<receiverVars, flow, flags, recvVars, bytes, parse, queues, retry, worker, main, processed, late>>

(* All were empty when it looked: only now it reads parse_done and leaves, *)
(* or waits at most a second.                                              *)
RetryAllEmpty ==
  /\ retry = "run" /\ looked = NWorkers
  /\ retry' = IF parse_done THEN "exit" ELSE "run"
  /\ looked' = 0
  /\ early' = (early \/ (retry' = "exit" /\ \E w \in Workers : bucket[w] # <<>>))
  /\ UNCHANGED <<receiverVars, flow, flags, recvVars, bytes, parse, queues, worker, main, processed,
                 deaf, lateFeed>>

Retry == (\E w \in Workers : RetryMove(w)) \/ RetryLook \/ RetryAllEmpty
-----------------------------------------------------------------------------
(* A worker: pops and processes.  When its ring is empty it reads          *)
(* parse_done and leaves, or waits for a push, at most a second.           *)
WorkerProcess(w) ==
  /\ worker[w] = "run" /\ ring[w] # <<>>
  /\ processed' = processed \cup {Head(ring[w])}
  /\ ring' = [ring EXCEPT ![w] = Tail(@)]
  /\ UNCHANGED <<receiverVars, flow, flags, recvVars, bytes, parse, bucket, active, retryVars, worker, main, late>>

WorkerEmpty(w) ==
  /\ worker[w] = "run" /\ ring[w] = <<>>
  /\ worker' = [worker EXCEPT ![w] = "empty"]
  /\ UNCHANGED <<receiverVars, flow, flags, recvVars, bytes, parse, queues, retryVars, main, processed, late>>

WorkerLeave(w) ==
  /\ worker[w] = "empty"
  /\ worker' = [worker EXCEPT ![w] = IF parse_done THEN "exit" ELSE "run"]
  /\ early' = (early \/ (parse_done /\ (ring[w] # <<>> \/ bucket[w] # <<>>)))
  /\ UNCHANGED <<receiverVars, flow, flags, recvVars, bytes, parse, queues, retryVars, main, processed,
                 deaf, lateFeed>>

Worker(w) == WorkerProcess(w) \/ WorkerEmpty(w) \/ WorkerLeave(w)

(* fill_th waits in recv, 50 ms at a time, until it is stopped             *)
(* (OrderConnection looks inside it).                                      *)
FillExit ==
  /\ fill = "run" /\ fill_stop
  /\ fill' = "exit"
  /\ UNCHANGED <<receiverVars, flow, stop, parse_done, fill_stop, recvVars, bytes, parse, queues, retryVars,
                 worker, main, processed, late>>
-----------------------------------------------------------------------------
(* The main thread, one step per wait, flag or join.                       *)
MainGo(from, to) == main = from /\ main' = to
MainOnly == UNCHANGED <<flow, recvVars, bytes, parse, queues, retryVars, worker, processed, late>>
MainWaits(from, to) == MainGo(from, to) /\ MainOnly /\ UNCHANGED <<flags, receiverVars>>

MainWaitDone == MainWaits("wait_done", "wait_received") /\ shm /\ done

MainWaitReceived == MainWaits("wait_received", "stop") /\ received >= sent

(* --no-shm: something was parsed, then nothing for idle_timeout_sec.      *)
Parsed == received - Len(bytes) - (IF recv = "feed" THEN 1 ELSE 0)
MainIdle == MainWaits("wait_done", "stop") /\ ~shm /\ Parsed > 0

MainStop == /\ MainGo("stop", "stop_receiver")
            /\ stop' = TRUE
            /\ MainOnly /\ UNCHANGED <<parse_done, fill_stop, fill, receiverVars>>

(* Mutant of MainStopReceiver: the blocking recv is not interrupted.       *)
MainStopReceiver_Forgotten == MainWaits("stop_receiver", "ready_empty")

(* receiver->stop(), call by call on the poller.                           *)
MainStopReceiver == /\ MainGo("stop_receiver", "free_single")
                    /\ StopReceiver
                    /\ MainOnly /\ UNCHANGED flags

MainFreeSingle == MainGo("free_single", "ready_empty") /\ FreeSingle /\ MainOnly /\ UNCHANGED flags

MainReadyEmpty == MainWaits("ready_empty", "join_recv") /\ ready = <<>>

MainReady == /\ MainGo("ready_empty", "take_ready") /\ ready # <<>>
             /\ LoadReady("main")
             /\ MainOnly /\ UNCHANGED flags

MainTake == /\ MainGo("take_ready", "free_buffer")
            /\ \E c \in Slots("main") : DrainTake(c)
            /\ MainOnly /\ UNCHANGED flags

MainFree == MainGo("free_buffer", "ready_empty") /\ DrainFree /\ MainOnly /\ UNCHANGED flags

MainJoinRecv == MainWaits("join_recv", "join_parse") /\ recv = "exit"

MainJoinParse == /\ MainGo("join_parse", "join_retry") /\ parse = "exit"
                 /\ parse_done' = TRUE
                 /\ MainOnly /\ UNCHANGED <<stop, fill_stop, fill, receiverVars>>

MainJoinRetry == MainWaits("join_retry", "join_workers") /\ retry = "exit"

MainJoinWorkers == /\ MainWaits("join_workers", "stop_fill")
                   /\ \A w \in Workers : worker[w] = "exit"

(* fill_stop is set and the connection closed under fill_th's recv.        *)
MainStopFill == /\ MainGo("stop_fill", "join_fill")
                /\ fill_stop' = TRUE
                /\ MainOnly /\ UNCHANGED <<stop, parse_done, fill, receiverVars>>

MainJoinFill == MainWaits("join_fill", "end") /\ fill = "exit"

Main == \/ MainWaitDone \/ MainWaitReceived \/ MainIdle \/ MainStop \/ MainStopReceiver
        \/ MainFreeSingle \/ MainReadyEmpty \/ MainReady \/ MainTake \/ MainFree
        \/ MainJoinRecv \/ MainJoinParse \/ MainJoinRetry \/ MainJoinWorkers
        \/ MainStopFill \/ MainJoinFill
-----------------------------------------------------------------------------
Next == \/ ClientSend \/ ClientDone
        \/ Arrive \/ Fault \/ Recv \/ Parse \/ Retry \/ (\E w \in Workers : Worker(w))
        \/ FillExit \/ Main

Spec == Init /\ [][Next]_vars

(* Every thread is scheduled; waits on a wake-up are bounded by timeouts.  *)
FairSpec ==
  /\ Spec
  /\ WF_vars(ClientSend \/ ClientDone) /\ WF_vars(Arrive) /\ WF_vars(Recv) /\ WF_vars(Parse)
  /\ WF_vars(Retry) /\ \A w \in Workers : WF_vars(Worker(w))
  /\ WF_vars(FillExit) /\ WF_vars(Main)
-----------------------------------------------------------------------------
(* Every packet counted is processed or still in a queue or in recv_th's   *)
(* hand, and none twice, as long as no two calls on the poller overlapped. *)
(* If besides no stage leaves while the one before it still holds          *)
(* something for it, the order of flags and joins lets every packet        *)
(* through to the end: with the handshake all that were sent.              *)
InHand == IF recv = "feed" THEN {pkt} ELSE {}
Waiting == Range(bytes) \cup InHand \cup UNION {Range(ring[w]) \cup Range(bucket[w]) : w \in Workers}

AllProcessedUnlessLate ==
  ~clashed =>
    /\ Cardinality(processed \cup Waiting) = received
    /\ main = "end" /\ ~deaf /\ ~lateFeed /\ ~early
         => Waiting = {} /\ (shm => processed = Packets)

(* If no stage leaves early the last join returns: nobody waits for a      *)
(* thread that waits in turn.                                              *)
EndsUnlessLate == <>(main = "end" \/ deaf \/ lateFeed \/ early)

=============================================================================
