# TLA+ models of NebulaX-Trader

NebulaX-Trader receives market data (ITCH messages in MoldUDP packets), keeps one order book per symbol,
lets strategies vote on every event, and sends orders (OUCH over TCP) to an exchange. It is a pipeline of
threads joined by lock-free queues. The modules in this directory model the parts of it whose correctness
depends on interleaving, on the order of messages or on long sequences of calls. TLC checks them on small
instances; every safety invariant the runs check is also proved with TLAPS, for every number of threads, slots,
orders and messages. Many properties hold only up to a step the code can take; section 2 lists those steps, and the
hazards in `PROJECT.json` say which of them no property covers for that reason.

Paths below are relative to the repository root. Definitions keep the names of the code (`free_head`, `active`,
`on_fill` → `OnFill`); `PROJECT.json` maps every definition to its lines.

## 1. The system

### Threads

| thread | started in `main.cpp` | what it does |
|---|---|---|
| `recv_th` | 452-476 | takes packets from the receiver back end, counts them in shared memory, unpacks MoldUDP, pushes framed messages into the byte ring |
| `parse_th` | 487-499 | takes messages from the byte ring, parses ITCH, dispatches each event by its stock locate |
| workers | 505-540 | one per core: pop the events of their ring, apply them to the book, run the strategies, submit orders |
| `retry_th` | 545-581 | moves events from the retry buckets back into the workers' rings |
| `fill_th` | 586-624 | reads the exchange's reports from TCP, frames and decodes them, calls the execution engine |
| main | rest | sets up, waits for the flow-control handshake, sets the stop flags and joins |

The replay client (`benchmark/main.cpp`) is another process; it shares one `FlowControl` page with main.

### Components, their state and operations

| component | state | operations | shared by |
|---|---|---|---|
| byte ring (`spsc_byte_ring.h`) | buffer, `head_`, `tail_` | push with header gap, `read_acquire`, `read_release` | recv_th, parse_th |
| event ring (`spsc_event_ring.h`) | slots, `head_`, `tail_`, eventfd | push, pop, peek, wait | parse_th / retry_th, one worker |
| dispatcher (`dispatcher.h`) | owner per locate, registration counters, `active` per bucket | register, dispatch, retry | parse_th, retry_th |
| order pool (`order_pool.h`) | tagged head, links, size | allocate, deallocate | all workers |
| order map (`order_map.h`) | chains, node stack, overflow map, bucket states | insert, find, erase, treeify | all workers |
| order book (`order_book.h`) | levels (open-addressing table), links of resting orders | add, delete, cancel, trade, execute, replace | one worker per book |
| strategies (`strategy/`) | order-flow window, last signals | on_event, arbitrate | one worker |
| order manager (`oms/`) | our orders, index of live ones | new, accept, reject, fill, cancel | workers and fill_th, under `mtx_` |
| risk manager (`risk/`) | positions, costs, marks, profit, high-water mark | check, on_fill, mark | as above; `mark` without the lock |
| execution engine (`execution/`) | the two managers, the book query's lock, flag and result | submit, cancel, reports, query, flatten | workers, fill_th |
| flow control (`flow_control.h`) | sent, received, done | the handshake of replay and main | two processes |
| io_uring receiver (`io_uring_receiver.cpp`, `io_uring_poller.h`) | registered buffers, ready queue, reads in flight | begin, receive a batch, stop | recv_th; main stops it |
| order connection (`io_uring_sender.cpp`, `ouch_order_codec.h`) | send ring, completions, references and tokens, fill_th's byte buffer | send, receive, frame, decode | workers under `mtx_`; fill_th |
| ITCH parser (`itch_parser.cpp`) | a message count | feed | parse_th |

Calls go downwards only; what comes back is the exchange's reports (fill_th) and the queues' free space
(the consumer's cursor, read by the producer).

### What is hard

1. Lock-free memory: ABA on the pool's stack, cursors read before and used after, chains walked while
   others unlink, free and reuse their nodes.
2. Two writers on a single-producer ring, kept apart only by a flag that is tested and cleared in two steps.
3. Framing across the end of a byte buffer, with a gap both sides must compute alike from values of the tail
   they load at different times.
4. Messages crossing on the wire: an execution meets a cancel, a late quote meets the next query, an order
   is risk-checked while earlier ones are on their way.
5. Unlocked reads of positions, costs and marks for the drawdown limits.
6. Stopping: six threads, four flags, a counter that is advanced before the work it counts is done.
7. Long sequences in the book: partial executions, then removal; tombstones, then growth.
8. A byte stream in both directions: messages copied into a ring, sent in pieces, their completions matched by
   position only; reports cut anywhere by TCP and put together again.
9. Sleeping and waking: one eventfd for all workers, drained before it is polled.

`PROJECT.json` lists each hazard at its line with the properties that would notice it.

## 2. The modules

| module | models | a step is |
|---|---|---|
| `SlotPool` | what the pool promises: a free slot, given to one owner | a call |
| `OrderPool` | `core/memory/order_pool.h` | one atomic access |
| `BoundedFifo` | what the event ring promises | a call |
| `EventRing` | `core/queue/spsc_event_ring.h`, push / pop / peek | one access; the copy of a slot is a step of its own |
| `WakeUps` | the workers' eventfd: `set_blocked`, `wait_for_data`, the write in `push` | one read, write or poll |
| `Dispatcher` | `core/dispatch/dispatcher.h`, retry thread and workers of `main.cpp`, over `WakeUps` | one access of a ring, bucket operation or flag access |
| `ByteRing` | `spsc_byte_ring.h`, `byte_ring_parser.h`, `MoldUdpUnpacker::feed` | one access of a cursor, or a copy |
| `OrderManager` | `oms/order_manager.h` | (functions on its state) |
| `RiskManager` | `risk/risk_manager.h` | (functions on its state) |
| `ExecutionEngine` | `execution/execution_engine.h` over both managers, the connection and the exchange | a call under `mtx_`, or a step of the exchange |
| `MarkToMarket` | `mark` and `on_fill` of the risk manager, concurrently, with the loop of `equity()` | one load or store |
| `OrderConnection` | `io_uring_sender.cpp`, the OUCH messages, the exchange's reading of them (`benchmark/main.cpp`), the framing loop of fill_th | a submission, a completion or a failure of it, a read, a message |
| `BookQuery` | `submit_market_as_limit`, `query_book`, `on_book_quote`, over `OrderConnection` | a critical section of `book_mu_`, or a step of a send |
| `LevelMap` | what the price table promises: a map with a best price | a call |
| `PriceLevelTable` | `OrderBook::PriceLevelTable` | a call |
| `ItchParser` | `market/parser/itch_parser.cpp`, `core/market_event.h` | (functions from a message to its event) |
| `OrderBook` | the event handlers of `order_book.h`, `order_book_consumer.cpp`, on the events of `ItchParser` | a message (a book has one thread) |
| `OrderMap` | `core/memory/order_map.h` | one shared access; the header lists the merged ones |
| `SignalPath` | `BookWorker::process`, OFI, OBI, `arbitrate.h`, the pacing and submission | an event up to the risk check, the submission, a report |
| `IoUringReceiver` | the batch path of `io_uring_receiver.cpp` and `io_uring_poller.h` | the loads of a call on the poller, its stores, or a completion |
| `Shutdown` | the stop sequence of `main.cpp`, `flow_control.h`, the sending loop of `benchmark/main.cpp`, over `IoUringReceiver` | one test, flag access or queue operation of a thread |

How they fit together: `OrderBook` uses the pool through the contract `SlotPool`, which `OrderPool` is shown
to implement, and the level table through `LevelMap`, which `PriceLevelTable` is shown to implement.
`Dispatcher` takes a retry bucket to be the bounded FIFO that `EventRing` implements, and opens up the worker
rings, which it needs because two threads write them. `Shutdown` uses rings, buckets and the byte ring as
bounded FIFOs. `ExecutionEngine` extends `OrderManager` and `RiskManager`; `MarkToMarket` extends
`RiskManager` and takes its unlocked calls apart. `Dispatcher` extends `WakeUps`, whose write is part of its `Publish`;
`BookQuery` extends `OrderConnection`; `Shutdown` extends `IoUringReceiver`; `OrderBook` extends `ItchParser` and handles exactly
the events that parser can emit. Every MC module only extends its component and gives the
constants values; every `…Proofs` module extends the components it is about and holds their theorems. Components that share a proof module
name their specifications apart (`PoolSpec`, `RingSpec`, `MarkSpec`, `MapSpec`, `TableSpec`, and `Spec` for the largest of each).

Conventions. A record such as `parser` or `retry` holds a thread's program counter and locals. Operators
named `X_Something` directly before `X` are plausible wrong versions of `X`; each property is known to fail
when one of them takes X's place. Variables that record history (`routed`, `delivered`, `sent`, `parsed`,
`processed`, `high`, `taken`, `told`, `heard`) are written only and guard nothing.

External parts. The exchange (in `ExecutionEngine` and `SignalPath`) is modelled from the
reports the engine handles: accept, reject, executions in parts, cancel confirmations, also late and for
orders already closed. In `OrderConnection` it is the one of `benchmark/main.cpp`, which accepts and executes every order at
once, and which for a book query either closes the connection, as that one does, or answers or stays silent, as a
matching engine would. The kernel posts the completion of a submitted read or send in order, may write less than it was
given, may post a notification for a zero-copy send at any later time, and may fail a read, a send, its submission or the wait for it, also
while the peer is up. The submission queue of the sender is full once one submission has failed; in the code it takes 256.

A byte of the connection is a message and a position in it; a message is as many bytes as its length says, with the
lengths scaled down (3 for 'Q', 4 for 'O', 2 and 3 for the reports) against a ring of 8. What the checksum is for is
modelled as "all bytes are those of one message": a frame put together from two messages whose bytes happen to add up is
taken to be refused.

`ExecutionEngine` takes a failed send to be one that did not reach the exchange. `RejectedIsUnsentUnlessLeft` says when `OrderConnection`
keeps that promise: not after bytes were left in the ring and not after a mistaken completion.

### Provisos

Several properties are stated "unless X happened", where X is a step the code can really take and after
which the property is false. X is a flag of the model raised in exactly that step, so that the property
says that *this step is the only way* to go wrong. Where the flag is the hazard itself, the property says nothing of that
hazard, and `PROJECT.json` does not count it as covered. Dropping the flag from the property makes TLC print the trace. They are:

| flag | module | raised when |
|---|---|---|
| `lateClear` | Dispatcher | the retry thread lowers `active` over a backlog the parser added after the emptiness test |
| `skewed` | ByteRing | the parser skips to the next lap although the bytes before it are no gap: the tail moved between its two loads |
| `fillIgnored` | ExecutionEngine | an execution arrives for an order in PENDING_CANCEL and is dropped |
| `overlap` | ExecutionEngine | an order passes the risk check while another of its symbol is unanswered |
| `torn` / `raced` | MarkToMarket | a thread stores a sum of which something had changed before its loop was done, or whose loop ended inside a fill / a thread stores its peak over a higher one |
| `lateFeed` / `early` | Shutdown | the parser leaves with a packet still to be fed / a worker or the retry thread leaves, on an emptiness it tested before it read `parse_done`, with an event in its ring or a bucket |
| `clashed` | IoUringReceiver | a call on the poller stores what it computed from fields the other thread has changed since, or takes from an empty queue |
| `deaf` | Shutdown | recv_th leaves before it was told to, after a failed read or an empty datagram |
| `swallowed` | WakeUps | a worker's read takes the wake-up of a worker that is about to poll, or polls, over a non-empty ring; lowered when that worker wakes |
| `gapped` | OrderConnection | push skips the end of the send ring, whose bytes are then sent |
| `stale` | OrderConnection | a send takes a completion that is not its own: the notification of an earlier one, or the result of one that failed before |
| `kept` | OrderConnection | `send_zc_all` returns -1 without releasing its bytes (`io_uring_sender.cpp` 138, 148, 161) |
| `torn` | OrderConnection | a send fails after a part of its message has gone out, on a connection that stays up |
| `drained` | OrderConnection | fill_th's first, non-blocking read finds bytes and throws them away |
| `miscount` | OrderBook | an order that was reduced before is unlinked, and its original shares are subtracted again; or a level's 32-bit fields wrap, because more shares or orders rest on it than they can count |
| `unanswered` | BookQuery | a query gave up and its answer may still come; `stale` and `LeftBehind` (`kept`, or a failed send together with a gap) are provisos here as well: a query fails although its 'Q' is, or will be, on its way |
| `strayed` | OrderMap | a walk follows a link of a node that was freed, or publishes such a link, or writes to a chain that is being converted |
| `disturbed` | SignalPath | an order was refused or not sent, went to locate 0, or was submitted with another one in flight |

## 3. The runs

All runs are exhaustive. Bounds are constants of the modules, named in their declarations.

| run | bounds | distinct states |
|---|---|---|
| `order_pool` | 2 threads, 3 slots, 7 successful CASes | 158,536 |
| `event_ring` | capacity 4, 2 events, 10 pushes | 13,867 |
| `dispatch` | 2 workers, 2 locates, rings of 1, buckets of 1, 4 events | 493,227 |
| `byte_ring` | 8 bytes, headers of 2, bodies of 1-2, 7 messages | 161,707 |
| `engine` | 1 symbol, 2 orders, quantities 1-2, 2 marks | 219,729 |
| `mark_to_market` | 2 workers and fill_th, 2 symbols, 2 prices, 2 marks, 2 fills | @mark_to_market@ |
| `shutdown` | 2 workers, 3 packets, queues of 1, 2 buffers, 1 fault, both modes | @shutdown@ |
| `level_table` | 4 prices, initial capacity 2 (grows twice) | 10,354 |
| `order_book` | 3 slots, 3 references, 2 prices (one not a whole cent), 3 adds, level fields that count to 4 | @order_book@ |
| `book_query` | 2 calls, 2 symbols, a ring of 8 bytes, 7 submissions, 1 short write, 1 notification, 1 failed send while the peer is up | @book_query@ |
| `order_map` | 2 threads, 4 keys in 2 buckets, 3 nodes, threshold 3, 3 calls each | 575,446 |
| `signal_path` | 2 symbols, window 2, 4 events | 45,162 |

What they show, and why the bounds suffice:

**order_pool.** `ExclusiveSlots` (no slot has two owners, none is owned and free), `FreeListIntact` (the links
in memory spell the free slots, each once) and `ImplementsSlotPool`. With three slots and seven CASes a slot is taken,
its successor taken, and the first given back under a pending CAS: the ABA case. Without the tag
(a mutant) it is found at once. The theorems below remove the bounds.

**event_ring.** `NoTornSlot`: the slot the consumer reads is never the one being written. `PopTakesPeeked`:
the retry thread pushes what it peeked and pops later; the pop takes the same event whatever was pushed
meanwhile. `ImplementsFifo`. Ten pushes go round the ring twice with all fill levels.

**dispatch.** `OrderedUnlessLateClear`: each worker gets its events in dispatch order. `OneWriterUnlessLateClear`: parser and
retry thread are never both inside a push into the same ring. `WokenUnlessSwallowed`: a worker that polls over events has a
wake-up waiting in the eventfd, unless it is among the workers whose wake-up a worker has read away: a push that forgot to
write, or a poll that could miss a write, would break it. `AllDeliveredUnlessLateClear` (liveness): every
dispatched event reaches its worker, although parser, retry thread and worker may all wait for each other's
space, and although wake-ups are lost: the time-out of the poll is what it rests on then. Rings and buckets of one make every wait
occur with four events, and both provisos are reached.

**byte_ring.** `UnreadIntact`: push never overwrites a byte that was not released, wrapped or not, even during the
copy. `ParsedInOrderUnlessSkewed`, `AllParsedUnlessSkewed` (liveness): each message comes out whole, once, in
order, and eventually. The ring has to be at least twice the longest message (`ByteRingAssumption`), which the code's is by far. In 8 bytes with
headers of 2, messages of 3 and 4 bytes meet every offset, every gap and every straddle within two laps.

**engine.** Reports and requests cross freely. `IndexIsLive`: the index of open orders is exact.
`TerminalIsFinalAtExchange`: an order the manager calls CANCELLED or REJECTED is neither open at the exchange nor on its way there
(`WrittenOffIsClosed`), one it calls FILLED was filled completely, and nothing is booked that was not executed.
`BooksAgreeUnlessIgnored`: the position is the sum of the fills the order manager booked.
`LimitsHoldUnlessOverlap`: what the exchange executed stays between 0 and the limit. `PendingIsInFlight`: an unanswered order is
really still on the way. `StatusArrows` (action property): statuses move along the arrows of the life cycle only. Two orders suffice to be each other's race.

**mark_to_market.** `equity()` loads the profit and then, locate by locate, position, mark and cost; others store in between.
`PeakWasRealUnlessTorn`: the high-water mark the drawdown limits use is not above every equity the account really had, unless something a
thread had read was changed before its loop ended; stores ahead of the loop do no harm. `PeakCoversUnlessRaced`: it is not below the
equity when all calls have returned, whatever was read in between. Two symbols are needed for a sum mixed from the marks of two moments, and occur.

**shutdown.** `AllProcessedUnlessLate`: every packet that was counted is processed, in a queue or in recv_th's hand, and once; and when main
ends, none is left, and with the handshake every packet sent was processed. `EndsUnlessLate` (liveness): every join returns.
`BuffersConservedUnlessClashed`: each of the receiver's buffers is in exactly one of seven places - free, kept, prepared, in flight, completed, ready
or in main's hand - and once in it. A worker's emptiness test and its reading of `parse_done` are two steps, as are those of the retry thread, which
looks at one bucket after the other; `stop()` is `ready_empty`, `take_ready` and `free_buffer`, each of which loads the poller's plain fields and stores
them later, over whatever recv_th has done to them. Where two calls overlap in this way a buffer can be taken twice or come round again, and `clashed`
is raised; a length test that has become wrong (`UINT32_MAX` taken and freed) raises it as well. Three packets fill the byte ring, a ring and a bucket, or two of the rings; two buffers are the single one and one
read in flight.

**level_table.** `ImplementsMap`: with tombstones, reuse, growth and the cached best price the table is a map whose best price
is its extreme key. Three of the four prices collide in a table of two, two in every larger one, and their probes wrap round to the slot of the fourth.
Bound: the table grows no larger than the range of the hash, 16 here and 2^64 in the code.

**order_book.** The inputs are ITCH messages of every type, also truncated and unknown ones; the parser decides which events they become,
with which side and price. Pool and index can each have no room, independently, in the middle of a replace too. `IndexMatchesPool`: the slots in use
are those the index holds and those whose insert it dropped, and nothing else leaks or is freed early. `LinksStayLive`: the links of a level lead to the live orders of that price and side, forwards
and back. `LevelsExactUnlessMiscounted`: shares and counts of a level are the sums over its orders. The level
fields of the instance are so narrow that three orders of two shares do not fit, so the wrap occurs.

**book_query.** `StreamIntactUnlessTorn`: the exchange reads what was sent, whole, once and in order, in however many pieces
it was submitted and whichever sends failed as a whole. `DrainedUnlessSlipped`: between two sends the ring is empty, whatever was written short or
failed, so that each send starts with its own first byte. `RejectedIsUnsentUnlessLeft`: an order marked rejected because its send failed is never read by the
exchange, even if half of it went out. `ReportsArriveUnlessDrained`: fill_th hands every report to the engine, in order and for its own order,
wherever TCP cuts the stream. `QuoteIsOwnUnlessLate`: an order is priced from the answer to its own query, until a query timed out or one that failed may
still be answered. `EveryCallReturnsUnlessFull` (liveness): with nothing assumed of the exchange or of fill_th; it leaves out a send that takes
another's completion, and one that spins for room in a ring where earlier ones left bytes behind.
A send can fail in five ways: no entry in the submission queue, `io_uring_submit`, the wait, an error completion (also while the peer is up and after a part has
gone out), and a notification taken for the result; the first three leave their bytes in the ring, to go out in place of the next send's.
Two calls send up to four messages of 3 and 4 bytes through a ring of 8: every
kind of placement (in a row, straddling, skipping) occurs, and one short write, one notification and one failure meet each of them. A 'Q' left behind by a failed
send makes the fourth send find no room and spin. A ring that fills up by gaps alone takes more laps than the run has: `EveryCallReturnsUnlessFull` names
`gapped` for it, but only `kept` leads to it here.

**order_map.** `FindIsExactUnlessStrayed`: a worker's find returns what its own inserts and erases imply, whatever
other workers do to the same chain. `NodesAccountedUnlessStrayed`: each node is free, in one chain or in one
worker's hands. Three nodes for four keys make reuse inevitable.

**signal_path.** `WindowIsRecent`: the running sum is that of the last `kWindow` events. `BurstBounded`: the pacing bounds the
orders sent on one side without a change. `CanOrderUnlessDisturbed`: the worker never comes to a state where
both directions are blocked for every possible strength.

### Fairness

Only four runs assume any. `dispatch`, `byte_ring` and `shutdown` assume weak fairness of each thread: threads
have cores of their own, busy-waits spin, and every `poll` or `wait_for` in the loops concerned has a
time-out (200 ms in the parser, one second in the retry thread and the workers, 50 ms in the two receive loops), so a lost wake-up
delays and never stops a thread. In `dispatch` the worker's time-out is an action of its own (`PollTimesOut`). In `shutdown` a packet in the kernel reaches a read that is in
flight (`Arrive`; the socket buffer of 4 MB is taken not to overflow under the handshake). `book_query` assumes strong fairness of
each caller: its wait is a `wait_for`, a send that was submitted completes, and a mutex (`query_mtx_`, `mtx_`) that is released again and again
is not withheld from a waiter for ever; a caller contends with a bounded number of others. Nothing is assumed of the exchange or of fill_th.

### Deadlock

Deadlock is checked where the system should never stop and the bounds do not stop it. `CHECK_DEADLOCK FALSE`
stands where a behaviour ends because all bounded calls were made (engine, mark_to_market, book_query,
order_map, signal_path) or because main has joined everyone (shutdown).

## 4. The proofs

Eight modules hold the theorems; `tlapm` checks every obligation of them: `CoreProofs` (@CoreProofs@), `CircularProofs` (@CircularProofs@; the byte ring and the table of price levels),
`ExecutionEngineProofs` (@ExecutionEngineProofs@), `OrderBookProofs` (@OrderBookProofs@; the order map as well), `SignalPathProofs` (@SignalPathProofs@),
`BookQueryProofs` (@BookQueryProofs@), `RuntimeProofs` (@RuntimeProofs@; `MarkToMarket`, `IoUringReceiver` and `Shutdown`) and `SumLemmas` (@SumLemmas@; no component, what the
others need of sums).
Each theorem is about the specification the run checks, for every value of its constants that satisfies the ASSUME of its module;
nothing else is assumed. Every inductive invariant was first checked by TLC on the instance of the run. The
theorems and the properties of the runs they state:

| module | theorem | property of a run |
|---|---|---|
| `CoreProofs` | `SlotsAreExclusive`, `ListStaysIntact`, `PoolRefinement` | `ExclusiveSlots`, `FreeListIntact`, `ImplementsSlotPool` |
| | `SlotNeverTorn`, `PeekThenPop`, `RingRefinement` | `NoTornSlot`, `PopTakesPeeked`, `ImplementsFifo` |
| | `WakeUpsNotLost`, `OneRingWriter`, `DispatchOrderKept` | `WokenUnlessSwallowed`, `OneWriterUnlessLateClear`, `OrderedUnlessLateClear` |
| `CircularProofs` | `UnreadStaysIntact`, `ParsedInOrder` | `UnreadIntact`, `ParsedInOrderUnlessSkewed` |
| | `TableRefinement` | `ImplementsMap` |
| `ExecutionEngineProofs` | `OpenOrdersExact`, `PendingIsUndecided`, `TerminalIsFinal`, `StatusFollowsArrows` | `IndexIsLive`, `PendingIsInFlight`, `TerminalIsFinalAtExchange`, `StatusArrows` |
| | `LimitsHold`, `BooksAgree` | `LimitsHoldUnlessOverlap`, `BooksAgreeUnlessIgnored` |
| `OrderBookProofs` | `PoolHoldsTheIndexed`, `NoLinkIsStale`, `LevelsAreExact` | `IndexMatchesPool`, `LinksStayLive`, `LevelsExactUnlessMiscounted` |
| | `FindIsExactThere`, `NodesAreAccounted` | `FindIsExactUnlessStrayed`, `NodesAccountedUnlessStrayed` |
| `SignalPathProofs` | `BurstsAreBounded`, `NeverLockedOut`, `WindowIsExact` | `BurstBounded`, `CanOrderUnlessDisturbed`, `WindowIsRecent` |
| `BookQueryProofs` | `StreamStaysIntact`, `SendsDrain`, `ReportsArrive`, `RejectedStaysUnsent`, `QuoteIsOwn` | `StreamIntactUnlessTorn`, `DrainedUnlessSlipped`, `ReportsArriveUnlessDrained`, `RejectedIsUnsentUnlessLeft`, `QuoteIsOwnUnlessLate` |
| `RuntimeProofs` | `PeakWasReal`, `PeakCovers` | `PeakWasRealUnlessTorn`, `PeakCoversUnlessRaced` |
| | `BuffersAreConserved`, `EveryPacketProcessed` | `BuffersConservedUnlessClashed`, `AllProcessedUnlessLate` |

**Sums and folds.** Net positions, level totals, the window and the equity are sums over sets that grow with the run. `SumLemmas` shows, for `SumFunctionOnSet`
of the community modules, that the recursion in its definition has a solution (otherwise the CHOOSE behind it would mean nothing) and that the sum does not
depend on the order, which gives what the proofs use: the sum with one element more, one less, or one changed. The induction it takes is over a *set* of
numbers or of subsets (`SetInduction`, `SubsetInduction`: a set without a least counterexample is everything), since the induction theorems of the library take an operator, which the
provers here cannot instantiate. The same device proves the walks of the order map and the selection of completions (`Good`), which are recursive functions.

**OrderPool**, for every set of threads, every capacity and every bound on the tag. The invariant that is
inductive is

    PoolInv == PoolTypeOK /\ ExclusiveSlots /\ FreeListIntact /\ LocalsCurrent

`ExclusiveSlots` alone is not: it is a CAS that keeps slots apart, and a CAS that succeeds proves
something only through what the thread read before. `LocalsCurrent` states it: while a thread's copy of the head
equals the head *including the tag*, the link it read is the link in memory, and a slot on its way back belongs to
that thread alone. `FreeListIntact` is needed to know what the new head means. The order of the free slots is kept in history variables (`chain`, `depth`) rather than as a recursive function of memory, so no
induction over the list is required.
`PoolRefinement` shows that `OrderPool` implements
`SlotPool`: a successful CAS is the abstract operation, every other access a stutter. Assumed:
`PoolAssumption` (capacity at least 1) only. That tags never repeat comes from the bound `MaxTag`, for every value; the
32-bit wrap of the code is discussed below.

**EventRing**, for every capacity and every set of events. `RingInv` strengthens `RingTypeOK` (in which the cursors are at most
`Capacity` apart) by what the tests of the two sides established and the other side cannot undo: a producer that passed the
full test still has room, and before it publishes, the slot at the tail holds its event; a consumer that passed the empty test
still has an event, and before it advances, its copy is the slot at the head; so is an event peeked and not yet popped. This is the
precise sense in which a stale cursor errs on the safe side. That two cursors less than `Capacity` apart fall on different slots is a
lemma on `%` (`IndexDistinct`). `RingRefinement`: publishing the tail is the enqueue of `BoundedFifo`, advancing the head the dequeue,
every other step a stutter.

**Dispatcher**, for every number of workers, locates and events and every size of rings and buckets. `WakeUpsNotLost` rests on where each worker is
between its emptiness test, the read of the descriptor and the poll. The order needs `DispatchInv`: types, `BucketAnnounced` (a bucket
that holds events has `active` raised, which is what sends the parser there) and `EventsInPlace`, which says where the k-th event routed to a
worker is: delivered, at its place in the ring, behind that in the bucket, or in the parser's hand, last of all.
All of it holds while `lateClear` is not raised, and the proof shows that the one step that breaks it is the one raising it.

**ByteRing**, for every capacity and all message lengths that fit twice. `RingInv`: the messages pushed form a chain in which each starts
where push computes it from the end of the one before (`Chain`); the cursors stand at such points (`Cursors`); what the writer and the parser hold in
locals is still true (`WriterOK`, `ParserOK`); every byte not yet released is in the buffer (`UnreadIntact`); and unless `skewed` the parser
is at the message the number of parsed ones says (`InStep`). The arithmetic of positions, laps and the gap is in lemmas of its own (`PosSplit`, `PosIs`,
`PosShift`, `NextLapIs`).

**ExecutionEngine**, for every set of symbols, quantities and limits and any number of orders. `EngineInv`: the index is exactly the live orders (`BookOK`); commands and reports
on the way are about known orders (`StreamsOK`); an order on its way to the exchange is PENDING here, unknown there, and nothing else about it is on the way (`Undecided`);
a PENDING order is on its way, or its answer is (`Awaited`); the exchange is done with an order before it says so (`Answered`). `WrittenOffCannotTrade` follows: an order
that is CANCELLED or REJECTED here is not open at the exchange, nor on its way there; `TerminalIsFinal` contains it. For FILLED orders `TradesOK` is needed: what is left at the exchange and what it executed make up the quantity (`Divided`), and what was
booked plus the executions on the way is at most what was executed (`Trail`); the sum over the reports is an existentially quantified
running total, so that no induction over the stream is needed.

The ledgers need both in sums. `LedgerInv` adds: after the report that closes an order no execution of it follows on the wire, and an order in a terminal status has none there
(`QuietOK`); unless one was ignored, what the manager booked plus the executions on the wire is exactly what the exchange executed (`BookedOK`, with `Wire` the running total);
and, without overlap, a symbol has one live order at most (`PositionsOK`): with none the position is the net of everything executed, with one it is a base within
the limits plus what was delivered of that order, and the base plus *all* of that order is within the limits too (`Held`). That is what `check_order` established when it was sent, and what an execution,
however late, cannot leave. `LimitsHold` follows at once; `BooksAgree` compares the two running totals.

**OrderBook**, for every set of references, prices and slots. `BookInv`: used slots have a side and a price in range (`Placed`), every link between two
orders is answered by the opposite one inside the same level (`Linked`), the head of a level is a live order of that level with nothing before it (`Headed`), and the slots
in use are those the index holds and the orphans (`Indexed`). Without `Headed` removal is not inductive: unlinking an order without a predecessor replaces the head of its level, and freeing it must
leave no other level pointing to it. There is one lemma per operation of the book, about any book, so that replace (remove, then add) is their composition. `LevelInv` adds, while not `miscount`,
that a level exists exactly where orders rest and that its two fields are the sums over them (`Exact`). Unlinking subtracts the order's *original* shares, so it keeps this only for an
order that was never reduced; and a sum is kept only while it fits its field. Both exceptions are steps that raise the flag. The second was found by the proof: the flag was
first raised by the first alone, which is all an instance with wide enough fields can show.

**PriceLevelTable**, for every hash, every finite set of prices and every initial size, up to a table as large as the range of the hash. `TableOK` says what makes probing work: no price is
in two slots (`Once`), and for each price in the table a search passes no unused slot on its way to it (`Reached`; tombstones it may pass). That is why erasing leaves a tombstone and not an unused slot,
and why an insertion may reuse the first tombstone the search passed only after the search has ended without finding the price. A search visits every slot once (`SearchVisits`, the arithmetic of
the modulus), so in a table with an unused slot it ends; growing counts the slots in use (`GrownTo`), so a table of twice the size has one. `grow` is a recursive function, and its definition is shown to have a solution
(`GrowingExists`). `TableInv` adds that `best_` is the extreme of the prices, so that `rescan_best` is needed only when the best one is erased (`ExtremeDrop`). `TableRefinement`: a call of `operator[]`,
growing or not, is one access of the map `LevelMap`, an erasure one erasure. Assumed: `TableAssumption` (prices are positive, the initial table is within the range of the hash).

**OrderMap**, for every number of threads, keys, buckets and nodes, every threshold and every interleaving in which no walk strays. The specification has links only, so the invariant `MapInv` says that
while not `strayed` there are sets `C[b]` (the nodes of a chain) and a rank for every node, such that the links of a chain lead to the node of the next
higher rank and end behind the highest (`Chains`). A node put in front gets a rank below all others; a node that is removed leaves the other ranks as they are, so that what a walk knows
("the key's node is here or behind", `AtOrBehind`, `Behind`) stays true while others insert and erase around it. `CallOK` is this knowledge at each place of each call; `KeyOK` relates chain, overflow map and bucket
state to what the owner stored, also while a bucket is being converted and an insert or erase is half done (`Due`). Every node is on the stack, in one chain or in one hand (`Accounted`).
`NodesAreAccounted` then needs that a walk of `Capacity` steps reaches the whole chain: its ranks rise, so it repeats no node, and by the pigeonhole it has ended.

**SignalPath**, for every set of symbols, window and threshold. `PacingInv` gives `BurstsAreBounded`: each order of a burst is at least a threshold
stronger than the last, so their number is bounded by the range of strengths; it needs that the vote is a weighted mean (`DecideType`). `SignalInv` adds what holds while the
worker is undisturbed: a symbol has one order in flight at most (`OnePerSymbol`), which the limits admit (`WithinLimits`), and after a BUY some symbol has a position or a BUY under way, after a SELL
room or a SELL under way (`WayOut`), so the other direction is open (`NeverLockedOut`). `WindowInv` relates the circular array to the events: the last of
them, at most `kWindow`, are at the places counted back from the write index modulo `kWindow`, and their sum is the running one; the entry that is overwritten is therefore the one that is subtracted.

**BookQuery and OrderConnection**, for every number of calls, every capacity and all message lengths `ConnectionAssumption` admits, with any short writes, failures and
notifications. Three invariants, each resting on the one before:

- `ConnInv`: the locals of a send are still true of the ring; the completion queue holds a send's own completion at most once and otherwise, while neither
  `stale` nor `kept`, notifications (`CompletionsOK`); while the ring has not slipped, it holds the rest of the send under way and nothing else (`RingOK`), which gives `SendsDrain`; while besides
  no send was torn, the bytes received and the bytes unread spell the messages pushed, those dropped whole excepted (`StreamOK`), and while not `drained`, the bytes of the reports do so on the way back
  (`ReportsOK`). That bytes spell messages is `Encodes`, with the offset of each message existentially quantified, so no induction over the stream is needed; positions
  modulo the capacity are handled by lemmas of their own (`Congruent`, `Gap`).
- `SendsInv`: every byte in flight belongs to a message that some call began (`OnlyReal`), and while no completion was mistaken and nothing was left behind, until the last piece of a send is on the wire, the last byte of its
  message stays just before the tail, and a message whose send failed has its last byte nowhere on the wire and is not among those read (`LastKept`, `Lost`). No later step brings it back (`LostStep`), since every later
  message is a different one: `RejectedStaysUnsent`, after a torn send too.
- `QueryInv`: the first byte of a 'Q' never lies in a gap push leaves, so it is sent once and read once (`ReadOnce`), even after a gap was sent; the holder of `query_mtx_` is the only call that asks
  (`OneQuery`); and while also no query gave up, only the waiting query is answered, once, and a query that failed is never read (`AnswersOK`, `Forgone`): `QuoteIsOwn`. A failure alone and a gap alone leave this true; together
  they do not, because the end of a failed 'Q' can then stay in the ring, which is why `LeftBehind` names the pair.

**MarkToMarket**, for every number of locates, workers, prices and quantities. `MarkInv`: unless `torn`, the peak is at most the highest equity the account had, and so is every sum a thread holds that is not mixed; inside the loop
such a sum is that of the locates it has passed, as they are now (`Current`), so that the last load completes the equity of that moment (`CarriedIsReal`). Unless `raced`, the peak covers the equity, or a fill is between its stores, or some
thread is about to read an equity, or has read one of which no later store has raised a part it has passed, or will store one that covers it (`SomeoneLooks`).

**IoUringReceiver and Shutdown**, for every number of workers, packets and faults and every size of the queues. `BuffersInv`: each buffer is in exactly one of seven places and at one position there,
and no place holds anything else; while no two calls overlapped, what a call loaded is what it finds when it stores, so every step of recv_th, of the kernel and of main's stop moves buffers between two of them.
`BuffersAreConserved` follows. `ShutInv`: packets rise in number on their way from the network to the ready queue (`OnTheWay`), so those counted are exactly the first `received`, each once (`CountedOnce`): taking a packet
adds it, every step behind that only moves it between recv_th's hand, byte ring, rings, buckets and the processed. A thread that left, left nothing behind for the next unless a late flag was raised (`BehindExits`).
With the handshake main stops only when `received` reached `sent` after the replay was done (`Handshake`). At the end the counted are the processed.

Only model-checked:

- everything temporal under fairness (`AllDeliveredUnlessLateClear`, `AllParsedUnlessSkewed`, `EndsUnlessLate`, `EveryCallReturnsUnlessFull`), which the prover does not handle.

## 5. Where code and comments disagree

Met while modelling; each is behaviour of the model and the reason for a proviso, or left out of the properties.

- `core/dispatch/dispatcher.h:23` says `active` is cleared only when the bucket is empty, "无乱序窗口". `main.cpp:577-578`
  tests and then stores; an event the parser puts into the bucket in between is overtaken by the next one, and parser and retry
  thread may then push into one ring together (`main.cpp:571`). `tests/unit/test_retry_flow.cpp:4` claims "零丢…保序".
- `byte_ring_parser.h:107-121` loads the tail twice. If it moves in between, bytes of a header are taken for a gap;
  `tests/integration/test_byte_ring_pipeline.cpp:5` states that nothing is lost.
- `risk_manager.h:130` ("禁止裸卖空, position 恒 ≥0") holds only if no two orders of a symbol are under way: line 60 checks
  the booked position.
- `execution_engine.h:120` expects fills to be booked until a cancel is confirmed; `order_manager.h:72-73` ignores them in
  PENDING_CANCEL.
- `risk_manager.h:145` calls the drawdown pause a latch; line 147 recomputes it, so it ends when the mark recovers.
- `risk_manager.h:70` describes cost and profit at the fill price; line 85 uses the order's price, which is 0 for the market
  orders of `main.cpp:188`.
- `risk_manager.h:22, 28-29` call the fields safe to read from the workers; a mark between the two stores of a fill reads a mixed
  equity (line 130), and two updates of the peak can lose the higher one (157-162).
- `main.cpp:486` reasons that everything received is in the ring; lines 461-462 count a packet before it is fed.
  `main.cpp:706` reasons that the retry thread has emptied its buckets before the workers leave; lines 519-529 let them leave earlier, and a worker that finds its ring empty (520) and then `parse_done` raised (521) leaves
  without looking at the ring again; so does the retry thread (562-563).
- `order_book.h:167` promises that a level's shares are the sum of its orders; line 339 subtracts an order's shares again after a
  partial execution or cancel did. `order_book.h:350` with 332: a level just erased is recreated with count −1.
- `order_flow_imbalance_strategy.h:17` and `market_event.h:46` say that every event carries its side; `main.cpp:208, 221-229` look it
  up after the order is gone, and `itch_parser.cpp:104` leaves a replacement's side at BUY.
- `execution_engine.h:181` says a late quote is discarded; 191-198 accept it for the next query of the same symbol.
- `order_map.h:16-19`, `docs/ORDER_MAP_CONCURRENCY.md` and `tests/unit/test_concurrent_order_map.cpp:56-60` describe concurrent use as
  safe for keys of different owners. A walk that passes a node freed and reused meanwhile continues in another chain or ends early; two
  adjacent erases leave one node linked; `order_map.h:263` ("转化中无新链插入") does not hold for a CAS prepared before;
  the state 1 is set before the lock is taken (line 118); the emptiness test of line 73 compares the tagged word, so an exhausted
  node pool drops an order (line 82), which then stays in the pool and in its level for good.
- `main.cpp:117-118` wants all strategies to agree ("全部策略信号同向(非 NONE)才下单"); `arbitrate.h` takes a weighted vote in which one suffices.
  `main.cpp:113` ("方向翻转 → 必下") fails after an order that was rejected or not sent: 189-193 remember it all the same,
  and after a strong BUY that was never executed with position 0 neither direction is allowed any more.
- `main.cpp:366-367` says that a push wakes all blocked workers and that the shared eventfd removes the race of the registration
  ("消除每队列独立 fd + blocked_ 登记的时序竞态"); `spsc_event_ring.h:100` drains the descriptor after the emptiness test, so a push in between
  is swallowed, as is the fallback write of `set_blocked` (79-81); and a read takes the whole count, also the part meant for
  another worker (line 104). The worker then sleeps out its second.
- `io_uring_sender.cpp:109-110` takes care only of long messages; the ring is the one of the market data, which skips its last bytes when a
  header does not fit (`spsc_byte_ring.h:90-92`), while `send_zc_all` (125-179) sends on from the head: the skipped bytes go out and
  as many bytes of the message stay behind. With the 1 MB of `main.cpp:436` (the comment says 8 MB) and messages of 13, 19 and 49 bytes this is a matter of how long it runs;
  what stays behind adds up, until push finds no room and `send` spins in 114-118 holding `mtx_`.
- `io_uring_sender.cpp:172` drops the rest of a failed send "避免与 ring 状态不一致"; the returns at 138, 148 and 161 do not, and what they leave goes out in
  place of the next send's bytes: an order that was rejected, or the end of the ring's content shifted by a message. An error after a short write leaves half a
  message in the stream.
- `io_uring_sender.cpp:163-175` takes the next completion for the result of its send. A zero-copy send has a second one, the
  notification, with result 0: the next send is then reported failed and its order rejected, although it is on the wire, and its
  own completion is left for the send after it.
- `io_uring_receiver.cpp:145` and `io_uring_sender.cpp:234` say that after -EAGAIN the read is submitted again ("重新提交并继续"); the
  loop continues without submitting one.
- `io_uring_receiver.cpp:160` explains 0 as "stop 打断"; an empty datagram returns 0 as well and ends recv_th (`main.cpp:464`), after which
  main waits for `received` to reach `sent` for ever (645-647).
- `io_uring_receiver.cpp:70-75` empties the ready queue from main while recv_th uses it without a lock; recv_th may then find it empty
  and take buffer `UINT32_MAX`, or both take the same one: the plain head and length are loaded and stored without a lock (`clashed`).
- `benchmark/main.cpp:126` closes the connection at a 'Q', so the simulated exchange never answers `query_book`.
- `ouch_order_codec.h:83-85` registers tokens "报回收回时查表"; nothing reads the table, and it grows with every order.
  Lines 233-234 write the checksum of a cancel request over the last byte of its share count.
- `main.cpp:608` skips unknown bytes to find the next message; the side 'B' inside a report is also the type of a book message, so
  after lost bytes the framing may start there (`FrameLen`).
- `signal.h` defines strength 0 as no signal; the imbalance strategy gives NONE with a strength.

## 6. Not modelled

- *The parser's own eventfd* (`byte_ring_parser.h:81-91`): a lost wake-up costs a time-out, which fairness
  covers; `retry_th` never reads its descriptor (`main.cpp:564`) and so spins, which changes no state.
- *The wrap of the 32-bit tag* in the pool (`order_pool.h:48`): 2^32 successful CASes during one preemption.
- *Network*: AF_XDP and DPDK rings belong to devices and drivers; the single-packet receive path of `IoUringReceiver`
  (85-149) has no caller in main, whose recv_th takes the batch path; socket buffers are unbounded; `IoUringSender::stop()` during a send (main calls it after the
  workers have been joined, so no send is under way).
- *Cancels on the wire* ('X', 'C', 'J'): `ExecutionEngine` models what they do to orders; on the connection they are framed like the
  messages that are modelled. The custom codec is not used by main.
- *Layouts*: byte offsets of ITCH and OUCH fields, time stamps and sequence numbers.
- *Earlier queues* (`spmc_*`), which main no longer uses, and *strategies used by tests only*, K-lines included; *configuration, probes*.
- *Memory order*: every access is sequentially consistent. The queues' acquire and release pairs
  justify it for the data they publish; the plain flags are single words. For `mark`, whose relaxed store may pass the loads of the `update_equity` after it, nothing justifies it:
  `PeakCoversUnlessRaced` is not claimed for such reorderings, nor for a torn `avg_cost_`, which is a plain field.
- *A full submission queue of 256*, *`stop()` during a spin or a send* of `IoUringSender`, and a failing `encode_book_query` (the buffer is always long enough).

## 7. Plan

Done: pool, rings, dispatcher, byte ring, engine, book, shutdown; the order map and the signal path; the order connection under the
book query, the io_uring receiver under the stop sequence, the ITCH parser in front of the book, the eventfd under the dispatcher; proofs of every
safety invariant, action property and refinement that a run checks. Next:

1. Cancel requests and confirmations on `OrderConnection`, composed with `ExecutionEngine`.
2. K-line aggregation, the windows of the tick strategies and `SignalCombiner`, beside `SignalPath`.
3. `SpmcEventQueue` with its blocking protocol.
