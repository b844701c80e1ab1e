----------------------------- MODULE BookQuery -----------------------------
(***************************************************************************)
(* Converting a market order into a limit order at the exchange's current  *)
(* quote: ExecutionEngine::submit_market_as_limit, query_book and          *)
(* on_book_quote (execution/execution_engine.h), over the connection of    *)
(* OrderConnection.  Several workers may ask at once; query_mtx_ lets one  *)
(* query be in flight, book_mu_ protects book_waiting_ and book_result_,   *)
(* mtx_ serialises the sends, and fill_th delivers the answers.  A worker  *)
(* keeps nothing between two calls, so the actors are the calls, numbered  *)
(* as they begin.                                                          *)
(***************************************************************************)
EXTENDS OrderConnection

VARIABLES pc,        \* where each call is
          want,      \* symbol_id each call asks about
          holder,    \* owner of query_mtx_
          waiting,   \* book_waiting_
          result,    \* book_result_
          unanswered,\* history: a query gave up after its 'Q' had been sent
          orders,    \* limit orders, by the query they are for and the one
                     \* whose quote they are priced from
          rejected   \* orders rejected because their send failed

callerVars == <<pc, want, holder, waiting, result, unanswered, orders, rejected>>
vars == <<connVars, callerVars>>

NoQuote == [type |-> "B", n |-> 0, symbol |-> CHOOSE s \in Symbols : TRUE]

Goto(t, l) == pc' = [pc EXCEPT ![t] = l]

(* Only whether symbols are equal matters: the first call's is fixed.      *)
Init == /\ ConnInit
        /\ pc = [t \in Calls |-> "new"]
        /\ want \in [Calls -> Symbols] /\ want[1] = NoQuote.symbol
        /\ holder = NoCall /\ waiting = FALSE /\ result = NoQuote
        /\ unanswered = FALSE /\ orders = {} /\ rejected = {}

(* submit_market_as_limit is called.                                       *)
Call(t) ==
    /\ pc[t] = "new" /\ \A u \in 1 .. t - 1 : pc[u] # "new"
    /\ Goto(t, "lock")
    /\ UNCHANGED <<connVars, want, holder, waiting, result, unanswered, orders,
                   rejected>>

(* Mutant: the flag is not set, the wait finds its predicate true at once. *)
Lock_NotArmed(t) ==
    /\ pc[t] = "lock" /\ holder = NoCall
    /\ holder' = t
    /\ Goto(t, "query")
    /\ UNCHANGED <<connVars, want, waiting, result, unanswered, orders, rejected>>

(* query_mtx_ is acquired, and book_waiting_ set before the send.          *)
Lock(t) ==
    /\ pc[t] = "lock" /\ holder = NoCall
    /\ holder' = t
    /\ waiting' = TRUE
    /\ Goto(t, "query")
    /\ UNCHANGED <<connVars, want, result, unanswered, orders, rejected>>

(* The 'Q' is encoded and its send begins; so does that of the 'O', once   *)
(* the quote is known.                                                     *)
Send(t) ==
    /\ \/ LET m == [type |-> "Q", n |-> t, symbol |-> want[t]]
          IN pc[t] = "query" /\ Goto(t, "sendQ") /\ (Begin(t, m) \/ Spin(t, m))
       \/ LET m == [type |-> "O", n |-> t, symbol |-> want[t]]
          IN pc[t] = "order" /\ Goto(t, "sendO") /\ (Begin(t, m) \/ Spin(t, m))
    /\ UNCHANGED <<want, holder, waiting, result, unanswered, orders, rejected>>

(* query_book returns false without an answer: the flag is cleared and     *)
(* query_mtx_ released.                                                    *)
Fail(t) ==
    /\ waiting' = FALSE
    /\ holder' = NoCall
    /\ Goto(t, "done")

(* send returns and mtx_ is released.                                      *)
Returned(t) ==
    /\ mtx = t /\ mtx' = NoCall /\ tx' = Idle
    /\ UNCHANGED <<ringVars, kernelVars, exchangeVars, fillVars, toEx, toUs, conn,
                   sent, want, result, unanswered, orders>>

(* A query waits for its answer, or gives up if it was not sent.           *)
QuerySent(t) ==
    /\ pc[t] = "sendQ" /\ Returned(t)
    /\ \/ tx.at = "ok" /\ Goto(t, "wait") /\ UNCHANGED <<holder, waiting>>
       \/ tx.at = "failed" /\ Fail(t)
    /\ UNCHANGED rejected

(* submit_signal: an order that was not sent is rejected.                  *)
OrderSent(t) ==
    /\ pc[t] = "sendO" /\ Returned(t)
    /\ \/ tx.at = "ok" /\ UNCHANGED rejected
       \/ tx.at = "failed" /\ rejected' = rejected \cup {t}
    /\ Goto(t, "done")
    /\ UNCHANGED <<holder, waiting>>

(* Mutant: a time-out that leaves query_mtx_ locked.                       *)
TimeOut_KeepsLock(t) ==
    /\ pc[t] = "wait" /\ waiting
    /\ waiting' = FALSE
    /\ Goto(t, "done")
    /\ unanswered' = TRUE
    /\ UNCHANGED <<connVars, want, holder, result, orders, rejected>>

(* wait_for ran out of time with the predicate still false.                *)
TimeOut(t) ==
    /\ pc[t] = "wait" /\ waiting /\ Fail(t)
    /\ unanswered' = TRUE
    /\ UNCHANGED <<connVars, want, result, orders, rejected>>

(* wait_for found the predicate true and query_mtx_ is released.  A quote  *)
(* of the symbol with a price on the other side becomes an order; whether  *)
(* it has one is left open until here.                                     *)
Take(t) ==
    /\ pc[t] = "wait" /\ ~waiting
    /\ holder' = NoCall
    /\ \/ /\ result.symbol = want[t]
          /\ orders' = orders \cup {[query |-> t, for |-> result.n]}
          /\ Goto(t, "order")
       \/ Goto(t, "done") /\ UNCHANGED orders
    /\ UNCHANGED <<connVars, want, waiting, result, unanswered, rejected>>

(* on_book_quote: stored whether or not anyone waits.                      *)
OnBookQuote ==
    /\ FillQuote
    /\ waiting' = FALSE
    /\ result' = stream[1].msg
    /\ UNCHANGED <<pc, want, holder, unanswered, orders, rejected>>

Caller(t) == \/ Lock(t) \/ Send(t) \/ QuerySent(t) \/ OrderSent(t)
             \/ TimeOut(t) \/ Take(t)
             \/ mtx = t /\ SendZcAll /\ UNCHANGED callerVars

Next == \/ \E t \in Calls : Call(t) \/ Caller(t)
        \/ OnBookQuote
        \/ (Notify \/ Exchange \/ FillThread) /\ UNCHANGED callerVars

Spec == Init /\ [][Next]_vars

(* A call runs on, its wait_for ends by itself and its sends complete; a   *)
(* mutex that is free again and again is acquired by each of its waiters   *)
(* (there are at most MaxCalls of them), which is why the fairness is      *)
(* strong.  Nothing is assumed of fill_th or of the exchange.              *)
FairSpec == Spec /\ \A t \in Calls : SF_vars(Caller(t))

----------------------------------------------------------------------------
(* Bytes of a message given up may still be in the ring: it was left there *)
(* or, once the ring has been skipped at its end, sent for another.        *)
LeftBehind == kept \/ (gapped /\ faults > 0)

(* Every order is priced from the answer to its own query, until a query   *)
(* has given up waiting for its answer or its 'Q' may go out after it has  *)
(* failed (the answer then meets the next one): its bytes were left behind *)
(* or a send took a completion for its own that was not.                   *)
QuoteIsOwnUnlessLate ==
    \/ unanswered \/ stale \/ LeftBehind
    \/ \A o \in orders : o.query = o.for

(* An order that was rejected because its send failed never reaches the    *)
(* exchange, also when part of it went out, unless its bytes were left     *)
(* behind or a send took a completion for its own that was not.            *)
RejectedIsUnsentUnlessLeft ==
    \/ stale \/ LeftBehind
    \/ \A i \in DOMAIN taken : taken[i].type = "O" => taken[i].n \notin rejected

(* Every call of submit_market_as_limit returns, whatever the peer does,   *)
(* unless a send counts on from another one's completion or spins for room *)
(* in a ring in which earlier sends have left bytes behind.                *)
EveryCallReturnsUnlessFull ==
    LET full == tx.at = "spin" /\ (gapped \/ kept)
    IN \A t \in Calls : pc[t] = "lock" ~> pc[t] = "done" \/ stale \/ full
=============================================================================
