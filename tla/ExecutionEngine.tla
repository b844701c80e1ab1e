--------------------------- MODULE ExecutionEngine ---------------------------
(***************************************************************************)
(* execution/execution_engine.h with its order manager, its risk manager   *)
(* and, beyond the TCP connection, the exchange.  Workers submit and       *)
(* cancel, fill_th applies the exchange's reports; each call holds mtx_    *)
(* from its first access to its last, so a call is one step.  What is not  *)
(* atomic is the conversation: orders and cancels are on their way to the  *)
(* exchange while reports are on their way back.                           *)
(*                                                                         *)
(* The exchange is outside the repository.  It is modelled from the        *)
(* reports the engine expects: an order is accepted ('A') or rejected      *)
(* ('J'), executed in one or more parts ('E'), cancelled ('C') on request. *)
(* A cancel for an order that is no longer open gets no answer, or a 'C'   *)
(* all the same, as from the simulated exchange of benchmark/main.cpp.     *)
(***************************************************************************)
EXTENDS OrderManager, RiskManager, FiniteSets, SequencesExt

CONSTANTS
  Quantities,     \* order sizes: base_qty * strength / kStrengthScale, not 0
  SignalPrices,   \* price of a signal: 0 for the market orders of main.cpp
  FillPrices,     \* prices of executions and marks, positive
  MaxOrders,      \* bound: orders submitted
  MaxMarks        \* bound: marks fed

ASSUME EngineAssumption ==
  /\ Quantities \subseteq Nat \ {0} /\ SignalPrices \subseteq Nat
  /\ FillPrices \subseteq Nat \ {0} /\ MaxOrders \in Nat /\ MaxMarks \in Nat

VARIABLES
  om, rm, flatten_issued,   \* the engine
  toExch, fromExch,         \* the TCP connection, both directions
  exch,                     \* exchange: id -> [st, leaves]
  executed,                 \* history: shares executed per order
  marks,                    \* history: number of marks
  fillIgnored,              \* history: OMS did not take a fill in full
  overlap                   \* history: order accepted over a live one of its symbol

engine   == <<om, rm, flatten_issued>>
exchange == <<exch, executed>>
vars == <<engine, toExch, fromExch, exchange, marks, fillIgnored, overlap>>

Ids == 1 .. Len(om.orders)

Init ==
  /\ om = EmptyBook /\ rm = Flat(Symbols) /\ flatten_issued = FALSE
  /\ toExch = <<>> /\ fromExch = <<>>
  /\ exch = <<>> /\ executed = <<>>
  /\ marks = 0 /\ fillIgnored = FALSE /\ overlap = FALSE
-----------------------------------------------------------------------------
(* submit_signal(): registered, checked, encoded and sent under the mutex. *)
(* sent says whether send() took all the bytes.                            *)
Submit(o, sent) ==
  LET id == Len(om.orders) + 1
      registered == NewOrder(om, o)
      passes == CheckOrder(rm, o)
  IN  /\ Len(om.orders) < MaxOrders
      /\ om' = IF passes /\ sent THEN registered ELSE OnReject(registered, id)
      /\ toExch' = IF passes /\ sent THEN Append(toExch, [type |-> "O", id |-> id]) ELSE toExch
      /\ exch' = Append(exch, [st |-> "unknown", leaves |-> o.quantity])
      /\ executed' = Append(executed, 0)
      /\ overlap' = (overlap \/ (passes /\ sent /\ om.open[o.sym] # {}))
      /\ UNCHANGED <<rm, flatten_issued, fromExch, marks, fillIgnored>>

SubmitSignal ==
  \E s \in Symbols, side \in Sides, q \in Quantities, p \in SignalPrices, sent \in BOOLEAN :
    Submit([sym |-> s, side |-> side, price |-> p, quantity |-> q], sent)

(* cancel_order(): marked first, then sent; a failed send leaves the mark. *)
CancelOrder(id, sent) ==
  /\ CanCancel(om, id)
  /\ om' = RequestCancel(om, id)
  /\ toExch' = IF sent THEN Append(toExch, [type |-> "X", id |-> id]) ELSE toExch
  /\ UNCHANGED <<rm, flatten_issued, fromExch, exchange, marks, fillIgnored, overlap>>

(* RiskManager::mark(), fed by a worker with the mid price.                *)
MarkPrice(s, p) ==
  /\ marks < MaxMarks
  /\ marks' = marks + 1
  /\ rm' = Mark(rm, s, p)
  /\ UNCHANGED <<om, flatten_issued, toExch, fromExch, exchange, fillIgnored, overlap>>
-----------------------------------------------------------------------------
(* flatten_on_drawdown(), as the tail of a fill: once, every fillable      *)
(* order is cancelled; unlike cancel_order the mark follows the send.      *)
(* cancels is the set of orders whose cancel could be sent.                *)
FlattenOnDrawdown(om1, rm1, cancels) ==
  LET due == IF flatten_issued \/ ~Flatten(rm1) THEN {}
             ELSE {id \in Ids : om1.orders[id].status \in Fillable}
      ids == SetToSeq(due \cap cancels)
  IN  /\ flatten_issued' = (flatten_issued \/ Flatten(rm1))
      /\ om' = [om1 EXCEPT !.orders = [id \in Ids |->
                  IF id \in due \cap cancels
                  THEN [om1.orders[id] EXCEPT !.status = "PENDING_CANCEL"]
                  ELSE om1.orders[id]]]
      /\ toExch' = toExch \o [i \in DOMAIN ids |-> [type |-> "X", id |-> ids[i]]]

(* Mutant of OnOrderReport: a reject is not passed on.                     *)
OnOrderReport_NoReject(f) ==
  /\ om' = CASE f.type = "A" -> OnAccept(om, f.id)
             [] f.type = "C" -> OnCancel(om, f.id)
             [] f.type = "J" -> om
  /\ UNCHANGED <<rm, flatten_issued, toExch, fillIgnored>>

(* on_order_report() for the reports that change only the order manager.   *)
OnOrderReport(f) ==
  /\ om' = CASE f.type = "A" -> OnAccept(om, f.id)
             [] f.type = "C" -> OnCancel(om, f.id)
             [] f.type = "J" -> OnReject(om, f.id)
  /\ UNCHANGED <<rm, flatten_issued, toExch, fillIgnored>>

(* Mutant of OnExecution: the risk manager books the whole order.          *)
OnExecution_WholeOrder(f) ==
  LET o   == om.orders[f.id]
      om1 == OnFill(om, f.id, f.qty, f.price)
      rm1 == RiskOnFill(rm, o, o.quantity)
  IN  /\ rm' = rm1
      /\ fillIgnored' = (fillIgnored \/ om1.orders[f.id].filled # o.filled + f.qty)
      /\ \E cancels \in SUBSET Ids : FlattenOnDrawdown(om1, rm1, cancels)

(* on_order_report() for 'E': order manager, risk manager, then flatten.   *)
OnExecution(f) ==
  LET o   == om.orders[f.id]
      om1 == OnFill(om, f.id, f.qty, f.price)
      rm1 == RiskOnFill(rm, o, f.qty)
  IN  /\ rm' = rm1
      /\ fillIgnored' = (fillIgnored \/ om1.orders[f.id].filled # o.filled + f.qty)
      /\ \E cancels \in SUBSET Ids : FlattenOnDrawdown(om1, rm1, cancels)

(* fill_th: the next report of the stream, in the order it was sent.       *)
Report ==
  /\ fromExch # <<>>
  /\ fromExch' = Tail(fromExch)
  /\ IF Head(fromExch).type = "E" THEN OnExecution(Head(fromExch))
                                  ELSE OnOrderReport(Head(fromExch))
  /\ UNCHANGED <<exchange, marks, overlap>>
-----------------------------------------------------------------------------
(* The exchange.                                                           *)
Send(type, id) == fromExch' = Append(fromExch, [type |-> type, id |-> id, qty |-> 0, price |-> 0])

ExchangeTakesOrder ==
  /\ toExch # <<>>
  /\ Head(toExch).type = "O"
  /\ toExch' = Tail(toExch)
  /\ LET id == Head(toExch).id
     IN  \/ exch' = [exch EXCEPT ![id].st = "open"] /\ Send("A", id)
         \/ exch' = [exch EXCEPT ![id].st = "done"] /\ Send("J", id)
  /\ UNCHANGED <<engine, executed, marks, fillIgnored, overlap>>

ExchangeTakesCancel ==
  /\ toExch # <<>>
  /\ Head(toExch).type = "X"
  /\ toExch' = Tail(toExch)
  /\ LET id == Head(toExch).id
     IN  \/ exch' = [exch EXCEPT ![id].st = "done"] /\ Send("C", id)
         \/ exch[id].st # "open" /\ UNCHANGED <<exch, fromExch>>
  /\ UNCHANGED <<engine, executed, marks, fillIgnored, overlap>>

Sign(id) == IF om.orders[id].side = "BUY" THEN 1 ELSE -1

ExchangeExecutes(id, q, p) ==
  /\ exch[id].st = "open"
  /\ q <= exch[id].leaves
  /\ exch' = [exch EXCEPT ![id] = [st |-> IF q = exch[id].leaves THEN "done" ELSE "open",
                                   leaves |-> exch[id].leaves - q]]
  /\ fromExch' = Append(fromExch, [type |-> "E", id |-> id, qty |-> q, price |-> p])
  /\ executed' = [executed EXCEPT ![id] = @ + q]
  /\ UNCHANGED <<engine, toExch, marks, fillIgnored, overlap>>

Exchange == \/ ExchangeTakesOrder \/ ExchangeTakesCancel
            \/ \E id \in Ids, q \in Quantities, p \in FillPrices : ExchangeExecutes(id, q, p)
-----------------------------------------------------------------------------
Next == \/ SubmitSignal
        \/ \E id \in Ids, sent \in BOOLEAN : CancelOrder(id, sent)
        \/ \E s \in Symbols, p \in FillPrices : MarkPrice(s, p)
        \/ Report
        \/ Exchange

Spec == Init /\ [][Next]_vars

-----------------------------------------------------------------------------
Net(s, shares) ==
  SumFunctionOnSet([id \in Ids |-> Sign(id) * shares[id]], {id \in Ids : om.orders[id].sym = s})

Filled == [id \in Ids |-> om.orders[id].filled]

(* open_orders() is exact: the symbol index holds the orders of the symbol *)
(* that are not in a terminal status, no more and no fewer.                *)
IndexIsLive ==
  \A s \in Symbols :
    om.open[s] = {id \in Ids : om.orders[id].sym = s /\ om.orders[id].status \in Live}

(* What the trader has written off cannot trade any more: an order that    *)
(* OMS calls CANCELLED or REJECTED is not open at the exchange and is not  *)
(* on its way there, whatever crossed on the wire.                         *)
WrittenOffIsClosed ==
  \A id \in Ids : om.orders[id].status \in {"CANCELLED", "REJECTED"} =>
    exch[id].st # "open" /\ [type |-> "O", id |-> id] \notin Range(toExch)

(* A status that the order manager does not leave again is final at the    *)
(* exchange too: what it has written off is closed there, what it calls    *)
(* FILLED was filled completely, and no order is booked beyond what the    *)
(* exchange executed.                                                      *)
TerminalIsFinalAtExchange ==
  /\ WrittenOffIsClosed
  /\ \A id \in Ids :
       /\ om.orders[id].filled <= executed[id]
       /\ om.orders[id].filled + om.orders[id].remaining = om.orders[id].quantity
       /\ om.orders[id].status = "FILLED" => executed[id] = om.orders[id].quantity

(* OMS and risk manager book the same fills: unless OMS refused one (it    *)
(* does while a cancel is pending) or two live orders overlapped, the net  *)
(* of the orders' fills is the position.                                   *)
BooksAgreeUnlessIgnored ==
  ~fillIgnored /\ ~overlap => \A s \in Symbols : rm.qty[s] = Net(s, Filled)

(* With at most one live order per symbol check_order's limits hold for    *)
(* what is really executed: never short, never above max_position_.        *)
LimitsHoldUnlessOverlap ==
  ~overlap => \A s \in Symbols : Net(s, executed) \in 0 .. MaxPosition

(* An order that OMS still calls PENDING was sent and is undecided: its    *)
(* 'O' is on the way out or its 'A' or 'J' is on the way back.  A failed   *)
(* risk check, a failed send or a reject never leaves a PENDING order in   *)
(* the symbol index for good.                                              *)
PendingIsInFlight ==
  \A id \in Ids : om.orders[id].status = "PENDING" =>
    \/ \E m \in Range(toExch) : m.id = id /\ m.type = "O"
    \/ \E m \in Range(fromExch) : m.id = id /\ m.type \in {"A", "J"}

(* The status only moves along the arrows drawn in order_manager.h.        *)
StatusArrows ==
  [][\A id \in Ids : <<om.orders[id].status, om'.orders[id].status>> \in
       {<<st, st>> : st \in Live \cup Terminal} \cup
       {"PENDING"} \X {"SUBMITTED", "REJECTED"} \cup
       {"SUBMITTED", "PARTIAL_FILL"} \X {"PARTIAL_FILL", "FILLED", "PENDING_CANCEL"} \cup
       {<<"PENDING_CANCEL", "CANCELLED">>}]_vars

=============================================================================
