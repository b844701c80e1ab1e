---------------------------- MODULE OrderManager ----------------------------
(***************************************************************************)
(* oms/order_manager.h: the life cycle of our own orders.  The class is    *)
(* not thread-safe; ExecutionEngine calls it under one mutex, so each call *)
(* is a function from one state of the manager to the next.                *)
(*                                                                         *)
(* The manager's state is [orders, open]: orders[id] is an Entry, open[s]  *)
(* the index of the live orders of symbol s (the strategy index is updated *)
(* at the same places and not repeated).  Time stamps are left out.        *)
(***************************************************************************)
EXTENDS Integers, Sequences

CONSTANTS Symbols

Sides    == {"BUY", "SELL"}
Live     == {"PENDING", "SUBMITTED", "PARTIAL_FILL", "PENDING_CANCEL"}
Terminal == {"FILLED", "CANCELLED", "REJECTED"}
Fillable == {"SUBMITTED", "PARTIAL_FILL"}

EmptyBook == [orders |-> <<>>, open |-> [s \in Symbols |-> {}]]

(* new_order(): ids are handed out in sequence.                            *)
NewOrder(om, o) ==
  [orders |-> Append(om.orders,
                [sym |-> o.sym, side |-> o.side, price |-> o.price, quantity |-> o.quantity,
                 status |-> "PENDING", filled |-> 0, remaining |-> o.quantity, avg |-> 0]),
   open   |-> [om.open EXCEPT ![o.sym] = @ \cup {Len(om.orders) + 1}]]

SetStatus(om, id, st) == [om EXCEPT !.orders[id].status = st]

(* A terminal status takes the order out of the index.                     *)
Retire(om, id, st) ==
  [SetStatus(om, id, st) EXCEPT !.open[om.orders[id].sym] = @ \ {id}]

OnAccept(om, id) ==
  IF om.orders[id].status = "PENDING" THEN SetStatus(om, id, "SUBMITTED") ELSE om

(* n more shares at price: quantities, weighted average price, and FILLED  *)
(* once filledAt shares are reached.                                       *)
Fill(om, id, n, price, filledAt) ==
  LET e  == om.orders[id]
      nf == e.filled + n
      m  == [om EXCEPT !.orders[id].filled = nf,
                       !.orders[id].remaining = e.quantity - nf,
                       !.orders[id].avg = IF nf = 0 THEN 0
                                          ELSE (e.avg * e.filled + price * n) \div nf]
  IN  IF nf >= filledAt THEN Retire(m, id, "FILLED") ELSE SetStatus(m, id, "PARTIAL_FILL")

(* Mutant of OnFill: the status is not tested.                             *)
OnFill_AnyStatus(om, id, qty, price) ==
  Fill(om, id, qty, price, om.orders[id].quantity)

(* on_fill(): only in a fillable status; never beyond the quantity.        *)
OnFill(om, id, qty, price) ==
  LET e == om.orders[id]
      n == IF e.filled + qty > e.quantity THEN e.remaining ELSE qty
  IN  IF e.status \in Fillable THEN Fill(om, id, n, price, e.quantity) ELSE om

CanCancel(om, id)     == om.orders[id].status \in Fillable

(* Mutant of RequestCancel: the order is closed when its cancel is sent.   *)
RequestCancel_Closes(om, id) == IF CanCancel(om, id) THEN Retire(om, id, "CANCELLED") ELSE om

RequestCancel(om, id) == IF CanCancel(om, id) THEN SetStatus(om, id, "PENDING_CANCEL") ELSE om

(* Mutant of OnCancel: the order stays in the index.                       *)
OnCancel_KeepsIndex(om, id) ==
  IF om.orders[id].status = "PENDING_CANCEL" THEN SetStatus(om, id, "CANCELLED") ELSE om

OnCancel(om, id) ==
  IF om.orders[id].status = "PENDING_CANCEL" THEN Retire(om, id, "CANCELLED") ELSE om

OnReject(om, id) ==
  IF om.orders[id].status = "PENDING" THEN Retire(om, id, "REJECTED") ELSE om
=============================================================================
