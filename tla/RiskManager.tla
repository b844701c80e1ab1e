---------------------------- MODULE RiskManager -----------------------------
(***************************************************************************)
(* risk/risk_manager.h: the check before an order, the position and profit *)
(* kept from the fills, and the mark-to-market drawdown.  Its state is     *)
(* [qty, cost, mark, pnl, peak]; this module gives each call as a function *)
(* of that state.  ExecutionEngine uses them whole; MarkToMarket takes the *)
(* calls that run outside its mutex apart, access by access.               *)
(***************************************************************************)
EXTENDS Integers, Functions

CONSTANTS
  MaxPosition,       \* max_position_
  MaxDailyLoss,      \* max_daily_loss_
  InitialEquity,     \* initial_equity_
  DrawdownPause,     \* max_drawdown_pause_
  DrawdownFlatten    \* max_drawdown_flatten_

ASSUME RiskAssumption ==
  /\ MaxPosition \in Nat /\ MaxDailyLoss \in Nat /\ InitialEquity \in Nat
  /\ DrawdownPause \in Nat /\ DrawdownFlatten \in Nat

Flat(symbols) ==
  [qty |-> [s \in symbols |-> 0], cost |-> [s \in symbols |-> 0],
   mark |-> [s \in symbols |-> 0], pnl |-> 0, peak |-> InitialEquity]

(* equity(): unrealised profit counts for symbols that are held and marked.*)
Equity(rm) ==
  InitialEquity + rm.pnl +
  SumFunction([s \in DOMAIN rm.qty |->
     IF rm.qty[s] > 0 /\ rm.mark[s] > 0 THEN rm.qty[s] * (rm.mark[s] - rm.cost[s]) ELSE 0])

Drawdown(rm) == rm.peak - Equity(rm)
Paused(rm)   == Drawdown(rm) > DrawdownPause
Flatten(rm)  == Drawdown(rm) > DrawdownFlatten

UpdateEquity(rm) == IF Equity(rm) > rm.peak THEN [rm EXCEPT !.peak = Equity(rm)] ELSE rm

Mark(rm, s, price) == UpdateEquity([rm EXCEPT !.mark[s] = price])

(* Mutant of CheckOrder: a sell is not compared with the position.         *)
CheckOrder_NakedSell(rm, o) ==
  /\ rm.pnl > -MaxDailyLoss
  /\ ~Paused(rm)
  /\ o.side = "BUY" => rm.qty[o.sym] + o.quantity <= MaxPosition

CheckOrder(rm, o) ==
  /\ o.quantity # 0
  /\ rm.pnl > -MaxDailyLoss
  /\ ~Paused(rm)
  /\ CASE o.side = "BUY"  -> rm.qty[o.sym] + o.quantity <= MaxPosition
       [] o.side = "SELL" -> o.quantity <= rm.qty[o.sym]

(* The position after a fill; a sell beyond the position is clamped to it. *)
Sold(rm, o, n)   == IF n < rm.qty[o.sym] THEN n ELSE rm.qty[o.sym]

NewQty(rm, o, n) == IF o.side = "BUY" THEN rm.qty[o.sym] + n
                                      ELSE rm.qty[o.sym] - Sold(rm, o, n)

(* The weighted cost after a fill, from the ORDER's price.                 *)
NewCost(rm, o, n) ==
  CASE NewQty(rm, o, n) = 0 -> 0
    [] o.side = "BUY" -> (rm.cost[o.sym] * rm.qty[o.sym] + o.price * n) \div NewQty(rm, o, n)
    [] OTHER -> rm.cost[o.sym]

NewPnl(rm, o, n) ==
  IF o.side = "SELL" THEN rm.pnl + (o.price - rm.cost[o.sym]) * Sold(rm, o, n) ELSE rm.pnl

Booked(rm, o, n) ==
  [rm EXCEPT !.qty[o.sym] = NewQty(rm, o, n), !.cost[o.sym] = NewCost(rm, o, n),
             !.pnl = NewPnl(rm, o, n)]

RiskOnFill(rm, o, n) == UpdateEquity(Booked(rm, o, n))
=============================================================================
