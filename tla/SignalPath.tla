----------------------------- MODULE SignalPath -----------------------------
(***************************************************************************)
(* BookWorker of main.cpp with its two strategies: an event updates the    *)
(* order flow window (OFI) and the book imbalance (OBI), their signals are *)
(* put to a weighted vote, and the outcome becomes an order if the pacing  *)
(* rules allow it.  A worker has ONE window and ONE memory of its last     *)
(* order for all its symbols.  fill_th changes the positions meanwhile,    *)
(* also between the worker's look at them and the order's risk check.      *)
(*                                                                         *)
(* The book is an input here (module OrderBook has it): the side an event  *)
(* gets, and the volumes at the best prices.  A signal slot is written and *)
(* read by its worker in one call, so the slots are the strategies'        *)
(* signals.  Prices, sequence numbers and time stamps play no part.        *)
(***************************************************************************)
EXTENDS Integers, Sequences, Functions

CONSTANTS
  Symbols,        \* the locates this worker owns
  NoLocate,       \* locate 0, a strategy's symbol before its first event
  Sizes,          \* shares of an event
  Tops,           \* <<bid_vol, ask_vol>>; <<0, 0>> when the book is one-sided
  kWindow,
  OfiThreshold, ObiThreshold,
  kStrengthScale, kStrengthStep,
  Weights,        \* weight_bp_, of OFI and OBI
  Primary,        \* primary_idx_
  VoteThreshold,
  BaseQty, MaxPosition,
  MaxEvents       \* bound: events processed

ASSUME SignalAssumption ==
  /\ NoLocate \notin Symbols /\ Symbols # {}
  /\ Sizes \subseteq Nat \ {0} /\ Tops \subseteq Nat \X Nat
  /\ kWindow \in Nat \ {0} /\ OfiThreshold \in Nat \ {0} /\ ObiThreshold \in Nat
  /\ kStrengthScale \in Nat \ {0} /\ kStrengthStep \in Nat \ {0}
  /\ Weights \in [1 .. 2 -> Nat] /\ Primary \in 1 .. 2 /\ VoteThreshold \in Nat
  /\ BaseQty \in Nat \ {0} /\ MaxPosition \in Nat \ {0} /\ MaxEvents \in Nat

VARIABLES
  ofi,            \* OFI: [win, widx, ofi, side, locate, strength]
  obi,            \* OBI: [side, locate, strength]
  last,           \* last_order_side, last_order_str
  decision,       \* what arbitrate is about to submit
  pos,            \* RiskManager's positions
  flight,         \* orders at the exchange
  events,         \* history: events processed
  flow,           \* history: the contributions of the last kWindow events that had a side
  burst,          \* history: orders since the side last changed
  disturbed       \* history: an order was not executed, met another of its symbol,
                  \* or was sent for no symbol

vars == <<ofi, obi, last, decision, pos, flight, events, flow, burst, disturbed>>

None == [side |-> "NONE", locate |-> NoLocate, strength |-> 0]

Init ==
  /\ ofi = [win |-> [i \in 0 .. kWindow - 1 |-> 0], widx |-> 0, ofi |-> 0,
            side |-> "NONE", locate |-> NoLocate, strength |-> 0]
  /\ obi = None
  /\ last = [side |-> "NONE", strength |-> -1]
  /\ decision = None
  /\ pos = [s \in Symbols \cup {NoLocate} |-> 0]
  /\ flight = <<>>
  /\ events = 0 /\ flow = <<>> /\ burst = 0 /\ disturbed = FALSE
-----------------------------------------------------------------------------
(* The side BookWorker::process finds for an event: an added order has its *)
(* own, a replacement always reads BUY (the parser leaves the field zero), *)
(* a deleted order is gone when it is looked up, and a reduced or executed *)
(* one may be.                                                             *)
SidesOf(kind) ==
  CASE kind = "ADD"     -> {"BUY", "SELL"}
    [] kind = "REPLACE" -> {"BUY"}
    [] kind = "DELETE"  -> {"NONE"}
    [] OTHER            -> {"BUY", "SELL", "NONE"}

Events == UNION {[kind : {k}, side : SidesOf(k), locate : Symbols, shares : Sizes, top : Tops] :
                   k \in {"ADD", "REPLACE", "DELETE", "CANCEL", "EXECUTE"}}

Sign(side) == CASE side = "BUY" -> 1 [] side = "SELL" -> -1 [] OTHER -> 0

Abs(x) == IF x < 0 THEN -x ELSE x

Direction(x, threshold) ==
  IF x > threshold THEN "BUY" ELSE IF x < -threshold THEN "SELL" ELSE "NONE"

Delta(ev) == Sign(ev.side) * ev.shares * (IF ev.kind \in {"ADD", "REPLACE"} THEN 1 ELSE -1)

(* The strength grows from the threshold to kSaturate = 2 times it.        *)
OfiStrength(x) ==
  LET over == Abs(x) - OfiThreshold
  IN  CASE over <= 0 -> 0
        [] over >= OfiThreshold -> kStrengthScale
        [] OTHER -> (over * kStrengthScale) \div OfiThreshold

(* Mutant of Slide: the oldest entry leaves the window but not the sum.    *)
Slide_KeepsOldest(w, d) ==
  [w EXCEPT !.win[w.widx % kWindow] = d, !.widx = @ + 1, !.ofi = @ + d]

(* The window: a new entry replaces the oldest once the ring has filled.   *)
Slide(w, d) ==
  [w EXCEPT !.win[w.widx % kWindow] = d, !.widx = @ + 1,
            !.ofi = @ + d - (IF w.widx < kWindow THEN 0 ELSE w.win[w.widx % kWindow])]

(* OrderFlowImbalanceStrategy::on_market: no side, no change.              *)
OfiOnMarket(w, ev) ==
  IF ev.side = "NONE" THEN w
  ELSE LET s == Slide(w, Delta(ev))
       IN  [s EXCEPT !.locate = ev.locate, !.side = Direction(s.ofi, OfiThreshold),
                     !.strength = OfiStrength(s.ofi)]

(* OrderBookImbalanceStrategy::on_book, on every event.  Division rounds   *)
(* toward zero.                                                            *)
ObiOnMarket(ev) ==
  LET bid == ev.top[1]
      ask == ev.top[2]
      mag == (Abs(bid - ask) * kStrengthScale) \div (bid + ask)
  IN  IF bid + ask = 0 THEN [side |-> "NONE", locate |-> ev.locate, strength |-> 0]
      ELSE [side |-> Direction(IF bid < ask THEN -mag ELSE mag, ObiThreshold),
            locate |-> ev.locate,
            strength |-> IF mag >= ObiThreshold THEN kStrengthScale
                         ELSE (mag * kStrengthScale) \div (ObiThreshold + 1)]
-----------------------------------------------------------------------------
(* The sum over the two strategies.                                        *)
Total(f) == f[1] + f[2]

(* arbitrate_decide: the weighted vote gives the direction, those who      *)
(* voted for it the strength, the primary the symbol.                      *)
Decide(sigs) ==
  LET net  == Total([i \in 1 .. 2 |-> Sign(sigs[i].side) * Weights[i]])
      dir  == Direction(net, VoteThreshold)
      w    == [i \in 1 .. 2 |-> IF sigs[i].side = dir THEN Weights[i] ELSE 0]
      sumW == Total(w)
      sumS == Total([i \in 1 .. 2 |-> sigs[i].strength * w[i]])
  IN  [side |-> dir, locate |-> sigs[Primary].locate,
       strength |-> IF sumW > 0 THEN sumS \div sumW ELSE 0]

Blocked(dir, s) == \/ dir = "BUY"  /\ pos[s] >= MaxPosition
                   \/ dir = "SELL" /\ pos[s] = 0

(* Mutant of Due: the direction is not looked at.                          *)
Due_StrengthOnly(dir, strength) == strength >= last.strength + kStrengthStep

(* A new direction is ordered at once, the same one when it grew a step.   *)
Due(dir, strength) == dir # last.side \/ strength >= last.strength + kStrengthStep

(* process: the strategies see the event, arbitrate looks at the position. *)
Process(ev) ==
  /\ decision = None /\ events < MaxEvents
  /\ events' = events + 1
  /\ ofi' = OfiOnMarket(ofi, ev)
  /\ obi' = ObiOnMarket(ev)
  /\ flow' = IF ev.side = "NONE" THEN flow
             ELSE SubSeq(flow \o <<Delta(ev)>>, IF Len(flow) < kWindow THEN 1 ELSE 2, Len(flow) + 1)
  /\ LET d == Decide(<<[side |-> ofi'.side, locate |-> ofi'.locate, strength |-> ofi'.strength], obi'>>)
     IN  decision' = IF d.side # "NONE" /\ ~Blocked(d.side, d.locate) /\ Due(d.side, d.strength)
                     THEN d ELSE None
  /\ UNCHANGED <<last, pos, flight, burst, disturbed>>

Qty(d) == (BaseQty * d.strength) \div kStrengthScale

CheckOrder(d) == IF d.side = "BUY" THEN pos[d.locate] + Qty(d) <= MaxPosition
                                   ELSE Qty(d) <= pos[d.locate]

(* Mutant of Remember: the strength of the last order is not kept.         *)
Remember_SideOnly(d) == last' = [last EXCEPT !.side = d.side]

(* last_order_side and last_order_str.                                     *)
Remember(d) == last' = [side |-> d.side, strength |-> d.strength]

(* submit_signal: a quantity of 0 returns no id and is forgotten; any      *)
(* other order is remembered, one refused by the risk check or lost by the *)
(* sender too.  sent: no pause is on and the send succeeds.                *)
Submit(sent) ==
  /\ decision # None
  /\ decision' = None
  /\ IF Qty(decision) = 0 THEN UNCHANGED <<last, flight, burst, disturbed>>
     ELSE /\ Remember(decision)
          /\ burst' = IF decision.side = last.side THEN burst + 1 ELSE 1
          /\ IF CheckOrder(decision) /\ sent
             THEN /\ flight' = Append(flight, [side |-> decision.side, locate |-> decision.locate,
                                               qty |-> Qty(decision)])
                  /\ disturbed' = \/ disturbed \/ decision.locate = NoLocate
                                  \/ \E i \in DOMAIN flight : flight[i].locate = decision.locate
             ELSE disturbed' = TRUE /\ UNCHANGED flight
  /\ UNCHANGED <<ofi, obi, pos, events, flow>>
-----------------------------------------------------------------------------
Without(i) == SubSeq(flight, 1, i - 1) \o SubSeq(flight, i + 1, Len(flight))

(* An execution of n shares reaches RiskManager::on_fill.                  *)
Fill(i, n) ==
  /\ i \in DOMAIN flight /\ n \in 1 .. flight[i].qty
  /\ LET o == flight[i]
     IN  /\ pos' = [pos EXCEPT ![o.locate] = IF o.side = "BUY" THEN @ + n
                                            ELSE IF n < @ THEN @ - n ELSE 0]
         /\ flight' = IF n = o.qty THEN Without(i) ELSE [flight EXCEPT ![i].qty = @ - n]
  /\ UNCHANGED <<ofi, obi, last, decision, events, flow, burst, disturbed>>

(* The exchange turns an order down, or cancels what is left of it.        *)
Refuse(i) ==
  /\ i \in DOMAIN flight
  /\ flight' = Without(i)
  /\ disturbed' = TRUE
  /\ UNCHANGED <<ofi, obi, last, decision, pos, events, flow, burst>>

Next ==
  \/ \E ev \in Events : Process(ev)
  \/ \E sent \in BOOLEAN : Submit(sent)
  \/ \E i \in DOMAIN flight : Refuse(i) \/ \E n \in 1 .. flight[i].qty : Fill(i, n)

Spec == Init /\ [][Next]_vars
-----------------------------------------------------------------------------
(* ofi_ is the net flow of the last kWindow events whose side was known,   *)
(* however often the ring has wrapped.                                     *)
WindowIsRecent == ofi.ofi = SumFunction(flow)

(* However the strategies swing and whatever becomes of the orders, a      *)
(* worker sends at most one order per strength step before it changes      *)
(* sides: a signal that stays strong cannot cause a flood of orders.       *)
BurstBounded == burst <= 1 + (kStrengthScale - 1) \div kStrengthStep

(* As long as every order was executed in full before the next one for its *)
(* symbol, and all were for symbols of this worker, some signal would      *)
(* still make it order: the memory of its last order and the limits never  *)
(* block both directions together.                                         *)
CanOrderUnlessDisturbed ==
  ~disturbed /\ flight = <<>> =>
    \E dir \in {"BUY", "SELL"}, s \in Symbols : ~Blocked(dir, s) /\ Due(dir, kStrengthScale)
=============================================================================
