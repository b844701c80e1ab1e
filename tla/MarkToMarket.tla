---------------------------- MODULE MarkToMarket ----------------------------
(***************************************************************************)
(* risk/risk_manager.h, the calls that run concurrently: every worker      *)
(* feeds mark() without a lock while fill_th, under ExecutionEngine's      *)
(* mutex, books fills.  Both end in update_equity(), which adds up profit, *)
(* positions, marks and costs locate by locate, one load after the other,  *)
(* and raises equity_peak_ by a load, a comparison and a store.            *)
(***************************************************************************)
EXTENDS RiskManager, FiniteSets

CONSTANTS
  MaxLocate,   \* kMaxLocate
  Markers,     \* the workers, as threads that call mark()
  FillTh,      \* the thread that calls on_fill()
  Prices,      \* marks and order prices, positive
  MaxMarks,    \* bound: calls of mark()
  MaxFills     \* bound: calls of on_fill()

ASSUME MarkAssumption ==
  /\ MaxLocate \in Nat \ {0} /\ FillTh \notin Markers
  /\ Prices \subseteq Nat \ {0} /\ MaxMarks \in Nat /\ MaxFills \in Nat

Symbols == 0 .. MaxLocate - 1
Threads == Markers \cup {FillTh}

VARIABLES
  rm,            \* the risk manager's arrays and atomics
  pc,            \* per thread: place inside the call
  read,          \* per thread: what equity() has added up and loaded so far
  filling,       \* fill_th: the fill being booked
  marks, fills,  \* history: number of calls
  high,          \* history: highest equity between whole fills
  torn,          \* history: a reading that was not of one moment was stored
  raced          \* history: equity_peak_ stored over a higher value

markVars == <<rm, pc, read, filling, marks, fills, high, torn, raced>>

Fills  == [sym : Symbols, side : {"BUY", "SELL"}, price : Prices, quantity : {1}]
NoFill == [sym |-> 0, side |-> "BUY", qty |-> 0, cost |-> 0]

(* The locals of equity(): eq, l, q and mk.  Mixed, a history, says that   *)
(* something it had read was changed before it was done.                   *)
Reading(sum) == [sum |-> sum, at |-> 0, qty |-> 0, mark |-> 0, mixed |-> FALSE]
InLoop == {"read_qty", "read_mark", "read_cost"}

MarkInit ==
  /\ rm = Flat(Symbols)
  /\ pc = [t \in Threads |-> "idle"]
  /\ read = [t \in Threads |-> Reading(0)]
  /\ filling = NoFill
  /\ marks = 0 /\ fills = 0
  /\ high = InitialEquity /\ torn = FALSE /\ raced = FALSE

Goto(t, label) == pc' = [pc EXCEPT ![t] = label]
(* Some, but not all, of the stores of a fill are done.                    *)
MidFill == pc[FillTh] = "fill_cost" \/ (pc[FillTh] = "fill_qty" /\ filling.side = "SELL")
Higher(x, y) == IF x > y THEN x ELSE y

(* The threads whose equity() is past s, or at s in one of the places.     *)
PastRead(s, places) ==
  {t \in Threads : pc[t] \in InLoop /\ (read[t].at > s \/ (read[t].at = s /\ pc[t] \in places))}
Disturb(readers) ==
  read' = [t \in Threads |-> IF t \in readers THEN [read[t] EXCEPT !.mixed = TRUE] ELSE read[t]]
-----------------------------------------------------------------------------
(* mark(): the price is stored, then update_equity().  A mark during a     *)
(* fill changes the equity seen once the fill is whole.                    *)
MarkStore(w, s, p) ==
  /\ pc[w] = "idle" /\ marks < MaxMarks
  /\ rm' = [rm EXCEPT !.mark[s] = p]
  /\ marks' = marks + 1
  /\ high' = IF MidFill THEN high ELSE Higher(high, Equity(rm'))
  /\ Disturb(PastRead(s, {"read_cost"}))
  /\ Goto(w, "read_pnl")
  /\ UNCHANGED <<filling, fills, torn, raced>>

(* on_fill(): new position and cost are computed; a sale adds its profit,  *)
FillPnl(o) ==
  /\ pc[FillTh] = "idle" /\ fills < MaxFills
  /\ o.side = "SELL" => o.quantity <= rm.qty[o.sym]
  /\ filling' = [sym |-> o.sym, side |-> o.side, qty |-> NewQty(rm, o, o.quantity),
              cost |-> NewCost(rm, o, o.quantity)]
  /\ fills' = fills + 1
  /\ rm' = [rm EXCEPT !.pnl = NewPnl(rm, o, o.quantity)]
  /\ Disturb(IF o.side = "SELL" THEN PastRead(0, InLoop) ELSE {})
  /\ Goto(FillTh, "fill_qty")
  /\ UNCHANGED <<marks, high, torn, raced>>

(* ... the position is stored,                                             *)
FillQty ==
  /\ pc[FillTh] = "fill_qty"
  /\ rm' = [rm EXCEPT !.qty[filling.sym] = filling.qty]
  /\ Disturb(PastRead(filling.sym, {"read_mark", "read_cost"}))
  /\ Goto(FillTh, "fill_cost")
  /\ UNCHANGED <<filling, marks, fills, high, torn, raced>>

(* ... then the average cost.                                              *)
FillCost ==
  /\ pc[FillTh] = "fill_cost"
  /\ rm' = [rm EXCEPT !.cost[filling.sym] = filling.cost]
  /\ high' = Higher(high, Equity(rm'))
  /\ Disturb(IF filling.cost # rm.cost[filling.sym] THEN PastRead(filling.sym, {}) ELSE {})
  /\ Goto(FillTh, "read_pnl")
  /\ UNCHANGED <<filling, marks, fills, torn, raced>>
-----------------------------------------------------------------------------
(* update_equity(), by either thread.  equity(): first the profit,         *)
ReadOnly == UNCHANGED <<rm, filling, marks, fills, high, torn, raced>>

EquityPnl(t) ==
  /\ pc[t] = "read_pnl"
  /\ read' = [read EXCEPT ![t] = Reading(InitialEquity + rm.pnl)]
  /\ Goto(t, "read_qty")
  /\ ReadOnly

(* ... then per locate the position,                                       *)
EquityQty(t) ==
  /\ pc[t] = "read_qty"
  /\ read' = [read EXCEPT ![t].qty = rm.qty[read[t].at]]
  /\ Goto(t, "read_mark")
  /\ ReadOnly

(* To the next locate; a reading that ends within a fill is not of one     *)
(* moment of the account either.                                           *)
NextLocate(t, r) ==
  LET last == r.at + 1 = MaxLocate IN
  /\ read' = [read EXCEPT ![t] = [r EXCEPT !.at = r.at + 1, !.mixed = r.mixed \/ (last /\ MidFill)]]
  /\ Goto(t, IF last THEN "peak" ELSE "read_qty")

(* ... the mark,                                                           *)
EquityMark(t) ==
  /\ pc[t] = "read_mark"
  /\ LET r == [read[t] EXCEPT !.mark = rm.mark[read[t].at]] IN
     IF r.qty > 0 /\ r.mark > 0 THEN read' = [read EXCEPT ![t] = r] /\ Goto(t, "read_cost")
                                ELSE NextLocate(t, r)
  /\ ReadOnly

(* ... and, where something is held and marked, the cost.                  *)
EquityCost(t) ==
  /\ pc[t] = "read_cost"
  /\ NextLocate(t, [read[t] EXCEPT !.sum = @ + read[t].qty * (read[t].mark - rm.cost[read[t].at])])
  /\ ReadOnly

(* Mutant of UpdateEquityTest: the comparison is the wrong way round.      *)
UpdateEquityTest_Swapped(t) ==
  /\ pc[t] = "peak"
  /\ Goto(t, IF read[t].sum < rm.peak THEN "store" ELSE "idle")
  /\ UNCHANGED read /\ ReadOnly

(* ... the comparison with the peak,                                       *)
UpdateEquityTest(t) ==
  /\ pc[t] = "peak"
  /\ Goto(t, IF read[t].sum > rm.peak THEN "store" ELSE "idle")
  /\ UNCHANGED read /\ ReadOnly

(* Mutant of UpdateEquityStore: the raise is added to the peak twice.      *)
UpdateEquityStore_Double(t) ==
  /\ pc[t] = "store"
  /\ rm' = [rm EXCEPT !.peak = 2 * read[t].sum - rm.peak]
  /\ torn' = (torn \/ read[t].mixed)
  /\ raced' = (raced \/ read[t].sum < rm.peak)
  /\ Goto(t, "idle")
  /\ UNCHANGED <<read, filling, marks, fills, high>>

(* ... and the store.                                                      *)
UpdateEquityStore(t) ==
  /\ pc[t] = "store"
  /\ rm' = [rm EXCEPT !.peak = read[t].sum]
  /\ torn' = (torn \/ read[t].mixed)
  /\ raced' = (raced \/ read[t].sum < rm.peak)
  /\ Goto(t, "idle")
  /\ UNCHANGED <<read, filling, marks, fills, high>>

UpdateEquityStep(t) ==
  \/ EquityPnl(t) \/ EquityQty(t) \/ EquityMark(t) \/ EquityCost(t)
  \/ UpdateEquityTest(t) \/ UpdateEquityStore(t)

MarkNext ==
  \/ \E w \in Markers, s \in Symbols, p \in Prices : MarkStore(w, s, p)
  \/ \E o \in Fills : FillPnl(o)
  \/ FillQty \/ FillCost
  \/ \E t \in Threads : UpdateEquityStep(t)

MarkSpec == MarkInit /\ [][MarkNext]_markVars
-----------------------------------------------------------------------------
(* The peak is an equity the account really had, whatever the order of     *)
(* marks and fills, unless a reading was stored that was not of one        *)
(* moment: something it had read was changed before its end, or it ended   *)
(* between a fill's stores.  Changes ahead of the reading do no harm.      *)
PeakWasRealUnlessTorn == ~torn => rm.peak <= high

(* Unless a thread stored over a higher peak, the peak covers the equity   *)
(* once all calls have returned, whatever was stored during the readings:  *)
(* no high is missed by everyone.                                          *)
PeakCoversUnlessRaced ==
  ~raced /\ (\A t \in Threads : pc[t] = "idle") => rm.peak >= Equity(rm)

=============================================================================
