----------------------- MODULE ExecutionEngineProofs -----------------------
(***************************************************************************)
(* Proofs about execution/execution_engine.h and oms/order_manager.h in    *)
(* conversation with the exchange, for any number of symbols, orders and   *)
(* marks, any quantities and any risk limits.                              *)
(***************************************************************************)
EXTENDS ExecutionEngine, SequenceTheorems, SumLemmas

Statuses == Live \cup Terminal
Entries  == [sym : Symbols, side : Sides, price : Nat, quantity : Nat,
             status : Statuses, filled : Nat, remaining : Nat, avg : Int]
Books    == [orders : Seq(Entries), open : [Symbols -> SUBSET Nat]]

(* Every share of an order is either filled or remaining.                  *)
FillsFit(b) == \A k \in 1 .. Len(b.orders) :
  b.orders[k].filled + b.orders[k].remaining = b.orders[k].quantity

IndexExact(b) == \A s \in Symbols :
  b.open[s] = {k \in 1 .. Len(b.orders) : b.orders[k].sym = s /\ b.orders[k].status \in Live}

BookOK(b) == b \in Books /\ FillsFit(b) /\ IndexExact(b)

Commands == [type : {"O", "X"}, id : Nat]
Reports  == [type : {"A", "J", "C", "E"}, id : Nat, qty : Nat, price : Nat]

(* The two streams name orders that exist, on both sides.                  *)
StreamsOK ==
  /\ toExch \in Seq(Commands)
  /\ fromExch \in Seq(Reports)
  /\ exch \in Seq([st : {"unknown", "open", "done"}, leaves : Nat])
  /\ executed \in Seq(Nat)
  /\ Len(exch) = Len(om.orders) /\ Len(executed) = Len(om.orders)
  /\ \A k \in 1 .. Len(toExch) : toExch[k].id \in Ids
  /\ \A k \in 1 .. Len(fromExch) : fromExch[k].id \in Ids

(* An order on its way to the exchange is unknown there, PENDING here, and *)
(* nothing else about it is on its way in either direction.                *)
Undecided ==
  \A k \in 1 .. Len(toExch) : toExch[k].type = "O" =>
    /\ om.orders[toExch[k].id].status = "PENDING"
    /\ exch[toExch[k].id].st = "unknown"
    /\ \A j \in 1 .. Len(fromExch) : fromExch[j].id # toExch[k].id
    /\ \A j \in 1 .. Len(toExch) : toExch[j].id = toExch[k].id => j = k

(* The exchange is done with an order before it says so, and stays done.   *)
Answered ==
  /\ \A j \in 1 .. Len(fromExch) :
       fromExch[j].type \in {"C", "J"} => exch[fromExch[j].id].st = "done"
  /\ \A id \in Ids :
       /\ om.orders[id].status = "CANCELLED" => exch[id].st = "done"
       /\ om.orders[id].status = "REJECTED" => exch[id].st # "open"

(* PendingIsInFlight, by position in the streams.                          *)
Awaited ==
  \A id \in Ids : om.orders[id].status = "PENDING" =>
    \/ \E k \in 1 .. Len(toExch) : toExch[k].id = id /\ toExch[k].type = "O"
    \/ \E j \in 1 .. Len(fromExch) : fromExch[j].id = id /\ fromExch[j].type \in {"A", "J"}

EngineInv == BookOK(om) /\ StreamsOK /\ Undecided /\ Answered /\ Awaited

(* The shares of order id that report r executes.                          *)
Shares(r, id) == IF r.type = "E" /\ r.id = id THEN r.qty ELSE 0

(* The executions of an order are booked or on the wire: a running total   *)
(* starts at or above what OMS has booked, grows by what each report on    *)
(* the wire executes and ends at or below what the exchange executed.      *)
Trail(id) ==
  \E c \in [1 .. Len(fromExch) + 1 -> 0 .. executed[id]] :
    /\ om.orders[id].filled <= c[1]
    /\ \A j \in 1 .. Len(fromExch) : c[j] + Shares(fromExch[j], id) <= c[j + 1]

Whole(id)   == om.orders[id].status = "FILLED" => om.orders[id].filled = om.orders[id].quantity
Divided(id) == exch[id].leaves + executed[id] = om.orders[id].quantity

TradesOK == \A id \in Ids : Whole(id) /\ Divided(id) /\ Trail(id)
-----------------------------------------------------------------------------
(* The order manager.  Every call replaces one entry of the book.          *)
Replace(b, id, e, idx) == [orders |-> [b.orders EXCEPT ![id] = e], open |-> idx]
Dropped(b, id) == [b.open EXCEPT ![b.orders[id].sym] = @ \ {id}]

(* The parts of an order manager's state.                                  *)
LEMMA BookTypes ==
  ASSUME NEW b \in Books
  PROVE  /\ b.orders \in Seq(Entries) /\ Len(b.orders) \in Nat
         /\ b.open \in [Symbols -> SUBSET Nat]
         /\ \A k \in 1 .. Len(b.orders) : b.orders[k] \in Entries
<1>1. b.orders \in Seq(Entries) /\ b.open \in [Symbols -> SUBSET Nat]
  BY DEF Books
<1> QED BY <1>1, LenProperties, ElementOfSeq

(* Replacing the entry of one order.                                       *)
LEMMA ReplaceTypes ==
  ASSUME NEW b \in Books, NEW id \in 1 .. Len(b.orders), NEW e \in Entries,
         NEW idx \in [Symbols -> SUBSET Nat]
  PROVE  LET m == Replace(b, id, e, idx)
         IN  /\ m \in Books /\ Len(m.orders) = Len(b.orders) /\ m.open = idx
             /\ m.orders[id] = e
             /\ \A k \in 1 .. Len(b.orders) : k # id => m.orders[k] = b.orders[k]
<1>1. b.orders \in Seq(Entries)
  BY BookTypes
<1>2. /\ [b.orders EXCEPT ![id] = e] \in Seq(Entries)
      /\ Len([b.orders EXCEPT ![id] = e]) = Len(b.orders)
      /\ \A k \in 1 .. Len(b.orders) :
           [b.orders EXCEPT ![id] = e][k] = IF k = id THEN e ELSE b.orders[k]
  BY <1>1, ExceptSeq
<1> QED BY <1>2 DEF Replace, Books

(* A live order may change without leaving the live ones, or become        *)
(* terminal and leave the index; either keeps the book in order.           *)
LEMMA ReplaceKeepsBook ==
  ASSUME NEW b, BookOK(b), NEW id \in 1 .. Len(b.orders), NEW e \in Entries, NEW idx,
         e.sym = b.orders[id].sym, e.filled + e.remaining = e.quantity,
         b.orders[id].status \in Live,
         \/ e.status \in Live /\ idx = b.open
         \/ e.status \in Terminal /\ idx = Dropped(b, id)
  PROVE  BookOK(Replace(b, id, e, idx))
<1> DEFINE m == Replace(b, id, e, idx)
<1>0. b \in Books
  BY DEF BookOK
<1>1. /\ b.open \in [Symbols -> SUBSET Nat] /\ b.orders[id].sym \in Symbols
  BY <1>0, BookTypes DEF Entries
<1>2. idx \in [Symbols -> SUBSET Nat]
  BY <1>1 DEF Dropped
<1>3. /\ m \in Books /\ Len(m.orders) = Len(b.orders) /\ m.open = idx
      /\ m.orders[id] = e
      /\ \A k \in 1 .. Len(b.orders) : k # id => m.orders[k] = b.orders[k]
  BY <1>0, <1>2, ReplaceTypes
<1> HIDE DEF m
<1>4. FillsFit(m)
  BY <1>3 DEF FillsFit, BookOK
<1>5. Live \cap Terminal = {}
  BY DEF Live, Terminal
<1>6. ASSUME NEW s \in Symbols
      PROVE  idx[s] = {k \in 1 .. Len(m.orders) : m.orders[k].sym = s /\ m.orders[k].status \in Live}
  <2>1. b.open[s] = {k \in 1 .. Len(b.orders) : b.orders[k].sym = s /\ b.orders[k].status \in Live}
    BY DEF BookOK, IndexExact
  <2>2. CASE e.status \in Live /\ idx = b.open
    BY <1>3, <2>1, <2>2
  <2>3. CASE e.status \in Terminal /\ idx = Dropped(b, id)
    <3>1. idx[s] = IF s = b.orders[id].sym THEN b.open[s] \ {id} ELSE b.open[s]
      BY <1>1, <2>3 DEF Dropped
    <3>2. e.status \notin Live
      BY <1>5, <2>3
    <3> QED BY <1>3, <2>1, <3>1, <3>2
  <2> QED BY <2>2, <2>3
<1> QED BY <1>3, <1>4, <1>6 DEF BookOK, IndexExact, m

(* Both ways to change a status replace one entry.                         *)
LEMMA SetStatusIs ==
  ASSUME NEW b \in Books, NEW id \in 1 .. Len(b.orders), NEW st \in Statuses
  PROVE  /\ SetStatus(b, id, st) =
              Replace(b, id, [b.orders[id] EXCEPT !.status = st], b.open)
         /\ Retire(b, id, st) =
              Replace(b, id, [b.orders[id] EXCEPT !.status = st], Dropped(b, id))
         /\ [b.orders[id] EXCEPT !.status = st] \in Entries
<1> DEFINE os == [b.orders EXCEPT ![id] = [b.orders[id] EXCEPT !.status = st]]
           m  == SetStatus(b, id, st)
           op == [b.open EXCEPT ![b.orders[id].sym] = b.open[b.orders[id].sym] \ {id}]
<1>1. b = [orders |-> b.orders, open |-> b.open] /\ b.orders[id] \in Entries
  BY BookTypes DEF Books
<1>2. m = [b EXCEPT !.orders = os]
  BY DEF SetStatus
<1> HIDE DEF os
<1>3. [b EXCEPT !.orders = os] = [orders |-> os, open |-> b.open]
  BY <1>1
<1>4. m = [orders |-> os, open |-> b.open]
  BY <1>2, <1>3
<1>5. Retire(b, id, st) = [m EXCEPT !.open = [m.open EXCEPT ![b.orders[id].sym] = @ \ {id}]]
  BY DEF Retire
<1> HIDE DEF m
<1>6. m.open = b.open
  BY <1>4
<1>7. Retire(b, id, st) = [m EXCEPT !.open = op]
  BY <1>5, <1>6
<1> HIDE DEF op
<1>8. Retire(b, id, st) = [orders |-> os, open |-> op]
  BY <1>4, <1>7
<1>9. [b.orders[id] EXCEPT !.status = st] \in Entries
  BY <1>1 DEF Entries
<1> QED BY <1>4, <1>8, <1>9 DEF Replace, Dropped, os, op, m

(* What one call on order id may do: the book stays in order, the other    *)
(* entries stay as they are, and the status goes from st to one of next.   *)
Moves(b, m, id, st, next) ==
  /\ BookOK(m) /\ Len(m.orders) = Len(b.orders)
  /\ \A k \in 1 .. Len(b.orders) : k # id => m.orders[k] = b.orders[k]
  /\ IF b.orders[id].status \in st THEN m.orders[id].status \in next ELSE m = b

(* What one call may book: at most n shares, on order id, and none back;   *)
(* FILLED only once the order is whole.                                    *)
SameTerms(d, e) == d.sym = e.sym /\ d.side = e.side /\ d.quantity = e.quantity

BooksAtMost(b, m, id, n) ==
  \A k \in 1 .. Len(b.orders) :
    /\ m.orders[k].quantity = b.orders[k].quantity
    /\ SameTerms(m.orders[k], b.orders[k])
    /\ b.orders[k].filled <= m.orders[k].filled
    /\ m.orders[k].filled <= b.orders[k].filled + (IF k = id THEN n ELSE 0)
    /\ m.orders[k].status = "FILLED" =>
         \/ m.orders[k].filled = m.orders[k].quantity
         \/ b.orders[k].status = "FILLED" /\ m.orders[k].filled = b.orders[k].filled

(* A replaced entry books at most the shares it adds.                      *)
LEMMA ReplaceBooks ==
  ASSUME NEW b \in Books, NEW id \in 1 .. Len(b.orders), NEW e \in Entries,
         NEW idx \in [Symbols -> SUBSET Nat], NEW n \in Nat,
         SameTerms(e, b.orders[id]),
         e.filled <= b.orders[id].filled + n, b.orders[id].filled <= e.filled,
         e.status = "FILLED" => e.filled = e.quantity
  PROVE  BooksAtMost(b, Replace(b, id, e, idx), id, n)
<1> DEFINE m == Replace(b, id, e, idx)
<1>1. /\ m.orders[id] = e
      /\ \A k \in 1 .. Len(b.orders) : k # id => m.orders[k] = b.orders[k]
  BY ReplaceTypes
<1>2. \A k \in 1 .. Len(b.orders) : b.orders[k].filled \in Nat
  BY BookTypes DEF Entries
<1>3. \A k \in 1 .. Len(b.orders) : /\ b.orders[k].filled <= b.orders[k].filled + 0
                                     /\ b.orders[k].filled <= b.orders[k].filled
                                     /\ SameTerms(b.orders[k], b.orders[k])
  BY <1>2 DEF SameTerms
<1> HIDE DEF m
<1>4. ASSUME NEW k \in 1 .. Len(b.orders)
      PROVE  /\ SameTerms(m.orders[k], b.orders[k])
             /\ b.orders[k].filled <= m.orders[k].filled
             /\ m.orders[k].filled <= b.orders[k].filled + (IF k = id THEN n ELSE 0)
             /\ m.orders[k].status = "FILLED" =>
                  \/ m.orders[k].filled = m.orders[k].quantity
                  \/ b.orders[k].status = "FILLED" /\ m.orders[k].filled = b.orders[k].filled
  <2>1. CASE k = id
    BY <1>1, <2>1
  <2>2. CASE k # id
    BY <1>1, <1>3, <2>2
  <2> QED BY <2>1, <2>2
<1> QED BY <1>4 DEF BooksAtMost, SameTerms, m

(* A call that does nothing books nothing.                                 *)
LEMMA BooksNothing ==
  ASSUME NEW b \in Books, NEW id
  PROVE  BooksAtMost(b, b, id, 0)
<1>1. \A k \in 1 .. Len(b.orders) : b.orders[k].filled \in Nat
  BY BookTypes DEF Entries
<1>2. \A k \in 1 .. Len(b.orders) :
        /\ b.orders[k].filled <= b.orders[k].filled + (IF k = id THEN 0 ELSE 0)
        /\ b.orders[k].filled <= b.orders[k].filled
  BY <1>1
<1> QED BY <1>2 DEF BooksAtMost, SameTerms

(* A change of status books nothing.                                       *)
LEMMA StatusBooks ==
  ASSUME NEW b \in Books, NEW id \in 1 .. Len(b.orders), NEW st \in Statuses \ {"FILLED"}
  PROVE  /\ BooksAtMost(b, SetStatus(b, id, st), id, 0)
         /\ BooksAtMost(b, Retire(b, id, st), id, 0)
<1> DEFINE e == [b.orders[id] EXCEPT !.status = st]
<1>1. b.orders[id] \in Entries /\ b.open \in [Symbols -> SUBSET Nat]
  BY BookTypes
<1>2. Dropped(b, id) \in [Symbols -> SUBSET Nat]
  BY <1>1 DEF Dropped, Entries
<1>3. /\ SetStatus(b, id, st) = Replace(b, id, e, b.open)
      /\ Retire(b, id, st) = Replace(b, id, e, Dropped(b, id)) /\ e \in Entries
  BY SetStatusIs
<1>4. SameTerms(e, b.orders[id]) /\ e.filled = b.orders[id].filled /\ e.status # "FILLED"
  BY <1>1 DEF Entries, SameTerms
<1>5. b.orders[id].filled \in Nat
  BY <1>1 DEF Entries
<1> HIDE DEF e
<1>6. e.filled <= b.orders[id].filled + 0 /\ b.orders[id].filled <= e.filled
  BY <1>4, <1>5
<1> QED BY <1>1, <1>2, <1>3, <1>4, <1>6, ReplaceBooks

(* No call of the manager but a fill books shares.                         *)
LEMMA CallBooks ==
  ASSUME NEW b \in Books, NEW id \in 1 .. Len(b.orders)
  PROVE  /\ BooksAtMost(b, OnAccept(b, id), id, 0) /\ BooksAtMost(b, OnReject(b, id), id, 0)
         /\ BooksAtMost(b, OnCancel(b, id), id, 0) /\ BooksAtMost(b, RequestCancel(b, id), id, 0)
<1>1. {"SUBMITTED", "REJECTED", "CANCELLED", "PENDING_CANCEL"} \subseteq Statuses \ {"FILLED"}
  BY DEF Statuses, Live, Terminal
<1> QED BY <1>1, StatusBooks, BooksNothing DEF OnAccept, OnReject, OnCancel, RequestCancel

(* A replaced entry moves one order along the arrows.                      *)
LEMMA ReplaceMoves ==
  ASSUME NEW b, BookOK(b), NEW id \in 1 .. Len(b.orders), NEW e \in Entries, NEW idx,
         NEW st \in SUBSET Live, NEW next,
         e.sym = b.orders[id].sym, e.filled + e.remaining = e.quantity,
         b.orders[id].status \in st, e.status \in next,
         \/ e.status \in Live /\ idx = b.open
         \/ e.status \in Terminal /\ idx = Dropped(b, id)
  PROVE  Moves(b, Replace(b, id, e, idx), id, st, next)
<1>1. BookOK(Replace(b, id, e, idx))
  BY ReplaceKeepsBook
<1>2. b \in Books /\ b.open \in [Symbols -> SUBSET Nat] /\ b.orders[id].sym \in Symbols
  BY BookTypes DEF BookOK, Entries
<1>3. idx \in [Symbols -> SUBSET Nat]
  BY <1>2 DEF Dropped
<1> QED BY <1>1, <1>2, <1>3, ReplaceTypes DEF Moves

(* A change of status does, if the index follows.                          *)
LEMMA StatusMoves ==
  ASSUME NEW b, BookOK(b), NEW id \in 1 .. Len(b.orders), NEW st \in SUBSET Live,
         b.orders[id].status \in st, NEW new \in Statuses
  PROVE  /\ new \in Live => Moves(b, SetStatus(b, id, new), id, st, {new})
         /\ new \in Terminal => Moves(b, Retire(b, id, new), id, st, {new})
<1> DEFINE e == [b.orders[id] EXCEPT !.status = new]
<1>1. b \in Books /\ b.orders[id] \in Entries
  BY BookTypes DEF BookOK
<1>2. /\ e \in Entries /\ e.sym = b.orders[id].sym /\ e.status = new
      /\ e.filled = b.orders[id].filled /\ e.remaining = b.orders[id].remaining
      /\ e.quantity = b.orders[id].quantity
  BY <1>1 DEF Entries
<1>3. e.filled + e.remaining = e.quantity
  BY <1>2 DEF BookOK, FillsFit
<1>4. /\ SetStatus(b, id, new) = Replace(b, id, e, b.open)
      /\ Retire(b, id, new) = Replace(b, id, e, Dropped(b, id))
  BY <1>1, SetStatusIs
<1> HIDE DEF e
<1>5. new \in Live => Moves(b, Replace(b, id, e, b.open), id, st, {new})
  BY <1>2, <1>3, ReplaceMoves
<1>6. new \in Terminal => Moves(b, Replace(b, id, e, Dropped(b, id)), id, st, {new})
  BY <1>2, <1>3, ReplaceMoves
<1> QED BY <1>4, <1>5, <1>6

(* The arrow each call of the manager takes.                               *)
LEMMA CallMoves ==
  ASSUME NEW b, BookOK(b), NEW id \in 1 .. Len(b.orders)
  PROVE  /\ Moves(b, OnAccept(b, id), id, {"PENDING"}, {"SUBMITTED"})
         /\ Moves(b, OnReject(b, id), id, {"PENDING"}, {"REJECTED"})
         /\ Moves(b, OnCancel(b, id), id, {"PENDING_CANCEL"}, {"CANCELLED"})
         /\ Moves(b, RequestCancel(b, id), id, Fillable, {"PENDING_CANCEL"})
<1>0. {"PENDING"} \in SUBSET Live /\ {"PENDING_CANCEL"} \in SUBSET Live /\ Fillable \in SUBSET Live
  BY DEF Live, Fillable
<1>1. Moves(b, OnAccept(b, id), id, {"PENDING"}, {"SUBMITTED"})
  <2>1. CASE b.orders[id].status = "PENDING"
    BY <1>0, <2>1, StatusMoves DEF OnAccept, Statuses, Live
  <2>2. CASE b.orders[id].status # "PENDING"
    BY <2>2 DEF OnAccept, Moves
  <2> QED BY <2>1, <2>2
<1>2. Moves(b, OnReject(b, id), id, {"PENDING"}, {"REJECTED"})
  <2>1. CASE b.orders[id].status = "PENDING"
    BY <1>0, <2>1, StatusMoves DEF OnReject, Statuses, Terminal
  <2>2. CASE b.orders[id].status # "PENDING"
    BY <2>2 DEF OnReject, Moves
  <2> QED BY <2>1, <2>2
<1>3. Moves(b, OnCancel(b, id), id, {"PENDING_CANCEL"}, {"CANCELLED"})
  <2>1. CASE b.orders[id].status = "PENDING_CANCEL"
    BY <1>0, <2>1, StatusMoves DEF OnCancel, Statuses, Terminal
  <2>2. CASE b.orders[id].status # "PENDING_CANCEL"
    BY <2>2 DEF OnCancel, Moves
  <2> QED BY <2>1, <2>2
<1>4. Moves(b, RequestCancel(b, id), id, Fillable, {"PENDING_CANCEL"})
  <2>1. CASE b.orders[id].status \in Fillable
    BY <1>0, <2>1, StatusMoves DEF RequestCancel, CanCancel, Statuses, Live
  <2>2. CASE b.orders[id].status \notin Fillable
    BY <2>2 DEF RequestCancel, CanCancel, Moves
  <2> QED BY <2>1, <2>2
<1> QED BY <1>1, <1>2, <1>3, <1>4

(* A change of status changes nothing else of the order.                   *)
LEMMA StatusFields ==
  ASSUME NEW b \in Books, NEW id \in 1 .. Len(b.orders), NEW st \in Statuses
  PROVE  /\ SetStatus(b, id, st).orders[id] = [b.orders[id] EXCEPT !.status = st]
         /\ Retire(b, id, st).orders[id] = [b.orders[id] EXCEPT !.status = st]
<1> DEFINE e == [b.orders[id] EXCEPT !.status = st]
<1>1. b.open \in [Symbols -> SUBSET Nat] /\ Dropped(b, id) \in [Symbols -> SUBSET Nat]
  BY BookTypes DEF Dropped, Entries
<1>2. /\ SetStatus(b, id, st) = Replace(b, id, e, b.open)
      /\ Retire(b, id, st) = Replace(b, id, e, Dropped(b, id)) /\ e \in Entries
  BY SetStatusIs
<1> HIDE DEF e
<1> QED BY <1>1, <1>2, ReplaceTypes DEF e

(* A fill never books more than the order's quantity, nor more than the    *)
(* shares that were executed.                                              *)
LEMMA FillMoves ==
  ASSUME NEW b, BookOK(b), NEW id \in 1 .. Len(b.orders), NEW qty \in Nat, NEW price \in Nat
  PROVE  /\ Moves(b, OnFill(b, id, qty, price), id, Fillable, {"PARTIAL_FILL", "FILLED"})
         /\ BooksAtMost(b, OnFill(b, id, qty, price), id, qty)
<1>0. CASE b.orders[id].status \notin Fillable
  <2>1. OnFill(b, id, qty, price) = b /\ b \in Books
    BY <1>0 DEF OnFill, BookOK
  <2>2. \A k \in 1 .. Len(b.orders) : b.orders[k].filled \in Nat
    BY <2>1, BookTypes DEF Entries
  <2>3. \A k \in 1 .. Len(b.orders) :
          /\ b.orders[k].filled <= b.orders[k].filled + (IF k = id THEN qty ELSE 0)
          /\ b.orders[k].filled <= b.orders[k].filled
    BY <2>2
  <2> QED BY <1>0, <2>1, <2>3 DEF Moves, BooksAtMost, SameTerms
<1>1. CASE b.orders[id].status \in Fillable
  <2> DEFINE e  == b.orders[id]
             n  == IF e.filled + qty > e.quantity THEN e.remaining ELSE qty
             nf == e.filled + n
             av == IF nf = 0 THEN 0 ELSE (e.avg * e.filled + price * n) \div nf
             e1 == [e EXCEPT !.filled = nf, !.remaining = e.quantity - nf, !.avg = av]
             m  == [b EXCEPT !.orders[id].filled = nf,
                             !.orders[id].remaining = e.quantity - nf,
                             !.orders[id].avg = av]
  <2>1. b \in Books /\ e \in Entries /\ b = [orders |-> b.orders, open |-> b.open]
    BY BookTypes DEF BookOK, Books
  <2>2. /\ e.filled \in Nat /\ e.remaining \in Nat /\ e.quantity \in Nat /\ e.avg \in Int
        /\ e.filled + e.remaining = e.quantity
    BY <2>1 DEF Entries, BookOK, FillsFit
  <2>3. OnFill(b, id, qty, price) =
          IF nf >= e.quantity THEN Retire(m, id, "FILLED") ELSE SetStatus(m, id, "PARTIAL_FILL")
    BY <1>1 DEF OnFill, Fill
  <2> HIDE DEF e
  <2>4. n \in Nat /\ e.filled + n <= e.quantity /\ n <= qty
    BY <2>2
  <2> HIDE DEF n
  <2>5. /\ nf \in Nat /\ e.quantity - nf \in Nat /\ nf + (e.quantity - nf) = e.quantity
        /\ nf <= e.filled + qty /\ (nf >= e.quantity => nf = e.quantity)
    <3>1. e.filled \in Nat /\ e.quantity \in Nat /\ n \in Nat
      BY <2>2, <2>4
    <3>2. nf \in Nat /\ nf <= e.quantity /\ nf <= e.filled + qty
      BY <2>4, <3>1
    <3> HIDE DEF nf
    <3>3. e.quantity - nf \in Nat /\ nf + (e.quantity - nf) = e.quantity
      BY <3>1, <3>2
    <3>4. nf >= e.quantity => nf = e.quantity
      BY <3>1, <3>2
    <3> QED BY <3>2, <3>3, <3>4
  <2>18. e.filled <= nf
    BY <2>2, <2>4
  <2>6. av \in Int
    <3>1. e.avg * e.filled + price * n \in Int
      BY <2>2, <2>4
    <3> HIDE DEF nf
    <3> QED BY <2>5, <3>1
  <2> HIDE DEF nf, av
  <2>7. /\ e1 \in Entries /\ e1.sym = e.sym /\ e1.status = e.status
        /\ e1.filled + e1.remaining = e1.quantity
        /\ e1.filled = nf /\ e1.quantity = e.quantity /\ e1.side = e.side
    BY <2>1, <2>5, <2>6 DEF Entries
  <2> HIDE DEF e1
  <2>8. m = Replace(b, id, e1, b.open)
    <3> DEFINE os == [b.orders EXCEPT ![id] = e1]
    <3>1. m = [b EXCEPT !.orders = os]
      BY <2>1, BookTypes DEF e, e1
    <3> HIDE DEF os
    <3>2. [b EXCEPT !.orders = os] = [orders |-> os, open |-> b.open]
      BY <2>1
    <3> QED BY <3>1, <3>2 DEF Replace, os
  <2> HIDE DEF m
  <2>9. Fillable \in SUBSET Live
    BY DEF Fillable, Live
  <2>10. Moves(b, m, id, Fillable, Fillable) /\ m.orders[id].status \in Fillable
    <3>1. e1.status \in Fillable
      BY <1>1, <2>7 DEF e
    <3>2. Moves(b, m, id, Fillable, Fillable)
      BY <1>1, <2>7, <2>8, <2>9, <3>1, ReplaceMoves DEF e
    <3> QED BY <1>1, <3>2 DEF Moves
  <2>11. BookOK(m) /\ Len(m.orders) = Len(b.orders)
    BY <2>10 DEF Moves
  <2>12. /\ Moves(m, Retire(m, id, "FILLED"), id, Fillable, {"FILLED"})
         /\ Moves(m, SetStatus(m, id, "PARTIAL_FILL"), id, Fillable, {"PARTIAL_FILL"})
    BY <2>9, <2>10, <2>11, StatusMoves DEF Statuses, Live, Terminal
  <2>13. Moves(b, OnFill(b, id, qty, price), id, Fillable, {"PARTIAL_FILL", "FILLED"})
    BY <1>1, <2>3, <2>10, <2>12 DEF Moves
  <2> DEFINE r == OnFill(b, id, qty, price)
  <2>14. /\ r.orders[id].filled = nf /\ r.orders[id].quantity = e.quantity
         /\ r.orders[id].sym = e.sym /\ r.orders[id].side = e.side
         /\ r.orders[id].status = "FILLED" => nf = e.quantity
    <3>1. m.orders[id] = e1
      BY <2>1, <2>7, <2>8, BookTypes, ReplaceTypes
    <3>2. /\ Retire(m, id, "FILLED").orders[id] = [e1 EXCEPT !.status = "FILLED"]
          /\ SetStatus(m, id, "PARTIAL_FILL").orders[id] = [e1 EXCEPT !.status = "PARTIAL_FILL"]
      <4>1. m \in Books /\ id \in 1 .. Len(m.orders)
        BY <2>11 DEF BookOK
      <4>2. "FILLED" \in Statuses /\ "PARTIAL_FILL" \in Statuses
        BY DEF Statuses, Live, Terminal
      <4>3. /\ Retire(m, id, "FILLED").orders[id] = [m.orders[id] EXCEPT !.status = "FILLED"]
            /\ SetStatus(m, id, "PARTIAL_FILL").orders[id] =
                 [m.orders[id] EXCEPT !.status = "PARTIAL_FILL"]
        BY <4>1, <4>2, StatusFields
      <4> QED BY <3>1, <4>3
    <3>3. ASSUME NEW st
          PROVE  /\ [e1 EXCEPT !.status = st].filled = nf
                 /\ [e1 EXCEPT !.status = st].quantity = e.quantity
                 /\ [e1 EXCEPT !.status = st].sym = e.sym
                 /\ [e1 EXCEPT !.status = st].side = e.side
                 /\ [e1 EXCEPT !.status = st].status = st
      BY <2>7 DEF Entries
    <3>4. CASE nf >= e.quantity
      <4>1. r.orders[id] = [e1 EXCEPT !.status = "FILLED"]
        BY <2>3, <3>2, <3>4
      <4> QED BY <2>5, <3>3, <3>4, <4>1
    <3>5. CASE ~(nf >= e.quantity)
      <4>1. r.orders[id] = [e1 EXCEPT !.status = "PARTIAL_FILL"]
        BY <2>3, <3>2, <3>5
      <4> QED BY <3>3, <4>1
    <3> QED BY <3>4, <3>5
  <2>15. \A k \in 1 .. Len(b.orders) : k # id => r.orders[k] = b.orders[k]
    BY <2>13 DEF Moves
  <2>16. \A k \in 1 .. Len(b.orders) : /\ b.orders[k].filled <= b.orders[k].filled + 0
                                       /\ b.orders[k].filled <= b.orders[k].filled
    <3>1. \A k \in 1 .. Len(b.orders) : b.orders[k].filled \in Nat
      BY <2>1, BookTypes DEF Entries
    <3> QED BY <3>1
  <2> HIDE DEF r
  <2>17. ASSUME NEW k \in 1 .. Len(b.orders)
         PROVE  /\ SameTerms(r.orders[k], b.orders[k])
                /\ b.orders[k].filled <= r.orders[k].filled
                /\ r.orders[k].filled <= b.orders[k].filled + (IF k = id THEN qty ELSE 0)
                /\ r.orders[k].status = "FILLED" =>
                     \/ r.orders[k].filled = r.orders[k].quantity
                     \/ b.orders[k].status = "FILLED" /\ r.orders[k].filled = b.orders[k].filled
    <3>1. CASE k = id
      BY <2>5, <2>14, <2>18, <3>1 DEF e, SameTerms
    <3>2. CASE k # id
      BY <2>15, <2>16, <3>2 DEF SameTerms
    <3> QED BY <3>1, <3>2
  <2> QED BY <2>13, <2>17 DEF BooksAtMost, SameTerms, r
<1> QED BY <1>0, <1>1

(* new_order(): one more entry, PENDING and in the index.                  *)
LEMMA NewOrderBook ==
  ASSUME NEW b, BookOK(b), NEW o \in [sym : Symbols, side : Sides, price : Nat, quantity : Nat]
  PROVE  LET m == NewOrder(b, o)
         IN  /\ BookOK(m) /\ Len(m.orders) = Len(b.orders) + 1
             /\ \A k \in 1 .. Len(b.orders) : m.orders[k] = b.orders[k]
             /\ m.orders[Len(b.orders) + 1].status = "PENDING"
             /\ m.orders[Len(b.orders) + 1].filled = 0
             /\ m.orders[Len(b.orders) + 1].quantity = o.quantity
             /\ SameTerms(m.orders[Len(b.orders) + 1], o)
<1> DEFINE e == [sym |-> o.sym, side |-> o.side, price |-> o.price, quantity |-> o.quantity,
                 status |-> "PENDING", filled |-> 0, remaining |-> o.quantity, avg |-> 0]
           id == Len(b.orders) + 1
           os == Append(b.orders, e)
           op == [b.open EXCEPT ![o.sym] = b.open[o.sym] \cup {id}]
           m == NewOrder(b, o)
<1>1. /\ b.orders \in Seq(Entries) /\ Len(b.orders) \in Nat
      /\ b.open \in [Symbols -> SUBSET Nat]
  BY BookTypes DEF BookOK
<1>2. e \in Entries /\ e.sym = o.sym /\ e.status = "PENDING" /\ e.filled = 0
      /\ e.remaining = o.quantity /\ e.quantity = o.quantity /\ SameTerms(e, o)
  BY DEF Entries, Statuses, Live, SameTerms
<1>3. m = [orders |-> os, open |-> op]
  BY DEF NewOrder
<1> HIDE DEF e
<1>4. /\ os \in Seq(Entries) /\ Len(os) = Len(b.orders) + 1 /\ os[id] = e
      /\ \A k \in 1 .. Len(b.orders) : os[k] = b.orders[k]
  BY <1>1, <1>2, AppendProperties
<1>5. op \in [Symbols -> SUBSET Nat]
  BY <1>1
<1>6. \A k \in 1 .. Len(os) : k \in 1 .. Len(b.orders) \/ k = id
  BY <1>1, <1>4
<1>7. 0 + o.quantity = o.quantity /\ id \notin 1 .. Len(b.orders) /\ id \in 1 .. Len(os)
      /\ \A k \in 1 .. Len(b.orders) : k \in 1 .. Len(os)
  BY <1>1, <1>4
<1> HIDE DEF os, id
<1>8. \A k \in 1 .. Len(os) : os[k].filled + os[k].remaining = os[k].quantity
  BY <1>2, <1>4, <1>6, <1>7 DEF BookOK, FillsFit
<1>9. ASSUME NEW s \in Symbols
      PROVE  op[s] = {k \in 1 .. Len(os) : os[k].sym = s /\ os[k].status \in Live}
  <2>1. b.open[s] = {k \in 1 .. Len(b.orders) : b.orders[k].sym = s /\ b.orders[k].status \in Live}
    BY DEF BookOK, IndexExact
  <2>2. op[s] = IF s = o.sym THEN b.open[s] \cup {id} ELSE b.open[s]
    BY <1>1
  <2>3. "PENDING" \in Live
    BY DEF Live
  <2> HIDE DEF op
  <2> QED BY <1>2, <1>4, <1>6, <1>7, <2>1, <2>2, <2>3
<1> HIDE DEF op, m
<1>10. m.orders = os /\ m.open = op /\ m \in Books
  BY <1>3, <1>4, <1>5 DEF Books
<1>11. BookOK(m)
  BY <1>8, <1>9, <1>10 DEF BookOK, FillsFit, IndexExact
<1> QED BY <1>2, <1>4, <1>10, <1>11 DEF m, id
-----------------------------------------------------------------------------
(* The engine and the exchange.                                            *)
LEMMA StreamTypes ==
  ASSUME EngineInv
  PROVE  /\ Len(om.orders) \in Nat /\ Len(toExch) \in Nat /\ Len(fromExch) \in Nat
         /\ \A k \in 1 .. Len(toExch) : toExch[k] \in Commands /\ toExch[k].id \in Ids
         /\ \A k \in 1 .. Len(fromExch) : fromExch[k] \in Reports /\ fromExch[k].id \in Ids
<1>1. /\ om \in Books /\ toExch \in Seq(Commands) /\ fromExch \in Seq(Reports)
      /\ \A k \in 1 .. Len(toExch) : toExch[k].id \in Ids
      /\ \A k \in 1 .. Len(fromExch) : fromExch[k].id \in Ids
  BY DEF EngineInv, StreamsOK, BookOK
<1>2. Len(om.orders) \in Nat
  BY <1>1, BookTypes
<1> QED BY <1>1, <1>2, LenProperties, ElementOfSeq

(* No order, no message.                                                   *)
LEMMA InitEngine == Init => EngineInv
<1> SUFFICES ASSUME Init PROVE EngineInv
  OBVIOUS
<1>1. /\ om.orders = <<>> /\ om.open = [s \in Symbols |-> {}]
      /\ om = [orders |-> <<>>, open |-> [s \in Symbols |-> {}]]
  BY DEF Init, EmptyBook
<1>2. om \in Books
  BY <1>1, EmptySeq DEF Books
<1>3. Len(om.orders) = 0
  BY <1>1, EmptySeq
<1>4. BookOK(om)
  BY <1>1, <1>2, <1>3 DEF BookOK, FillsFit, IndexExact
<1>5. /\ toExch = <<>> /\ fromExch = <<>> /\ exch = <<>> /\ executed = <<>>
      /\ Len(toExch) = 0 /\ Len(fromExch) = 0
  BY EmptySeq DEF Init
<1>6. StreamsOK
  BY <1>1, <1>5, EmptySeq DEF StreamsOK
<1> QED BY <1>3, <1>4, <1>5, <1>6 DEF EngineInv, Undecided, Answered, Awaited, Ids

(* submit_signal(): a new order, PENDING and on its way, or REJECTED and   *)
(* never sent.                                                             *)
LEMMA SubmitBook ==
  ASSUME EngineInv, SubmitSignal
  PROVE  /\ BookOK(om') /\ Len(om'.orders) = Len(om.orders) + 1
         /\ \A k \in Ids : om'.orders[k] = om.orders[k]
         /\ \E o \in [sym : Symbols, side : Sides, price : Nat, quantity : Nat], ok \in BOOLEAN :
              /\ ok => CheckOrder(rm, o)
              /\ overlap' = (overlap \/ (ok /\ om.open[o.sym] # {}))
              /\ UNCHANGED <<rm, fillIgnored>>
              /\ SameTerms(om'.orders[Len(om.orders) + 1], o)
              /\ om'.orders[Len(om.orders) + 1].status = IF ok THEN "PENDING" ELSE "REJECTED"
              /\ toExch' = IF ok THEN Append(toExch, [type |-> "O", id |-> Len(om.orders) + 1])
                            ELSE toExch
              /\ exch' = Append(exch, [st |-> "unknown", leaves |-> o.quantity])
              /\ executed' = Append(executed, 0)
              /\ fromExch' = fromExch
              /\ om'.orders[Len(om.orders) + 1].filled = 0
              /\ om'.orders[Len(om.orders) + 1].quantity = o.quantity
<1> USE EngineAssumption
<1> DEFINE n == Len(om.orders)
<1>0. n \in Nat /\ BookOK(om)
  BY StreamTypes DEF EngineInv
<1> PICK s \in Symbols, side \in Sides, q \in Quantities, p \in SignalPrices, sent \in BOOLEAN :
       Submit([sym |-> s, side |-> side, price |-> p, quantity |-> q], sent)
  BY DEF SubmitSignal
<1> DEFINE o == [sym |-> s, side |-> side, price |-> p, quantity |-> q]
           m == NewOrder(om, o)
           ok == CheckOrder(rm, o) /\ sent
<1>1. o \in [sym : Symbols, side : Sides, price : Nat, quantity : Nat]
  OBVIOUS
<1>2. /\ om' = IF ok THEN m ELSE OnReject(m, n + 1)
      /\ toExch' = IF ok THEN Append(toExch, [type |-> "O", id |-> n + 1]) ELSE toExch
      /\ exch' = Append(exch, [st |-> "unknown", leaves |-> o.quantity])
      /\ executed' = Append(executed, 0)
      /\ fromExch' = fromExch
      /\ overlap' = (overlap \/ (ok /\ om.open[o.sym] # {}))
      /\ UNCHANGED <<rm, fillIgnored>>
      /\ ok => CheckOrder(rm, o)
  BY DEF Submit
<1>3. ok \in BOOLEAN
  BY DEF CheckOrder
<1> HIDE DEF o, ok
<1>4. /\ BookOK(m) /\ Len(m.orders) = n + 1
      /\ \A k \in 1 .. n : m.orders[k] = om.orders[k]
      /\ m.orders[n + 1].status = "PENDING"
      /\ m.orders[n + 1].filled = 0 /\ m.orders[n + 1].quantity = o.quantity
      /\ SameTerms(m.orders[n + 1], o)
  BY <1>0, <1>1, NewOrderBook
<1> HIDE DEF m
<1>5. n + 1 \in 1 .. Len(m.orders) /\ \A k \in 1 .. n : k # n + 1 /\ k \in 1 .. Len(m.orders)
  BY <1>0, <1>4
<1>6. Moves(m, OnReject(m, n + 1), n + 1, {"PENDING"}, {"REJECTED"})
  BY <1>4, <1>5, CallMoves
<1> HIDE DEF n
<1>7. /\ BookOK(OnReject(m, n + 1)) /\ Len(OnReject(m, n + 1).orders) = n + 1
      /\ \A k \in 1 .. n : OnReject(m, n + 1).orders[k] = om.orders[k]
      /\ OnReject(m, n + 1).orders[n + 1].status = "REJECTED"
  BY <1>4, <1>5, <1>6 DEF Moves
<1>8. /\ BookOK(om') /\ Len(om'.orders) = n + 1
      /\ \A k \in 1 .. n : om'.orders[k] = om.orders[k]
      /\ om'.orders[n + 1].status = IF ok THEN "PENDING" ELSE "REJECTED"
  BY <1>2, <1>4, <1>7
<1>9. /\ OnReject(m, n + 1).orders[n + 1].filled = 0
      /\ SameTerms(OnReject(m, n + 1).orders[n + 1], o)
  <2> DEFINE x == OnReject(m, n + 1)
  <2>1. BooksAtMost(m, x, n + 1, 0) /\ x \in Books /\ n + 1 \in 1 .. Len(x.orders)
    BY <1>4, <1>5, <1>7, CallBooks DEF BookOK
  <2> HIDE DEF x
  <2>2. x.orders[n + 1].filled <= 0 + 0 /\ SameTerms(x.orders[n + 1], o)
    BY <1>4, <1>5, <2>1 DEF BooksAtMost, SameTerms
  <2>3. x.orders[n + 1].filled \in Nat
    BY <2>1, BookTypes DEF Entries
  <2>4. x.orders[n + 1].filled = 0
    BY <2>2, <2>3
  <2> QED BY <2>2, <2>4 DEF x
<1>10. om'.orders[n + 1].filled = 0 /\ SameTerms(om'.orders[n + 1], o)
       /\ om'.orders[n + 1].quantity = o.quantity
  BY <1>2, <1>4, <1>9 DEF SameTerms
<1> QED BY <1>1, <1>2, <1>3, <1>8, <1>10 DEF Ids, n

(* submit_signal: refused, not sent, or sent.                              *)
LEMMA SubmitStep ==
  ASSUME EngineInv, SubmitSignal
  PROVE  EngineInv'
<1> DEFINE n == Len(om.orders)
<1>1. /\ BookOK(om') /\ Len(om'.orders) = n + 1
      /\ \A k \in 1 .. n : om'.orders[k] = om.orders[k]
  BY SubmitBook DEF Ids
<1>2. PICK o \in [sym : Symbols, side : Sides, price : Nat, quantity : Nat], ok \in BOOLEAN :
        /\ om'.orders[n + 1].status = IF ok THEN "PENDING" ELSE "REJECTED"
        /\ toExch' = IF ok THEN Append(toExch, [type |-> "O", id |-> n + 1]) ELSE toExch
        /\ exch' = Append(exch, [st |-> "unknown", leaves |-> o.quantity])
        /\ executed' = Append(executed, 0)
        /\ fromExch' = fromExch
  BY SubmitBook
<1>3. /\ n \in Nat /\ Len(toExch) \in Nat
      /\ \A k \in 1 .. Len(toExch) : toExch[k] \in Commands /\ toExch[k].id \in 1 .. n
      /\ \A k \in 1 .. Len(fromExch) : fromExch[k].id \in 1 .. n
  BY StreamTypes DEF Ids
<1>4. /\ toExch \in Seq(Commands) /\ fromExch \in Seq(Reports)
      /\ exch \in Seq([st : {"unknown", "open", "done"}, leaves : Nat])
      /\ executed \in Seq(Nat) /\ Len(exch) = n /\ Len(executed) = n
  BY DEF EngineInv, StreamsOK
<1>5. [type |-> "O", id |-> n + 1] \in Commands
  BY <1>3 DEF Commands
<1> DEFINE ex == [st |-> "unknown", leaves |-> o.quantity]
<1>6. ex \in [st : {"unknown", "open", "done"}, leaves : Nat] /\ ex.st = "unknown"
  OBVIOUS
<1>15. Ids = 1 .. n /\ Ids' = 1 .. n + 1
  BY <1>1 DEF Ids
<1> HIDE DEF n, ex
<1>16. exch' = Append(exch, ex)
  BY <1>2 DEF ex
<1>7. /\ exch' \in Seq([st : {"unknown", "open", "done"}, leaves : Nat])
      /\ Len(exch') = n + 1 /\ \A k \in 1 .. n : exch'[k] = exch[k]
      /\ exch'[n + 1].st = "unknown"
  BY <1>4, <1>6, <1>16, AppendProperties
<1>8. executed' \in Seq(Nat) /\ Len(executed') = n + 1
  BY <1>2, <1>4, AppendProperties
<1>9. /\ toExch' \in Seq(Commands)
      /\ Len(toExch') = IF ok THEN Len(toExch) + 1 ELSE Len(toExch)
      /\ \A k \in 1 .. Len(toExch) : toExch'[k] = toExch[k]
      /\ ok => toExch'[Len(toExch) + 1].type = "O" /\ toExch'[Len(toExch) + 1].id = n + 1
  BY <1>2, <1>4, <1>5, AppendProperties
<1>10. \A k \in 1 .. Len(toExch') : k \in 1 .. Len(toExch) \/ (ok /\ k = Len(toExch) + 1)
  BY <1>3, <1>9
<1>11. /\ n + 1 \notin 1 .. n /\ 1 .. n \subseteq 1 .. n + 1 /\ n + 1 \in 1 .. n + 1
       /\ \A k \in 1 .. n + 1 : k \in 1 .. n \/ k = n + 1
       /\ Len(toExch) + 1 \notin 1 .. Len(toExch) /\ 1 .. Len(toExch) \subseteq 1 .. Len(toExch) + 1
       /\ Len(toExch) + 1 \in 1 .. Len(toExch) + 1
  BY <1>3
<1>20. StreamsOK'
  <2>1. \A k \in 1 .. Len(toExch') : toExch'[k].id \in Ids'
    BY <1>3, <1>9, <1>10, <1>11, <1>15
  <2>2. \A k \in 1 .. Len(fromExch') : fromExch'[k].id \in Ids'
    BY <1>2, <1>3, <1>11, <1>15
  <2> QED BY <1>1, <1>2, <1>4, <1>7, <1>8, <1>9, <2>1, <2>2 DEF StreamsOK
<1>21. Undecided'
  <2> SUFFICES ASSUME NEW k \in 1 .. Len(toExch'), toExch'[k].type = "O"
               PROVE  /\ om'.orders[toExch'[k].id].status = "PENDING"
                      /\ exch'[toExch'[k].id].st = "unknown"
                      /\ \A j \in 1 .. Len(fromExch) : fromExch[j].id # toExch'[k].id
                      /\ \A j \in 1 .. Len(toExch') : toExch'[j].id = toExch'[k].id => j = k
    <3>1. fromExch' = fromExch
      BY <1>2
    <3> QED BY <3>1 DEF Undecided
  <2>1. CASE k \in 1 .. Len(toExch)
    <3>1. /\ om.orders[toExch[k].id].status = "PENDING" /\ exch[toExch[k].id].st = "unknown"
          /\ \A j \in 1 .. Len(fromExch) : fromExch[j].id # toExch[k].id
          /\ \A j \in 1 .. Len(toExch) : toExch[j].id = toExch[k].id => j = k
      BY <1>9, <2>1 DEF EngineInv, Undecided
    <3>2. toExch'[k] = toExch[k] /\ toExch[k].id \in 1 .. n
      BY <1>3, <1>9, <2>1
    <3>3. \A j \in 1 .. Len(toExch') : toExch'[j].id = toExch'[k].id => j = k
      BY <1>9, <1>10, <1>11, <3>1, <3>2
    <3> QED BY <1>1, <1>7, <3>1, <3>2, <3>3
  <2>2. CASE ok /\ k = Len(toExch) + 1
    BY <1>2, <1>3, <1>7, <1>9, <1>10, <1>11, <2>2
  <2> QED BY <1>10, <2>1, <2>2
<1>22. Answered'
  <2>1. /\ \A j \in 1 .. Len(fromExch) :
             fromExch[j].type \in {"C", "J"} => exch[fromExch[j].id].st = "done"
        /\ \A id \in 1 .. n :
             /\ om.orders[id].status = "CANCELLED" => exch[id].st = "done"
             /\ om.orders[id].status = "REJECTED" => exch[id].st # "open"
    BY <1>15 DEF EngineInv, Answered
  <2>2. \A j \in 1 .. Len(fromExch') :
          fromExch'[j].type \in {"C", "J"} => exch'[fromExch'[j].id].st = "done"
    BY <1>2, <1>3, <1>7, <2>1
  <2>3. \A id \in 1 .. n + 1 :
          /\ om'.orders[id].status = "CANCELLED" => exch'[id].st = "done"
          /\ om'.orders[id].status = "REJECTED" => exch'[id].st # "open"
    BY <1>1, <1>2, <1>7, <1>11, <2>1
  <2> QED BY <1>15, <2>2, <2>3 DEF Answered
<1>23. Awaited'
  <2> SUFFICES ASSUME NEW id \in 1 .. n + 1, om'.orders[id].status = "PENDING"
               PROVE  \/ \E k \in 1 .. Len(toExch') : toExch'[k].id = id /\ toExch'[k].type = "O"
                      \/ \E j \in 1 .. Len(fromExch') :
                           fromExch'[j].id = id /\ fromExch'[j].type \in {"A", "J"}
    BY <1>15 DEF Awaited
  <2>1. 1 .. Len(toExch) \subseteq 1 .. Len(toExch')
    BY <1>9, <1>11
  <2>2. CASE id \in 1 .. n
    <3>1. \/ \E k \in 1 .. Len(toExch) : toExch[k].id = id /\ toExch[k].type = "O"
          \/ \E j \in 1 .. Len(fromExch) : fromExch[j].id = id /\ fromExch[j].type \in {"A", "J"}
      BY <1>1, <1>15, <2>2 DEF EngineInv, Awaited
    <3> QED BY <1>2, <1>9, <2>1, <3>1
  <2>3. CASE id = n + 1
    BY <1>2, <1>9, <1>11, <2>3
  <2> QED BY <1>11, <2>2, <2>3
<1> QED BY <1>1, <1>20, <1>21, <1>22, <1>23 DEF EngineInv

(* fill_th takes the oldest report.                                        *)
LEMMA TakeReport ==
  ASSUME EngineInv, fromExch # <<>>
  PROVE  /\ Head(fromExch) = fromExch[1] /\ 1 \in 1 .. Len(fromExch)
         /\ fromExch[1] \in Reports /\ fromExch[1].id \in Ids
         /\ Tail(fromExch) \in Seq(Reports)
         /\ Len(Tail(fromExch)) \in Nat /\ Len(Tail(fromExch)) = Len(fromExch) - 1
         /\ \A j \in 1 .. Len(Tail(fromExch)) :
              j + 1 \in 1 .. Len(fromExch) /\ Tail(fromExch)[j] = fromExch[j + 1]
         /\ \A j \in 1 .. Len(fromExch) : j # 1 =>
              j - 1 \in 1 .. Len(Tail(fromExch)) /\ Tail(fromExch)[j - 1] = fromExch[j]
<1>1. fromExch \in Seq(Reports)
  BY DEF EngineInv, StreamsOK
<1>2. /\ Tail(fromExch) \in Seq(Reports) /\ Len(Tail(fromExch)) = Len(fromExch) - 1
      /\ \A j \in 1 .. Len(Tail(fromExch)) : Tail(fromExch)[j] = fromExch[j + 1]
  BY <1>1, HeadTailProperties
<1>3. Len(fromExch) \in Nat /\ Len(fromExch) # 0 /\ Len(Tail(fromExch)) \in Nat
  BY <1>1, <1>2, EmptySeq, LenProperties
<1>4. 1 \in 1 .. Len(fromExch)
  BY <1>3
<1>5. fromExch[1] \in Reports /\ fromExch[1].id \in Ids
  BY <1>4, StreamTypes
<1>6. \A j \in 1 .. Len(Tail(fromExch)) : j + 1 \in 1 .. Len(fromExch)
  BY <1>2, <1>3
<1>7. ASSUME NEW j \in 1 .. Len(fromExch), j # 1
      PROVE  j - 1 \in 1 .. Len(Tail(fromExch)) /\ Tail(fromExch)[j - 1] = fromExch[j]
  <2>1. j - 1 \in 1 .. Len(Tail(fromExch)) /\ (j - 1) + 1 = j
    BY <1>2, <1>3, <1>7
  <2> QED BY <1>2, <2>1
<1>8. Head(fromExch) = fromExch[1]
  BY <1>1
<1> QED BY <1>2, <1>3, <1>4, <1>5, <1>6, <1>7, <1>8

(* Steps of the engine that decide no order: cancel_order, and a fill with *)
(* the cancels it may issue.  New commands are cancels of orders that were *)
(* accepted; a report that was taken is an execution.                      *)
LEMMA UndecidingStep ==
  ASSUME EngineInv, BookOK(om'), Len(om'.orders) = Len(om.orders),
         UNCHANGED exchange,
         \A k \in Ids : /\ om'.orders[k].status = "PENDING" <=> om.orders[k].status = "PENDING"
                        /\ om'.orders[k].status = "CANCELLED" => om.orders[k].status = "CANCELLED"
                        /\ om'.orders[k].status = "REJECTED" => om.orders[k].status = "REJECTED",
         NEW xs \in Seq(Commands), toExch' = toExch \o xs,
         \A i \in 1 .. Len(xs) : /\ xs[i].type = "X" /\ xs[i].id \in Ids
                                 /\ om.orders[xs[i].id].status # "PENDING",
         \/ fromExch' = fromExch
         \/ fromExch # <<>> /\ fromExch[1].type = "E" /\ fromExch' = Tail(fromExch)
  PROVE  EngineInv'
<1>0. Ids' = Ids /\ exch' = exch /\ executed' = executed
  BY DEF Ids, exchange
<1>1. /\ Len(toExch) \in Nat
      /\ \A k \in 1 .. Len(toExch) : toExch[k].id \in Ids
      /\ \A k \in 1 .. Len(fromExch) : fromExch[k].id \in Ids
  BY StreamTypes
<1>2. /\ toExch \in Seq(Commands) /\ fromExch \in Seq(Reports)
      /\ exch \in Seq([st : {"unknown", "open", "done"}, leaves : Nat])
      /\ executed \in Seq(Nat) /\ Len(exch) = Len(om.orders) /\ Len(executed) = Len(om.orders)
  BY DEF EngineInv, StreamsOK
<1>3. Len(xs) \in Nat
  BY LenProperties
<1>4. /\ toExch' \in Seq(Commands) /\ Len(toExch') = Len(toExch) + Len(xs)
      /\ \A k \in 1 .. Len(toExch) + Len(xs) :
           toExch'[k] = IF k <= Len(toExch) THEN toExch[k] ELSE xs[k - Len(toExch)]
  BY <1>2, ConcatProperties
<1>5. /\ \A k \in 1 .. Len(toExch) : k \in 1 .. Len(toExch') /\ toExch'[k] = toExch[k]
      /\ \A k \in 1 .. Len(toExch') :
           \/ k \in 1 .. Len(toExch)
           \/ /\ toExch'[k].type = "X" /\ toExch'[k].id \in Ids
              /\ om.orders[toExch'[k].id].status # "PENDING"
  <2>1. \A k \in 1 .. Len(toExch) : k \in 1 .. Len(toExch) + Len(xs) /\ k <= Len(toExch)
    BY <1>1, <1>3
  <2>2. \A k \in 1 .. Len(toExch) + Len(xs) : k \notin 1 .. Len(toExch) =>
          ~(k <= Len(toExch)) /\ k - Len(toExch) \in 1 .. Len(xs)
    BY <1>1, <1>3
  <2> QED BY <1>4, <2>1, <2>2
<1>6. /\ fromExch' \in Seq(Reports)
      /\ \A j \in 1 .. Len(fromExch') : \E i \in 1 .. Len(fromExch) : fromExch'[j] = fromExch[i]
      /\ \A i \in 1 .. Len(fromExch) : fromExch[i].type # "E" =>
           \E j \in 1 .. Len(fromExch') : fromExch'[j] = fromExch[i]
  <2>1. CASE fromExch' = fromExch
    BY <1>2, <2>1
  <2>2. CASE fromExch # <<>> /\ fromExch[1].type = "E" /\ fromExch' = Tail(fromExch)
    <3>1. /\ Tail(fromExch) \in Seq(Reports)
          /\ \A j \in 1 .. Len(Tail(fromExch)) :
               j + 1 \in 1 .. Len(fromExch) /\ Tail(fromExch)[j] = fromExch[j + 1]
          /\ \A j \in 1 .. Len(fromExch) : j # 1 =>
               j - 1 \in 1 .. Len(Tail(fromExch)) /\ Tail(fromExch)[j - 1] = fromExch[j]
      BY <2>2, TakeReport
    <3>2. \A j \in 1 .. Len(fromExch') : \E i \in 1 .. Len(fromExch) : fromExch'[j] = fromExch[i]
      BY <2>2, <3>1
    <3>3. ASSUME NEW i \in 1 .. Len(fromExch), fromExch[i].type # "E"
          PROVE  \E j \in 1 .. Len(fromExch') : fromExch'[j] = fromExch[i]
      <4>1. i # 1
        BY <2>2, <3>3
      <4> QED BY <2>2, <3>1, <4>1
    <3> QED BY <2>2, <3>1, <3>2, <3>3
  <2> QED BY <2>1, <2>2
<1>7. StreamsOK'
  <2>1. \A k \in 1 .. Len(toExch') : toExch'[k].id \in Ids'
    BY <1>0, <1>1, <1>5
  <2>2. \A k \in 1 .. Len(fromExch') : fromExch'[k].id \in Ids'
    BY <1>0, <1>1, <1>6
  <2> QED BY <1>0, <1>2, <1>4, <1>6, <2>1, <2>2 DEF StreamsOK
<1>8. Undecided'
  <2> SUFFICES ASSUME NEW k \in 1 .. Len(toExch'), toExch'[k].type = "O"
               PROVE  /\ om'.orders[toExch'[k].id].status = "PENDING"
                      /\ exch'[toExch'[k].id].st = "unknown"
                      /\ \A j \in 1 .. Len(fromExch') : fromExch'[j].id # toExch'[k].id
                      /\ \A j \in 1 .. Len(toExch') : toExch'[j].id = toExch'[k].id => j = k
    BY DEF Undecided
  <2>1. k \in 1 .. Len(toExch) /\ toExch'[k] = toExch[k] /\ toExch[k].id \in Ids
    BY <1>1, <1>5
  <2>2. /\ om.orders[toExch[k].id].status = "PENDING" /\ exch[toExch[k].id].st = "unknown"
        /\ \A j \in 1 .. Len(fromExch) : fromExch[j].id # toExch[k].id
        /\ \A j \in 1 .. Len(toExch) : toExch[j].id = toExch[k].id => j = k
    BY <2>1 DEF EngineInv, Undecided
  <2>3. \A j \in 1 .. Len(toExch') : toExch'[j].id = toExch'[k].id => j = k
    BY <1>5, <2>1, <2>2
  <2>4. \A j \in 1 .. Len(fromExch') : fromExch'[j].id # toExch'[k].id
    <3> TAKE j \in 1 .. Len(fromExch')
    <3>1. PICK i \in 1 .. Len(fromExch) : fromExch'[j] = fromExch[i]
      BY <1>6
    <3> QED BY <2>1, <2>2, <3>1
  <2> QED BY <1>0, <2>1, <2>2, <2>3, <2>4
<1>9. Answered'
  BY <1>0, <1>6 DEF EngineInv, Answered
<1>10. Awaited'
  <2> SUFFICES ASSUME NEW id \in Ids, om.orders[id].status = "PENDING"
               PROVE  \/ \E k \in 1 .. Len(toExch') : toExch'[k].id = id /\ toExch'[k].type = "O"
                      \/ \E j \in 1 .. Len(fromExch') :
                           fromExch'[j].id = id /\ fromExch'[j].type \in {"A", "J"}
    BY <1>0 DEF Awaited
  <2>1. \/ \E k \in 1 .. Len(toExch) : toExch[k].id = id /\ toExch[k].type = "O"
        \/ \E j \in 1 .. Len(fromExch) : fromExch[j].id = id /\ fromExch[j].type \in {"A", "J"}
    BY DEF EngineInv, Awaited
  <2>2. ASSUME NEW k \in 1 .. Len(toExch), toExch[k].id = id, toExch[k].type = "O"
        PROVE  \E i \in 1 .. Len(toExch') : toExch'[i].id = id /\ toExch'[i].type = "O"
    BY <1>5, <2>2
  <2>3. ASSUME NEW j \in 1 .. Len(fromExch), fromExch[j].id = id, fromExch[j].type \in {"A", "J"}
        PROVE  \E i \in 1 .. Len(fromExch') :
                 fromExch'[i].id = id /\ fromExch'[i].type \in {"A", "J"}
    <3>1. fromExch[j].type # "E"
      BY <2>3
    <3> QED BY <1>6, <2>3, <3>1
  <2> QED BY <2>1, <2>2, <2>3
<1> QED BY <1>7, <1>8, <1>9, <1>10 DEF EngineInv

(* cancel_order, sent or not.                                              *)
LEMMA CancelStep ==
  ASSUME EngineInv, NEW id \in Ids, NEW sent \in BOOLEAN, CancelOrder(id, sent)
  PROVE  /\ EngineInv'
         /\ Moves(om, om', id, Fillable, {"PENDING_CANCEL"})
<1>1. Moves(om, om', id, Fillable, {"PENDING_CANCEL"}) /\ om.orders[id].status \in Fillable
  BY CallMoves DEF CancelOrder, CanCancel, EngineInv, Ids
<1>2. "PENDING" \notin Fillable
  BY DEF Fillable
<1>3. /\ BookOK(om') /\ Len(om'.orders) = Len(om.orders)
      /\ om'.orders[id].status = "PENDING_CANCEL"
      /\ \A k \in Ids : k # id => om'.orders[k] = om.orders[k]
  BY <1>1 DEF Moves, Ids
<1>4. \A k \in Ids : /\ om'.orders[k].status = "PENDING" <=> om.orders[k].status = "PENDING"
                     /\ om'.orders[k].status = "CANCELLED" => om.orders[k].status = "CANCELLED"
                     /\ om'.orders[k].status = "REJECTED" => om.orders[k].status = "REJECTED"
  <2> TAKE k \in Ids
  <2>1. CASE k = id
    BY <1>1, <1>2, <1>3, <2>1
  <2>2. CASE k # id
    BY <1>3, <2>2
  <2> QED BY <2>1, <2>2
<1> DEFINE x == [type |-> "X", id |-> id]
           xs == IF sent THEN <<x>> ELSE <<>>
<1>5. x \in Commands /\ x.type = "X" /\ x.id = id
  BY StreamTypes DEF Commands, Ids
<1>6. toExch \in Seq(Commands)
  BY DEF EngineInv, StreamsOK
<1>7. UNCHANGED <<exchange, fromExch>> /\ toExch' = IF sent THEN Append(toExch, x) ELSE toExch
  BY DEF CancelOrder
<1> HIDE DEF x
<1>8. xs \in Seq(Commands) /\ (\A i \in 1 .. Len(xs) : xs[i] = x)
  BY <1>5
<1>9. toExch' = toExch \o xs
  BY <1>5, <1>6, <1>7, AppendIsConcat, ConcatEmptySeq
<1> HIDE DEF xs
<1>10. \A i \in 1 .. Len(xs) : /\ xs[i].type = "X" /\ xs[i].id \in Ids
                               /\ om.orders[xs[i].id].status # "PENDING"
  BY <1>1, <1>2, <1>5, <1>8
<1>11. EngineInv'
  BY <1>3, <1>4, <1>7, <1>8, <1>9, <1>10, UndecidingStep
<1> QED BY <1>1, <1>11

(* The cancels of flatten_on_drawdown: any set of fillable orders.         *)
Flattened(b, C) ==
  [b EXCEPT !.orders = [k \in 1 .. Len(b.orders) |->
     IF k \in C THEN [b.orders[k] EXCEPT !.status = "PENDING_CANCEL"] ELSE b.orders[k]]]

(* flatten's cancels, on any set of orders that may be cancelled.          *)
LEMMA FlattenBook ==
  ASSUME NEW b, BookOK(b), NEW C,
         \A k \in C : k \in 1 .. Len(b.orders) /\ b.orders[k].status \in Fillable
  PROVE  LET m == Flattened(b, C)
         IN  /\ BookOK(m) /\ Len(m.orders) = Len(b.orders)
             /\ \A k \in 1 .. Len(b.orders) :
                  /\ IF k \in C THEN m.orders[k].status = "PENDING_CANCEL"
                                ELSE m.orders[k] = b.orders[k]
                  /\ m.orders[k].filled = b.orders[k].filled
                  /\ SameTerms(m.orders[k], b.orders[k])
<1> DEFINE m  == Flattened(b, C)
<1> DEFINE os == [k \in 1 .. Len(b.orders) |->
                    IF k \in C THEN [b.orders[k] EXCEPT !.status = "PENDING_CANCEL"]
                               ELSE b.orders[k]]
<1>1. /\ Len(b.orders) \in Nat /\ b.open \in [Symbols -> SUBSET Nat]
      /\ \A k \in 1 .. Len(b.orders) : b.orders[k] \in Entries
      /\ b = [orders |-> b.orders, open |-> b.open]
  BY BookTypes DEF BookOK, Books
<1>2. ASSUME NEW k \in 1 .. Len(b.orders)
      PROVE  /\ os[k] \in Entries /\ os[k].sym = b.orders[k].sym
             /\ os[k].filled = b.orders[k].filled /\ os[k].remaining = b.orders[k].remaining
             /\ os[k].quantity = b.orders[k].quantity /\ os[k].side = b.orders[k].side
             /\ IF k \in C THEN os[k].status = "PENDING_CANCEL" ELSE os[k] = b.orders[k]
  <2>1. b.orders[k] \in Entries
    BY <1>1
  <2>2. CASE k \in C
    <3>1. os[k] = [b.orders[k] EXCEPT !.status = "PENDING_CANCEL"]
      BY <2>2
    <3> HIDE DEF os
    <3> QED BY <2>1, <2>2, <3>1 DEF Entries, Statuses, Live
  <2>3. CASE k \notin C
    BY <2>1, <2>3
  <2> QED BY <2>2, <2>3
<1>3. os \in Seq(Entries) /\ Len(os) = Len(b.orders)
  BY <1>1, <1>2
<1>4. m = [b EXCEPT !.orders = os]
  BY DEF Flattened
<1> HIDE DEF os, m
<1>5. m.orders = os /\ m.open = b.open /\ m \in Books
  BY <1>1, <1>3, <1>4 DEF Books
<1>6. FillsFit(m)
  BY <1>2, <1>3, <1>5 DEF FillsFit, BookOK
<1>7. \A k \in 1 .. Len(b.orders) : os[k].status \in Live <=> b.orders[k].status \in Live
  BY <1>2 DEF Fillable, Live
<1>8. IndexExact(m)
  <2>1. ASSUME NEW s \in Symbols
        PROVE  m.open[s] = {k \in 1 .. Len(m.orders) : m.orders[k].sym = s /\ m.orders[k].status \in Live}
    <3>1. b.open[s] = {k \in 1 .. Len(b.orders) : b.orders[k].sym = s /\ b.orders[k].status \in Live}
      BY DEF BookOK, IndexExact
    <3>2. /\ m.open = b.open /\ Len(m.orders) = Len(b.orders)
          /\ \A k \in 1 .. Len(b.orders) :
               /\ m.orders[k].sym = b.orders[k].sym
               /\ m.orders[k].status \in Live <=> b.orders[k].status \in Live
      BY <1>2, <1>3, <1>5, <1>7
    <3> QED BY <3>1, <3>2
  <2> QED BY <2>1 DEF IndexExact
<1> QED BY <1>2, <1>3, <1>5, <1>6, <1>8 DEF BookOK, SameTerms, m

(* A sequence of a finite set is a numbering of it.                        *)
LEMMA SetToSeqType ==
  ASSUME NEW S, IsFiniteSet(S)
  PROVE  SetToSeq(S) \in [1 .. Cardinality(S) -> S] /\ Cardinality(S) \in Nat
<1>1. Cardinality(S) \in Nat /\ ExistsBijection(1 .. Cardinality(S), S)
  BY FS_CardinalityType
<1>2. \E f \in [1 .. Cardinality(S) -> S] : IsInjective(f)
  BY <1>1 DEF ExistsBijection, Bijection, Injection
<1> QED BY <1>1, <1>2 DEF SetToSeq

(* A fill: the manager books it, then possibly cancels what is fillable.   *)
LEMMA ExecutionStep ==
  ASSUME EngineInv, fromExch # <<>>, fromExch[1].type = "E", fromExch' = Tail(fromExch),
         UNCHANGED exchange, OnExecution(fromExch[1])
  PROVE  /\ EngineInv'
         /\ \A k \in Ids : \/ om'.orders[k].status = om.orders[k].status
                           \/ /\ om.orders[k].status \in Fillable
                              /\ om'.orders[k].status \in {"PARTIAL_FILL", "FILLED", "PENDING_CANCEL"}
         /\ Len(om'.orders) = Len(om.orders)
         /\ BooksAtMost(om, om', fromExch[1].id, fromExch[1].qty)
         /\ ~fillIgnored' =>
              om'.orders[fromExch[1].id].filled = om.orders[fromExch[1].id].filled + fromExch[1].qty
         /\ \A k \in Ids : k # fromExch[1].id =>
              (om'.orders[k].status \in Live <=> om.orders[k].status \in Live)
<1> DEFINE f == fromExch[1]
           om1 == OnFill(om, f.id, f.qty, f.price)
           rm1 == RiskOnFill(rm, om.orders[f.id], f.qty)
<1>1. PICK cancels \in SUBSET Ids : FlattenOnDrawdown(om1, rm1, cancels)
  BY DEF OnExecution
<1>2. f.id \in 1 .. Len(om.orders) /\ f.qty \in Nat /\ f.price \in Nat /\ Len(om.orders) \in Nat
  BY TakeReport, StreamTypes DEF Ids, Reports
<1>3. /\ Moves(om, om1, f.id, Fillable, {"PARTIAL_FILL", "FILLED"})
      /\ BooksAtMost(om, om1, f.id, f.qty)
  BY <1>2, FillMoves DEF EngineInv
<1> DEFINE due == IF flatten_issued \/ ~Flatten(rm1) THEN {}
                  ELSE {id \in Ids : om1.orders[id].status \in Fillable}
           C   == due \cap cancels
           ids == SetToSeq(C)
           xs  == [i \in DOMAIN ids |-> [type |-> "X", id |-> ids[i]]]
<1>4. /\ om' = [om1 EXCEPT !.orders = [id \in Ids |->
                  IF id \in C THEN [om1.orders[id] EXCEPT !.status = "PENDING_CANCEL"]
                              ELSE om1.orders[id]]]
      /\ toExch' = toExch \o xs
  BY <1>1 DEF FlattenOnDrawdown
<1>5. \A k \in C : k \in Ids /\ om1.orders[k].status \in Fillable
  OBVIOUS
<1>6. BookOK(om1) /\ Len(om1.orders) = Len(om.orders) /\ Ids = 1 .. Len(om1.orders)
  BY <1>3 DEF Moves, Ids
<1> HIDE DEF om1, rm1, due, C
<1>7. /\ BookOK(om') /\ Len(om'.orders) = Len(om.orders)
      /\ \A k \in Ids : /\ IF k \in C THEN om'.orders[k].status = "PENDING_CANCEL"
                                     ELSE om'.orders[k] = om1.orders[k]
                        /\ om'.orders[k].filled = om1.orders[k].filled
                        /\ SameTerms(om'.orders[k], om1.orders[k])
  <2>1. om' = [om1 EXCEPT !.orders = [k \in 1 .. Len(om1.orders) |->
                  IF k \in C THEN [om1.orders[k] EXCEPT !.status = "PENDING_CANCEL"]
                             ELSE om1.orders[k]]]
    BY <1>4, <1>6
  <2>2. \A k \in C : k \in 1 .. Len(om1.orders) /\ om1.orders[k].status \in Fillable
    BY <1>5, <1>6
  <2>3. /\ BookOK(om') /\ Len(om'.orders) = Len(om1.orders)
        /\ \A k \in 1 .. Len(om1.orders) :
             /\ IF k \in C THEN om'.orders[k].status = "PENDING_CANCEL"
                           ELSE om'.orders[k] = om1.orders[k]
             /\ om'.orders[k].filled = om1.orders[k].filled
             /\ SameTerms(om'.orders[k], om1.orders[k])
    <3>1. om' = Flattened(om1, C)
      BY <2>1 DEF Flattened
    <3> QED BY <1>6, <2>2, <3>1, FlattenBook
  <2> QED BY <1>6, <2>3
<1>8. \A k \in Ids : \/ om1.orders[k] = om.orders[k]
                     \/ /\ om.orders[k].status \in Fillable
                        /\ om1.orders[k].status \in {"PARTIAL_FILL", "FILLED"}
  BY <1>3 DEF Moves, Ids
<1>9. \A k \in Ids : \/ om'.orders[k].status = om.orders[k].status
                     \/ /\ om.orders[k].status \in Fillable
                        /\ om'.orders[k].status \in {"PARTIAL_FILL", "FILLED", "PENDING_CANCEL"}
  <2> TAKE k \in Ids
  <2>1. CASE k \in C
    BY <1>5, <1>7, <1>8, <2>1
  <2>2. CASE k \notin C
    BY <1>7, <1>8, <2>2
  <2> QED BY <2>1, <2>2
<1>10. \A k \in Ids : /\ om'.orders[k].status = "PENDING" <=> om.orders[k].status = "PENDING"
                      /\ om'.orders[k].status = "CANCELLED" => om.orders[k].status = "CANCELLED"
                      /\ om'.orders[k].status = "REJECTED" => om.orders[k].status = "REJECTED"
  BY <1>9 DEF Fillable
<1>11. ids \in [1 .. Cardinality(C) -> C] /\ Cardinality(C) \in Nat
  <2>1. C \in SUBSET (1 .. Len(om.orders))
    BY <1>5 DEF Ids
  <2>2. IsFiniteSet(1 .. Len(om.orders))
    BY <1>2, FS_Interval
  <2>3. IsFiniteSet(C)
    BY <2>1, <2>2, FS_Subset
  <2> QED BY <2>3, SetToSeqType
<1> HIDE DEF ids
<1>12. /\ xs \in Seq(Commands)
       /\ \A i \in 1 .. Len(xs) : xs[i].type = "X" /\ xs[i].id \in C
  <2> DEFINE n == Cardinality(C)
  <2>1. \A i \in 1 .. n : /\ [type |-> "X", id |-> ids[i]] \in Commands
                          /\ [type |-> "X", id |-> ids[i]].type = "X"
                          /\ [type |-> "X", id |-> ids[i]].id \in C
    BY <1>2, <1>5, <1>11 DEF Commands, Ids
  <2>2. xs = [i \in 1 .. n |-> [type |-> "X", id |-> ids[i]]]
    BY <1>11
  <2> HIDE DEF xs
  <2>3. n \in Nat /\ DOMAIN xs = 1 .. n /\ \A i \in 1 .. n : xs[i] = [type |-> "X", id |-> ids[i]]
    BY <1>11, <2>2
  <2>4. xs \in [1 .. n -> Commands]
    BY <2>1, <2>2
  <2> HIDE DEF n
  <2>5. xs \in Seq(Commands) /\ Len(xs) = n
    BY <2>3, <2>4
  <2> QED BY <2>1, <2>3, <2>5
<1> HIDE DEF xs
<1>13. \A i \in 1 .. Len(xs) : /\ xs[i].type = "X" /\ xs[i].id \in Ids
                               /\ om.orders[xs[i].id].status # "PENDING"
  <2> TAKE i \in 1 .. Len(xs)
  <2>1. xs[i].id \in Ids /\ om1.orders[xs[i].id].status \in Fillable
    BY <1>5, <1>12
  <2>2. om.orders[xs[i].id].status \in Fillable
    BY <1>8, <2>1
  <2> QED BY <1>12, <2>1, <2>2 DEF Fillable
<1>14. EngineInv'
  BY <1>4, <1>7, <1>10, <1>12, <1>13, UndecidingStep
<1>15. BooksAtMost(om, om', f.id, f.qty)
  <2> HIDE DEF f
  <2>1. ASSUME NEW k \in Ids
        PROVE  /\ SameTerms(om'.orders[k], om.orders[k])
               /\ om.orders[k].filled <= om'.orders[k].filled
               /\ om'.orders[k].filled <= om.orders[k].filled + (IF k = f.id THEN f.qty ELSE 0)
               /\ om'.orders[k].status = "FILLED" =>
                    \/ om'.orders[k].filled = om'.orders[k].quantity
                    \/ om.orders[k].status = "FILLED" /\ om'.orders[k].filled = om.orders[k].filled
    <3>1. /\ SameTerms(om1.orders[k], om.orders[k])
          /\ om.orders[k].filled <= om1.orders[k].filled
          /\ om1.orders[k].filled <= om.orders[k].filled + (IF k = f.id THEN f.qty ELSE 0)
          /\ om1.orders[k].status = "FILLED" =>
               \/ om1.orders[k].filled = om1.orders[k].quantity
               \/ om.orders[k].status = "FILLED" /\ om1.orders[k].filled = om.orders[k].filled
      BY <1>3 DEF BooksAtMost, Ids
    <3>2. om'.orders[k].status = "FILLED" => om1.orders[k].status = "FILLED"
      BY <1>7
    <3>3. /\ om'.orders[k].filled = om1.orders[k].filled
          /\ SameTerms(om'.orders[k], om1.orders[k])
      BY <1>7
    <3> QED BY <3>1, <3>2, <3>3 DEF SameTerms
  <2> QED BY <2>1 DEF BooksAtMost, SameTerms, Ids
<1>16. ~fillIgnored' => om'.orders[f.id].filled = om.orders[f.id].filled + f.qty
  <2>1. fillIgnored' = (fillIgnored \/ om1.orders[f.id].filled # om.orders[f.id].filled + f.qty)
    BY DEF OnExecution, om1
  <2> QED BY <1>2, <1>7, <2>1 DEF Ids
<1>17. ASSUME NEW k \in Ids, k # f.id
       PROVE  om'.orders[k].status \in Live <=> om.orders[k].status \in Live
  <2>1. om1.orders[k] = om.orders[k]
    BY <1>3, <1>17 DEF Moves, Ids
  <2>2. CASE k \in C
    BY <1>5, <1>7, <2>1, <2>2 DEF Live, Fillable
  <2>3. CASE k \notin C
    BY <1>7, <2>1, <2>3
  <2> QED BY <2>2, <2>3
<1> QED BY <1>7, <1>9, <1>14, <1>15, <1>16, <1>17

(* 'A', 'C' and 'J': the exchange has decided, the manager follows.        *)
LEMMA OrderReportStep ==
  ASSUME EngineInv, fromExch # <<>>, fromExch[1].type # "E", fromExch' = Tail(fromExch),
         UNCHANGED exchange, OnOrderReport(fromExch[1])
  PROVE  /\ EngineInv'
         /\ \A k \in Ids :
              \/ om'.orders[k].status = om.orders[k].status
              \/ om.orders[k].status = "PENDING" /\ om'.orders[k].status \in {"SUBMITTED", "REJECTED"}
              \/ om.orders[k].status = "PENDING_CANCEL" /\ om'.orders[k].status = "CANCELLED"
         /\ \A k \in Ids : om'.orders[k].status \in Terminal =>
              \/ om.orders[k].status \in Terminal
              \/ fromExch[1].id = k /\ fromExch[1].type \in {"C", "J"}
<1> DEFINE f == fromExch[1]
<1>0. /\ f.id \in 1 .. Len(om.orders) /\ f.type \in {"A", "C", "J"} /\ 1 \in 1 .. Len(fromExch)
      /\ Ids = 1 .. Len(om.orders) /\ BookOK(om)
  BY TakeReport DEF Ids, Reports, EngineInv
<1>1. toExch' = toExch /\ exch' = exch /\ executed' = executed /\ fromExch' = Tail(fromExch)
  BY DEF OnOrderReport, exchange
<1>2. \/ f.type = "A" /\ Moves(om, om', f.id, {"PENDING"}, {"SUBMITTED"})
      \/ f.type = "J" /\ Moves(om, om', f.id, {"PENDING"}, {"REJECTED"})
      \/ f.type = "C" /\ Moves(om, om', f.id, {"PENDING_CANCEL"}, {"CANCELLED"})
  <2>1. CASE f.type = "A"
    BY <1>0, <2>1, CallMoves DEF OnOrderReport
  <2>2. CASE f.type = "J"
    BY <1>0, <2>2, CallMoves DEF OnOrderReport
  <2>3. CASE f.type = "C"
    BY <1>0, <2>3, CallMoves DEF OnOrderReport
  <2> QED BY <1>0, <2>1, <2>2, <2>3
<1>3. /\ BookOK(om') /\ Len(om'.orders) = Len(om.orders) /\ Ids' = Ids
      /\ \A k \in Ids : k # f.id => om'.orders[k] = om.orders[k]
  BY <1>0, <1>2 DEF Moves, Ids
<1> DEFINE old == om.orders[f.id].status
           new == om'.orders[f.id].status
<1>4. \/ new = old /\ (f.type = "C" \/ new # "PENDING")
      \/ old = "PENDING" /\ new = "SUBMITTED"
      \/ old = "PENDING" /\ new = "REJECTED" /\ f.type = "J"
      \/ old = "PENDING_CANCEL" /\ new = "CANCELLED" /\ f.type = "C"
  BY <1>2 DEF Moves
<1> HIDE DEF old, new
<1>5. \A k \in Ids :
        \/ om'.orders[k].status = om.orders[k].status
        \/ om.orders[k].status = "PENDING" /\ om'.orders[k].status \in {"SUBMITTED", "REJECTED"}
        \/ om.orders[k].status = "PENDING_CANCEL" /\ om'.orders[k].status = "CANCELLED"
  BY <1>3, <1>4 DEF old, new
<1>6. /\ Tail(fromExch) \in Seq(Reports)
      /\ \A j \in 1 .. Len(Tail(fromExch)) :
           j + 1 \in 1 .. Len(fromExch) /\ Tail(fromExch)[j] = fromExch[j + 1]
      /\ \A j \in 1 .. Len(fromExch) : j # 1 =>
           j - 1 \in 1 .. Len(Tail(fromExch)) /\ Tail(fromExch)[j - 1] = fromExch[j]
  BY TakeReport
<1>7. /\ fromExch' \in Seq(Reports)
      /\ \A j \in 1 .. Len(fromExch') : \E i \in 1 .. Len(fromExch) : fromExch'[j] = fromExch[i]
      /\ \A i \in 1 .. Len(fromExch) : i # 1 =>
           \E j \in 1 .. Len(fromExch') : fromExch'[j] = fromExch[i]
  BY <1>1, <1>6
<1>8. StreamsOK'
  <2>1. \A k \in 1 .. Len(fromExch') : fromExch'[k].id \in Ids'
    BY <1>3, <1>7, StreamTypes
  <2>2. \A k \in 1 .. Len(toExch') : toExch'[k].id \in Ids'
    BY <1>1, <1>3, StreamTypes
  <2>3. /\ toExch' \in Seq(Commands)
        /\ exch' \in Seq([st : {"unknown", "open", "done"}, leaves : Nat])
        /\ executed' \in Seq(Nat) /\ Len(exch') = Len(om'.orders)
        /\ Len(executed') = Len(om'.orders)
    BY <1>1, <1>3 DEF EngineInv, StreamsOK
  <2> QED BY <1>7, <2>1, <2>2, <2>3 DEF StreamsOK
<1>9. Undecided'
  <2> SUFFICES ASSUME NEW k \in 1 .. Len(toExch), toExch[k].type = "O"
               PROVE  /\ om'.orders[toExch[k].id].status = "PENDING"
                      /\ exch[toExch[k].id].st = "unknown"
                      /\ \A j \in 1 .. Len(fromExch') : fromExch'[j].id # toExch[k].id
                      /\ \A j \in 1 .. Len(toExch) : toExch[j].id = toExch[k].id => j = k
    BY <1>1 DEF Undecided
  <2>1. /\ om.orders[toExch[k].id].status = "PENDING" /\ exch[toExch[k].id].st = "unknown"
        /\ \A j \in 1 .. Len(fromExch) : fromExch[j].id # toExch[k].id
        /\ \A j \in 1 .. Len(toExch) : toExch[j].id = toExch[k].id => j = k
    BY DEF EngineInv, Undecided
  <2>2. toExch[k].id \in Ids /\ toExch[k].id # f.id
    BY <1>0, <2>1, StreamTypes
  <2>3. \A j \in 1 .. Len(fromExch') : fromExch'[j].id # toExch[k].id
    <3> TAKE j \in 1 .. Len(fromExch')
    <3>1. PICK i \in 1 .. Len(fromExch) : fromExch'[j] = fromExch[i]
      BY <1>7
    <3> QED BY <2>1, <3>1
  <2> QED BY <1>3, <2>1, <2>2, <2>3
<1>10. Answered'
  <2>1. /\ \A j \in 1 .. Len(fromExch) :
             fromExch[j].type \in {"C", "J"} => exch[fromExch[j].id].st = "done"
        /\ \A id \in Ids :
             /\ om.orders[id].status = "CANCELLED" => exch[id].st = "done"
             /\ om.orders[id].status = "REJECTED" => exch[id].st # "open"
    BY DEF EngineInv, Answered
  <2>2. \A j \in 1 .. Len(fromExch') :
          fromExch'[j].type \in {"C", "J"} => exch[fromExch'[j].id].st = "done"
    <3> TAKE j \in 1 .. Len(fromExch')
    <3>1. PICK i \in 1 .. Len(fromExch) : fromExch'[j] = fromExch[i]
      BY <1>7
    <3> QED BY <2>1, <3>1
  <2>3. f.type \in {"C", "J"} => exch[f.id].st = "done"
    BY <1>0, <2>1
  <2>4. ASSUME NEW id \in Ids
        PROVE  /\ om'.orders[id].status = "CANCELLED" => exch[id].st = "done"
               /\ om'.orders[id].status = "REJECTED" => exch[id].st # "open"
    <3>1. CASE id # f.id
      BY <1>3, <2>1, <3>1
    <3>2. CASE id = f.id
      BY <1>4, <2>1, <2>3, <3>2 DEF old, new
    <3> QED BY <3>1, <3>2
  <2> QED BY <1>1, <1>3, <2>2, <2>4 DEF Answered
<1>11. Awaited'
  <2> SUFFICES ASSUME NEW id \in Ids, om'.orders[id].status = "PENDING"
               PROVE  \/ \E k \in 1 .. Len(toExch) : toExch[k].id = id /\ toExch[k].type = "O"
                      \/ \E j \in 1 .. Len(fromExch') :
                           fromExch'[j].id = id /\ fromExch'[j].type \in {"A", "J"}
    BY <1>1, <1>3 DEF Awaited
  <2>1. om.orders[id].status = "PENDING" /\ (id = f.id => f.type = "C")
    BY <1>3, <1>4 DEF old, new
  <2>2. \/ \E k \in 1 .. Len(toExch) : toExch[k].id = id /\ toExch[k].type = "O"
        \/ \E j \in 1 .. Len(fromExch) : fromExch[j].id = id /\ fromExch[j].type \in {"A", "J"}
    BY <2>1 DEF EngineInv, Awaited
  <2>3. ASSUME NEW j \in 1 .. Len(fromExch), fromExch[j].id = id, fromExch[j].type \in {"A", "J"}
        PROVE  \E i \in 1 .. Len(fromExch') :
                 fromExch'[i].id = id /\ fromExch'[i].type \in {"A", "J"}
    <3>1. j # 1
      BY <2>1, <2>3
    <3> QED BY <1>7, <2>3, <3>1
  <2> QED BY <2>2, <2>3
<1>12. \A k \in Ids : om'.orders[k].status \in Terminal =>
         om.orders[k].status \in Terminal \/ (f.id = k /\ f.type \in {"C", "J"})
  <2> TAKE k \in Ids
  <2>1. CASE k = f.id
    <3>1. new \in Terminal => old \in Terminal \/ f.type \in {"C", "J"}
      BY <1>4 DEF Terminal
    <3> QED BY <2>1, <3>1 DEF old, new
  <2>2. CASE k # f.id
    BY <1>3, <2>2
  <2> QED BY <2>1, <2>2
<1> QED BY <1>3, <1>5, <1>8, <1>9, <1>10, <1>11, <1>12 DEF EngineInv

(* A report reaches the engine; statuses move along the arrows only.       *)
LEMMA ReportStep ==
  ASSUME EngineInv, Report
  PROVE  /\ EngineInv'
         /\ \A k \in Ids :
              \/ om'.orders[k].status = om.orders[k].status
              \/ om.orders[k].status = "PENDING" /\ om'.orders[k].status \in {"SUBMITTED", "REJECTED"}
              \/ om.orders[k].status = "PENDING_CANCEL" /\ om'.orders[k].status = "CANCELLED"
              \/ /\ om.orders[k].status \in Fillable
                 /\ om'.orders[k].status \in {"PARTIAL_FILL", "FILLED", "PENDING_CANCEL"}
<1>1. /\ fromExch # <<>> /\ Head(fromExch) = fromExch[1] /\ fromExch' = Tail(fromExch)
      /\ UNCHANGED exchange
  BY TakeReport DEF Report
<1>2. CASE fromExch[1].type = "E"
  <2>1. OnExecution(fromExch[1])
    BY <1>1, <1>2 DEF Report
  <2> QED BY <1>1, <1>2, <2>1, ExecutionStep
<1>3. CASE fromExch[1].type # "E"
  <2>1. OnOrderReport(fromExch[1])
    BY <1>1, <1>3 DEF Report
  <2> QED BY <1>1, <1>3, <2>1, OrderReportStep
<1> QED BY <1>2, <1>3
-----------------------------------------------------------------------------
(* The exchange takes the oldest command.                                  *)
LEMMA TakeCommand ==
  ASSUME EngineInv, toExch # <<>>
  PROVE  /\ Head(toExch) = toExch[1] /\ 1 \in 1 .. Len(toExch)
         /\ toExch[1] \in Commands /\ toExch[1].id \in Ids
         /\ Tail(toExch) \in Seq(Commands)
         /\ \A j \in 1 .. Len(Tail(toExch)) :
              /\ j + 1 \in 1 .. Len(toExch) /\ j + 1 # 1
              /\ Tail(toExch)[j] = toExch[j + 1]
         /\ \A j \in 1 .. Len(toExch) : j # 1 =>
              j - 1 \in 1 .. Len(Tail(toExch)) /\ Tail(toExch)[j - 1] = toExch[j]
<1>1. toExch \in Seq(Commands)
  BY DEF EngineInv, StreamsOK
<1>2. /\ Tail(toExch) \in Seq(Commands) /\ Len(Tail(toExch)) = Len(toExch) - 1
      /\ \A j \in 1 .. Len(Tail(toExch)) : Tail(toExch)[j] = toExch[j + 1]
  BY <1>1, HeadTailProperties
<1>3. Len(toExch) \in Nat /\ Len(toExch) # 0 /\ Len(Tail(toExch)) \in Nat
  BY <1>1, <1>2, EmptySeq, LenProperties
<1>4. 1 \in 1 .. Len(toExch)
  BY <1>3
<1>5. toExch[1] \in Commands /\ toExch[1].id \in Ids
  BY <1>4, StreamTypes
<1>6. \A j \in 1 .. Len(Tail(toExch)) : j + 1 \in 1 .. Len(toExch) /\ j + 1 # 1
  BY <1>2, <1>3
<1>7. ASSUME NEW j \in 1 .. Len(toExch), j # 1
      PROVE  j - 1 \in 1 .. Len(Tail(toExch)) /\ Tail(toExch)[j - 1] = toExch[j]
  <2>1. j - 1 \in 1 .. Len(Tail(toExch)) /\ (j - 1) + 1 = j
    BY <1>2, <1>3, <1>7
  <2> QED BY <1>2, <2>1
<1>8. Head(toExch) = toExch[1]
  BY <1>1
<1> QED BY <1>2, <1>4, <1>5, <1>6, <1>7, <1>8

(* What a step of the exchange may do to order id: it takes a command for  *)
(* the order, or the order is known already; reports about it are added    *)
(* behind the ones on their way; what was done stays done.                 *)
LEMMA ExchangeStep ==
  ASSUME EngineInv, om' = om, NEW id \in Ids,
         exch' \in Seq([st : {"unknown", "open", "done"}, leaves : Nat]), Len(exch') = Len(exch),
         executed' \in Seq(Nat), Len(executed') = Len(executed),
         \A k \in Ids : k # id => exch'[k] = exch[k],
         exch[id].st = "done" => exch'[id].st = "done",
         exch'[id].st = "open" => om.orders[id].status \notin {"CANCELLED", "REJECTED"},
         fromExch' \in Seq(Reports),
         \A j \in 1 .. Len(fromExch) : j \in 1 .. Len(fromExch') /\ fromExch'[j] = fromExch[j],
         \A j \in 1 .. Len(fromExch') :
           \/ j \in 1 .. Len(fromExch)
           \/ /\ fromExch'[j].id = id
              /\ fromExch'[j].type \in {"C", "J"} => exch'[id].st = "done",
         \/ /\ toExch # <<>> /\ toExch' = Tail(toExch) /\ toExch[1].id = id
            /\ toExch[1].type = "O" =>
                 \E j \in 1 .. Len(fromExch') :
                   fromExch'[j].id = id /\ fromExch'[j].type \in {"A", "J"}
         \/ toExch' = toExch /\ exch[id].st # "unknown"
  PROVE  EngineInv'
<1>0. /\ Ids' = Ids /\ BookOK(om') /\ Len(exch) = Len(om.orders) /\ Len(executed) = Len(om.orders)
      /\ toExch \in Seq(Commands)
  BY DEF Ids, EngineInv, StreamsOK
<1>1. /\ toExch' \in Seq(Commands)
      /\ \A k \in 1 .. Len(toExch') : \E i \in 1 .. Len(toExch) :
           /\ toExch'[k] = toExch[i]
           /\ toExch[i].type = "O" => toExch[i].id # id
           /\ \A j \in 1 .. Len(toExch') : toExch'[j].id = toExch[i].id =>
                 (toExch[i].type = "O" => j = k)
  <2>1. CASE /\ toExch # <<>> /\ toExch' = Tail(toExch) /\ toExch[1].id = id
    <3>1. /\ Tail(toExch) \in Seq(Commands) /\ 1 \in 1 .. Len(toExch)
          /\ \A j \in 1 .. Len(Tail(toExch)) :
               /\ j + 1 \in 1 .. Len(toExch) /\ j + 1 # 1
               /\ Tail(toExch)[j] = toExch[j + 1]
      BY <2>1, TakeCommand
    <3>2. ASSUME NEW k \in 1 .. Len(toExch')
          PROVE  LET i == k + 1
                 IN  /\ i \in 1 .. Len(toExch) /\ toExch'[k] = toExch[i]
                     /\ toExch[i].type = "O" => toExch[i].id # id
                     /\ \A j \in 1 .. Len(toExch') : toExch'[j].id = toExch[i].id =>
                           (toExch[i].type = "O" => j = k)
      <4>1. k + 1 \in 1 .. Len(toExch) /\ k + 1 # 1 /\ toExch'[k] = toExch[k + 1]
        BY <2>1, <3>1
      <4>2. toExch[k + 1].type = "O" =>
              \A j \in 1 .. Len(toExch) : toExch[j].id = toExch[k + 1].id => j = k + 1
        BY <4>1 DEF EngineInv, Undecided
      <4>3. toExch[k + 1].type = "O" => toExch[k + 1].id # id
        BY <2>1, <3>1, <4>1, <4>2
      <4>4. ASSUME NEW j \in 1 .. Len(toExch'), toExch'[j].id = toExch[k + 1].id,
                   toExch[k + 1].type = "O"
            PROVE  j = k
        <5>1. j + 1 \in 1 .. Len(toExch) /\ toExch'[j] = toExch[j + 1]
          BY <2>1, <3>1
        <5>2. j + 1 = k + 1
          BY <4>2, <4>4, <5>1
        <5>3. j \in Int /\ k \in Int
          OBVIOUS
        <5> QED BY <5>2, <5>3
      <4> QED BY <4>1, <4>3, <4>4
    <3> QED BY <2>1, <3>1, <3>2
  <2>2. CASE toExch' = toExch /\ exch[id].st # "unknown"
    BY <1>0, <2>2 DEF EngineInv, Undecided
  <2> QED BY <2>1, <2>2
<1>2. StreamsOK'
  <2>1. \A k \in 1 .. Len(toExch') : toExch'[k].id \in Ids
    <3> TAKE k \in 1 .. Len(toExch')
    <3>1. PICK i \in 1 .. Len(toExch) : toExch'[k] = toExch[i]
      BY <1>1
    <3> QED BY <3>1, StreamTypes
  <2>2. \A k \in 1 .. Len(fromExch') : fromExch'[k].id \in Ids
    BY StreamTypes
  <2> QED BY <1>0, <1>1, <2>1, <2>2 DEF StreamsOK
<1>3. Undecided'
  <2> SUFFICES ASSUME NEW k \in 1 .. Len(toExch'), toExch'[k].type = "O"
               PROVE  /\ om.orders[toExch'[k].id].status = "PENDING"
                      /\ exch'[toExch'[k].id].st = "unknown"
                      /\ \A j \in 1 .. Len(fromExch') : fromExch'[j].id # toExch'[k].id
                      /\ \A j \in 1 .. Len(toExch') : toExch'[j].id = toExch'[k].id => j = k
    BY DEF Undecided
  <2>1. PICK i \in 1 .. Len(toExch) :
          /\ toExch'[k] = toExch[i]
          /\ toExch[i].type = "O" => toExch[i].id # id
          /\ \A j \in 1 .. Len(toExch') : toExch'[j].id = toExch[i].id =>
                (toExch[i].type = "O" => j = k)
    BY <1>1
  <2>2. /\ om.orders[toExch[i].id].status = "PENDING" /\ exch[toExch[i].id].st = "unknown"
        /\ \A j \in 1 .. Len(fromExch) : fromExch[j].id # toExch[i].id
    BY <2>1 DEF EngineInv, Undecided
  <2>3. toExch[i].id \in Ids
    BY StreamTypes
  <2> QED BY <2>1, <2>2, <2>3
<1>4. Answered'
  <2>1. /\ \A j \in 1 .. Len(fromExch) :
             fromExch[j].type \in {"C", "J"} => exch[fromExch[j].id].st = "done"
        /\ \A k \in Ids :
             /\ om.orders[k].status = "CANCELLED" => exch[k].st = "done"
             /\ om.orders[k].status = "REJECTED" => exch[k].st # "open"
    BY DEF EngineInv, Answered
  <2>2. \A k \in Ids : exch[k].st = "done" => exch'[k].st = "done"
    OBVIOUS
  <2>3. \A j \in 1 .. Len(fromExch') :
          fromExch'[j].type \in {"C", "J"} => exch'[fromExch'[j].id].st = "done"
    <3> TAKE j \in 1 .. Len(fromExch')
    <3>1. CASE j \in 1 .. Len(fromExch)
      BY <2>1, <2>2, <3>1, StreamTypes
    <3>2. CASE j \notin 1 .. Len(fromExch)
      BY <3>2
    <3> QED BY <3>1, <3>2
  <2>4. ASSUME NEW k \in Ids
        PROVE  /\ om.orders[k].status = "CANCELLED" => exch'[k].st = "done"
               /\ om.orders[k].status = "REJECTED" => exch'[k].st # "open"
    BY <2>1, <2>2
  <2> QED BY <1>0, <2>3, <2>4 DEF Answered
<1>5. Awaited'
  <2> SUFFICES ASSUME NEW k \in Ids, om.orders[k].status = "PENDING"
               PROVE  \/ \E i \in 1 .. Len(toExch') : toExch'[i].id = k /\ toExch'[i].type = "O"
                      \/ \E j \in 1 .. Len(fromExch') :
                           fromExch'[j].id = k /\ fromExch'[j].type \in {"A", "J"}
    BY <1>0 DEF Awaited
  <2>1. CASE \E j \in 1 .. Len(fromExch) : fromExch[j].id = k /\ fromExch[j].type \in {"A", "J"}
    BY <2>1
  <2>2. CASE \E i \in 1 .. Len(toExch) : toExch[i].id = k /\ toExch[i].type = "O"
    <3>1. PICK i \in 1 .. Len(toExch) : toExch[i].id = k /\ toExch[i].type = "O"
      BY <2>2
    <3>2. CASE toExch' = toExch
      BY <3>1, <3>2
    <3>3. CASE toExch # <<>> /\ toExch' = Tail(toExch) /\ i = 1
      <4>1. toExch' # toExch
        <5>1. Len(Tail(toExch)) # Len(toExch)
          <6>1. Len(Tail(toExch)) = Len(toExch) - 1 /\ Len(toExch) \in Nat
            BY <1>0, <3>3, HeadTailProperties, LenProperties
          <6> QED BY <6>1
        <5> QED BY <3>3, <5>1
      <4> QED BY <3>1, <3>3, <4>1
    <3>4. CASE toExch # <<>> /\ toExch' = Tail(toExch) /\ i # 1
      BY <3>1, <3>4, TakeCommand
    <3> QED BY <3>2, <3>3, <3>4
  <2> QED BY <2>1, <2>2 DEF EngineInv, Awaited
<1> QED BY <1>0, <1>2, <1>3, <1>4, <1>5 DEF EngineInv

(* One order changed at the exchange.                                      *)
LEMMA ExchangeTypes ==
  ASSUME EngineInv, NEW id \in Ids, NEW x \in [st : {"unknown", "open", "done"}, leaves : Nat]
  PROVE  LET e == [exch EXCEPT ![id] = x]
         IN  /\ e \in Seq([st : {"unknown", "open", "done"}, leaves : Nat]) /\ Len(e) = Len(exch)
             /\ e[id] = x /\ \A k \in Ids : k # id => e[k] = exch[k]
<1>1. /\ exch \in Seq([st : {"unknown", "open", "done"}, leaves : Nat])
      /\ id \in 1 .. Len(exch) /\ Ids = 1 .. Len(exch)
  BY DEF EngineInv, StreamsOK, Ids
<1> HIDE DEF Ids
<1> QED BY <1>1, ExceptSeq

(* A report is added at the end of the wire.                               *)
LEMMA NewReport ==
  ASSUME EngineInv, NEW r \in Reports, fromExch' = Append(fromExch, r)
  PROVE  /\ fromExch' \in Seq(Reports)
         /\ Len(fromExch) + 1 \in 1 .. Len(fromExch') /\ fromExch'[Len(fromExch) + 1] = r
         /\ \A j \in 1 .. Len(fromExch) : j \in 1 .. Len(fromExch') /\ fromExch'[j] = fromExch[j]
         /\ \A j \in 1 .. Len(fromExch') : j \in 1 .. Len(fromExch) \/ fromExch'[j] = r
<1>1. fromExch \in Seq(Reports) /\ Len(fromExch) \in Nat
  BY StreamTypes DEF EngineInv, StreamsOK
<1>2. /\ fromExch' \in Seq(Reports) /\ Len(fromExch') = Len(fromExch) + 1
      /\ fromExch'[Len(fromExch) + 1] = r
      /\ \A j \in 1 .. Len(fromExch) : fromExch'[j] = fromExch[j]
  BY <1>1, AppendProperties
<1>3. /\ \A j \in 1 .. Len(fromExch) : j \in 1 .. Len(fromExch) + 1
      /\ \A j \in 1 .. Len(fromExch) + 1 : j \in 1 .. Len(fromExch) \/ j = Len(fromExch) + 1
      /\ Len(fromExch) + 1 \in 1 .. Len(fromExch) + 1
  BY <1>1
<1> QED BY <1>2, <1>3

(* An order at the exchange has a state and a number of open shares.       *)
LEMMA ExchOf ==
  ASSUME EngineInv, NEW id \in Ids
  PROVE  exch[id] \in [st : {"unknown", "open", "done"}, leaves : Nat]
<1>1. /\ exch \in Seq([st : {"unknown", "open", "done"}, leaves : Nat])
      /\ id \in 1 .. Len(exch)
  BY DEF EngineInv, StreamsOK, Ids
<1> QED BY <1>1, ElementOfSeq

(* The exchange reads an order and accepts or rejects it.                  *)
LEMMA TakesOrderStep ==
  ASSUME EngineInv, ExchangeTakesOrder
  PROVE  EngineInv'
<1> DEFINE id == toExch[1].id
<1>1. /\ toExch # <<>> /\ Head(toExch) = toExch[1] /\ 1 \in 1 .. Len(toExch) /\ id \in Ids
      /\ toExch[1].type = "O"
  BY TakeCommand DEF ExchangeTakesOrder
<1>2. om.orders[id].status = "PENDING" /\ exch[id].st = "unknown"
  BY <1>1 DEF EngineInv, Undecided
<1>3. PICK st \in {"open", "done"}, ty \in {"A", "J"} :
        /\ ty = "J" => st = "done"
        /\ exch' = [exch EXCEPT ![id].st = st] /\ Send(ty, id)
  BY <1>1 DEF ExchangeTakesOrder
<1>4. toExch' = Tail(toExch) /\ om' = om /\ executed' = executed /\ executed \in Seq(Nat)
  BY DEF ExchangeTakesOrder, engine, EngineInv, StreamsOK
<1> HIDE DEF id
<1> DEFINE x == [exch[id] EXCEPT !.st = st]
           r == [type |-> ty, id |-> id, qty |-> 0, price |-> 0]
<1>5. x \in [st : {"unknown", "open", "done"}, leaves : Nat] /\ x.st = st
  BY <1>1, ExchOf
<1>6. r \in Reports /\ r.id = id /\ r.type = ty
  BY <1>1, StreamTypes DEF Reports, Ids
<1>7. fromExch' = Append(fromExch, r)
  BY <1>3 DEF Send
<1>8. exch' = [exch EXCEPT ![id] = x]
  BY <1>3
<1> HIDE DEF x, r
<1>9. /\ exch' \in Seq([st : {"unknown", "open", "done"}, leaves : Nat]) /\ Len(exch') = Len(exch)
      /\ exch'[id].st = st /\ \A k \in Ids : k # id => exch'[k] = exch[k]
  BY <1>1, <1>5, <1>8, ExchangeTypes
<1>10. /\ fromExch' \in Seq(Reports)
       /\ Len(fromExch) + 1 \in 1 .. Len(fromExch') /\ fromExch'[Len(fromExch) + 1] = r
       /\ \A j \in 1 .. Len(fromExch) : j \in 1 .. Len(fromExch') /\ fromExch'[j] = fromExch[j]
       /\ \A j \in 1 .. Len(fromExch') : j \in 1 .. Len(fromExch) \/ fromExch'[j] = r
  BY <1>6, <1>7, NewReport
<1>11. \E j \in 1 .. Len(fromExch') : fromExch'[j].id = id /\ fromExch'[j].type \in {"A", "J"}
  BY <1>6, <1>10
<1>12. \A j \in 1 .. Len(fromExch') :
         \/ j \in 1 .. Len(fromExch)
         \/ fromExch'[j].id = id /\ (fromExch'[j].type \in {"C", "J"} => exch'[id].st = "done")
  BY <1>3, <1>6, <1>9, <1>10
<1>13. toExch[1].id = id
  BY DEF id
<1> QED BY <1>1, <1>2, <1>4, <1>9, <1>10, <1>11, <1>12, <1>13, ExchangeStep

(* The exchange reads a cancel request.                                    *)
LEMMA TakesCancelStep ==
  ASSUME EngineInv, ExchangeTakesCancel
  PROVE  EngineInv'
<1> DEFINE id == toExch[1].id
<1>1. /\ toExch # <<>> /\ Head(toExch) = toExch[1] /\ 1 \in 1 .. Len(toExch) /\ id \in Ids
      /\ toExch[1].type = "X"
  BY TakeCommand DEF ExchangeTakesCancel
<1>2. \/ exch' = [exch EXCEPT ![id].st = "done"] /\ Send("C", id)
      \/ exch[id].st # "open" /\ exch' = exch /\ fromExch' = fromExch
  BY <1>1 DEF ExchangeTakesCancel
<1>3. toExch' = Tail(toExch) /\ om' = om /\ executed' = executed /\ executed \in Seq(Nat)
  BY DEF ExchangeTakesCancel, engine, EngineInv, StreamsOK
<1>4. toExch[1].id = id
  OBVIOUS
<1> HIDE DEF id
<1>5. CASE exch' = [exch EXCEPT ![id].st = "done"] /\ Send("C", id)
  <2> DEFINE x == [exch[id] EXCEPT !.st = "done"]
             r == [type |-> "C", id |-> id, qty |-> 0, price |-> 0]
  <2>1. x \in [st : {"unknown", "open", "done"}, leaves : Nat] /\ x.st = "done"
    BY <1>1, ExchOf
  <2>2. r \in Reports /\ r.id = id
    BY <1>1, StreamTypes DEF Reports, Ids
  <2>3. fromExch' = Append(fromExch, r) /\ exch' = [exch EXCEPT ![id] = x]
    BY <1>5 DEF Send
  <2> HIDE DEF x, r
  <2>4. /\ exch' \in Seq([st : {"unknown", "open", "done"}, leaves : Nat]) /\ Len(exch') = Len(exch)
        /\ exch'[id].st = "done" /\ \A k \in Ids : k # id => exch'[k] = exch[k]
    BY <1>1, <2>1, <2>3, ExchangeTypes
  <2>5. /\ fromExch' \in Seq(Reports)
        /\ \A j \in 1 .. Len(fromExch) : j \in 1 .. Len(fromExch') /\ fromExch'[j] = fromExch[j]
        /\ \A j \in 1 .. Len(fromExch') : j \in 1 .. Len(fromExch) \/ fromExch'[j].id = id
    BY <2>2, <2>3, NewReport
  <2> QED BY <1>1, <1>3, <1>4, <2>4, <2>5, ExchangeStep
<1>6. CASE exch[id].st # "open" /\ exch' = exch /\ fromExch' = fromExch
  <2>1. exch \in Seq([st : {"unknown", "open", "done"}, leaves : Nat]) /\ fromExch \in Seq(Reports)
    BY DEF EngineInv, StreamsOK
  <2> QED BY <1>1, <1>3, <1>4, <1>6, <2>1, ExchangeStep
<1> QED BY <1>2, <1>5, <1>6

(* The exchange executes a part of an order.                               *)
LEMMA ExecutesStep ==
  ASSUME EngineInv, NEW id \in Ids, NEW q \in Quantities, NEW p \in FillPrices,
         ExchangeExecutes(id, q, p)
  PROVE  EngineInv'
<1> USE EngineAssumption
<1> DEFINE x == [st |-> IF q = exch[id].leaves THEN "done" ELSE "open",
                 leaves |-> exch[id].leaves - q]
           r == [type |-> "E", id |-> id, qty |-> q, price |-> p]
<1>1. /\ exch[id].st = "open" /\ q <= exch[id].leaves /\ q \in Nat /\ p \in Nat
      /\ exch' = [exch EXCEPT ![id] = x] /\ fromExch' = Append(fromExch, r)
      /\ executed' = [executed EXCEPT ![id] = executed[id] + q]
      /\ toExch' = toExch /\ om' = om
  BY DEF ExchangeExecutes, engine
<1>2. x \in [st : {"unknown", "open", "done"}, leaves : Nat]
  <2>1. exch[id].leaves \in Nat
    BY ExchOf
  <2>2. exch[id].leaves - q \in Nat
    BY <1>1, <2>1
  <2> QED BY <2>2
<1>3. r \in Reports /\ r.id = id /\ r.type = "E"
  BY <1>1, StreamTypes DEF Reports, Ids
<1> HIDE DEF x, r
<1>4. /\ exch' \in Seq([st : {"unknown", "open", "done"}, leaves : Nat]) /\ Len(exch') = Len(exch)
      /\ \A k \in Ids : k # id => exch'[k] = exch[k]
  BY <1>1, <1>2, ExchangeTypes
<1>5. /\ fromExch' \in Seq(Reports)
      /\ \A j \in 1 .. Len(fromExch) : j \in 1 .. Len(fromExch') /\ fromExch'[j] = fromExch[j]
      /\ \A j \in 1 .. Len(fromExch') : j \in 1 .. Len(fromExch) \/ fromExch'[j] = r
  BY <1>1, <1>3, NewReport
<1>6. executed' \in Seq(Nat) /\ Len(executed') = Len(executed)
  <2>1. executed \in Seq(Nat) /\ id \in 1 .. Len(executed)
    BY DEF EngineInv, StreamsOK, Ids
  <2>2. executed[id] + q \in Nat
    BY <1>1, <2>1, ElementOfSeq
  <2> QED BY <1>1, <2>1, <2>2, ExceptSeq
<1>7. om.orders[id].status \notin {"CANCELLED", "REJECTED"}
  BY <1>1 DEF EngineInv, Answered
<1>8. \A j \in 1 .. Len(fromExch') :
        \/ j \in 1 .. Len(fromExch)
        \/ fromExch'[j].id = id /\ (fromExch'[j].type \in {"C", "J"} => exch'[id].st = "done")
  BY <1>3, <1>5
<1> QED BY <1>1, <1>4, <1>5, <1>6, <1>7, <1>8, ExchangeStep

(* Steps that touch neither the book nor the conversation.                 *)
LEMMA EngineStutter ==
  ASSUME EngineInv, UNCHANGED <<om, toExch, fromExch, exchange>>
  PROVE  EngineInv'
<1>1. om' = om /\ toExch' = toExch /\ fromExch' = fromExch /\ exch' = exch /\ executed' = executed
  BY DEF exchange
<1>2. BookOK(om') /\ StreamsOK'
  BY <1>1 DEF EngineInv, StreamsOK, Ids
<1>3. Undecided' /\ Answered' /\ Awaited'
  BY <1>1 DEF EngineInv, Undecided, Answered, Awaited, Ids
<1> QED BY <1>2, <1>3 DEF EngineInv

(* Every step keeps the engine's invariant.                                *)
LEMMA NextEngine ==
  ASSUME EngineInv, [Next]_vars
  PROVE  EngineInv'
<1>1. CASE SubmitSignal
  BY <1>1, SubmitStep
<1>2. CASE \E id \in Ids, sent \in BOOLEAN : CancelOrder(id, sent)
  BY <1>2, CancelStep
<1>3. CASE \E s \in Symbols, p \in FillPrices : MarkPrice(s, p)
  BY <1>3, EngineStutter DEF MarkPrice
<1>4. CASE Report
  BY <1>4, ReportStep
<1>5. CASE ExchangeTakesOrder
  BY <1>5, TakesOrderStep
<1>6. CASE ExchangeTakesCancel
  BY <1>6, TakesCancelStep
<1>7. CASE \E id \in Ids, q \in Quantities, p \in FillPrices : ExchangeExecutes(id, q, p)
  BY <1>7, ExecutesStep
<1>8. CASE UNCHANGED vars
  BY <1>8, EngineStutter DEF vars, engine
<1> QED BY <1>1, <1>2, <1>3, <1>4, <1>5, <1>6, <1>7, <1>8 DEF Next, Exchange
-----------------------------------------------------------------------------
(* The inductive invariant.  The index alone is not inductive with respect *)
(* to PendingIsInFlight: that an order on the wire is still PENDING here   *)
(* and unknown there (Undecided) is what lets the 'A' or the 'J' meet the  *)
(* order in the status on_accept and on_reject test for.                   *)
THEOREM EngineInvariant == Spec => []EngineInv
<1>1. Init => EngineInv
  BY InitEngine
<1>2. EngineInv /\ [Next]_vars => EngineInv'
  BY NextEngine
<1> QED BY <1>1, <1>2, PTL DEF Spec

(* open_orders() of every symbol is exactly the set of its orders in a     *)
(* status that is not terminal, after every submit, cancel, report, fill   *)
(* and flatten, for any number of orders.                                  *)
THEOREM OpenOrdersExact == Spec => []IndexIsLive
<1>1. EngineInv => IndexIsLive
  BY DEF EngineInv, BookOK, IndexExact, IndexIsLive, Ids
<1> QED BY <1>1, EngineInvariant, PTL

(* An order that OMS calls PENDING is undecided: its 'O' or the exchange's *)
(* answer to it is on the wire.  No failed check, failed send or reject    *)
(* strands an order in the index.                                          *)
THEOREM PendingIsUndecided == Spec => []PendingIsInFlight
<1>1. ASSUME EngineInv PROVE PendingIsInFlight
  <2> SUFFICES ASSUME NEW id \in Ids, om.orders[id].status = "PENDING"
               PROVE  \/ \E m \in Range(toExch) : m.id = id /\ m.type = "O"
                      \/ \E m \in Range(fromExch) : m.id = id /\ m.type \in {"A", "J"}
    BY DEF PendingIsInFlight
  <2>1. toExch \in Seq(Commands) /\ fromExch \in Seq(Reports)
    BY <1>1 DEF EngineInv, StreamsOK
  <2>2. /\ \A k \in 1 .. Len(toExch) : toExch[k] \in Range(toExch)
        /\ \A k \in 1 .. Len(fromExch) : fromExch[k] \in Range(fromExch)
    BY <2>1 DEF Range
  <2>3. \/ \E k \in 1 .. Len(toExch) : toExch[k].id = id /\ toExch[k].type = "O"
        \/ \E j \in 1 .. Len(fromExch) : fromExch[j].id = id /\ fromExch[j].type \in {"A", "J"}
    BY <1>1 DEF EngineInv, Awaited
  <2> QED BY <2>2, <2>3
<1> QED BY <1>1, EngineInvariant, PTL

(* What OMS calls CANCELLED or REJECTED is closed at the exchange and not  *)
(* on its way there, however cancels, fills and reports cross.             *)
THEOREM WrittenOffCannotTrade == Spec => []WrittenOffIsClosed
<1>1. ASSUME EngineInv PROVE WrittenOffIsClosed
  <2> SUFFICES ASSUME NEW id \in Ids, om.orders[id].status \in {"CANCELLED", "REJECTED"}
      PROVE  exch[id].st # "open" /\ [type |-> "O", id |-> id] \notin Range(toExch)
    BY DEF WrittenOffIsClosed
  <2>1. exch[id].st # "open"
    BY <1>1 DEF EngineInv, Answered
  <2>2. ASSUME [type |-> "O", id |-> id] \in Range(toExch) PROVE FALSE
    <3>1. toExch \in Seq(Commands)
      BY <1>1 DEF EngineInv, StreamsOK
    <3>2. PICK k \in 1 .. Len(toExch) : toExch[k] = [type |-> "O", id |-> id]
      BY <2>2, <3>1 DEF Range
    <3> QED BY <1>1, <3>2 DEF EngineInv, Undecided
  <2> QED BY <2>1, <2>2
<1> QED BY <1>1, EngineInvariant, PTL

(* The status of an order only moves along the arrows of order_manager.h,  *)
(* whatever the step: a submit leaves the other orders alone, a report     *)
(* that comes late finds a status it is not meant for and changes nothing. *)
THEOREM StatusFollowsArrows == Spec => StatusArrows
<1> DEFINE Arrow(id) ==
      <<om.orders[id].status, om'.orders[id].status>> \in
       {<<st, st>> : st \in Live \cup Terminal} \cup
       {"PENDING"} \X {"SUBMITTED", "REJECTED"} \cup
       {"SUBMITTED", "PARTIAL_FILL"} \X {"PARTIAL_FILL", "FILLED", "PENDING_CANCEL"} \cup
       {<<"PENDING_CANCEL", "CANCELLED">>}
<1>1. ASSUME EngineInv, Next PROVE \A id \in Ids : Arrow(id)
  <2> SUFFICES ASSUME NEW id \in Ids PROVE Arrow(id)
    OBVIOUS
  <2>1. om.orders[id].status \in Live \cup Terminal
    BY <1>1, BookTypes DEF EngineInv, BookOK, Ids, Entries, Statuses
  <2>2. /\ om'.orders[id].status = om.orders[id].status => Arrow(id)
        /\ om.orders[id].status = "PENDING" /\ om'.orders[id].status \in {"SUBMITTED", "REJECTED"}
             => Arrow(id)
        /\ om.orders[id].status = "PENDING_CANCEL" /\ om'.orders[id].status = "CANCELLED"
             => Arrow(id)
        /\ /\ om.orders[id].status \in Fillable
           /\ om'.orders[id].status \in {"PARTIAL_FILL", "FILLED", "PENDING_CANCEL"}
           => Arrow(id)
    BY <2>1 DEF Fillable
  <2> HIDE DEF Arrow
  <2>3. CASE SubmitSignal
    BY <1>1, <2>2, <2>3, SubmitBook
  <2>4. CASE \E k \in Ids, sent \in BOOLEAN : CancelOrder(k, sent)
    <3>1. PICK k \in Ids, sent \in BOOLEAN : CancelOrder(k, sent)
      BY <2>4
    <3>2. Moves(om, om', k, Fillable, {"PENDING_CANCEL"})
      BY <1>1, <3>1, CancelStep
    <3>3. id # k => om'.orders[id] = om.orders[id]
      BY <3>2 DEF Moves, Ids
    <3>4. \/ om.orders[k].status \in Fillable /\ om'.orders[k].status = "PENDING_CANCEL"
          \/ om' = om
      BY <3>2 DEF Moves
    <3> QED BY <2>2, <3>3, <3>4
  <2>5. CASE \E s \in Symbols, p \in FillPrices : MarkPrice(s, p)
    BY <2>2, <2>5 DEF MarkPrice
  <2>6. CASE Report
    BY <1>1, <2>2, <2>6, ReportStep
  <2>7. CASE Exchange
    BY <2>2, <2>7 DEF Exchange, ExchangeTakesOrder, ExchangeTakesCancel, ExchangeExecutes, engine
  <2> QED BY <1>1, <2>3, <2>4, <2>5, <2>6, <2>7 DEF Next
<1>2. EngineInv /\ [Next]_vars => [\A id \in Ids : Arrow(id)]_vars
  BY <1>1
<1>3. Spec => [][\A id \in Ids : Arrow(id)]_vars
  BY <1>2, EngineInvariant, PTL DEF Spec
<1> QED BY <1>3 DEF StatusArrows
-----------------------------------------------------------------------------
(* Executions: exchange, wire and book.                                    *)
LEMMA TradeTypes ==
  ASSUME EngineInv
  PROVE  /\ Len(fromExch) \in Nat
         /\ \A id \in Ids : /\ om.orders[id].filled \in Nat /\ om.orders[id].quantity \in Nat
                            /\ om.orders[id].filled + om.orders[id].remaining = om.orders[id].quantity
                            /\ om.orders[id].remaining \in Nat
                            /\ executed[id] \in Nat /\ exch[id].leaves \in Nat
         /\ \A k \in 1 .. Len(fromExch), id \in Ids : Shares(fromExch[k], id) \in Nat
<1>1. /\ BookOK(om) /\ om \in Books /\ executed \in Seq(Nat) /\ Ids = 1 .. Len(executed)
      /\ Ids = 1 .. Len(om.orders)
  BY DEF EngineInv, StreamsOK, BookOK, Ids
<1>2. ASSUME NEW id \in Ids
      PROVE  /\ om.orders[id].filled \in Nat /\ om.orders[id].quantity \in Nat
             /\ om.orders[id].filled + om.orders[id].remaining = om.orders[id].quantity
             /\ om.orders[id].remaining \in Nat
             /\ executed[id] \in Nat /\ exch[id].leaves \in Nat
  <2>1. om.orders[id] \in Entries
    BY <1>1, BookTypes
  <2>2. executed[id] \in Nat
    BY <1>1, ElementOfSeq
  <2>3. om.orders[id].filled + om.orders[id].remaining = om.orders[id].quantity
    BY <1>1 DEF BookOK, FillsFit
  <2> QED BY <2>1, <2>2, <2>3, ExchOf DEF Entries
<1>3. \A k \in 1 .. Len(fromExch) : fromExch[k].qty \in Nat
  BY StreamTypes DEF Reports
<1> QED BY <1>2, <1>3, StreamTypes DEF Shares

(* A report leaves the wire: its shares may be booked, fewer are too.      *)
LEMMA TrailTake ==
  ASSUME EngineInv, fromExch # <<>>, fromExch' = Tail(fromExch), NEW id \in Ids, Trail(id),
         executed' = executed, om'.orders[id].filled \in Nat,
         om'.orders[id].filled <= om.orders[id].filled + Shares(fromExch[1], id)
  PROVE  Trail(id)'
<1> DEFINE n == Len(fromExch)
<1>1. PICK c \in [1 .. n + 1 -> 0 .. executed[id]] :
        /\ om.orders[id].filled <= c[1]
        /\ \A j \in 1 .. n : c[j] + Shares(fromExch[j], id) <= c[j + 1]
  BY DEF Trail
<1>2. /\ n \in Nat /\ 1 \in 1 .. n /\ Len(fromExch') = n - 1
      /\ \A j \in 1 .. Len(fromExch') : j + 1 \in 1 .. n /\ fromExch'[j] = fromExch[j + 1]
  BY TakeReport, StreamTypes
<1> DEFINE d == [j \in 1 .. Len(fromExch') + 1 |-> c[j + 1]]
<1>3. \A j \in 1 .. Len(fromExch') + 1 : j + 1 \in 1 .. n + 1
  BY <1>2
<1>4. d \in [1 .. Len(fromExch') + 1 -> 0 .. executed'[id]]
  BY <1>3
<1>5. 1 \in 1 .. Len(fromExch') + 1 /\ \A j \in 1 .. Len(fromExch') :
        j \in 1 .. Len(fromExch') + 1 /\ j + 1 \in 1 .. Len(fromExch') + 1
  BY <1>2
<1>6. \A j \in 1 .. Len(fromExch') : d[j] + Shares(fromExch'[j], id) <= d[j + 1]
  <2> TAKE j \in 1 .. Len(fromExch')
  <2>1. d[j] = c[j + 1] /\ d[j + 1] = c[(j + 1) + 1]
    BY <1>5
  <2>2. c[j + 1] + Shares(fromExch[j + 1], id) <= c[(j + 1) + 1]
    BY <1>1, <1>2
  <2> QED BY <1>2, <2>1, <2>2
<1>7. om'.orders[id].filled <= d[1]
  <2>1. d[1] = c[1 + 1]
    BY <1>5
  <2>2. c[1] + Shares(fromExch[1], id) <= c[1 + 1]
    BY <1>1, <1>2
  <2>3. /\ c[1] \in Int /\ c[1 + 1] \in Int
        /\ om.orders[id].filled \in Nat /\ Shares(fromExch[1], id) \in Nat
    <3>1. 1 \in 1 .. n + 1 /\ 1 + 1 \in 1 .. n + 1 /\ executed[id] \in Nat
      BY <1>2, TradeTypes
    <3>2. om.orders[id].filled \in Nat /\ Shares(fromExch[1], id) \in Nat
      BY <1>2, TradeTypes
    <3>3. c[1] \in 0 .. executed[id] /\ c[1 + 1] \in 0 .. executed[id]
      BY <3>1
    <3> QED BY <3>1, <3>2, <3>3
  <2>4. om.orders[id].filled <= c[1]
    BY <1>1
  <2> HIDE DEF d
  <2>5. om'.orders[id].filled <= c[1 + 1]
    BY <2>2, <2>3, <2>4
  <2> QED BY <2>1, <2>5
<1> HIDE DEF d
<1> QED BY <1>4, <1>6, <1>7 DEF Trail

(* A report is added to the wire.                                          *)
LEMMA TrailAdd ==
  ASSUME EngineInv, NEW r \in Reports, fromExch' = Append(fromExch, r), NEW id \in Ids, Trail(id),
         om' = om, executed'[id] = executed[id] + Shares(r, id)
  PROVE  Trail(id)'
<1> DEFINE n == Len(fromExch)
<1>1. PICK c \in [1 .. n + 1 -> 0 .. executed[id]] :
        /\ om.orders[id].filled <= c[1]
        /\ \A j \in 1 .. n : c[j] + Shares(fromExch[j], id) <= c[j + 1]
  BY DEF Trail
<1>2. /\ n \in Nat /\ executed[id] \in Nat /\ Shares(r, id) \in Nat
  BY TradeTypes DEF Reports, Shares
<1>3. /\ Len(fromExch') = n + 1 /\ fromExch'[n + 1] = r
      /\ \A j \in 1 .. n : fromExch'[j] = fromExch[j]
  <2>1. fromExch \in Seq(Reports)
    BY DEF EngineInv, StreamsOK
  <2> QED BY <2>1, AppendProperties
<1> HIDE DEF n
<1> DEFINE d == [j \in 1 .. (n + 1) + 1 |-> IF j = (n + 1) + 1 THEN executed'[id] ELSE c[j]]
<1>4. /\ \A j \in 1 .. (n + 1) + 1 : j # (n + 1) + 1 => j \in 1 .. n + 1
      /\ executed'[id] \in 0 .. executed'[id]
      /\ 0 .. executed[id] \subseteq 0 .. executed'[id]
      /\ 1 \in 1 .. (n + 1) + 1 /\ 1 # (n + 1) + 1
      /\ \A j \in 1 .. n + 1 : /\ j \in 1 .. (n + 1) + 1 /\ j # (n + 1) + 1
                               /\ j + 1 \in 1 .. (n + 1) + 1
      /\ \A j \in 1 .. n : j + 1 # (n + 1) + 1
      /\ \A j \in 1 .. n + 1 : j \in 1 .. n \/ j = n + 1
      /\ n + 1 \in 1 .. n + 1
  BY <1>2
<1>5. d \in [1 .. (n + 1) + 1 -> 0 .. executed'[id]]
  BY <1>4
<1>6. d[1] = c[1] /\ \A j \in 1 .. n : d[j] = c[j] /\ d[j + 1] = c[j + 1]
  <2>1. \A j \in 1 .. n : j \in 1 .. n + 1
    BY <1>2
  <2> QED BY <1>4, <2>1
<1>7. d[n + 1] = c[n + 1] /\ d[(n + 1) + 1] = executed'[id]
  BY <1>4
<1> HIDE DEF d
<1>8. ASSUME NEW j \in 1 .. n + 1
      PROVE  d[j] + Shares(fromExch'[j], id) <= d[j + 1]
  <2>1. CASE j \in 1 .. n
    BY <1>1, <1>3, <1>6, <2>1 DEF n
  <2>2. CASE j = n + 1
    <3>1. c[n + 1] \in 0 .. executed[id]
      BY <1>4
    <3>2. c[n + 1] + Shares(r, id) <= executed[id] + Shares(r, id)
      BY <1>2, <3>1
    <3> QED BY <1>3, <1>7, <2>2, <3>2
  <2> QED BY <1>4, <2>1, <2>2
<1>9. om'.orders[id].filled <= d[1]
  BY <1>1, <1>6
<1> QED BY <1>3, <1>5, <1>8, <1>9 DEF Trail

(* Steps of the engine: nothing is booked, or the report that was taken.   *)
LEMMA TradeStep ==
  ASSUME EngineInv, EngineInv', TradesOK, UNCHANGED exchange, Len(om'.orders) = Len(om.orders),
         NEW id, NEW n \in Nat, BooksAtMost(om, om', id, n),
         \/ fromExch' = fromExch /\ n = 0
         \/ fromExch # <<>> /\ fromExch' = Tail(fromExch) /\ n <= Shares(fromExch[1], id)
  PROVE  TradesOK'
<1>0. Ids' = Ids /\ exch' = exch /\ executed' = executed
  BY DEF Ids, exchange
<1>1. ASSUME NEW k \in Ids PROVE Whole(k)' /\ Divided(k)' /\ Trail(k)'
  <2>1. /\ om'.orders[k].quantity = om.orders[k].quantity
        /\ om'.orders[k].filled <= om.orders[k].filled + (IF k = id THEN n ELSE 0)
        /\ om'.orders[k].status = "FILLED" =>
             \/ om'.orders[k].filled = om'.orders[k].quantity
             \/ om.orders[k].status = "FILLED" /\ om'.orders[k].filled = om.orders[k].filled
    BY DEF BooksAtMost, Ids
  <2>2. Whole(k) /\ Divided(k) /\ Trail(k)
    BY DEF TradesOK
  <2>3. Whole(k)' /\ Divided(k)'
    BY <1>0, <2>1, <2>2 DEF Whole, Divided
  <2>4. om'.orders[k].filled \in Nat
    <3>1. om'.orders[k] \in Entries
      BY BookTypes DEF EngineInv, BookOK, Ids
    <3> QED BY <3>1 DEF Entries
  <2>5. om.orders[k].filled \in Nat
    BY TradeTypes
  <2>6. CASE fromExch' = fromExch /\ n = 0
    <3>1. PICK c \in [1 .. Len(fromExch) + 1 -> 0 .. executed[k]] :
            /\ om.orders[k].filled <= c[1]
            /\ \A j \in 1 .. Len(fromExch) : c[j] + Shares(fromExch[j], k) <= c[j + 1]
      BY <2>2 DEF Trail
    <3>2. c[1] \in Int
      <4>1. 1 \in 1 .. Len(fromExch) + 1 /\ executed[k] \in Nat
        BY TradeTypes
      <4> QED BY <4>1
    <3>3. om'.orders[k].filled <= c[1]
      BY <2>1, <2>4, <2>5, <2>6, <3>1, <3>2
    <3> QED BY <1>0, <2>3, <2>6, <3>1, <3>3 DEF Trail
  <2>7. CASE fromExch # <<>> /\ fromExch' = Tail(fromExch) /\ n <= Shares(fromExch[1], id)
    <3>1. Shares(fromExch[1], k) \in Nat
      BY <2>7, TakeReport, TradeTypes
    <3>2. (IF k = id THEN n ELSE 0) <= Shares(fromExch[1], k) /\ (IF k = id THEN n ELSE 0) \in Nat
      BY <2>7, <3>1
    <3>3. om'.orders[k].filled <= om.orders[k].filled + Shares(fromExch[1], k)
      <4> DEFINE x == IF k = id THEN n ELSE 0
      <4>1. om'.orders[k].filled <= om.orders[k].filled + x
        BY <2>1
      <4>2. x <= Shares(fromExch[1], k) /\ x \in Nat
        BY <3>2
      <4> HIDE DEF x
      <4> QED BY <2>4, <2>5, <3>1, <4>1, <4>2
    <3> QED BY <1>0, <2>2, <2>3, <2>4, <2>7, <3>3, TrailTake
  <2> QED BY <2>6, <2>7
<1> QED BY <1>0, <1>1 DEF TradesOK

(* A new order has traded nothing.                                         *)
LEMMA TradeSubmit ==
  ASSUME EngineInv, TradesOK, SubmitSignal
  PROVE  TradesOK'
<1> DEFINE m == Len(fromExch)
<1>0. \E n \in Nat : n = Len(om.orders)
  BY StreamTypes
<1> PICK n \in Nat : n = Len(om.orders)
  BY <1>0
<1>1. /\ Len(om'.orders) = n + 1
      /\ \A k \in Ids : om'.orders[k] = om.orders[k]
  BY SubmitBook
<1>2. PICK o \in [sym : Symbols, side : Sides, price : Nat, quantity : Nat], ok \in BOOLEAN :
        /\ om'.orders[n + 1].status = IF ok THEN "PENDING" ELSE "REJECTED"
        /\ exch' = Append(exch, [st |-> "unknown", leaves |-> o.quantity])
        /\ executed' = Append(executed, 0)
        /\ fromExch' = fromExch
        /\ om'.orders[n + 1].filled = 0
        /\ om'.orders[n + 1].quantity = o.quantity
  BY SubmitBook
<1>3. /\ n \in Nat /\ m \in Nat /\ Ids = 1 .. n /\ Ids' = 1 .. n + 1
      /\ \A j \in 1 .. m : fromExch[j].id \in 1 .. n
  BY <1>1, StreamTypes DEF Ids
<1>4. /\ exch \in Seq([st : {"unknown", "open", "done"}, leaves : Nat]) /\ Len(exch) = n
      /\ executed \in Seq(Nat) /\ Len(executed) = n
  BY DEF EngineInv, StreamsOK
<1> DEFINE ex == [st |-> "unknown", leaves |-> o.quantity]
<1>5. ex \in [st : {"unknown", "open", "done"}, leaves : Nat] /\ ex.leaves = o.quantity
  OBVIOUS
<1>6. exch' = Append(exch, ex)
  BY <1>2
<1> HIDE DEF ex
<1>7. /\ \A k \in 1 .. n : exch'[k] = exch[k] /\ executed'[k] = executed[k]
      /\ exch'[n + 1].leaves = o.quantity /\ executed'[n + 1] = 0
  BY <1>2, <1>4, <1>5, <1>6, AppendProperties
<1>8. ASSUME NEW k \in 1 .. n PROVE Whole(k)' /\ Divided(k)' /\ Trail(k)'
  <2>1. Whole(k) /\ Divided(k) /\ Trail(k) /\ om'.orders[k] = om.orders[k]
    BY <1>1, <1>3 DEF TradesOK
  <2> QED BY <1>2, <1>7, <2>1 DEF Whole, Divided, Trail
<1>9. Whole(n + 1)' /\ Divided(n + 1)'
  <2>1. om'.orders[n + 1].status # "FILLED"
    BY <1>2
  <2>2. o.quantity + 0 = o.quantity
    OBVIOUS
  <2>3. exch'[n + 1].leaves + executed'[n + 1] = om'.orders[n + 1].quantity
    BY <1>2, <1>7, <2>2
  <2> QED BY <2>1, <2>3 DEF Whole, Divided
<1>10. Trail(n + 1)'
  <2> DEFINE c == [j \in 1 .. m + 1 |-> 0]
  <2>1. c \in [1 .. m + 1 -> 0 .. executed'[n + 1]] /\ c[1] = 0
    BY <1>3, <1>7
  <2>2. ASSUME NEW j \in 1 .. m PROVE c[j] + Shares(fromExch[j], n + 1) <= c[j + 1]
    <3>1. fromExch[j].id # n + 1
      BY <1>3
    <3>2. c[j] = 0 /\ c[j + 1] = 0
      BY <1>3
    <3> QED BY <3>1, <3>2 DEF Shares
  <2> HIDE DEF c
  <2>3. om'.orders[n + 1].filled <= c[1]
    BY <1>2, <2>1
  <2>4. fromExch' = fromExch
    BY <1>2
  <2> HIDE DEF m
  <2> QED BY <2>1, <2>2, <2>3, <2>4 DEF Trail, m
<1>11. \A k \in 1 .. n + 1 : k \in 1 .. n \/ k = n + 1
  BY <1>3
<1> QED BY <1>3, <1>8, <1>9, <1>10, <1>11 DEF TradesOK

(* What a report books was on the way before.                              *)
LEMMA TradeReport ==
  ASSUME EngineInv, EngineInv', TradesOK, Report
  PROVE  TradesOK'
<1> DEFINE f == fromExch[1]
<1>1. /\ fromExch # <<>> /\ Head(fromExch) = f /\ fromExch' = Tail(fromExch)
      /\ UNCHANGED exchange /\ f \in Reports /\ f.id \in Ids
  BY TakeReport DEF Report
<1>2. om \in Books /\ f.id \in 1 .. Len(om.orders) /\ f.qty \in Nat
  BY <1>1 DEF EngineInv, BookOK, Ids, Reports
<1>3. Len(om'.orders) = Len(om.orders)
  BY <1>1 DEF exchange, EngineInv, StreamsOK
<1>4. CASE f.type = "E"
  <2>1. BooksAtMost(om, om', f.id, f.qty)
    BY <1>1, <1>4, ExecutionStep DEF Report
  <2>2. f.qty <= Shares(f, f.id)
    BY <1>2, <1>4 DEF Shares
  <2> HIDE DEF f
  <2>3. f = fromExch[1]
    BY DEF f
  <2> QED BY <1>1, <1>2, <1>3, <2>1, <2>2, <2>3, TradeStep
<1>5. CASE f.type # "E"
  <2>1. f.type \in {"A", "C", "J"}
    BY <1>1, <1>5 DEF Reports
  <2>2. OnOrderReport(f)
    BY <1>1, <1>5 DEF Report
  <2>3. BooksAtMost(om, om', f.id, 0)
    BY <1>2, <2>1, <2>2, CallBooks DEF OnOrderReport
  <2>4. 0 <= Shares(f, f.id)
    BY <1>2 DEF Shares
  <2> QED BY <1>1, <1>3, <2>3, <2>4, TradeStep
<1> QED BY <1>4, <1>5

(* What the exchange executes is put on the way.                           *)
LEMMA TradeExchange ==
  ASSUME EngineInv, TradesOK, Exchange
  PROVE  TradesOK'
<1> USE EngineAssumption
<1>1. om' = om /\ Ids' = Ids
  BY DEF Exchange, ExchangeTakesOrder, ExchangeTakesCancel, ExchangeExecutes, engine, Ids
<1>2. \A k \in Ids : Whole(k)'
  BY <1>1 DEF TradesOK, Whole
<1>3. CASE ExchangeTakesOrder \/ ExchangeTakesCancel
  <2> DEFINE id == toExch[1].id
  <2>1. toExch # <<>> /\ Head(toExch) = toExch[1] /\ id \in Ids
    BY <1>3, TakeCommand DEF ExchangeTakesOrder, ExchangeTakesCancel
  <2>2. executed' = executed
    BY <1>3 DEF ExchangeTakesOrder, ExchangeTakesCancel
  <2>3. \/ /\ exch' = exch /\ fromExch' = fromExch
        \/ /\ \E st \in {"open", "done"} : exch' = [exch EXCEPT ![id].st = st]
           /\ \E type \in {"A", "J", "C"} : Send(type, id)
    BY <1>3, <2>1 DEF ExchangeTakesOrder, ExchangeTakesCancel
  <2> HIDE DEF id
  <2>4. CASE exch' = exch /\ fromExch' = fromExch
    BY <1>1, <1>2, <2>2, <2>4 DEF TradesOK, Divided, Trail
  <2>5. CASE /\ \E st \in {"open", "done"} : exch' = [exch EXCEPT ![id].st = st]
             /\ \E type \in {"A", "J", "C"} : Send(type, id)
    <3>1. PICK st \in {"open", "done"} : exch' = [exch EXCEPT ![id].st = st]
      BY <2>5
    <3>2. PICK type \in {"A", "J", "C"} : Send(type, id)
      BY <2>5
    <3> DEFINE x == [exch[id] EXCEPT !.st = st]
               r == [type |-> type, id |-> id, qty |-> 0, price |-> 0]
    <3>3. /\ x \in [st : {"unknown", "open", "done"}, leaves : Nat] /\ x.leaves = exch[id].leaves
          /\ exch' = [exch EXCEPT ![id] = x]
      BY <2>1, <3>1, ExchOf
    <3>4. r \in Reports /\ fromExch' = Append(fromExch, r) /\ r.type # "E"
      BY <2>1, <3>2, StreamTypes DEF Reports, Ids, Send
    <3> HIDE DEF x, r
    <3>5. \A k \in Ids : exch'[k].leaves = exch[k].leaves
      BY <2>1, <3>3, ExchangeTypes
    <3>6. ASSUME NEW k \in Ids PROVE Trail(k)'
      <4>1. Shares(r, k) = 0
        BY <3>4 DEF Shares
      <4>2. executed'[k] = executed[k] + Shares(r, k)
        BY <2>2, <4>1, TradeTypes
      <4> QED BY <1>1, <3>4, <4>2, TrailAdd DEF TradesOK
    <3> QED BY <1>1, <1>2, <2>2, <3>5, <3>6 DEF TradesOK, Divided
  <2> QED BY <2>3, <2>4, <2>5
<1>4. ASSUME NEW id \in Ids, NEW q \in Quantities, NEW p \in FillPrices, ExchangeExecutes(id, q, p)
      PROVE  TradesOK'
  <2> DEFINE x == [st |-> IF q = exch[id].leaves THEN "done" ELSE "open",
                   leaves |-> exch[id].leaves - q]
             r == [type |-> "E", id |-> id, qty |-> q, price |-> p]
  <2>1. /\ q <= exch[id].leaves /\ q \in Nat /\ p \in Nat
        /\ exch' = [exch EXCEPT ![id] = x] /\ fromExch' = Append(fromExch, r)
        /\ executed' = [executed EXCEPT ![id] = executed[id] + q]
    BY <1>4 DEF ExchangeExecutes
  <2>2. exch[id].leaves \in Nat /\ exch[id].leaves - q \in Nat /\ executed[id] \in Nat
    <3>1. exch[id].leaves \in Nat /\ executed[id] \in Nat
      BY TradeTypes
    <3> QED BY <2>1, <3>1
  <2>3. x \in [st : {"unknown", "open", "done"}, leaves : Nat] /\ x.leaves = exch[id].leaves - q
    BY <2>2
  <2>4. r \in Reports /\ \A k \in Ids : Shares(r, k) = IF k = id THEN q ELSE 0
    BY <2>1, StreamTypes DEF Reports, Ids, Shares
  <2> HIDE DEF x, r
  <2>5. exch'[id].leaves = exch[id].leaves - q /\ \A k \in Ids : k # id => exch'[k] = exch[k]
    BY <2>1, <2>3, ExchangeTypes
  <2>6. executed'[id] = executed[id] + q /\ \A k \in Ids : k # id => executed'[k] = executed[k]
    <3>1. executed \in Seq(Nat) /\ Ids = 1 .. Len(executed)
      BY DEF EngineInv, StreamsOK, Ids
    <3>2. executed[id] + q \in Nat
      BY <2>1, <2>2
    <3> QED BY <2>1, <3>1, <3>2, ExceptSeq
  <2>7. ASSUME NEW k \in Ids PROVE Divided(k)' /\ Trail(k)'
    <3>1. Divided(k) /\ Trail(k)
      BY DEF TradesOK
    <3>2. CASE k = id
      <4>1. exch[id].leaves + executed[id] = om.orders[id].quantity
        BY <3>1, <3>2 DEF Divided
      <4>2. (exch[id].leaves - q) + (executed[id] + q) = om.orders[id].quantity
        BY <2>1, <2>2, <4>1
      <4>3. Divided(k)'
        BY <1>1, <2>5, <2>6, <3>2, <4>2 DEF Divided
      <4> QED BY <1>1, <2>1, <2>4, <2>6, <3>1, <3>2, <4>3, TrailAdd
    <3>3. CASE k # id
      <4>1. executed'[k] = executed[k] + Shares(r, k)
        BY <2>4, <2>6, <3>3, TradeTypes
      <4>2. Divided(k)'
        BY <1>1, <2>5, <2>6, <3>1, <3>3 DEF Divided
      <4> QED BY <1>1, <2>1, <2>4, <3>1, <4>1, <4>2, TrailAdd
    <3> QED BY <3>2, <3>3
  <2> QED BY <1>1, <1>2, <2>7 DEF TradesOK
<1> QED BY <1>3, <1>4 DEF Exchange

(* Nothing of the trades is touched.                                       *)
LEMMA TradeStutter ==
  ASSUME TradesOK, UNCHANGED <<om, fromExch, exchange>>
  PROVE  TradesOK'
<1>1. om' = om /\ fromExch' = fromExch /\ exch' = exch /\ executed' = executed /\ Ids' = Ids
  BY DEF exchange, Ids
<1> QED BY <1>1 DEF TradesOK, Whole, Divided, Trail

(* Every step keeps the running totals.                                    *)
LEMMA NextTrades ==
  ASSUME EngineInv, EngineInv', TradesOK, [Next]_vars
  PROVE  TradesOK'
<1>1. CASE SubmitSignal
  BY <1>1, TradeSubmit
<1>2. ASSUME NEW id \in Ids, NEW sent \in BOOLEAN, CancelOrder(id, sent) PROVE TradesOK'
  <2>1. om' = RequestCancel(om, id) /\ UNCHANGED exchange /\ fromExch' = fromExch
    BY <1>2 DEF CancelOrder
  <2>2. om \in Books /\ id \in 1 .. Len(om.orders)
    BY DEF EngineInv, BookOK, Ids
  <2>3. BooksAtMost(om, om', id, 0)
    BY <2>1, <2>2, CallBooks
  <2>4. Len(om'.orders) = Len(om.orders)
    BY <2>1 DEF exchange, EngineInv, StreamsOK
  <2> QED BY <2>1, <2>3, <2>4, TradeStep
<1>3. CASE \E s \in Symbols, p \in FillPrices : MarkPrice(s, p)
  BY <1>3, TradeStutter DEF MarkPrice
<1>4. CASE Report
  BY <1>4, TradeReport
<1>5. CASE Exchange
  BY <1>5, TradeExchange
<1>6. CASE UNCHANGED vars
  BY <1>6, TradeStutter DEF vars, engine
<1> QED BY <1>1, <1>2, <1>3, <1>4, <1>5, <1>6 DEF Next

(* What OMS has booked of an order never exceeds what the exchange has     *)
(* executed of it, in spite of fills that are on the wire or refused: the  *)
(* difference is covered by the reports on the wire (Trail), so that a     *)
(* report that is taken can be booked.  From it: an order that OMS calls   *)
(* FILLED was filled completely.  With WrittenOffCannotTrade: no terminal  *)
(* order can still trade.                                                  *)
THEOREM TerminalIsFinal == Spec => []TerminalIsFinalAtExchange
<1>1. Init => TradesOK
  <2> SUFFICES ASSUME Init PROVE TradesOK
    OBVIOUS
  <2>1. Len(om.orders) = 0
    BY EmptySeq DEF Init, EmptyBook
  <2> QED BY <2>1 DEF TradesOK, Ids
<1>2. EngineInv /\ EngineInv' /\ TradesOK /\ [Next]_vars => TradesOK'
  BY NextTrades
<1>3. ASSUME EngineInv, TradesOK, WrittenOffIsClosed PROVE TerminalIsFinalAtExchange
  <2> SUFFICES ASSUME NEW id \in Ids
      PROVE /\ om.orders[id].filled <= executed[id]
            /\ om.orders[id].filled + om.orders[id].remaining = om.orders[id].quantity
            /\ om.orders[id].status = "FILLED" => executed[id] = om.orders[id].quantity
    BY <1>3 DEF TerminalIsFinalAtExchange
  <2>1. /\ om.orders[id].filled \in Nat /\ executed[id] \in Nat /\ exch[id].leaves \in Nat
        /\ om.orders[id].filled + om.orders[id].remaining = om.orders[id].quantity
        /\ om.orders[id].quantity \in Nat /\ Len(fromExch) \in Nat
    BY <1>3, TradeTypes
  <2>2. om.orders[id].filled <= executed[id]
    <3>1. PICK c \in [1 .. Len(fromExch) + 1 -> 0 .. executed[id]] : om.orders[id].filled <= c[1]
      BY <1>3 DEF TradesOK, Trail
    <3>2. 1 \in 1 .. Len(fromExch) + 1
      BY <2>1
    <3>3. c[1] \in 0 .. executed[id]
      BY <3>2
    <3> QED BY <2>1, <3>1, <3>3
  <2>3. om.orders[id].status = "FILLED" => executed[id] = om.orders[id].quantity
    <3>1. Whole(id) /\ exch[id].leaves + executed[id] = om.orders[id].quantity
      BY <1>3 DEF TradesOK, Divided
    <3>2. executed[id] <= om.orders[id].quantity
      BY <2>1, <3>1
    <3>3. om.orders[id].filled = om.orders[id].quantity => executed[id] = om.orders[id].quantity
      BY <2>1, <2>2, <3>2
    <3> QED BY <3>1, <3>3 DEF Whole
  <2> QED BY <2>1, <2>2, <2>3
<1> QED BY <1>1, <1>2, <1>3, EngineInvariant, WrittenOffCannotTrade, PTL DEF Spec

-----------------------------------------------------------------------------
(***************************************************************************)
(* The ledgers: what the exchange executed, what OMS booked and what the   *)
(* risk manager booked.                                                    *)
(***************************************************************************)
(* The executions of order id that are on the wire w take it from x to n   *)
(* shares.                                                                 *)
Wire(w, id, x, n) ==
  \E c \in [1 .. Len(w) + 1 -> 0 .. n] :
    /\ c[1] = x /\ c[Len(w) + 1] = n
    /\ \A j \in 1 .. Len(w) : c[j + 1] = c[j] + Shares(w[j], id)

(* The shares a report is about.                                           *)
LEMMA ShareTypes ==
  ASSUME NEW w \in Seq(Reports), NEW id
  PROVE  Len(w) \in Nat /\ \A j \in 1 .. Len(w) : Shares(w[j], id) \in Nat
<1>1. Len(w) \in Nat /\ \A j \in 1 .. Len(w) : w[j] \in Reports
  BY LenProperties, ElementOfSeq
<1> QED BY <1>1 DEF Shares, Reports

(* What is left of a total when the wire has been read.                    *)
LEMMA WireTypes ==
  ASSUME NEW w \in Seq(Reports), NEW id, NEW n \in Nat, NEW x, Wire(w, id, x, n)
  PROVE  x \in Nat /\ x <= n
<1>1. PICK c \in [1 .. Len(w) + 1 -> 0 .. n] : c[1] = x
  BY DEF Wire
<1>2. 1 \in 1 .. Len(w) + 1
  BY ShareTypes
<1> QED BY <1>1, <1>2

(* What is on the wire determines what has been delivered.                 *)
LEMMA WireUnique ==
  ASSUME NEW w \in Seq(Reports), NEW id, NEW n \in Nat, NEW x, NEW y,
         Wire(w, id, x, n), Wire(w, id, y, n)
  PROVE  x = y
<1> DEFINE m == Len(w)
<1>1. PICK c \in [1 .. m + 1 -> 0 .. n] :
        c[1] = x /\ c[m + 1] = n /\ \A j \in 1 .. m : c[j + 1] = c[j] + Shares(w[j], id)
  BY DEF Wire
<1>2. PICK d \in [1 .. m + 1 -> 0 .. n] :
        d[1] = y /\ d[m + 1] = n /\ \A j \in 1 .. m : d[j + 1] = d[j] + Shares(w[j], id)
  BY DEF Wire
<1>3. m \in Nat /\ \A j \in 1 .. m : Shares(w[j], id) \in Nat
  BY ShareTypes
<1> HIDE DEF m
<1> DEFINE T == {k \in Nat : k <= m => c[(m + 1) - k] = d[(m + 1) - k]}
<1>4. 0 \in T
  BY <1>1, <1>2, <1>3
<1>5. ASSUME NEW k \in Nat, k \in T PROVE k + 1 \in T
  <2> SUFFICES ASSUME k + 1 <= m PROVE c[(m + 1) - (k + 1)] = d[(m + 1) - (k + 1)]
    OBVIOUS
  <2>1. PICK j \in 1 .. m : j = m - k
    BY <1>3
  <2>2. (m + 1) - k = j + 1 /\ (m + 1) - (k + 1) = j /\ k <= m /\ j \in 1 .. m + 1
    BY <1>3, <2>1
  <2>3. c[j + 1] = d[j + 1]
    BY <1>5, <2>2
  <2>4. c[j] + Shares(w[j], id) = d[j] + Shares(w[j], id)
    BY <1>1, <1>2, <2>3
  <2>5. c[j] \in Int /\ d[j] \in Int /\ Shares(w[j], id) \in Nat
    BY <1>3, <2>2
  <2>6. c[j] = d[j]
    BY <2>4, <2>5
  <2> QED BY <2>2, <2>6
<1>6. m \in T
  <2> HIDE DEF T
  <2> QED BY <1>3, <1>4, <1>5, SetInduction
<1>7. m <= m /\ (m + 1) - m = 1
  BY <1>3
<1> QED BY <1>1, <1>2, <1>6, <1>7

(* A wire without executions of an order books nothing for it.             *)
LEMMA WireQuiet ==
  ASSUME NEW w \in Seq(Reports), NEW id, NEW n \in Nat,
         \A j \in 1 .. Len(w) : Shares(w[j], id) = 0
  PROVE  Wire(w, id, n, n)
<1> DEFINE c == [j \in 1 .. Len(w) + 1 |-> n]
<1>1. /\ Len(w) \in Nat /\ n \in 0 .. n /\ n + 0 = n
      /\ 1 \in 1 .. Len(w) + 1 /\ Len(w) + 1 \in 1 .. Len(w) + 1
      /\ \A j \in 1 .. Len(w) : j \in 1 .. Len(w) + 1 /\ j + 1 \in 1 .. Len(w) + 1
  BY ShareTypes
<1>2. c \in [1 .. Len(w) + 1 -> 0 .. n] /\ c[1] = n /\ c[Len(w) + 1] = n
  BY <1>1
<1>3. \A j \in 1 .. Len(w) : c[j + 1] = c[j] + Shares(w[j], id)
  BY <1>1
<1> HIDE DEF c
<1> QED BY <1>2, <1>3 DEF Wire

(* The oldest report is delivered.                                         *)
LEMMA WireTake ==
  ASSUME NEW w \in Seq(Reports), w # <<>>, NEW id, NEW n \in Nat, NEW x, Wire(w, id, x, n)
  PROVE  Wire(Tail(w), id, x + Shares(w[1], id), n)
<1> DEFINE m == Len(w)
           v == Tail(w)
<1>1. PICK c \in [1 .. m + 1 -> 0 .. n] :
        c[1] = x /\ c[m + 1] = n /\ \A j \in 1 .. m : c[j + 1] = c[j] + Shares(w[j], id)
  BY DEF Wire
<1>2. m \in Nat /\ m # 0
  BY EmptySeq, LenProperties
<1>3. Len(v) = m - 1 /\ \A j \in 1 .. Len(v) : v[j] = w[j + 1]
  BY HeadTailProperties
<1> HIDE DEF m, v
<1> DEFINE d == [j \in 1 .. Len(v) + 1 |-> c[j + 1]]
<1>4. /\ \A j \in 1 .. Len(v) + 1 : j + 1 \in 1 .. m + 1
      /\ \A j \in 1 .. Len(v) : /\ j \in 1 .. Len(v) + 1 /\ j + 1 \in 1 .. Len(v) + 1
                                /\ j + 1 \in 1 .. m
      /\ 1 \in 1 .. Len(v) + 1 /\ Len(v) + 1 \in 1 .. Len(v) + 1 /\ Len(v) + 1 = m /\ 1 \in 1 .. m
  BY <1>2, <1>3
<1>5. d \in [1 .. Len(v) + 1 -> 0 .. n]
  BY <1>4
<1>6. d[1] = x + Shares(w[1], id) /\ d[Len(v) + 1] = n
  <2>1. d[1] = c[1 + 1] /\ d[Len(v) + 1] = c[m + 1]
    BY <1>4
  <2> QED BY <1>1, <1>4, <2>1
<1>7. \A j \in 1 .. Len(v) : d[j + 1] = d[j] + Shares(v[j], id)
  <2> TAKE j \in 1 .. Len(v)
  <2>1. d[j] = c[j + 1] /\ d[j + 1] = c[(j + 1) + 1] /\ v[j] = w[j + 1]
    BY <1>3, <1>4
  <2>2. c[(j + 1) + 1] = c[j + 1] + Shares(w[j + 1], id)
    BY <1>1, <1>4
  <2> QED BY <2>1, <2>2
<1> HIDE DEF d
<1> QED BY <1>5, <1>6, <1>7 DEF Wire, v

(* A report is added to the wire.                                          *)
LEMMA WireAdd ==
  ASSUME NEW w \in Seq(Reports), NEW r \in Reports, NEW id, NEW n \in Nat, NEW x,
         Wire(w, id, x, n)
  PROVE  Wire(Append(w, r), id, x, n + Shares(r, id))
<1> DEFINE m == Len(w)
           v == Append(w, r)
           q == n + Shares(r, id)
<1>1. PICK c \in [1 .. m + 1 -> 0 .. n] :
        c[1] = x /\ c[m + 1] = n /\ \A j \in 1 .. m : c[j + 1] = c[j] + Shares(w[j], id)
  BY DEF Wire
<1>2. m \in Nat /\ Shares(r, id) \in Nat
  BY ShareTypes DEF Shares, Reports
<1>3. Len(v) = m + 1 /\ v[m + 1] = r /\ \A j \in 1 .. m : v[j] = w[j]
  BY AppendProperties
<1>4. q \in Nat /\ n <= q
  BY <1>2
<1> HIDE DEF m, v
<1> DEFINE d == [j \in 1 .. (m + 1) + 1 |-> IF j = (m + 1) + 1 THEN q ELSE c[j]]
<1>5. /\ \A j \in 1 .. (m + 1) + 1 : j # (m + 1) + 1 => j \in 1 .. m + 1
      /\ \A j \in 1 .. m + 1 : /\ j \in 1 .. (m + 1) + 1 /\ j # (m + 1) + 1
                               /\ j + 1 \in 1 .. (m + 1) + 1
                               /\ j \in 1 .. m \/ j = m + 1
      /\ \A j \in 1 .. m : j \in 1 .. m + 1 /\ j + 1 \in 1 .. m + 1
      /\ 1 \in 1 .. m + 1 /\ m + 1 \in 1 .. m + 1 /\ (m + 1) + 1 \in 1 .. (m + 1) + 1
  BY <1>2
<1>6. d \in [1 .. (m + 1) + 1 -> 0 .. q]
  <2> HIDE DEF q
  <2>1. q \in 0 .. q /\ 0 .. n \subseteq 0 .. q
    BY <1>4
  <2> QED BY <1>5, <2>1
<1>7. d[(m + 1) + 1] = q /\ \A j \in 1 .. m + 1 : d[j] = c[j]
  BY <1>5
<1> HIDE DEF d
<1>8. ASSUME NEW j \in 1 .. m + 1 PROVE d[j + 1] = d[j] + Shares(v[j], id)
  <2>1. CASE j \in 1 .. m
    BY <1>1, <1>3, <1>5, <1>7, <2>1
  <2>2. CASE j = m + 1
    BY <1>1, <1>3, <1>5, <1>7, <2>2
  <2> QED BY <1>5, <2>1, <2>2
<1>9. d[1] = x
  BY <1>1, <1>5, <1>7
<1> HIDE DEF q
<1> QED BY <1>3, <1>6, <1>7, <1>8, <1>9 DEF Wire, v, q

(* No execution of the order is on the wire.                               *)
Quiet(w, id) == \A j \in 1 .. Len(w) : Shares(w[j], id) = 0

(* Executions execute something, and a 'C' or a 'J' is the exchange's last *)
(* word: no execution of the order comes behind it.                        *)
WireOK(w) ==
  /\ \A j \in 1 .. Len(w) : w[j].type = "E" => w[j].qty # 0
  /\ \A j, k \in 1 .. Len(w) : j < k /\ w[j].type \in {"C", "J"} => Shares(w[k], w[j].id) = 0

QuietOK ==
  /\ WireOK(fromExch)
  /\ \A id \in Ids : om.orders[id].status \in Terminal => Quiet(fromExch, id)

(* A report is taken: what was quiet stays quiet, and a closing report     *)
(* ends it.                                                                *)
LEMMA QuietTake ==
  ASSUME NEW w \in Seq(Reports), w # <<>>, WireOK(w)
  PROVE  /\ WireOK(Tail(w))
         /\ \A id : Quiet(w, id) => Quiet(Tail(w), id)
         /\ w[1].type \in {"C", "J"} => Quiet(Tail(w), w[1].id)
<1> DEFINE v == Tail(w)
<1>1. Len(w) \in Nat /\ Len(w) # 0
  BY EmptySeq, LenProperties
<1>2. Len(v) = Len(w) - 1 /\ \A j \in 1 .. Len(v) : v[j] = w[j + 1]
  BY HeadTailProperties
<1> HIDE DEF v
<1>3. /\ \A j \in 1 .. Len(v) : j + 1 \in 1 .. Len(w) /\ 1 < j + 1
      /\ \A j, k \in 1 .. Len(v) : j < k => j + 1 < k + 1
      /\ 1 \in 1 .. Len(w)
  BY <1>1, <1>2
<1>4. WireOK(v)
  <2>1. \A j \in 1 .. Len(v) : v[j].type = "E" => v[j].qty # 0
    BY <1>2, <1>3 DEF WireOK
  <2>2. \A j, k \in 1 .. Len(v) : j < k /\ v[j].type \in {"C", "J"} => Shares(v[k], v[j].id) = 0
    <3> TAKE j \in 1 .. Len(v), k \in 1 .. Len(v)
    <3>1. v[j] = w[j + 1] /\ v[k] = w[k + 1] /\ j + 1 \in 1 .. Len(w) /\ k + 1 \in 1 .. Len(w)
      BY <1>2, <1>3
    <3>2. j < k => j + 1 < k + 1
      BY <1>3
    <3> QED BY <3>1, <3>2 DEF WireOK
  <2> QED BY <2>1, <2>2 DEF WireOK
<1>5. \A id : Quiet(w, id) => Quiet(v, id)
  BY <1>2, <1>3 DEF Quiet
<1>6. w[1].type \in {"C", "J"} => Quiet(v, w[1].id)
  BY <1>2, <1>3 DEF WireOK, Quiet
<1> QED BY <1>4, <1>5, <1>6 DEF v

(* A report is added behind no closing report of its order.                *)
LEMMA QuietAdd ==
  ASSUME NEW w \in Seq(Reports), NEW r \in Reports, WireOK(w), r.type = "E" => r.qty # 0,
         r.type = "E" => \A j \in 1 .. Len(w) : w[j].type \in {"C", "J"} => w[j].id # r.id
  PROVE  /\ WireOK(Append(w, r))
         /\ \A id : Quiet(w, id) /\ Shares(r, id) = 0 => Quiet(Append(w, r), id)
<1> DEFINE v == Append(w, r)
<1>1. Len(w) \in Nat
  BY LenProperties
<1>2. Len(v) = Len(w) + 1 /\ v[Len(w) + 1] = r /\ \A j \in 1 .. Len(w) : v[j] = w[j]
  BY AppendProperties
<1> HIDE DEF v
<1>3. /\ \A j \in 1 .. Len(v) : j \in 1 .. Len(w) \/ j = Len(w) + 1
      /\ \A j, k \in 1 .. Len(v) : j < k => j \in 1 .. Len(w)
  BY <1>1, <1>2
<1>4. \A id : Quiet(w, id) /\ Shares(r, id) = 0 => Quiet(v, id)
  BY <1>2, <1>3 DEF Quiet
<1>5. \A j \in 1 .. Len(w) : w[j].type \in {"C", "J"} => Shares(r, w[j].id) = 0
  BY DEF Shares
<1>6. \A j \in 1 .. Len(v) : v[j].type = "E" => v[j].qty # 0
  BY <1>2, <1>3 DEF WireOK
<1>7. ASSUME NEW j \in 1 .. Len(v), NEW k \in 1 .. Len(v), j < k, v[j].type \in {"C", "J"}
      PROVE  Shares(v[k], v[j].id) = 0
  <2>1. j \in 1 .. Len(w) /\ v[j] = w[j]
    BY <1>2, <1>3, <1>7
  <2>2. CASE k \in 1 .. Len(w)
    BY <1>2, <1>7, <2>1, <2>2 DEF WireOK
  <2>3. CASE k = Len(w) + 1
    BY <1>2, <1>5, <1>7, <2>1, <2>3
  <2> QED BY <1>3, <2>2, <2>3
<1> QED BY <1>4, <1>6, <1>7 DEF WireOK, v

(* Once all is booked, nothing is on the wire.                             *)
LEMMA FullIsQuiet ==
  ASSUME NEW w \in Seq(Reports), NEW id, NEW n \in Nat,
         NEW c \in [1 .. Len(w) + 1 -> 0 .. n], n <= c[1],
         \A j \in 1 .. Len(w) : c[j] + Shares(w[j], id) <= c[j + 1]
  PROVE  Quiet(w, id)
<1> DEFINE m == Len(w)
<1>1. m \in Nat /\ \A j \in 1 .. m : Shares(w[j], id) \in Nat
  BY ShareTypes
<1>2. \A j \in 1 .. m : c[j] + Shares(w[j], id) <= c[j + 1]
  OBVIOUS
<1>3. c \in [1 .. m + 1 -> 0 .. n]
  OBVIOUS
<1> HIDE DEF m
<1>4. \A j \in 1 .. m : j \in 1 .. m + 1 /\ j + 1 \in 1 .. m + 1
  BY <1>1
<1>5. \A j \in 1 .. m + 1 : c[j] \in Int /\ 0 <= c[j] /\ c[j] <= n
  <2>1. \A j \in 1 .. m + 1 : c[j] \in 0 .. n
    BY <1>3
  <2> QED BY <2>1
<1> DEFINE T == {k \in Nat : k <= m => c[k + 1] = n}
<1>6. 0 \in T
  <2>1. 1 \in 1 .. m + 1
    BY <1>1
  <2> QED BY <1>5, <2>1
<1>7. ASSUME NEW k \in Nat, k \in T PROVE k + 1 \in T
  <2> SUFFICES ASSUME k + 1 <= m PROVE c[(k + 1) + 1] = n
    OBVIOUS
  <2>1. k <= m /\ k + 1 \in 1 .. m
    BY <1>1
  <2>2. c[k + 1] = n /\ c[k + 1] + Shares(w[k + 1], id) <= c[(k + 1) + 1]
    BY <1>2, <1>7, <2>1
  <2>3. c[(k + 1) + 1] \in Int /\ c[(k + 1) + 1] <= n /\ Shares(w[k + 1], id) \in Nat
    BY <1>1, <1>4, <1>5, <2>1
  <2> QED BY <2>2, <2>3
<1>8. Nat \subseteq T
  <2> HIDE DEF T
  <2> QED BY <1>6, <1>7, SetInduction
<1>9. \A j \in 1 .. m + 1 : c[j] = n
  <2> TAKE j \in 1 .. m + 1
  <2>1. j - 1 \in Nat /\ j - 1 <= m /\ (j - 1) + 1 = j
    BY <1>1
  <2>2. j - 1 \in T
    BY <1>8, <2>1
  <2> QED BY <2>1, <2>2
<1>10. ASSUME NEW j \in 1 .. m PROVE Shares(w[j], id) = 0
  <2>1. c[j] = n /\ c[j + 1] = n
    BY <1>4, <1>9
  <2>2. n + Shares(w[j], id) <= n
    BY <1>2, <2>1
  <2> QED BY <1>1, <2>2
<1> QED BY <1>10 DEF Quiet, m

FilledQuiet == \A id \in Ids : om.orders[id].status = "FILLED" => Quiet(fromExch, id)

(* An order booked in full has no execution on the way.                    *)
LEMMA FilledIsQuiet == EngineInv /\ TradesOK => FilledQuiet
<1> SUFFICES ASSUME EngineInv, TradesOK, NEW id \in Ids, om.orders[id].status = "FILLED"
             PROVE  Quiet(fromExch, id)
  BY DEF FilledQuiet
<1>1. PICK c \in [1 .. Len(fromExch) + 1 -> 0 .. executed[id]] :
        /\ om.orders[id].filled <= c[1]
        /\ \A j \in 1 .. Len(fromExch) : c[j] + Shares(fromExch[j], id) <= c[j + 1]
  BY DEF TradesOK, Trail
<1>2. /\ om.orders[id].filled = om.orders[id].quantity
      /\ exch[id].leaves + executed[id] = om.orders[id].quantity
  BY DEF TradesOK, Whole, Divided
<1>3. /\ executed[id] \in Nat /\ exch[id].leaves \in Nat /\ om.orders[id].filled \in Nat
      /\ Len(fromExch) \in Nat
  BY TradeTypes
<1>4. c[1] \in 0 .. executed[id]
  BY <1>1, <1>3
<1>5. executed[id] <= c[1]
  BY <1>1, <1>2, <1>3, <1>4
<1>6. fromExch \in Seq(Reports)
  BY DEF EngineInv, StreamsOK
<1> QED BY <1>1, <1>3, <1>5, <1>6, FullIsQuiet

(* The same after the step.                                                *)
LEMMA FilledIsQuietNext == EngineInv' /\ TradesOK' => FilledQuiet'
<1>1. (EngineInv /\ TradesOK => FilledQuiet)'
  BY FilledIsQuiet, PTL
<1> QED BY <1>1

(* What a step of the exchange puts on the wire: nothing, an answer, or an *)
(* execution of an order that is open.                                     *)
LEMMA ExchangeSends ==
  ASSUME EngineInv, TradesOK, Exchange
  PROVE  /\ om' = om /\ rm' = rm /\ overlap' = overlap /\ fillIgnored' = fillIgnored
         /\ Ids' = Ids
         /\ \/ fromExch' = fromExch /\ executed' = executed
            \/ \E r \in Reports :
                 /\ r.type # "E" /\ fromExch' = Append(fromExch, r) /\ executed' = executed
            \/ \E r \in Reports :
                 /\ r.type = "E" /\ r.qty # 0 /\ fromExch' = Append(fromExch, r)
                 /\ r.id \in Ids /\ exch[r.id].st = "open"
                 /\ om.orders[r.id].status \notin Terminal
                 /\ executed' = [executed EXCEPT ![r.id] = executed[r.id] + r.qty]
<1> USE EngineAssumption
<1>1. /\ om' = om /\ rm' = rm /\ overlap' = overlap /\ fillIgnored' = fillIgnored /\ Ids' = Ids
  BY DEF Exchange, ExchangeTakesOrder, ExchangeTakesCancel, ExchangeExecutes, engine, Ids
<1>2. ASSUME NEW type \in {"A", "J", "C"}, NEW id \in Ids, Send(type, id)
      PROVE  \E r \in Reports : r.type # "E" /\ fromExch' = Append(fromExch, r)
  <2> DEFINE r == [type |-> type, id |-> id, qty |-> 0, price |-> 0]
  <2>1. r \in Reports /\ r.type # "E"
    BY StreamTypes DEF Reports, Ids
  <2>2. fromExch' = Append(fromExch, r)
    BY <1>2 DEF Send
  <2> HIDE DEF r
  <2> QED BY <2>1, <2>2
<1>3. CASE ExchangeTakesOrder \/ ExchangeTakesCancel
  <2>1. toExch # <<>> /\ Head(toExch) = toExch[1] /\ toExch[1].id \in Ids
    BY <1>3, TakeCommand DEF ExchangeTakesOrder, ExchangeTakesCancel
  <2>2. executed' = executed
    BY <1>3 DEF ExchangeTakesOrder, ExchangeTakesCancel
  <2>3. \/ fromExch' = fromExch
        \/ \E type \in {"A", "J", "C"} : Send(type, toExch[1].id)
    BY <1>3, <2>1 DEF ExchangeTakesOrder, ExchangeTakesCancel
  <2> QED BY <1>1, <1>2, <2>1, <2>2, <2>3
<1>4. ASSUME NEW id \in Ids, NEW q \in Quantities, NEW p \in FillPrices, ExchangeExecutes(id, q, p)
      PROVE  \E r \in Reports :
                 /\ r.type = "E" /\ r.qty # 0 /\ fromExch' = Append(fromExch, r)
                 /\ r.id \in Ids /\ exch[r.id].st = "open"
                 /\ om.orders[r.id].status \notin Terminal
                 /\ executed' = [executed EXCEPT ![r.id] = executed[r.id] + r.qty]
  <2> DEFINE r == [type |-> "E", id |-> id, qty |-> q, price |-> p]
  <2>1. /\ r \in Reports /\ r.type = "E" /\ r.qty = q /\ r.id = id /\ q # 0 /\ q \in Nat
    BY StreamTypes DEF Reports, Ids
  <2>2. /\ fromExch' = Append(fromExch, r) /\ exch[id].st = "open" /\ q <= exch[id].leaves
        /\ executed' = [executed EXCEPT ![id] = executed[id] + q]
    BY <1>4 DEF ExchangeExecutes
  <2> HIDE DEF r
  <2>3. om.orders[id].status \notin {"CANCELLED", "REJECTED"}
    BY <2>2 DEF EngineInv, Answered
  <2>4. om.orders[id].status # "FILLED"
    <3> SUFFICES ASSUME om.orders[id].status = "FILLED" PROVE FALSE
      OBVIOUS
    <3>1. /\ om.orders[id].filled = om.orders[id].quantity
          /\ exch[id].leaves + executed[id] = om.orders[id].quantity
      BY DEF TradesOK, Whole, Divided
    <3>2. /\ executed[id] \in Nat /\ exch[id].leaves \in Nat /\ om.orders[id].filled \in Nat
          /\ Len(fromExch) \in Nat
      BY TradeTypes
    <3>3. PICK c \in [1 .. Len(fromExch) + 1 -> 0 .. executed[id]] : om.orders[id].filled <= c[1]
      BY DEF TradesOK, Trail
    <3>4. c[1] \in 0 .. executed[id]
      BY <3>2, <3>3
    <3>5. om.orders[id].filled <= executed[id]
      BY <3>2, <3>3, <3>4
    <3> QED BY <2>1, <2>2, <3>1, <3>2, <3>5
  <2> QED BY <2>1, <2>2, <2>3, <2>4 DEF Terminal
<1> QED BY <1>1, <1>3, <1>4 DEF Exchange

(* A report keeps the written-off orders quiet.                            *)
LEMMA QuietReport ==
  ASSUME EngineInv, EngineInv', TradesOK, TradesOK', QuietOK, Report
  PROVE  QuietOK'
<1>1. /\ fromExch # <<>> /\ Head(fromExch) = fromExch[1] /\ fromExch' = Tail(fromExch)
      /\ UNCHANGED exchange
  BY TakeReport DEF Report
<1>2. fromExch \in Seq(Reports) /\ WireOK(fromExch) /\ Ids' = Ids
  <2>1. Len(om'.orders) = Len(om.orders)
    BY <1>1 DEF exchange, EngineInv, StreamsOK
  <2> QED BY <2>1 DEF EngineInv, StreamsOK, QuietOK, Ids
<1>3. /\ WireOK(fromExch')
      /\ \A id : Quiet(fromExch, id) => Quiet(fromExch', id)
      /\ fromExch[1].type \in {"C", "J"} => Quiet(fromExch', fromExch[1].id)
  BY <1>1, <1>2, QuietTake
<1>4. ASSUME NEW id \in Ids, om'.orders[id].status \in Terminal PROVE Quiet(fromExch', id)
  <2>1. CASE om.orders[id].status \in Terminal
    BY <1>3, <2>1 DEF QuietOK
  <2>2. CASE om'.orders[id].status = "FILLED"
    BY <1>2, <2>2, FilledIsQuietNext DEF FilledQuiet
  <2>3. CASE om.orders[id].status \notin Terminal /\ om'.orders[id].status # "FILLED"
    <3>1. CASE fromExch[1].type = "E"
      <4>1. \/ om'.orders[id].status = om.orders[id].status
            \/ om'.orders[id].status \in {"PARTIAL_FILL", "FILLED", "PENDING_CANCEL"}
        BY <1>1, <3>1, ExecutionStep DEF Report
      <4> QED BY <1>4, <2>3, <4>1 DEF Terminal
    <3>2. CASE fromExch[1].type # "E"
      <4>1. fromExch[1].id = id /\ fromExch[1].type \in {"C", "J"}
        BY <1>1, <1>4, <2>3, <3>2, OrderReportStep DEF Report
      <4> QED BY <1>3, <4>1
    <3> QED BY <3>1, <3>2
  <2> QED BY <2>1, <2>2, <2>3
<1> QED BY <1>2, <1>3, <1>4 DEF QuietOK

(* Every step does.                                                        *)
LEMMA QuietStep ==
  ASSUME EngineInv, EngineInv', TradesOK, TradesOK', QuietOK, [Next]_vars
  PROVE  QuietOK'
<1>0. fromExch \in Seq(Reports) /\ WireOK(fromExch)
  BY DEF EngineInv, StreamsOK, QuietOK
<1>1. CASE SubmitSignal
  <2> DEFINE n == Len(om.orders)
  <2>1. /\ fromExch' = fromExch /\ Len(om'.orders) = n + 1 /\ n \in Nat
        /\ \A k \in Ids : om'.orders[k] = om.orders[k]
    BY <1>1, SubmitBook, StreamTypes
  <2>2. \A j \in 1 .. Len(fromExch) : fromExch[j].id \in 1 .. n
    BY StreamTypes DEF Ids
  <2>3. Quiet(fromExch, n + 1)
    BY <2>1, <2>2 DEF Quiet, Shares
  <2>4. \A k \in Ids' : k \in Ids \/ k = n + 1
    BY <2>1 DEF Ids
  <2> HIDE DEF n
  <2> QED BY <2>1, <2>3, <2>4 DEF QuietOK
<1>2. ASSUME NEW id \in Ids, NEW sent \in BOOLEAN, CancelOrder(id, sent) PROVE QuietOK'
  <2>1. fromExch' = fromExch /\ Moves(om, om', id, Fillable, {"PENDING_CANCEL"}) /\ CanCancel(om, id)
    BY <1>2, CancelStep DEF CancelOrder
  <2>2. \A k \in Ids : om'.orders[k].status = om.orders[k].status \/ om'.orders[k].status = "PENDING_CANCEL"
    BY <2>1 DEF Moves, CanCancel, Ids
  <2>3. Ids' = Ids
    BY <2>1 DEF Moves, Ids
  <2> QED BY <2>1, <2>2, <2>3 DEF QuietOK, Terminal
<1>3. CASE \E s \in Symbols, p \in FillPrices : MarkPrice(s, p)
  BY <1>3 DEF MarkPrice, QuietOK, Ids
<1>4. CASE Report
  BY <1>4, QuietReport
<1>5. CASE Exchange
  <2>1. om' = om /\ Ids' = Ids
    BY <1>5, ExchangeSends
  <2>2. CASE fromExch' = fromExch
    BY <2>1, <2>2 DEF QuietOK
  <2>3. ASSUME NEW r \in Reports, r.type # "E", fromExch' = Append(fromExch, r)
        PROVE  QuietOK'
    <3>1. \A k : Shares(r, k) = 0
      BY <2>3 DEF Shares
    <3> QED BY <1>0, <2>1, <2>3, <3>1, QuietAdd DEF QuietOK
  <2>4. ASSUME NEW r \in Reports, r.type = "E", r.qty # 0, fromExch' = Append(fromExch, r),
               r.id \in Ids, exch[r.id].st = "open", om.orders[r.id].status \notin Terminal
        PROVE  QuietOK'
    <3>1. \A k \in Ids : om.orders[k].status \in Terminal => Shares(r, k) = 0
      BY <2>4 DEF Shares
    <3>2. \A j \in 1 .. Len(fromExch) : fromExch[j].type \in {"C", "J"} => fromExch[j].id # r.id
      BY <2>4 DEF EngineInv, Answered
    <3>3. /\ WireOK(fromExch')
          /\ \A k : Quiet(fromExch, k) /\ Shares(r, k) = 0 => Quiet(fromExch', k)
      BY <1>0, <2>4, <3>2, QuietAdd
    <3> QED BY <2>1, <3>1, <3>3 DEF QuietOK
  <2> QED BY <1>5, <2>2, <2>3, <2>4, ExchangeSends
<1>6. CASE UNCHANGED vars
  BY <1>6 DEF vars, engine, QuietOK, Ids
<1> QED BY <1>1, <1>2, <1>3, <1>4, <1>5, <1>6 DEF Next

(* The net of symbol s: Net, of any entries and any shares.                *)
Signed(o, n) == (IF o.side = "BUY" THEN 1 ELSE -1) * n

NetOf(os, s, shares) ==
  SumFunctionOnSet([id \in 1 .. Len(os) |-> Signed(os[id], shares[id])],
                   {id \in 1 .. Len(os) : os[id].sym = s})

(* Shares with the sign of their side.                                     *)
LEMMA SignedIs ==
  ASSUME NEW o, NEW n \in Int
  PROVE  /\ Signed(o, n) \in Int
         /\ o.side = "BUY" => Signed(o, n) = n
         /\ o.side # "BUY" => Signed(o, n) = -n
<1>1. 1 * n = n /\ (-1) * n = -n
  OBVIOUS
<1> QED BY <1>1 DEF Signed

(* Net is NetOf the manager's orders.                                      *)
LEMMA NetIs == \A s, shares : Net(s, shares) = NetOf(om.orders, s, shares)
BY DEF Net, NetOf, Signed, Sign, Ids

(* The sum over the orders of a symbol is one over a finite set.           *)
LEMMA NetTypes ==
  ASSUME NEW os, Len(os) \in Nat, NEW s, NEW shares, \A k \in 1 .. Len(os) : shares[k] \in Int
  PROVE  /\ NetOf(os, s, shares) \in Int
         /\ IsFiniteSet({id \in 1 .. Len(os) : os[id].sym = s})
<1>1. IsFiniteSet(1 .. Len(os))
  BY FS_Interval
<1>2. IsFiniteSet({id \in 1 .. Len(os) : os[id].sym = s})
  <2>1. {id \in 1 .. Len(os) : os[id].sym = s} \subseteq 1 .. Len(os)
    OBVIOUS
  <2> QED BY <1>1, <2>1, FS_Subset
<1>3. \A k \in 1 .. Len(os) : Signed(os[k], shares[k]) \in Int
  BY SignedIs
<1> QED BY <1>2, <1>3, SumInt DEF NetOf

SameNet(os, ot, s, shares, other) ==
  /\ Len(os) \in Nat /\ Len(ot) = Len(os)
  /\ \A k \in 1 .. Len(os) : ot[k].sym = os[k].sym /\ ot[k].side = os[k].side
  /\ \A k \in 1 .. Len(os) : os[k].sym = s => other[k] = shares[k]

(* Orders with the same shares add up to the same.                         *)
LEMMA NetSame ==
  ASSUME NEW os, NEW ot, NEW s, NEW shares, NEW other, SameNet(os, ot, s, shares, other)
  PROVE  NetOf(ot, s, other) = NetOf(os, s, shares)
<1> USE DEF SameNet
<1> DEFINE S == {id \in 1 .. Len(os) : os[id].sym = s}
           f == [id \in 1 .. Len(os) |-> Signed(os[id], shares[id])]
           h == [id \in 1 .. Len(ot) |-> Signed(ot[id], other[id])]
<1>1. IsFiniteSet(S)
  <2>1. S \subseteq 1 .. Len(os) /\ IsFiniteSet(1 .. Len(os))
    BY FS_Interval
  <2> QED BY <2>1, FS_Subset
<1>2. {id \in 1 .. Len(ot) : ot[id].sym = s} = S
  OBVIOUS
<1>3. \A k \in S : f[k] = h[k]
  BY DEF Signed
<1> HIDE DEF f, h, S
<1>4. SumFunctionOnSet(f, S) = SumFunctionOnSet(h, S)
  BY <1>1, <1>3, SumSame
<1> QED BY <1>2, <1>4 DEF NetOf, f, h, S

(* An order that has not traded yet does not count.                        *)
OneMore(os, ot, shares, other) ==
  /\ Len(os) \in Nat /\ Len(ot) = Len(os) + 1
  /\ \A k \in 1 .. Len(os) : ot[k] = os[k] /\ other[k] = shares[k] /\ shares[k] \in Int
  /\ other[Len(os) + 1] = 0

(* A new order without shares adds nothing.                                *)
LEMMA NetGrow ==
  ASSUME NEW os, NEW ot, NEW s, NEW shares, NEW other, OneMore(os, ot, shares, other)
  PROVE  NetOf(ot, s, other) = NetOf(os, s, shares)
<1>0. PICK n \in Nat : n = Len(os)
  BY DEF OneMore
<1>8. /\ Len(os) = n /\ Len(ot) = n + 1 /\ other[n + 1] = 0
      /\ \A k \in 1 .. n : ot[k] = os[k] /\ other[k] = shares[k] /\ shares[k] \in Int
  BY <1>0 DEF OneMore
<1> USE <1>8
<1> DEFINE S == {id \in 1 .. n : os[id].sym = s}
           Z == {id \in 1 .. n + 1 : ot[id].sym = s}
           f == [id \in 1 .. n |-> Signed(os[id], shares[id])]
           h == [id \in 1 .. n + 1 |-> Signed(ot[id], other[id])]
<1>1. IsFiniteSet(S) /\ S \subseteq 1 .. n
  <2>1. S \subseteq 1 .. n /\ IsFiniteSet(1 .. n)
    BY FS_Interval
  <2> QED BY <2>1, FS_Subset
<1>2. n \in Nat /\ n + 1 \notin 1 .. n /\ n + 1 \in 1 .. n + 1
      /\ (\A k \in 1 .. n : k \in 1 .. n + 1) /\ (\A k \in 1 .. n + 1 : k \in 1 .. n \/ k = n + 1)
  OBVIOUS
<1>3. Z = IF ot[n + 1].sym = s THEN S \cup {n + 1} ELSE S
  BY <1>2
<1>4. /\ \A k \in 1 .. n : f[k] = h[k] /\ h[k] \in Int
      /\ h[n + 1] = 0
  <2>1. \A k \in 1 .. n : f[k] = Signed(os[k], shares[k]) /\ h[k] = Signed(ot[k], other[k])
    BY <1>2
  <2>2. \A k \in 1 .. n : Signed(os[k], shares[k]) = Signed(ot[k], other[k])
                          /\ Signed(os[k], shares[k]) \in Int
    BY SignedIs
  <2>3. h[n + 1] = Signed(ot[n + 1], 0)
    BY <1>2
  <2>4. Signed(ot[n + 1], 0) = 0
    BY SignedIs
  <2> QED BY <2>1, <2>2, <2>3, <2>4
<1> HIDE DEF S, Z, f, h
<1>5. SumFunctionOnSet(f, S) = SumFunctionOnSet(h, S) /\ SumFunctionOnSet(h, S) \in Int
  BY <1>1, <1>4, SumSame, SumInt
<1>6. SumFunctionOnSet(h, Z) = SumFunctionOnSet(f, S)
  <2>1. CASE ot[n + 1].sym = s
    <3>1. n + 1 \notin S /\ \A k \in S \cup {n + 1} : h[k] \in Int
      BY <1>1, <1>2, <1>4
    <3>2. SumFunctionOnSet(h, Z) = h[n + 1] + SumFunctionOnSet(h, S)
      BY <1>1, <1>3, <2>1, <3>1, SumPut
    <3> QED BY <1>4, <1>5, <3>2
  <2>2. CASE ot[n + 1].sym # s
    BY <1>3, <1>5, <2>2
  <2> QED BY <2>1, <2>2
<1>7. NetOf(ot, s, other) = SumFunctionOnSet(h, Z) /\ NetOf(os, s, shares) = SumFunctionOnSet(f, S)
  BY DEF NetOf, f, h, S, Z
<1> QED BY <1>6, <1>7

(* An execution changes the net of its symbol by its shares.               *)
OneChanged(os, s, shares, other, id) ==
  /\ Len(os) \in Nat /\ id \in 1 .. Len(os) /\ os[id].sym = s
  /\ \A k \in 1 .. Len(os) : shares[k] \in Int /\ other[k] \in Int
  /\ \A k \in 1 .. Len(os) : k # id => other[k] = shares[k]

(* One order's shares change the sum by the difference.                    *)
LEMMA NetChange ==
  ASSUME NEW os, NEW s, NEW shares, NEW other, NEW id, OneChanged(os, s, shares, other, id)
  PROVE  NetOf(os, s, other) =
           NetOf(os, s, shares) + (Signed(os[id], other[id]) - Signed(os[id], shares[id]))
<1> DEFINE S == {k \in 1 .. Len(os) : os[k].sym = s}
           f == [k \in 1 .. Len(os) |-> Signed(os[k], shares[k])]
           h == [k \in 1 .. Len(os) |-> Signed(os[k], other[k])]
<1> USE DEF OneChanged
<1>1. IsFiniteSet(S)
  <2>1. S \subseteq 1 .. Len(os) /\ IsFiniteSet(1 .. Len(os))
    BY FS_Interval
  <2> QED BY <2>1, FS_Subset
<1>2. id \in S /\ f[id] = Signed(os[id], shares[id]) /\ h[id] = Signed(os[id], other[id])
  OBVIOUS
<1>3. \A k \in S : f[k] = Signed(os[k], shares[k]) /\ h[k] = Signed(os[k], other[k])
                   /\ shares[k] \in Int /\ other[k] \in Int /\ (k # id => other[k] = shares[k])
  OBVIOUS
<1> HIDE DEF f, h, S
<1>4. \A k \in S : f[k] \in Int /\ h[k] \in Int
  BY <1>3, SignedIs
<1>5. \A k \in S \ {id} : f[k] = h[k]
  BY <1>3
<1>6. SumFunctionOnSet(h, S) = SumFunctionOnSet(f, S) + (h[id] - f[id])
  <2> HIDE DEF OneChanged
  <2> QED BY <1>1, <1>2, <1>4, <1>5, SumChange
<1>7. NetOf(os, s, other) = SumFunctionOnSet(h, S) /\ NetOf(os, s, shares) = SumFunctionOnSet(f, S)
  BY DEF NetOf, f, h, S
<1> QED BY <1>2, <1>6, <1>7

(* The risk manager's position after a fill.                               *)
RiskOK(r) ==
  /\ r = [qty |-> r.qty, cost |-> r.cost, mark |-> r.mark, pnl |-> r.pnl, peak |-> r.peak]
  /\ r.qty \in [Symbols -> Int]

(* update_equity leaves the positions alone.                               *)
LEMMA EquityKeepsQty ==
  ASSUME NEW r, RiskOK(r)
  PROVE  RiskOK(UpdateEquity(r)) /\ UpdateEquity(r).qty = r.qty
<1> DEFINE e == Equity(r)
<1>1. UpdateEquity(r) = IF e > r.peak THEN [r EXCEPT !.peak = e] ELSE r
  BY DEF UpdateEquity
<1> HIDE DEF e
<1> DEFINE t == [r EXCEPT !.peak = e]
<1>2. t = [qty |-> r.qty, cost |-> r.cost, mark |-> r.mark, pnl |-> r.pnl, peak |-> e]
  BY DEF RiskOK
<1> HIDE DEF t
<1>3. RiskOK(t) /\ t.qty = r.qty
  BY <1>2 DEF RiskOK
<1> QED BY <1>1, <1>3 DEF t

(* So does a mark.                                                         *)
LEMMA MarkKeepsQty ==
  ASSUME NEW r, RiskOK(r), NEW s, NEW p
  PROVE  RiskOK(Mark(r, s, p)) /\ Mark(r, s, p).qty = r.qty
<1> DEFINE t == [r EXCEPT !.mark[s] = p]
<1>1. t = [qty |-> r.qty, cost |-> r.cost, mark |-> [r.mark EXCEPT ![s] = p], pnl |-> r.pnl,
           peak |-> r.peak]
  BY DEF RiskOK
<1>2. Mark(r, s, p) = UpdateEquity(t)
  BY DEF Mark
<1> HIDE DEF t
<1>3. RiskOK(t) /\ t.qty = r.qty
  BY <1>1 DEF RiskOK
<1> QED BY <1>2, <1>3, EquityKeepsQty

(* A fill changes the position of its order's symbol only.                 *)
LEMMA FillQty ==
  ASSUME NEW r, RiskOK(r), NEW o, o.sym \in Symbols, NEW n \in Nat
  PROVE  /\ RiskOK(RiskOnFill(r, o, n))
         /\ RiskOnFill(r, o, n).qty = [r.qty EXCEPT ![o.sym] = NewQty(r, o, n)]
<1> DEFINE t == Booked(r, o, n)
           q == NewQty(r, o, n)
           c == NewCost(r, o, n)
           g == NewPnl(r, o, n)
<1>1. t = [r EXCEPT !.qty[o.sym] = q, !.cost[o.sym] = c, !.pnl = g]
  BY DEF Booked
<1>2. q \in Int
  <2>1. r.qty[o.sym] \in Int
    BY DEF RiskOK
  <2> QED BY <2>1 DEF NewQty, Sold
<1> HIDE DEF t, q, c, g
<1>3. t = [qty |-> [r.qty EXCEPT ![o.sym] = q], cost |-> [r.cost EXCEPT ![o.sym] = c],
           mark |-> r.mark, pnl |-> g, peak |-> r.peak]
  BY <1>1 DEF RiskOK
<1>4. t.qty = [r.qty EXCEPT ![o.sym] = q]
  BY <1>3
<1>5. [r.qty EXCEPT ![o.sym] = q] \in [Symbols -> Int]
  BY <1>2 DEF RiskOK
<1>6. RiskOK(t)
  BY <1>3, <1>4, <1>5 DEF RiskOK
<1>7. RiskOnFill(r, o, n) = UpdateEquity(t)
  BY DEF RiskOnFill, t
<1> QED BY <1>4, <1>6, <1>7, EquityKeepsQty DEF q

(* The position in symbol s.  With no live order it is the net of what was *)
(* executed, and within the limits.  With a live order it is that net      *)
(* without the executions of the order that are on the wire, and both ends *)
(* of the order, none of it and all of it, are within the limits.          *)
Limits == 0 .. MaxPosition

Held(os, op, ex, w, qty, s) ==
  \/ op[s] = {} /\ qty[s] = NetOf(os, s, ex) /\ NetOf(os, s, ex) \in Limits
  \/ \E id \in 1 .. Len(os), x \in Nat, base \in Limits :
       /\ op[s] = {id} /\ Wire(w, id, x, ex[id])
       /\ NetOf(os, s, ex) = base + Signed(os[id], ex[id])
       /\ qty[s] = base + Signed(os[id], x)
       /\ base + Signed(os[id], os[id].quantity) \in Limits

HeldNow(s) == Held(om.orders, om.open, executed, fromExch, rm.qty, s)

PositionsOK == RiskOK(rm) /\ (~overlap => \A s \in Symbols : HeldNow(s))

(* OMS has booked what was delivered.                                      *)
BookedOK == ~fillIgnored => \A id \in Ids : Wire(fromExch, id, om.orders[id].filled, executed[id])

(* The position is the executed shares less those on the way, as long as   *)
(* none changes.                                                           *)
LEMMA HeldSame ==
  ASSUME NEW os, NEW ot, NEW op, NEW oq, NEW ex, NEW ey, NEW w, NEW v, NEW qty, NEW qtz, NEW s,
         Len(os) \in Nat, Len(ot) \in Nat, Len(os) <= Len(ot), Held(os, op, ex, w, qty, s),
         NetOf(ot, s, ey) = NetOf(os, s, ex), oq[s] = op[s], qtz[s] = qty[s],
         \A id \in 1 .. Len(os) : op[s] = {id} =>
           /\ SameTerms(ot[id], os[id]) /\ ey[id] = ex[id]
           /\ \A x \in Nat : Wire(w, id, x, ex[id]) => Wire(v, id, x, ex[id])
  PROVE  Held(ot, oq, ey, v, qtz, s)
<1>1. CASE op[s] = {} /\ qty[s] = NetOf(os, s, ex) /\ NetOf(os, s, ex) \in Limits
  BY <1>1 DEF Held
<1>2. CASE \E id \in 1 .. Len(os), x \in Nat, base \in Limits :
             /\ op[s] = {id} /\ Wire(w, id, x, ex[id])
             /\ NetOf(os, s, ex) = base + Signed(os[id], ex[id])
             /\ qty[s] = base + Signed(os[id], x)
             /\ base + Signed(os[id], os[id].quantity) \in Limits
  <2>1. PICK id \in 1 .. Len(os), x \in Nat, base \in Limits :
             /\ op[s] = {id} /\ Wire(w, id, x, ex[id])
             /\ NetOf(os, s, ex) = base + Signed(os[id], ex[id])
             /\ qty[s] = base + Signed(os[id], x)
             /\ base + Signed(os[id], os[id].quantity) \in Limits
    BY <1>2
  <2>2. SameTerms(ot[id], os[id]) /\ ey[id] = ex[id] /\ Wire(v, id, x, ex[id])
    BY <2>1
  <2>3. \A n : Signed(ot[id], n) = Signed(os[id], n)
    BY <2>2 DEF SameTerms, Signed
  <2>4. id \in 1 .. Len(ot) /\ ot[id].quantity = os[id].quantity
    BY <2>2 DEF SameTerms
  <2> QED BY <2>1, <2>2, <2>3, <2>4 DEF Held
<1> QED BY <1>1, <1>2 DEF Held

(* The limits lie between none and all of the order.                       *)
LEMMA Between ==
  ASSUME NEW o, NEW base \in Limits, NEW q \in Nat, base + Signed(o, q) \in Limits,
         NEW n \in Nat, n <= q
  PROVE  base + Signed(o, n) \in Limits
<1>1. MaxPosition \in Nat
  BY RiskAssumption
<1>2. CASE o.side = "BUY"
  <2>1. Signed(o, q) = q /\ Signed(o, n) = n
    BY <1>2, SignedIs
  <2> QED BY <1>1, <2>1 DEF Limits
<1>3. CASE o.side # "BUY"
  <2>1. Signed(o, q) = -q /\ Signed(o, n) = -n
    BY <1>3, SignedIs
  <2> QED BY <1>1, <2>1 DEF Limits
<1> QED BY <1>2, <1>3

(* The facts about orders that the steps below share.                      *)
LEMMA OrderFacts ==
  ASSUME EngineInv, TradesOK
  PROVE  /\ om.orders \in Seq(Entries) /\ Len(om.orders) \in Nat /\ Ids = 1 .. Len(om.orders)
         /\ fromExch \in Seq(Reports) /\ executed \in Seq(Nat) /\ Len(executed) = Len(om.orders)
         /\ \A id \in Ids : /\ om.orders[id].sym \in Symbols /\ om.orders[id].side \in Sides
                            /\ om.orders[id].quantity \in Nat
                            /\ executed[id] \in Nat /\ executed[id] <= om.orders[id].quantity
                            /\ om.orders[id].status \in Live \/ om.orders[id].status \in Terminal
         /\ \A s \in Symbols, id \in Ids :
              id \in om.open[s] <=> om.orders[id].sym = s /\ om.orders[id].status \in Live
         /\ \A s \in Symbols : om.open[s] \subseteq Ids
<1>1. /\ om \in Books /\ IndexExact(om) /\ Ids = 1 .. Len(om.orders)
      /\ fromExch \in Seq(Reports) /\ executed \in Seq(Nat) /\ Len(executed) = Len(om.orders)
  BY DEF EngineInv, BookOK, StreamsOK, Ids
<1>2. /\ om.orders \in Seq(Entries) /\ Len(om.orders) \in Nat
      /\ \A k \in Ids : om.orders[k] \in Entries
  BY <1>1, BookTypes
<1>3. \A id \in Ids : executed[id] \in Nat /\ executed[id] <= om.orders[id].quantity
  <2> TAKE id \in Ids
  <2>1. exch[id].leaves + executed[id] = om.orders[id].quantity
    BY DEF TradesOK, Divided
  <2> QED BY <2>1, TradeTypes
<1>4. \A id \in Ids : om.orders[id].status \in Live \/ om.orders[id].status \in Terminal
  BY <1>2 DEF Entries, Statuses
<1>5. \A id \in Ids : /\ om.orders[id].sym \in Symbols /\ om.orders[id].side \in Sides
                      /\ om.orders[id].quantity \in Nat
  BY <1>2 DEF Entries
<1>6. \A s \in Symbols :
        om.open[s] = {k \in Ids : om.orders[k].sym = s /\ om.orders[k].status \in Live}
  BY <1>1 DEF IndexExact
<1> QED BY <1>1, <1>2, <1>3, <1>4, <1>5, <1>6

IndexNow == \A s \in Symbols :
  om.open[s] = {k \in 1 .. Len(om.orders) : om.orders[k].sym = s /\ om.orders[k].status \in Live}

(* The index of open orders is exact after the step.                       *)
LEMMA IndexNext == EngineInv' => IndexNow'
<1>1. EngineInv => IndexNow
  BY DEF EngineInv, BookOK, IndexExact, IndexNow
<1>2. (EngineInv => IndexNow)'
  BY <1>1, PTL
<1> QED BY <1>2

(* What fill_th does with a report, in terms of the shares it executes.    *)
LEMMA ReportBooks ==
  ASSUME EngineInv, EngineInv', RiskOK(rm), Report
  PROVE  /\ fromExch # <<>> /\ fromExch[1] \in Reports /\ fromExch[1].id \in Ids
         /\ fromExch' = Tail(fromExch) /\ executed' = executed /\ overlap' = overlap
         /\ Len(om'.orders) = Len(om.orders) /\ Ids' = Ids
         /\ \A k \in Ids : SameTerms(om'.orders[k], om.orders[k])
         /\ \A k \in Ids : k # fromExch[1].id =>
              (om'.orders[k].status \in Live <=> om.orders[k].status \in Live)
         /\ om.orders[fromExch[1].id].status \notin Live =>
              om'.orders[fromExch[1].id].status \notin Live
         /\ RiskOK(rm')
         /\ fromExch[1].type # "E" => rm' = rm
         /\ fromExch[1].type = "E" =>
              rm'.qty = [rm.qty EXCEPT ![om.orders[fromExch[1].id].sym] =
                           NewQty(rm, om.orders[fromExch[1].id], fromExch[1].qty)]
         /\ ~fillIgnored' => /\ ~fillIgnored
                             /\ \A k \in Ids : om'.orders[k].filled =
                                  om.orders[k].filled + Shares(fromExch[1], k)
<1> DEFINE f == fromExch[1]
<1>1. /\ fromExch # <<>> /\ Head(fromExch) = f /\ fromExch' = Tail(fromExch) /\ f \in Reports
      /\ UNCHANGED exchange /\ overlap' = overlap /\ f.id \in Ids /\ f.qty \in Nat
  BY TakeReport DEF Report, Reports
<1>2. executed' = executed /\ Len(om'.orders) = Len(om.orders) /\ Ids' = Ids
  <2>1. Len(om'.orders) = Len(om.orders)
    BY <1>1 DEF exchange, EngineInv, StreamsOK
  <2> QED BY <1>1, <2>1 DEF exchange, Ids
<1>3. PICK n \in Nat : /\ n = IF f.type = "E" THEN f.qty ELSE 0
  BY <1>1
<1>4. BooksAtMost(om, om', f.id, n)
  <2>1. CASE f.type = "E"
    BY <1>1, <1>3, <2>1, ExecutionStep DEF Report
  <2>2. CASE f.type # "E"
    <3>1. f.type \in {"A", "C", "J"} /\ OnOrderReport(f) /\ om \in Books /\ f.id \in 1 .. Len(om.orders)
      BY <1>1, <2>2 DEF Report, Reports, EngineInv, BookOK, Ids
    <3> QED BY <1>3, <2>2, <3>1, CallBooks DEF OnOrderReport
  <2> QED BY <2>1, <2>2
<1>5. \A k \in Ids : SameTerms(om'.orders[k], om.orders[k])
  BY <1>4 DEF BooksAtMost, Ids
<1>6. ASSUME NEW k \in Ids, k # f.id
      PROVE  om'.orders[k].status \in Live <=> om.orders[k].status \in Live
  <2>1. CASE f.type # "E"
    <3>1. /\ OnOrderReport(f) /\ f.type \in {"A", "C", "J"} /\ f.id \in 1 .. Len(om.orders)
          /\ BookOK(om)
      BY <1>1, <2>1 DEF Report, Reports, Ids, EngineInv
    <3>2. \/ Moves(om, om', f.id, {"PENDING"}, {"SUBMITTED"})
          \/ Moves(om, om', f.id, {"PENDING"}, {"REJECTED"})
          \/ Moves(om, om', f.id, {"PENDING_CANCEL"}, {"CANCELLED"})
      BY <3>1, CallMoves DEF OnOrderReport
    <3>3. om'.orders[k] = om.orders[k]
      BY <1>6, <3>2 DEF Moves, Ids
    <3> QED BY <3>3
  <2>2. CASE f.type = "E"
    BY <1>1, <1>6, <2>2, ExecutionStep DEF Report
  <2> QED BY <2>1, <2>2
<1>7. om.orders[f.id].status \notin Live => om'.orders[f.id].status \notin Live
  <2>1. \/ om'.orders[f.id].status = om.orders[f.id].status
        \/ om.orders[f.id].status \in {"PENDING", "PENDING_CANCEL"} \cup Fillable
    BY <1>1, ReportStep
  <2> QED BY <2>1 DEF Live, Fillable
<1>8. f.type # "E" => rm' = rm /\ fillIgnored' = fillIgnored
  BY <1>1 DEF Report, OnOrderReport
<1>9. f.type = "E" => rm' = RiskOnFill(rm, om.orders[f.id], f.qty)
  BY <1>1 DEF Report, OnExecution
<1>10. om.orders[f.id].sym \in Symbols
  BY <1>1, BookTypes DEF EngineInv, BookOK, Entries, Ids
<1>11. /\ RiskOK(rm')
       /\ f.type = "E" => rm'.qty = [rm.qty EXCEPT ![om.orders[f.id].sym] = NewQty(rm, om.orders[f.id], f.qty)]
  BY <1>1, <1>8, <1>9, <1>10, FillQty
<1>12. ASSUME ~fillIgnored'
       PROVE  /\ ~fillIgnored
              /\ \A k \in Ids : om'.orders[k].filled = om.orders[k].filled + Shares(f, k)
  <2>1. ~fillIgnored
    BY <1>1, <1>8, <1>12 DEF Report, OnExecution
  <2>2. ASSUME NEW k \in Ids PROVE om'.orders[k].filled = om.orders[k].filled + Shares(f, k)
    <3>1. /\ om.orders[k].filled <= om'.orders[k].filled
          /\ om'.orders[k].filled <= om.orders[k].filled + (IF k = f.id THEN n ELSE 0)
      BY <1>4 DEF BooksAtMost, Ids
    <3>2. om.orders[k].filled \in Nat /\ om'.orders[k].filled \in Nat
      <4>1. om'.orders[k] \in Entries
        BY <1>2, BookTypes DEF EngineInv, BookOK, Ids
      <4> QED BY <4>1, TradeTypes DEF Entries
    <3>3. CASE k = f.id /\ f.type = "E"
      <4>1. om'.orders[k].filled = om.orders[k].filled + f.qty
        BY <1>1, <1>12, <3>3, ExecutionStep DEF Report
      <4> QED BY <3>3, <4>1 DEF Shares
    <3>4. CASE ~(k = f.id /\ f.type = "E")
      <4>1. Shares(f, k) = 0 /\ (IF k = f.id THEN n ELSE 0) = 0
        BY <1>3, <3>4 DEF Shares
      <4>2. om'.orders[k].filled <= om.orders[k].filled + 0
        BY <3>1, <4>1
      <4> QED BY <3>1, <3>2, <4>1, <4>2
    <3> QED BY <3>3, <3>4
  <2> QED BY <2>1, <2>2
<1> QED BY <1>1, <1>2, <1>5, <1>6, <1>7, <1>8, <1>11, <1>12

(* The position is the sum of what the manager booked.                     *)
LEMMA BookedStep ==
  ASSUME EngineInv, EngineInv', TradesOK, RiskOK(rm), BookedOK, [Next]_vars
  PROVE  BookedOK'
<1> SUFFICES ASSUME ~fillIgnored', NEW id \in Ids'
             PROVE  Wire(fromExch', id, om'.orders[id].filled, executed'[id])
  BY DEF BookedOK
<1>0. /\ Len(om.orders) \in Nat /\ Ids = 1 .. Len(om.orders) /\ fromExch \in Seq(Reports)
      /\ executed \in Seq(Nat) /\ Len(executed) = Len(om.orders)
      /\ \A k \in Ids : executed[k] \in Nat
  BY OrderFacts
<1>1. CASE SubmitSignal
  <2> DEFINE n == Len(om.orders)
  <2>1. /\ fromExch' = fromExch /\ Len(om'.orders) = n + 1 /\ fillIgnored' = fillIgnored
        /\ \A k \in Ids : om'.orders[k] = om.orders[k]
        /\ executed' = Append(executed, 0) /\ om'.orders[n + 1].filled = 0
    BY <1>1, SubmitBook
  <2>2. executed'[n + 1] = 0 /\ \A k \in Ids : executed'[k] = executed[k]
    BY <1>0, <2>1, AppendProperties
  <2>3. CASE id \in Ids
    BY <2>1, <2>2, <2>3 DEF BookedOK
  <2>4. CASE id = n + 1
    <3>1. \A j \in 1 .. Len(fromExch) : fromExch[j].id \in 1 .. n
      BY StreamTypes DEF Ids
    <3>2. \A j \in 1 .. Len(fromExch) : Shares(fromExch[j], n + 1) = 0
      BY <1>0, <3>1 DEF Shares
    <3>3. Wire(fromExch, n + 1, 0, 0)
      BY <1>0, <3>2, WireQuiet
    <3> QED BY <2>1, <2>2, <2>4, <3>3
  <2>5. id \in Ids \/ id = n + 1
    BY <1>0, <2>1 DEF Ids
  <2> QED BY <2>3, <2>4, <2>5
<1>2. ASSUME NEW k \in Ids, NEW sent \in BOOLEAN, CancelOrder(k, sent)
      PROVE  Wire(fromExch', id, om'.orders[id].filled, executed'[id])
  <2>1. /\ om' = RequestCancel(om, k) /\ fromExch' = fromExch /\ fillIgnored' = fillIgnored
        /\ executed' = executed
    BY <1>2 DEF CancelOrder, exchange
  <2>2. Len(om'.orders) = Len(om.orders)
    BY <1>2, CancelStep DEF Moves
  <2>3. BooksAtMost(om, om', k, 0)
    BY <2>1, CallBooks DEF EngineInv, BookOK, Ids
  <2>4. id \in Ids
    BY <2>2 DEF Ids
  <2>5. /\ om.orders[id].filled <= om'.orders[id].filled
        /\ om'.orders[id].filled <= om.orders[id].filled + 0
    BY <2>3, <2>4 DEF BooksAtMost, Ids
  <2>6. om.orders[id].filled \in Nat /\ om'.orders[id].filled \in Nat
    <3>1. om'.orders[id] \in Entries
      BY BookTypes DEF EngineInv, BookOK, Ids
    <3> QED BY <2>4, <3>1, TradeTypes DEF Entries
  <2>7. om'.orders[id].filled = om.orders[id].filled
    BY <2>5, <2>6
  <2> QED BY <2>1, <2>4, <2>7 DEF BookedOK
<1>3. CASE \E s \in Symbols, p \in FillPrices : MarkPrice(s, p)
  BY <1>3 DEF MarkPrice, BookedOK, Ids, exchange
<1>4. CASE Report
  <2>1. /\ fromExch # <<>> /\ fromExch' = Tail(fromExch) /\ executed' = executed /\ Ids' = Ids
        /\ ~fillIgnored /\ om'.orders[id].filled = om.orders[id].filled + Shares(fromExch[1], id)
    BY <1>4, ReportBooks
  <2>2. Wire(fromExch, id, om.orders[id].filled, executed[id])
    BY <2>1 DEF BookedOK
  <2> QED BY <1>0, <2>1, <2>2, WireTake
<1>5. CASE Exchange
  <2>1. om' = om /\ fillIgnored' = fillIgnored /\ id \in Ids
    BY <1>5, ExchangeSends
  <2>2. Wire(fromExch, id, om.orders[id].filled, executed[id])
    BY <2>1 DEF BookedOK
  <2>3. ASSUME NEW r \in Reports, fromExch' = Append(fromExch, r),
               executed'[id] = executed[id] + Shares(r, id)
        PROVE  Wire(fromExch', id, om'.orders[id].filled, executed'[id])
    BY <1>0, <2>1, <2>2, <2>3, WireAdd
  <2>4. CASE fromExch' = fromExch /\ executed' = executed
    BY <2>1, <2>2, <2>4
  <2>5. ASSUME NEW r \in Reports, r.type # "E", fromExch' = Append(fromExch, r), executed' = executed
        PROVE  Wire(fromExch', id, om'.orders[id].filled, executed'[id])
    <3>1. executed'[id] = executed[id] + Shares(r, id)
      BY <1>0, <2>1, <2>5 DEF Shares
    <3> QED BY <2>3, <2>5, <3>1
  <2>6. ASSUME NEW r \in Reports, r.type = "E", fromExch' = Append(fromExch, r), r.id \in Ids,
               executed' = [executed EXCEPT ![r.id] = executed[r.id] + r.qty]
        PROVE  Wire(fromExch', id, om'.orders[id].filled, executed'[id])
    <3>1. executed[r.id] + r.qty \in Nat
      BY <1>0, <2>6 DEF Reports
    <3>2. executed'[id] = IF id = r.id THEN executed[r.id] + r.qty ELSE executed[id]
      BY <1>0, <2>1, <2>6, <3>1, ExceptSeq
    <3>3. executed'[id] = executed[id] + Shares(r, id)
      BY <1>0, <2>1, <2>6, <3>2 DEF Shares
    <3> QED BY <2>3, <2>6, <3>3
  <2> QED BY <1>5, <2>4, <2>5, <2>6, ExchangeSends
<1>6. CASE UNCHANGED vars
  BY <1>6 DEF vars, engine, exchange, BookedOK, Ids
<1> QED BY <1>1, <1>2, <1>3, <1>4, <1>5, <1>6 DEF Next

(* submit_signal().                                                        *)
LEMMA PositionSubmit ==
  ASSUME EngineInv, EngineInv', TradesOK, PositionsOK, SubmitSignal
  PROVE  PositionsOK'
<1> DEFINE n == Len(om.orders)
<1>0. /\ n \in Nat /\ Ids = 1 .. n /\ fromExch \in Seq(Reports)
      /\ executed \in Seq(Nat) /\ Len(executed) = n
      /\ \A k \in Ids : executed[k] \in Nat
  BY OrderFacts
<1>1. Len(om'.orders) = n + 1 /\ \A k \in Ids : om'.orders[k] = om.orders[k]
  BY SubmitBook
<1>2. PICK o \in [sym : Symbols, side : Sides, price : Nat, quantity : Nat], ok \in BOOLEAN :
        /\ ok => CheckOrder(rm, o)
        /\ overlap' = (overlap \/ (ok /\ om.open[o.sym] # {}))
        /\ UNCHANGED <<rm, fillIgnored>>
        /\ SameTerms(om'.orders[n + 1], o)
        /\ om'.orders[n + 1].status = IF ok THEN "PENDING" ELSE "REJECTED"
        /\ executed' = Append(executed, 0)
        /\ fromExch' = fromExch
  BY SubmitBook
<1>3. executed'[n + 1] = 0 /\ \A k \in Ids : executed'[k] = executed[k]
  BY <1>0, <1>2, AppendProperties
<1>4. RiskOK(rm')
  BY <1>2 DEF PositionsOK
<1>5. ASSUME NEW s PROVE NetOf(om'.orders, s, executed') = NetOf(om.orders, s, executed)
  <2>1. \A k \in 1 .. n : /\ om'.orders[k] = om.orders[k] /\ executed'[k] = executed[k]
                          /\ executed[k] \in Int
    BY <1>0, <1>1, <1>3
  <2>2. /\ executed'[n + 1] = 0 /\ n \in Nat /\ Len(om.orders) = n /\ Len(om'.orders) = n + 1
    BY <1>0, <1>1, <1>3
  <2>3. OneMore(om.orders, om'.orders, executed, executed')
    BY <2>1, <2>2 DEF OneMore
  <2> QED BY <2>3, NetGrow
<1> SUFFICES ASSUME ~overlap', NEW s \in Symbols PROVE HeldNow(s)'
  BY <1>4 DEF PositionsOK
<1>6. HeldNow(s) /\ ~overlap /\ (ok => om.open[o.sym] = {})
  BY <1>2 DEF PositionsOK
<1>7. /\ om'.open[s] = {k \in 1 .. n + 1 : om'.orders[k].sym = s /\ om'.orders[k].status \in Live}
      /\ om.open[s] = {k \in 1 .. n : om.orders[k].sym = s /\ om.orders[k].status \in Live}
  <2>1. IndexNow'
    BY IndexNext
  <2> QED BY <1>1, <2>1 DEF IndexNow, EngineInv, BookOK, IndexExact
<1>8. /\ \A k \in 1 .. n + 1 : k \in 1 .. n \/ k = n + 1
      /\ \A k \in 1 .. n : k \in 1 .. n + 1 /\ k # n + 1
      /\ n + 1 \in 1 .. n + 1
  BY <1>0
<1> HIDE DEF n
<1>9. CASE ~(ok /\ o.sym = s)
  <2>1. om'.open[s] = om.open[s]
    <3>1. ~(om'.orders[n + 1].sym = s /\ om'.orders[n + 1].status \in Live)
      BY <1>2, <1>9 DEF SameTerms, Live
    <3>2. \A k \in 1 .. n : om'.orders[k] = om.orders[k]
      BY <1>0, <1>1
    <3> QED BY <1>7, <1>8, <3>1, <3>2
  <2>2. \A k \in 1 .. n : SameTerms(om'.orders[k], om.orders[k]) /\ executed'[k] = executed[k]
    BY <1>0, <1>1, <1>3 DEF SameTerms
  <2>3. /\ Len(om.orders) = n /\ Len(om'.orders) = n + 1
        /\ n \in Nat /\ n <= n + 1 /\ n + 1 \in Nat
    BY <1>0, <1>1 DEF n
  <2>4. Held(om'.orders, om'.open, executed', fromExch', rm'.qty, s)
    <3>1. Held(om.orders, om.open, executed, fromExch, rm.qty, s)
      BY <1>6 DEF HeldNow
    <3>2. NetOf(om'.orders, s, executed') = NetOf(om.orders, s, executed) /\ rm'.qty[s] = rm.qty[s]
      BY <1>2, <1>5
    <3>3. \A id \in 1 .. Len(om.orders) : om.open[s] = {id} =>
           /\ SameTerms(om'.orders[id], om.orders[id]) /\ executed'[id] = executed[id]
           /\ \A x \in Nat : Wire(fromExch, id, x, executed[id]) => Wire(fromExch', id, x, executed[id])
      BY <1>2, <2>2, <2>3
    <3>4. Len(om.orders) \in Nat /\ Len(om'.orders) \in Nat /\ Len(om.orders) <= Len(om'.orders)
      BY <2>3
    <3> QED BY <2>1, <3>1, <3>2, <3>3, <3>4, HeldSame
  <2> QED BY <2>4 DEF HeldNow
<1>10. CASE ok /\ o.sym = s
  <2>1. om.open[s] = {} /\ om'.open[s] = {n + 1}
    <3>1. om.open[s] = {}
      BY <1>6, <1>10
    <3>2. om'.orders[n + 1].sym = s /\ om'.orders[n + 1].status \in Live
      BY <1>2, <1>10 DEF SameTerms, Live
    <3>3. \A k \in 1 .. n : ~(om'.orders[k].sym = s /\ om'.orders[k].status \in Live)
      BY <1>0, <1>1, <1>7, <3>1
    <3> QED BY <1>7, <1>8, <3>1, <3>2, <3>3
  <2> DEFINE net == NetOf(om.orders, s, executed)
             e   == om'.orders[n + 1]
  <2>2. rm.qty[s] = net /\ net \in Limits
    BY <1>6, <2>1 DEF HeldNow, Held
  <2>3. Wire(fromExch, n + 1, 0, 0)
    <3>1. \A j \in 1 .. Len(fromExch) : fromExch[j].id \in 1 .. n
      BY <1>0, StreamTypes
    <3>2. \A j \in 1 .. Len(fromExch) : Shares(fromExch[j], n + 1) = 0
      BY <1>8, <3>1 DEF Shares
    <3> QED BY <1>0, <3>2, WireQuiet
  <2>4. MaxPosition \in Nat /\ o.quantity \in Nat /\ o.side \in Sides
    BY RiskAssumption
  <2>5. net \in Int
    BY <2>2, <2>4 DEF Limits
  <2>6. \A m : Signed(e, m) = Signed(o, m)
    BY <1>2 DEF SameTerms, Signed
  <2>7. e.quantity = o.quantity
    BY <1>2 DEF SameTerms
  <2>8. net + Signed(o, o.quantity) \in Limits
    <3>1. CheckOrder(rm, o)
      BY <1>2, <1>10
    <3>2. CASE o.side = "BUY"
      <4>1. net + o.quantity <= MaxPosition
        BY <1>10, <2>2, <3>1, <3>2 DEF CheckOrder
      <4>2. Signed(o, o.quantity) = o.quantity
        BY <2>4, <3>2, SignedIs
      <4> HIDE DEF net
      <4> QED BY <2>2, <2>4, <4>1, <4>2 DEF Limits
    <3>3. CASE o.side = "SELL"
      <4>1. o.quantity <= net
        BY <1>10, <2>2, <3>1, <3>3 DEF CheckOrder
      <4>2. Signed(o, o.quantity) = -o.quantity
        BY <2>4, <3>3, SignedIs
      <4> HIDE DEF net
      <4> QED BY <2>2, <2>4, <4>1, <4>2 DEF Limits
    <3> QED BY <2>4, <3>2, <3>3 DEF Sides
  <2>9. Signed(o, 0) = 0
    BY SignedIs
  <2>10. net = net + Signed(e, 0)
    <3> HIDE DEF net, e
    <3> QED BY <2>5, <2>6, <2>9
  <2>11. /\ n + 1 \in 1 .. Len(om'.orders) /\ 0 \in Nat
         /\ NetOf(om'.orders, s, executed') = net
         /\ rm'.qty[s] = net
    BY <1>1, <1>2, <1>5, <1>8, <2>2
  <2> HIDE DEF net
  <2>12. /\ Wire(fromExch', n + 1, 0, executed'[n + 1])
         /\ NetOf(om'.orders, s, executed') = net + Signed(om'.orders[n + 1], executed'[n + 1])
         /\ rm'.qty[s] = net + Signed(om'.orders[n + 1], 0)
         /\ net + Signed(om'.orders[n + 1], om'.orders[n + 1].quantity) \in Limits
    BY <1>2, <1>3, <2>3, <2>6, <2>7, <2>8, <2>10, <2>11
  <2>13. Held(om'.orders, om'.open, executed', fromExch', rm'.qty, s)
    BY <2>1, <2>2, <2>11, <2>12 DEF Held
  <2> QED BY <2>13 DEF HeldNow
<1> QED BY <1>9, <1>10

(* A fill of n shares that the position can bear is booked in full.        *)
LEMMA FillBooked ==
  ASSUME NEW r, NEW o, o.side \in Sides, r.qty[o.sym] \in Int, NEW n \in Nat,
         r.qty[o.sym] + Signed(o, n) >= 0
  PROVE  NewQty(r, o, n) = r.qty[o.sym] + Signed(o, n)
<1>1. CASE o.side = "BUY"
  BY <1>1, SignedIs DEF NewQty
<1>2. CASE o.side = "SELL"
  <2>1. Signed(o, n) = -n
    BY <1>2, SignedIs
  <2>2. n <= r.qty[o.sym]
    BY <2>1
  <2>3. Sold(r, o, n) = n
    BY <2>2 DEF Sold
  <2> QED BY <1>2, <2>1, <2>3 DEF NewQty
<1> QED BY <1>1, <1>2 DEF Sides

(* fill_th: a report.                                                      *)
LEMMA PositionReport ==
  ASSUME EngineInv, EngineInv', TradesOK, QuietOK, QuietOK', PositionsOK, Report
  PROVE  PositionsOK'
<1> DEFINE f == fromExch[1]
           os == om.orders
           ot == om'.orders
<1>0. /\ Len(os) \in Nat /\ Ids = 1 .. Len(os) /\ fromExch \in Seq(Reports)
      /\ \A k \in Ids : /\ executed[k] \in Nat /\ executed[k] <= os[k].quantity
                        /\ os[k].quantity \in Nat /\ os[k].sym \in Symbols /\ os[k].side \in Sides
      /\ \A s \in Symbols, k \in Ids :
           k \in om.open[s] <=> os[k].sym = s /\ os[k].status \in Live
  BY OrderFacts
<1>1. /\ fromExch # <<>> /\ f \in Reports /\ f.id \in Ids
      /\ fromExch' = Tail(fromExch) /\ executed' = executed /\ overlap' = overlap
      /\ Len(ot) = Len(os) /\ Ids' = Ids
      /\ \A k \in Ids : SameTerms(ot[k], os[k])
      /\ \A k \in Ids : k # f.id => (ot[k].status \in Live <=> os[k].status \in Live)
      /\ os[f.id].status \notin Live => ot[f.id].status \notin Live
      /\ RiskOK(rm')
      /\ f.type # "E" => rm' = rm
      /\ f.type = "E" => rm'.qty = [rm.qty EXCEPT ![os[f.id].sym] = NewQty(rm, os[f.id], f.qty)]
  BY ReportBooks DEF PositionsOK
<1> SUFFICES ASSUME ~overlap', NEW s \in Symbols PROVE HeldNow(s)'
  BY <1>1 DEF PositionsOK
<1>2. Held(os, om.open, executed, fromExch, rm.qty, s) /\ rm.qty \in [Symbols -> Int]
  BY <1>1 DEF PositionsOK, HeldNow, RiskOK
<1>3. NetOf(ot, s, executed') = NetOf(os, s, executed)
  <2>1. SameNet(os, ot, s, executed, executed')
    BY <1>0, <1>1 DEF SameTerms, SameNet
  <2> QED BY <2>1, NetSame
<1>4. /\ om'.open[s] = {k \in Ids : ot[k].sym = s /\ ot[k].status \in Live}
      /\ om.open[s] = {k \in Ids : os[k].sym = s /\ os[k].status \in Live}
  <2>1. IndexNow'
    BY IndexNext
  <2> QED BY <1>1, <2>1 DEF IndexNow, EngineInv, BookOK, IndexExact, Ids
<1>5. /\ \A k \in Ids : ot[k].sym = os[k].sym /\ ot[k].quantity = os[k].quantity
      /\ \A k \in Ids : \A m : Signed(ot[k], m) = Signed(os[k], m)
  BY <1>1 DEF SameTerms, Signed
<1>6. \A k \in Ids : \A x : Wire(fromExch, k, x, executed[k]) =>
                          Wire(fromExch', k, x + Shares(f, k), executed[k])
  BY <1>0, <1>1, WireTake
<1>7. \A k \in Ids, x \in Nat : Shares(f, k) = 0 /\ Wire(fromExch, k, x, executed[k]) =>
                          Wire(fromExch', k, x, executed[k])
  BY <1>6
<1>8. f.type # "E" => Shares(f, f.id) = 0
  BY DEF Shares
<1>9. f.type = "E" => Shares(f, f.id) = f.qty /\ f.qty # 0 /\ f.qty \in Nat
  BY <1>0, <1>1, TakeReport DEF Shares, QuietOK, WireOK, Reports
<1>10. \A k : k # f.id => Shares(f, k) = 0
  BY DEF Shares
<1> HIDE DEF f, os, ot
<1>11. CASE ~(os[f.id].sym = s /\ os[f.id].status \in Live)
  <2>1. om'.open[s] = om.open[s] /\ f.id \notin om.open[s]
    BY <1>0, <1>1, <1>4, <1>5, <1>11
  <2>2. rm'.qty[s] = rm.qty[s]
    <3>1. CASE f.type # "E"
      BY <1>1, <3>1
    <3>2. CASE f.type = "E"
      <4>1. os[f.id].status \notin Terminal
        <5> SUFFICES ASSUME os[f.id].status \in Terminal PROVE FALSE
          OBVIOUS
        <5>1. Quiet(fromExch, f.id) /\ 1 \in 1 .. Len(fromExch)
          BY <1>1, TakeReport DEF QuietOK, os
        <5>2. Shares(f, f.id) = 0
          BY <5>1 DEF Quiet, f
        <5> QED BY <1>9, <3>2, <5>2
      <4>2. os[f.id].status \in Live
        BY <1>1, <4>1, OrderFacts DEF os
      <4>3. os[f.id].sym # s
        BY <1>11, <4>2
      <4> QED BY <1>0, <1>1, <1>2, <3>2, <4>3
    <3> QED BY <3>1, <3>2
  <2>3. \A id \in 1 .. Len(os) : om.open[s] = {id} =>
           /\ SameTerms(ot[id], os[id]) /\ executed'[id] = executed[id]
           /\ \A x \in Nat : Wire(fromExch, id, x, executed[id]) => Wire(fromExch', id, x, executed[id])
    <3> SUFFICES ASSUME NEW id \in Ids, om.open[s] = {id}
                 PROVE  /\ SameTerms(ot[id], os[id]) /\ executed'[id] = executed[id]
                        /\ \A x \in Nat : Wire(fromExch, id, x, executed[id]) =>
                                            Wire(fromExch', id, x, executed[id])
      BY <1>0
    <3>1. id # f.id
      BY <2>1
    <3> QED BY <1>1, <1>7, <1>10, <3>1
  <2>4. Len(os) \in Nat /\ Len(ot) \in Nat /\ Len(os) <= Len(ot)
    BY <1>0, <1>1
  <2>5. Held(ot, om'.open, executed', fromExch', rm'.qty, s)
    BY <1>2, <1>3, <2>1, <2>2, <2>3, <2>4, HeldSame
  <2> QED BY <2>5 DEF HeldNow, ot
<1>12. CASE os[f.id].sym = s /\ os[f.id].status \in Live
  <2> DEFINE id == f.id
             n == Shares(f, id)
             net == NetOf(os, s, executed)
  <2>1. id \in om.open[s] /\ id \in Ids /\ id \in 1 .. Len(os)
    BY <1>0, <1>1, <1>4, <1>12
  <2>2. PICK x \in Nat, base \in Limits :
          /\ om.open[s] = {id} /\ Wire(fromExch, id, x, executed[id])
          /\ net = base + Signed(os[id], executed[id])
          /\ rm.qty[s] = base + Signed(os[id], x)
          /\ base + Signed(os[id], os[id].quantity) \in Limits
    <3>1. om.open[s] # {}
      BY <2>1
    <3>2. PICK i \in 1 .. Len(os), x \in Nat, base \in Limits :
          /\ om.open[s] = {i} /\ Wire(fromExch, i, x, executed[i])
          /\ net = base + Signed(os[i], executed[i])
          /\ rm.qty[s] = base + Signed(os[i], x)
          /\ base + Signed(os[i], os[i].quantity) \in Limits
      BY <1>2, <3>1 DEF Held
    <3>3. i = id
      BY <2>1, <3>2
    <3> QED BY <3>2, <3>3
  <2>3. Wire(fromExch', id, x + n, executed[id])
    BY <1>6, <2>1, <2>2
  <2>4. n \in Nat
    <3>1. n = 0 \/ n \in Nat
      BY <1>8, <1>9
    <3> QED BY <3>1
  <2>5. x + n \in Nat /\ x + n <= executed[id]
    <3>1. fromExch' \in Seq(Reports)
      BY DEF EngineInv, StreamsOK
    <3> QED BY <1>0, <2>1, <2>3, <3>1, WireTypes
  <2>6. /\ executed[id] \in Nat /\ executed[id] <= os[id].quantity /\ os[id].quantity \in Nat
        /\ os[id].side \in Sides
    BY <1>0, <2>1
  <2>7. x + n <= os[id].quantity
    <3> HIDE DEF n, id
    <3> QED BY <2>5, <2>6
  <2>8. base + Signed(os[id], x + n) \in Limits /\ base + Signed(os[id], executed[id]) \in Limits
    <3> HIDE DEF n, id
    <3> QED BY <2>2, <2>5, <2>6, <2>7, Between
  <2>9. Signed(os[id], x + n) = Signed(os[id], x) + Signed(os[id], n)
        /\ Signed(os[id], x) \in Int /\ Signed(os[id], n) \in Int
    <3> HIDE DEF n, id
    <3>1. x \in Int /\ n \in Int /\ x + n \in Int
      BY <2>4
    <3>2. CASE os[id].side = "BUY"
      BY <3>1, <3>2, SignedIs
    <3>3. CASE os[id].side # "BUY"
      BY <3>1, <3>3, SignedIs
    <3> QED BY <3>2, <3>3
  <2>10. MaxPosition \in Nat /\ base \in Int
    BY RiskAssumption DEF Limits
  <2>11. rm'.qty[s] = base + Signed(os[id], x + n)
    <3>1. CASE f.type # "E"
      <4>1. n = 0 /\ rm'.qty[s] = rm.qty[s]
        BY <1>1, <1>8, <3>1
      <4> HIDE DEF n, id
      <4>2. x + n = x
        BY <4>1
      <4> QED BY <2>2, <4>1, <4>2
    <3>2. CASE f.type = "E"
      <4>1. n = f.qty /\ os[id].sym = s
        BY <1>9, <1>12, <3>2
      <4>2. rm'.qty = [rm.qty EXCEPT ![s] = NewQty(rm, os[id], n)]
        BY <1>1, <3>2, <4>1
      <4>3. rm'.qty[s] = NewQty(rm, os[id], n)
        BY <1>2, <4>2
      <4>4. rm.qty[s] + Signed(os[id], n) = base + Signed(os[id], x + n)
        <5> HIDE DEF n, id
        <5> QED BY <2>2, <2>9, <2>10
      <4>5. rm.qty[s] + Signed(os[id], n) >= 0 /\ rm.qty[s] \in Int
        <5> HIDE DEF n, id
        <5> QED BY <1>2, <2>8, <2>10, <4>4 DEF Limits
      <4>6. NewQty(rm, os[id], n) = rm.qty[s] + Signed(os[id], n)
        <5> HIDE DEF n, id
        <5> QED BY <2>4, <2>6, <4>1, <4>5, FillBooked
      <4> QED BY <4>3, <4>4, <4>6
    <3> QED BY <3>1, <3>2
  <2>12. om'.open[s] = IF ot[id].status \in Live THEN {id} ELSE {}
    <3>1. \A k \in Ids : k # id => ~(os[k].sym = s /\ os[k].status \in Live)
      BY <1>4, <2>2
    <3>2. \A k \in Ids : k # id => ~(ot[k].sym = s /\ ot[k].status \in Live)
      BY <1>1, <1>5, <3>1
    <3>3. ot[id].sym = s /\ id \in Ids
      BY <1>5, <1>12, <2>1
    <3> HIDE DEF id
    <3> QED BY <1>4, <3>2, <3>3
  <2>13. CASE ot[id].status \in Live
    <3>1. om'.open[s] = {id} /\ id \in 1 .. Len(ot)
      BY <1>1, <2>1, <2>12, <2>13
    <3>2. /\ Wire(fromExch', id, x + n, executed'[id])
          /\ NetOf(ot, s, executed') = base + Signed(ot[id], executed'[id])
          /\ rm'.qty[s] = base + Signed(ot[id], x + n)
          /\ base + Signed(ot[id], ot[id].quantity) \in Limits
      <4>1. /\ \A m : Signed(ot[id], m) = Signed(os[id], m)
            /\ ot[id].quantity = os[id].quantity /\ executed'[id] = executed[id]
        BY <1>1, <1>5, <2>1
      <4> HIDE DEF n, id
      <4> QED BY <1>3, <2>2, <2>3, <2>11, <4>1
    <3> HIDE DEF n, id
    <3>3. Held(ot, om'.open, executed', fromExch', rm'.qty, s)
      BY <2>5, <3>1, <3>2 DEF Held
    <3> QED BY <3>3 DEF HeldNow, ot
  <2>14. CASE ot[id].status \notin Live
    <3>1. om'.open[s] = {}
      BY <2>12, <2>14
    <3>2. ot[id].status \in Terminal
      <4>1. ot[id] \in Entries
        BY <1>1, <2>1, BookTypes DEF EngineInv, BookOK, Ids, ot
      <4> QED BY <2>14, <4>1 DEF Entries, Statuses
    <3>3. Quiet(fromExch', id) /\ fromExch' \in Seq(Reports)
      BY <1>1, <2>1, <3>2 DEF QuietOK, ot, EngineInv, StreamsOK
    <3>4. Wire(fromExch', id, executed[id], executed[id])
      BY <2>6, <3>3, WireQuiet DEF Quiet
    <3>5. x + n = executed[id]
      <4> HIDE DEF n, id
      <4> QED BY <2>3, <2>6, <3>3, <3>4, WireUnique
    <3>6. rm'.qty[s] = net /\ net \in Limits
      BY <2>2, <2>8, <2>11, <3>5
    <3>7. Held(ot, om'.open, executed', fromExch', rm'.qty, s)
      BY <1>3, <3>1, <3>6 DEF Held
    <3> QED BY <3>7 DEF HeldNow, ot
  <2> QED BY <2>13, <2>14
<1> QED BY <1>11, <1>12

(* Steps that leave orders, executions and positions as they are; a report *)
(* that may be added is not an execution.                                  *)
LEMMA PositionKeeps ==
  ASSUME EngineInv, EngineInv', TradesOK, PositionsOK, RiskOK(rm'), rm'.qty = rm.qty,
         overlap' = overlap, executed' = executed, Len(om'.orders) = Len(om.orders),
         \A k \in Ids : /\ SameTerms(om'.orders[k], om.orders[k])
                        /\ om'.orders[k].status \in Live <=> om.orders[k].status \in Live,
         \/ fromExch' = fromExch
         \/ \E r \in Reports : r.type # "E" /\ fromExch' = Append(fromExch, r)
  PROVE  PositionsOK'
<1> DEFINE os == om.orders
           ot == om'.orders
<1>0. /\ Len(os) \in Nat /\ Ids = 1 .. Len(os) /\ fromExch \in Seq(Reports) /\ Ids' = Ids
      /\ \A k \in Ids : executed[k] \in Nat
  BY OrderFacts DEF Ids
<1> SUFFICES ASSUME ~overlap', NEW s \in Symbols PROVE HeldNow(s)'
  BY DEF PositionsOK
<1>1. Held(os, om.open, executed, fromExch, rm.qty, s)
  BY DEF PositionsOK, HeldNow
<1>2. om'.open[s] = om.open[s]
  <2>1. /\ om'.open[s] = {k \in Ids : ot[k].sym = s /\ ot[k].status \in Live}
        /\ om.open[s] = {k \in Ids : os[k].sym = s /\ os[k].status \in Live}
    <3>1. IndexNow'
      BY IndexNext
    <3> QED BY <1>0, <3>1 DEF IndexNow, EngineInv, BookOK, IndexExact, Ids
  <2>2. \A k \in Ids : ot[k].sym = os[k].sym /\ (ot[k].status \in Live <=> os[k].status \in Live)
    BY DEF SameTerms
  <2> HIDE DEF os, ot
  <2> QED BY <2>1, <2>2
<1>3. NetOf(ot, s, executed') = NetOf(os, s, executed)
  <2>1. SameNet(os, ot, s, executed, executed')
    BY <1>0 DEF SameTerms, SameNet
  <2> QED BY <2>1, NetSame
<1>4. ASSUME NEW id \in Ids, NEW x \in Nat, Wire(fromExch, id, x, executed[id])
      PROVE  Wire(fromExch', id, x, executed[id])
  <2>1. CASE fromExch' = fromExch
    BY <1>4, <2>1
  <2>2. ASSUME NEW r \in Reports, r.type # "E", fromExch' = Append(fromExch, r)
        PROVE  Wire(fromExch', id, x, executed[id])
    <3>1. Shares(r, id) = 0 /\ executed[id] \in Nat
      BY <1>0, <2>2 DEF Shares
    <3>2. executed[id] + Shares(r, id) = executed[id]
      BY <3>1
    <3>3. Wire(Append(fromExch, r), id, x, executed[id] + Shares(r, id))
      BY <1>0, <1>4, <3>1, WireAdd
    <3> QED BY <2>2, <3>2, <3>3
  <2> QED BY <2>1, <2>2
<1>5. \A id \in 1 .. Len(os) : om.open[s] = {id} =>
        /\ SameTerms(ot[id], os[id]) /\ executed'[id] = executed[id]
        /\ \A x \in Nat : Wire(fromExch, id, x, executed[id]) => Wire(fromExch', id, x, executed[id])
  BY <1>0, <1>4
<1>6. Len(os) \in Nat /\ Len(ot) \in Nat /\ Len(os) <= Len(ot) /\ rm'.qty[s] = rm.qty[s]
  BY <1>0
<1> HIDE DEF os, ot
<1>7. Held(ot, om'.open, executed', fromExch', rm'.qty, s)
  BY <1>1, <1>2, <1>3, <1>5, <1>6, HeldSame
<1> QED BY <1>7 DEF HeldNow, ot

(* The exchange executes shares of an order that is still live here.       *)
LEMMA PositionExecutes ==
  ASSUME EngineInv, TradesOK, PositionsOK, om' = om, rm' = rm, overlap' = overlap,
         NEW r \in Reports, r.type = "E", fromExch' = Append(fromExch, r), r.id \in Ids,
         om.orders[r.id].status \notin Terminal,
         executed' = [executed EXCEPT ![r.id] = executed[r.id] + r.qty]
  PROVE  PositionsOK'
<1> DEFINE os == om.orders
           id == r.id
           q  == r.qty
<1>0. /\ Len(os) \in Nat /\ Ids = 1 .. Len(os) /\ fromExch \in Seq(Reports)
      /\ executed \in Seq(Nat) /\ Len(executed) = Len(os)
      /\ \A k \in Ids : executed[k] \in Nat
      /\ os[id].status \in Live
      /\ \A s \in Symbols, k \in Ids :
           k \in om.open[s] <=> os[k].sym = s /\ os[k].status \in Live
  BY OrderFacts
<1>1. q \in Nat /\ id \in Ids
  BY DEF Reports
<1>2. /\ executed'[id] = executed[id] + q /\ executed'[id] \in Nat
      /\ \A k \in Ids : k # id => executed'[k] = executed[k]
  <2>1. executed[id] + q \in Nat
    BY <1>0, <1>1
  <2> QED BY <1>0, <1>1, <2>1, ExceptSeq
<1>3. Shares(r, id) = q /\ \A k : k # id => Shares(r, k) = 0
  BY DEF Shares
<1>4. \A k \in Ids : \A x : Wire(fromExch, k, x, executed[k]) => Wire(fromExch', k, x, executed'[k])
  <2> SUFFICES ASSUME NEW k \in Ids, NEW x, Wire(fromExch, k, x, executed[k])
               PROVE  Wire(fromExch', k, x, executed'[k])
    OBVIOUS
  <2>1. executed[k] + Shares(r, k) = executed'[k] /\ executed[k] \in Nat
    BY <1>0, <1>2, <1>3
  <2>2. Wire(Append(fromExch, r), k, x, executed[k] + Shares(r, k))
    BY <1>0, <2>1, WireAdd
  <2> QED BY <2>1, <2>2
<1> SUFFICES ASSUME ~overlap', NEW s \in Symbols PROVE HeldNow(s)'
  BY DEF PositionsOK
<1>5. Held(os, om.open, executed, fromExch, rm.qty, s)
  BY DEF PositionsOK, HeldNow
<1> HIDE DEF os, id, q
<1>6. CASE os[id].sym # s
  <2>1. NetOf(os, s, executed') = NetOf(os, s, executed)
    <3>1. SameNet(os, os, s, executed, executed')
      BY <1>0, <1>2, <1>6 DEF SameNet
    <3> QED BY <3>1, NetSame
  <2>2. \A k \in 1 .. Len(os) : om.open[s] = {k} =>
          /\ SameTerms(os[k], os[k]) /\ executed'[k] = executed[k]
          /\ \A x \in Nat : Wire(fromExch, k, x, executed[k]) => Wire(fromExch', k, x, executed[k])
    <3> SUFFICES ASSUME NEW k \in Ids, om.open[s] = {k}
                 PROVE  /\ SameTerms(os[k], os[k]) /\ executed'[k] = executed[k]
                        /\ \A x \in Nat : Wire(fromExch, k, x, executed[k]) =>
                                            Wire(fromExch', k, x, executed[k])
      BY <1>0
    <3>1. k # id
      BY <1>0, <1>1, <1>6
    <3>2. executed'[k] = executed[k]
      BY <1>2, <3>1
    <3> QED BY <1>4, <3>2 DEF SameTerms
  <2>3. Len(os) <= Len(os)
    BY <1>0
  <2>4. Held(os, om.open, executed', fromExch', rm.qty, s)
    <3>1. ASSUME NEW k \in 1 .. Len(os), NEW x \in Nat, NEW base \in Limits,
                 om.open[s] = {k}, Wire(fromExch, k, x, executed[k])
          PROVE  Wire(fromExch', k, x, executed'[k]) /\ executed'[k] = executed[k]
      BY <2>2, <3>1
    <3> QED BY <1>5, <2>1, <3>1 DEF Held
  <2> QED BY <2>4 DEF HeldNow, os
<1>7. CASE os[id].sym = s
  <2>1. id \in om.open[s]
    BY <1>0, <1>1, <1>7
  <2>2. PICK x \in Nat, base \in Limits :
          /\ om.open[s] = {id} /\ Wire(fromExch, id, x, executed[id])
          /\ NetOf(os, s, executed) = base + Signed(os[id], executed[id])
          /\ rm.qty[s] = base + Signed(os[id], x)
          /\ base + Signed(os[id], os[id].quantity) \in Limits
    <3>1. PICK i \in 1 .. Len(os), x \in Nat, base \in Limits :
          /\ om.open[s] = {i} /\ Wire(fromExch, i, x, executed[i])
          /\ NetOf(os, s, executed) = base + Signed(os[i], executed[i])
          /\ rm.qty[s] = base + Signed(os[i], x)
          /\ base + Signed(os[i], os[i].quantity) \in Limits
      BY <1>5, <2>1 DEF Held
    <3>2. i = id
      BY <2>1, <3>1
    <3> QED BY <3>1, <3>2
  <2>3. NetOf(os, s, executed') =
          NetOf(os, s, executed) + (Signed(os[id], executed'[id]) - Signed(os[id], executed[id]))
    <3>2. \A k \in Ids : executed[k] \in Nat /\ executed'[k] \in Nat
      <4> SUFFICES ASSUME NEW k \in Ids PROVE executed[k] \in Nat /\ executed'[k] \in Nat
        OBVIOUS
      <4>1. executed[k] \in Nat
        BY <1>0
      <4>2. executed'[k] \in Nat
        BY <1>2, <4>1
      <4> QED BY <4>1, <4>2
    <3>3. \A k \in Ids : executed[k] \in Int /\ executed'[k] \in Int
      BY <3>2
    <3>4. Len(os) \in Nat /\ Ids = 1 .. Len(os)
      BY <1>0
    <3>5. \A k \in Ids : k # id => executed'[k] = executed[k]
      BY <1>2
    <3>1. OneChanged(os, s, executed, executed', id)
      BY <1>1, <1>7, <3>3, <3>4, <3>5, Zenon DEF OneChanged
    <3> QED BY ONLY <3>1, NetChange
  <2>4. /\ Signed(os[id], executed'[id]) \in Int /\ Signed(os[id], executed[id]) \in Int
        /\ base \in Int
    <3>1. base \in Int
      BY RiskAssumption DEF Limits
    <3>2. executed'[id] \in Int /\ executed[id] \in Int
      BY <1>0, <1>1, <1>2
    <3> QED BY <3>1, <3>2, SignedIs
  <2>5. NetOf(os, s, executed') = base + Signed(os[id], executed'[id])
    BY <2>2, <2>3, <2>4
  <2>6. Wire(fromExch', id, x, executed'[id])
    BY <1>1, <1>4, <2>2
  <2>7. Held(os, om.open, executed', fromExch', rm.qty, s)
    BY <1>0, <1>1, <2>2, <2>5, <2>6 DEF Held
  <2> QED BY <2>7 DEF HeldNow, os
<1> QED BY <1>6, <1>7

(* Unless one was ignored, every executed share is booked or on the way.   *)
LEMMA PositionStep ==
  ASSUME EngineInv, EngineInv', TradesOK, QuietOK, QuietOK', PositionsOK, [Next]_vars
  PROVE  PositionsOK'
<1>0. RiskOK(rm) /\ \A k \in Ids : SameTerms(om.orders[k], om.orders[k])
  BY DEF PositionsOK, SameTerms
<1>1. CASE SubmitSignal
  BY <1>1, PositionSubmit
<1>2. ASSUME NEW id \in Ids, NEW sent \in BOOLEAN, CancelOrder(id, sent) PROVE PositionsOK'
  <2>1. /\ om' = RequestCancel(om, id) /\ fromExch' = fromExch /\ rm' = rm /\ overlap' = overlap
        /\ executed' = executed /\ CanCancel(om, id)
    BY <1>2 DEF CancelOrder, exchange
  <2>2. Moves(om, om', id, Fillable, {"PENDING_CANCEL"}) /\ Len(om'.orders) = Len(om.orders)
    BY <1>2, CancelStep DEF Moves
  <2>3. BooksAtMost(om, om', id, 0)
    BY <2>1, CallBooks DEF EngineInv, BookOK, Ids
  <2>4. ASSUME NEW k \in Ids
        PROVE  /\ SameTerms(om'.orders[k], om.orders[k])
               /\ om'.orders[k].status \in Live <=> om.orders[k].status \in Live
    <3>1. \/ om'.orders[k].status = om.orders[k].status
          \/ om'.orders[k].status = "PENDING_CANCEL" /\ om.orders[k].status \in Fillable
      BY <2>1, <2>2 DEF Moves, CanCancel, Ids
    <3>2. SameTerms(om'.orders[k], om.orders[k])
      BY <2>3 DEF BooksAtMost, Ids
    <3> QED BY <3>1, <3>2 DEF Live, Fillable
  <2> QED BY <1>0, <2>1, <2>2, <2>4, PositionKeeps
<1>3. ASSUME NEW s \in Symbols, NEW p \in FillPrices, MarkPrice(s, p) PROVE PositionsOK'
  <2>1. /\ om' = om /\ fromExch' = fromExch /\ rm' = Mark(rm, s, p) /\ overlap' = overlap
        /\ executed' = executed
    BY <1>3 DEF MarkPrice, exchange
  <2>2. RiskOK(rm') /\ rm'.qty = rm.qty
    BY <1>0, <2>1, MarkKeepsQty
  <2> QED BY <1>0, <2>1, <2>2, PositionKeeps
<1>4. CASE Report
  BY <1>4, PositionReport
<1>5. CASE Exchange
  <2>1. om' = om /\ rm' = rm /\ overlap' = overlap
    BY <1>5, ExchangeSends
  <2>2. CASE fromExch' = fromExch /\ executed' = executed
    BY <1>0, <2>1, <2>2, PositionKeeps
  <2>3. CASE \E r \in Reports : r.type # "E" /\ fromExch' = Append(fromExch, r) /\ executed' = executed
    BY <1>0, <2>1, <2>3, PositionKeeps
  <2>4. ASSUME NEW r \in Reports, r.type = "E", fromExch' = Append(fromExch, r), r.id \in Ids,
               om.orders[r.id].status \notin Terminal,
               executed' = [executed EXCEPT ![r.id] = executed[r.id] + r.qty]
        PROVE  PositionsOK'
    BY <2>1, <2>4, PositionExecutes
  <2> QED BY <1>5, <2>2, <2>3, <2>4, ExchangeSends
<1>6. CASE UNCHANGED vars
  <2>1. om' = om /\ rm' = rm /\ overlap' = overlap /\ fromExch' = fromExch /\ executed' = executed
    BY <1>6 DEF vars, engine, exchange
  <2> QED BY <1>0, <2>1, PositionKeeps
<1> QED BY <1>1, <1>2, <1>3, <1>4, <1>5, <1>6 DEF Next

(* The ledgers of OMS, the risk manager and the exchange.                  *)
LedgerInv == EngineInv /\ TradesOK /\ QuietOK /\ BookedOK /\ PositionsOK

(* Nothing is booked.                                                      *)
LEMMA InitLedger == Init => LedgerInv
<1> SUFFICES ASSUME Init PROVE LedgerInv
  OBVIOUS
<1>1. EngineInv
  BY InitEngine
<1>2. /\ om.orders = <<>> /\ Len(om.orders) = 0 /\ om.open = [s \in Symbols |-> {}]
      /\ fromExch = <<>> /\ Len(fromExch) = 0 /\ rm = Flat(Symbols)
  BY EmptySeq DEF Init, EmptyBook
<1>3. TradesOK /\ QuietOK /\ BookedOK
  BY <1>2 DEF TradesOK, QuietOK, BookedOK, WireOK, Ids
<1>4. RiskOK(rm) /\ rm.qty = [s \in Symbols |-> 0]
  BY <1>2 DEF Flat, RiskOK
<1>5. ASSUME NEW s \in Symbols PROVE HeldNow(s)
  <2>1. {id \in 1 .. Len(om.orders) : om.orders[id].sym = s} = {}
    BY <1>2
  <2>2. NetOf(om.orders, s, executed) = 0
    BY <2>1, SumEmpty DEF NetOf
  <2>3. 0 \in Limits
    BY RiskAssumption DEF Limits
  <2> QED BY <1>2, <1>4, <2>2, <2>3 DEF HeldNow, Held
<1> QED BY <1>1, <1>3, <1>4, <1>5 DEF LedgerInv, PositionsOK

(* Every step keeps the ledger.                                            *)
LEMMA NextLedger ==
  ASSUME LedgerInv, [Next]_vars
  PROVE  LedgerInv'
<1>1. EngineInv /\ TradesOK /\ QuietOK /\ BookedOK /\ PositionsOK /\ RiskOK(rm)
  BY DEF LedgerInv, PositionsOK
<1>2. EngineInv'
  BY <1>1, NextEngine
<1>3. TradesOK'
  BY <1>1, <1>2, NextTrades
<1>4. QuietOK'
  BY <1>1, <1>2, <1>3, QuietStep
<1>5. BookedOK' /\ PositionsOK'
  BY <1>1, <1>2, <1>4, BookedStep, PositionStep
<1> QED BY <1>2, <1>3, <1>4, <1>5 DEF LedgerInv

(* The inductive invariant of the ledgers.  What OMS, the risk manager and *)
(* the exchange know of an order differs by the executions still on the    *)
(* wire, so the invariant says for every order what is on the wire, and    *)
(* that nothing is once the order is terminal.                             *)
THEOREM LedgerInvariant == Spec => []LedgerInv
<1>1. LedgerInv /\ [Next]_vars => LedgerInv'
  BY NextLedger
<1> QED BY <1>1, InitLedger, PTL DEF Spec

(* check_order() tests the position the risk manager has booked, which is  *)
(* behind what the exchange executed.  As long as no symbol had two live   *)
(* orders at once, the net that is really executed still never goes short  *)
(* and never exceeds max_position_, whatever is on the wire.               *)
THEOREM LimitsHold == Spec => []LimitsHoldUnlessOverlap
<1>1. ASSUME LedgerInv PROVE LimitsHoldUnlessOverlap
  <2> SUFFICES ASSUME ~overlap, NEW s \in Symbols PROVE NetOf(om.orders, s, executed) \in Limits
    BY NetIs DEF LimitsHoldUnlessOverlap, Limits
  <2>1. EngineInv /\ TradesOK
    BY <1>1 DEF LedgerInv
  <2>2. Held(om.orders, om.open, executed, fromExch, rm.qty, s)
    BY <1>1 DEF LedgerInv, PositionsOK, HeldNow
  <2>3. ASSUME NEW id \in 1 .. Len(om.orders), NEW base \in Limits,
               NetOf(om.orders, s, executed) = base + Signed(om.orders[id], executed[id]),
               base + Signed(om.orders[id], om.orders[id].quantity) \in Limits
        PROVE  NetOf(om.orders, s, executed) \in Limits
    <3>1. /\ executed[id] \in Nat /\ executed[id] <= om.orders[id].quantity
          /\ om.orders[id].quantity \in Nat
      BY <2>1, OrderFacts
    <3> QED BY <2>3, <3>1, Between
  <2> QED BY <2>2, <2>3 DEF Held
<1> QED BY <1>1, LedgerInvariant, PTL

(* on_fill() of the order manager and of the risk manager, called one      *)
(* after the other by fill_th, book the same shares: as long as OMS refused*)
(* no fill and no symbol had two live orders, the position is the net of   *)
(* what the orders say they have filled.                                   *)
THEOREM BooksAgree == Spec => []BooksAgreeUnlessIgnored
<1>1. ASSUME LedgerInv PROVE BooksAgreeUnlessIgnored
  <2> DEFINE os == om.orders
  <2> SUFFICES ASSUME ~fillIgnored, ~overlap, NEW s \in Symbols
               PROVE  rm.qty[s] = NetOf(os, s, Filled)
    BY NetIs DEF BooksAgreeUnlessIgnored
  <2>0. EngineInv /\ TradesOK /\ QuietOK /\ BookedOK
    BY <1>1 DEF LedgerInv
  <2>1. Held(os, om.open, executed, fromExch, rm.qty, s)
    BY <1>1 DEF LedgerInv, PositionsOK, HeldNow
  <2>2. /\ Len(os) \in Nat /\ Ids = 1 .. Len(os) /\ fromExch \in Seq(Reports)
        /\ \A k \in Ids : executed[k] \in Nat
        /\ \A k \in Ids : os[k].status \in Live \/ os[k].status \in Terminal
        /\ \A k \in Ids : k \in om.open[s] <=> os[k].sym = s /\ os[k].status \in Live
    BY <2>0, OrderFacts
  <2>3. \A k \in Ids : Filled[k] = os[k].filled /\ Filled[k] \in Nat
    BY <2>0, TradeTypes DEF Filled
  <2>4. \A k \in Ids : Wire(fromExch, k, os[k].filled, executed[k])
    BY <2>0 DEF BookedOK
  <2>5. \A k \in Ids : os[k].sym = s /\ k \notin om.open[s] => Filled[k] = executed[k]
    <3> SUFFICES ASSUME NEW k \in Ids, os[k].sym = s, k \notin om.open[s]
                 PROVE  os[k].filled = executed[k]
      BY <2>3
    <3>1. os[k].status \in Terminal
      BY <2>2
    <3>2. Quiet(fromExch, k)
      BY <2>0, <3>1 DEF QuietOK
    <3>3. Wire(fromExch, k, executed[k], executed[k])
      BY <2>2, <3>2, WireQuiet DEF Quiet
    <3> QED BY <2>2, <2>4, <3>3, WireUnique
  <2> HIDE DEF os
  <2>6. CASE om.open[s] = {} /\ rm.qty[s] = NetOf(os, s, executed)
    <3>1. SameNet(os, os, s, executed, Filled)
      BY <2>2, <2>5, <2>6 DEF SameNet
    <3> QED BY <2>6, <3>1, NetSame
  <2>7. ASSUME NEW id \in 1 .. Len(os), NEW x \in Nat, NEW base \in Limits,
               om.open[s] = {id}, Wire(fromExch, id, x, executed[id]),
               NetOf(os, s, executed) = base + Signed(os[id], executed[id]),
               rm.qty[s] = base + Signed(os[id], x)
        PROVE  rm.qty[s] = NetOf(os, s, Filled)
    <3>1. id \in Ids /\ os[id].sym = s
      BY <2>2, <2>7
    <3>2. x = Filled[id]
      BY <2>2, <2>3, <2>4, <2>7, <3>1, WireUnique
    <3> DEFINE mid == [k \in 1 .. Len(os) |-> IF k = id THEN Filled[id] ELSE executed[k]]
    <3>3. /\ mid[id] = Filled[id]
          /\ \A k \in 1 .. Len(os) : /\ mid[k] \in Int /\ executed[k] \in Int
                                     /\ k # id => mid[k] = executed[k]
                                     /\ os[k].sym = s => Filled[k] = mid[k]
      BY <2>2, <2>3, <2>5, <2>7, <3>1
    <3> HIDE DEF mid
    <3>4. NetOf(os, s, mid) =
            NetOf(os, s, executed) + (Signed(os[id], mid[id]) - Signed(os[id], executed[id]))
      <4>1. OneChanged(os, s, executed, mid, id)
        BY <2>2, <3>1, <3>3 DEF OneChanged
      <4> QED BY <4>1, NetChange
    <3>5. NetOf(os, s, Filled) = NetOf(os, s, mid)
      <4>1. SameNet(os, os, s, mid, Filled)
        BY <2>2, <3>3 DEF SameNet
      <4> QED BY <4>1, NetSame
    <3>6. /\ Signed(os[id], mid[id]) \in Int /\ Signed(os[id], executed[id]) \in Int /\ base \in Int
      <4>1. base \in Int
        BY RiskAssumption DEF Limits
      <4> QED BY <3>3, <4>1, SignedIs
    <3>7. Signed(os[id], mid[id]) = Signed(os[id], x)
      BY <3>2, <3>3
    <3> QED BY <2>7, <3>4, <3>5, <3>6, <3>7
  <2> QED BY <2>1, <2>6, <2>7 DEF Held
<1> QED BY <1>1, LedgerInvariant, PTL
=============================================================================
