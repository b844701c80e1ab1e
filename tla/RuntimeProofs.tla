--------------------------- MODULE RuntimeProofs ---------------------------
(***************************************************************************)
(* Proofs about the threads that main.cpp starts and stops, for any number *)
(* of threads, symbols, packets and calls.                                 *)
(***************************************************************************)
EXTENDS MarkToMarket, Shutdown, SumLemmas, SequenceTheorems, TLAPS

(* The risk manager's fields, and where its callers can be.                *)
Risk == [qty : [Symbols -> Nat], cost : [Symbols -> Int], mark : [Symbols -> Int],
         pnl : Int, peak : Int]

FillPlaces == {"fill_qty", "fill_cost"}
CallPlaces == {"idle", "read_pnl", "peak", "store"} \cup FillPlaces \cup InLoop

Readings == [sum : Int, at : 0 .. MaxLocate, qty : Nat, mark : Int, mixed : BOOLEAN]

MarkTypes ==
  /\ rm \in Risk /\ pc \in [Threads -> CallPlaces] /\ read \in [Threads -> Readings]
  /\ high \in Int
  /\ \A w \in Markers : pc[w] \notin FillPlaces
  /\ pc[FillTh] \in FillPlaces =>
       filling.sym \in Symbols /\ filling.qty \in Nat /\ filling.cost \in Int
  /\ \A t \in Threads : pc[t] \in InLoop => read[t].at \in Symbols

(* The equity as far as the first n locates.                               *)
Gain(r, s) == IF r.qty[s] > 0 /\ r.mark[s] > 0 THEN r.qty[s] * (r.mark[s] - r.cost[s]) ELSE 0
Gains(r) == [s \in DOMAIN r.qty |-> Gain(r, s)]
SoFar(r, n) == InitialEquity + r.pnl + SumFunctionOnSet(Gains(r), 0 .. n - 1)

(* What t has read so far is still what is there.                          *)
Current(t) ==
  /\ read[t].sum = SoFar(rm, read[t].at)
  /\ pc[t] \in {"read_mark", "read_cost"} => read[t].qty = rm.qty[read[t].at]
  /\ pc[t] = "read_cost" => /\ read[t].mark = rm.mark[read[t].at]
                            /\ read[t].qty > 0 /\ read[t].mark > 0

(* What a thread carries to equity_peak_ was an equity of the account,     *)
(* unless it is mixed.                                                     *)
CarriedIsReal ==
  /\ ~MidFill => Equity(rm) <= high
  /\ ~torn => rm.peak <= high
  /\ \A t \in Threads : ~read[t].mixed => /\ pc[t] \in InLoop => Current(t)
                                          /\ pc[t] \in {"peak", "store"} => read[t].sum <= high

(* Someone will compare the peak with the equity of now, or with a higher  *)
(* one.                                                                    *)
Pending(t) == \/ pc[t] = "read_pnl"
              \/ pc[t] \in InLoop /\ Current(t)
              \/ pc[t] \in {"peak", "store"} /\ read[t].sum >= Equity(rm)
SomeoneLooks ==
  ~raced => \/ rm.peak >= Equity(rm)
            \/ pc[FillTh] \in FillPlaces
            \/ \E t \in Threads : Pending(t)

MarkInv == MarkTypes /\ CarriedIsReal /\ SomeoneLooks

----------------------------------------------------------------------------
(* The locates.                                                            *)
LEMMA Locates ==
  /\ MaxLocate \in Nat \ {0} /\ 0 \in Symbols /\ IsFiniteSet(Symbols) /\ Symbols = 0 .. MaxLocate - 1
  /\ \A n \in 0 .. MaxLocate : IsFiniteSet(0 .. n - 1) /\ 0 .. n - 1 \subseteq Symbols
  /\ \A n \in Symbols : /\ n \in Nat /\ n + 1 \in 0 .. MaxLocate /\ n \in 0 .. MaxLocate
                        /\ n \notin 0 .. n - 1 /\ 0 .. n = (0 .. n - 1) \cup {n}
                        /\ n + 1 # MaxLocate => n + 1 \in Symbols
  <1>1. MaxLocate \in Nat \ {0}
    BY MarkAssumption
  <1>2. IsFiniteSet(0 .. MaxLocate - 1)
    BY <1>1, FS_Interval
  <1>3. ASSUME NEW n \in 0 .. MaxLocate PROVE IsFiniteSet(0 .. n - 1) /\ 0 .. n - 1 \subseteq 0 .. MaxLocate - 1
    <2>1. n - 1 \in Int
      OBVIOUS
    <2> QED  BY <1>1, <2>1, FS_Interval
  <1>4. ASSUME NEW n \in 0 .. MaxLocate - 1
        PROVE  /\ n \in Nat /\ n + 1 \in 0 .. MaxLocate /\ n \in 0 .. MaxLocate
               /\ n \notin 0 .. n - 1 /\ 0 .. n = (0 .. n - 1) \cup {n}
               /\ n + 1 # MaxLocate => n + 1 \in 0 .. MaxLocate - 1
    BY <1>1
  <1> QED  BY <1>1, <1>2, <1>3, <1>4 DEF Symbols

(* What a locate adds to the equity.                                       *)
LEMMA GainsOf ==
  ASSUME NEW r \in Risk
  PROVE  /\ r.pnl \in Int /\ InitialEquity \in Int /\ DOMAIN r.qty = Symbols
         /\ \A s \in Symbols : Gains(r)[s] = Gain(r, s) /\ Gain(r, s) \in Int
  <1>1. /\ r.qty \in [Symbols -> Nat] /\ r.cost \in [Symbols -> Int] /\ r.mark \in [Symbols -> Int]
        /\ r.pnl \in Int
    BY DEF Risk
  <1>2. ASSUME NEW s \in Symbols PROVE Gain(r, s) \in Int
    <2>1. r.qty[s] \in Int /\ r.mark[s] - r.cost[s] \in Int
      BY <1>1
    <2>2. r.qty[s] * (r.mark[s] - r.cost[s]) \in Int
      BY <2>1
    <2> QED  BY <2>2 DEF Gain
  <1>3. InitialEquity \in Int
    BY RiskAssumption
  <1>4. \A s \in Symbols : Gains(r)[s] = Gain(r, s)
    BY <1>1 DEF Gains
  <1> QED  BY <1>1, <1>2, <1>3, <1>4

(* The sum of the first locates, and of one more.                          *)
LEMMA SoFarNext ==
  ASSUME NEW r \in Risk, NEW n \in Symbols
  PROVE  SoFar(r, n) \in Int /\ SoFar(r, n + 1) = SoFar(r, n) + Gain(r, n)
  <1> DEFINE S == 0 .. n - 1
             f == Gains(r)
  <1>1. /\ r.pnl \in Int /\ InitialEquity \in Int
        /\ \A s \in Symbols : f[s] = Gain(r, s) /\ f[s] \in Int
    BY GainsOf
  <1>2. /\ IsFiniteSet(S) /\ S \subseteq Symbols /\ n \notin S /\ n \in Nat
        /\ 0 .. (n + 1) - 1 = S \cup {n}
    <2>1. n \in Nat /\ n \in 0 .. MaxLocate /\ 0 .. n = (0 .. n - 1) \cup {n} /\ n \notin 0 .. n - 1
      BY Locates
    <2>2. (n + 1) - 1 = n
      BY <2>1
    <2> QED  BY <2>1, <2>2, Locates
  <1> HIDE DEF f, S
  <1>3. \A x \in S \cup {n} : f[x] \in Int
    BY <1>1, <1>2
  <1>4. SumFunctionOnSet(f, S) \in Int /\ SumFunctionOnSet(f, S \cup {n}) = f[n] + SumFunctionOnSet(f, S)
    BY <1>2, <1>3, SumInt, SumPut
  <1>5. f[n] \in Int /\ f[n] = Gain(r, n)
    BY <1>1
  <1>6. SoFar(r, n) = InitialEquity + r.pnl + SumFunctionOnSet(f, S)
    BY DEF SoFar, f, S
  <1>7. SoFar(r, n + 1) = InitialEquity + r.pnl + SumFunctionOnSet(f, S \cup {n})
    BY <1>2 DEF SoFar, f
  <1> QED  BY <1>1, <1>4, <1>5, <1>6, <1>7

(* None of the locates, and all.                                           *)
LEMMA SoFarEnds ==
  ASSUME NEW r \in Risk
  PROVE  SoFar(r, 0) = InitialEquity + r.pnl /\ SoFar(r, MaxLocate) = Equity(r) /\ Equity(r) \in Int
  <1> DEFINE f == Gains(r)
  <1>1. /\ r.pnl \in Int /\ InitialEquity \in Int /\ DOMAIN r.qty = Symbols
        /\ \A s \in Symbols : f[s] \in Int
    BY GainsOf
  <1>2. 0 .. 0 - 1 = {}
    OBVIOUS
  <1>3. SoFar(r, 0) = InitialEquity + r.pnl
    BY <1>1, <1>2, SumEmpty DEF SoFar
  <1>4. Equity(r) = InitialEquity + r.pnl + SumFunctionOnSet(f, Symbols)
    BY <1>1 DEF Equity, SumFunction, Gains, Gain
  <1>5. SoFar(r, MaxLocate) = InitialEquity + r.pnl + SumFunctionOnSet(f, Symbols)
    BY DEF SoFar, Symbols
  <1> HIDE DEF f
  <1>6. SumFunctionOnSet(f, Symbols) \in Int
    BY <1>1, Locates, SumInt
  <1> QED  BY <1>1, <1>3, <1>4, <1>5, <1>6

(* A change beyond the first locates does not show in their sum.           *)
LEMMA SoFarSame ==
  ASSUME NEW r \in Risk, NEW q \in Risk, NEW n \in 0 .. MaxLocate, q.pnl = r.pnl,
         \A s \in 0 .. n - 1 : q.qty[s] = r.qty[s] /\ q.mark[s] = r.mark[s] /\ q.cost[s] = r.cost[s]
  PROVE  SoFar(q, n) = SoFar(r, n)
  <1> DEFINE S == 0 .. n - 1
             f == Gains(r)
             g == Gains(q)
  <1>1. IsFiniteSet(S) /\ S \subseteq Symbols
    BY Locates
  <1>2. \A x \in S : g[x] = f[x]
    <2>1. \A x \in S : g[x] = Gain(q, x) /\ f[x] = Gain(r, x)
      BY <1>1, GainsOf
    <2>2. \A x \in S : Gain(q, x) = Gain(r, x)
      BY DEF Gain
    <2> QED  BY <2>1, <2>2
  <1> HIDE DEF f, g
  <1>3. SumFunctionOnSet(g, S) = SumFunctionOnSet(f, S)
    BY <1>1, <1>2, SumSame
  <1> QED  BY <1>3 DEF SoFar, f, g

(* The peak is not part of the equity.                                     *)
LEMMA EquityApart ==
  ASSUME NEW r \in Risk, NEW e \in Int, NEW q, q = [r EXCEPT !.peak = e]
  PROVE  /\ q \in Risk /\ q.peak = e /\ Equity(q) = Equity(r)
         /\ q.qty = r.qty /\ q.cost = r.cost /\ q.mark = r.mark /\ q.pnl = r.pnl
  <1>1. q \in Risk /\ q.peak = e /\ q.qty = r.qty /\ q.cost = r.cost /\ q.mark = r.mark /\ q.pnl = r.pnl
    BY DEF Risk
  <1> QED  BY <1>1 DEF Equity

(* fill_th and the workers.                                                *)
LEMMA MarkThreads ==
  /\ FillTh \in Threads /\ Markers \subseteq Threads /\ FillTh \notin Markers
  /\ \A t \in Threads : t # FillTh => t \in Markers
  BY MarkAssumption DEF Threads

(* A fill's new position and cost.                                         *)
LEMMA FillNumbers ==
  ASSUME NEW r \in Risk, NEW o \in Fills, o.side = "SELL" => o.quantity <= r.qty[o.sym]
  PROVE  NewQty(r, o, o.quantity) \in Nat /\ NewCost(r, o, o.quantity) \in Int
         /\ NewPnl(r, o, o.quantity) \in Int
  <1> DEFINE q == NewQty(r, o, o.quantity)
             k == r.cost[o.sym]
             a == r.qty[o.sym]
  <1>1. /\ k \in Int /\ a \in Nat /\ o.quantity = 1 /\ o.price \in Int /\ o.side \in {"BUY", "SELL"}
        /\ r.pnl \in Int
    <2>1. o.sym \in Symbols /\ o.side \in {"BUY", "SELL"} /\ o.price \in Prices /\ o.quantity = 1
      BY DEF Fills
    <2>2. r.qty \in [Symbols -> Nat] /\ r.cost \in [Symbols -> Int] /\ r.pnl \in Int
      BY DEF Risk
    <2>3. k \in Int /\ a \in Nat
      BY <2>1, <2>2
    <2>4. o.price \in Int
      <3>1. \A x \in Prices : x \in Int
        BY MarkAssumption
      <3> QED  BY <2>1, <3>1
    <2> HIDE DEF k, a
    <2> QED  BY <2>1, <2>2, <2>3, <2>4
  <1>2. q = (IF o.side = "BUY" THEN a + 1 ELSE a - 1) /\ q \in Nat
    BY <1>1 DEF NewQty, Sold
  <1>3. NewCost(r, o, o.quantity) \in Int
    <2>1. k * a + o.price * 1 \in Int
      BY <1>1
    <2>2. CASE q = 0
      <3>1. o.side # "BUY"
        BY <1>1, <1>2, <2>2
      <3> QED  BY <2>2, <3>1 DEF NewCost
    <2>3. CASE q # 0 /\ o.side = "BUY"
      <3>1. NewCost(r, o, o.quantity) = (k * a + o.price * 1) \div q
        BY <1>1, <2>3 DEF NewCost
      <3> HIDE DEF q, a, k
      <3> QED  BY <1>2, <2>1, <2>3, <3>1
    <2>4. CASE q # 0 /\ o.side # "BUY"
      BY <1>1, <2>4 DEF NewCost
    <2> QED  BY <2>2, <2>3, <2>4
  <1>4. NewPnl(r, o, o.quantity) \in Int
    <2>1. Sold(r, o, o.quantity) \in Int /\ o.price - k \in Int
      BY <1>1 DEF Sold
    <2>2. (o.price - k) * Sold(r, o, o.quantity) \in Int
      BY <2>1
    <2> QED  BY <1>1, <2>2 DEF NewPnl
  <1> QED  BY <1>2, <1>3, <1>4

(* The account starts with its initial equity.                             *)
LEMMA InitMark == MarkInit => MarkInv
  <1> SUFFICES ASSUME MarkInit PROVE MarkInv
    OBVIOUS
  <1>1. rm \in Risk /\ rm.peak = InitialEquity /\ InitialEquity \in Int /\ rm.pnl = 0
    BY RiskAssumption DEF MarkInit, Flat, Risk
  <1>2. \A t \in Threads : pc[t] = "idle"
    BY DEF MarkInit
  <1>3. MarkTypes
    <2>1. Reading(0) \in Readings
      BY Locates DEF Reading, Readings
    <2>2. pc \in [Threads -> CallPlaces] /\ read \in [Threads -> Readings]
      BY <2>1 DEF MarkInit, CallPlaces
    <2> QED  BY <1>1, <1>2, <2>2, MarkThreads DEF MarkInit, MarkTypes, FillPlaces, InLoop
  <1>4. Equity(rm) = InitialEquity
    <2> DEFINE f == Gains(rm)
    <2>1. \A s \in Symbols : rm.qty[s] = 0
      BY DEF MarkInit, Flat
    <2>2. \A s \in Symbols : f[s] = 0
      BY <1>1, <2>1, GainsOf DEF Gain
    <2>3. SoFar(rm, MaxLocate) = InitialEquity + 0 + SumFunctionOnSet(f, Symbols)
      BY <1>1 DEF SoFar, Symbols
    <2> HIDE DEF f
    <2>4. SumFunctionOnSet(f, Symbols) = 0
      BY <2>2, Locates, SumZero
    <2> QED  BY <1>1, <2>3, <2>4, SoFarEnds
  <1> QED  BY <1>1, <1>2, <1>3, <1>4, MarkThreads
           DEF MarkInv, CarriedIsReal, SomeoneLooks, MarkInit, InLoop

----------------------------------------------------------------------------
(* What one step of a thread does to the others' places.                   *)
Moved(t, l) ==
  /\ pc'[t] = l /\ \A u \in Threads \ {t} : pc'[u] = pc[u]

(* A step that moves a thread on.                                          *)
LEMMA GotoMoves ==
  ASSUME MarkTypes, NEW t \in Threads, NEW l \in CallPlaces, Goto(t, l)
  PROVE  Moved(t, l) /\ pc' \in [Threads -> CallPlaces]
  BY DEF MarkTypes, Goto, Moved

(* A store marks readings as mixed and leaves them else as they are.       *)
Carried == \A u \in Threads : /\ read'[u] \in Readings
                              /\ read'[u].sum = read[u].sum /\ read'[u].at = read[u].at
                              /\ read'[u].qty = read[u].qty /\ read'[u].mark = read[u].mark
                              /\ read[u].mixed => read'[u].mixed

LEMMA Disturbs ==
  ASSUME MarkTypes, NEW R, Disturb(R)
  PROVE  /\ Carried /\ read' \in [Threads -> Readings]
         /\ \A u \in Threads : ~read'[u].mixed => ~read[u].mixed /\ u \notin R
  <1>1. ASSUME NEW u \in Threads
        PROVE  /\ read'[u] \in Readings
               /\ read'[u].sum = read[u].sum /\ read'[u].at = read[u].at
               /\ read'[u].qty = read[u].qty /\ read'[u].mark = read[u].mark
               /\ read'[u].mixed = (read[u].mixed \/ u \in R)
    <2>1. read[u] \in Readings
      BY DEF MarkTypes
    <2>2. read'[u] = IF u \in R THEN [read[u] EXCEPT !.mixed = TRUE] ELSE read[u]
      BY DEF Disturb
    <2>3. CASE u \in R
      BY <2>1, <2>2, <2>3 DEF Readings
    <2>4. CASE u \notin R
      BY <2>1, <2>2, <2>4 DEF Readings
    <2> QED  BY <2>3, <2>4
  <1>2. read' = [u \in Threads |-> read'[u]]
    BY DEF Disturb
  <1> QED  BY <1>1, <1>2 DEF Carried

(* What a thread has read stays current when the store is ahead of it.     *)
LEMMA StaysCurrent ==
  ASSUME MarkTypes, rm' \in Risk, Carried, NEW u \in Threads, pc[u] \in InLoop, pc'[u] = pc[u],
         Current(u), rm'.pnl = rm.pnl,
         \A s \in 0 .. read[u].at - 1 :
           rm'.qty[s] = rm.qty[s] /\ rm'.mark[s] = rm.mark[s] /\ rm'.cost[s] = rm.cost[s],
         pc[u] \in {"read_mark", "read_cost"} => rm'.qty[read[u].at] = rm.qty[read[u].at],
         pc[u] = "read_cost" => rm'.mark[read[u].at] = rm.mark[read[u].at]
  PROVE  Current(u)'
  <1>1. rm \in Risk /\ read[u].at \in 0 .. MaxLocate
    BY Locates DEF MarkTypes
  <1>2. SoFar(rm', read[u].at) = SoFar(rm, read[u].at)
    BY <1>1, SoFarSame
  <1>3. /\ read'[u].sum = read[u].sum /\ read'[u].at = read[u].at
        /\ read'[u].qty = read[u].qty /\ read'[u].mark = read[u].mark
    BY DEF Carried
  <1>4. SoFar(rm, read[u].at)' = SoFar(rm', read[u].at)
    BY <1>3 DEF SoFar, Gains, Gain
  <1> QED  BY <1>2, <1>3, <1>4 DEF Current

(* A step that stores and after which someone looks at the peak again.     *)
LEMMA StoreKeeps ==
  ASSUME MarkInv, MarkTypes', Carried, NEW t \in Threads, NEW l, Moved(t, l),
         l \in {"read_pnl"} \cup FillPlaces, l \in FillPlaces => t = FillTh,
         torn' = torn, raced' = raced, rm'.peak = rm.peak, high <= high',
         ~MidFill' => Equity(rm)' <= high',
         \A u \in Threads \ {t} : pc[u] \in InLoop /\ ~read'[u].mixed /\ Current(u) => Current(u)'
  PROVE  MarkInv'
  <1>1. MarkTypes /\ CarriedIsReal /\ high \in Int /\ high' \in Int /\ rm.peak \in Int
    BY DEF MarkInv, MarkTypes, Risk
  <1>2. ASSUME NEW u \in Threads, ~read'[u].mixed
        PROVE  /\ pc'[u] \in InLoop => Current(u)'
               /\ pc'[u] \in {"peak", "store"} => read'[u].sum <= high'
    <2>1. CASE u = t
      BY <2>1 DEF Moved, InLoop, FillPlaces
    <2>2. CASE u # t
      <3>1. pc'[u] = pc[u] /\ read'[u].sum = read[u].sum /\ ~read[u].mixed /\ read[u].sum \in Int
        BY <1>1, <1>2, <2>2 DEF Moved, Carried, MarkTypes, Readings
      <3>2. pc[u] \in InLoop => Current(u)'
        BY <1>1, <1>2, <2>2, <3>1 DEF CarriedIsReal
      <3>3. pc[u] \in {"peak", "store"} => read[u].sum <= high'
        BY <1>1, <3>1 DEF CarriedIsReal
      <3> QED  BY <3>1, <3>2, <3>3
    <2> QED  BY <2>1, <2>2
  <1>3. ~torn => rm'.peak <= high'
    BY <1>1 DEF CarriedIsReal
  <1>4. CarriedIsReal'
    BY <1>2, <1>3 DEF CarriedIsReal
  <1>5. SomeoneLooks'
    BY DEF SomeoneLooks, Pending, Moved, FillPlaces
  <1> QED  BY <1>4, <1>5 DEF MarkInv

(* mark() stores.                                                          *)
LEMMA StoredMark ==
  ASSUME MarkInv, NEW w \in Markers, NEW s \in Symbols, NEW p \in Prices, MarkStore(w, s, p)
  PROVE  MarkInv'
  <1>1. /\ MarkTypes /\ CarriedIsReal /\ w \in Threads /\ w # FillTh /\ FillTh \in Threads
        /\ rm \in Risk /\ pc[w] = "idle"
    BY MarkThreads DEF MarkInv, MarkTypes, MarkStore
  <1>2. Moved(w, "read_pnl") /\ pc' \in [Threads -> CallPlaces]
    BY <1>1, GotoMoves DEF MarkStore, CallPlaces
  <1>3. /\ rm' \in Risk /\ rm'.peak = rm.peak /\ rm'.pnl = rm.pnl /\ rm'.qty = rm.qty /\ rm'.cost = rm.cost
        /\ \A x \in Symbols \ {s} : rm'.mark[x] = rm.mark[x]
    <2>1. p \in Int
      BY MarkAssumption
    <2> QED  BY <1>1, <2>1 DEF MarkStore, Risk
  <1>4. Equity(rm) \in Int /\ Equity(rm)' \in Int /\ high \in Int
    BY <1>1, <1>3, SoFarEnds DEF MarkTypes
  <1>5. high' \in Int /\ high <= high' /\ (~MidFill => Equity(rm)' <= high')
    BY <1>4 DEF MarkStore, Higher
  <1>6. pc'[FillTh] = pc[FillTh] /\ MidFill' = MidFill
    BY <1>1, <1>2 DEF Moved, MidFill, MarkStore
  <1>7. /\ Carried /\ read' \in [Threads -> Readings]
        /\ \A u \in Threads : ~read'[u].mixed => u \notin PastRead(s, {"read_cost"})
    BY <1>1, Disturbs DEF MarkStore
  <1>8. MarkTypes'
    <2>1. \A u \in Threads : pc'[u] \in InLoop => read'[u].at \in Symbols
      BY <1>1, <1>2, <1>7 DEF MarkTypes, Moved, Carried, InLoop
    <2>2. \A u \in Markers : pc'[u] \notin FillPlaces
      BY <1>1, <1>2, MarkThreads DEF MarkTypes, Moved, FillPlaces
    <2> QED  BY <1>1, <1>3, <1>2, <1>5, <1>6, <1>7, <2>1, <2>2 DEF MarkTypes, MarkStore
  <1>9. ASSUME NEW u \in Threads \ {w}, pc[u] \in InLoop, ~read'[u].mixed, Current(u) PROVE Current(u)'
    <2>1. read[u].at \in Symbols /\ s \in Nat /\ read[u].at \in Nat /\ u \in Threads
      BY <1>1, <1>9, Locates DEF MarkTypes
    <2>2. ~(read[u].at > s) /\ ~(read[u].at = s /\ pc[u] = "read_cost")
      BY <1>7, <1>9, <2>1 DEF PastRead
    <2>3. \A x \in 0 .. read[u].at - 1 : x \in Symbols \ {s}
      BY <2>1, <2>2, Locates
    <2>4. pc[u] = "read_cost" => read[u].at \in Symbols \ {s}
      BY <2>1, <2>2
    <2> QED  BY <1>1, <1>2, <1>3, <1>7, <1>9, <2>1, <2>3, <2>4, StaysCurrent DEF Moved
  <1> QED  BY <1>1, <1>2, <1>3, <1>5, <1>6, <1>7, <1>8, <1>9, StoreKeeps DEF MarkStore, FillPlaces

(* on_fill() starts: a purchase has not changed the equity yet.            *)
LEMMA StartedFill ==
  ASSUME MarkInv, NEW o \in Fills, FillPnl(o)
  PROVE  MarkInv'
  <1>1. /\ MarkTypes /\ CarriedIsReal /\ FillTh \in Threads /\ rm \in Risk
        /\ o.side = "SELL" => o.quantity <= rm.qty[o.sym]
    BY MarkThreads DEF MarkInv, MarkTypes, FillPnl
  <1>2. Moved(FillTh, "fill_qty") /\ pc' \in [Threads -> CallPlaces]
    BY <1>1, GotoMoves DEF FillPnl, CallPlaces, FillPlaces
  <1>3. /\ filling'.sym = o.sym /\ filling'.side = o.side
        /\ filling'.qty = NewQty(rm, o, o.quantity) /\ filling'.cost = NewCost(rm, o, o.quantity)
        /\ rm' = [rm EXCEPT !.pnl = NewPnl(rm, o, o.quantity)]
        /\ torn' = torn /\ raced' = raced /\ high' = high
    BY DEF FillPnl
  <1>4. /\ filling'.sym \in Symbols /\ filling'.qty \in Nat /\ filling'.cost \in Int
        /\ NewPnl(rm, o, o.quantity) \in Int
    BY <1>1, <1>3, FillNumbers DEF Fills
  <1>5. /\ rm' \in Risk /\ rm'.peak = rm.peak /\ rm'.qty = rm.qty /\ rm'.mark = rm.mark
        /\ rm'.cost = rm.cost
    BY <1>1, <1>3, <1>4 DEF Risk
  <1>6. o.side # "SELL" => rm' = rm
    <2>1. o.side # "SELL" => rm' = [rm EXCEPT !.pnl = rm.pnl]
      BY <1>3 DEF NewPnl
    <2> QED  BY <1>1, <2>1 DEF Risk
  <1>7. /\ Carried /\ read' \in [Threads -> Readings]
        /\ \A u \in Threads : ~read'[u].mixed /\ o.side = "SELL" => u \notin PastRead(0, InLoop)
    BY <1>1, Disturbs DEF FillPnl
  <1>8. MarkTypes'
    <2>1. \A u \in Threads : pc'[u] \in InLoop => read'[u].at \in Symbols
      BY <1>1, <1>2, <1>7 DEF MarkTypes, Moved, Carried, InLoop
    <2>2. \A u \in Markers : pc'[u] \notin FillPlaces
      BY <1>1, <1>2, MarkThreads DEF MarkTypes, Moved
    <2> QED  BY <1>1, <1>2, <1>3, <1>4, <1>5, <1>7, <2>1, <2>2 DEF MarkTypes
  <1>9. ~MidFill' => Equity(rm)' <= high'
    <2>1. ~MidFill
      BY DEF FillPnl, MidFill
    <2>2. ~MidFill' => rm' = rm
      BY <1>1, <1>2, <1>3, <1>6 DEF MidFill, Moved
    <2> QED  BY <1>1, <1>3, <2>1, <2>2 DEF CarriedIsReal
  <1>10. ASSUME NEW u \in Threads \ {FillTh}, pc[u] \in InLoop, ~read'[u].mixed, Current(u)
         PROVE  Current(u)'
    <2>1. read[u].at \in Nat /\ u \in Threads
      BY <1>1, <1>10, Locates DEF MarkTypes
    <2>2. o.side # "SELL"
      BY <1>7, <1>10, <2>1 DEF PastRead
    <2> QED  BY <1>1, <1>2, <1>5, <1>6, <1>7, <1>10, <2>1, <2>2, StaysCurrent DEF Moved
  <1>11. high <= high'
    BY <1>1, <1>3 DEF MarkTypes
  <1> QED  BY <1>1, <1>2, <1>3, <1>5, <1>7, <1>8, <1>9, <1>10, <1>11, StoreKeeps DEF FillPlaces

(* The first store of a fill, the position.                                *)
LEMMA StoredQty ==
  ASSUME MarkInv, FillQty
  PROVE  MarkInv'
  <1> DEFINE s == filling.sym
  <1>1. /\ MarkTypes /\ CarriedIsReal /\ FillTh \in Threads /\ rm \in Risk
        /\ s \in Symbols /\ filling.qty \in Nat /\ filling.cost \in Int
    BY MarkThreads DEF MarkInv, MarkTypes, FillQty, FillPlaces
  <1>2. Moved(FillTh, "fill_cost") /\ pc' \in [Threads -> CallPlaces]
    BY <1>1, GotoMoves DEF FillQty, CallPlaces, FillPlaces
  <1>3. /\ rm' \in Risk /\ rm'.peak = rm.peak /\ rm'.pnl = rm.pnl /\ rm'.mark = rm.mark /\ rm'.cost = rm.cost
        /\ \A x \in Symbols \ {s} : rm'.qty[x] = rm.qty[x]
    BY <1>1 DEF FillQty, Risk
  <1>4. torn' = torn /\ raced' = raced /\ high' = high /\ filling' = filling
    BY DEF FillQty
  <1>5. /\ Carried /\ read' \in [Threads -> Readings]
        /\ \A u \in Threads : ~read'[u].mixed => u \notin PastRead(s, {"read_mark", "read_cost"})
    BY <1>1, Disturbs DEF FillQty
  <1>6. MarkTypes'
    <2>1. \A u \in Threads : pc'[u] \in InLoop => read'[u].at \in Symbols
      BY <1>1, <1>2, <1>5 DEF MarkTypes, Moved, Carried, InLoop
    <2>2. \A u \in Markers : pc'[u] \notin FillPlaces
      BY <1>1, <1>2, MarkThreads DEF MarkTypes, Moved
    <2> QED  BY <1>1, <1>2, <1>3, <1>4, <1>5, <2>1, <2>2 DEF MarkTypes
  <1>7. MidFill'
    BY <1>2 DEF MidFill, Moved
  <1>8. ASSUME NEW u \in Threads \ {FillTh}, pc[u] \in InLoop, ~read'[u].mixed, Current(u)
        PROVE  Current(u)'
    <2>1. read[u].at \in Symbols /\ s \in Nat /\ read[u].at \in Nat /\ u \in Threads
      BY <1>1, <1>8, Locates DEF MarkTypes
    <2>2. ~(read[u].at > s) /\ ~(read[u].at = s /\ pc[u] \in {"read_mark", "read_cost"})
      BY <1>5, <1>8, <2>1 DEF PastRead
    <2>3. \A x \in 0 .. read[u].at - 1 : x \in Symbols \ {s}
      BY <2>1, <2>2, Locates
    <2>4. pc[u] \in {"read_mark", "read_cost"} => read[u].at \in Symbols \ {s}
      BY <2>1, <2>2
    <2> HIDE DEF s
    <2> QED  BY <1>1, <1>2, <1>3, <1>5, <1>8, <2>1, <2>3, <2>4, StaysCurrent DEF Moved
  <1>9. high <= high'
    BY <1>1, <1>4 DEF MarkTypes
  <1> QED  BY <1>1, <1>2, <1>3, <1>4, <1>5, <1>6, <1>7, <1>8, <1>9, StoreKeeps DEF FillPlaces

(* The second store of a fill, the cost.                                   *)
LEMMA StoredCost ==
  ASSUME MarkInv, FillCost
  PROVE  MarkInv'
  <1> DEFINE s == filling.sym
  <1>1. /\ MarkTypes /\ CarriedIsReal /\ FillTh \in Threads /\ rm \in Risk
        /\ s \in Symbols /\ filling.qty \in Nat /\ filling.cost \in Int
    BY MarkThreads DEF MarkInv, MarkTypes, FillCost, FillPlaces
  <1>2. Moved(FillTh, "read_pnl") /\ pc' \in [Threads -> CallPlaces]
    BY <1>1, GotoMoves DEF FillCost, CallPlaces
  <1>3. /\ rm' \in Risk /\ rm'.peak = rm.peak /\ rm'.pnl = rm.pnl /\ rm'.mark = rm.mark /\ rm'.qty = rm.qty
        /\ \A x \in Symbols \ {s} : rm'.cost[x] = rm.cost[x]
        /\ rm'.cost[s] = filling.cost
    BY <1>1 DEF FillCost, Risk
  <1>4. torn' = torn /\ raced' = raced /\ filling' = filling
    BY DEF FillCost
  <1>5. Equity(rm)' \in Int /\ high \in Int
    BY <1>1, <1>3, SoFarEnds DEF MarkTypes
  <1>6. high' \in Int /\ high <= high' /\ Equity(rm)' <= high'
    BY <1>5 DEF FillCost, Higher
  <1>7. /\ Carried /\ read' \in [Threads -> Readings]
        /\ \A u \in Threads : ~read'[u].mixed /\ filling.cost # rm.cost[s] => u \notin PastRead(s, {})
    BY <1>1, Disturbs DEF FillCost
  <1>8. MarkTypes'
    <2>1. \A u \in Threads : pc'[u] \in InLoop => read'[u].at \in Symbols
      BY <1>1, <1>2, <1>7 DEF MarkTypes, Moved, Carried, InLoop
    <2>2. (\A u \in Markers : pc'[u] \notin FillPlaces) /\ pc'[FillTh] \notin FillPlaces
      BY <1>1, <1>2, MarkThreads DEF MarkTypes, Moved, FillPlaces
    <2> QED  BY <1>1, <1>2, <1>3, <1>6, <1>7, <2>1, <2>2 DEF MarkTypes
  <1>9. ASSUME NEW u \in Threads \ {FillTh}, pc[u] \in InLoop, ~read'[u].mixed, Current(u)
        PROVE  Current(u)'
    <2>1. read[u].at \in Symbols /\ s \in Nat /\ read[u].at \in Nat /\ u \in Threads
      BY <1>1, <1>9, Locates DEF MarkTypes
    <2>2. read[u].at > s => filling.cost = rm.cost[s]
      BY <1>7, <1>9, <2>1 DEF PastRead
    <2>3. \A x \in 0 .. read[u].at - 1 : x \in Symbols /\ (x = s => read[u].at > s)
      BY <2>1, Locates
    <2>4. \A x \in 0 .. read[u].at - 1 : rm'.cost[x] = rm.cost[x]
      BY <1>3, <2>2, <2>3
    <2> HIDE DEF s
    <2> QED  BY <1>1, <1>2, <1>3, <1>7, <1>9, <2>1, <2>4, StaysCurrent DEF Moved
  <1> QED  BY <1>1, <1>2, <1>3, <1>4, <1>6, <1>7, <1>8, <1>9, StoreKeeps

----------------------------------------------------------------------------
(* A step of update_equity() that only reads: what it must do for the      *)
(* thread t itself.                                                        *)
LEMMA ReadKeeps ==
  ASSUME MarkInv, ReadOnly, NEW t \in Threads, NEW l \in CallPlaces, Goto(t, l),
         pc[t] \notin FillPlaces, l \notin FillPlaces,
         read' \in [Threads -> Readings], \A u \in Threads \ {t} : read'[u] = read[u],
         l \in InLoop => read'[t].at \in Symbols,
         ~read'[t].mixed => /\ l \in InLoop => Current(t)'
                            /\ l \in {"peak", "store"} => read'[t].sum <= high,
         Pending(t) => Pending(t)' \/ rm.peak >= Equity(rm)
  PROVE  MarkInv'
  <1>1. MarkTypes /\ CarriedIsReal /\ SomeoneLooks /\ FillTh \in Threads
    BY MarkThreads DEF MarkInv
  <1>2. Moved(t, l) /\ pc' \in [Threads -> CallPlaces]
    BY <1>1, GotoMoves
  <1>3. rm' = rm /\ high' = high /\ torn' = torn /\ raced' = raced /\ filling' = filling
    BY DEF ReadOnly
  <1>4. pc'[FillTh] \in FillPlaces <=> pc[FillTh] \in FillPlaces
    BY <1>1, <1>2 DEF Moved
  <1>5. MarkTypes'
    <2>1. \A u \in Threads : pc'[u] \in InLoop => read'[u].at \in Symbols
      BY <1>1, <1>2 DEF MarkTypes, Moved
    <2>2. \A u \in Markers : pc'[u] \notin FillPlaces
      BY <1>1, <1>2, MarkThreads DEF MarkTypes, Moved
    <2> QED  BY <1>1, <1>2, <1>3, <1>4, <2>1, <2>2 DEF MarkTypes
  <1>6. MidFill' <=> MidFill
    <2>1. CASE t = FillTh
      BY <1>1, <1>2, <2>1 DEF MidFill, Moved, FillPlaces
    <2>2. CASE t # FillTh
      BY <1>1, <1>2, <1>3, <2>2 DEF MidFill, Moved
    <2> QED  BY <2>1, <2>2
  <1>7. ASSUME NEW u \in Threads \ {t}
        PROVE  pc'[u] = pc[u] /\ read'[u] = read[u] /\ (Current(u)' <=> Current(u)) /\ (Pending(u)' <=> Pending(u))
    <2>1. pc'[u] = pc[u] /\ read'[u] = read[u]
      BY <1>2 DEF Moved
    <2>2. SoFar(rm, read[u].at)' = SoFar(rm, read[u].at)
      BY <1>3, <2>1 DEF SoFar, Gains, Gain
    <2>3. Current(u)' <=> Current(u)
      BY <1>3, <2>1, <2>2 DEF Current
    <2> QED  BY <1>3, <2>1, <2>3 DEF Pending
  <1>8. CarriedIsReal'
    <2>1. ASSUME NEW u \in Threads, ~read'[u].mixed
          PROVE  /\ pc'[u] \in InLoop => Current(u)'
                 /\ pc'[u] \in {"peak", "store"} => read'[u].sum <= high
      <3>1. CASE u = t
        BY <1>2, <2>1, <3>1 DEF Moved
      <3>2. CASE u # t
        BY <1>1, <1>7, <2>1, <3>2 DEF CarriedIsReal
      <3> QED  BY <3>1, <3>2
    <2> QED  BY <1>1, <1>3, <1>6, <2>1 DEF CarriedIsReal
  <1>9. SomeoneLooks'
    <2>1. ASSUME NEW u \in Threads, Pending(u) PROVE rm.peak >= Equity(rm) \/ \E v \in Threads : Pending(v)'
      BY <1>7, <2>1
    <2> QED  BY <1>1, <1>3, <1>4, <2>1 DEF SomeoneLooks
  <1> QED  BY <1>5, <1>8, <1>9 DEF MarkInv

(* The profit is read.                                                     *)
LEMMA ReadPnl ==
  ASSUME MarkInv, NEW t \in Threads, EquityPnl(t)
  PROVE  MarkInv'
  <1> DEFINE r == Reading(InitialEquity + rm.pnl)
  <1>1. MarkTypes /\ rm \in Risk /\ pc[t] = "read_pnl" /\ rm' = rm
    BY DEF MarkInv, MarkTypes, EquityPnl, ReadOnly
  <1>2. r \in Readings /\ r.at = 0 /\ r.sum = InitialEquity + rm.pnl
    <2>1. InitialEquity + rm.pnl \in Int
      BY <1>1, GainsOf
    <2> QED  BY <2>1, Locates DEF Reading, Readings
  <1> HIDE DEF r
  <1>3. read' = [read EXCEPT ![t] = r] /\ ReadOnly /\ Goto(t, "read_qty")
    BY DEF EquityPnl, r
  <1>4. /\ read' \in [Threads -> Readings] /\ read'[t] = r
        /\ \A u \in Threads \ {t} : read'[u] = read[u]
    BY <1>1, <1>2, <1>3 DEF MarkTypes
  <1>5. pc'[t] = "read_qty"
    BY <1>1, <1>3 DEF Goto, MarkTypes
  <1>6. Current(t)'
    <2>1. SoFar(rm, 0) = InitialEquity + rm.pnl
      BY <1>1, SoFarEnds
    <2>2. SoFar(rm, read[t].at)' = SoFar(rm, 0)
      BY <1>1, <1>2, <1>4 DEF SoFar, Gains, Gain
    <2> QED  BY <1>2, <1>4, <1>5, <2>1, <2>2 DEF Current
  <1>7. Pending(t)'
    BY <1>5, <1>6 DEF Pending, InLoop
  <1>8. read'[t].at \in Symbols
    BY <1>2, <1>4, Locates
  <1>9. "read_qty" \in CallPlaces /\ "read_qty" \notin FillPlaces /\ pc[t] \notin FillPlaces
        /\ "read_qty" \notin {"peak", "store"}
    BY <1>1 DEF CallPlaces, FillPlaces, InLoop
  <1> QED  BY <1>3, <1>4, <1>6, <1>7, <1>8, <1>9, ReadKeeps

(* A position is read.                                                     *)
LEMMA ReadQty ==
  ASSUME MarkInv, NEW t \in Threads, EquityQty(t)
  PROVE  MarkInv'
  <1> DEFINE n == read[t].at
  <1>1. /\ MarkTypes /\ CarriedIsReal /\ rm \in Risk /\ pc[t] = "read_qty" /\ pc[t] \in InLoop
        /\ rm' = rm /\ n \in Symbols /\ read[t] \in Readings
    BY DEF MarkInv, MarkTypes, EquityQty, ReadOnly, InLoop
  <1>2. rm.qty[n] \in Nat
    BY <1>1 DEF Risk
  <1>3. /\ read' \in [Threads -> Readings]
        /\ read'[t].sum = read[t].sum /\ read'[t].at = n /\ read'[t].qty = rm.qty[n]
        /\ read'[t].mixed = read[t].mixed
        /\ \A u \in Threads \ {t} : read'[u] = read[u]
    BY <1>1, <1>2 DEF EquityQty, MarkTypes, Readings
  <1>4. ReadOnly /\ Goto(t, "read_mark") /\ pc'[t] = "read_mark"
    BY <1>1 DEF EquityQty, Goto, MarkTypes
  <1>5. Current(t) => Current(t)'
    <2>1. SoFar(rm, read[t].at)' = SoFar(rm, n)
      BY <1>1, <1>3 DEF SoFar, Gains, Gain
    <2> QED  BY <1>1, <1>3, <1>4, <2>1 DEF Current
  <1>6. Pending(t) => Pending(t)'
    BY <1>1, <1>4, <1>5 DEF Pending, InLoop
  <1>7. ~read'[t].mixed => Current(t)'
    BY <1>1, <1>3, <1>5 DEF CarriedIsReal
  <1>8. "read_mark" \in CallPlaces /\ "read_mark" \notin FillPlaces /\ pc[t] \notin FillPlaces
        /\ "read_mark" \notin {"peak", "store"}
    BY <1>1 DEF CallPlaces, FillPlaces, InLoop
  <1> QED  BY <1>1, <1>3, <1>4, <1>6, <1>7, <1>8, ReadKeeps

(* A locate is done: the sum is one of the locates up to it.               *)
LEMMA LocateDone ==
  ASSUME MarkInv, NEW t \in Threads, pc[t] \in {"read_mark", "read_cost"}, ReadOnly,
         NEW r \in Readings, r.at = read[t].at, r.mixed = read[t].mixed,
         Current(t) => r.sum = SoFar(rm, r.at + 1),
         NextLocate(t, r)
  PROVE  MarkInv'
  <1> DEFINE n == r.at
             last == n + 1 = MaxLocate
             l == IF last THEN "peak" ELSE "read_qty"
  <1>1. /\ MarkTypes /\ CarriedIsReal /\ rm \in Risk /\ pc[t] \in InLoop
        /\ rm' = rm /\ n \in Symbols /\ FillTh \in Threads
    BY MarkThreads DEF MarkInv, MarkTypes, ReadOnly, InLoop
  <1>2. n + 1 \in 0 .. MaxLocate /\ (~last => n + 1 \in Symbols)
    BY <1>1, Locates
  <1>3. /\ read' = [read EXCEPT ![t] = [r EXCEPT !.at = n + 1, !.mixed = r.mixed \/ (last /\ MidFill)]]
        /\ Goto(t, l)
    BY DEF NextLocate
  <1>4. /\ read' \in [Threads -> Readings] /\ read'[t].sum = r.sum /\ read'[t].at = n + 1
        /\ read'[t].mixed = (r.mixed \/ (last /\ MidFill))
        /\ \A u \in Threads \ {t} : read'[u] = read[u]
    <2> DEFINE m == (r.mixed \/ (last /\ MidFill))
               q == [r EXCEPT !.at = n + 1, !.mixed = m]
    <2>1. m \in BOOLEAN
      BY DEF Readings, MidFill
    <2> HIDE DEF m
    <2>2. q \in Readings /\ q.sum = r.sum /\ q.at = n + 1 /\ q.mixed = m
      BY <1>2, <2>1 DEF Readings
    <2> HIDE DEF q
    <2>3. read' = [read EXCEPT ![t] = q]
      BY <1>3 DEF q, m
    <2>4. read' \in [Threads -> Readings] /\ read'[t] = q /\ \A u \in Threads \ {t} : read'[u] = read[u]
      BY <1>1, <2>2, <2>3 DEF MarkTypes
    <2> QED  BY <2>2, <2>4 DEF m
  <1>5. l \in {"peak", "read_qty"} /\ (last => l = "peak") /\ (~last => l = "read_qty")
    OBVIOUS
  <1> HIDE DEF l
  <1>6. pc'[t] = l
    BY <1>1, <1>3 DEF Goto, MarkTypes
  <1>7. SoFar(rm, read[t].at)' = SoFar(rm, n + 1)
    BY <1>1, <1>4 DEF SoFar, Gains, Gain
  <1>8. CASE ~last
    <2>1. l = "read_qty" /\ n + 1 \in Symbols
      BY <1>2, <1>5, <1>8
    <2>2. Current(t) => Current(t)'
      BY <1>4, <1>6, <1>7, <2>1 DEF Current
    <2>3. Pending(t) => Pending(t)'
      BY <1>1, <1>6, <2>1, <2>2 DEF Pending, InLoop
    <2>4. ~read'[t].mixed => Current(t)'
      BY <1>1, <1>4, <2>2 DEF CarriedIsReal
    <2>5. l \in CallPlaces /\ l \notin FillPlaces /\ pc[t] \notin FillPlaces /\ l \notin {"peak", "store"}
      BY <1>1, <2>1 DEF CallPlaces, FillPlaces, InLoop
    <2> QED  BY <1>3, <1>4, <2>1, <2>3, <2>4, <2>5, ReadKeeps
  <1>9. CASE last
    <2>1. l = "peak" /\ SoFar(rm, n + 1) = Equity(rm) /\ Equity(rm) \in Int
      BY <1>1, <1>5, <1>9, SoFarEnds
    <2>2. Current(t) => read'[t].sum = Equity(rm)
      BY <1>4, <2>1
    <2>3. Pending(t) => Pending(t)'
      <3>1. Equity(rm)' = Equity(rm)
        BY <1>1 DEF Equity
      <3> QED  BY <1>1, <1>6, <2>1, <2>2, <3>1 DEF Pending, InLoop
    <2>4. ~read'[t].mixed => read'[t].sum <= high
      BY <1>1, <1>4, <1>9, <2>2 DEF CarriedIsReal
    <2>5. l \in CallPlaces /\ l \notin FillPlaces /\ pc[t] \notin FillPlaces /\ l \notin InLoop
      BY <1>1, <2>1 DEF CallPlaces, FillPlaces, InLoop
    <2> QED  BY <1>3, <1>4, <2>1, <2>3, <2>4, <2>5, ReadKeeps
  <1> QED  BY <1>8, <1>9

(* A mark is read.                                                         *)
LEMMA ReadMark ==
  ASSUME MarkInv, NEW t \in Threads, EquityMark(t)
  PROVE  MarkInv'
  <1> DEFINE n == read[t].at
             k == rm.mark[n]
             r == [read[t] EXCEPT !.mark = k]
  <1>1. /\ MarkTypes /\ CarriedIsReal /\ rm \in Risk /\ pc[t] = "read_mark" /\ pc[t] \in InLoop
        /\ rm' = rm /\ n \in Symbols /\ read[t] \in Readings /\ ReadOnly
    BY DEF MarkInv, MarkTypes, EquityMark, ReadOnly, InLoop
  <1>2. k \in Int /\ rm.qty[n] \in Nat
    BY <1>1 DEF Risk
  <1>3. /\ r \in Readings /\ r.sum = read[t].sum /\ r.at = n /\ r.qty = read[t].qty
        /\ r.mixed = read[t].mixed /\ r.mark = k
    BY <1>1, <1>2 DEF Readings
  <1>4. IF r.qty > 0 /\ r.mark > 0 THEN read' = [read EXCEPT ![t] = r] /\ Goto(t, "read_cost")
                                   ELSE NextLocate(t, r)
    BY DEF EquityMark
  <1> HIDE DEF r
  <1>5. CASE r.qty > 0 /\ r.mark > 0
    <2>1. /\ read' \in [Threads -> Readings] /\ read'[t] = r /\ Goto(t, "read_cost")
          /\ \A u \in Threads \ {t} : read'[u] = read[u]
      BY <1>1, <1>3, <1>4, <1>5 DEF MarkTypes
    <2>2. pc'[t] = "read_cost"
      BY <1>1, <2>1 DEF Goto, MarkTypes
    <2>3. Current(t) => Current(t)'
      <3>1. SoFar(rm, read[t].at)' = SoFar(rm, n)
        BY <1>1, <1>3, <2>1 DEF SoFar, Gains, Gain
      <3> QED  BY <1>1, <1>3, <1>5, <2>1, <2>2, <3>1 DEF Current
    <2>4. Pending(t) => Pending(t)'
      BY <1>1, <2>2, <2>3 DEF Pending, InLoop
    <2>5. ~read'[t].mixed => Current(t)'
      BY <1>1, <1>3, <2>1, <2>3 DEF CarriedIsReal
    <2>6. "read_cost" \in CallPlaces /\ "read_cost" \notin FillPlaces /\ pc[t] \notin FillPlaces
          /\ "read_cost" \notin {"peak", "store"}
      BY <1>1 DEF CallPlaces, FillPlaces, InLoop
    <2>7. read'[t].at \in Symbols
      BY <1>1, <1>3, <2>1
    <2> QED  BY <1>1, <2>1, <2>4, <2>5, <2>6, <2>7, ReadKeeps
  <1>6. CASE ~(r.qty > 0 /\ r.mark > 0)
    <2>1. Current(t) => r.sum = SoFar(rm, r.at + 1)
      <3> SUFFICES ASSUME Current(t) PROVE r.sum = SoFar(rm, n + 1)
        BY <1>3
      <3>1. r.sum = SoFar(rm, n) /\ r.qty = rm.qty[n]
        BY <1>1, <1>3 DEF Current
      <3>2. Gain(rm, n) = 0
        BY <1>3, <1>6, <3>1 DEF Gain
      <3>3. SoFar(rm, n) \in Int /\ SoFar(rm, n + 1) = SoFar(rm, n) + Gain(rm, n)
        BY <1>1, SoFarNext
      <3> QED  BY <3>1, <3>2, <3>3
    <2>2. NextLocate(t, r)
      BY <1>4, <1>6
    <2> QED  BY <1>1, <1>3, <2>1, <2>2, LocateDone
  <1> QED  BY <1>5, <1>6

(* A cost is read.                                                         *)
LEMMA ReadCost ==
  ASSUME MarkInv, NEW t \in Threads, EquityCost(t)
  PROVE  MarkInv'
  <1> DEFINE n == read[t].at
             g == read[t].qty * (read[t].mark - rm.cost[n])
             r == [read[t] EXCEPT !.sum = read[t].sum + g]
  <1>1. /\ MarkTypes /\ CarriedIsReal /\ rm \in Risk /\ pc[t] = "read_cost"
        /\ n \in Symbols /\ read[t] \in Readings /\ ReadOnly
    BY DEF MarkInv, MarkTypes, EquityCost, InLoop
  <1>2. g \in Int
    <2>1. rm.cost[n] \in Int /\ read[t].qty \in Int /\ read[t].mark \in Int
      BY <1>1 DEF Risk, Readings
    <2>2. read[t].mark - rm.cost[n] \in Int
      BY <2>1
    <2> QED  BY <2>1, <2>2
  <1>3. NextLocate(t, r)
    BY DEF EquityCost
  <1>4. Current(t) => g = Gain(rm, n)
    BY <1>1 DEF Current, Gain
  <1> HIDE DEF g
  <1>5. r \in Readings /\ r.sum = read[t].sum + g /\ r.at = n /\ r.mixed = read[t].mixed
    BY <1>1, <1>2 DEF Readings
  <1> HIDE DEF r
  <1>6. Current(t) => r.sum = SoFar(rm, r.at + 1)
    <2>1. SoFar(rm, n + 1) = SoFar(rm, n) + Gain(rm, n)
      BY <1>1, SoFarNext
    <2> QED  BY <1>4, <1>5, <2>1 DEF Current
  <1> QED  BY <1>1, <1>3, <1>5, <1>6, LocateDone

(* update_equity compares what it read with the peak.                      *)
LEMMA TestedPeak ==
  ASSUME MarkInv, NEW t \in Threads, UpdateEquityTest(t)
  PROVE  MarkInv'
  <1> DEFINE l == IF read[t].sum > rm.peak THEN "store" ELSE "idle"
  <1>1. /\ MarkTypes /\ CarriedIsReal /\ rm \in Risk /\ pc[t] = "peak" /\ Goto(t, l)
        /\ ReadOnly /\ rm' = rm /\ read' = read
    BY DEF MarkInv, MarkTypes, UpdateEquityTest, ReadOnly
  <1>2. Equity(rm) \in Int /\ rm.peak \in Int /\ read[t].sum \in Int
    BY <1>1, SoFarEnds DEF Risk, MarkTypes, Readings
  <1>3. l \in {"store", "idle"} /\ (l = "idle" => rm.peak >= read[t].sum)
    BY <1>2
  <1> HIDE DEF l
  <1>4. pc'[t] = l /\ read' \in [Threads -> Readings]
    BY <1>1 DEF Goto, MarkTypes
  <1>5. Pending(t) => Pending(t)' \/ rm.peak >= Equity(rm)
    <2>1. Equity(rm)' = Equity(rm)
      BY <1>1 DEF Equity
    <2> SUFFICES ASSUME Pending(t) PROVE Pending(t)' \/ rm.peak >= Equity(rm)
      OBVIOUS
    <2>2. read[t].sum >= Equity(rm)
      BY <1>1 DEF Pending, InLoop
    <2>3. CASE l = "store"
      BY <1>1, <1>4, <2>1, <2>2, <2>3 DEF Pending
    <2>4. CASE l = "idle"
      BY <1>2, <1>3, <2>2, <2>4
    <2> QED  BY <1>3, <2>3, <2>4
  <1>6. ~read[t].mixed => read[t].sum <= high
    BY <1>1 DEF CarriedIsReal
  <1>7. l \in CallPlaces /\ l \notin FillPlaces /\ pc[t] \notin FillPlaces /\ l \notin InLoop
    BY <1>1, <1>3 DEF CallPlaces, FillPlaces, InLoop
  <1> QED  BY <1>1, <1>4, <1>5, <1>6, <1>7, ReadKeeps

(* update_equity stores what it read as the peak.                          *)
LEMMA StoredPeak ==
  ASSUME MarkInv, NEW t \in Threads, UpdateEquityStore(t)
  PROVE  MarkInv'
  <1>1. /\ MarkTypes /\ CarriedIsReal /\ SomeoneLooks /\ FillTh \in Threads /\ rm \in Risk
        /\ pc[t] = "store" /\ read' = read
    BY MarkThreads DEF MarkInv, MarkTypes, UpdateEquityStore
  <1>2. Moved(t, "idle") /\ pc' \in [Threads -> CallPlaces]
    BY <1>1, GotoMoves DEF UpdateEquityStore, CallPlaces
  <1>3. Equity(rm) \in Int /\ rm.peak \in Int /\ read[t].sum \in Int
    BY <1>1, SoFarEnds DEF Risk, MarkTypes, Readings
  <1>4. filling' = filling /\ high' = high
    BY DEF UpdateEquityStore
  <1>5. /\ rm' \in Risk /\ rm'.peak = read[t].sum /\ Equity(rm)' = Equity(rm)
        /\ rm'.qty = rm.qty /\ rm'.cost = rm.cost /\ rm'.mark = rm.mark /\ rm'.pnl = rm.pnl
    <2>1. rm' = [rm EXCEPT !.peak = read[t].sum]
      BY DEF UpdateEquityStore
    <2> QED  BY <1>1, <1>3, <2>1, EquityApart
  <1>6. MarkTypes'
    <2>1. \A u \in Threads : pc'[u] \in InLoop => read'[u].at \in Symbols
      BY <1>1, <1>2 DEF MarkTypes, Moved, InLoop
    <2>2. /\ \A u \in Markers : pc'[u] \notin FillPlaces
          /\ pc'[FillTh] \in FillPlaces => pc[FillTh] \in FillPlaces
      BY <1>1, <1>2, MarkThreads DEF MarkTypes, Moved, FillPlaces
    <2> QED  BY <1>1, <1>2, <1>4, <1>5, <2>1, <2>2 DEF MarkTypes
  <1>7. MidFill' <=> MidFill
    <2>1. CASE t = FillTh
      BY <1>1, <1>2, <2>1 DEF MidFill, Moved
    <2>2. CASE t # FillTh
      BY <1>1, <1>2, <1>4, <2>2 DEF MidFill, Moved
    <2> QED  BY <2>1, <2>2
  <1>8. ASSUME NEW u \in Threads, pc[u] \in InLoop, Current(u) PROVE Current(u)'
    <2>1. u # t /\ pc'[u] = pc[u]
      BY <1>1, <1>2, <1>8 DEF Moved, InLoop
    <2>2. Carried
      BY <1>1 DEF Carried, MarkTypes
    <2> QED  BY <1>1, <1>5, <1>8, <2>1, <2>2, StaysCurrent
  <1>9. CarriedIsReal'
    <2>1. ~torn' => rm'.peak <= high'
      <3>1. ~torn' => ~read[t].mixed
        BY Zenon DEF UpdateEquityStore
      <3> QED  BY <1>1, <1>4, <1>5, <3>1 DEF CarriedIsReal
    <2>2. ASSUME NEW u \in Threads, ~read[u].mixed
          PROVE  /\ pc'[u] \in InLoop => Current(u)'
                 /\ pc'[u] \in {"peak", "store"} => read[u].sum <= high
      <3>1. CASE u = t
        BY <1>2, <3>1 DEF Moved, InLoop
      <3>2. CASE u # t
        BY <1>1, <1>2, <1>8, <2>2, <3>2 DEF CarriedIsReal, Moved
      <3> QED  BY <3>1, <3>2
    <2> QED  BY <1>1, <1>4, <1>5, <1>7, <2>1, <2>2 DEF CarriedIsReal
  <1>10. SomeoneLooks'
    <2>0. ~raced' => ~raced /\ ~(read[t].sum < rm.peak)
      BY Zenon DEF UpdateEquityStore
    <2> SUFFICES ASSUME ~raced, ~(read[t].sum < rm.peak)
                 PROVE  \/ read[t].sum >= Equity(rm)
                        \/ pc'[FillTh] \in FillPlaces
                        \/ \E u \in Threads : Pending(u)'
      BY <1>5, <2>0 DEF SomeoneLooks
    <2>1. CASE rm.peak >= Equity(rm)
      BY <1>3, <2>1
    <2>2. CASE pc[FillTh] \in FillPlaces
      BY <1>1, <1>2, <2>2 DEF Moved, FillPlaces
    <2>3. ASSUME NEW u \in Threads, Pending(u) PROVE read[t].sum >= Equity(rm) \/ \E v \in Threads : Pending(v)'
      <3>1. CASE u = t
        BY <1>1, <2>3, <3>1 DEF Pending, InLoop
      <3>2. CASE u # t
        <4>1. pc'[u] = pc[u]
          BY <1>2, <3>2 DEF Moved
        <4> QED  BY <1>1, <1>5, <1>8, <2>3, <4>1 DEF Pending
      <3> QED  BY <3>1, <3>2
    <2> QED  BY <1>1, <2>1, <2>2, <2>3 DEF SomeoneLooks
  <1> QED  BY <1>6, <1>9, <1>10 DEF MarkInv

(* Every step keeps the invariant of the peak.                             *)
LEMMA StepMark == MarkInv /\ [MarkNext]_markVars => MarkInv'
  <1> SUFFICES ASSUME MarkInv, [MarkNext]_markVars PROVE MarkInv'
    OBVIOUS
  <1>1. CASE UNCHANGED markVars
    BY <1>1 DEF markVars, MarkInv, MarkTypes, CarriedIsReal, SomeoneLooks, Pending, Current, SoFar, Gains,
                Gain, Equity, MidFill
  <1>2. CASE MarkNext
    BY <1>2, StoredMark, StartedFill, StoredQty, StoredCost, ReadPnl, ReadQty, ReadMark, ReadCost,
       TestedPeak, StoredPeak DEF MarkNext, UpdateEquityStep
  <1> QED  BY <1>1, <1>2

(* What the threads carry to equity_peak_ is real, and someone always      *)
(* still looks when the peak is behind (risk_manager.h, mark, on_fill and  *)
(* update_equity).                                                         *)
THEOREM MarkInvariant == MarkSpec => []MarkInv
  BY InitMark, StepMark, PTL DEF MarkSpec

(* The high-water mark is an equity the account really had, for any number *)
(* of locates read one by one and of workers that mark them while fill_th  *)
(* books fills, unless a stored reading had been changed behind it or had  *)
(* ended within a fill (equity and update_equity).                         *)
THEOREM PeakWasReal == MarkSpec => []PeakWasRealUnlessTorn
  <1>1. MarkInv => PeakWasRealUnlessTorn
    BY DEF MarkInv, CarriedIsReal, PeakWasRealUnlessTorn
  <1> QED  BY <1>1, MarkInvariant, PTL

(* Unless a thread stored over a higher peak, the high-water mark covers   *)
(* the equity once all calls of mark() and on_fill() have returned         *)
(* (equity's loads, update_equity's load, comparison and store).           *)
THEOREM PeakCovers == MarkSpec => []PeakCoversUnlessRaced
  <1>1. MarkInv => PeakCoversUnlessRaced
    BY MarkThreads DEF MarkInv, SomeoneLooks, Pending, PeakCoversUnlessRaced, InLoop, FillPlaces
  <1> QED  BY <1>1, MarkInvariant, PTL

----------------------------------------------------------------------------
(***************************************************************************)
(* Shutdown, with the buffers of IoUringReceiver.                          *)
(***************************************************************************)
Completions == [buf : Int, pkt : Int]

RecvPlaces == {"test", "ready", "wait", "reap", "take", "feed", "exit"}

ReceiverTypes == /\ staged \in Seq(Int) /\ inflight \in Seq(Int)
                 /\ cqes \in Seq(Completions) /\ ready \in Seq(Completions)

RestTypes ==
  /\ sent \in Nat /\ received \in Nat
  /\ net \in Seq(Int) /\ bytes \in Seq(Int)
  /\ recv \in RecvPlaces /\ pkt \in Int /\ retry \in {"run", "exit"}
  /\ ring \in [Workers -> Seq(Int)] /\ bucket \in [Workers -> Seq(Int)]
  /\ worker \in [Workers -> {"run", "empty", "exit"}]

ShutTypes == ReceiverTypes /\ RestTypes

(* The packets recv_th has counted, wherever they are now.                 *)
Held(r, b) == UNION {Range(r[w]) \cup Range(b[w]) : w \in Workers}
Counted == processed \cup Range(bytes) \cup InHand \cup Held(ring, bucket)

(* The packets on their way to recv_th rise, and every one is later than   *)
(* every one it has counted.                                               *)
Rising(cs) == \A i, j \in DOMAIN cs : i < j /\ cs[j].pkt > 0 => cs[i].pkt < cs[j].pkt
Before(cs, ds) == \A i \in DOMAIN cs, j \in DOMAIN ds : ds[j].pkt > 0 => cs[i].pkt < ds[j].pkt
Later(cs, S) == \A j \in DOMAIN cs : cs[j].pkt > 0 => \A x \in S : x < cs[j].pkt
Within(cs, lo, hi) == \A i \in DOMAIN cs : lo <= cs[i].pkt /\ cs[i].pkt <= hi

Delivered == sent - Len(net)

OnTheWay ==
  /\ Len(net) <= sent /\ \A i \in DOMAIN net : net[i] = Delivered + i
  /\ Within(cqes, Failed, Delivered) /\ Within(ready, Empty, Delivered)
  /\ Rising(ready) /\ Rising(cqes) /\ Before(ready, cqes)

CountedOnce ==
  /\ Later(ready, Counted) /\ Later(cqes, Counted)
  /\ Counted \subseteq 1 .. Delivered
  /\ Cardinality(Counted) = received

(* Behind a thread that has left there is nothing for it any more.         *)
BehindExits ==
  /\ parse = "exit" /\ ~lateFeed => bytes = <<>> /\ recv # "feed"
  /\ parse_done => parse = "exit"
  /\ retry = "exit" => parse_done
  /\ \A w \in Workers : worker[w] = "exit" => parse_done
  /\ ~early => /\ retry = "exit" => \A w \in Workers : bucket[w] = <<>>
               /\ \A w \in Workers : worker[w] = "exit" => ring[w] = <<>> /\ bucket[w] = <<>>
  /\ main \in {"stop_fill", "join_fill", "end"} => \A w \in Workers : worker[w] = "exit"

(* With the handshake, main goes on when everything sent was received.     *)
Handshake ==
  /\ sent <= MaxPackets /\ (done => sent = MaxPackets)
  /\ shm /\ main # "wait_done" => done
  /\ shm /\ main \notin {"wait_done", "wait_received"} => received >= sent

(* Every buffer is in one place, once.                                     *)
OnePlace(b, A, B, C, D, E, F, G) ==
  \/ b \in A /\ b \notin B /\ b \notin C /\ b \notin D /\ b \notin E /\ b \notin F /\ b \notin G
  \/ b \notin A /\ b \in B /\ b \notin C /\ b \notin D /\ b \notin E /\ b \notin F /\ b \notin G
  \/ b \notin A /\ b \notin B /\ b \in C /\ b \notin D /\ b \notin E /\ b \notin F /\ b \notin G
  \/ b \notin A /\ b \notin B /\ b \notin C /\ b \in D /\ b \notin E /\ b \notin F /\ b \notin G
  \/ b \notin A /\ b \notin B /\ b \notin C /\ b \notin D /\ b \in E /\ b \notin F /\ b \notin G
  \/ b \notin A /\ b \notin B /\ b \notin C /\ b \notin D /\ b \notin E /\ b \in F /\ b \notin G
  \/ b \notin A /\ b \notin B /\ b \notin C /\ b \notin D /\ b \notin E /\ b \notin F /\ b \in G
BuffersInv ==
  /\ \A b \in Buffers : OnePlace(b, freeBufs, {single}, Range(staged), Range(inflight),
                                 Range(BufsOf(cqes)), Range(BufsOf(ready)), {held})
  /\ IsInjective(staged) /\ IsInjective(inflight)
  /\ IsInjective(BufsOf(cqes)) /\ IsInjective(BufsOf(ready))
  /\ Range(staged) \subseteq Buffers /\ Range(inflight) \subseteq Buffers
  /\ Range(BufsOf(cqes)) \subseteq Buffers /\ Range(BufsOf(ready)) \subseteq Buffers
  /\ main # "free_buffer" => held = NoBuf

(* What the poller's calls do when no other call came between their loads  *)
(* and their stores.                                                       *)
Reaped ==
  /\ ready' = ready \o Good(cqes) /\ freeBufs' = freeBufs \cup FailedBufs(cqes) /\ cqes' = <<>>
  /\ UNCHANGED <<single, staged, inflight, held>>
Retaken ==
  /\ ready # <<>> /\ ready' = Tail(ready) /\ staged' = Append(staged, Head(ready).buf)
  /\ UNCHANGED <<freeBufs, single, inflight, cqes, held>>
Drained ==
  /\ ready # <<>> /\ ready' = Tail(ready) /\ held' = Head(ready).buf
  /\ UNCHANGED <<freeBufs, single, staged, inflight, cqes>>
SingleFreed ==
  /\ freeBufs' = freeBufs \cup {single} /\ single' = NoBuf
  /\ UNCHANGED <<staged, inflight, cqes, ready, held>>
HeldFreed ==
  /\ freeBufs' = freeBufs \cup {held} /\ held' = NoBuf
  /\ UNCHANGED <<single, staged, inflight, cqes, ready>>

----------------------------------------------------------------------------
(* What sequences hold after the steps of a queue, and that they hold it   *)
(* once.                                                                   *)
LEMMA AppendHolds ==
  ASSUME NEW S, NEW q \in Seq(S), NEW x \in S
  PROVE  /\ Range(Append(q, x)) = Range(q) \cup {x}
         /\ IsInjective(q) /\ x \notin Range(q) => IsInjective(Append(q, x))
  <1> DEFINE r == Append(q, x)
             n == Len(q)
  <1>1. /\ n \in Nat /\ DOMAIN q = 1 .. n /\ DOMAIN r = 1 .. n + 1
        /\ r[n + 1] = x /\ \A i \in 1 .. n : r[i] = q[i]
    OBVIOUS
  <1> HIDE DEF r, n
  <1>2. \A i \in 1 .. n + 1 : i \in 1 .. n \/ i = n + 1
    BY <1>1
  <1>3. 1 .. n \subseteq 1 .. n + 1 /\ n + 1 \in 1 .. n + 1
    BY <1>1
  <1>4. Range(r) = Range(q) \cup {x}
    <2>1. ASSUME NEW y \in Range(r) PROVE y \in Range(q) \cup {x}
      BY <1>1, <1>2 DEF Range
    <2>2. ASSUME NEW y \in Range(q) PROVE y \in Range(r)
      BY <1>1, <1>3 DEF Range
    <2>3. x \in Range(r)
      BY <1>1, <1>3 DEF Range
    <2> QED  BY <2>1, <2>2, <2>3
  <1>5. ASSUME IsInjective(q), x \notin Range(q) PROVE IsInjective(r)
    <2> SUFFICES ASSUME NEW i \in 1 .. n + 1, NEW j \in 1 .. n + 1, r[i] = r[j] PROVE i = j
      BY <1>1 DEF IsInjective
    <2>1. \A k \in 1 .. n : q[k] # x
      BY <1>1, <1>5 DEF Range
    <2> QED  BY <1>1, <1>2, <1>5, <2>1 DEF IsInjective
  <1> QED  BY <1>4, <1>5 DEF r

(* What is in a queue without its first element.                           *)
LEMMA TailHolds ==
  ASSUME NEW S, NEW q \in Seq(S), q # <<>>
  PROVE  /\ Head(q) \in Range(q) /\ Range(q) = Range(Tail(q)) \cup {Head(q)}
         /\ IsInjective(q) => Head(q) \notin Range(Tail(q)) /\ IsInjective(Tail(q))
  <1> DEFINE r == Tail(q)
             n == Len(q)
             h == Head(q)
  <1>1. /\ n \in Nat \ {0} /\ DOMAIN q = 1 .. n /\ DOMAIN r = 1 .. n - 1
        /\ h = q[1] /\ \A i \in 1 .. n - 1 : r[i] = q[i + 1]
    OBVIOUS
  <1> HIDE DEF r, n, h
  <1>2. \A i \in 1 .. n - 1 : i + 1 \in 1 .. n
    BY <1>1
  <1>3. \A i \in 1 .. n : i # 1 => i - 1 \in 1 .. n - 1 /\ r[i - 1] = q[i]
    BY <1>1
  <1>4. h \in Range(q)
    <2>1. 1 \in 1 .. n
      BY <1>1
    <2> QED  BY <1>1, <2>1 DEF Range
  <1>5. Range(q) = Range(r) \cup {h}
    <2>1. ASSUME NEW y \in Range(r) PROVE y \in Range(q)
      BY <1>1, <1>2 DEF Range
    <2>2. ASSUME NEW y \in Range(q) PROVE y \in Range(r) \cup {h}
      <3>1. PICK i \in 1 .. n : y = q[i]
        BY <1>1 DEF Range
      <3> QED  BY <1>1, <1>3, <3>1 DEF Range
    <2> QED  BY <1>4, <2>1, <2>2
  <1>6. ASSUME IsInjective(q) PROVE h \notin Range(r) /\ IsInjective(r)
    <2>1. \A i, j \in 1 .. n : q[i] = q[j] => i = j
      BY <1>1, <1>6 DEF IsInjective
    <2>2. ASSUME NEW i \in 1 .. n - 1 PROVE r[i] # h
      <3>1. i + 1 \in 1 .. n /\ 1 \in 1 .. n /\ i + 1 # 1 /\ r[i] = q[i + 1]
        BY <1>1, <1>2
      <3> QED  BY <1>1, <2>1, <3>1
    <2>3. ASSUME NEW i \in 1 .. n - 1, NEW j \in 1 .. n - 1, r[i] = r[j] PROVE i = j
      <3>1. i + 1 \in 1 .. n /\ j + 1 \in 1 .. n /\ q[i + 1] = q[j + 1]
        BY <1>1, <1>2, <2>3
      <3>2. i + 1 = j + 1
        BY <2>1, <3>1
      <3> QED  BY <3>2
    <2> QED  BY <1>1, <2>2, <2>3 DEF Range, IsInjective
  <1> QED  BY <1>4, <1>5, <1>6 DEF r, h

(* What is in two queues put together.                                     *)
LEMMA ConcatHolds ==
  ASSUME NEW S, NEW q \in Seq(S), NEW r \in Seq(S)
  PROVE  /\ Range(q \o r) = Range(q) \cup Range(r)
         /\ IsInjective(q) /\ IsInjective(r) /\ Range(q) \cap Range(r) = {}
              => IsInjective(q \o r)
  <1> DEFINE t == q \o r
             n == Len(q)
             m == Len(r)
  <1>1. /\ n \in Nat /\ m \in Nat /\ DOMAIN q = 1 .. n /\ DOMAIN r = 1 .. m /\ DOMAIN t = 1 .. n + m
        /\ \A i \in 1 .. n + m : t[i] = IF i <= n THEN q[i] ELSE r[i - n]
    OBVIOUS
  <1> HIDE DEF t, n, m
  <1>2. \A i \in 1 .. n : i \in 1 .. n + m /\ t[i] = q[i]
    BY <1>1
  <1>3. \A i \in 1 .. m : i + n \in 1 .. n + m /\ t[i + n] = r[i]
    <2> SUFFICES ASSUME NEW i \in 1 .. m PROVE i + n \in 1 .. n + m /\ t[i + n] = r[i]
      OBVIOUS
    <2>1. i + n \in 1 .. n + m /\ ~(i + n <= n) /\ (i + n) - n = i
      BY <1>1
    <2> QED  BY <1>1, <2>1
  <1>4. \A i \in 1 .. n + m : (i \in 1 .. n /\ t[i] = q[i]) \/ (i - n \in 1 .. m /\ t[i] = r[i - n])
    BY <1>1
  <1>5. Range(t) = Range(q) \cup Range(r)
    <2>1. ASSUME NEW y \in Range(t) PROVE y \in Range(q) \cup Range(r)
      <3>1. PICK i \in 1 .. n + m : y = t[i]
        BY <1>1 DEF Range
      <3>2. CASE i \in 1 .. n /\ t[i] = q[i]
        BY <1>1, <3>1, <3>2 DEF Range
      <3>3. CASE i - n \in 1 .. m /\ t[i] = r[i - n]
        BY <1>1, <3>1, <3>3 DEF Range
      <3> QED  BY <1>4, <3>2, <3>3
    <2>2. ASSUME NEW y \in Range(q) PROVE y \in Range(t)
      BY <1>1, <1>2 DEF Range
    <2>3. ASSUME NEW y \in Range(r) PROVE y \in Range(t)
      BY <1>1, <1>3 DEF Range
    <2> QED  BY <2>1, <2>2, <2>3
  <1>6. ASSUME IsInjective(q), IsInjective(r), Range(q) \cap Range(r) = {} PROVE IsInjective(t)
    <2> SUFFICES ASSUME NEW i \in 1 .. n + m, NEW j \in 1 .. n + m, t[i] = t[j] PROVE i = j
      BY <1>1 DEF IsInjective
    <2>1. \A k \in 1 .. n, l \in 1 .. m : q[k] # r[l]
      BY <1>1, <1>6 DEF Range
    <2>2. CASE i \in 1 .. n /\ t[i] = q[i]
      BY <1>1, <1>4, <1>6, <2>1, <2>2 DEF IsInjective
    <2>3. CASE i - n \in 1 .. m /\ t[i] = r[i - n]
      <3>1. j - n \in 1 .. m /\ t[j] = r[j - n]
        BY <1>4, <2>1, <2>3
      <3>2. i - n = j - n
        BY <1>1, <1>6, <2>3, <3>1 DEF IsInjective
      <3> QED  BY <1>1, <3>2
    <2> QED  BY <1>4, <2>2, <2>3
  <1> QED  BY <1>5, <1>6 DEF t

(* BufsOf commutes with them.                                              *)
LEMMA BufsOfSeq ==
  ASSUME NEW cs \in Seq(Completions)
  PROVE  /\ BufsOf(cs) \in Seq(Int) /\ Len(BufsOf(cs)) = Len(cs)
         /\ \A i \in 1 .. Len(cs) : BufsOf(cs)[i] = cs[i].buf
  <1>1. Len(cs) \in Nat /\ DOMAIN cs = 1 .. Len(cs) /\ \A i \in 1 .. Len(cs) : cs[i] \in Completions
    OBVIOUS
  <1>2. \A i \in 1 .. Len(cs) : cs[i].buf \in Int
    BY <1>1 DEF Completions
  <1>3. BufsOf(cs) = [i \in 1 .. Len(cs) |-> cs[i].buf]
    BY <1>1 DEF BufsOf
  <1> QED  BY <1>1, <1>2, <1>3

(* The buffers of a queue with one completion more.                        *)
LEMMA BufsOfAppend ==
  ASSUME NEW cs \in Seq(Completions), NEW c \in Completions
  PROVE  BufsOf(Append(cs, c)) = Append(BufsOf(cs), c.buf)
  <1>1. c.buf \in Int
    BY DEF Completions
  <1>2. Append(cs, c) \in Seq(Completions) /\ Len(Append(cs, c)) = Len(cs) + 1 /\ Len(cs) \in Nat
    OBVIOUS
  <1> DEFINE p == BufsOf(Append(cs, c))
             q == Append(BufsOf(cs), c.buf)
  <1>3. /\ p \in Seq(Int) /\ Len(p) = Len(cs) + 1
        /\ \A i \in 1 .. Len(cs) + 1 : p[i] = Append(cs, c)[i].buf
    BY <1>2, BufsOfSeq
  <1>4. /\ q \in Seq(Int) /\ Len(q) = Len(cs) + 1 /\ q[Len(cs) + 1] = c.buf
        /\ \A i \in 1 .. Len(cs) : q[i] = cs[i].buf
    BY <1>1, BufsOfSeq
  <1>5. \A i \in 1 .. Len(cs) + 1 : Append(cs, c)[i] = IF i = Len(cs) + 1 THEN c ELSE cs[i]
    OBVIOUS
  <1> HIDE DEF p, q
  <1>6. \A i \in 1 .. Len(p) : p[i] = q[i]
    <2> SUFFICES ASSUME NEW i \in 1 .. Len(cs) + 1 PROVE p[i] = q[i]
      BY <1>3
    <2>1. i = Len(cs) + 1 \/ i \in 1 .. Len(cs)
      BY <1>2
    <2> QED  BY <1>2, <1>3, <1>4, <1>5, <2>1
  <1>7. p = q
    BY <1>3, <1>4, <1>6, SeqEqual
  <1> QED  BY <1>7 DEF p, q

(* The buffers of a queue without its first completion.                    *)
LEMMA BufsOfTail ==
  ASSUME NEW cs \in Seq(Completions), cs # <<>>
  PROVE  /\ BufsOf(Tail(cs)) = Tail(BufsOf(cs)) /\ Head(BufsOf(cs)) = Head(cs).buf
         /\ BufsOf(cs) # <<>>
  <1>1. Tail(cs) \in Seq(Completions) /\ Len(Tail(cs)) = Len(cs) - 1 /\ Len(cs) \in Nat \ {0}
        /\ Head(cs) = cs[1] /\ \A i \in 1 .. Len(cs) - 1 : Tail(cs)[i] = cs[i + 1]
    OBVIOUS
  <1> DEFINE p == BufsOf(Tail(cs))
             b == BufsOf(cs)
             q == Tail(b)
  <1>2. /\ p \in Seq(Int) /\ Len(p) = Len(cs) - 1
        /\ \A i \in 1 .. Len(cs) - 1 : p[i] = Tail(cs)[i].buf
    BY <1>1, BufsOfSeq
  <1>3. b \in Seq(Int) /\ Len(b) = Len(cs) /\ \A i \in 1 .. Len(cs) : b[i] = cs[i].buf
    BY BufsOfSeq
  <1> HIDE DEF b
  <1>4. b # <<>> /\ Head(b) = b[1] /\ 1 \in 1 .. Len(cs)
    BY <1>1, <1>3
  <1>5. q \in Seq(Int) /\ Len(q) = Len(cs) - 1 /\ \A i \in 1 .. Len(cs) - 1 : q[i] = b[i + 1]
    BY <1>1, <1>3, <1>4
  <1> HIDE DEF p, q
  <1>6. \A i \in 1 .. Len(p) : p[i] = q[i]
    <2> SUFFICES ASSUME NEW i \in 1 .. Len(cs) - 1 PROVE p[i] = q[i]
      BY <1>2
    <2>1. i + 1 \in 1 .. Len(cs)
      BY <1>1
    <2> QED  BY <1>1, <1>2, <1>3, <1>5, <2>1
  <1>7. p = q
    BY <1>2, <1>5, <1>6, SeqEqual
  <1> QED  BY <1>1, <1>3, <1>4, <1>7 DEF p, q, b

(* The buffers of two queues put together.                                 *)
LEMMA BufsOfConcat ==
  ASSUME NEW cs \in Seq(Completions), NEW ds \in Seq(Completions)
  PROVE  BufsOf(cs \o ds) = BufsOf(cs) \o BufsOf(ds)
  <1> DEFINE n == Len(cs)
             m == Len(ds)
             p == BufsOf(cs \o ds)
             bc == BufsOf(cs)
             bd == BufsOf(ds)
             q == bc \o bd
  <1>1. /\ n \in Nat /\ m \in Nat /\ cs \o ds \in Seq(Completions) /\ Len(cs \o ds) = n + m
        /\ \A i \in 1 .. n + m : (cs \o ds)[i] = IF i <= n THEN cs[i] ELSE ds[i - n]
    OBVIOUS
  <1>2. p \in Seq(Int) /\ Len(p) = n + m /\ \A i \in 1 .. n + m : p[i] = (cs \o ds)[i].buf
    BY <1>1, BufsOfSeq
  <1>3. /\ bc \in Seq(Int) /\ Len(bc) = n /\ \A i \in 1 .. n : bc[i] = cs[i].buf
        /\ bd \in Seq(Int) /\ Len(bd) = m /\ \A i \in 1 .. m : bd[i] = ds[i].buf
    BY BufsOfSeq
  <1> HIDE DEF bc, bd
  <1>4. /\ q \in Seq(Int) /\ Len(q) = n + m
        /\ \A i \in 1 .. n + m : q[i] = IF i <= n THEN bc[i] ELSE bd[i - n]
    <2>1. bc \in Seq(Int) /\ bd \in Seq(Int)
      BY <1>3
    <2>2. /\ bc \o bd \in Seq(Int) /\ Len(bc \o bd) = Len(bc) + Len(bd)
          /\ \A i \in 1 .. Len(bc) + Len(bd) : (bc \o bd)[i] = IF i <= Len(bc) THEN bc[i] ELSE bd[i - Len(bc)]
      BY <2>1, ConcatProperties
    <2> QED  BY <1>3, <2>2
  <1> HIDE DEF p, q, n, m
  <1>5. \A i \in 1 .. Len(p) : p[i] = q[i]
    <2> SUFFICES ASSUME NEW i \in 1 .. n + m PROVE p[i] = q[i]
      BY <1>2
    <2>1. CASE i <= n
      <3>1. i \in 1 .. n
        BY <1>1, <2>1
      <3>2. (cs \o ds)[i] = cs[i] /\ q[i] = bc[i]
        BY <1>1, <1>4, <2>1
      <3>3. p[i] = (cs \o ds)[i].buf /\ bc[i] = cs[i].buf
        BY <1>2, <1>3, <3>1
      <3> QED  BY ONLY <3>2, <3>3
    <2>2. CASE ~(i <= n)
      <3>1. i - n \in 1 .. m
        BY <1>1, <2>2
      <3>2. (cs \o ds)[i] = ds[i - n] /\ q[i] = bd[i - n]
        BY <1>1, <1>4, <2>2
      <3>3. p[i] = (cs \o ds)[i].buf /\ bd[i - n] = ds[i - n].buf
        BY <1>2, <1>3, <3>1
      <3> QED  BY ONLY <3>2, <3>3
    <2> QED  BY <2>1, <2>2
  <1>6. p = q
    BY <1>2, <1>4, <1>5, SeqEqual
  <1> QED  BY <1>6 DEF p, q, bc, bd

----------------------------------------------------------------------------
(* g is what upTo holds for the first n of cs, at the positions pos.       *)
Picked(cs, n, g, pos) ==
  /\ g \in Seq(Completions) /\ pos \in [1 .. Len(g) -> 1 .. n]
  /\ \A i, j \in 1 .. Len(g) : i < j => pos[i] < pos[j]
  /\ \A i \in 1 .. Len(g) : g[i] = cs[pos[i]]
  /\ \A k \in 1 .. n : cs[k].pkt # Failed <=> \E i \in 1 .. Len(g) : pos[i] = k

UpTo(f, cs, n) ==
  f = [i \in 0 .. n |-> IF i = 0 THEN <<>>
                        ELSE IF cs[i].pkt = Failed THEN f[i - 1] ELSE Append(f[i - 1], cs[i])]

(* The recursion of Good has a solution.                                   *)
LEMMA UpToExists ==
  ASSUME NEW cs, NEW n \in Nat
  PROVE  \E f : UpTo(f, cs, n)
  <1> DEFINE T == {k \in Nat : \E f : UpTo(f, cs, k)}
  <1>1. 0 \in T
    <2>1. UpTo([i \in 0 .. 0 |-> <<>>], cs, 0)
      BY DEF UpTo
    <2> QED  BY <2>1
  <1>2. \A k \in Nat : k \in T => k + 1 \in T
    <2> SUFFICES ASSUME NEW k \in Nat, NEW f, UpTo(f, cs, k) PROVE \E g : UpTo(g, cs, k + 1)
      OBVIOUS
    <2> DEFINE V(h, i) == IF i = 0 THEN <<>>
                          ELSE IF cs[i].pkt = Failed THEN h[i - 1] ELSE Append(h[i - 1], cs[i])
               g == [i \in 0 .. k + 1 |-> V(f, i)]
    <2>1. f = [i \in 0 .. k |-> V(f, i)]
      BY DEF UpTo
    <2> HIDE DEF V
    <2>2. \A i \in 0 .. k : g[i] = f[i]
      BY <2>1
    <2>3. ASSUME NEW i \in 0 .. k + 1 PROVE V(f, i) = V(g, i)
      <3>1. CASE i = 0
        BY <3>1 DEF V
      <3>2. CASE i # 0
        <4>1. i - 1 \in 0 .. k
          BY <3>2
        <4>2. g[i - 1] = f[i - 1]
          BY <2>2, <4>1
        <4> HIDE DEF g
        <4> QED  BY <4>2 DEF V
      <3> QED  BY <3>1, <3>2
    <2>4. g = [i \in 0 .. k + 1 |-> V(g, i)]
      <3>1. g = [i \in 0 .. k + 1 |-> V(f, i)]
        OBVIOUS
      <3> HIDE DEF g
      <3> QED  BY <2>3, <3>1
    <2> HIDE DEF g
    <2>5. UpTo(g, cs, k + 1)
      BY <2>4 DEF UpTo, V
    <2> QED  BY <2>5
  <1> HIDE DEF T
  <1>3. n \in T
    BY <1>1, <1>2, SetInduction
  <1> QED  BY <1>3 DEF T

(* Good picks the successful completions in their order.                   *)
LEMMA GoodPicked ==
  ASSUME NEW cs \in Seq(Completions)
  PROVE  \E pos : Picked(cs, Len(cs), Good(cs), pos)
  <1> DEFINE f == CHOOSE f : UpTo(f, cs, Len(cs))
  <1>1. Good(cs) = f[Len(cs)]
    BY Zenon DEF Good, UpTo
  <1>2. UpTo(f, cs, Len(cs))
    BY UpToExists
  <1> HIDE DEF f
  <1>3. /\ f[0] = <<>>
        /\ \A i \in 1 .. Len(cs) : f[i] = IF cs[i].pkt = Failed THEN f[i - 1] ELSE Append(f[i - 1], cs[i])
    <2> DEFINE V(i) == IF i = 0 THEN <<>>
                       ELSE IF cs[i].pkt = Failed THEN f[i - 1] ELSE Append(f[i - 1], cs[i])
    <2>1. f = [i \in 0 .. Len(cs) |-> V(i)]
      BY <1>2 DEF UpTo
    <2>2. Len(cs) \in Nat
      OBVIOUS
    <2> HIDE DEF V
    <2>3. \A i \in 0 .. Len(cs) : f[i] = V(i)
      BY <2>1
    <2>4. f[0] = V(0) /\ \A i \in 1 .. Len(cs) : f[i] = V(i) /\ i # 0
      BY <2>2, <2>3
    <2> QED  BY <2>4 DEF V
  <1> DEFINE T == {n \in Nat : n <= Len(cs) => \E pos : Picked(cs, n, f[n], pos)}
  <1>4. 0 \in T
    <2> DEFINE z == [i \in 1 .. 0 |-> 1]
    <2>1. Picked(cs, 0, <<>>, z)
      <3>1. <<>> \in Seq(Completions) /\ Len(<<>>) = 0 /\ \A i \in 1 .. 0 : FALSE
        OBVIOUS
      <3>2. z \in [1 .. 0 -> 1 .. 0]
        BY <3>1
      <3> QED  BY <3>1, <3>2 DEF Picked
    <2> HIDE DEF z
    <2> QED  BY <1>3, <2>1
  <1>5. \A n \in Nat : n \in T => n + 1 \in T
    <2> SUFFICES ASSUME NEW n \in Nat, n \in T, n + 1 <= Len(cs)
                 PROVE  \E p : Picked(cs, n + 1, f[n + 1], p)
      <3> DEFINE G(m) == \E p : Picked(cs, m, f[m], p)
      <3>1. \A m : m \in T <=> m \in Nat /\ (m <= Len(cs) => G(m))
        OBVIOUS
      <3> SUFFICES ASSUME NEW n \in Nat, n \in T PROVE n + 1 \in T
        OBVIOUS
      <3>2. n + 1 <= Len(cs) => G(n + 1)
        OBVIOUS
      <3> HIDE DEF G, T
      <3> QED  BY <3>1, <3>2
    <2>0. n <= Len(cs) /\ Len(cs) \in Nat
      OBVIOUS
    <2>p. PICK pos : Picked(cs, n, f[n], pos)
      BY <2>0
    <2> DEFINE g == f[n]
               c == cs[n + 1]
    <2>1. n + 1 \in 1 .. Len(cs) /\ (n + 1) - 1 = n /\ c \in Completions
      OBVIOUS
    <2>2. /\ g \in Seq(Completions) /\ pos \in [1 .. Len(g) -> 1 .. n]
          /\ \A i, j \in 1 .. Len(g) : i < j => pos[i] < pos[j]
          /\ \A i \in 1 .. Len(g) : g[i] = cs[pos[i]]
          /\ \A k \in 1 .. n : cs[k].pkt # Failed <=> \E i \in 1 .. Len(g) : pos[i] = k
      BY <2>p DEF Picked
    <2>3. f[n + 1] = IF c.pkt = Failed THEN g ELSE Append(g, c)
      BY <1>3, <2>1
    <2> HIDE DEF g
    <2>4. CASE c.pkt = Failed
      <3>1. pos \in [1 .. Len(g) -> 1 .. n + 1] /\ Len(g) \in Nat
        BY <2>2
      <3>2. \A k \in 1 .. n + 1 : cs[k].pkt # Failed <=> \E i \in 1 .. Len(g) : pos[i] = k
        <4> SUFFICES ASSUME NEW k \in 1 .. n + 1
                     PROVE  cs[k].pkt # Failed <=> \E i \in 1 .. Len(g) : pos[i] = k
          OBVIOUS
        <4>1. CASE k = n + 1
          BY <2>2, <2>4, <4>1
        <4>2. CASE k # n + 1
          <5>1. k \in 1 .. n
            BY <4>2
          <5> QED  BY <2>2, <5>1
        <4> QED  BY <4>1, <4>2
      <3>3. Picked(cs, n + 1, g, pos)
        BY <2>2, <3>1, <3>2 DEF Picked
      <3> QED  BY <2>3, <2>4, <3>3
    <2>5. CASE c.pkt # Failed
      <3> DEFINE m == Len(g)
                 h == Append(g, c)
                 p == [i \in 1 .. m + 1 |-> IF i = m + 1 THEN n + 1 ELSE pos[i]]
      <3>1. m \in Nat /\ h \in Seq(Completions) /\ Len(h) = m + 1 /\ h[m + 1] = c
            /\ \A i \in 1 .. m : h[i] = g[i]
        BY <2>1, <2>2
      <3>2. \A i \in 1 .. m : p[i] = pos[i] /\ pos[i] \in 1 .. n
        BY <2>2, <3>1
      <3>3. p[m + 1] = n + 1
        BY <3>1
      <3>4. p \in [1 .. m + 1 -> 1 .. n + 1]
        BY <2>2, <3>1
      <3> HIDE DEF p, h, m
      <3>5. \A i, j \in 1 .. m + 1 : i < j => p[i] < p[j]
        <4> SUFFICES ASSUME NEW i \in 1 .. m + 1, NEW j \in 1 .. m + 1, i < j PROVE p[i] < p[j]
          OBVIOUS
        <4>1. i \in 1 .. m
          BY <3>1
        <4>2. CASE j = m + 1
          BY <3>2, <3>3, <4>1, <4>2
        <4>3. CASE j # m + 1
          <5>1. j \in 1 .. m
            BY <3>1, <4>3
          <5> QED  BY <2>2, <3>2, <4>1, <5>1 DEF m
        <4> QED  BY <4>2, <4>3
      <3>6. \A i \in 1 .. m + 1 : h[i] = cs[p[i]]
        <4> SUFFICES ASSUME NEW i \in 1 .. m + 1 PROVE h[i] = cs[p[i]]
          OBVIOUS
        <4>1. CASE i = m + 1
          BY <3>1, <3>3, <4>1
        <4>2. CASE i # m + 1
          <5>1. i \in 1 .. m
            BY <3>1, <4>2
          <5> QED  BY <2>2, <3>1, <3>2, <5>1 DEF m
        <4> QED  BY <4>1, <4>2
      <3>7. \A k \in 1 .. n + 1 : cs[k].pkt # Failed <=> \E i \in 1 .. m + 1 : p[i] = k
        <4> SUFFICES ASSUME NEW k \in 1 .. n + 1
                     PROVE  cs[k].pkt # Failed <=> \E i \in 1 .. m + 1 : p[i] = k
          OBVIOUS
        <4>1. CASE k = n + 1
          BY <2>5, <3>1, <3>3, <4>1
        <4>2. CASE k # n + 1
          <5>1. k \in 1 .. n
            BY <4>2
          <5>2. cs[k].pkt # Failed <=> \E i \in 1 .. m : pos[i] = k
            BY <2>2, <5>1 DEF m
          <5>3. (\E i \in 1 .. m : pos[i] = k) <=> (\E i \in 1 .. m : p[i] = k)
            BY <3>2
          <5>4. (\E i \in 1 .. m + 1 : p[i] = k) <=> (\E i \in 1 .. m : p[i] = k)
            BY <3>1, <3>3, <4>2
          <5> QED  BY <5>2, <5>3, <5>4
        <4> QED  BY <4>1, <4>2
      <3>8. Picked(cs, n + 1, h, p)
        BY <3>1, <3>4, <3>5, <3>6, <3>7 DEF Picked
      <3> QED  BY <2>3, <2>5, <3>8 DEF h
    <2> QED  BY <2>4, <2>5
  <1>6. Len(cs) \in T
    <2>1. Len(cs) \in Nat
      OBVIOUS
    <2> HIDE DEF T
    <2> QED  BY <1>4, <1>5, <2>1, SetInduction
  <1> QED  BY <1>1, <1>6

(* What reap_more makes of the completions: those that stay are from the   *)
(* completions, in their order; the buffers of the others are apart.       *)

(* What is picked: completions that succeeded, in order, with their own    *)
(* buffers.                                                                *)
LEMMA GoodFacts ==
  ASSUME NEW cs \in Seq(Completions)
  PROVE  /\ Good(cs) \in Seq(Completions)
         /\ \A i \in DOMAIN Good(cs) : /\ Good(cs)[i].pkt # Failed
                                      /\ \E k \in DOMAIN cs : Good(cs)[i] = cs[k]
         /\ Rising(cs) => Rising(Good(cs))
         /\ Range(BufsOf(cs)) = Range(BufsOf(Good(cs))) \cup FailedBufs(cs)
         /\ IsInjective(BufsOf(cs)) => /\ IsInjective(BufsOf(Good(cs)))
                                       /\ Range(BufsOf(Good(cs))) \cap FailedBufs(cs) = {}
  <1> DEFINE g == Good(cs)
             n == Len(cs)
             m == Len(g)
             bg == BufsOf(g)
             bc == BufsOf(cs)
  <1>1. PICK pos : Picked(cs, n, g, pos)
    BY GoodPicked
  <1> HIDE DEF g
  <1>2. /\ g \in Seq(Completions) /\ pos \in [1 .. m -> 1 .. n]
        /\ \A i, j \in 1 .. m : i < j => pos[i] < pos[j]
        /\ \A i \in 1 .. m : g[i] = cs[pos[i]]
        /\ \A k \in 1 .. n : cs[k].pkt # Failed <=> \E i \in 1 .. m : pos[i] = k
    BY <1>1 DEF Picked
  <1>3. /\ n \in Nat /\ m \in Nat /\ DOMAIN cs = 1 .. n /\ DOMAIN g = 1 .. m
        /\ \A i \in 1 .. n : cs[i] \in Completions
    BY <1>2
  <1>4. /\ DOMAIN bg = 1 .. m /\ DOMAIN bc = 1 .. n
        /\ \A i \in 1 .. m : bg[i] = cs[pos[i]].buf
        /\ \A k \in 1 .. n : bc[k] = cs[k].buf
    <2>1. bg \in Seq(Int) /\ Len(bg) = m /\ \A i \in 1 .. m : bg[i] = g[i].buf
      BY <1>2, BufsOfSeq
    <2>2. bc \in Seq(Int) /\ Len(bc) = n /\ \A i \in 1 .. n : bc[i] = cs[i].buf
      BY BufsOfSeq
    <2> HIDE DEF bg, bc, m, n
    <2>3. DOMAIN bg = 1 .. m /\ DOMAIN bc = 1 .. n
      BY <2>1, <2>2
    <2>4. ASSUME NEW i \in 1 .. m PROVE bg[i] = cs[pos[i]].buf
      <3>1. bg[i] = g[i].buf /\ g[i] = cs[pos[i]]
        BY <1>2, <2>1
      <3> QED  BY <3>1
    <2> QED  BY <2>2, <2>3, <2>4
  <1> HIDE DEF n, m, bg, bc
  <1>5. \A i \in 1 .. m : pos[i] \in 1 .. n /\ cs[pos[i]].pkt # Failed
    BY <1>2
  <1>6. \A i \in DOMAIN g : g[i].pkt # Failed /\ \E k \in DOMAIN cs : g[i] = cs[k]
    BY <1>2, <1>3, <1>5
  <1>7. ASSUME Rising(cs) PROVE Rising(g)
    <2> SUFFICES ASSUME NEW i \in 1 .. m, NEW j \in 1 .. m, i < j, g[j].pkt > 0
                 PROVE  g[i].pkt < g[j].pkt
      BY <1>3 DEF Rising
    <2>1. pos[i] < pos[j] /\ pos[i] \in DOMAIN cs /\ pos[j] \in DOMAIN cs
      BY <1>2, <1>3, <1>5
    <2>2. g[i] = cs[pos[i]] /\ g[j] = cs[pos[j]]
      BY <1>2
    <2> QED  BY <1>7, <2>1, <2>2 DEF Rising
  <1>8. Range(bc) = Range(bg) \cup FailedBufs(cs)
    <2>1. ASSUME NEW b \in Range(bc) PROVE b \in Range(bg) \cup FailedBufs(cs)
      <3>1. PICK k \in 1 .. n : b = cs[k].buf
        BY <1>4 DEF Range
      <3>2. CASE cs[k].pkt = Failed
        BY <1>3, <3>1, <3>2 DEF FailedBufs
      <3>3. CASE cs[k].pkt # Failed
        <4>1. PICK i \in 1 .. m : pos[i] = k
          BY <1>2, <3>3
        <4> QED  BY <1>4, <3>1, <4>1 DEF Range
      <3> QED  BY <3>2, <3>3
    <2>2. ASSUME NEW b \in Range(bg) PROVE b \in Range(bc)
      BY <1>4, <1>5 DEF Range
    <2>3. ASSUME NEW b \in FailedBufs(cs) PROVE b \in Range(bc)
      BY <1>3, <1>4 DEF Range, FailedBufs
    <2> QED  BY <2>1, <2>2, <2>3
  <1>9. ASSUME IsInjective(bc) PROVE IsInjective(bg) /\ Range(bg) \cap FailedBufs(cs) = {}
    <2>1. \A k, l \in 1 .. n : cs[k].buf = cs[l].buf => k = l
      BY <1>4, <1>9 DEF IsInjective
    <2>2. ASSUME NEW i \in 1 .. m, NEW j \in 1 .. m, bg[i] = bg[j] PROVE i = j
      <3>1. pos[i] = pos[j] /\ pos[i] \in 1 .. n
        BY <1>4, <1>5, <2>1, <2>2
      <3>2. ~(i < j) /\ ~(j < i)
        BY <1>2, <3>1
      <3> QED  BY <1>3, <3>2
    <2>3. ASSUME NEW b \in Range(bg), b \in FailedBufs(cs) PROVE FALSE
      <3>1. PICK i \in 1 .. m : b = cs[pos[i]].buf
        BY <1>4 DEF Range
      <3>2. PICK k \in 1 .. n : cs[k].pkt = Failed /\ b = cs[k].buf
        BY <1>3, <2>3 DEF FailedBufs
      <3> QED  BY <1>5, <2>1, <3>1, <3>2
    <2> QED  BY <1>4, <2>2, <2>3 DEF IsInjective
  <1> QED  BY <1>2, <1>6, <1>7, <1>8, <1>9 DEF g, bg, bc

----------------------------------------------------------------------------
(* Types.  Most steps leave the sequences alone.                           *)
LEMMA OwnerIsWorker == ASSUME NEW p \in Int PROVE OwnerOf(p) \in Workers
  BY ShutdownAssumption DEF OwnerOf, Workers

(* Adding to a queue and taking from it.                                   *)
LEMMA HeadTailTypes ==
  ASSUME NEW S, NEW q \in Seq(S)
  PROVE  /\ \A x \in S : Append(q, x) \in Seq(S)
         /\ q # <<>> => Head(q) \in S /\ Tail(q) \in Seq(S)
  OBVIOUS

(* Once two calls have overlapped, the history says so for good.           *)
LEMMA ClashedStays == [Next]_vars /\ ~clashed' => ~clashed
  <1> SUFFICES ASSUME [Next]_vars, clashed PROVE clashed'
    OBVIOUS
  <1>1. CASE ClientSend \/ ClientDone \/ Arrive \/ Fault \/ FillExit \/ Parse \/ UNCHANGED vars
    BY <1>1 DEF ClientSend, ClientDone, Arrive, Fault, KernelFault, KernelRecv, FillExit, Parse, ParseTest,
                ParseMessage, ParseEmpty, vars, receiverVars
  <1>2. CASE Retry \/ \E w \in Workers : Worker(w)
    BY <1>2 DEF Retry, RetryMove, RetryLook, RetryAllEmpty, Worker, WorkerProcess, WorkerEmpty, WorkerLeave,
                receiverVars
  <1>3. CASE Recv
    BY <1>3 DEF Recv, RecvTest, RecvReady, RecvWake, RecvReap, RecvTake, RecvFeed, receiverVars,
                LoadReady, LoadBoth, LoadOnly, SubmitStaged, ReapMore, TakeAndResubmit, Overlaps
  <1>4. CASE Main
    BY <1>4 DEF Main, MainWaitDone, MainWaitReceived, MainIdle, MainStop, MainStopReceiver, MainFreeSingle,
                MainReadyEmpty, MainReady, MainTake, MainFree, MainJoinRecv, MainJoinParse, MainJoinRetry,
                MainJoinWorkers, MainStopFill, MainJoinFill, MainWaits, receiverVars, LoadReady, LoadOnly,
                StopReceiver, FreeSingle, DrainTake, DrainFree, FreeBuffer, Overlaps
  <1> QED  BY <1>1, <1>2, <1>3, <1>4 DEF Next

(* A store that found what was loaded.                                     *)
LEMMA CleanReap ==
  ASSUME ReceiverTypes, ReapMore, ~clashed'
  PROVE  Reaped
  <1>1. seen["recv_th"].ready = ready /\ seen["recv_th"].free = freeBufs
    <2>1. seen["recv_th"] = Loaded(ready, freeBufs)
      BY Zenon DEF ReapMore, Overlaps
    <2> QED  BY <2>1 DEF Loaded
  <1>2. ready \o <<>> = ready
    BY DEF ReceiverTypes
  <1>3. ready' = ready \o Good(cqes)
    BY <1>1, <1>2 DEF ReapMore, AppendGood, Queues
  <1>4. freeBufs' = freeBufs \cup FailedBufs(cqes)
    BY <1>1 DEF ReapMore, Stacks
  <1> QED  BY <1>3, <1>4 DEF ReapMore, Reaped

LEMMA CleanTake ==
  ASSUME ReceiverTypes, NEW t \in Callers, NEW c, TakeReady(t, c), seen[t].ready = ready, c # NoEntry
  PROVE  ready # <<>> /\ c = Head(ready) /\ ready' = Tail(ready)
  <1>1. PICK x \in Slots(t) :
          IF ready = <<>> THEN c = NoEntry /\ ready' = ready
          ELSE c = Head(ready) /\ ready' = Left(ready, Len(ready) - 1, x)
    <2>1. \A q \in Queues(t) : q = ready
      BY DEF Queues
    <2> QED  BY <2>1 DEF TakeReady
  <1>2. ready # <<>> /\ c = Head(ready) /\ ready' = Left(ready, Len(ready) - 1, x)
    BY <1>1
  <1>3. Left(ready, Len(ready) - 1, x) = Tail(ready)
    <2> DEFINE l == Left(ready, Len(ready) - 1, x)
               n == Len(ready)
    <2>1. ready \in Seq(Completions) /\ n \in Nat \ {0}
      BY <1>2 DEF ReceiverTypes
    <2>2. /\ Tail(ready) \in Seq(Completions) /\ Len(Tail(ready)) = n - 1
          /\ \A i \in 1 .. n - 1 : Tail(ready)[i] = ready[i + 1]
      BY <1>2, <2>1, HeadTailProperties
    <2>3. \A i \in 1 .. n - 1 : i < n /\ i + 1 \in 1 .. n /\ ready[i + 1] \in Completions
      BY <2>1
    <2>4. DOMAIN l = 1 .. n - 1 /\ \A i \in 1 .. n - 1 : l[i] = ready[i + 1]
      BY <2>3 DEF Left
    <2>5. l \in [1 .. n - 1 -> Completions]
      BY <2>3 DEF Left
    <2>6. n - 1 \in Nat
      BY <2>1
    <2> HIDE DEF l, n
    <2>7. l \in Seq(Completions) /\ Len(l) = n - 1
      BY <2>4, <2>5, <2>6
    <2> QED  BY <2>2, <2>4, <2>7, SeqEqual DEF l, n
  <1> QED  BY <1>2, <1>3

LEMMA CleanRetake ==
  ASSUME ReceiverTypes, NEW c, TakeAndResubmit(c), ~clashed'
  PROVE  Retaken /\ c = Head(ready)
  <1>1. seen["recv_th"].ready = ready /\ c # NoEntry /\ TakeReady("recv_th", c)
    BY DEF TakeAndResubmit, Overlaps
  <1>2. ready # <<>> /\ c = Head(ready) /\ ready' = Tail(ready)
    BY <1>1, CleanTake DEF Callers
  <1> QED  BY <1>2 DEF TakeAndResubmit, Retaken

LEMMA CleanDrain ==
  ASSUME ReceiverTypes, NEW c, DrainTake(c), ~clashed'
  PROVE  Drained
  <1>1. seen["main"].ready = ready /\ c # NoEntry /\ TakeReady("main", c)
    BY DEF DrainTake, Overlaps
  <1>2. ready # <<>> /\ c = Head(ready) /\ ready' = Tail(ready)
    BY <1>1, CleanTake DEF Callers
  <1> QED  BY <1>2 DEF DrainTake, Drained

LEMMA CleanFree ==
  ASSUME ~clashed'
  PROVE  (FreeSingle => SingleFreed) /\ (DrainFree => HeldFreed)
  BY DEF FreeSingle, DrainFree, FreeBuffer, Overlaps, Stacks, SingleFreed, HeldFreed

(* The types at the start.                                                 *)
LEMMA InitTypes == Init => ShutTypes
  <1> SUFFICES ASSUME Init PROVE ShutTypes
    OBVIOUS
  <1> USE ReceiverAssumption DEF Init, ReceiverInit
  <1>1. inflight \in Seq(Int)
    <2>1. MaxBuffers - 1 \in Nat /\ \A i \in 1 .. MaxBuffers - 1 : i + 1 \in Int
      OBVIOUS
    <2>2. Submitted \in [1 .. MaxBuffers - 1 -> Int]
      BY <2>1 DEF Submitted
    <2> QED  BY <2>1, <2>2
  <1>2. ring \in [Workers -> Seq(Int)] /\ bucket \in [Workers -> Seq(Int)]
    OBVIOUS
  <1>3. worker \in [Workers -> {"run", "empty", "exit"}]
    OBVIOUS
  <1> QED  BY <1>1, <1>2, <1>3 DEF ShutTypes, ReceiverTypes, RestTypes, RecvPlaces

(* The kernel completes a read.                                            *)
LEMMA KernelTypes ==
  ASSUME ReceiverTypes, NEW p \in Int, KernelRecv(p)
  PROVE  ReceiverTypes'
  <1>1. Head(inflight) \in Int /\ Tail(inflight) \in Seq(Int)
    BY HeadTailTypes DEF ReceiverTypes, KernelRecv
  <1>2. Completion(Head(inflight), p) \in Completions
    BY <1>1 DEF Completion, Completions
  <1> HIDE DEF Completion
  <1>3. Append(cqes, Completion(Head(inflight), p)) \in Seq(Completions)
    BY <1>2, HeadTailTypes DEF ReceiverTypes
  <1> QED  BY <1>1, <1>3 DEF ReceiverTypes, KernelRecv

(* The poller collects the completions.                                    *)
LEMMA ReapTypes ==
  ASSUME ReceiverTypes, Reaped
  PROVE  ReceiverTypes'
  <1>1. Good(cqes) \in Seq(Completions)
    BY GoodFacts DEF ReceiverTypes
  <1>2. ready \o Good(cqes) \in Seq(Completions) /\ <<>> \in Seq(Completions)
    BY <1>1, ConcatProperties DEF ReceiverTypes
  <1> QED  BY <1>2 DEF ReceiverTypes, Reaped

(* recv_th takes a packet and prepares another read.                       *)
LEMMA TakeTypes ==
  ASSUME ReceiverTypes, Retaken
  PROVE  ReceiverTypes' /\ Head(ready).pkt \in Int
  <1>1. Head(ready) \in Completions /\ Tail(ready) \in Seq(Completions)
    BY HeadTailTypes DEF ReceiverTypes, Retaken
  <1>2. Head(ready).buf \in Int /\ Head(ready).pkt \in Int
    BY <1>1 DEF Completions
  <1>3. Append(staged, Head(ready).buf) \in Seq(Int)
    BY <1>2, HeadTailTypes DEF ReceiverTypes
  <1> QED  BY <1>1, <1>2, <1>3 DEF ReceiverTypes, Retaken

(* stop empties the ready queue.                                           *)
LEMMA DrainTypes ==
  ASSUME ReceiverTypes, Drained
  PROVE  ReceiverTypes'
  <1>1. Tail(ready) \in Seq(Completions)
    BY HeadTailTypes DEF ReceiverTypes, Drained
  <1> QED  BY <1>1 DEF ReceiverTypes, Drained

(* A packet goes to a ring or a bucket.                                    *)
LEMMA DispatchTypes ==
  ASSUME ring \in [Workers -> Seq(Int)], bucket \in [Workers -> Seq(Int)],
         NEW p \in Int, NEW w \in Workers, Dispatch(p, w)
  PROVE  ring' \in [Workers -> Seq(Int)] /\ bucket' \in [Workers -> Seq(Int)]
  <1>1. Append(ring[w], p) \in Seq(Int) /\ Append(bucket[w], p) \in Seq(Int)
    BY HeadTailTypes
  <1> QED  BY <1>1 DEF Dispatch

(* Every step keeps the types.                                             *)
LEMMA StepTypes == ShutTypes /\ [Next]_vars /\ ~clashed' => ShutTypes'
  <1> SUFFICES ASSUME ShutTypes, [Next]_vars, ~clashed' PROVE ReceiverTypes' /\ RestTypes'
    BY DEF ShutTypes
  <1>t. ReceiverTypes /\ RestTypes
    BY DEF ShutTypes
  <1> DEFINE SameR == UNCHANGED <<staged, inflight, cqes, ready>>
             SameN == UNCHANGED <<sent, received, net>>
             SameV == UNCHANGED <<recv, pkt>>
             SameQ == UNCHANGED <<bytes, ring, bucket>>
             SameT == UNCHANGED <<retry, worker>>
             Ints == [Workers -> Seq(Int)]
  <1>r. ASSUME SameR PROVE ReceiverTypes'
    BY <1>t, <1>r DEF ReceiverTypes
  <1>1. CASE ClientSend
    <2>1. net' \in Seq(Int) /\ sent' \in Nat
      BY <1>t, <1>1 DEF ClientSend, RestTypes
    <2>2. SameR /\ received' = received /\ SameV /\ SameQ /\ SameT
      BY <1>1 DEF ClientSend, receiverVars, recvVars, queues, retryVars
    <2> QED  BY <1>t, <1>r, <2>1, <2>2 DEF RestTypes
  <1>2. CASE ClientDone
    <2>1. SameR /\ SameN /\ SameV /\ SameQ /\ SameT
      BY <1>2 DEF ClientDone, receiverVars, recvVars, queues, retryVars
    <2> QED  BY <1>t, <1>r, <2>1 DEF RestTypes
  <1>3. CASE Arrive
    <2>1. Head(net) \in Int /\ net' \in Seq(Int)
      BY <1>t, <1>3, HeadTailTypes DEF Arrive, RestTypes
    <2>2. ReceiverTypes'
      BY <1>t, <1>3, <2>1, KernelTypes DEF Arrive
    <2>3. sent' = sent /\ received' = received /\ SameV /\ SameQ /\ SameT
      BY <1>3 DEF Arrive, recvVars, queues, retryVars
    <2> QED  BY <1>t, <2>1, <2>2, <2>3 DEF RestTypes
  <1>4. CASE Fault
    <2>1. PICK p \in Int : KernelRecv(p)
      BY <1>4 DEF Fault, KernelFault, Empty, Failed
    <2>2. ReceiverTypes'
      BY <1>t, <2>1, KernelTypes
    <2>3. SameN /\ SameV /\ SameQ /\ SameT
      BY <1>4 DEF Fault, flow, recvVars, queues, retryVars
    <2> QED  BY <1>t, <2>2, <2>3 DEF RestTypes
  <1>5. CASE RecvTest
    <2>1. recv' \in RecvPlaces
      BY <1>5 DEF RecvTest, RecvPlaces
    <2>2. SameR /\ SameN /\ pkt' = pkt /\ SameQ /\ SameT
      BY <1>5 DEF RecvTest, RecvOnly, receiverVars, queues, retryVars
    <2> QED  BY <1>t, <1>r, <2>1, <2>2 DEF RestTypes
  <1>6. CASE RecvReady \/ RecvWake
    <2>1. ASSUME SubmitStaged PROVE ReceiverTypes'
      <3>1. inflight \o staged \in Seq(Int) /\ <<>> \in Seq(Int)
        BY <1>t, ConcatProperties DEF ReceiverTypes
      <3> QED  BY <1>t, <2>1, <3>1 DEF ReceiverTypes, SubmitStaged
    <2>4. ASSUME ~SubmitStaged PROVE ReceiverTypes'
      <3>1. SameR
        BY <1>6, <2>4 DEF RecvReady, RecvWake, LoadReady, LoadBoth, LoadOnly, receiverVars
      <3> QED  BY <1>r, <3>1
    <2>2. SameN /\ pkt' = pkt /\ SameQ /\ SameT
      BY <1>6 DEF RecvReady, RecvWake, RecvOnly, queues, retryVars
    <2>3. recv' \in RecvPlaces
      BY <1>6 DEF RecvReady, RecvWake, RecvPlaces
    <2> QED  BY <1>t, <2>1, <2>2, <2>3, <2>4 DEF RestTypes
  <1>7. CASE RecvReap
    <2>1. ReceiverTypes'
      BY <1>t, <1>7, CleanReap, ReapTypes DEF RecvReap
    <2>2. SameN /\ pkt' = pkt /\ SameQ /\ SameT
      BY <1>7 DEF RecvReap, RecvOnly, queues, retryVars
    <2>3. recv' \in {"exit", "ready"}
      BY <1>7 DEF RecvReap
    <2> QED  BY <1>t, <2>1, <2>2, <2>3 DEF RestTypes, RecvPlaces
  <1>8. CASE RecvTake
    <2>1. PICK c : TakeAndResubmit(c) /\ (c.pkt # Empty => pkt' = c.pkt /\ received' = received + 1)
                                     /\ (c.pkt = Empty => UNCHANGED <<received, pkt>>)
      BY <1>8 DEF RecvTake
    <2>2. ReceiverTypes' /\ c.pkt \in Int
      BY <1>t, <2>1, CleanRetake, TakeTypes
    <2>3. sent' = sent /\ net' = net /\ SameQ /\ SameT
      BY <1>8 DEF RecvTake, RecvOnly, queues, retryVars
    <2>4. recv' \in RecvPlaces
      BY <1>8 DEF RecvTake, RecvPlaces
    <2>5. pkt' \in Int /\ received' \in Nat
      BY <1>t, <2>1, <2>2 DEF RestTypes
    <2> QED  BY <1>t, <2>2, <2>3, <2>4, <2>5 DEF RestTypes
  <1>9. CASE RecvFeed
    <2>1. bytes' \in Seq(Int) /\ recv' \in RecvPlaces
      BY <1>t, <1>9, HeadTailTypes DEF RecvFeed, RestTypes, RecvPlaces
    <2>2. SameR /\ SameN /\ pkt' = pkt /\ ring' = ring /\ bucket' = bucket /\ SameT
      BY <1>9 DEF RecvFeed, RecvOnly, receiverVars, queues, retryVars
    <2> QED  BY <1>t, <1>r, <2>1, <2>2 DEF RestTypes
  <1>10. CASE ParseTest \/ ParseEmpty
    <2>1. SameR /\ SameN /\ SameV /\ SameQ /\ SameT
      BY <1>10 DEF ParseTest, ParseEmpty, receiverVars, flow, recvVars, queues, retryVars
    <2> QED  BY <1>t, <1>r, <2>1 DEF RestTypes
  <1>11. CASE ParseMessage
    <2>1. Head(bytes) \in Int /\ bytes' \in Seq(Int)
      BY <1>t, <1>11, HeadTailTypes DEF ParseMessage, RestTypes
    <2>2. ring' \in Ints /\ bucket' \in Ints
      BY <1>t, <1>11, <2>1, OwnerIsWorker, DispatchTypes DEF ParseMessage, RestTypes
    <2>3. SameR /\ SameN /\ SameV /\ SameT
      BY <1>11 DEF ParseMessage, receiverVars, flow, recvVars, retryVars
    <2> QED  BY <1>t, <1>r, <2>1, <2>2, <2>3 DEF RestTypes
  <1>12. ASSUME NEW w \in Workers, RetryMove(w) PROVE ReceiverTypes' /\ RestTypes'
    <2>1. Head(bucket[w]) \in Int /\ Tail(bucket[w]) \in Seq(Int)
      BY <1>t, <1>12, HeadTailTypes DEF RetryMove, RestTypes
    <2>2. Append(ring[w], Head(bucket[w])) \in Seq(Int)
      BY <1>t, <2>1, HeadTailTypes DEF RestTypes
    <2>3. ring' \in Ints /\ bucket' \in Ints
      BY <1>t, <1>12, <2>1, <2>2 DEF RetryMove, RestTypes
    <2>4. SameR /\ SameN /\ SameV /\ bytes' = bytes /\ SameT
      BY <1>12 DEF RetryMove, receiverVars, flow, recvVars, retryVars
    <2> QED  BY <1>t, <1>r, <2>3, <2>4 DEF RestTypes
  <1>13. CASE RetryLook \/ RetryAllEmpty
    <2>1. SameR /\ SameN /\ SameV /\ SameQ /\ worker' = worker /\ retry' \in {retry, "run", "exit"}
      BY <1>13 DEF RetryLook, RetryAllEmpty, receiverVars, flow, recvVars, queues
    <2> QED  BY <1>t, <1>r, <2>1 DEF RestTypes
  <1>14. ASSUME NEW w \in Workers, WorkerProcess(w) PROVE ReceiverTypes' /\ RestTypes'
    <2>1. Tail(ring[w]) \in Seq(Int)
      BY <1>t, <1>14, HeadTailTypes DEF WorkerProcess, RestTypes
    <2>2. ring' \in Ints
      BY <1>t, <1>14, <2>1 DEF WorkerProcess, RestTypes
    <2>3. SameR /\ SameN /\ SameV /\ bytes' = bytes /\ bucket' = bucket /\ SameT
      BY <1>14 DEF WorkerProcess, receiverVars, flow, recvVars, retryVars
    <2> QED  BY <1>t, <1>r, <2>2, <2>3 DEF RestTypes
  <1>15. ASSUME NEW w \in Workers, WorkerEmpty(w) \/ WorkerLeave(w) PROVE ReceiverTypes' /\ RestTypes'
    <2>1. worker' \in [Workers -> {"run", "empty", "exit"}]
      BY <1>t, <1>15 DEF WorkerEmpty, WorkerLeave, RestTypes
    <2>2. SameR /\ SameN /\ SameV /\ SameQ /\ retry' = retry
      BY <1>15 DEF WorkerEmpty, WorkerLeave, receiverVars, flow, recvVars, queues, retryVars
    <2> QED  BY <1>t, <1>r, <2>1, <2>2 DEF RestTypes
  <1>16. CASE FillExit
    <2>1. SameR /\ SameN /\ SameV /\ SameQ /\ SameT
      BY <1>16 DEF FillExit, receiverVars, flow, recvVars, queues, retryVars
    <2> QED  BY <1>t, <1>r, <2>1 DEF RestTypes
  <1>17. CASE Main
    <2>1. SameN /\ SameV /\ SameQ /\ SameT
      BY <1>17 DEF Main, MainWaitDone, MainWaitReceived, MainIdle, MainStop, MainStopReceiver,
                   MainFreeSingle, MainReadyEmpty, MainReady, MainTake, MainFree, MainJoinRecv, MainJoinParse, MainJoinRetry,
                   MainJoinWorkers, MainStopFill, MainJoinFill, MainWaits, MainOnly, flow,
                   recvVars, queues, retryVars
    <2>2. MainTake \/ SameR
      BY <1>17 DEF Main, MainWaitDone, MainWaitReceived, MainIdle, MainStop, MainStopReceiver,
                   MainFreeSingle, MainReadyEmpty, MainReady, MainFree, MainJoinRecv, MainJoinParse,
                   MainJoinRetry, MainJoinWorkers, MainStopFill, MainJoinFill, MainWaits, StopReceiver,
                   FreeSingle, DrainFree, FreeBuffer, LoadReady, LoadOnly, receiverVars
    <2>3. MainTake => ReceiverTypes'
      BY <1>t, CleanDrain, DrainTypes DEF MainTake
    <2> QED  BY <1>t, <1>r, <2>1, <2>2, <2>3 DEF RestTypes
  <1>18. CASE UNCHANGED vars
    <2>1. SameR /\ SameN /\ SameV /\ SameQ /\ SameT
      BY <1>18 DEF vars, receiverVars, flow, recvVars, queues, retryVars
    <2> QED  BY <1>t, <1>r, <2>1 DEF RestTypes
  <1> QED  BY <1>1, <1>2, <1>3, <1>4, <1>5, <1>6, <1>7, <1>8, <1>9, <1>10, <1>11, <1>12, <1>13,
              <1>14, <1>15, <1>16, <1>17, <1>18 DEF Next, Recv, Parse, Retry, Worker

----------------------------------------------------------------------------
(* The buffers.  Every step of the receiver moves one buffer, or all of a  *)
(* queue, from one place to another.                                       *)
LEMMA InitBuffers == Init => BuffersInv
  <1> SUFFICES ASSUME Init PROVE BuffersInv
    OBVIOUS
  <1> USE ReceiverAssumption DEF Init, ReceiverInit
  <1>1. /\ Range(staged) = {} /\ Range(BufsOf(cqes)) = {} /\ Range(BufsOf(ready)) = {}
        /\ IsInjective(staged) /\ IsInjective(BufsOf(cqes)) /\ IsInjective(BufsOf(ready))
    BY DEF Range, BufsOf, IsInjective
  <1>2. DOMAIN inflight = 1 .. MaxBuffers - 1 /\ \A i \in 1 .. MaxBuffers - 1 : inflight[i] = i + 1
    BY DEF Submitted
  <1>3. IsInjective(inflight)
    <2> SUFFICES ASSUME NEW i \in 1 .. MaxBuffers - 1, NEW j \in 1 .. MaxBuffers - 1, i + 1 = j + 1
                 PROVE  i = j
      BY <1>2 DEF IsInjective
    <2> QED  OBVIOUS
  <1>4. Range(inflight) = 2 .. MaxBuffers
    <2>1. ASSUME NEW b \in Range(inflight) PROVE b \in 2 .. MaxBuffers
      BY <1>2 DEF Range
    <2>2. ASSUME NEW b \in 2 .. MaxBuffers PROVE b \in Range(inflight)
      <3>1. b - 1 \in 1 .. MaxBuffers - 1 /\ (b - 1) + 1 = b
        OBVIOUS
      <3> QED  BY <1>2, <3>1 DEF Range
    <2> QED  BY <2>1, <2>2
  <1>5. \A b \in Buffers : b # NoBuf /\ ((b = 1 /\ b \notin 2 .. MaxBuffers) \/ (b # 1 /\ b \in 2 .. MaxBuffers))
    BY DEF Buffers, NoBuf
  <1>6. 2 .. MaxBuffers \subseteq Buffers
    BY DEF Buffers
  <1>7. single = 1 /\ freeBufs = {} /\ held = NoBuf
    OBVIOUS
  <1>8. \A b \in Buffers : OnePlace(b, freeBufs, {single}, Range(staged), Range(inflight),
                                   Range(BufsOf(cqes)), Range(BufsOf(ready)), {held})
    BY ONLY <1>1, <1>4, <1>5, <1>7 DEF OnePlace
  <1> QED  BY ONLY <1>1, <1>3, <1>4, <1>6, <1>7, <1>8 DEF BuffersInv

(* The parts of BuffersInv that are about the sets.                        *)
Apart(F, s, A, I, C, R, h) == \A b \in Buffers : OnePlace(b, F, {s}, A, I, C, R, {h})

(* The places of the buffers, as sets.                                     *)
LEMMA BuffersParts ==
  BuffersInv <=>
    /\ Apart(freeBufs, single, Range(staged), Range(inflight), Range(BufsOf(cqes)), Range(BufsOf(ready)), held)
    /\ IsInjective(staged) /\ IsInjective(inflight)
    /\ IsInjective(BufsOf(cqes)) /\ IsInjective(BufsOf(ready))
    /\ Range(staged) \subseteq Buffers /\ Range(inflight) \subseteq Buffers
    /\ Range(BufsOf(cqes)) \subseteq Buffers /\ Range(BufsOf(ready)) \subseteq Buffers
    /\ main # "free_buffer" => held = NoBuf
  BY Zenon DEF BuffersInv, Apart

(* A buffer moves from a read in flight to its completion.                 *)
LEMMA KernelKeeps ==
  ASSUME ReceiverTypes, BuffersInv, NEW p \in Int, KernelRecv(p), main' = main
  PROVE  BuffersInv'
  <1> DEFINE h == Head(inflight)
             A == Range(staged)
             I == Range(inflight)
             C == Range(BufsOf(cqes))
             R == Range(BufsOf(ready))
             It == Range(Tail(inflight))
  <1>1. inflight # <<>> /\ inflight \in Seq(Int) /\ h \in Int
    BY HeadTailTypes DEF ReceiverTypes, KernelRecv
  <1>2. h \in I /\ I = It \cup {h} /\ h \notin It /\ IsInjective(Tail(inflight)) /\ h \in Buffers
    BY <1>1, TailHolds, BuffersParts
  <1>3. h \notin C
    BY <1>2, BuffersParts DEF Apart, OnePlace
  <1>4. Completion(h, p) \in Completions /\ Completion(h, p).buf = h
    BY <1>1 DEF Completion, Completions
  <1>5. BufsOf(cqes') = Append(BufsOf(cqes), h)
    BY <1>4, BufsOfAppend DEF KernelRecv, ReceiverTypes
  <1>6. BufsOf(cqes) \in Seq(Int) /\ IsInjective(BufsOf(cqes))
    BY BufsOfSeq, BuffersParts DEF ReceiverTypes
  <1>7. Range(BufsOf(cqes')) = C \cup {h} /\ IsInjective(BufsOf(cqes'))
    BY <1>1, <1>3, <1>5, <1>6, AppendHolds
  <1>8. Apart(freeBufs, single, A, It, C \cup {h}, R, held)
    <2> HIDE DEF h, A, I, C, R, It
    <2>1. Apart(freeBufs, single, A, I, C, R, held)
      BY BuffersParts DEF A, I, C, R
    <2> QED  BY ONLY <1>2, <2>1 DEF Apart, OnePlace
  <1>9. UNCHANGED <<freeBufs, single, staged, ready, held, main>> /\ inflight' = Tail(inflight)
    BY DEF KernelRecv
  <1>10. BufsOf(cqes)' = BufsOf(cqes') /\ BufsOf(ready)' = BufsOf(ready)
    BY <1>9 DEF BufsOf
  <1> QED  BY <1>2, <1>7, <1>8, <1>9, <1>10, BuffersParts DEF BuffersInv, Apart

(* Prepared buffers move to reads in flight.                               *)
LEMMA SubmitKeeps ==
  ASSUME ReceiverTypes, BuffersInv, SubmitStaged, main' = main
  PROVE  BuffersInv'
  <1> DEFINE A == Range(staged)
             I == Range(inflight)
             C == Range(BufsOf(cqes))
             R == Range(BufsOf(ready))
  <1>1. /\ Apart(freeBufs, single, A, I, C, R, held) /\ A \subseteq Buffers /\ I \subseteq Buffers
        /\ IsInjective(staged) /\ IsInjective(inflight)
    BY BuffersParts
  <1>2. A \cap I = {}
    <2> HIDE DEF A, I, C, R
    <2> QED  BY ONLY <1>1 DEF Apart, OnePlace
  <1>3. Range(inflight \o staged) = I \cup A /\ IsInjective(inflight \o staged)
    BY <1>1, <1>2, ConcatHolds DEF ReceiverTypes
  <1>4. Range(<<>>) = {} /\ IsInjective(<<>>)
    BY DEF Range, IsInjective
  <1>5. Apart(freeBufs, single, {}, I \cup A, C, R, held)
    <2> HIDE DEF A, I, C, R
    <2> QED  BY ONLY <1>1 DEF Apart, OnePlace
  <1>6. UNCHANGED <<freeBufs, single, cqes, ready, held, main>> /\ inflight' = inflight \o staged /\ staged' = <<>>
    BY DEF SubmitStaged
  <1>7. BufsOf(cqes)' = BufsOf(cqes) /\ BufsOf(ready)' = BufsOf(ready)
    BY <1>6 DEF BufsOf
  <1> QED  BY <1>1, <1>3, <1>4, <1>5, <1>6, <1>7, BuffersParts DEF BuffersInv, Apart

(* Completed buffers become ready; those of failed reads become free.      *)
LEMMA ReapKeeps ==
  ASSUME ReceiverTypes, BuffersInv, Reaped, main' = main
  PROVE  BuffersInv'
  <1> DEFINE A == Range(staged)
             I == Range(inflight)
             C == Range(BufsOf(cqes))
             R == Range(BufsOf(ready))
             g == Good(cqes)
             G == Range(BufsOf(g))
             X == FailedBufs(cqes)
  <1>1. /\ Apart(freeBufs, single, A, I, C, R, held)
        /\ A \subseteq Buffers /\ C \subseteq Buffers /\ R \subseteq Buffers
        /\ IsInjective(BufsOf(cqes)) /\ IsInjective(BufsOf(ready))
    BY BuffersParts
  <1>2. /\ g \in Seq(Completions) /\ C = G \cup X /\ G \cap X = {} /\ IsInjective(BufsOf(g))
    BY <1>1, GoodFacts DEF ReceiverTypes
  <1> HIDE DEF g
  <1>3. R \cap G = {}
    <2> HIDE DEF A, I, C, R, G, X
    <2> QED  BY ONLY <1>1, <1>2 DEF Apart, OnePlace
  <1>4. BufsOf(ready \o g) = BufsOf(ready) \o BufsOf(g)
    BY <1>2, BufsOfConcat DEF ReceiverTypes
  <1>5. BufsOf(ready) \in Seq(Int) /\ BufsOf(g) \in Seq(Int)
    BY <1>2, BufsOfSeq DEF ReceiverTypes
  <1>6. Range(BufsOf(ready \o g)) = R \cup G /\ IsInjective(BufsOf(ready \o g))
    BY <1>1, <1>2, <1>3, <1>4, <1>5, ConcatHolds
  <1>7. BufsOf(<<>>) = <<>> /\ Range(<<>>) = {} /\ IsInjective(<<>>)
    BY DEF BufsOf, Range, IsInjective
  <1>8. Apart(freeBufs \cup X, single, A, I, {}, R \cup G, held)
    <2> HIDE DEF A, I, C, R, G, X
    <2> QED  BY ONLY <1>1, <1>2 DEF Apart, OnePlace
  <1>9. /\ UNCHANGED <<single, staged, inflight, held, main>>
        /\ cqes' = <<>> /\ ready' = ready \o g /\ freeBufs' = freeBufs \cup X
    BY DEF Reaped, g
  <1>10. BufsOf(cqes)' = BufsOf(<<>>) /\ BufsOf(ready)' = BufsOf(ready \o g)
    BY <1>9 DEF BufsOf
  <1>11. R \cup G \subseteq Buffers
    BY <1>1, <1>2
  <1> QED  BY <1>1, <1>6, <1>7, <1>8, <1>9, <1>10, <1>11, BuffersParts DEF BuffersInv, Apart

(* The buffer of the first completion, apart from those of the others.     *)
LEMMA FirstBuffer ==
  ASSUME NEW cs \in Seq(Completions), cs # <<>>, IsInjective(BufsOf(cs))
  PROVE  /\ Head(cs).buf \in Int /\ Head(cs).buf \in Range(BufsOf(cs))
         /\ Range(BufsOf(cs)) = Range(BufsOf(Tail(cs))) \cup {Head(cs).buf}
         /\ Head(cs).buf \notin Range(BufsOf(Tail(cs))) /\ IsInjective(BufsOf(Tail(cs)))
  <1> DEFINE q == BufsOf(cs)
             h == Head(cs).buf
  <1>1. Head(cs) \in Completions
    BY HeadTailTypes
  <1>2. h \in Int
    BY <1>1 DEF Completions
  <1>3. q \in Seq(Int)
    BY BufsOfSeq
  <1>4. BufsOf(Tail(cs)) = Tail(q) /\ Head(q) = h /\ q # <<>>
    BY BufsOfTail
  <1>5. IsInjective(q)
    OBVIOUS
  <1> HIDE DEF q, h
  <1>6. /\ Head(q) \in Range(q) /\ Range(q) = Range(Tail(q)) \cup {Head(q)}
        /\ Head(q) \notin Range(Tail(q)) /\ IsInjective(Tail(q))
    BY <1>3, <1>4, <1>5, TailHolds
  <1>7. /\ h \in Range(q) /\ Range(q) = Range(BufsOf(Tail(cs))) \cup {h}
        /\ h \notin Range(BufsOf(Tail(cs))) /\ IsInjective(BufsOf(Tail(cs)))
    BY ONLY <1>4, <1>6
  <1> QED  BY <1>2, <1>7 DEF q, h

(* The buffer of a ready packet is prepared for another read.             *)
LEMMA TakeKeeps ==
  ASSUME ReceiverTypes, BuffersInv, Retaken, main' = main
  PROVE  BuffersInv'
  <1> DEFINE A == Range(staged)
             I == Range(inflight)
             C == Range(BufsOf(cqes))
             R == Range(BufsOf(ready))
             h == Head(ready).buf
             t == Tail(ready)
             T == Range(BufsOf(t))
  <1>1. /\ Apart(freeBufs, single, A, I, C, R, held)
        /\ A \subseteq Buffers /\ R \subseteq Buffers
        /\ IsInjective(staged) /\ IsInjective(BufsOf(ready))
    BY BuffersParts
  <1>2. h \in Int /\ h \in R /\ R = T \cup {h} /\ h \notin T /\ IsInjective(BufsOf(t))
    BY <1>1, FirstBuffer DEF ReceiverTypes, Retaken
  <1>3. h \in Buffers /\ T \subseteq Buffers
    BY <1>1, <1>2
  <1>4. h \notin A
    <2> HIDE DEF A, I, C, R, h, T
    <2> QED  BY ONLY <1>1, <1>2, <1>3 DEF Apart, OnePlace
  <1>5. Range(Append(staged, h)) = A \cup {h} /\ IsInjective(Append(staged, h))
    BY <1>1, <1>2, <1>4, AppendHolds DEF ReceiverTypes
  <1>6. Apart(freeBufs, single, A \cup {h}, I, C, T, held)
    <2> HIDE DEF A, I, C, R, h, T
    <2> QED  BY ONLY <1>1, <1>2 DEF Apart, OnePlace
  <1>7. /\ UNCHANGED <<freeBufs, single, inflight, cqes, held, main>>
        /\ staged' = Append(staged, h) /\ ready' = t
    BY DEF Retaken
  <1>8. BufsOf(cqes)' = BufsOf(cqes) /\ BufsOf(ready)' = BufsOf(t)
    BY <1>7 DEF BufsOf
  <1>9. A \cup {h} \subseteq Buffers
    BY <1>1, <1>3
  <1> QED  BY <1>1, <1>2, <1>3, <1>5, <1>6, <1>7, <1>8, <1>9, BuffersParts DEF BuffersInv, Apart

(* stop frees the buffer kept for single reads.                            *)
LEMMA StopKeeps ==
  ASSUME BuffersInv, SingleFreed, main # "free_buffer", main' # "free_buffer"
  PROVE  BuffersInv'
  <1> DEFINE A == Range(staged)
             I == Range(inflight)
             C == Range(BufsOf(cqes))
             R == Range(BufsOf(ready))
  <1>1. Apart(freeBufs, single, A, I, C, R, held) /\ NoBuf \notin Buffers
    BY BuffersParts DEF NoBuf, Buffers
  <1>2. Apart(freeBufs \cup {single}, NoBuf, A, I, C, R, held)
    <2> HIDE DEF A, I, C, R
    <2> QED  BY ONLY <1>1 DEF Apart, OnePlace
  <1>3. /\ UNCHANGED <<staged, inflight, cqes, ready, held>>
        /\ single' = NoBuf /\ freeBufs' = freeBufs \cup {single}
    BY DEF SingleFreed
  <1>4. BufsOf(cqes)' = BufsOf(cqes) /\ BufsOf(ready)' = BufsOf(ready)
    BY <1>3 DEF BufsOf
  <1> QED  BY <1>2, <1>3, <1>4, BuffersParts DEF BuffersInv, Apart

(* stop takes a ready buffer ...                                           *)
LEMMA DrainKeeps ==
  ASSUME ReceiverTypes, BuffersInv, Drained, main # "free_buffer", main' = "free_buffer"
  PROVE  BuffersInv'
  <1> DEFINE A == Range(staged)
             I == Range(inflight)
             C == Range(BufsOf(cqes))
             R == Range(BufsOf(ready))
             h == Head(ready).buf
             t == Tail(ready)
             T == Range(BufsOf(t))
  <1>1. /\ Apart(freeBufs, single, A, I, C, R, NoBuf) /\ NoBuf \notin Buffers
        /\ R \subseteq Buffers /\ IsInjective(BufsOf(ready))
    BY BuffersParts DEF NoBuf, Buffers
  <1>2. h \in R /\ R = T \cup {h} /\ h \notin T /\ IsInjective(BufsOf(t))
    BY <1>1, FirstBuffer DEF ReceiverTypes, Drained
  <1>3. Apart(freeBufs, single, A, I, C, T, h)
    <2> HIDE DEF A, I, C, R, h, T
    <2> QED  BY ONLY <1>1, <1>2 DEF Apart, OnePlace
  <1>4. /\ UNCHANGED <<freeBufs, single, staged, inflight, cqes>>
        /\ ready' = t /\ held' = h
    BY DEF Drained
  <1>5. BufsOf(cqes)' = BufsOf(cqes) /\ BufsOf(ready)' = BufsOf(t)
    BY <1>4 DEF BufsOf
  <1>6. T \subseteq Buffers
    BY <1>1, <1>2
  <1> QED  BY <1>2, <1>3, <1>4, <1>5, <1>6, BuffersParts DEF BuffersInv, Apart

(* ... and frees it.                                                       *)
LEMMA FreeKeeps ==
  ASSUME BuffersInv, HeldFreed, main' # "free_buffer"
  PROVE  BuffersInv'
  <1> DEFINE A == Range(staged)
             I == Range(inflight)
             C == Range(BufsOf(cqes))
             R == Range(BufsOf(ready))
  <1>1. Apart(freeBufs, single, A, I, C, R, held) /\ NoBuf \notin Buffers
    BY BuffersParts DEF NoBuf, Buffers
  <1>2. Apart(freeBufs \cup {held}, single, A, I, C, R, NoBuf)
    <2> HIDE DEF A, I, C, R
    <2> QED  BY ONLY <1>1 DEF Apart, OnePlace
  <1>3. /\ UNCHANGED <<single, staged, inflight, cqes, ready>>
        /\ held' = NoBuf /\ freeBufs' = freeBufs \cup {held}
    BY DEF HeldFreed
  <1>4. BufsOf(cqes)' = BufsOf(cqes) /\ BufsOf(ready)' = BufsOf(ready)
    BY <1>3 DEF BufsOf
  <1> QED  BY <1>2, <1>3, <1>4, BuffersParts DEF BuffersInv, Apart

(* What does not touch the buffers keeps them where they are.              *)
LEMMA ElsewhereKeeps ==
  ASSUME BuffersInv, UNCHANGED <<freeBufs, single, staged, inflight, cqes, ready, held>>,
         main = "free_buffer" => main' = "free_buffer"
  PROVE  BuffersInv'
  <1>1. BufsOf(cqes)' = BufsOf(cqes) /\ BufsOf(ready)' = BufsOf(ready)
    BY DEF BufsOf
  <1> QED  BY <1>1, BuffersParts DEF BuffersInv, Apart

(* Every step moves buffers between the places.                            *)
LEMMA StepBuffers == ShutTypes /\ BuffersInv /\ [Next]_vars /\ ~clashed' => BuffersInv'
  <1> SUFFICES ASSUME ShutTypes, BuffersInv, [Next]_vars, ~clashed' PROVE BuffersInv'
    OBVIOUS
  <1>t. ReceiverTypes /\ RestTypes
    BY DEF ShutTypes
  <1> DEFINE SameR == UNCHANGED <<freeBufs, single, staged, inflight, cqes, ready, held>>
  <1>1. CASE ClientSend \/ ClientDone \/ FillExit
    <2>1. SameR /\ main' = main
      BY <1>1 DEF ClientSend, ClientDone, FillExit, receiverVars
    <2> QED  BY <2>1, ElsewhereKeeps
  <1>2. CASE Arrive
    <2>1. Head(net) \in Int
      BY <1>t, <1>2, HeadTailTypes DEF Arrive, RestTypes
    <2> QED  BY <1>t, <1>2, <2>1, KernelKeeps DEF Arrive
  <1>3. CASE Fault
    <2>1. PICK p \in Int : KernelRecv(p)
      BY <1>3 DEF Fault, KernelFault, Empty, Failed
    <2> QED  BY <1>t, <1>3, <2>1, KernelKeeps DEF Fault
  <1>4. CASE RecvTest \/ RecvWake \/ RecvFeed \/ (RecvReady /\ ready # <<>>)
    <2>1. SameR /\ main' = main
      BY <1>4 DEF RecvTest, RecvWake, RecvFeed, RecvReady, RecvOnly, LoadReady, LoadBoth, LoadOnly, receiverVars
    <2> QED  BY <2>1, ElsewhereKeeps
  <1>5. CASE RecvReady /\ ready = <<>>
    BY <1>t, <1>5, SubmitKeeps DEF RecvReady, RecvOnly
  <1>6. CASE RecvReap
    BY <1>t, <1>6, CleanReap, ReapKeeps DEF RecvReap, RecvOnly
  <1>7. CASE RecvTake
    <2>1. Retaken
      BY <1>t, <1>7, CleanRetake DEF RecvTake
    <2> QED  BY <1>t, <1>7, <2>1, TakeKeeps DEF RecvTake, RecvOnly
  <1>8. CASE Parse
    <2>1. SameR /\ main' = main
      BY <1>8 DEF Parse, ParseTest, ParseMessage, ParseEmpty, receiverVars
    <2> QED  BY <2>1, ElsewhereKeeps
  <1>9. CASE Retry
    <2>1. SameR /\ main' = main
      BY <1>9 DEF Retry, RetryMove, RetryLook, RetryAllEmpty, receiverVars
    <2> QED  BY <2>1, ElsewhereKeeps
  <1>10. CASE \E w \in Workers : Worker(w)
    <2>1. SameR /\ main' = main
      BY <1>10 DEF Worker, WorkerProcess, WorkerEmpty, WorkerLeave, receiverVars
    <2> QED  BY <2>1, ElsewhereKeeps
  <1>11. CASE Main
    <2>1. CASE MainTake
      BY <1>t, <2>1, CleanDrain, DrainKeeps DEF MainTake, MainGo
    <2>2. CASE MainFreeSingle
      BY <2>2, CleanFree, StopKeeps DEF MainFreeSingle, MainGo
    <2>3. CASE MainFree
      BY <2>3, CleanFree, FreeKeeps DEF MainFree, MainGo
    <2>4. CASE MainReady \/ MainStopReceiver
      <3>1. SameR /\ main # "free_buffer"
        BY <2>4 DEF MainReady, MainStopReceiver, MainGo, LoadReady, LoadOnly, StopReceiver
      <3> QED  BY <3>1, ElsewhereKeeps
    <2>5. CASE ~(MainTake \/ MainFreeSingle \/ MainFree \/ MainReady \/ MainStopReceiver)
      <3>1. SameR /\ main # "free_buffer"
        BY <1>11, <2>5 DEF Main, MainWaitDone, MainWaitReceived, MainIdle, MainStop, MainReadyEmpty,
                   MainJoinRecv, MainJoinParse, MainJoinRetry, MainJoinWorkers, MainStopFill, MainJoinFill,
                   MainWaits, MainGo, receiverVars
      <3> QED  BY <3>1, ElsewhereKeeps
    <2> QED  BY <2>1, <2>2, <2>3, <2>4, <2>5
  <1>12. CASE UNCHANGED vars
    <2>1. SameR /\ main' = main
      BY <1>12 DEF vars, receiverVars
    <2> QED  BY <2>1, ElsewhereKeeps
  <1> QED  BY <1>1, <1>2, <1>3, <1>4, <1>5, <1>6, <1>7, <1>8, <1>9, <1>10, <1>11, <1>12
           DEF Next, Recv

(* OnePlace, with the places numbered.                                     *)
LEMMA OnePlaceOfSeven ==
  ASSUME NEW b, NEW A, NEW B, NEW C, NEW D, NEW E, NEW F, NEW G, OnePlace(b, A, B, C, D, E, F, G)
  PROVE  \E i \in 1 .. 7 : \A j \in 1 .. 7 : b \in <<A, B, C, D, E, F, G>>[j] <=> j = i
  <1> DEFINE P == <<A, B, C, D, E, F, G>>
  <1>1. P[1] = A /\ P[2] = B /\ P[3] = C /\ P[4] = D /\ P[5] = E /\ P[6] = F /\ P[7] = G
    OBVIOUS
  <1>2. \A j \in 1 .. 7 : j = 1 \/ j = 2 \/ j = 3 \/ j = 4 \/ j = 5 \/ j = 6 \/ j = 7
    OBVIOUS
  <1> HIDE DEF P
  <1> DEFINE Only(i) == \A j \in 1 .. 7 : b \in P[j] <=> j = i
  <1>3. Only(1) \/ Only(2) \/ Only(3) \/ Only(4) \/ Only(5) \/ Only(6) \/ Only(7)
    BY <1>1, <1>2 DEF OnePlace
  <1> HIDE DEF Only
  <1>4. \E i \in 1 .. 7 : Only(i)
    BY <1>3
  <1> QED  BY <1>4 DEF Only, P

(* io_uring_poller.h:133-136: a buffer is in exactly one place, and once   *)
(* in it, for any number of buffers and of packets, through failed reads   *)
(* and while main stops the receiver call by call under recv_th, as long   *)
(* as no two calls on the poller overlapped.                               *)
THEOREM BuffersAreConserved == Spec => []BuffersConservedUnlessClashed
  <1> DEFINE Inv == ~clashed => ShutTypes /\ BuffersInv
  <1>1. Inv => BuffersConservedUnlessClashed
    <2> SUFFICES ASSUME BuffersInv, ~clashed PROVE BuffersConservedUnlessClashed
      BY DEF BuffersConservedUnlessClashed
    <2>1. DOMAIN Places = 1 .. 7
      BY DEF Places
    <2>2. ASSUME NEW b \in Buffers
          PROVE  \E i \in DOMAIN Places : \A j \in DOMAIN Places : b \in Places[j] <=> j = i
      <3>1. OnePlace(b, freeBufs, {single}, Range(staged), Range(inflight),
                     Range(BufsOf(cqes)), Range(BufsOf(ready)), {held})
        BY DEF BuffersInv
      <3>2. \E i \in 1 .. 7 : \A j \in 1 .. 7 : b \in Places[j] <=> j = i
        BY <3>1, OnePlaceOfSeven DEF Places
      <3> QED  BY <2>1, <3>2
    <2> QED  BY <2>2 DEF BuffersConservedUnlessClashed, BuffersInv
  <1>2. Init => Inv
    BY InitTypes, InitBuffers
  <1>3. Inv /\ [Next]_vars => Inv'
    BY ClashedStays, StepTypes, StepBuffers
  <1> HIDE DEF Inv
  <1> QED  BY <1>1, <1>2, <1>3, PTL DEF Spec

----------------------------------------------------------------------------
(* The packets.  From the client to recv_th they come in order; behind it  *)
(* only the place changes, so that Counted stays what it is.               *)
LEMMA InitFlow == Init => OnTheWay /\ CountedOnce
  <1> SUFFICES ASSUME Init PROVE OnTheWay /\ CountedOnce
    OBVIOUS
  <1> USE DEF Init, ReceiverInit
  <1>1. DOMAIN net = {} /\ DOMAIN cqes = {} /\ DOMAIN ready = {} /\ Len(net) = 0
    OBVIOUS
  <1>2. OnTheWay
    BY <1>1 DEF OnTheWay, Within, Rising, Before
  <1>3. Range(bytes) = {} /\ InHand = {} /\ processed = {}
    BY DEF Range, InHand
  <1>4. Held(ring, bucket) = {}
    <2>1. \A w \in Workers : Range(ring[w]) = {} /\ Range(bucket[w]) = {}
      BY DEF Range
    <2> QED  BY <2>1 DEF Held
  <1>5. Counted = {}
    BY <1>3, <1>4 DEF Counted
  <1> QED  BY <1>1, <1>2, <1>5, FS_EmptySet DEF CountedOnce, Later

(* The number of packets that left the network.                            *)
LEMMA DeliveredInt == ASSUME RestTypes PROVE Delivered \in Int /\ Len(net) \in Nat
  BY DEF RestTypes, Delivered

(* What it takes to keep CountedOnce when nothing new is counted.          *)
LEMMA CountedKept ==
  ASSUME CountedOnce, Counted' = Counted, received' = received,
         Delivered \in Int, Delivered' \in Int, Delivered <= Delivered',
         Later(ready', Counted), Later(cqes', Counted)
  PROVE  CountedOnce'
  <1>1. Counted \subseteq 1 .. Delivered'
    BY DEF CountedOnce
  <1>2. Later(ready, Counted)' /\ Later(cqes, Counted)'
    BY DEF Later
  <1> QED  BY <1>1, <1>2 DEF CountedOnce

(* Nothing counted moves.                                                  *)
LEMMA CountedFrame ==
  ASSUME UNCHANGED <<processed, bytes, ring, bucket>>, InHand' = InHand
  PROVE  Counted' = Counted
  BY DEF Counted, Held

(* The completions in a queue and their packets.                           *)
LEMMA CompletionsOf ==
  ASSUME NEW cs \in Seq(Completions)
  PROVE  /\ Len(cs) \in Nat /\ DOMAIN cs = 1 .. Len(cs)
         /\ \A i \in DOMAIN cs : cs[i] \in Completions /\ cs[i].pkt \in Int
  <1>1. Len(cs) \in Nat /\ DOMAIN cs = 1 .. Len(cs) /\ \A i \in DOMAIN cs : cs[i] \in Completions
    OBVIOUS
  <1>2. \A c \in Completions : c.pkt \in Int
    BY DEF Completions
  <1> QED  BY <1>1, <1>2

(* The replay sends a packet.                                              *)
LEMMA ClientFlow ==
  ASSUME ShutTypes, OnTheWay, CountedOnce, ClientSend
  PROVE  OnTheWay' /\ CountedOnce'
  <1>1. RestTypes /\ sent \in Nat /\ net \in Seq(Int) /\ Delivered \in Int /\ Len(net) \in Nat
    BY DeliveredInt DEF ShutTypes, RestTypes
  <1>2. net' = Append(net, sent + 1) /\ sent' = sent + 1
    BY DEF ClientSend
  <1>3. /\ Len(net') = Len(net) + 1 /\ DOMAIN net = 1 .. Len(net) /\ DOMAIN net' = 1 .. Len(net) + 1
        /\ \A i \in 1 .. Len(net) : net'[i] = net[i]
        /\ net'[Len(net) + 1] = sent + 1
    BY <1>1, <1>2
  <1>4. Delivered' = Delivered
    BY <1>1, <1>2, <1>3 DEF Delivered
  <1>5. Len(net') <= sent' /\ \A i \in DOMAIN net' : net'[i] = Delivered + i
    BY <1>1, <1>2, <1>3 DEF OnTheWay, Delivered
  <1>6. UNCHANGED <<cqes, ready, received, processed, bytes, ring, bucket, recv, pkt>>
    BY DEF ClientSend, receiverVars, queues, recvVars
  <1>7. Within(cqes, Failed, Delivered)' /\ Within(ready, Empty, Delivered)'
    BY <1>4, <1>6 DEF OnTheWay, Within
  <1>8. Rising(ready)' /\ Rising(cqes)' /\ Before(ready, cqes)'
    BY <1>6 DEF OnTheWay, Rising, Before
  <1>9. OnTheWay'
    BY <1>4, <1>5, <1>7, <1>8 DEF OnTheWay
  <1>10. Counted' = Counted
    BY <1>6, CountedFrame DEF InHand
  <1>11. Later(ready', Counted) /\ Later(cqes', Counted)
    BY <1>6 DEF CountedOnce
  <1>12. CountedOnce'
    BY <1>1, <1>4, <1>6, <1>10, <1>11, CountedKept
  <1> QED  BY <1>9, <1>12

(* A completion is of the next packet, or of none.                         *)
LEMMA KernelFlow ==
  ASSUME ShutTypes, OnTheWay, CountedOnce, NEW p \in Int, KernelRecv(p),
         Delivered' \in Int, Delivered <= Delivered', Failed <= p, p <= Delivered',
         p > 0 => p = Delivered + 1,
         Len(net') <= sent', \A i \in DOMAIN net' : net'[i] = Delivered' + i,
         UNCHANGED <<received, processed, bytes, ring, bucket, recv, pkt>>
  PROVE  OnTheWay' /\ CountedOnce'
  <1> DEFINE n == Len(cqes)
             h == Head(inflight)
             c == Completion(h, p)
  <1>1. RestTypes /\ cqes \in Seq(Completions) /\ ready \in Seq(Completions) /\ Delivered \in Int
        /\ DOMAIN ready = 1 .. Len(ready)
    BY DeliveredInt DEF ShutTypes, ReceiverTypes
  <1>2. h \in Int
    BY HeadTailTypes DEF ShutTypes, ReceiverTypes, KernelRecv
  <1>3. c \in Completions /\ c.pkt = p
    BY <1>2 DEF Completion, Completions
  <1>4. cqes' = Append(cqes, c) /\ ready' = ready
    BY DEF KernelRecv
  <1> HIDE DEF c
  <1>5. /\ n \in Nat /\ DOMAIN cqes = 1 .. n /\ DOMAIN cqes' = 1 .. n + 1
        /\ cqes'[n + 1] = c /\ \A i \in 1 .. n : cqes'[i] = cqes[i]
    BY <1>1, <1>3, <1>4
  <1>6. /\ \A i \in 1 .. n : cqes[i] \in Completions /\ cqes[i].pkt \in Int
        /\ \A i \in DOMAIN ready : ready[i] \in Completions /\ ready[i].pkt \in Int
    BY <1>1, <1>5, CompletionsOf
  <1> HIDE DEF n
  <1>7. \A i \in 1 .. n : Failed <= cqes[i].pkt /\ cqes[i].pkt <= Delivered
    BY <1>5 DEF OnTheWay, Within
  <1>8. \A i \in DOMAIN ready : Empty <= ready[i].pkt /\ ready[i].pkt <= Delivered
    BY DEF OnTheWay, Within
  <1>9. \A i \in 1 .. n + 1 : i \in 1 .. n \/ i = n + 1
    BY <1>5
  <1>10. Within(cqes', Failed, Delivered') /\ Within(ready', Empty, Delivered')
    <2>1. ASSUME NEW i \in 1 .. n + 1 PROVE Failed <= cqes'[i].pkt /\ cqes'[i].pkt <= Delivered'
      <3>1. CASE i \in 1 .. n
        BY <1>1, <1>5, <1>6, <1>7, <3>1 DEF Failed
      <3>2. CASE i = n + 1
        BY <1>3, <1>5, <3>2
      <3> QED  BY <1>9, <3>1, <3>2
    <2>2. ASSUME NEW i \in DOMAIN ready PROVE Empty <= ready[i].pkt /\ ready[i].pkt <= Delivered'
      BY <1>1, <1>6, <1>8
    <2> QED  BY <1>4, <1>5, <2>1, <2>2 DEF Within
  <1>11. Rising(cqes')
    <2> SUFFICES ASSUME NEW i \in 1 .. n + 1, NEW j \in 1 .. n + 1, i < j, cqes'[j].pkt > 0
                 PROVE  cqes'[i].pkt < cqes'[j].pkt
      BY <1>5 DEF Rising
    <2>1. i \in 1 .. n
      BY <1>5
    <2>2. CASE j \in 1 .. n
      BY <1>5, <2>1, <2>2 DEF OnTheWay, Rising
    <2>3. CASE j = n + 1
      BY <1>1, <1>3, <1>5, <1>6, <1>7, <2>1, <2>3
    <2> QED  BY <1>9, <2>2, <2>3
  <1>12. Before(ready', cqes')
    <2> SUFFICES ASSUME NEW i \in DOMAIN ready, NEW j \in 1 .. n + 1, cqes'[j].pkt > 0
                 PROVE  ready[i].pkt < cqes'[j].pkt
      BY <1>4, <1>5 DEF Before
    <2>1. CASE j \in 1 .. n
      BY <1>5, <2>1 DEF OnTheWay, Before
    <2>2. CASE j = n + 1
      BY <1>1, <1>3, <1>5, <1>6, <1>8, <2>2
    <2> QED  BY <1>9, <2>1, <2>2
  <1>13. Later(cqes', Counted)
    <2> SUFFICES ASSUME NEW j \in 1 .. n + 1, cqes'[j].pkt > 0, NEW x \in Counted
                 PROVE  x < cqes'[j].pkt
      BY <1>5 DEF Later
    <2>1. CASE j \in 1 .. n
      BY <1>5, <2>1 DEF CountedOnce, Later
    <2>2. CASE j = n + 1
      <3>1. x \in 1 .. Delivered
        BY DEF CountedOnce
      <3> QED  BY <1>1, <1>3, <1>5, <2>2, <3>1
    <2> QED  BY <1>9, <2>1, <2>2
  <1>14. Rising(ready') /\ Later(ready', Counted)
    BY <1>4 DEF OnTheWay, CountedOnce
  <1>15. OnTheWay'
    BY <1>10, <1>11, <1>12, <1>14 DEF OnTheWay, Within, Rising, Before
  <1>16. Counted' = Counted
    BY CountedFrame DEF InHand
  <1>17. CountedOnce'
    BY <1>1, <1>13, <1>14, <1>16, CountedKept
  <1> QED  BY <1>15, <1>17

(* reap_more: what was completed is later than what is ready.              *)
LEMMA ReapFlow ==
  ASSUME ShutTypes, OnTheWay, CountedOnce, Reaped,
         UNCHANGED <<net, sent, received, processed, bytes, ring, bucket>>, InHand' = InHand
  PROVE  OnTheWay' /\ CountedOnce'
  <1> DEFINE g == Good(cqes)
             n == Len(ready)
             m == Len(g)
             t == ready \o g
  <1>1. RestTypes /\ cqes \in Seq(Completions) /\ ready \in Seq(Completions) /\ Delivered \in Int
    BY DeliveredInt DEF ShutTypes, ReceiverTypes
  <1>2. /\ g \in Seq(Completions)
        /\ \A i \in DOMAIN g : g[i].pkt # Failed /\ \E k \in DOMAIN cqes : g[i] = cqes[k]
        /\ Rising(g)
    BY <1>1, GoodFacts DEF OnTheWay
  <1>3. cqes' = <<>> /\ ready' = t
    BY DEF Reaped
  <1> HIDE DEF g
  <1>4. /\ n \in Nat /\ m \in Nat /\ DOMAIN ready = 1 .. n /\ DOMAIN g = 1 .. m /\ DOMAIN t = 1 .. n + m
        /\ \A i \in 1 .. n + m : t[i] = IF i <= n THEN ready[i] ELSE g[i - n]
    BY <1>1, <1>2
  <1>5. /\ \A i \in DOMAIN ready : ready[i].pkt \in Int
        /\ \A i \in DOMAIN g : g[i].pkt \in Int
        /\ \A i \in DOMAIN cqes : cqes[i].pkt \in Int
    BY <1>1, <1>2, CompletionsOf
  <1> HIDE DEF n, m, t
  <1>6. \A i \in 1 .. n + m : \/ i <= n /\ i \in 1 .. n /\ t[i] = ready[i]
                              \/ i > n /\ i - n \in 1 .. m /\ t[i] = g[i - n]
    BY <1>4
  <1>7. \A i \in DOMAIN g : Empty <= g[i].pkt /\ g[i].pkt <= Delivered
    <2> SUFFICES ASSUME NEW i \in DOMAIN g PROVE Empty <= g[i].pkt /\ g[i].pkt <= Delivered
      OBVIOUS
    <2>1. PICK k \in DOMAIN cqes : g[i] = cqes[k]
      BY <1>2
    <2>2. Failed <= g[i].pkt /\ g[i].pkt <= Delivered /\ g[i].pkt # Failed /\ g[i].pkt \in Int
      BY <1>2, <1>5, <2>1 DEF OnTheWay, Within
    <2> QED  BY <2>2 DEF Failed, Empty
  <1>8. \A i \in DOMAIN ready, j \in DOMAIN g : g[j].pkt > 0 => ready[i].pkt < g[j].pkt
    BY <1>2 DEF OnTheWay, Before
  <1>9. \A j \in DOMAIN g : g[j].pkt > 0 => \A x \in Counted : x < g[j].pkt
    BY <1>2 DEF CountedOnce, Later
  <1>10. Within(t, Empty, Delivered)
    <2> SUFFICES ASSUME NEW i \in 1 .. n + m PROVE Empty <= t[i].pkt /\ t[i].pkt <= Delivered
      BY <1>4 DEF Within
    <2> QED  BY <1>4, <1>6, <1>7 DEF OnTheWay, Within
  <1>11. Rising(t)
    <2> SUFFICES ASSUME NEW i \in 1 .. n + m, NEW j \in 1 .. n + m, i < j, t[j].pkt > 0
                 PROVE  t[i].pkt < t[j].pkt
      BY <1>4 DEF Rising
    <2>1. CASE j <= n
      <3>1. i \in 1 .. n /\ j \in 1 .. n /\ t[i] = ready[i] /\ t[j] = ready[j]
        BY <1>4, <1>6, <2>1
      <3> QED  BY <1>4, <3>1 DEF OnTheWay, Rising
    <2>2. CASE i <= n /\ j > n
      <3>1. i \in DOMAIN ready /\ j - n \in DOMAIN g /\ t[i] = ready[i] /\ t[j] = g[j - n]
        BY <1>4, <1>6, <2>2
      <3> QED  BY <1>8, <3>1
    <2>3. CASE i > n
      <3>1. i - n \in DOMAIN g /\ j - n \in DOMAIN g /\ t[i] = g[i - n] /\ t[j] = g[j - n] /\ i - n < j - n
        BY <1>4, <1>6, <2>3
      <3> QED  BY <1>2, <3>1 DEF Rising
    <2> QED  BY <1>4, <2>1, <2>2, <2>3
  <1>12. Later(t, Counted)
    <2> SUFFICES ASSUME NEW j \in 1 .. n + m, t[j].pkt > 0, NEW x \in Counted PROVE x < t[j].pkt
      BY <1>4 DEF Later
    <2> QED  BY <1>4, <1>6, <1>9 DEF CountedOnce, Later
  <1>13. DOMAIN cqes' = {}
    BY <1>3
  <1>14. Delivered' = Delivered
    BY DEF Delivered
  <1>15. OnTheWay'
    BY <1>3, <1>10, <1>11, <1>13, <1>14 DEF OnTheWay, Within, Rising, Before
  <1>16. Counted' = Counted
    BY CountedFrame
  <1>17. Later(cqes', Counted) /\ Later(ready', Counted)
    BY <1>3, <1>12, <1>13 DEF Later
  <1>18. CountedOnce'
    BY <1>1, <1>14, <1>16, <1>17, CountedKept
  <1> QED  BY <1>15, <1>18

(* The first of ready goes: the others are later than it.                  *)
LEMMA TailFlow ==
  ASSUME ShutTypes, OnTheWay, CountedOnce, ready # <<>>, ready' = Tail(ready),
         UNCHANGED <<cqes, net, sent>>
  PROVE  /\ OnTheWay' /\ Delivered' = Delivered
         /\ Later(ready', Counted) /\ Later(ready', {Head(ready).pkt}) /\ Later(cqes', {Head(ready).pkt})
         /\ Head(ready).pkt \in 0 .. Delivered
         /\ Head(ready).pkt > 0 => \A x \in Counted : x < Head(ready).pkt
  <1> DEFINE n == Len(ready)
             h == Head(ready)
             t == Tail(ready)
  <1>1. ready \in Seq(Completions) /\ Delivered \in Int
    BY DeliveredInt DEF ShutTypes, ReceiverTypes
  <1>2. /\ n \in Nat \ {0} /\ DOMAIN ready = 1 .. n /\ DOMAIN t = 1 .. n - 1 /\ h = ready[1]
        /\ \A i \in 1 .. n - 1 : t[i] = ready[i + 1]
    BY <1>1
  <1>3. \A i \in DOMAIN ready : ready[i].pkt \in Int
    BY <1>1, CompletionsOf
  <1> HIDE DEF n, h, t
  <1>4. 1 \in 1 .. n /\ \A i \in 1 .. n - 1 : i + 1 \in 1 .. n /\ 1 < i + 1
    BY <1>2
  <1>5. Delivered' = Delivered
    BY DEF Delivered
  <1>6. Within(t, Empty, Delivered)
    BY <1>2, <1>4 DEF OnTheWay, Within
  <1>7. Rising(t)
    <2> SUFFICES ASSUME NEW i \in 1 .. n - 1, NEW j \in 1 .. n - 1, i < j, t[j].pkt > 0
                 PROVE  t[i].pkt < t[j].pkt
      BY <1>2 DEF Rising
    <2>1. i + 1 < j + 1 /\ i + 1 \in 1 .. n /\ j + 1 \in 1 .. n
      BY <1>4
    <2> QED  BY <1>2, <2>1 DEF OnTheWay, Rising
  <1>8. Before(t, cqes)
    BY <1>2, <1>4 DEF OnTheWay, Before
  <1>9. Later(t, Counted)
    BY <1>2, <1>4 DEF CountedOnce, Later
  <1>10. Later(t, {h.pkt})
    <2> SUFFICES ASSUME NEW j \in 1 .. n - 1, t[j].pkt > 0 PROVE h.pkt < t[j].pkt
      BY <1>2 DEF Later
    <2> QED  BY <1>2, <1>4 DEF OnTheWay, Rising
  <1>11. Later(cqes, {h.pkt})
    BY <1>2, <1>4 DEF OnTheWay, Before, Later
  <1>12. h.pkt \in 0 .. Delivered
    <2>1. Empty <= h.pkt /\ h.pkt <= Delivered /\ h.pkt \in Int
      BY <1>2, <1>3, <1>4 DEF OnTheWay, Within
    <2> QED  BY <1>1, <2>1 DEF Empty
  <1>13. h.pkt > 0 => \A x \in Counted : x < h.pkt
    BY <1>2, <1>4 DEF CountedOnce, Later
  <1>14. ready' = t
    BY DEF t
  <1>15. OnTheWay'
    BY <1>5, <1>6, <1>7, <1>8, <1>14 DEF OnTheWay, Within, Rising, Before
  <1> QED  BY <1>5, <1>9, <1>10, <1>11, <1>12, <1>13, <1>14, <1>15 DEF h

(* recv_th counts a packet: a new one, and the last of those counted.      *)
LEMMA CountFlow ==
  ASSUME ShutTypes, OnTheWay, CountedOnce, ready # <<>>, ready' = Tail(ready),
         UNCHANGED <<cqes, net, sent, processed, bytes, ring, bucket>>,
         recv = "take", recv' = "feed", pkt' = Head(ready).pkt, pkt' # Empty,
         received' = received + 1
  PROVE  OnTheWay' /\ CountedOnce'
  <1> DEFINE p == Head(ready).pkt
  <1>1. /\ OnTheWay' /\ Delivered' = Delivered /\ Delivered \in Int
        /\ Later(ready', Counted) /\ Later(ready', {p}) /\ Later(cqes', {p})
        /\ p \in 0 .. Delivered /\ (p > 0 => \A x \in Counted : x < p)
    BY TailFlow, DeliveredInt DEF ShutTypes
  <1>2. Later(cqes', Counted) /\ Counted \subseteq 1 .. Delivered /\ Cardinality(Counted) = received
    BY DEF CountedOnce
  <1> HIDE DEF p
  <1>3. p > 0 /\ p \in 1 .. Delivered /\ p \notin Counted
    <2>1. p # 0 /\ p \in 0 .. Delivered
      BY <1>1 DEF Empty, p
    <2>2. p > 0 /\ p \in 1 .. Delivered
      BY <1>1, <2>1
    <2>3. ~(p < p)
      BY <2>2
    <2> QED  BY <1>1, <2>2, <2>3
  <1>4. Counted' = Counted \cup {p}
    <2>1. InHand = {} /\ InHand' = {p}
      BY DEF InHand, p
    <2> QED  BY <2>1 DEF Counted, Held
  <1>5. IsFiniteSet(Counted)
    <2>1. IsFiniteSet(1 .. Delivered)
      BY <1>1, FS_Interval
    <2> QED  BY <1>2, <2>1, FS_Subset
  <1>6. Cardinality(Counted \cup {p}) = received + 1
    BY <1>2, <1>3, <1>5, FS_AddElement
  <1>7. Later(ready', Counted \cup {p}) /\ Later(cqes', Counted \cup {p})
    BY <1>1, <1>2 DEF Later
  <1>8. CountedOnce'
    <2>1. Counted \cup {p} \subseteq 1 .. Delivered
      BY <1>2, <1>3
    <2>2. Later(ready, Counted)' /\ Later(cqes, Counted)'
      BY <1>4, <1>7 DEF Later
    <2> QED  BY <1>1, <1>4, <1>6, <2>1, <2>2 DEF CountedOnce
  <1> QED  BY <1>1, <1>8

(* Behind recv_th: a packet is handed on from one place to the next.       *)
LEMMA CountedParts ==
  /\ \A x : x \in Counted <=> \/ x \in processed \/ x \in Range(bytes) \/ x \in InHand
                            \/ x \in Held(ring, bucket)
  /\ \A x : x \in Counted' <=> \/ x \in processed' \/ x \in Range(bytes') \/ x \in InHand'
                             \/ x \in Held(ring', bucket')
  BY DEF Counted, Held, Range

(* What rings and buckets hold.                                            *)
LEMMA InHeld ==
  ASSUME NEW r, NEW b
  PROVE  \A x : x \in Held(r, b) <=> \E w \in Workers : x \in Range(r[w]) \cup Range(b[w])
  BY DEF Held

OneMore(r, b, s, c, w, x) ==
  /\ w \in Workers /\ Range(s[w]) \cup Range(c[w]) = Range(r[w]) \cup Range(b[w]) \cup {x}
  /\ \A v \in Workers : v # w => s[v] = r[v] /\ c[v] = b[v]

(* One packet more in a ring or a bucket.                                  *)
LEMMA HeldGrows ==
  ASSUME NEW r, NEW b, NEW s, NEW c, NEW w, NEW x, OneMore(r, b, s, c, w, x)
  PROVE  Held(s, c) = Held(r, b) \cup {x}
  <1> USE DEF OneMore
  <1>1. ASSUME NEW y \in Held(s, c) PROVE y \in Held(r, b) \cup {x}
    <2>1. PICK v \in Workers : y \in Range(s[v]) \cup Range(c[v])
      BY InHeld
    <2>2. y \in Range(r[v]) \cup Range(b[v]) \/ y = x
      BY <2>1
    <2> QED  BY <2>2, InHeld
  <1>2. ASSUME NEW y \in Held(r, b) PROVE y \in Held(s, c)
    <2>1. PICK v \in Workers : y \in Range(r[v]) \cup Range(b[v])
      BY InHeld
    <2>2. y \in Range(s[v]) \cup Range(c[v])
      BY <2>1
    <2> QED  BY <2>2, InHeld
  <1>3. x \in Held(s, c)
    BY InHeld
  <1> QED  BY <1>1, <1>2, <1>3

(* recv_th feeds the packet in its hand to the byte ring.                  *)
LEMMA FeedFlow ==
  ASSUME RestTypes, RecvFeed
  PROVE  Counted' = Counted
  <1>1. Range(bytes') = Range(bytes) \cup {pkt}
    BY AppendHolds DEF RestTypes, RecvFeed
  <1>2. InHand = {pkt} /\ InHand' = {}
    BY DEF RecvFeed, InHand
  <1>3. UNCHANGED <<processed, ring, bucket>>
    BY DEF RecvFeed, RecvOnly, queues
  <1> QED  BY <1>1, <1>2, <1>3, CountedParts

(* The parser moves a packet from the byte ring to a worker's queues.      *)
LEMMA ParseFlow ==
  ASSUME RestTypes, ParseMessage
  PROVE  Counted' = Counted
  <1>1. PICK p \in Int, w \in Workers :
          bytes # <<>> /\ p = Head(bytes) /\ bytes' = Tail(bytes) /\ Dispatch(p, w)
    <2>1. Head(bytes) \in Int
      BY HeadTailTypes DEF RestTypes, ParseMessage
    <2> QED  BY <2>1, OwnerIsWorker DEF ParseMessage
  <1>2. Range(bytes) = Range(bytes') \cup {p}
    BY <1>1, TailHolds DEF RestTypes
  <1>3. ring[w] \in Seq(Int) /\ bucket[w] \in Seq(Int) /\ DOMAIN ring = Workers /\ DOMAIN bucket = Workers
    BY <1>1 DEF RestTypes
  <1>4. /\ Range(Append(ring[w], p)) = Range(ring[w]) \cup {p}
        /\ Range(Append(bucket[w], p)) = Range(bucket[w]) \cup {p}
    BY <1>1, <1>3, AppendHolds
  <1>5. \/ ring'[w] = Append(ring[w], p) /\ bucket'[w] = bucket[w]
        \/ ring'[w] = ring[w] /\ bucket'[w] = Append(bucket[w], p)
    BY <1>1, <1>3 DEF Dispatch
  <1>6. \A v \in Workers : v # w => ring'[v] = ring[v] /\ bucket'[v] = bucket[v]
    BY <1>1, <1>3 DEF Dispatch
  <1>7. Range(ring'[w]) \cup Range(bucket'[w]) = Range(ring[w]) \cup Range(bucket[w]) \cup {p}
    BY <1>4, <1>5
  <1>8. Held(ring', bucket') = Held(ring, bucket) \cup {p}
    <2>1. OneMore(ring, bucket, ring', bucket', w, p)
      BY <1>6, <1>7 DEF OneMore
    <2> QED  BY <2>1, HeldGrows
  <1>9. processed' = processed /\ InHand' = InHand
    BY DEF ParseMessage, recvVars, InHand
  <1> QED  BY <1>2, <1>8, <1>9, CountedParts

(* The retry thread moves a packet from a bucket to its ring.              *)
LEMMA RetryFlow ==
  ASSUME RestTypes, NEW w \in Workers, RetryMove(w)
  PROVE  Counted' = Counted
  <1> DEFINE p == Head(bucket[w])
  <1>1. /\ ring[w] \in Seq(Int) /\ bucket[w] \in Seq(Int) /\ bucket[w] # <<>> /\ p \in Int
        /\ DOMAIN ring = Workers /\ DOMAIN bucket = Workers
    BY HeadTailTypes DEF RestTypes, RetryMove
  <1>2. /\ Range(Append(ring[w], p)) = Range(ring[w]) \cup {p}
        /\ Range(bucket[w]) = Range(Tail(bucket[w])) \cup {p}
    BY <1>1, AppendHolds, TailHolds
  <1>3. /\ ring'[w] = Append(ring[w], p) /\ bucket'[w] = Tail(bucket[w])
        /\ \A v \in Workers : v # w => ring'[v] = ring[v] /\ bucket'[v] = bucket[v]
    BY <1>1 DEF RetryMove
  <1>4. Range(ring'[w]) \cup Range(bucket'[w]) = Range(ring[w]) \cup Range(bucket[w]) \cup {p}
    BY <1>2, <1>3
  <1>5. p \in Held(ring, bucket)
    BY <1>2, InHeld
  <1>6. Held(ring', bucket') = Held(ring, bucket) \cup {p}
    <2>1. OneMore(ring, bucket, ring', bucket', w, p)
      BY <1>3, <1>4 DEF OneMore
    <2> QED  BY <2>1, HeldGrows
  <1>7. processed' = processed /\ InHand' = InHand /\ bytes' = bytes
    BY DEF RetryMove, recvVars, InHand
  <1> QED  BY <1>5, <1>6, <1>7, CountedParts

(* A worker processes a packet of its ring.                                *)
LEMMA ProcessFlow ==
  ASSUME RestTypes, NEW w \in Workers, WorkerProcess(w)
  PROVE  Counted' = Counted
  <1> DEFINE p == Head(ring[w])
  <1>1. ring[w] \in Seq(Int) /\ ring[w] # <<>> /\ DOMAIN ring = Workers
    BY DEF RestTypes, WorkerProcess
  <1>2. Range(ring[w]) = Range(Tail(ring[w])) \cup {p}
    BY <1>1, TailHolds
  <1>3. /\ ring'[w] = Tail(ring[w]) /\ bucket' = bucket
        /\ \A v \in Workers : v # w => ring'[v] = ring[v]
    BY <1>1 DEF WorkerProcess
  <1>4. Range(ring[w]) \cup Range(bucket[w]) = Range(ring'[w]) \cup Range(bucket'[w]) \cup {p}
    BY <1>2, <1>3
  <1>5. Held(ring, bucket) = Held(ring', bucket') \cup {p}
    <2>1. OneMore(ring', bucket', ring, bucket, w, p)
      BY <1>3, <1>4 DEF OneMore
    <2> QED  BY <2>1, HeldGrows
  <1>6. processed' = processed \cup {p} /\ InHand' = InHand /\ bytes' = bytes
    BY DEF WorkerProcess, recvVars, InHand
  <1> QED  BY <1>5, <1>6, CountedParts

(* A step that moves packets only behind the count.                        *)
LEMMA DownFlow ==
  ASSUME ShutTypes, OnTheWay, CountedOnce, Counted' = Counted,
         UNCHANGED <<net, sent, cqes, ready, received>>
  PROVE  OnTheWay' /\ CountedOnce'
  <1>1. Delivered' = Delivered
    BY DEF Delivered
  <1>2. OnTheWay'
    BY <1>1 DEF OnTheWay, Within, Rising, Before
  <1>3. CountedOnce'
    BY <1>1 DEF CountedOnce, Later
  <1> QED  BY <1>2, <1>3

(* stop drops a packet that was not counted.                               *)
LEMMA DropFlow ==
  ASSUME ShutTypes, OnTheWay, CountedOnce, Counted' = Counted, ready # <<>>, ready' = Tail(ready),
         UNCHANGED <<net, sent, cqes, received>>
  PROVE  OnTheWay' /\ CountedOnce'
  <1>1. OnTheWay' /\ Delivered' = Delivered /\ Delivered \in Int /\ Later(ready', Counted)
    BY TailFlow, DeliveredInt DEF ShutTypes
  <1>2. Later(cqes', Counted)
    BY DEF CountedOnce
  <1>3. CountedOnce'
    BY <1>1, <1>2, CountedKept
  <1> QED  BY <1>1, <1>3

(* A packet reaches a read in flight.                                      *)
LEMMA ArriveFlow ==
  ASSUME ShutTypes, OnTheWay, CountedOnce, Arrive
  PROVE  OnTheWay' /\ CountedOnce'
  <1> DEFINE p == Head(net)
  <1>1. sent \in Nat /\ net \in Seq(Int) /\ net # <<>> /\ Delivered \in Int
    BY DeliveredInt DEF ShutTypes, RestTypes, Arrive
  <1>2. net' = Tail(net) /\ sent' = sent
    BY DEF Arrive
  <1>3. /\ Len(net) \in Nat \ {0} /\ Len(net') = Len(net) - 1 /\ p = net[1] /\ DOMAIN net = 1 .. Len(net)
        /\ DOMAIN net' = 1 .. Len(net) - 1 /\ \A i \in 1 .. Len(net) - 1 : net'[i] = net[i + 1]
    BY <1>1, <1>2
  <1>4. 1 \in DOMAIN net /\ \A i \in 1 .. Len(net) - 1 : i + 1 \in DOMAIN net
    BY <1>3
  <1>5. Delivered' = Delivered + 1
    BY <1>1, <1>2, <1>3 DEF Delivered
  <1>6. p = Delivered + 1 /\ Delivered >= 0
    BY <1>1, <1>3, <1>4 DEF OnTheWay, Delivered
  <1>7. \A i \in DOMAIN net' : net'[i] = Delivered' + i
    <2> SUFFICES ASSUME NEW i \in 1 .. Len(net) - 1 PROVE net'[i] = Delivered' + i
      BY <1>3
    <2>1. net[i + 1] = Delivered + (i + 1)
      BY <1>4 DEF OnTheWay
    <2> QED  BY <1>1, <1>3, <1>5, <2>1
  <1>8. Len(net') <= sent'
    BY <1>1, <1>2, <1>3 DEF OnTheWay
  <1>9. KernelRecv(p) /\ UNCHANGED <<received, processed, bytes, ring, bucket, recv, pkt>>
    BY DEF Arrive, queues, recvVars
  <1>10. p \in Int /\ Delivered' \in Int /\ Delivered <= Delivered' /\ Failed <= p /\ p <= Delivered'
    BY <1>1, <1>5, <1>6 DEF Failed
  <1> HIDE DEF p
  <1> QED  BY <1>6, <1>7, <1>8, <1>9, <1>10, KernelFlow

(* A read fails, or an empty datagram arrives.                             *)
LEMMA FaultFlow ==
  ASSUME ShutTypes, OnTheWay, CountedOnce, Fault
  PROVE  OnTheWay' /\ CountedOnce'
  <1>1. PICK p \in {Empty, Failed} : KernelRecv(p)
    BY DEF Fault, KernelFault
  <1>2. UNCHANGED <<net, sent, received, processed, bytes, ring, bucket, recv, pkt>>
    BY DEF Fault, flow, queues, recvVars
  <1>3. sent \in Nat /\ Len(net) \in Nat /\ Delivered \in Int /\ Delivered >= 0
    BY DeliveredInt DEF ShutTypes, RestTypes, OnTheWay, Delivered
  <1>4. Delivered' = Delivered
    BY <1>2 DEF Delivered
  <1>5. p \in Int /\ Failed <= p /\ p <= Delivered /\ ~(p > 0)
    BY <1>1, <1>3 DEF Empty, Failed
  <1>6. Len(net') <= sent' /\ \A i \in DOMAIN net' : net'[i] = Delivered' + i
    BY <1>2, <1>4 DEF OnTheWay
  <1>7. Delivered <= Delivered' /\ p <= Delivered' /\ Delivered' \in Int
    BY <1>3, <1>4, <1>5
  <1> QED  BY <1>1, <1>2, <1>3, <1>5, <1>6, <1>7, KernelFlow

(* recv_th takes a packet and counts it.                                   *)
LEMMA TakeFlow ==
  ASSUME ShutTypes, OnTheWay, CountedOnce, RecvTake, ~clashed'
  PROVE  OnTheWay' /\ CountedOnce'
  <1>1. PICK c : /\ TakeAndResubmit(c)
                 /\ c.pkt = Empty => recv' = "exit" /\ UNCHANGED <<received, pkt>>
                 /\ c.pkt # Empty => pkt' = c.pkt /\ received' = received + 1 /\ recv' = "feed"
    BY DEF RecvTake
  <1>2. Retaken /\ c = Head(ready)
    BY <1>1, CleanRetake DEF ShutTypes
  <1>3. /\ UNCHANGED <<net, sent, cqes, processed, bytes, ring, bucket>> /\ recv = "take"
        /\ ready # <<>> /\ ready' = Tail(ready)
    BY <1>2 DEF RecvTake, RecvOnly, Retaken, queues
  <1>4. CASE c.pkt = Empty
    <2>1. InHand' = InHand
      BY <1>1, <1>3, <1>4 DEF InHand
    <2>2. Counted' = Counted
      BY <1>3, <2>1, CountedFrame
    <2> QED  BY <1>1, <1>3, <1>4, <2>2, DropFlow
  <1>5. CASE c.pkt # Empty
    <2>1. pkt' = Head(ready).pkt /\ pkt' # Empty /\ received' = received + 1 /\ recv' = "feed"
      BY <1>1, <1>2, <1>5
    <2> QED  BY <1>3, <2>1, CountFlow
  <1> QED  BY <1>4, <1>5

(* Every step keeps the packets in order and counted once.                 *)
LEMMA StepFlow ==
  ShutTypes /\ OnTheWay /\ CountedOnce /\ [Next]_vars /\ ~clashed' => OnTheWay' /\ CountedOnce'
  <1> SUFFICES ASSUME ShutTypes, OnTheWay, CountedOnce, [Next]_vars, ~clashed'
               PROVE  OnTheWay' /\ CountedOnce'
    OBVIOUS
  <1>t. RestTypes
    BY DEF ShutTypes
  <1> DEFINE Up == UNCHANGED <<net, sent, cqes, ready, received>>
             Down == UNCHANGED <<processed, bytes, ring, bucket>>
  <1>s. ASSUME Up, Down, InHand' = InHand PROVE OnTheWay' /\ CountedOnce'
    <2>1. Counted' = Counted
      BY <1>s, CountedFrame
    <2> QED  BY <1>s, <2>1, DownFlow
  <1>1. CASE ClientSend
    BY <1>1, ClientFlow
  <1>2. CASE ClientDone \/ FillExit
    <2>1. Up /\ Down /\ InHand' = InHand
      BY <1>2 DEF ClientDone, FillExit, receiverVars, flow, recvVars, queues, InHand
    <2> QED  BY <1>s, <2>1
  <1>3. CASE Arrive
    BY <1>3, ArriveFlow
  <1>4. CASE Fault
    BY <1>4, FaultFlow
  <1>5. CASE RecvTest \/ RecvReady \/ RecvWake
    <2>1. Up /\ Down
      BY <1>5 DEF RecvTest, RecvReady, RecvWake, SubmitStaged, LoadReady, LoadBoth, LoadOnly, RecvOnly,
                  receiverVars, queues
    <2>2. recv # "feed" /\ recv' # "feed"
      BY <1>5 DEF RecvTest, RecvReady, RecvWake
    <2> QED  BY <1>s, <2>1, <2>2 DEF InHand
  <1>6. CASE RecvReap
    <2>1. Reaped /\ UNCHANGED <<net, sent, received, processed, bytes, ring, bucket>>
      BY <1>6, CleanReap DEF RecvReap, RecvOnly, queues, ShutTypes
    <2>2. recv # "feed" /\ recv' # "feed"
      BY <1>6 DEF RecvReap
    <2>3. InHand' = InHand
      BY <2>2 DEF InHand
    <2> QED  BY <2>1, <2>3, ReapFlow
  <1>7. CASE RecvTake
    BY <1>7, TakeFlow
  <1>8. CASE RecvFeed
    <2>1. Up
      BY <1>8 DEF RecvFeed, RecvOnly, receiverVars
    <2> QED  BY <1>t, <1>8, <2>1, FeedFlow, DownFlow
  <1>9. CASE ParseTest \/ ParseEmpty
    <2>1. Up /\ Down /\ InHand' = InHand
      BY <1>9 DEF ParseTest, ParseEmpty, receiverVars, flow, recvVars, queues, InHand
    <2> QED  BY <1>s, <2>1
  <1>10. CASE ParseMessage
    <2>1. Up
      BY <1>10 DEF ParseMessage, receiverVars, flow
    <2> QED  BY <1>t, <1>10, <2>1, ParseFlow, DownFlow
  <1>11. ASSUME NEW w \in Workers, RetryMove(w) PROVE OnTheWay' /\ CountedOnce'
    <2>1. Up
      BY <1>11 DEF RetryMove, receiverVars, flow
    <2> QED  BY <1>t, <1>11, <2>1, RetryFlow, DownFlow
  <1>12. CASE RetryLook \/ RetryAllEmpty
    <2>1. Up /\ Down /\ InHand' = InHand
      BY <1>12 DEF RetryLook, RetryAllEmpty, receiverVars, flow, recvVars, queues, InHand
    <2> QED  BY <1>s, <2>1
  <1>13. ASSUME NEW w \in Workers, WorkerProcess(w) PROVE OnTheWay' /\ CountedOnce'
    <2>1. Up
      BY <1>13 DEF WorkerProcess, receiverVars, flow
    <2> QED  BY <1>t, <1>13, <2>1, ProcessFlow, DownFlow
  <1>14. ASSUME NEW w \in Workers, WorkerEmpty(w) \/ WorkerLeave(w) PROVE OnTheWay' /\ CountedOnce'
    <2>1. Up /\ Down /\ InHand' = InHand
      BY <1>14 DEF WorkerEmpty, WorkerLeave, receiverVars, flow, recvVars, queues, InHand
    <2> QED  BY <1>s, <2>1
  <1>15. CASE Main
    <2>1. UNCHANGED <<net, sent, received>> /\ Down /\ InHand' = InHand
      BY <1>15 DEF Main, MainWaitDone, MainWaitReceived, MainIdle, MainStop, MainStopReceiver,
                   MainFreeSingle, MainReadyEmpty, MainReady, MainTake, MainFree, MainJoinRecv, MainJoinParse,
                   MainJoinRetry, MainJoinWorkers, MainStopFill, MainJoinFill, MainWaits, MainOnly, flow,
                   recvVars, queues, InHand
    <2>2. CASE ~MainTake
      <3>1. Up
        BY <1>15, <2>1, <2>2 DEF Main, MainWaitDone, MainWaitReceived, MainIdle, MainStop, MainStopReceiver,
                   MainFreeSingle, MainReadyEmpty, MainReady, MainFree, MainJoinRecv, MainJoinParse,
                   MainJoinRetry, MainJoinWorkers, MainStopFill, MainJoinFill, MainWaits, StopReceiver,
                   FreeSingle, DrainFree, FreeBuffer, LoadReady, LoadOnly, receiverVars
      <3> QED  BY <1>s, <2>1, <3>1
    <2>3. CASE MainTake
      <3>1. ready # <<>> /\ ready' = Tail(ready) /\ cqes' = cqes
        BY <2>3, CleanDrain DEF MainTake, Drained, ShutTypes
      <3>2. Counted' = Counted
        BY <2>1, CountedFrame
      <3> QED  BY <2>1, <3>1, <3>2, DropFlow
    <2> QED  BY <2>2, <2>3
  <1>16. CASE UNCHANGED vars
    <2>1. Up /\ Down /\ InHand' = InHand
      BY <1>16 DEF vars, receiverVars, flow, recvVars, queues, InHand
    <2> QED  BY <1>s, <2>1
  <1> QED  BY <1>1, <1>2, <1>3, <1>4, <1>5, <1>6, <1>7, <1>8, <1>9, <1>10, <1>11, <1>12, <1>13,
              <1>14, <1>15, <1>16 DEF Next, Recv, Parse, Retry, Worker

----------------------------------------------------------------------------
(* The exits.  A thread leaves when the one before it has left and its own *)
(* queue is empty; what comes to it later would be remembered as late.     *)
LEMMA InitExits == Init => BehindExits
  <1> SUFFICES ASSUME Init PROVE BehindExits
    OBVIOUS
  <1>1. parse # "exit" /\ parse_done = FALSE /\ retry # "exit" /\ main = "wait_done"
    BY DEF Init
  <1>2. \A w \in Workers : worker[w] # "exit"
    BY DEF Init
  <1> QED  BY <1>1, <1>2 DEF BehindExits

(* A thread that left leaves nothing behind.                               *)
LEMMA StepExits == ShutTypes /\ BehindExits /\ [Next]_vars => BehindExits'
  <1> SUFFICES ASSUME ShutTypes, BehindExits, [Next]_vars PROVE BehindExits'
    OBVIOUS
  <1>t. /\ ring \in [Workers -> Seq(Int)] /\ bucket \in [Workers -> Seq(Int)]
        /\ worker \in [Workers -> {"run", "empty", "exit"}] /\ retry \in {"run", "exit"}
        /\ bytes \in Seq(Int)
    BY DEF ShutTypes, RestTypes
  <1> DEFINE Feed == UNCHANGED <<parse, lateFeed, bytes, recv>>
             Done == UNCHANGED <<parse_done, parse>>
             Queue == UNCHANGED <<ring, bucket>>
             Exits == UNCHANGED <<retry, worker, early, main>>
  <1>1. CASE ClientSend \/ ClientDone \/ Arrive \/ Fault \/ FillExit \/ UNCHANGED vars
    <2>1. Feed /\ Done /\ Queue /\ Exits
      BY <1>1 DEF ClientSend, ClientDone, Arrive, Fault, FillExit, vars, receiverVars, flow, flags,
                  recvVars, queues, retryVars, late
    <2> QED  BY <2>1 DEF BehindExits
  <1>2. CASE RecvTest \/ RecvReady \/ RecvWake \/ RecvReap
    <2>1. UNCHANGED <<parse, lateFeed, bytes>> /\ Done /\ Queue /\ Exits
      BY <1>2 DEF RecvTest, RecvReady, RecvWake, RecvReap, RecvOnly, flags, queues, retryVars
    <2>2. recv' # "feed"
      BY <1>2 DEF RecvTest, RecvReady, RecvWake, RecvReap
    <2> QED  BY <2>1, <2>2 DEF BehindExits
  <1>3. CASE RecvTake
    <2>1. UNCHANGED <<parse, bytes>> /\ Done /\ Queue /\ Exits
      BY <1>3 DEF RecvTake, RecvOnly, flags, queues, retryVars
    <2>2. parse = "exit" /\ ~lateFeed' => recv' # "feed" /\ ~lateFeed
      BY <1>3 DEF RecvTake
    <2> QED  BY <2>1, <2>2 DEF BehindExits
  <1>4. CASE RecvFeed
    <2>1. UNCHANGED <<parse, lateFeed>> /\ Done /\ Queue /\ Exits /\ recv = "feed"
      BY <1>4 DEF RecvFeed, RecvOnly, flags, queues, retryVars
    <2> QED  BY <2>1 DEF BehindExits
  <1>5. CASE ParseTest
    <2>1. UNCHANGED <<lateFeed, bytes, recv, parse_done>> /\ Queue /\ Exits
      BY <1>5 DEF ParseTest, flags, recvVars, queues, retryVars, late
    <2>2. parse # "exit" /\ parse' # "exit"
      BY <1>5 DEF ParseTest
    <2> QED  BY <2>1, <2>2 DEF BehindExits
  <1>6. CASE ParseEmpty
    <2>1. UNCHANGED <<bytes, recv, parse_done>> /\ Queue /\ Exits
      BY <1>6 DEF ParseEmpty, flags, recvVars, queues, retryVars
    <2>2. parse # "exit" /\ bytes = <<>> /\ (parse' = "exit" /\ ~lateFeed' => recv # "feed")
      BY <1>6 DEF ParseEmpty
    <2> QED  BY <2>1, <2>2 DEF BehindExits
  <1>7. CASE ParseMessage
    <2>1. UNCHANGED <<parse, lateFeed, recv, parse_done>> /\ Exits /\ parse # "exit"
      BY <1>7 DEF ParseMessage, flags, recvVars, retryVars, late
    <2>2. ~parse_done
      BY <2>1 DEF BehindExits
    <2>3. retry # "exit" /\ \A w \in Workers : worker[w] # "exit"
      BY <2>2 DEF BehindExits
    <2> QED  BY <2>1, <2>2, <2>3 DEF BehindExits
  <1>8. ASSUME NEW w \in Workers, RetryMove(w) PROVE BehindExits'
    <2>1. Feed /\ Done /\ Exits /\ retry # "exit" /\ bucket[w] # <<>>
      BY <1>8 DEF RetryMove, flags, recvVars, late
    <2>2. \A v \in Workers : v # w => ring'[v] = ring[v] /\ bucket'[v] = bucket[v]
      BY <1>t, <1>8 DEF RetryMove
    <2>3. ~early => worker[w] # "exit"
      BY <2>1 DEF BehindExits
    <2>4. ~early' => \A v \in Workers : worker'[v] = "exit" => ring'[v] = <<>> /\ bucket'[v] = <<>>
      BY <2>1, <2>2, <2>3 DEF BehindExits
    <2> QED  BY <2>1, <2>4 DEF BehindExits
  <1>9. CASE RetryLook \/ RetryAllEmpty
    <2>1. Feed /\ Done /\ Queue /\ UNCHANGED <<worker, main>>
      BY <1>9 DEF RetryLook, RetryAllEmpty, flags, recvVars, queues, late
    <2>2. CASE RetryLook
      BY <2>1, <2>2 DEF RetryLook, BehindExits, late
    <2>3. CASE RetryAllEmpty
      <3>1. /\ ~early' => ~early
            /\ ~early' /\ retry' = "exit" => \A w \in Workers : bucket[w] = <<>>
        BY Zenon, <2>3 DEF RetryAllEmpty
      <3>2. retry' = "exit" => parse_done
        BY <2>3 DEF RetryAllEmpty
      <3> QED  BY <2>1, <3>1, <3>2 DEF BehindExits
    <2> QED  BY <1>9, <2>2, <2>3
  <1>10. ASSUME NEW w \in Workers, WorkerProcess(w) PROVE BehindExits'
    <2>1. Feed /\ Done /\ Exits /\ worker[w] # "exit" /\ bucket' = bucket
      BY <1>10 DEF WorkerProcess, flags, recvVars, retryVars, late
    <2>2. \A v \in Workers : v # w => ring'[v] = ring[v]
      BY <1>t, <1>10 DEF WorkerProcess
    <2> QED  BY <2>1, <2>2 DEF BehindExits
  <1>11. ASSUME NEW w \in Workers, WorkerEmpty(w) \/ WorkerLeave(w) PROVE BehindExits'
    <2>0. ~early' => ~early
      BY Zenon, <1>11 DEF WorkerEmpty, WorkerLeave, late
    <2>1. Feed /\ Done /\ Queue /\ UNCHANGED <<retry, main>>
      BY <1>11 DEF WorkerEmpty, WorkerLeave, flags, recvVars, queues, retryVars, late
    <2>2. \A v \in Workers : v # w => worker'[v] = worker[v]
      BY <1>t, <1>11 DEF WorkerEmpty, WorkerLeave
    <2>3. /\ worker[w] # "exit"
          /\ worker'[w] = "exit" => parse_done /\ (~early' => ring[w] = <<>> /\ bucket[w] = <<>>)
      <3>1. CASE WorkerEmpty(w)
        BY <1>t, <3>1 DEF WorkerEmpty
      <3>2. CASE WorkerLeave(w)
        <4>1. worker'[w] = "exit" => parse_done
          BY <1>t, <3>2 DEF WorkerLeave
        <4>2. worker[w] # "exit"
          BY <3>2 DEF WorkerLeave
        <4>3. parse_done /\ ~early' => ring[w] = <<>> /\ bucket[w] = <<>>
          BY Zenon, <3>2 DEF WorkerLeave
        <4> QED  BY <4>1, <4>2, <4>3
      <3> QED  BY <1>11, <3>1, <3>2
    <2>4. \A v \in Workers : worker[v] = "exit" => worker'[v] = "exit"
      BY <2>2, <2>3
    <2>5. \A v \in Workers : worker'[v] = "exit" => worker[v] = "exit" \/ v = w
      BY <2>2
    <2> QED  BY <2>0, <2>1, <2>3, <2>4, <2>5 DEF BehindExits
  <1>12. CASE Main
    <2>1. Feed /\ Queue /\ UNCHANGED <<parse, retry, worker, early>>
      BY <1>12 DEF Main, MainWaitDone, MainWaitReceived, MainIdle, MainStop, MainStopReceiver,
                   MainFreeSingle, MainReadyEmpty, MainReady, MainTake, MainFree, MainJoinRecv, MainJoinParse, MainJoinRetry,
                   MainJoinWorkers, MainStopFill, MainJoinFill, MainWaits, MainGo, MainOnly, flow, recvVars, queues,
                   retryVars, late
    <2>2. parse_done' = parse_done \/ (parse_done' = TRUE /\ parse = "exit")
      BY <1>12 DEF Main, MainWaitDone, MainWaitReceived, MainIdle, MainStop, MainStopReceiver,
                   MainFreeSingle, MainReadyEmpty, MainReady, MainTake, MainFree, MainJoinRecv, MainJoinParse, MainJoinRetry,
                   MainJoinWorkers, MainStopFill, MainJoinFill, MainWaits, MainGo, MainOnly, flags
    <2>3. main' \in {"stop_fill", "join_fill", "end"} =>
            main \in {"stop_fill", "join_fill", "end"} \/ \A w \in Workers : worker[w] = "exit"
      BY <1>12 DEF Main, MainWaitDone, MainWaitReceived, MainIdle, MainStop, MainStopReceiver,
                   MainFreeSingle, MainReadyEmpty, MainReady, MainTake, MainFree, MainJoinRecv, MainJoinParse, MainJoinRetry,
                   MainJoinWorkers, MainStopFill, MainJoinFill, MainWaits, MainGo, MainOnly
    <2> QED  BY <2>1, <2>2, <2>3 DEF BehindExits
  <1> QED  BY <1>1, <1>2, <1>3, <1>4, <1>5, <1>6, <1>7, <1>8, <1>9, <1>10, <1>11, <1>12
           DEF Next, Recv, Parse, Retry, Worker

(* No packet was sent yet.                                                 *)
LEMMA InitHandshake == Init => Handshake
  BY ShutdownAssumption DEF Init, Handshake

(* Every step keeps what the handshake promises.                           *)
LEMMA StepHandshake == ShutTypes /\ Handshake /\ [Next]_vars => Handshake'
  <1> SUFFICES ASSUME ShutTypes, Handshake, [Next]_vars PROVE Handshake'
    OBVIOUS
  <1>t. sent \in Nat /\ received \in Nat /\ MaxPackets \in Nat
    BY ShutdownAssumption DEF ShutTypes, RestTypes
  <1>1. CASE ClientSend
    <2>1. UNCHANGED <<shm, received, done, main>> /\ sent' = sent + 1 /\ sent < MaxPackets /\ ~done
      BY <1>1 DEF ClientSend
    <2>2. main = "wait_done" \/ ~shm
      BY <2>1 DEF Handshake
    <2> QED  BY <1>t, <2>1, <2>2 DEF Handshake
  <1>2. CASE ClientDone
    BY <1>2 DEF ClientDone, Handshake
  <1>3. CASE Arrive \/ Fault \/ Parse \/ Retry \/ FillExit \/ UNCHANGED vars
    <2>1. UNCHANGED <<shm, sent, received, done, main>>
      BY <1>3 DEF Arrive, Fault, Parse, ParseTest, ParseMessage, ParseEmpty, Retry, RetryMove,
                  RetryLook, RetryAllEmpty, FillExit, vars, flow
    <2> QED  BY <2>1 DEF Handshake
  <1>4. CASE \E w \in Workers : Worker(w)
    <2>1. UNCHANGED <<shm, sent, received, done, main>>
      BY <1>4 DEF Worker, WorkerProcess, WorkerEmpty, WorkerLeave, flow
    <2> QED  BY <2>1 DEF Handshake
  <1>5. CASE Recv
    <2>1. UNCHANGED <<shm, sent, done, main>>
      BY <1>5 DEF Recv, RecvTest, RecvReady, RecvWake, RecvReap, RecvTake, RecvFeed, RecvOnly
    <2>2. received' = received \/ received' = received + 1
      BY <1>5 DEF Recv, RecvTest, RecvReady, RecvWake, RecvReap, RecvTake, RecvFeed
    <2>3. received >= sent => received' >= sent
      BY <1>t, <2>2
    <2> QED  BY <2>1, <2>3 DEF Handshake
  <1>6. CASE Main
    <2>1. UNCHANGED <<shm, sent, received, done>>
      BY <1>6 DEF Main, MainWaitDone, MainWaitReceived, MainIdle, MainStop, MainStopReceiver,
                   MainFreeSingle, MainReadyEmpty, MainReady, MainTake, MainFree, MainJoinRecv, MainJoinParse, MainJoinRetry,
                   MainJoinWorkers, MainStopFill, MainJoinFill, MainWaits, MainGo, MainOnly, flow
    <2>2. \/ main' = "wait_received" /\ done
          \/ main = "wait_received" /\ received >= sent
          \/ main = "wait_done" /\ ~shm
          \/ main' = main
          \/ main \notin {"wait_done", "wait_received"}
      BY <1>6 DEF Main, MainWaitDone, MainWaitReceived, MainIdle, MainStop, MainStopReceiver,
                   MainFreeSingle, MainReadyEmpty, MainReady, MainTake, MainFree, MainJoinRecv, MainJoinParse, MainJoinRetry,
                   MainJoinWorkers, MainStopFill, MainJoinFill, MainWaits, MainGo, MainOnly
    <2> QED  BY <2>1, <2>2 DEF Handshake
  <1> QED  BY <1>1, <1>2, <1>3, <1>4, <1>5, <1>6 DEF Next

(* The types, the flow of the packets, the exits and the handshake hold in *)
(* every reachable state.                                                  *)
ShutInv == ShutTypes /\ OnTheWay /\ CountedOnce /\ BehindExits /\ Handshake

(* The inductive invariant of the stop sequence, as long as no two calls   *)
(* on the poller overlapped.                                               *)
THEOREM ShutdownInvariant == Spec => [](~clashed => ShutInv)
  <1> DEFINE Inv == ~clashed => ShutInv
  <1>1. Init => Inv
    BY InitTypes, InitFlow, InitExits, InitHandshake DEF ShutInv
  <1>2. Inv /\ [Next]_vars => Inv'
    BY ClashedStays, StepTypes, StepFlow, StepExits, StepHandshake DEF ShutInv
  <1> HIDE DEF Inv
  <1>3. Spec => []Inv
    BY <1>1, <1>2, PTL DEF Spec
  <1> QED  BY <1>3 DEF Inv

(* main.cpp: for any number of packets, workers and places in the queues,  *)
(* every packet counted is processed or still waits for the next stage;    *)
(* the last join leaves none waiting, and with the handshake every packet  *)
(* that was sent processed, unless a stage had left while there still was  *)
(* something for it, or calls on the poller had overlapped.                *)
THEOREM EveryPacketProcessed == Spec => []AllProcessedUnlessLate
  <1> DEFINE Inv == ~clashed => ShutInv
  <1>1. Inv => AllProcessedUnlessLate
    <2> SUFFICES ASSUME ShutInv, ~clashed
                 PROVE  /\ Cardinality(processed \cup Waiting) = received
                        /\ main = "end" /\ ~deaf /\ ~lateFeed /\ ~early
                             => Waiting = {} /\ (shm => processed = Packets)
      BY DEF AllProcessedUnlessLate
    <2>1. Counted = processed \cup Waiting
      BY DEF Counted, Waiting, Held
    <2>2. Cardinality(processed \cup Waiting) = received /\ processed \subseteq 1 .. Delivered
      BY <2>1 DEF ShutInv, CountedOnce
    <2>3. ASSUME main = "end", ~lateFeed, ~early PROVE Waiting = {} /\ (shm => processed = Packets)
      <3>1. \A w \in Workers : worker[w] = "exit" /\ ring[w] = <<>> /\ bucket[w] = <<>>
        BY <2>3 DEF ShutInv, BehindExits
      <3>2. 0 \in Workers
        BY ShutdownAssumption DEF Workers
      <3>3. bytes = <<>> /\ recv # "feed"
        BY <2>3, <3>1, <3>2 DEF ShutInv, BehindExits
      <3>4. Range(<<>>) = {}
        BY DEF Range
      <3>5. Waiting = {}
        BY <3>1, <3>3, <3>4 DEF Waiting, InHand
      <3>6. Cardinality(processed) = received
        <4>1. processed \cup {} = processed
          OBVIOUS
        <4> QED  BY <2>2, <3>5, <4>1
      <3>7. ASSUME shm PROVE processed = Packets
        <4>1. received >= sent /\ sent = MaxPackets /\ MaxPackets \in Nat
          BY <2>3, <3>7, ShutdownAssumption DEF ShutInv, Handshake
        <4>2. sent \in Nat /\ received \in Nat /\ Len(net) \in Nat
          BY DeliveredInt DEF ShutInv, ShutTypes, RestTypes
        <4>3. processed \subseteq Packets
          <5>1. 1 .. Delivered \subseteq 1 .. MaxPackets
            BY <4>1, <4>2 DEF Delivered
          <5> QED  BY <2>2, <5>1 DEF Packets
        <4>4. IsFiniteSet(Packets) /\ Cardinality(Packets) = MaxPackets
          BY <4>1, FS_Interval DEF Packets
        <4>5. Cardinality(processed) <= MaxPackets
          BY <4>3, <4>4, FS_Subset
        <4>6. Cardinality(Packets) = Cardinality(processed)
          BY <3>6, <4>1, <4>2, <4>4, <4>5
        <4> QED  BY <4>3, <4>4, <4>6, FS_Subset
      <3> QED  BY <3>5, <3>7
    <2> QED  BY <2>2, <2>3
  <1>2. Spec => []Inv
    BY ShutdownInvariant DEF Inv
  <1> HIDE DEF Inv
  <1> QED  BY <1>1, <1>2, PTL
============================================================================
