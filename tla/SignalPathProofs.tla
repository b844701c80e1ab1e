-------------------------- MODULE SignalPathProofs --------------------------
(***************************************************************************)
(* Proofs about the pacing of BookWorker::process (main.cpp) and the vote  *)
(* of arbitrate.h: for every set of symbols, window, weights, thresholds,  *)
(* strength step and limit, a worker's orders on one side are bounded, and *)
(* its memory of the last order never locks it out of both directions.     *)
(***************************************************************************)
EXTENDS SignalPath, SequenceTheorems, SumLemmas

Dirs      == {"BUY", "SELL", "NONE"}
Places    == Symbols \cup {NoLocate}
Strengths == 0 .. kStrengthScale
Signals   == [side : Dirs, locate : Places, strength : Strengths]
Sent      == [side : {"BUY", "SELL"}, locate : Places, qty : Nat \ {0}]

SignalTypes ==
  /\ ofi \in [win : [0 .. kWindow - 1 -> Int], widx : Nat, ofi : Int, side : Dirs,
              locate : Places, strength : Strengths]
  /\ obi \in Signals /\ decision \in Signals
  /\ last \in [side : Dirs, strength : Int]
  /\ pos \in [Places -> Nat]
  /\ flight \in Seq(Sent)
  /\ burst \in Nat

(* What arbitrate decided is still due when submit_signal is called: only  *)
(* this worker changes its memory of the last order.                       *)
DecisionDue ==
  decision # None => decision.side # "NONE" /\ Due(decision.side, decision.strength)

(* Every further order of a burst is a step stronger than the one before,  *)
(* and the first one has a strength of at least 1, or its quantity was 0.  *)
BurstClimbs ==
  /\ burst = 0 => last.side = "NONE"
  /\ burst > 0 => /\ last.side # "NONE"
                  /\ 1 + (burst - 1) * kStrengthStep <= last.strength
                  /\ last.strength <= kStrengthScale

PacingInv == SignalTypes /\ DecisionDue /\ BurstClimbs

----------------------------------------------------------------------------
(* As long as nothing disturbed the worker: each symbol has one order at   *)
(* most, which the limits still admit.                                     *)
OnePerSymbol ==
  /\ \A i \in DOMAIN flight : flight[i].locate \in Symbols
  /\ \A i, j \in DOMAIN flight : flight[i].locate = flight[j].locate => i = j

WithinLimits ==
  /\ \A s \in Places : pos[s] <= MaxPosition
  /\ \A i \in DOMAIN flight :
       IF flight[i].side = "BUY"
       THEN pos[flight[i].locate] + flight[i].qty <= MaxPosition
       ELSE flight[i].qty <= pos[flight[i].locate]

Underway(s, dir) == \E i \in DOMAIN flight : flight[i].locate = s /\ flight[i].side = dir

Only(s, dir) == \A i \in DOMAIN flight : flight[i].locate = s => flight[i].side = dir

(* The symbol of the last order is the way out: a purchase leaves, or will *)
(* leave, something to sell there, and a sale some room to buy.            *)
WayOut ==
  /\ last.side = "NONE" => flight = <<>> /\ \A s \in Places : pos[s] = 0
  /\ last.side = "BUY" =>
       \E s \in Symbols : Only(s, "BUY") /\ (pos[s] > 0 \/ Underway(s, "BUY"))
  /\ last.side = "SELL" =>
       \E s \in Symbols : Only(s, "SELL") /\ (pos[s] < MaxPosition \/ Underway(s, "SELL"))

Settled == ~disturbed => OnePerSymbol /\ WithinLimits /\ WayOut

SignalInv == PacingInv /\ Settled

----------------------------------------------------------------------------
(* Arithmetic of the strengths.                                            *)
LEMMA Quotient ==
  ASSUME NEW a \in Nat, NEW b \in Nat \ {0}
  PROVE  a \div b \in Nat /\ b * (a \div b) <= a /\ a < b * (a \div b) + b
  <1>1. a = b * (a \div b) + (a % b) /\ a % b \in 0 .. b - 1 /\ a \div b \in Nat
    OBVIOUS
  <1> QED  BY <1>1

(* Multiplying keeps an order.                                             *)
LEMMA Grows ==
  ASSUME NEW b \in Nat, NEW x \in Int, NEW y \in Int, x <= y
  PROVE  b * x <= b * y
  OBVIOUS

(* A quotient is at most what its dividend allows.                         *)
LEMMA QuotientBound ==
  ASSUME NEW a \in Nat, NEW b \in Nat \ {0}, NEW c \in Nat, a <= b * c
  PROVE  a \div b \in 0 .. c
  <1> DEFINE q == a \div b
  <1>1. q \in Nat /\ b * q <= a
    BY Quotient
  <1> HIDE DEF q
  <1>2. ASSUME q >= c + 1 PROVE FALSE
    <2>1. b * (c + 1) <= b * q
      BY <1>1, <1>2, Grows
    <2>2. b * (c + 1) = b * c + b
      OBVIOUS
    <2> QED  BY <1>1, <2>1, <2>2
  <1>3. q \in 0 .. c
    BY <1>1, <1>2
  <1> QED  BY <1>3 DEF q

(* A number whose multiple fits is at most the quotient.                   *)
LEMMA MultipleBound ==
  ASSUME NEW a \in Nat, NEW b \in Nat \ {0}, NEW c \in Int, b * c <= a
  PROVE  c <= a \div b
  <1> DEFINE q == a \div b
  <1>1. q \in Nat /\ a < b * q + b
    BY Quotient
  <1> HIDE DEF q
  <1>2. ASSUME c >= q + 1 PROVE FALSE
    <2>1. b * (q + 1) <= b * c
      BY <1>1, <1>2, Grows
    <2>2. b * (q + 1) = b * q + b
      BY <1>1
    <2> QED  BY <1>1, <2>1, <2>2
  <1>3. c <= q
    BY <1>1, <1>2
  <1> QED  BY <1>3 DEF q

(* The absolute value is a natural number.                                 *)
LEMMA AbsType == ASSUME NEW x \in Int PROVE Abs(x) \in Nat
  BY DEF Abs

(* A share below the whole of b, of a scale of c.                          *)
LEMMA ShareType ==
  ASSUME NEW x \in Nat, NEW b \in Nat \ {0}, NEW c \in Nat, x <= b
  PROVE  (x * c) \div b \in 0 .. c
  <1>1. x * c \in Nat /\ x * c <= b * c
    <2>1. c * x <= c * b
      BY Grows
    <2> QED  BY <2>1
  <1> QED  BY <1>1, QuotientBound

----------------------------------------------------------------------------
(* The strategies and the vote.                                            *)
LEMMA DirectionType ==
  ASSUME NEW x, NEW t PROVE Direction(x, t) \in Dirs
  BY DEF Direction, Dirs

(* A strength of the order-flow strategy is on the scale.                  *)
LEMMA OfiStrengthType ==
  ASSUME NEW x \in Int
  PROVE  OfiStrength(x) \in Strengths
  <1> DEFINE over == Abs(x) - OfiThreshold
  <1>1. over \in Int /\ OfiThreshold \in Nat \ {0} /\ kStrengthScale \in Nat
    BY AbsType, SignalAssumption
  <1>2. OfiStrength(x) = IF over <= 0 THEN 0
                         ELSE IF over >= OfiThreshold THEN kStrengthScale
                         ELSE (over * kStrengthScale) \div OfiThreshold
    <2> HIDE DEF over
    <2>1. ASSUME over <= 0 PROVE ~(over >= OfiThreshold)
      BY <1>1, <2>1
    <2> QED  BY <2>1 DEF OfiStrength, over
  <1> HIDE DEF over
  <1>3. over > 0 /\ ~(over >= OfiThreshold) =>
          (over * kStrengthScale) \div OfiThreshold \in 0 .. kStrengthScale
    BY <1>1, ShareType
  <1> QED  BY <1>1, <1>2, <1>3 DEF Strengths

(* The fields of an event.                                                 *)
LEMMA EventType ==
  ASSUME NEW ev \in Events
  PROVE  /\ ev.side \in Dirs /\ ev.locate \in Symbols /\ ev.shares \in Nat
         /\ ev.top[1] \in Nat /\ ev.top[2] \in Nat
         /\ Delta(ev) \in Int
  <1>1. ev.side \in Dirs /\ ev.locate \in Symbols /\ ev.shares \in Sizes /\ ev.top \in Tops
    BY DEF Events, SidesOf, Dirs
  <1>2. ev.shares \in Nat /\ ev.top \in Nat \X Nat
    BY <1>1, SignalAssumption
  <1>3. Sign(ev.side) \in Int
    BY DEF Sign
  <1>4. Delta(ev) \in Int
    <2> DEFINE s == Sign(ev.side) * ev.shares
    <2>1. s \in Int
      BY <1>2, <1>3
    <2> HIDE DEF s
    <2> QED  BY <2>1 DEF Delta, s
  <1> QED  BY <1>1, <1>2, <1>4

(* on_market_event of the order-flow strategy keeps its fields' types.     *)
LEMMA OfiType ==
  ASSUME SignalTypes, NEW ev \in Events
  PROVE  OfiOnMarket(ofi, ev) \in
           [win : [0 .. kWindow - 1 -> Int], widx : Nat, ofi : Int, side : Dirs,
            locate : Places, strength : Strengths]
  <1>1. CASE ev.side = "NONE"
    BY <1>1 DEF OfiOnMarket, SignalTypes
  <1>2. CASE ev.side # "NONE"
    <2> DEFINE d == Delta(ev)
               k == ofi.widx % kWindow
               old == IF ofi.widx < kWindow THEN 0 ELSE ofi.win[k]
               s == Slide(ofi, d)
               W == [ofi.win EXCEPT ![k] = d]
               t == [s EXCEPT !.locate = ev.locate, !.side = Direction(s.ofi, OfiThreshold),
                              !.strength = OfiStrength(s.ofi)]
    <2>1. /\ ofi.win \in [0 .. kWindow - 1 -> Int] /\ ofi.widx \in Nat /\ ofi.ofi \in Int
          /\ kWindow \in Nat \ {0}
      BY SignalAssumption DEF SignalTypes
    <2>2. k \in 0 .. kWindow - 1
      BY <2>1
    <2>3. d \in Int /\ ev.locate \in Places
      BY EventType DEF Places
    <2> HIDE DEF d, k
    <2>4. old \in Int /\ ofi.ofi + d - old \in Int
      BY <2>1, <2>2, <2>3
    <2>5. W \in [0 .. kWindow - 1 -> Int]
      BY <2>1, <2>2, <2>3
    <2> DEFINE n == ofi.widx + 1
               z == ofi.ofi + d - old
    <2>6. s = [ofi EXCEPT !.win = W, !.widx = n, !.ofi = z]
      BY DEF Slide, k, SignalTypes
    <2>10. n \in Nat /\ z \in Int
      BY <2>1, <2>4
    <2> HIDE DEF W, old, s, n, z
    <2>7. s \in [win : [0 .. kWindow - 1 -> Int], widx : Nat, ofi : Int, side : Dirs,
                 locate : Places, strength : Strengths]
      BY <2>5, <2>6, <2>10 DEF SignalTypes
    <2>8. Direction(s.ofi, OfiThreshold) \in Dirs /\ OfiStrength(s.ofi) \in Strengths
      BY <2>7, DirectionType, OfiStrengthType
    <2>9. OfiOnMarket(ofi, ev) = t
      BY <1>2 DEF OfiOnMarket, s, d
    <2> QED  BY <2>3, <2>7, <2>8, <2>9
  <1> QED  BY <1>1, <1>2

(* on_market_event of the imbalance strategy gives a signal.               *)
LEMMA ObiType ==
  ASSUME NEW ev \in Events
  PROVE  ObiOnMarket(ev) \in Signals
  <1> DEFINE bid == ev.top[1]
             ask == ev.top[2]
             mag == (Abs(bid - ask) * kStrengthScale) \div (bid + ask)
  <1>1. bid \in Nat /\ ask \in Nat /\ ev.locate \in Places /\ kStrengthScale \in Nat
        /\ ObiThreshold \in Nat
    BY EventType, SignalAssumption DEF Places
  <1>2. CASE bid + ask = 0
    BY <1>1, <1>2 DEF ObiOnMarket, Signals, Dirs, Strengths
  <1>3. CASE bid + ask # 0
    <2> DEFINE str == IF mag >= ObiThreshold THEN kStrengthScale
                      ELSE (mag * kStrengthScale) \div (ObiThreshold + 1)
               dir == Direction(IF bid < ask THEN -mag ELSE mag, ObiThreshold)
    <2>1. mag \in Nat
      <3> DEFINE n == Abs(bid - ask)
      <3>1. n \in Nat
        BY <1>1, AbsType
      <3>2. bid + ask \in Nat \ {0}
        BY <1>1, <1>3
      <3> HIDE DEF n, bid, ask
      <3>3. n * kStrengthScale \in Nat
        BY <1>1, <3>1
      <3> QED  BY <3>2, <3>3, Quotient DEF n
    <2>2. ObiOnMarket(ev) = [side |-> dir, locate |-> ev.locate, strength |-> str]
      BY <1>3 DEF ObiOnMarket
    <2> HIDE DEF mag
    <2>3. str \in Strengths
      <3>1. CASE mag >= ObiThreshold
        BY <3>1, <1>1 DEF Strengths
      <3>2. CASE ~(mag >= ObiThreshold)
        <4>1. mag <= ObiThreshold + 1 /\ ObiThreshold + 1 \in Nat \ {0}
          BY <1>1, <2>1, <3>2
        <4> QED  BY <1>1, <2>1, <3>2, <4>1, ShareType DEF Strengths
      <3> QED  BY <3>1, <3>2
    <2>4. dir \in Dirs
      BY DirectionType
    <2> HIDE DEF str, dir
    <2> QED  BY <1>1, <2>2, <2>3, <2>4 DEF Signals
  <1> QED  BY <1>2, <1>3

(* arbitrate_decide returns a weighted mean of the strengths it is given.  *)
LEMMA DecideType ==
  ASSUME NEW x \in Signals, NEW y \in Signals
  PROVE  Decide(<<x, y>>) \in Signals
  <1> DEFINE sigs == <<x, y>>
             net == Total([i \in 1 .. 2 |-> Sign(sigs[i].side) * Weights[i]])
             dir == Direction(net, VoteThreshold)
             w == [i \in 1 .. 2 |-> IF sigs[i].side = dir THEN Weights[i] ELSE 0]
             sumW == Total(w)
             sumS == Total([i \in 1 .. 2 |-> sigs[i].strength * w[i]])
             str == IF sumW > 0 THEN sumS \div sumW ELSE 0
  <1>1. Decide(sigs) = [side |-> dir, locate |-> sigs[Primary].locate, strength |-> str]
    BY DEF Decide
  <1>2. dir \in Dirs
    BY DirectionType
  <1> HIDE DEF dir
  <1>3. w[1] \in Nat /\ w[2] \in Nat
    BY SignalAssumption
  <1>4. sumW = w[1] + w[2] /\ sumS = x.strength * w[1] + y.strength * w[2]
    BY DEF Total
  <1>5. x.strength \in 0 .. kStrengthScale /\ y.strength \in 0 .. kStrengthScale
        /\ kStrengthScale \in Nat
    BY SignalAssumption DEF Signals, Strengths
  <1> HIDE DEF w, sumW, sumS
  <1>6. str \in Strengths
    <2>1. CASE sumW > 0
      <3>1. PICK u \in Nat, v \in Nat, m \in Nat, n \in Nat :
               u = w[1] /\ v = w[2] /\ m = x.strength /\ n = y.strength
        BY <1>3, <1>5
      <3>2. u * m <= u * kStrengthScale /\ v * n <= v * kStrengthScale
        BY <1>5, <3>1, Grows
      <3>3. m * u + n * v \in Nat /\ m * u + n * v <= (u + v) * kStrengthScale
        <4>1. /\ m * u = u * m /\ n * v = v * n /\ u * m \in Nat /\ v * n \in Nat
              /\ u * kStrengthScale \in Nat /\ v * kStrengthScale \in Nat
              /\ (u + v) * kStrengthScale = u * kStrengthScale + v * kStrengthScale
          BY <1>5
        <4> QED  BY <3>2, <4>1
      <3>4. u + v \in Nat \ {0}
        BY <1>4, <2>1, <3>1
      <3>5. (m * u + n * v) \div (u + v) \in 0 .. kStrengthScale
        BY <1>5, <3>3, <3>4, QuotientBound
      <3> QED  BY <1>4, <2>1, <3>1, <3>5 DEF Strengths
    <2>2. CASE ~(sumW > 0)
      BY <2>2, <1>5 DEF Strengths
    <2> QED  BY <2>1, <2>2
  <1>7. sigs[Primary].locate \in Places
    BY SignalAssumption DEF Signals
  <1> HIDE DEF str, sigs
  <1> QED  BY <1>1, <1>2, <1>6, <1>7 DEF Signals, sigs

----------------------------------------------------------------------------
(* Submit, Fill and Refuse: the orders at the exchange.                    *)
LEMMA QtyType ==
  ASSUME NEW d \in Signals, Qty(d) # 0
  PROVE  Qty(d) \in Nat \ {0} /\ d.strength >= 1
  <1>1. d.strength \in Nat /\ BaseQty \in Nat /\ kStrengthScale \in Nat \ {0}
    BY SignalAssumption DEF Signals, Strengths
  <1> DEFINE n == BaseQty * d.strength
  <1>2. n \in Nat
    BY <1>1
  <1>3. Qty(d) = n \div kStrengthScale
    BY DEF Qty
  <1> HIDE DEF n
  <1>4. Qty(d) \in Nat \ {0}
    BY <1>1, <1>2, <1>3, Quotient
  <1>5. ASSUME d.strength = 0 PROVE FALSE
    <2>1. n = 0
      BY <1>1, <1>5 DEF n
    <2>2. 0 \div kStrengthScale \in 0 .. 0
      BY <1>1, QuotientBound
    <2> QED  BY <1>3, <1>4, <2>1, <2>2
  <1> QED  BY <1>1, <1>4, <1>5

(* Without takes one element out and keeps the order of the others.        *)
LEMMA WithoutIs ==
  ASSUME flight \in Seq(Sent), NEW i \in DOMAIN flight
  PROVE  /\ Without(i) \in Seq(Sent)
         /\ DOMAIN Without(i) = 1 .. Len(flight) - 1
         /\ \A j \in 1 .. Len(flight) - 1 :
              Without(i)[j] = flight[IF j < i THEN j ELSE j + 1]
  <1> DEFINE a == SubSeq(flight, 1, i - 1)
             z == SubSeq(flight, i + 1, Len(flight))
  <1>1. PICK n \in Nat : n = Len(flight)
    OBVIOUS
  <1>2. i \in 1 .. n
    BY <1>1
  <1>3. /\ a \in Seq(Sent) /\ Len(a) = i - 1
        /\ \A j \in 1 .. i - 1 : a[j] = flight[j]
    BY <1>1, <1>2
  <1>4. /\ z \in Seq(Sent) /\ Len(z) = n - i
        /\ \A j \in 1 .. n - i : z[j] = flight[i + j]
    BY <1>1, <1>2
  <1>5. Without(i) = a \o z
    BY DEF Without
  <1> HIDE DEF a, z
  <1> DEFINE y == a \o z
  <1>9. /\ y \in Seq(Sent) /\ Len(y) = Len(a) + Len(z)
        /\ \A j \in 1 .. Len(a) + Len(z) : y[j] = IF j <= Len(a) THEN a[j] ELSE z[j - Len(a)]
    BY <1>3, <1>4, ConcatProperties
  <1> HIDE DEF y
  <1>10. Len(a) + Len(z) = n - 1
    BY <1>2, <1>3, <1>4
  <1>6. Without(i) \in Seq(Sent) /\ Len(Without(i)) = n - 1
    BY <1>5, <1>9, <1>10 DEF y
  <1>7. \A j \in 1 .. n - 1 :
          Without(i)[j] = IF j <= Len(a) THEN a[j] ELSE z[j - Len(a)]
    BY <1>5, <1>9, <1>10 DEF y
  <1>8. ASSUME NEW j \in 1 .. n - 1
        PROVE  Without(i)[j] = flight[IF j < i THEN j ELSE j + 1]
    <2>1. CASE j < i
      BY <1>2, <1>3, <1>7, <2>1
    <2>2. CASE ~(j < i)
      <3>1. j - (i - 1) \in 1 .. n - i /\ i + (j - (i - 1)) = j + 1 /\ ~(j <= i - 1)
        BY <1>2, <2>2
      <3>2. Without(i)[j] = z[j - (i - 1)]
        BY <1>3, <1>7, <3>1
      <3>3. z[j - (i - 1)] = flight[j + 1]
        BY <1>4, <3>1
      <3> QED  BY <2>2, <3>2, <3>3
    <2> QED  BY <2>1, <2>2
  <1> QED  BY <1>1, <1>6, <1>8

(* No signal, no order.                                                    *)
LEMMA InitPacing == Init => PacingInv
  <1> SUFFICES ASSUME Init PROVE PacingInv
    OBVIOUS
  <1>1. None \in Signals
    BY SignalAssumption DEF None, Signals, Dirs, Places, Strengths
  <1>2. ofi \in [win : [0 .. kWindow - 1 -> Int], widx : Nat, ofi : Int, side : Dirs,
                 locate : Places, strength : Strengths]
    BY SignalAssumption DEF Init, Dirs, Places, Strengths
  <1>3. flight \in Seq(Sent)
    BY DEF Init
  <1>4. pos \in [Places -> Nat] /\ burst \in Nat
    BY DEF Init, Places
  <1>5. last \in [side : Dirs, strength : Int] /\ last.side = "NONE" /\ burst = 0
    BY DEF Init, Dirs
  <1>6. SignalTypes
    BY <1>1, <1>2, <1>3, <1>4, <1>5 DEF Init, SignalTypes
  <1> QED  BY <1>5, <1>6 DEF Init, PacingInv, DecisionDue, BurstClimbs

(* An event decides on an order the pacing lets through.                   *)
LEMMA ProcessPacing ==
  ASSUME PacingInv, NEW ev \in Events, Process(ev)
  PROVE  PacingInv'
  <1> DEFINE x == [side |-> ofi'.side, locate |-> ofi'.locate, strength |-> ofi'.strength]
             d == Decide(<<x, obi'>>)
  <1>1. SignalTypes
    BY DEF PacingInv
  <1>2. ofi' \in [win : [0 .. kWindow - 1 -> Int], widx : Nat, ofi : Int, side : Dirs,
                  locate : Places, strength : Strengths]
    BY <1>1, OfiType DEF Process
  <1>3. obi' \in Signals
    BY ObiType DEF Process
  <1>4. x \in Signals
    BY <1>2 DEF Signals
  <1>5. decision' = IF d.side # "NONE" /\ ~Blocked(d.side, d.locate) /\ Due(d.side, d.strength)
                    THEN d ELSE None
    BY DEF Process
  <1> HIDE DEF x
  <1>6. d \in Signals
    BY <1>3, <1>4, DecideType
  <1> HIDE DEF d
  <1>7. None \in Signals
    BY SignalAssumption DEF None, Signals, Dirs, Places, Strengths
  <1>8. last' = last /\ pos' = pos /\ flight' = flight /\ burst' = burst
    BY DEF Process
  <1>9. SignalTypes'
    BY <1>1, <1>2, <1>3, <1>5, <1>6, <1>7, <1>8 DEF SignalTypes
  <1>10. DecisionDue'
    BY <1>5, <1>8 DEF DecisionDue, Due
  <1>11. BurstClimbs'
    BY <1>8 DEF PacingInv, BurstClimbs
  <1> QED  BY <1>9, <1>10, <1>11 DEF PacingInv

(* The decided order is sent or not, and the arbiter remembers it.         *)
LEMMA SubmitPacing ==
  ASSUME PacingInv, NEW sent \in BOOLEAN, Submit(sent)
  PROVE  PacingInv'
  <1> DEFINE order == [side |-> decision.side, locate |-> decision.locate, qty |-> Qty(decision)]
  <1>1. SignalTypes /\ DecisionDue /\ BurstClimbs
    BY DEF PacingInv
  <1>2. decision' = None /\ ofi' = ofi /\ obi' = obi /\ pos' = pos
    BY DEF Submit
  <1>3. DecisionDue'
    BY <1>2 DEF DecisionDue, None
  <1>4. None \in Signals
    BY SignalAssumption DEF None, Signals, Dirs, Places, Strengths
  <1>5. CASE Qty(decision) = 0
    <2>1. last' = last /\ flight' = flight /\ burst' = burst
      BY <1>5 DEF Submit
    <2>2. SignalTypes' /\ BurstClimbs'
      BY <1>1, <1>2, <1>4, <2>1 DEF SignalTypes, BurstClimbs
    <2> QED  BY <1>3, <2>2 DEF PacingInv
  <1>6. CASE Qty(decision) # 0
    <2>1. /\ last' = [side |-> decision.side, strength |-> decision.strength]
          /\ burst' = IF decision.side = last.side THEN burst + 1 ELSE 1
          /\ flight' = flight \/ flight' = Append(flight, order)
      BY <1>6 DEF Submit, Remember
    <2>2. /\ decision \in Signals /\ decision.side \in Dirs /\ decision.locate \in Places
          /\ decision.strength \in Int /\ decision.strength <= kStrengthScale
          /\ kStrengthScale \in Nat /\ kStrengthStep \in Nat
      BY <1>1, SignalAssumption DEF SignalTypes, Signals, Strengths
    <2>3. decision.side # "NONE" /\ Due(decision.side, decision.strength)
      BY <1>1 DEF Submit, DecisionDue
    <2>4. Qty(decision) \in Nat \ {0} /\ decision.strength >= 1
      BY <1>6, <2>2, QtyType
    <2>5. order \in Sent
      BY <2>2, <2>3, <2>4 DEF Sent, Dirs
    <2> HIDE DEF order
    <2>6. burst' \in Nat /\ flight' \in Seq(Sent)
      <3>1. burst \in Nat /\ flight \in Seq(Sent)
        BY <1>1 DEF SignalTypes
      <3>2. Append(flight, order) \in Seq(Sent)
        BY <2>5, <3>1, AppendProperties
      <3>3. burst' \in Nat
        BY <2>1, <3>1
      <3> QED  BY <2>1, <3>1, <3>2, <3>3
    <2>7. SignalTypes'
      BY <1>1, <1>2, <1>4, <2>1, <2>2, <2>6 DEF SignalTypes
    <2>8. BurstClimbs'
      <3>1. PICK k \in Nat, y \in Int, z \in Int, t \in Nat :
               k = burst /\ y = last.strength /\ z = decision.strength /\ t = kStrengthStep
        BY <1>1, <2>2 DEF SignalTypes
      <3>2. burst' # 0 /\ last'.side # "NONE" /\ last'.strength = z
        BY <1>1, <2>1, <2>3, <3>1 DEF SignalTypes
      <3>3. CASE decision.side = last.side
        <4>1. z >= y + t /\ k # 0
          BY <1>1, <2>3, <3>1, <3>3 DEF Due, BurstClimbs
        <4>2. 1 + (k - 1) * t <= y
          BY <1>1, <3>1, <4>1 DEF BurstClimbs
        <4>3. (k + 1 - 1) * t = (k - 1) * t + t
          OBVIOUS
        <4>4. (k - 1) * t \in Int
          OBVIOUS
        <4>5. 1 + (k + 1 - 1) * t <= z
          BY <4>1, <4>2, <4>3, <4>4
        <4>6. burst' = k + 1
          BY <2>1, <3>1, <3>3
        <4> QED  BY <2>2, <3>1, <3>2, <4>5, <4>6 DEF BurstClimbs
      <3>4. CASE decision.side # last.side
        <4>1. burst' = 1 /\ (1 - 1) * kStrengthStep = 0
          BY <2>1, <2>2, <3>4
        <4> QED  BY <2>2, <2>4, <3>1, <3>2, <4>1 DEF BurstClimbs
      <3> QED  BY <3>3, <3>4
    <2> QED  BY <1>3, <2>7, <2>8 DEF PacingInv
  <1> QED  BY <1>5, <1>6

(* An execution or a refusal leaves the worker's memory alone.             *)
LEMMA ReportPacing ==
  ASSUME PacingInv, NEW i \in DOMAIN flight,
         Refuse(i) \/ \E n \in 1 .. flight[i].qty : Fill(i, n)
  PROVE  PacingInv'
  <1>1. SignalTypes /\ DecisionDue /\ BurstClimbs
    BY DEF PacingInv
  <1>2. /\ ofi' = ofi /\ obi' = obi /\ decision' = decision /\ last' = last /\ burst' = burst
    BY DEF Refuse, Fill
  <1>3. flight \in Seq(Sent) /\ pos \in [Places -> Nat] /\ flight[i] \in Sent
    BY <1>1 DEF SignalTypes
  <1>4. pos' \in [Places -> Nat] /\ flight' \in Seq(Sent)
    <2>1. CASE Refuse(i)
      BY <1>3, <2>1, WithoutIs DEF Refuse
    <2>2. CASE \E n \in 1 .. flight[i].qty : Fill(i, n)
      <3>1. PICK n \in 1 .. flight[i].qty : Fill(i, n)
        BY <2>2
      <3> DEFINE s == flight[i].locate
                 v == IF flight[i].side = "BUY" THEN pos[s] + n
                      ELSE IF n < pos[s] THEN pos[s] - n ELSE 0
                 o == [flight[i] EXCEPT !.qty = @ - n]
      <3>2. pos' = [pos EXCEPT ![s] = v]
        BY <3>1 DEF Fill
      <3>3. s \in Places /\ pos[s] \in Nat /\ n \in Nat /\ flight[i].qty \in Nat
            /\ n <= flight[i].qty
        BY <1>3 DEF Sent
      <3>4. v \in Nat
        BY <3>3
      <3>5. flight' = IF n = flight[i].qty THEN Without(i) ELSE [flight EXCEPT ![i] = o]
        BY <3>1 DEF Fill
      <3>6. n # flight[i].qty => o \in Sent
        <4> SUFFICES ASSUME n # flight[i].qty PROVE o \in Sent
          OBVIOUS
        <4>1. flight[i].qty - n \in Nat \ {0}
          BY <3>3
        <4> QED  BY <1>3, <4>1 DEF Sent
      <3> HIDE DEF o, v, s
      <3>7. n # flight[i].qty => [flight EXCEPT ![i] = o] \in Seq(Sent)
        BY <1>3, <3>6, ExceptSeq
      <3> QED  BY <1>3, <3>2, <3>3, <3>4, <3>5, <3>7, WithoutIs
    <2> QED  BY <2>1, <2>2
  <1>5. SignalTypes'
    BY <1>1, <1>2, <1>4 DEF SignalTypes
  <1>6. DecisionDue' /\ BurstClimbs'
    BY <1>1, <1>2 DEF DecisionDue, Due, BurstClimbs
  <1> QED  BY <1>5, <1>6 DEF PacingInv

(* Every step keeps the pacing.                                            *)
LEMMA StepPacing == PacingInv /\ [Next]_vars => PacingInv'
  <1> SUFFICES ASSUME PacingInv, [Next]_vars PROVE PacingInv'
    OBVIOUS
  <1>1. CASE UNCHANGED vars
    BY <1>1 DEF vars, PacingInv, SignalTypes, DecisionDue, Due, BurstClimbs
  <1>2. CASE Next
    BY <1>2, ProcessPacing, SubmitPacing, ReportPacing DEF Next
  <1> QED  BY <1>1, <1>2

(* What was decided is due, and every order of a burst is a step stronger  *)
(* than the one before (BookWorker::process of main.cpp).                  *)
THEOREM PacingInvariant == Spec => []PacingInv
  BY InitPacing, StepPacing, PTL DEF Spec

(* A worker sends at most one order per strength step before it changes    *)
(* sides, whatever becomes of the orders (main.cpp).                       *)
THEOREM BurstsAreBounded == Spec => []BurstBounded
  <1>1. PacingInv => BurstBounded
    <2> SUFFICES ASSUME PacingInv PROVE BurstBounded
      OBVIOUS
    <2>1. /\ burst \in Nat /\ last.strength \in Int
          /\ kStrengthScale \in Nat \ {0} /\ kStrengthStep \in Nat \ {0}
      BY SignalAssumption DEF PacingInv, SignalTypes
    <2> DEFINE q == (kStrengthScale - 1) \div kStrengthStep
    <2>2. q \in Nat
      BY <2>1, Quotient
    <2>3. CASE burst = 0
      BY <2>2, <2>3 DEF BurstBounded
    <2>4. CASE burst > 0
      <3>1. 1 + (burst - 1) * kStrengthStep <= kStrengthScale
        <4>1. /\ 1 + (burst - 1) * kStrengthStep <= last.strength
              /\ last.strength <= kStrengthScale
          BY <2>4 DEF PacingInv, BurstClimbs
        <4>2. (burst - 1) * kStrengthStep \in Int
          BY <2>1
        <4> QED  BY <2>1, <4>1, <4>2
      <3>2. kStrengthStep * (burst - 1) <= kStrengthScale - 1
        <4>1. (burst - 1) * kStrengthStep = kStrengthStep * (burst - 1)
              /\ kStrengthStep * (burst - 1) \in Int
          BY <2>1
        <4> QED  BY <2>1, <3>1, <4>1
      <3>3. burst - 1 <= q
        <4>1. kStrengthScale - 1 \in Nat /\ burst - 1 \in Int
          BY <2>1
        <4> QED  BY <2>1, <3>2, <4>1, MultipleBound
      <3> HIDE DEF q
      <3>4. burst <= 1 + q
        BY <2>1, <2>2, <3>3
      <3> QED  BY <3>4 DEF q, BurstBounded
    <2> QED  BY <2>1, <2>3, <2>4
  <1> QED  BY <1>1, PacingInvariant, PTL

----------------------------------------------------------------------------
(* The orders at the exchange after an execution: the others are there as  *)
(* they were, and the executed one is gone or smaller.                     *)
LEMMA FlightAfterFill ==
  ASSUME SignalTypes, NEW i \in DOMAIN flight, NEW n \in 1 .. flight[i].qty, Fill(i, n)
  PROVE  \E src \in [DOMAIN flight' -> DOMAIN flight] :
           /\ \A j, k \in DOMAIN flight' : src[j] = src[k] => j = k
           /\ \A k \in DOMAIN flight \ {i} : \E j \in DOMAIN flight' : src[j] = k
           /\ \A j \in DOMAIN flight' :
                /\ flight'[j].side = flight[src[j]].side
                /\ flight'[j].locate = flight[src[j]].locate
                /\ src[j] # i => flight'[j].qty = flight[src[j]].qty
                /\ src[j] = i => flight'[j].qty = flight[i].qty - n
  <1>1. flight \in Seq(Sent) /\ \A j \in DOMAIN flight : flight[j] \in Sent
    BY DEF SignalTypes
  <1>2. PICK m \in Nat : m = Len(flight) /\ DOMAIN flight = 1 .. m
    BY <1>1
  <1>3. CASE n = flight[i].qty
    <2> DEFINE src == [j \in 1 .. m - 1 |-> IF j < i THEN j ELSE j + 1]
    <2>1. flight' = Without(i)
      BY <1>3 DEF Fill
    <2>2. /\ DOMAIN flight' = 1 .. m - 1
          /\ \A j \in 1 .. m - 1 : flight'[j] = flight[IF j < i THEN j ELSE j + 1]
      BY <1>1, <1>2, <2>1, WithoutIs
    <2>3. i \in 1 .. m
      BY <1>2
    <2>4. src \in [1 .. m - 1 -> 1 .. m] /\ \A j \in 1 .. m - 1 : src[j] # i
      BY <2>3
    <2>5. \A j, k \in 1 .. m - 1 : src[j] = src[k] => j = k
      BY <2>3
    <2>6. ASSUME NEW k \in 1 .. m, k # i PROVE \E j \in 1 .. m - 1 : src[j] = k
      <3>1. CASE k < i
        <4>1. k \in 1 .. m - 1 /\ src[k] = k
          BY <2>3, <3>1
        <4> QED  BY <4>1
      <3>2. CASE ~(k < i)
        <4>1. k - 1 \in 1 .. m - 1 /\ src[k - 1] = k
          BY <2>3, <2>6, <3>2
        <4> QED  BY <4>1
      <3> QED  BY <3>1, <3>2
    <2>7. \A j \in 1 .. m - 1 : flight'[j] = flight[src[j]]
      BY <2>2
    <2> HIDE DEF src
    <2>8. \A k \in DOMAIN flight \ {i} : \E j \in DOMAIN flight' : src[j] = k
      BY <1>2, <2>2, <2>6
    <2>9. src \in [DOMAIN flight' -> DOMAIN flight]
      BY <1>2, <2>2, <2>4
    <2>10. \A j, k \in DOMAIN flight' : src[j] = src[k] => j = k
      BY <2>2, <2>5
    <2>11. \A j \in DOMAIN flight' : src[j] # i /\ flight'[j] = flight[src[j]]
      BY <2>2, <2>4, <2>7
    <2> QED  BY <2>8, <2>9, <2>10, <2>11
  <1>4. CASE n # flight[i].qty
    <2> DEFINE src == [j \in 1 .. m |-> j]
               o == [flight[i] EXCEPT !.qty = @ - n]
    <2>1. flight' = [flight EXCEPT ![i] = o]
      BY <1>4 DEF Fill
    <2>2. o.side = flight[i].side /\ o.locate = flight[i].locate /\ o.qty = flight[i].qty - n
      BY <1>1 DEF Sent
    <2> HIDE DEF o
    <2>3. /\ DOMAIN flight' = 1 .. m
          /\ \A j \in 1 .. m : flight'[j] = IF j = i THEN o ELSE flight[j]
      BY <1>1, <1>2, <2>1
    <2>4. src \in [1 .. m -> 1 .. m] /\ \A j \in 1 .. m : src[j] = j
      OBVIOUS
    <2> HIDE DEF src
    <2> QED  BY <1>2, <2>2, <2>3, <2>4
  <1> QED  BY <1>3, <1>4

(* A fill moves shares from the order under way to the position.           *)
LEMMA FillSettled ==
  ASSUME SignalTypes, Settled, NEW i \in DOMAIN flight, NEW n \in 1 .. flight[i].qty, Fill(i, n)
  PROVE  Settled'
  <1> SUFFICES ASSUME ~disturbed' PROVE OnePerSymbol' /\ WithinLimits' /\ WayOut'
    BY DEF Settled
  <1>1. last' = last /\ OnePerSymbol /\ WithinLimits /\ WayOut
    BY DEF Settled, Fill
  <1>2. PICK src \in [DOMAIN flight' -> DOMAIN flight] :
           /\ \A j, k \in DOMAIN flight' : src[j] = src[k] => j = k
           /\ \A k \in DOMAIN flight \ {i} : \E j \in DOMAIN flight' : src[j] = k
           /\ \A j \in DOMAIN flight' :
                /\ flight'[j].side = flight[src[j]].side
                /\ flight'[j].locate = flight[src[j]].locate
                /\ src[j] # i => flight'[j].qty = flight[src[j]].qty
                /\ src[j] = i => flight'[j].qty = flight[i].qty - n
    BY FlightAfterFill
  <1> DEFINE s == flight[i].locate
             q == flight[i].qty
             buys == flight[i].side = "BUY"
  <1>3. /\ \A j \in DOMAIN flight : flight[j] \in Sent
        /\ pos \in [Places -> Nat] /\ s \in Places /\ pos[s] \in Nat
        /\ q \in Nat \ {0} /\ n \in Nat /\ n >= 1 /\ n <= q
        /\ MaxPosition \in Nat \ {0}
    <2>1. \A j \in DOMAIN flight : flight[j] \in Sent
      BY DEF SignalTypes
    <2>2. flight[i] \in Sent /\ s \in Places /\ q \in Nat \ {0}
      BY <2>1 DEF Sent
    <2>3. pos \in [Places -> Nat] /\ pos[s] \in Nat
      BY <2>2 DEF SignalTypes
    <2>4. n \in Nat /\ n >= 1 /\ n <= q
      BY <2>2
    <2> QED  BY <2>1, <2>2, <2>3, <2>4, SignalAssumption
  <1>4. /\ \A t \in Places \ {s} : pos'[t] = pos[t]
        /\ pos'[s] = IF buys THEN pos[s] + n ELSE IF n < pos[s] THEN pos[s] - n ELSE 0
    BY <1>3 DEF Fill
  <1>5. IF buys THEN pos[s] + q <= MaxPosition ELSE q <= pos[s]
    BY <1>1 DEF WithinLimits
  <1>6. pos[s] <= MaxPosition
    BY <1>1, <1>3 DEF WithinLimits
  <1>7. \A j \in DOMAIN flight : flight[j].locate = s => j = i
    BY <1>1 DEF OnePerSymbol
  <1> HIDE DEF s, q, buys
  <1>8. OnePerSymbol'
    BY <1>1, <1>2 DEF OnePerSymbol
  <1>9. WithinLimits'
    <2>1. ASSUME NEW t \in Places PROVE pos'[t] <= MaxPosition
      <3>1. CASE t = s
        <4>1. CASE buys
          BY <1>3, <1>4, <1>5, <3>1, <4>1
        <4>2. CASE ~buys
          BY <1>3, <1>4, <1>6, <3>1, <4>2
        <4> QED  BY <4>1, <4>2
      <3>2. CASE t # s
        BY <1>1, <1>4, <3>2 DEF WithinLimits
      <3> QED  BY <3>1, <3>2
    <2>2. ASSUME NEW j \in DOMAIN flight'
          PROVE  IF flight'[j].side = "BUY"
                 THEN pos'[flight'[j].locate] + flight'[j].qty <= MaxPosition
                 ELSE flight'[j].qty <= pos'[flight'[j].locate]
      <3>1. CASE src[j] = i
        <4>1. /\ flight'[j].locate = s /\ flight'[j].qty = q - n
              /\ (flight'[j].side = "BUY") <=> buys
          BY <1>2, <3>1 DEF s, q, buys
        <4>2. CASE buys
          BY <1>3, <1>4, <1>5, <4>1, <4>2
        <4>3. CASE ~buys
          <5>1. pos'[s] = pos[s] - n /\ q <= pos[s]
            BY <1>3, <1>4, <1>5, <4>3
          <5>2. q - n <= pos[s] - n
            BY <1>3, <5>1
          <5> QED  BY <4>1, <4>3, <5>1, <5>2
        <4> QED  BY <4>2, <4>3
      <3>2. CASE src[j] # i
        <4> DEFINE k == src[j]
        <4>1. k \in DOMAIN flight /\ k # i
          BY <1>2, <3>2
        <4>2. flight[k].locate # s /\ flight[k].locate \in Places
          BY <1>3, <1>7, <4>1 DEF Sent
        <4>3. /\ flight'[j].side = flight[k].side /\ flight'[j].locate = flight[k].locate
              /\ flight'[j].qty = flight[k].qty /\ pos'[flight[k].locate] = pos[flight[k].locate]
          BY <1>2, <1>4, <3>2, <4>2
        <4> HIDE DEF k
        <4> QED  BY <1>1, <4>1, <4>3 DEF WithinLimits
      <3> QED  BY <3>1, <3>2
    <2> QED  BY <2>1, <2>2 DEF WithinLimits
  <1>10. ASSUME NEW t, NEW dir, Only(t, dir) PROVE Only(t, dir)'
    BY <1>2, <1>10 DEF Only
  <1>11. ASSUME NEW t, NEW dir, t # s, Underway(t, dir) PROVE Underway(t, dir)'
    <2>1. PICK k \in DOMAIN flight : flight[k].locate = t /\ flight[k].side = dir
      BY <1>11 DEF Underway
    <2>2. k # i
      BY <1>11, <2>1 DEF s
    <2>3. PICK j \in DOMAIN flight' : src[j] = k
      BY <1>2, <2>1, <2>2
    <2> QED  BY <1>2, <2>1, <2>3 DEF Underway
  <1>12. WayOut'
    <2>1. last.side # "NONE"
      BY <1>1 DEF WayOut
    <2>2. CASE last.side = "BUY"
      <3>1. PICK t \in Symbols : Only(t, "BUY") /\ (pos[t] > 0 \/ Underway(t, "BUY"))
        BY <1>1, <2>2 DEF WayOut
      <3>2. Only(t, "BUY")'
        BY <1>10, <3>1
      <3>3. pos'[t] > 0 \/ Underway(t, "BUY")'
        <4>1. CASE t = s
          <5>1. buys
            BY <3>1, <4>1 DEF Only, s, buys
          <5> QED  BY <1>3, <1>4, <4>1, <5>1
        <4>2. CASE t # s
          <5>1. pos'[t] = pos[t]
            BY <1>4, <4>2 DEF Places
          <5> QED  BY <1>11, <3>1, <4>2, <5>1
        <4> QED  BY <4>1, <4>2
      <3> QED  BY <1>1, <2>2, <3>2, <3>3 DEF WayOut
    <2>3. CASE last.side = "SELL"
      <3>1. PICK t \in Symbols : Only(t, "SELL") /\ (pos[t] < MaxPosition \/ Underway(t, "SELL"))
        BY <1>1, <2>3 DEF WayOut
      <3>2. Only(t, "SELL")'
        BY <1>10, <3>1
      <3>3. pos'[t] < MaxPosition \/ Underway(t, "SELL")'
        <4>1. CASE t = s
          <5>1. ~buys
            BY <3>1, <4>1 DEF Only, s, buys
          <5> QED  BY <1>3, <1>4, <1>6, <4>1, <5>1
        <4>2. CASE t # s
          <5>1. pos'[t] = pos[t]
            BY <1>4, <4>2 DEF Places
          <5> QED  BY <1>11, <3>1, <4>2, <5>1
        <4> QED  BY <4>1, <4>2
      <3> QED  BY <1>1, <2>3, <3>2, <3>3 DEF WayOut
    <2>4. last.side \in {"BUY", "SELL"}
      BY <2>1 DEF SignalTypes, Dirs
    <2> QED  BY <2>2, <2>3, <2>4
  <1> QED  BY <1>8, <1>9, <1>12

(* A submission leaves a way out.                                          *)
LEMMA SubmitSettled ==
  ASSUME PacingInv, Settled, NEW sent \in BOOLEAN, Submit(sent)
  PROVE  Settled'
  <1> SUFFICES ASSUME ~disturbed' PROVE OnePerSymbol' /\ WithinLimits' /\ WayOut'
    BY DEF Settled
  <1>1. SignalTypes /\ DecisionDue /\ flight \in Seq(Sent) /\ pos' = pos
    BY DEF PacingInv, SignalTypes, Submit
  <1>2. CASE Qty(decision) = 0
    <2>1. last' = last /\ flight' = flight /\ disturbed' = disturbed
      BY <1>2 DEF Submit
    <2> QED  BY <1>1, <2>1 DEF Settled, OnePerSymbol, WithinLimits, WayOut, Only, Underway
  <1>3. CASE Qty(decision) # 0
    <2> DEFINE s == decision.locate
               order == [side |-> decision.side, locate |-> s, qty |-> Qty(decision)]
    <2>1. /\ last' = [side |-> decision.side, strength |-> decision.strength]
          /\ CheckOrder(decision) /\ flight' = Append(flight, order)
          /\ ~disturbed /\ s # NoLocate /\ \A i \in DOMAIN flight : flight[i].locate # s
      BY <1>3 DEF Submit, Remember
    <2>2. OnePerSymbol /\ WithinLimits
      BY <2>1 DEF Settled
    <2>3. decision \in Signals /\ decision.side \in {"BUY", "SELL"} /\ s \in Symbols
      BY <1>1, <2>1 DEF SignalTypes, Signals, Dirs, Places, DecisionDue, Submit
    <2>4. order \in Sent
      BY <1>3, <2>3, QtyType DEF Sent, Places
    <2>5. order.side = decision.side /\ order.locate = s /\ order.qty = Qty(decision)
      OBVIOUS
    <2> HIDE DEF order, s
    <2>6. PICK m \in Nat : m = Len(flight) /\ DOMAIN flight = 1 .. m
      BY <1>1
    <2>7. DOMAIN flight' = 1 .. m + 1
      BY <1>1, <2>1, <2>4, <2>6, AppendProperties
    <2>8. flight'[m + 1] = order /\ \A i \in 1 .. m : flight'[i] = flight[i]
      BY <1>1, <2>1, <2>4, <2>6, AppendProperties
    <2>9. OnePerSymbol'
      <3>1. ASSUME NEW i \in 1 .. m + 1
            PROVE  /\ flight'[i].locate \in Symbols
                   /\ flight'[i].locate = s => i = m + 1
        <4>1. CASE i = m + 1
          BY <2>3, <2>5, <2>8, <4>1
        <4>2. CASE i # m + 1
          <5>1. i \in 1 .. m
            BY <4>2
          <5> QED  BY <2>1, <2>2, <2>6, <2>8, <5>1 DEF OnePerSymbol
        <4> QED  BY <4>1, <4>2
      <3>2. ASSUME NEW i \in 1 .. m + 1, NEW j \in 1 .. m + 1,
                   flight'[i].locate = flight'[j].locate
            PROVE  i = j
        <4>1. CASE i \in 1 .. m /\ j \in 1 .. m
          BY <2>2, <2>6, <2>8, <3>2, <4>1 DEF OnePerSymbol
        <4>2. CASE ~(i \in 1 .. m /\ j \in 1 .. m)
          <5>1. i = m + 1 \/ j = m + 1
            BY <4>2
          <5>2. flight'[i].locate = s
            BY <2>5, <2>8, <3>2, <5>1
          <5> QED  BY <3>1, <3>2, <5>2
        <4> QED  BY <4>1, <4>2
      <3> QED  BY <2>7, <3>1, <3>2 DEF OnePerSymbol
    <2>10. WithinLimits'
      <3>1. IF order.side = "BUY" THEN pos[s] + order.qty <= MaxPosition
                                  ELSE order.qty <= pos[s]
        BY <2>1, <2>5 DEF CheckOrder, s
      <3>2. ASSUME NEW i \in 1 .. m + 1
            PROVE  IF flight'[i].side = "BUY"
                   THEN pos'[flight'[i].locate] + flight'[i].qty <= MaxPosition
                   ELSE flight'[i].qty <= pos'[flight'[i].locate]
        <4>1. CASE i = m + 1
          BY <1>1, <2>5, <2>8, <3>1, <4>1
        <4>2. CASE i # m + 1
          <5>1. i \in 1 .. m
            BY <4>2
          <5> QED  BY <1>1, <2>2, <2>6, <2>8, <5>1 DEF WithinLimits
        <4> QED  BY <4>1, <4>2
      <3> QED  BY <1>1, <2>2, <2>7, <3>2 DEF WithinLimits
    <2>11. WayOut'
      <3>1. PICK x \in Symbols, y \in {"BUY", "SELL"} : x = s /\ y = decision.side
        BY <2>3
      <3>2. last'.side = y
        BY <2>1, <3>1
      <3>3. ASSUME NEW i \in 1 .. m + 1, flight'[i].locate = x PROVE flight'[i].side = y
        <4>1. CASE i = m + 1
          BY <2>5, <2>8, <3>1, <4>1
        <4>2. CASE i # m + 1
          <5>1. i \in 1 .. m
            BY <4>2
          <5> QED  BY <2>1, <2>6, <2>8, <3>1, <3>3, <5>1
        <4> QED  BY <4>1, <4>2
      <3>4. Only(x, y)'
        BY <2>7, <3>3 DEF Only
      <3>5. Underway(x, y)'
        <4>1. m + 1 \in DOMAIN flight' /\ flight'[m + 1].locate = x /\ flight'[m + 1].side = y
          BY <2>5, <2>7, <2>8, <3>1
        <4> QED  BY <4>1 DEF Underway
      <3>6. CASE y = "BUY"
        BY <3>2, <3>4, <3>5, <3>6 DEF WayOut
      <3>7. CASE y = "SELL"
        BY <3>2, <3>4, <3>5, <3>7 DEF WayOut
      <3> QED  BY <3>6, <3>7
    <2> QED  BY <2>9, <2>10, <2>11
  <1> QED  BY <1>2, <1>3

(* Every step does, until something disturbs.                              *)
LEMMA StepSignal == SignalInv /\ [Next]_vars => SignalInv'
  <1> SUFFICES ASSUME SignalInv, [Next]_vars PROVE SignalInv'
    OBVIOUS
  <1>1. PacingInv /\ Settled /\ SignalTypes
    BY DEF SignalInv, PacingInv
  <1>2. PacingInv'
    BY <1>1, StepPacing
  <1>3. ASSUME UNCHANGED <<last, pos, flight, disturbed>> PROVE Settled'
    BY <1>1, <1>3 DEF Settled, OnePerSymbol, WithinLimits, WayOut, Only, Underway
  <1>4. ASSUME UNCHANGED vars PROVE Settled'
    BY <1>3, <1>4 DEF vars
  <1>5. ASSUME NEW ev \in Events, Process(ev) PROVE Settled'
    BY <1>3, <1>5 DEF Process
  <1>6. ASSUME NEW sent \in BOOLEAN, Submit(sent) PROVE Settled'
    BY <1>1, <1>6, SubmitSettled
  <1>7. ASSUME NEW i \in DOMAIN flight, Refuse(i) PROVE Settled'
    BY <1>7 DEF Refuse, Settled
  <1>8. ASSUME NEW i \in DOMAIN flight, NEW n \in 1 .. flight[i].qty, Fill(i, n) PROVE Settled'
    BY <1>1, <1>8, FillSettled
  <1>9. Settled'
    BY <1>3, <1>4, <1>5, <1>6, <1>7, <1>8 DEF Next
  <1> QED  BY <1>2, <1>9 DEF SignalInv

(* The pacing invariant and, as long as nothing disturbed the worker, one  *)
(* admissible order per symbol and a way out at the symbol of the last     *)
(* order (BookWorker of main.cpp with RiskManager::on_fill).               *)
THEOREM SignalInvariant == Spec => []SignalInv
  <1>1. Init => SignalInv
    <2> SUFFICES ASSUME Init PROVE SignalInv
      OBVIOUS
    <2>1. PacingInv
      BY InitPacing
    <2>2. /\ flight = <<>> /\ DOMAIN flight = {} /\ last.side = "NONE"
          /\ \A s \in Places : pos[s] = 0
      BY DEF Init, Places
    <2>3. OnePerSymbol /\ WithinLimits /\ WayOut
      BY <2>2, SignalAssumption DEF OnePerSymbol, WithinLimits, WayOut
    <2> QED  BY <2>1, <2>3 DEF SignalInv, Settled
  <1> QED  BY <1>1, StepSignal, PTL DEF Spec

(* As long as every order was executed in full before the next one for its *)
(* symbol, some signal would still make the worker order: its memory of    *)
(* the last order and the position limits never block both directions      *)
(* together (arbitrate of main.cpp).                                       *)
THEOREM NeverLockedOut == Spec => []CanOrderUnlessDisturbed
  <1>1. SignalInv => CanOrderUnlessDisturbed
    <2> SUFFICES ASSUME SignalInv, ~disturbed, flight = <<>>
                 PROVE  \E dir \in {"BUY", "SELL"}, s \in Symbols :
                          ~Blocked(dir, s) /\ Due(dir, kStrengthScale)
      BY DEF CanOrderUnlessDisturbed
    <2>1. /\ WayOut /\ DOMAIN flight = {} /\ pos \in [Places -> Nat] /\ last.side \in Dirs
          /\ MaxPosition \in Nat \ {0}
      BY SignalAssumption DEF SignalInv, Settled, PacingInv, SignalTypes
    <2>2. CASE last.side = "NONE"
      <3>1. PICK s \in Symbols : TRUE
        BY SignalAssumption
      <3>2. pos[s] = 0
        BY <2>1, <2>2 DEF WayOut, Places
      <3>3. ~Blocked("BUY", s) /\ Due("BUY", kStrengthScale)
        BY <2>1, <2>2, <3>2 DEF Blocked, Due
      <3> QED  BY <3>3
    <2>3. CASE last.side = "BUY"
      <3>1. PICK s \in Symbols : pos[s] > 0
        BY <2>1, <2>3 DEF WayOut, Underway
      <3>2. ~Blocked("SELL", s) /\ Due("SELL", kStrengthScale)
        BY <2>1, <2>3, <3>1 DEF Blocked, Due
      <3> QED  BY <3>2
    <2>4. CASE last.side = "SELL"
      <3>1. PICK s \in Symbols : pos[s] < MaxPosition
        BY <2>1, <2>4 DEF WayOut, Underway
      <3>2. pos[s] \in Nat
        BY <2>1 DEF Places
      <3>3. ~Blocked("BUY", s) /\ Due("BUY", kStrengthScale)
        BY <2>1, <2>4, <3>1, <3>2 DEF Blocked, Due
      <3> QED  BY <3>3
    <2> QED  BY <2>1, <2>2, <2>3, <2>4 DEF Dirs
  <1> QED  BY <1>1, SignalInvariant, PTL
-----------------------------------------------------------------------------
(***************************************************************************)
(* The order flow window: ring, running sum and what the sum stands for.   *)
(***************************************************************************)

(* A lap further is the same slot, less than a lap another one.            *)
LEMMA SlotTurn ==
  ASSUME NEW c \in Nat \ {0}, NEW n \in Nat, n >= c
  PROVE  (n - c) % c = n % c
  <1> DEFINE a == n \div c
             b == (n - c) \div c
  <1>1. /\ a \in Int /\ b \in Int /\ n % c \in 0 .. c - 1 /\ (n - c) % c \in 0 .. c - 1
        /\ n = c * a + (n % c) /\ n - c = c * b + ((n - c) % c)
    OBVIOUS
  <1> HIDE DEF a, b
  <1> DEFINE r == n % c
             t == (n - c) % c
             e == a - 1 - b
  <1>2. c * e = t - r /\ e \in Int /\ t \in 0 .. c - 1 /\ r \in 0 .. c - 1
    <2>1. e \in Int /\ t \in 0 .. c - 1 /\ r \in 0 .. c - 1 /\ n = c * a + r /\ n - c = c * b + t
      BY <1>1
    <2>2. c * (a - 1 - b) = c * a - c - c * b
      BY <1>1
    <2>3. c * a \in Int /\ c * b \in Int
      BY <1>1
    <2> HIDE DEF r, t
    <2> QED  BY <2>1, <2>2, <2>3
  <1> HIDE DEF r, t, e
  <1>3. e = 0
    <2>1. CASE e >= 1
      <3>1. c * e >= c
        BY <1>2, <2>1
      <3> QED  BY <1>2, <3>1
    <2>2. CASE e <= -1
      <3>1. c * e <= -c
        BY <1>2, <2>2
      <3> QED  BY <1>2, <3>1
    <2> QED  BY <1>2, <2>1, <2>2
  <1>4. t = r
    BY <1>2, <1>3
  <1> QED  BY <1>4 DEF t, r

(* A small number is its own remainder.                                    *)
LEMMA SlotSmall ==
  ASSUME NEW c \in Nat \ {0}, NEW n \in 0 .. c - 1
  PROVE  n % c = n
  OBVIOUS

(* Numbers less than a lap apart have different slots.                     *)
LEMMA SlotOther ==
  ASSUME NEW c \in Nat \ {0}, NEW m \in Nat, NEW n \in Nat, m < n, n - m < c
  PROVE  m % c # n % c
  <1> DEFINE a == m \div c
             b == n \div c
  <1>1. /\ a \in Int /\ b \in Int
        /\ m = c * a + (m % c) /\ n = c * b + (n % c)
    OBVIOUS
  <1> HIDE DEF a, b
  <1>2. SUFFICES ASSUME m % c = n % c PROVE FALSE
    OBVIOUS
  <1>3. n - m = c * (b - a)
    BY <1>1, <1>2
  <1>4. c * (b - a) >= c
    <2>1. b - a >= 1
      BY <1>1, <1>3
    <2> QED  BY <1>1, <2>1
  <1> QED  BY <1>3, <1>4

(* The sum of a sequence that grows at the end, and of one that also loses *)
(* its first element.                                                      *)
LEMMA SumGrows ==
  ASSUME NEW n \in Nat, NEW s, NEW t, NEW d \in Int, t[n + 1] = d,
         \A j \in 1 .. n : s[j] \in Int /\ t[j] = s[j]
  PROVE  SumFunctionOnSet(t, 1 .. n + 1) = SumFunctionOnSet(s, 1 .. n) + d
  <1> DEFINE S == 1 .. n
             z == n + 1
  <1>1. IsFiniteSet(S)
    BY FS_Interval
  <1>2. z \notin S /\ 1 .. z = S \cup {z}
    OBVIOUS
  <1>3. t[z] = d /\ \A x \in S : t[x] \in Int /\ s[x] = t[x] /\ s[x] \in Int
    OBVIOUS
  <1> HIDE DEF S, z
  <1>4. SumFunctionOnSet(t, S \cup {z}) = t[z] + SumFunctionOnSet(t, S)
    <2>1. \A x \in S \cup {z} : t[x] \in Int
      BY <1>3
    <2> QED  BY <1>1, <1>2, <2>1, SumPut
  <1>5. SumFunctionOnSet(s, S) = SumFunctionOnSet(t, S) /\ SumFunctionOnSet(s, S) \in Int
    BY <1>1, <1>3, SumSame, SumInt
  <1>6. SumFunctionOnSet(t, 1 .. z) = SumFunctionOnSet(s, S) + d
    <2>1. SumFunctionOnSet(t, 1 .. z) = SumFunctionOnSet(t, S \cup {z})
      BY <1>2, Zenon
    <2> QED  BY <1>3, <1>4, <1>5, <2>1
  <1> QED  BY <1>6 DEF S, z

(* A window slides on: the new value enters the sum, the oldest leaves.    *)
LEMMA SumSlides ==
  ASSUME NEW n \in Nat \ {0}, NEW s, NEW t, NEW d \in Int, t[n] = d,
         \A j \in 1 .. n : s[j] \in Int,
         \A j \in 1 .. n - 1 : t[j] = s[j + 1]
  PROVE  SumFunctionOnSet(t, 1 .. n) = SumFunctionOnSet(s, 1 .. n) + d - s[1]
  <1> DEFINE S == 1 .. n
             L == 1 .. n - 1
             R == 2 .. n
             b == [j \in L |-> j + 1]
  <1>1. IsFiniteSet(S)
    BY FS_Interval
  <1>2. 1 \in S /\ n \in S /\ S \ {1} = R /\ S \ {n} = L
    OBVIOUS
  <1>3. IsFiniteSet(L) /\ IsFiniteSet(R)
    <2> HIDE DEF S, L, R
    <2> QED  BY <1>1, <1>2, FS_RemoveElement
  <1>4. \A x \in L : x \in S /\ x + 1 \in S /\ x + 1 \in R /\ t[x] = s[x + 1]
    OBVIOUS
  <1>5. \A x \in S : t[x] \in Int /\ s[x] \in Int
    <2>1. \A x \in S : x \in L \/ x = n
      OBVIOUS
    <2>2. \A x \in S : s[x] \in Int
      OBVIOUS
    <2> HIDE DEF S, L, R
    <2> QED  BY <1>4, <2>1, <2>2
  <1>6. \A y \in R : y - 1 \in L /\ y = (y - 1) + 1
    OBVIOUS
  <1>7. \A x, y \in L : x + 1 = y + 1 => x = y
    OBVIOUS
  <1> HIDE DEF S, L, R
  <1>8. /\ R = {b[x] : x \in L}
        /\ \A x, y \in L : b[x] = b[y] => x = y
        /\ \A x \in L : t[x] = s[b[x]] /\ t[x] \in Int
    BY <1>4, <1>5, <1>6, <1>7
  <1> HIDE DEF b
  <1>9. SumFunctionOnSet(t, L) = SumFunctionOnSet(s, R)
    BY <1>3, <1>8, SumMoved
  <1>10. SumFunctionOnSet(t, S) = t[n] + SumFunctionOnSet(t, S \ {n})
    BY <1>1, <1>2, <1>5, SumTake
  <1>11. SumFunctionOnSet(s, S) = s[1] + SumFunctionOnSet(s, S \ {1})
    BY <1>1, <1>2, <1>5, SumTake
  <1>12. SumFunctionOnSet(s, R) \in Int /\ s[1] \in Int
    <2>1. \A x \in R : s[x] \in Int
      BY <1>2, <1>5
    <2> QED  BY <1>2, <1>3, <1>5, <2>1, SumInt
  <1>13. SumFunctionOnSet(t, S) = SumFunctionOnSet(s, S) + d - s[1]
    <2>1. /\ SumFunctionOnSet(t, S \ {n}) = SumFunctionOnSet(t, L)
          /\ SumFunctionOnSet(s, S \ {1}) = SumFunctionOnSet(s, R)
      BY <1>2, Zenon
    <2> QED  BY <1>9, <1>10, <1>11, <1>12, <2>1
  <1> QED  BY <1>13 DEF S

(* The ring holds the window: its slots, from the oldest on, are the flow. *)
WindowOK ==
  /\ flow \in Seq(Int)
  /\ Len(flow) = IF ofi.widx < kWindow THEN ofi.widx ELSE kWindow
  /\ \A j \in 1 .. Len(flow) : flow[j] = ofi.win[(ofi.widx - Len(flow) + j - 1) % kWindow]
  /\ WindowIsRecent

WindowInv == PacingInv /\ WindowOK

(* An event of the order-flow strategy slides the window on.               *)
LEMMA WindowSlides ==
  ASSUME SignalTypes, WindowOK, NEW ev \in Events, ev.side # "NONE", Process(ev)
  PROVE  WindowOK'
  <1> DEFINE d == Delta(ev)
             w == ofi.widx
             n == Len(flow)
             c == kWindow
             g == flow \o <<d>>
             m == IF n < c THEN 1 ELSE 2
  <1>1. /\ c \in Nat \ {0} /\ w \in Nat /\ d \in Int /\ ofi.win \in [0 .. c - 1 -> Int]
        /\ flow \in Seq(Int) /\ n \in Nat /\ ofi.ofi \in Int /\ ofi.ofi = SumFunctionOnSet(flow, 1 .. n)
        /\ n = (IF w < c THEN w ELSE c) /\ \A j \in 1 .. n : flow[j] \in Int
    BY SignalAssumption, EventType, LenProperties, ElementOfSeq
    DEF SignalTypes, WindowOK, WindowIsRecent, SumFunction
  <1>2. /\ ofi'.widx = w + 1 /\ ofi'.win = [ofi.win EXCEPT ![w % c] = d]
        /\ ofi'.ofi = ofi.ofi + d - (IF w < c THEN 0 ELSE ofi.win[w % c])
    BY DEF Process, OfiOnMarket, Slide, SignalTypes
  <1>3. flow' = SubSeq(g, m, n + 1)
    BY DEF Process
  <1>4. /\ \A j \in 1 .. n + 1 : g[j] = IF j <= n THEN flow[j] ELSE d
        /\ \A j \in 1 .. n + 1 : g[j] \in Int
    <2>1. <<d>> \in Seq(Int) /\ Len(<<d>>) = 1 /\ <<d>>[1] = d
      BY <1>1
    <2>2. flow \in Seq(Int) /\ \A j \in 1 .. n : flow[j] \in Int
      BY <1>1
    <2> HIDE DEF d
    <2>3. \A j \in 1 .. Len(flow) + Len(<<d>>) :
            (flow \o <<d>>)[j] = IF j <= Len(flow) THEN flow[j] ELSE <<d>>[j - Len(flow)]
      BY <2>1, <2>2, ConcatProperties
    <2>4. \A j \in 1 .. n + 1 : j <= n \/ j - n = 1
      BY <1>1
    <2>5. \A j \in 1 .. n + 1 : j <= n => j \in 1 .. n
      BY <1>1
    <2>6. \A j \in 1 .. n + 1 : g[j] = IF j <= n THEN flow[j] ELSE d
      BY <2>1, <2>3, <2>4
    <2>7. d \in Int
      BY <1>1
    <2> HIDE DEF g, n
    <2> QED  BY <2>2, <2>5, <2>6, <2>7
  <1>5. w % c \in 0 .. c - 1
    BY <1>1
  <1>6. \A j \in 0 .. c - 1 : ofi'.win[j] = IF j = w % c THEN d ELSE ofi.win[j]
    BY <1>1, <1>2
  <1>7. \A j \in 1 .. n : flow[j] = ofi.win[(w - n + j - 1) % c]
    BY DEF WindowOK
  <1> HIDE DEF d, w, n, c, g
  <1>8. CASE w < c
    <2>1. n = w /\ n + 1 \in Nat /\ m = 1
      BY <1>1, <1>8
    <2>2. /\ flow' \in Seq(Int) /\ Len(flow') = n + 1
          /\ \A j \in 1 .. n + 1 : flow'[j] = g[j]
      <3>1. \A j \in 1 .. n + 1 : g[j] \in Int
        BY <1>4
      <3> QED  BY <1>1, <1>3, <2>1, <3>1, SubSeqProperties
    <2>3. SumFunctionOnSet(flow', 1 .. n + 1) = SumFunctionOnSet(flow, 1 .. n) + d
      <3>1. flow'[n + 1] = d /\ \A j \in 1 .. n : flow'[j] = flow[j]
        <4>1. n \in Nat /\ n + 1 \in 1 .. n + 1 /\ ~(n + 1 <= n)
          BY <1>1
        <4>2. g[n + 1] = d /\ flow'[n + 1] = g[n + 1]
          BY <1>4, <2>2, <4>1
        <4>3. ASSUME NEW j \in 1 .. n PROVE flow'[j] = flow[j]
          <5>1. j \in 1 .. n + 1 /\ j <= n
            BY <4>1
          <5> QED  BY <1>4, <2>2, <5>1
        <4> QED  BY <4>2, <4>3
      <3>2. n \in Nat /\ d \in Int /\ \A j \in 1 .. n : flow[j] \in Int /\ flow'[j] = flow[j]
        BY <1>1, <3>1
      <3> QED  BY <3>1, <3>2, SumGrows
    <2>4. DOMAIN flow' = 1 .. n + 1
      BY <2>2, LenProperties
    <2>5. ofi'.ofi = SumFunction(flow')
      BY <1>1, <1>2, <1>8, <2>3, <2>4 DEF SumFunction
    <2>6. Len(flow') = IF w + 1 < c THEN w + 1 ELSE c
      BY <1>1, <1>8, <2>1, <2>2
    <2>7. ASSUME NEW j \in 1 .. n + 1
          PROVE  flow'[j] = ofi'.win[((w + 1) - (n + 1) + j - 1) % c]
      <3>1. (w + 1) - (n + 1) + j - 1 = j - 1 /\ j - 1 \in 0 .. c - 1
        BY <1>1, <1>8, <2>1
      <3>2. (j - 1) % c = j - 1 /\ w % c = w
        <4>1. w \in 0 .. c - 1 /\ c \in Nat \ {0}
          BY <1>1, <1>8
        <4> QED  BY <3>1, <4>1, SlotSmall
      <3>3. CASE j = n + 1
        BY <1>1, <1>4, <1>5, <1>6, <2>1, <2>2, <3>1, <3>2, <3>3
      <3>4. CASE j # n + 1
        <4>1. j \in 1 .. n /\ flow'[j] = flow[j] /\ w - n + j - 1 = j - 1 /\ j - 1 # w % c
          <5>1. j \in 1 .. n /\ j <= n /\ w - n + j - 1 = j - 1 /\ j - 1 # w
            BY <1>1, <2>1, <3>4
          <5> QED  BY <1>4, <2>2, <3>2, <5>1
        <4>2. flow[j] = ofi.win[j - 1]
          BY <1>7, <3>2, <4>1
        <4> QED  BY <1>6, <3>1, <3>2, <4>1, <4>2
      <3> QED  BY <3>3, <3>4
    <2> QED  BY <1>2, <2>2, <2>5, <2>6, <2>7 DEF WindowOK, WindowIsRecent, w, c
  <1>9. CASE w >= c
    <2>1. n = c /\ n \in Nat \ {0} /\ m = 2
      BY <1>1, <1>9
    <2>2. /\ flow' \in Seq(Int) /\ Len(flow') = n
          /\ \A j \in 1 .. n : flow'[j] = g[j + 1]
      <3>1. \A j \in 2 .. n + 1 : g[j] \in Int
        BY <1>1, <1>4
      <3>2. /\ SubSeq(g, 2, n + 1) \in Seq(Int)
            /\ Len(SubSeq(g, 2, n + 1)) = (IF 2 <= n + 1 THEN n + 1 - 2 + 1 ELSE 0)
            /\ \A j \in 1 .. n + 1 - 2 + 1 : SubSeq(g, 2, n + 1)[j] = g[2 + j - 1]
        BY <1>1, <3>1, SubSeqProperties
      <3>3. \A j \in 1 .. n : 2 + j - 1 = j + 1 /\ j \in 1 .. n + 1 - 2 + 1
        BY <1>1
      <3> QED  BY <1>1, <1>3, <2>1, <3>2, <3>3
    <2>3. flow'[n] = d /\ \A j \in 1 .. n - 1 : flow'[j] = flow[j + 1]
      <3>1. \A j \in 1 .. n : j + 1 \in 1 .. n + 1 /\ (j + 1 <= n <=> j # n)
        BY <1>1
      <3>2. \A j \in 1 .. n - 1 : j \in 1 .. n /\ j # n
        BY <1>1
      <3>3. n \in 1 .. n
        BY <2>1
      <3> QED  BY <1>4, <2>2, <3>1, <3>2, <3>3
    <2>4. SumFunctionOnSet(flow', 1 .. n) = SumFunctionOnSet(flow, 1 .. n) + d - flow[1]
      <3>1. n \in Nat \ {0} /\ d \in Int /\ \A j \in 1 .. n : flow[j] \in Int
        BY <1>1, <2>1
      <3> QED  BY <2>3, <3>1, SumSlides
    <2>5. flow[1] = ofi.win[w % c]
      <3>1. 1 \in 1 .. n /\ w - n + 1 - 1 = w - c /\ (w - c) % c = w % c
        <4>1. c \in Nat \ {0} /\ w \in Nat /\ w >= c
          BY <1>1, <1>9
        <4>2. 1 \in 1 .. n /\ w - n + 1 - 1 = w - c
          BY <2>1, <4>1
        <4> QED  BY <4>1, <4>2, SlotTurn
      <3> QED  BY <1>7, <3>1
    <2>6. ofi'.ofi = SumFunction(flow')
      <3>1. DOMAIN flow' = 1 .. n
        BY <2>2, LenProperties
      <3> QED  BY <1>1, <1>2, <1>9, <2>4, <2>5, <3>1 DEF SumFunction
    <2>7. Len(flow') = IF w + 1 < c THEN w + 1 ELSE c
      BY <1>1, <1>9, <2>1, <2>2
    <2>8. ASSUME NEW j \in 1 .. n
          PROVE  flow'[j] = ofi'.win[((w + 1) - n + j - 1) % c]
      <3>1. CASE j = n
        <4>1. (w + 1) - n + j - 1 = w
          BY <1>1, <3>1
        <4> QED  BY <1>5, <1>6, <2>3, <3>1, <4>1
      <3>2. CASE j # n
        <4> DEFINE i == (w + 1) - n + j - 1
        <4>1. /\ i \in Nat /\ i < w /\ w - i < c /\ j + 1 \in 1 .. n /\ j \in 1 .. n - 1
              /\ w - n + (j + 1) - 1 = i
          BY <1>1, <1>9, <2>1, <3>2
        <4> HIDE DEF i
        <4>2. i % c # w % c /\ i % c \in 0 .. c - 1
          <5>1. c \in Nat \ {0} /\ w \in Nat
            BY <1>1
          <5>2. i % c \in 0 .. c - 1
            BY <4>1, <5>1
          <5> QED  BY <4>1, <5>1, <5>2, SlotOther
        <4>3. flow[j + 1] = ofi.win[i % c]
          BY <1>7, <4>1
        <4>4. flow'[j] = ofi'.win[i % c]
          BY <1>6, <2>3, <4>1, <4>2, <4>3
        <4> QED  BY <4>4 DEF i
      <3> QED  BY <3>1, <3>2
    <2> QED  BY <1>2, <2>2, <2>6, <2>7, <2>8 DEF WindowOK, WindowIsRecent, w, c
  <1> QED  BY <1>1, <1>8, <1>9

(* Every step keeps the sum that of the window.                            *)
LEMMA StepWindow == WindowInv /\ [Next]_vars => WindowInv'
  <1> SUFFICES ASSUME WindowInv, [Next]_vars PROVE WindowInv'
    OBVIOUS
  <1>1. PacingInv /\ WindowOK /\ SignalTypes
    BY DEF WindowInv, PacingInv
  <1>2. PacingInv'
    BY <1>1, StepPacing
  <1>3. ASSUME ofi' = ofi, flow' = flow PROVE WindowOK'
    BY <1>1, <1>3 DEF WindowOK, WindowIsRecent
  <1>4. ASSUME NEW ev \in Events, Process(ev) PROVE WindowOK'
    <2>1. CASE ev.side = "NONE"
      BY <1>3, <1>4, <2>1 DEF Process, OfiOnMarket
    <2>2. CASE ev.side # "NONE"
      BY <1>1, <1>4, <2>2, WindowSlides
    <2> QED  BY <2>1, <2>2
  <1>5. WindowOK'
    BY <1>3, <1>4 DEF Next, vars, Submit, Refuse, Fill
  <1> QED  BY <1>2, <1>5 DEF WindowInv

(* The invariant of OrderFlowImbalanceStrategy::on_market's ring: its      *)
(* slots, read from the oldest on, are the last contributions.             *)
THEOREM WindowInvariant == Spec => []WindowInv
  <1>1. Init => WindowInv
    <2> SUFFICES ASSUME Init PROVE WindowInv
      OBVIOUS
    <2>1. PacingInv
      BY InitPacing
    <2>2. flow = <<>> /\ Len(flow) = 0 /\ DOMAIN flow = {} /\ flow \in Seq(Int)
      BY EmptySeq DEF Init
    <2>3. ofi.widx = 0 /\ ofi.ofi = 0 /\ kWindow \in Nat \ {0}
      BY SignalAssumption DEF Init
    <2>4. SumFunction(flow) = 0
      BY <2>2, SumEmpty DEF SumFunction
    <2> QED  BY <2>1, <2>2, <2>3, <2>4 DEF WindowInv, WindowOK, WindowIsRecent
  <1> QED  BY <1>1, StepWindow, PTL DEF Spec

(* The running sum ofi_, updated by one addition and one subtraction per   *)
(* event, is the net flow of the last kWindow events whose side was known, *)
(* however often the ring has wrapped (OrderFlowImbalanceStrategy).        *)
THEOREM WindowIsExact == Spec => []WindowIsRecent
  <1>1. WindowInv => WindowIsRecent
    BY DEF WindowInv, WindowOK
  <1> QED  BY <1>1, WindowInvariant, PTL
=============================================================================
