--------------------------- MODULE BookQueryProofs ---------------------------
(***************************************************************************)
(* Proofs about the order connection (io_uring_sender.cpp, the framing of  *)
(* fill_th and of the exchange) and the book query above it                *)
(* (execution_engine.h), for every number of calls, ring capacity and      *)
(* message length, and any number of submissions, short writes and         *)
(* notifications.                                                          *)
(***************************************************************************)
EXTENDS BookQuery, SequenceTheorems, FiniteSetTheorems, TLAPS

Requests == [type : {"Q", "O"}, n : Calls, symbol : Symbols]
Quotes   == [type : {"B"}, n : Calls, symbol : Symbols]
Fills    == [type : {"A", "E"}, n : Calls, ref : Calls]
Messages == Requests \cup Quotes \cup Fills
WireBytes == [msg : Messages, at : Nat] \cup {NoByte}

Size(m) == MsgLen[m.type]
Byte(m, i) == [msg |-> m, at |-> i]

(* Where the calls are, and what they can have sent.                       *)
Places == {"new", "lock", "query", "sendQ", "wait", "order", "sendO", "done"}
Query(u) == [type |-> "Q", n |-> u, symbol |-> want[u]]
Order(u) == [type |-> "O", n |-> u, symbol |-> want[u]]
Began(m) == IF m.type = "Q" THEN pc[m.n] \notin {"new", "lock", "query"}
                            ELSE pc[m.n] \in {"sendO", "done"}

RingTypes ==
  /\ ring \in [0 .. Capacity - 1 -> WireBytes] /\ head \in Nat /\ tail \in Nat
  /\ mtx \in Calls \cup {NoCall}
  /\ tx \in [at : {"idle", "spin", "submit", "reap", "ok", "failed"},
             msg : Requests \cup {NoMsg}, left : Nat]
  /\ cq \in Seq([n : Nat, res : Int]) /\ sqes \in Nat /\ faults \in Nat
  /\ staged \in [bytes : Seq(WireBytes), cqes : Seq([n : Nat, res : Int])]
  /\ gapped \in BOOLEAN /\ stale \in BOOLEAN /\ kept \in BOOLEAN /\ torn \in BOOLEAN
  /\ ~kept => staged = Nothing
WireTypes ==
  /\ toEx \in Seq(WireBytes) /\ toUs \in Seq(WireBytes) /\ stream \in Seq(WireBytes)
  /\ conn \in {"up", "refused", "garbled"}
  /\ refs \in Seq(Calls) /\ refToId \in [Calls -> Calls \cup {0}]
  /\ sent \in Seq(Requests) /\ taken \in Seq(Requests)
  /\ told \in Seq(Messages) /\ heard \in Seq(Messages)
  /\ drained \in BOOLEAN /\ fill \in {"drain", "recv", "ended"}
  /\ fill = "drain" => ~drained /\ stream = <<>>
CallTypes ==
  /\ pc \in [Calls -> Places] /\ want \in [Calls -> Symbols]
  /\ holder \in Calls \cup {NoCall} /\ waiting \in BOOLEAN /\ unanswered \in BOOLEAN
  /\ rejected \in SUBSET Calls

-----------------------------------------------------------------------------
(* s is what is left of the encoding of msgs[n + 1], msgs[n + 2], ..., but *)
(* for the last left bytes: off[k] is where the encoding of msgs[k] ends.  *)
Encodes(s, msgs, n, left) ==
  \E off \in [n .. Len(msgs) -> Nat] :
    /\ off[n] = 0
    /\ \A k \in n + 1 .. Len(msgs) : off[k] = off[k - 1] + Size(msgs[k])
    /\ \A j, k \in n .. Len(msgs) : j <= k => off[j] <= off[k]
    /\ Len(s) + left = off[Len(msgs)]
    /\ \A k \in n + 1 .. Len(msgs) : \A i \in 1 .. Size(msgs[k]) :
         off[k - 1] + i <= Len(s) => s[off[k - 1] + i] = Byte(msgs[k], i)

Incoming == stream \o toUs

(* A reference belongs to one order, at the exchange and here.             *)
RefsOK ==
  /\ \A i, j \in 1 .. Len(refs) : refs[i] = refs[j] => i = j
  /\ \A k \in 1 .. Len(told) : told[k].type \in {"A", "E"} =>
       told[k].ref \in 1 .. Len(refs) /\ refs[told[k].ref] = told[k].n
  /\ ~drained => \A r \in Calls :
       refToId[r] # 0 => r \in 1 .. Len(refs) /\ refToId[r] = refs[r]

(* The reports handed on are the first ones told, and what fill_th holds   *)
(* and what is under way are the rest.                                     *)
ReportsOK ==
  ~drained =>
    /\ Len(heard) <= Len(told)
    /\ \A k \in 1 .. Len(heard) : heard[k] = told[k]
    /\ Encodes(Incoming, told, Len(heard), 0)

-----------------------------------------------------------------------------
Sending == tx.at \in {"submit", "reap"}
Regular == ~stale /\ ~kept
Failing == conn # "up" \/ faults > 0

(* The completion of the submission under way is in the queue, once, and   *)
(* everything else there is a notification.                                *)
Own(i) == cq[i].n # 0
CompletionsOK ==
  /\ \A i \in 1 .. Len(cq) : Own(i) =>
       /\ tx.at = "reap" /\ cq[i].n = sqes
       /\ cq[i].res \in 1 .. tx.left \/ (cq[i].res = -1 /\ Failing)
  /\ \A i, j \in 1 .. Len(cq) : Own(i) /\ Own(j) => i = j
  /\ tx.at = "reap" => sqes > 0 /\ \E i \in 1 .. Len(cq) : Own(i)

(* The bytes between head and tail are what is left to send, and perhaps   *)
(* some that earlier messages left behind.                                 *)
SendOK ==
  /\ (mtx = NoCall) <=> (tx.at = "idle")
  /\ Sending => tx.msg \in Requests /\ tx.left > 0
  /\ Regular =>
       /\ CompletionsOK
       /\ Used <= Capacity /\ head + Used <= tail /\ (Sending => tx.left <= Used)
       /\ tx.at = "failed" => Failing

(* So many bytes of the ring are submitted and not yet released.           *)
Out(k) == IF tx.at = "reap"
          THEN \E i \in 1 .. Len(cq) : Own(i) /\ (cq[i].res = k \/ (cq[i].res = -1 /\ k = 0))
          ELSE k = 0
Owed == IF Sending THEN tx.left ELSE 0

(* The ring holds what is left of the message that is sent, and no more.   *)
LeftInRing ==
  /\ tx.left <= Size(tx.msg)
  /\ \A i \in 1 .. tx.left : ring[(head + i - 1) % Capacity] =
                               Byte(tx.msg, Size(tx.msg) - tx.left + i)
RingOK == ~Slipped => Used = Owed /\ (Sending => LeftInRing)

(* The exchange is in step with the sender.                                *)
SentLast == Sending => Len(sent) > 0 /\ sent[Len(sent)] = tx.msg
StreamOK ==
  ~Slipped /\ ~torn =>
    /\ Len(taken) <= Len(sent) /\ \A k \in 1 .. Len(taken) : taken[k] = sent[k]
    /\ conn # "garbled"
    /\ SentLast
    /\ conn = "up" =>
         \E k \in 0 .. Owed : Out(k) /\ Encodes(toEx, sent, Len(taken), Owed - k)

-----------------------------------------------------------------------------
(* Nothing is on its way that no call has sent.                            *)
Real(m) == m # NoMsg => m \in {Query(m.n), Order(m.n)} /\ Began(m)
OnlyReal ==
  /\ \A r \in 0 .. Capacity - 1 : Real(ring[r].msg)
  /\ \A i \in 1 .. Len(toEx) : Real(toEx[i].msg)
  /\ \A i \in 1 .. Len(taken) : Real(taken[i])

(* A message whose last byte has not been submitted was not read, and it   *)
(* is lost if its send fails then.                                         *)
LastByte == Byte(tx.msg, Size(tx.msg))
Lost(m) == /\ \A i \in 1 .. Len(taken) : taken[i] # m
           /\ \A i \in 1 .. Len(toEx) : toEx[i] # Byte(m, Size(m))
LastKept ==
  /\ Sending => \A r \in 0 .. Capacity - 1 : ring[r] = LastByte => r = (tail - 1) % Capacity
  /\ tx.at \in {"submit", "failed"} => Lost(tx.msg)
  /\ tx.at = "reap" => Lost(tx.msg) \/ Out(tx.left)
  /\ \A t \in rejected : Failing /\ pc[t] = "done" /\ Lost(Order(t))

(* The call that is sending is the one that owns mtx_.                     *)
Mutual ==
  /\ mtx # NoCall => /\ pc[mtx] \in {"sendQ", "sendO"}
                     /\ tx.msg = IF pc[mtx] = "sendQ" THEN Query(mtx) ELSE Order(mtx)
  /\ \A t \in Calls : pc[t] \in {"sendQ", "sendO"} => mtx = t

(* The first byte of a 'Q' is never where push leaves a gap, so it goes    *)
(* out once, and the query is read once.                                   *)
First(u) == Byte(Query(u), 1)
OnWire(u) == \E i \in 1 .. Len(toEx) : toEx[i] = First(u)
WasRead(u) == \E i \in 1 .. Len(taken) : taken[i] = Query(u)
Once(u) ==
  /\ \A r \in 0 .. Capacity - 1 : ring[r] = First(u) =>
       /\ r <= Capacity - Header
       /\ \A q \in 0 .. Capacity - 1 : ring[q] = First(u) => q = r
  /\ \A i, j \in 1 .. Len(toEx) : toEx[i] = First(u) /\ toEx[j] = First(u) => i = j
  /\ \E k \in Nat : Out(k) /\ \A i \in k .. Used - 1 :
       ring[(head + i) % Capacity] = First(u) => ~OnWire(u) /\ ~WasRead(u)
  /\ WasRead(u) => ~OnWire(u)
ReadOnce == Regular /\ conn = "up" => \A u \in Calls : Once(u)

(* Only the query that waits can be read or answered, and it is answered   *)
(* once; one whose send failed is lost.                                    *)
QuoteFor(u) == [type |-> "B", n |-> u, symbol |-> want[u]]
Answering(u) == \E i \in 1 .. Len(Incoming) : Incoming[i].msg = QuoteFor(u)
Asking(u) == pc[u] \in {"sendQ", "wait"}
OneQuery ==
  \A t \in Calls : (pc[t] \in {"query", "sendQ", "wait"}) <=> (holder = t)
Forgone(u) == pc[u] = "done" /\ Failing /\ Lost(Query(u))
QuotesOK ==
  \A i \in 1 .. Len(Incoming) : Incoming[i].msg.type = "B" =>
    /\ Incoming[i].msg = QuoteFor(Incoming[i].msg.n)
    /\ Incoming[i].at \in 1 .. BLen
    /\ \A j \in 1 .. Len(Incoming) : Incoming[j] = Incoming[i] => j = i
AnswersOK ==
  /\ QuotesOK
  /\ \A u \in Calls : /\ Answering(u) => WasRead(u) /\ Asking(u) /\ waiting
                      /\ conn = "up" /\ Began(Query(u)) /\ ~WasRead(u) =>
                           (Asking(u) /\ waiting) \/ Forgone(u)
                      /\ Asking(u) /\ ~waiting => result.n = u
                      /\ pc[u] = "query" => waiting
  /\ \A o \in orders : o.query = o.for

ConnInv == RingTypes /\ WireTypes /\ RefsOK /\ ReportsOK /\ SendOK /\ RingOK /\ StreamOK
SendsInv == Mutual /\ (~kept => OnlyReal) /\ (~stale /\ ~LeftBehind => LastKept)
QueryInv == ReadOnce /\ OneQuery /\ (~stale /\ ~LeftBehind /\ ~unanswered => AnswersOK)
-----------------------------------------------------------------------------
(* Lemmas about messages and their bytes.                                  *)
LEMMA Sizes ==
  ASSUME NEW m \in Messages
  PROVE  Size(m) \in Nat \ {0}
<1>1. m.type \in {"Q", "O", "B", "A", "E"}
  BY DEF Messages, Requests, Quotes, Fills
<1>2. /\ MsgLen["Q"] = QLen /\ MsgLen["O"] = OLen /\ MsgLen["B"] = BLen
      /\ MsgLen["A"] = ALen /\ MsgLen["E"] = ELen
  BY DEF MsgLen
<1>3. {QLen, OLen, BLen, ALen, ELen} \subseteq Nat \ {0}
  BY ConnectionAssumption
<1> QED BY <1>1, <1>2, <1>3 DEF Size

(* The bytes of a message, one by one.                                     *)
LEMMA BytesOf ==
  ASSUME NEW m \in Messages
  PROVE  /\ Bytes(m) \in Seq(WireBytes) /\ Len(Bytes(m)) = Size(m)
         /\ \A i \in 1 .. Size(m) : Bytes(m)[i] = Byte(m, i)
<1>1. Size(m) \in Nat
  BY Sizes
<1>2. Bytes(m) = [i \in 1 .. Size(m) |-> Byte(m, i)]
  BY DEF Bytes, Size, Byte
<1>3. \A i \in 1 .. Size(m) : Byte(m, i) \in WireBytes
  BY DEF Byte, WireBytes
<1> QED BY <1>1, <1>2, <1>3

(* What is said of an empty encoding.                                      *)
LEMMA EncodesNothing ==
  ASSUME NEW msgs, msgs \in Seq(Messages)
  PROVE  Encodes(<<>>, msgs, Len(msgs), 0)
<1> DEFINE n == Len(msgs)
           off == [k \in n .. n |-> 0]
<1>1. n \in Nat /\ Len(<<>>) = 0
  BY LenProperties, EmptySeq
<1>2. off \in [n .. n -> Nat] /\ \A k \in n .. n : off[k] = 0
  OBVIOUS
<1>3. \A k \in n + 1 .. n : FALSE
  BY <1>1
<1>4. n \in n .. n
  BY <1>1
<1> HIDE DEF off
<1> QED BY <1>1, <1>2, <1>3, <1>4 DEF Encodes

(* A further message is owed as a whole.                                   *)
LEMMA EncodesAppend ==
  ASSUME NEW msgs \in Seq(Messages), NEW n \in 0 .. Len(msgs), NEW s \in Seq(WireBytes),
         NEW m \in Messages, Encodes(s, msgs, n, 0)
  PROVE  Encodes(s, Append(msgs, m), n, Size(m))
<1> DEFINE N == Len(msgs)
           more == Append(msgs, m)
<1>1. PICK off \in [n .. N -> Nat] :
        /\ off[n] = 0
        /\ \A k \in n + 1 .. N : off[k] = off[k - 1] + Size(msgs[k])
        /\ \A j, k \in n .. N : j <= k => off[j] <= off[k]
        /\ Len(s) + 0 = off[N]
        /\ \A k \in n + 1 .. N : \A i \in 1 .. Size(msgs[k]) :
             off[k - 1] + i <= Len(s) => s[off[k - 1] + i] = Byte(msgs[k], i)
  BY DEF Encodes
<1>2. /\ N \in Nat /\ n \in Nat /\ n <= N /\ Len(s) \in Nat /\ Size(m) \in Nat \ {0}
      /\ Len(more) = N + 1 /\ more[N + 1] = m /\ \A k \in 1 .. N : more[k] = msgs[k]
  BY Sizes, AppendProperties, LenProperties
<1> DEFINE new == [k \in n .. N + 1 |-> IF k = N + 1 THEN off[N] + Size(m) ELSE off[k]]
<1>3. \A k \in n .. N : k \in n .. N + 1 /\ k # N + 1 /\ off[k] \in Nat
  BY <1>1, <1>2
<1>4. N \in n .. N /\ N + 1 \in n .. N + 1
  BY <1>2
<1>5. /\ \A k \in n .. N : new[k] = off[k]
      /\ new[N + 1] = off[N] + Size(m)
  BY <1>3, <1>4
<1>6. new \in [n .. N + 1 -> Nat]
  BY <1>2, <1>3, <1>4
<1> HIDE DEF new, more, N
<1>7. new[n] = 0
  BY <1>1, <1>2, <1>5
<1>8. ASSUME NEW k \in n + 1 .. N + 1
      PROVE  /\ new[k] = new[k - 1] + Size(more[k])
             /\ \A i \in 1 .. Size(more[k]) :
                  new[k - 1] + i <= Len(s) => s[new[k - 1] + i] = Byte(more[k], i)
  <2>1. CASE k = N + 1
    <3>1. /\ more[k] = m /\ new[k] = off[N] + Size(m) /\ new[k - 1] = off[N]
          /\ off[N] = Len(s)
      BY <1>1, <1>2, <1>4, <1>5, <2>1
    <3>2. \A i \in 1 .. Size(m) : ~(Len(s) + i <= Len(s))
      BY <1>2
    <3> QED BY <3>1, <3>2
  <2>2. CASE k # N + 1
    <3>1. k \in n + 1 .. N /\ k - 1 \in n .. N /\ k \in n .. N /\ k \in 1 .. N
      BY <1>2, <2>2
    <3>2. more[k] = msgs[k] /\ new[k] = off[k] /\ new[k - 1] = off[k - 1]
      BY <1>2, <1>5, <3>1
    <3> QED BY <1>1, <3>1, <3>2
  <2> QED BY <2>1, <2>2
<1>9. ASSUME NEW j \in n .. N + 1, NEW k \in n .. N + 1, j <= k
      PROVE  new[j] <= new[k]
  <2>1. CASE k = N + 1
    <3>1. j = N + 1 \/ (j \in n .. N /\ off[j] <= off[N])
      BY <1>1, <1>2, <1>4
    <3>2. j = N + 1 => new[j] = new[k] /\ new[k] \in Nat
      BY <1>4, <1>6, <2>1
    <3>3. j \in n .. N => off[j] \in Nat /\ off[N] \in Nat /\ new[j] = off[j] /\ new[k] = off[N] + Size(m)
      BY <1>3, <1>4, <1>5, <2>1
    <3> QED BY <1>2, <3>1, <3>2, <3>3
  <2>2. CASE k # N + 1
    <3>1. j \in n .. N /\ k \in n .. N
      BY <1>2, <1>9, <2>2
    <3> QED BY <1>1, <1>5, <1>9, <3>1
  <2> QED BY <2>1, <2>2
<1>10. Len(s) + Size(m) = new[N + 1]
  BY <1>1, <1>2, <1>5
<1>11. Encodes(s, more, n, Size(m))
  <2>1. Len(more) = N + 1
    BY <1>2
  <2> SUFFICES \E f \in [n .. Len(more) -> Nat] :
        /\ f[n] = 0
        /\ \A k \in n + 1 .. Len(more) : f[k] = f[k - 1] + Size(more[k])
        /\ \A j, k \in n .. Len(more) : j <= k => f[j] <= f[k]
        /\ Len(s) + Size(m) = f[Len(more)]
        /\ \A k \in n + 1 .. Len(more) : \A i \in 1 .. Size(more[k]) :
             f[k - 1] + i <= Len(s) => s[f[k - 1] + i] = Byte(more[k], i)
    BY Zenon DEF Encodes
  <2>2. new \in [n .. Len(more) -> Nat]
    BY <1>6, <2>1
  <2> WITNESS new \in [n .. Len(more) -> Nat]
  <2> QED BY <1>7, <1>8, <1>9, <1>10, <2>1
<1> QED BY <1>11 DEF more

(* Byte i of a message that starts behind a, in a stream of l bytes that   *)
(* lacks left bytes of its last message, of size z, behind b.              *)
LEMMA PlaceBehind ==
  ASSUME NEW a \in Nat, NEW b \in Nat, NEW e \in Nat, NEW l \in Nat, NEW left \in Nat,
         NEW z \in Nat, NEW w \in Nat, NEW i \in Nat, 1 <= i, l + left = e, e = b + z, left <= z
  PROVE  /\ a + i <= l => a + i \in 1 .. l
         /\ ~(a + i <= l) => a + i > b
         /\ ~(a + i <= l) /\ a = b /\ a + i <= l + w =>
              a + i - l \in 1 .. w /\ l + (a + i - l) = a + i /\ z - left + (a + i - l) = i
OBVIOUS

(* Bytes of the last message follow, as many as were owed or fewer.        *)
LEMMA EncodesMore ==
  ASSUME NEW msgs \in Seq(Messages), NEW n \in 0 .. Len(msgs), NEW s \in Seq(WireBytes),
         NEW left \in Nat, Encodes(s, msgs, n, left), n < Len(msgs),
         left <= Size(msgs[Len(msgs)]), NEW t \in Seq(WireBytes), Len(t) <= left,
         \A i \in 1 .. Len(t) :
           t[i] = Byte(msgs[Len(msgs)], Size(msgs[Len(msgs)]) - left + i)
  PROVE  Encodes(s \o t, msgs, n, left - Len(t))
<1> DEFINE N == Len(msgs)
           m == msgs[N]
<1>1. PICK off \in [n .. N -> Nat] :
        /\ off[n] = 0
        /\ \A k \in n + 1 .. N : off[k] = off[k - 1] + Size(msgs[k])
        /\ \A j, k \in n .. N : j <= k => off[j] <= off[k]
        /\ Len(s) + left = off[N]
        /\ \A k \in n + 1 .. N : \A i \in 1 .. Size(msgs[k]) :
             off[k - 1] + i <= Len(s) => s[off[k - 1] + i] = Byte(msgs[k], i)
  BY DEF Encodes
<1>2. /\ N \in Nat /\ n \in Nat /\ n < N /\ Len(s) \in Nat /\ Len(t) \in Nat
      /\ Len(s \o t) = Len(s) + Len(t)
  BY ConcatProperties, LenProperties
<1>c. /\ \A i \in 1 .. Len(s) : (s \o t)[i] = s[i]
      /\ \A i \in 1 .. Len(t) : (s \o t)[Len(s) + i] = t[i]
  BY ConcatProperties
<1>z. \A k \in 1 .. N : Size(msgs[k]) \in Nat \ {0}
  BY Sizes, ElementOfSeq
<1> HIDE DEF N
<1>3. Len(s \o t) + (left - Len(t)) = off[N]
  BY <1>1, <1>2
<1>4. ASSUME NEW k \in n + 1 .. N, NEW i \in 1 .. Size(msgs[k]), off[k - 1] + i <= Len(s \o t)
      PROVE  (s \o t)[off[k - 1] + i] = Byte(msgs[k], i)
  <2>0. /\ k - 1 \in n .. N /\ k \in n .. N /\ N - 1 \in n .. N /\ N \in n .. N /\ N \in n + 1 .. N
        /\ k \in 1 .. N /\ N \in 1 .. N
    BY <1>2
  <2>1. off[k - 1] \in Nat /\ off[k] \in Nat /\ off[N - 1] \in Nat /\ off[N] \in Nat
    BY <1>1, <2>0
  <2>2. off[N] = off[N - 1] + Size(m) /\ off[k] = off[k - 1] + Size(msgs[k])
    BY <1>1, <2>0
  <2>t. /\ i \in Nat /\ 1 <= i /\ i <= Size(msgs[k]) /\ Size(msgs[k]) \in Nat /\ Size(m) \in Nat
        /\ Len(s) + left = off[N] /\ left <= Size(m)
    BY <1>1, <1>z, <2>0 DEF N
  <2>p. /\ off[k - 1] + i <= Len(s) => off[k - 1] + i \in 1 .. Len(s)
        /\ ~(off[k - 1] + i <= Len(s)) => off[k - 1] + i > off[N - 1]
        /\ ~(off[k - 1] + i <= Len(s)) /\ off[k - 1] = off[N - 1]
             /\ off[k - 1] + i <= Len(s) + Len(t) =>
             /\ off[k - 1] + i - Len(s) \in 1 .. Len(t)
             /\ Len(s) + (off[k - 1] + i - Len(s)) = off[k - 1] + i
             /\ Size(m) - left + (off[k - 1] + i - Len(s)) = i
    <3>1. Len(s) \in Nat /\ Len(t) \in Nat /\ 1 <= i
      BY <1>2, <2>t
    <3>2. PICK a, b, e, l, z, w \in Nat :
            /\ a = off[k - 1] /\ b = off[N - 1] /\ e = off[N] /\ l = Len(s) /\ z = Size(m)
            /\ w = Len(t)
      BY <2>1, <2>t, <3>1, Zenon
    <3>3. l + left = e /\ e = b + z /\ left <= z /\ i \in Nat /\ 1 <= i
      BY <2>2, <2>t, <3>2, Zenon
    <3>4. /\ a + i <= l => a + i \in 1 .. l
          /\ ~(a + i <= l) => a + i > b
          /\ ~(a + i <= l) /\ a = b /\ a + i <= l + w =>
               a + i - l \in 1 .. w /\ l + (a + i - l) = a + i /\ z - left + (a + i - l) = i
      BY <3>3, PlaceBehind
    <3> QED BY <3>2, <3>4, Zenon
  <2>3. CASE off[k - 1] + i <= Len(s)
    <3>1. off[k - 1] + i \in 1 .. Len(s)
      BY <2>p, <2>3
    <3> QED BY <1>1, <1>c, <2>3, <3>1
  <2>4. CASE ~(off[k - 1] + i <= Len(s))
    <3>2. off[k] > off[N - 1]
      <4>1. off[k - 1] + i > off[N - 1]
        BY <2>p, <2>4
      <4>2. \A x, y, z, w \in Nat : x + y > z /\ y <= w => x + w > z
        OBVIOUS
      <4> QED BY <2>1, <2>2, <2>t, <4>1, <4>2
    <3>3. k = N
      <4>1. k <= N - 1 => off[k] <= off[N - 1]
        BY <1>1, <2>0
      <4> QED BY <1>2, <2>1, <3>2, <4>1
    <3> DEFINE x == off[k - 1] + i - Len(s)
    <3>4. x \in 1 .. Len(t) /\ Len(s) + x = off[k - 1] + i /\ Size(m) - left + x = i
      BY <1>2, <1>4, <2>p, <2>4, <3>3
    <3> HIDE DEF x
    <3>6. (s \o t)[off[k - 1] + i] = t[x]
      BY <1>c, <3>4
    <3>7. t[x] = Byte(m, Size(m) - left + x)
      BY <3>4 DEF N
    <3> QED BY <3>3, <3>4, <3>6, <3>7
  <2> QED BY <2>3, <2>4
<1> QED BY <1>1, <1>3, <1>4 DEF Encodes, N

(* A message is encoded as a whole.                                        *)
LEMMA EncodesWhole ==
  ASSUME NEW msgs \in Seq(Messages), NEW n \in 0 .. Len(msgs), NEW s \in Seq(WireBytes),
         NEW m \in Messages, Encodes(s, msgs, n, 0)
  PROVE  Encodes(s \o Bytes(m), Append(msgs, m), n, 0)
<1> DEFINE more == Append(msgs, m)
<1>1. /\ more \in Seq(Messages) /\ Len(more) = Len(msgs) + 1 /\ more[Len(more)] = m
      /\ Len(msgs) \in Nat
  BY AppendProperties, LenProperties
<1>2. n \in 0 .. Len(more) /\ n < Len(more)
  BY <1>1
<1>3. Encodes(s, more, n, Size(m))
  BY EncodesAppend
<1>4. Size(m) \in Nat /\ Size(m) <= Size(m) /\ Size(m) - Size(m) = 0
  BY Sizes
<1>5. /\ Bytes(m) \in Seq(WireBytes) /\ Len(Bytes(m)) = Size(m)
      /\ \A i \in 1 .. Size(m) : Bytes(m)[i] = Byte(m, i) /\ Size(m) - Size(m) + i = i
  BY <1>4, BytesOf
<1> HIDE DEF more
<1>6. Encodes(s \o Bytes(m), more, n, Size(m) - Len(Bytes(m)))
  BY <1>1, <1>2, <1>3, <1>4, <1>5, EncodesMore
<1> QED BY <1>4, <1>5, <1>6 DEF more

(* The first byte is that of the next message, and once that is complete,  *)
(* it is a frame, and the rest encodes the rest.                           *)
LEMMA EncodesTake ==
  ASSUME NEW msgs \in Seq(Messages), NEW n \in 0 .. Len(msgs), NEW s \in Seq(WireBytes),
         NEW left \in Nat, Encodes(s, msgs, n, left), s # <<>>
  PROVE  /\ n < Len(msgs) /\ s[1] = Byte(msgs[n + 1], 1)
         /\ FrameLen(s) = Size(msgs[n + 1])
         /\ FrameLen(s) <= Len(s) =>
              /\ Frame(s) = Bytes(msgs[n + 1])
              /\ Encodes(Rest(s), msgs, n + 1, left)
         /\ left = 0 => FrameLen(s) <= Len(s)
<1> DEFINE N == Len(msgs)
<1>1. PICK off \in [n .. N -> Nat] :
        /\ off[n] = 0
        /\ \A k \in n + 1 .. N : off[k] = off[k - 1] + Size(msgs[k])
        /\ \A j, k \in n .. N : j <= k => off[j] <= off[k]
        /\ Len(s) + left = off[N]
        /\ \A k \in n + 1 .. N : \A i \in 1 .. Size(msgs[k]) :
             off[k - 1] + i <= Len(s) => s[off[k - 1] + i] = Byte(msgs[k], i)
  BY DEF Encodes
<1>2. N \in Nat /\ n \in Nat /\ n <= N /\ Len(s) \in Nat /\ Len(s) > 0
  BY LenProperties, EmptySeq
<1>z. \A k \in 1 .. N : msgs[k] \in Messages /\ Size(msgs[k]) \in Nat \ {0}
  BY Sizes, ElementOfSeq
<1> HIDE DEF N
<1>3. n < N
  <2>1. n = N => off[N] = 0
    BY <1>1
  <2> QED BY <1>1, <1>2, <2>1
<1>4. /\ n + 1 \in n + 1 .. N /\ n + 1 - 1 = n /\ n + 1 \in 1 .. N /\ N \in n .. N
      /\ n + 1 \in n .. N /\ n \in n .. N
  BY <1>2, <1>3
<1> DEFINE m == msgs[n + 1]
           z == Size(m)
<1>5. m \in Messages /\ z \in Nat \ {0}
  BY <1>4, <1>z
<1>6. off[n + 1] = z
  <2>1. off[n + 1] = off[n] + Size(msgs[n + 1])
    BY <1>1, <1>4
  <2> QED BY <1>1, <1>5, <2>1
<1> HIDE DEF m, z
<1>7. \A i \in 1 .. z : i <= Len(s) => s[i] = Byte(m, i)
  <2>1. ASSUME NEW i \in 1 .. z, i <= Len(s) PROVE s[i] = Byte(m, i)
    <3>1. off[n + 1 - 1] = 0 /\ 0 + i = i
      BY <1>1, <1>4
    <3>2. off[n + 1 - 1] + i <= Len(s) => s[off[n + 1 - 1] + i] = Byte(msgs[n + 1], i)
      BY <1>1, <1>4, <2>1 DEF m, z
    <3> QED BY <2>1, <3>1, <3>2 DEF m
  <2> QED BY <2>1
<1>8. s[1] = Byte(m, 1)
  BY <1>2, <1>5, <1>7
<1>9. FrameLen(s) = z
  <2>1. s[1].at = 1 /\ s[1].msg = m /\ ~(s[1].at = 2)
    BY <1>8 DEF Byte
  <2> QED BY <2>1 DEF FrameLen, Size, z
<1>10. left = 0 => z <= Len(s)
  <2>1. off[n + 1] <= off[N]
    BY <1>1, <1>2, <1>3, <1>4
  <2> QED BY <1>1, <1>2, <1>6, <2>1
<1>11. ASSUME z <= Len(s)
       PROVE  Frame(s) = Bytes(m) /\ Encodes(Rest(s), msgs, n + 1, left)
  <2>1. /\ 1 \in 1 .. Len(s) + 1 /\ z \in 0 .. Len(s) /\ z + 1 \in 1 .. Len(s) + 1
        /\ Len(s) \in 0 .. Len(s)
    BY <1>2, <1>5, <1>11
  <2>2. /\ Frame(s) = SubSeq(s, 1, z) /\ Rest(s) = SubSeq(s, z + 1, Len(s))
    BY <1>9 DEF Frame, Rest
  <2>3. Frame(s) = [i \in 1 .. z |-> s[i]]
    <3>1. SubSeq(s, 1, z) = [i \in 1 .. (1 + z - 1) |-> s[i + 1 - 1]]
      BY <1>5
    <3>2. 1 + z - 1 = z /\ \A i \in 1 .. z : i + 1 - 1 = i
      BY <1>5
    <3> QED BY <2>2, <3>1, <3>2
  <2>4. Frame(s) = Bytes(m)
    <3>1. Bytes(m) = [i \in 1 .. z |-> Byte(m, i)]
      BY DEF Bytes, Size, Byte, z
    <3>2. \A i \in 1 .. z : s[i] = Byte(m, i)
      BY <1>2, <1>5, <1>7, <1>11
    <3> QED BY <2>3, <3>1, <3>2
  <2> DEFINE t == Rest(s)
  <2>5. /\ t \in Seq(WireBytes) /\ Len(t) = Len(s) - z
        /\ \A i \in 1 .. Len(s) - z : t[i] = s[z + i]
    <3>1. \A i \in 1 .. Len(s) : s[i] \in WireBytes
      BY ElementOfSeq
    <3> QED BY <1>2, <1>5, <1>11, <2>2, <3>1
  <2> HIDE DEF t
  <2> DEFINE new == [k \in n + 1 .. N |-> off[k] - z]
  <2>6. ASSUME NEW k \in n + 1 .. N
        PROVE  off[k] \in Nat /\ off[k] >= z /\ off[k] - z \in Nat /\ k \in n .. N
    <3>1. k \in n .. N /\ n + 1 <= k
      BY <1>2
    <3>2. off[k] \in Nat /\ off[n + 1] <= off[k]
      BY <1>1, <1>4, <3>1
    <3> QED BY <1>5, <1>6, <3>1, <3>2
  <2>7. new \in [n + 1 .. N -> Nat] /\ \A k \in n + 1 .. N : new[k] = off[k] - z
    BY <2>6
  <2> HIDE DEF new
  <2>8. new[n + 1] = 0
    BY <1>4, <1>5, <1>6, <2>7
  <2>9. ASSUME NEW k \in n + 1 + 1 .. N
        PROVE  /\ new[k] = new[k - 1] + Size(msgs[k])
               /\ \A i \in 1 .. Size(msgs[k]) :
                    new[k - 1] + i <= Len(t) => t[new[k - 1] + i] = Byte(msgs[k], i)
    <3>1. k \in n + 1 .. N /\ k - 1 \in n + 1 .. N /\ k \in 1 .. N
      BY <1>2
    <3>2. PICK a, b, w \in Nat : /\ a = off[k - 1] /\ b = off[k] /\ w = Size(msgs[k])
                                 /\ a >= z /\ b = a + w
      BY <1>1, <1>z, <2>6, <3>1
    <3>3. new[k] = b - z /\ new[k - 1] = a - z
      BY <2>7, <3>1, <3>2
    <3>4. b - z = a - z + w
      BY <1>5, <3>2
    <3>5. ASSUME NEW i \in 1 .. w, a - z + i <= Len(t)
          PROVE  t[a - z + i] = Byte(msgs[k], i)
      <4>1. a - z + i \in 1 .. Len(s) - z /\ z + (a - z + i) = a + i /\ a + i <= Len(s)
        <5>1. \A x, y, v, l \in Nat : x >= y /\ 1 <= v /\ x - y + v <= l - y =>
                 x - y + v \in 1 .. l - y /\ y + (x - y + v) = x + v /\ x + v <= l
          OBVIOUS
        <5>2. i \in Nat /\ 1 <= i /\ a - z + i <= Len(s) - z /\ z \in Nat
          BY <1>5, <2>5, <3>5
        <5>3. a \in Nat /\ Len(s) \in Nat /\ a >= z
          BY <1>2, <3>2
        <5> QED BY <5>1, <5>2, <5>3, Zenon
      <4>2. t[a - z + i] = s[a + i]
        BY <2>5, <4>1
      <4>3. s[off[k - 1] + i] = Byte(msgs[k], i)
        BY <1>1, <3>1, <3>2, <4>1
      <4> QED BY <3>2, <4>2, <4>3
    <3> QED BY <3>2, <3>3, <3>4, <3>5
  <2>10. ASSUME NEW j \in n + 1 .. N, NEW k \in n + 1 .. N, j <= k
         PROVE  new[j] <= new[k]
    <3>1. off[j] \in Nat /\ off[k] \in Nat /\ off[j] <= off[k]
      BY <1>1, <2>6, <2>10
    <3> QED BY <1>5, <2>7, <3>1
  <2>11. Len(t) + left = new[N]
    <3>1. N \in n + 1 .. N /\ off[N] \in Nat
      BY <1>2, <1>3, <2>6
    <3> QED BY <1>1, <1>2, <1>5, <2>5, <2>7, <3>1
  <2>12. Encodes(t, msgs, n + 1, left)
    <3> SUFFICES \E f \in [n + 1 .. N -> Nat] :
          /\ f[n + 1] = 0
          /\ \A k \in n + 1 + 1 .. N : f[k] = f[k - 1] + Size(msgs[k])
          /\ \A j, k \in n + 1 .. N : j <= k => f[j] <= f[k]
          /\ Len(t) + left = f[N]
          /\ \A k \in n + 1 + 1 .. N : \A i \in 1 .. Size(msgs[k]) :
               f[k - 1] + i <= Len(t) => t[f[k - 1] + i] = Byte(msgs[k], i)
      BY Zenon DEF Encodes, N
    <3> new \in [n + 1 .. N -> Nat]
      BY <2>7
    <3> WITNESS new \in [n + 1 .. N -> Nat]
    <3> QED BY <2>8, <2>9, <2>10, <2>11
  <2> QED BY <2>4, <2>12 DEF t
<1> QED BY <1>3, <1>8, <1>9, <1>10, <1>11 DEF m, N, z

(* Nothing is left unread only if nothing is left to read.                 *)
LEMMA EncodesNone ==
  ASSUME NEW msgs \in Seq(Messages), NEW n \in 0 .. Len(msgs), Encodes(<<>>, msgs, n, 0)
  PROVE  n = Len(msgs)
<1> SUFFICES ASSUME n < Len(msgs) PROVE FALSE
  BY LenProperties
<1> DEFINE N == Len(msgs)
<1>1. PICK off \in [n .. N -> Nat] :
        /\ off[n] = 0
        /\ \A k \in n + 1 .. N : off[k] = off[k - 1] + Size(msgs[k])
        /\ \A j, k \in n .. N : j <= k => off[j] <= off[k]
        /\ Len(<<>>) + 0 = off[N]
  BY DEF Encodes
<1>2. N \in Nat /\ n \in Nat /\ n < N /\ Len(<<>>) = 0
  BY LenProperties, EmptySeq
<1>3. Size(msgs[n + 1]) \in Nat \ {0}
  BY <1>2, Sizes, ElementOfSeq
<1> HIDE DEF N
<1>4. n + 1 \in n + 1 .. N /\ n + 1 - 1 = n /\ n + 1 \in n .. N /\ N \in n .. N /\ n + 1 <= N
  BY <1>2
<1>5. off[n + 1] = off[n] + Size(msgs[n + 1]) /\ off[n + 1] <= off[N]
  BY <1>1, <1>4
<1> QED BY <1>1, <1>2, <1>3, <1>5
-----------------------------------------------------------------------------
(* Cursors modulo the width of size_t, places modulo the capacity.         *)
LEMMA Constants ==
  /\ Capacity \in Nat \ {0} /\ SizeMod \in Nat \ {0} /\ Capacity < SizeMod
  /\ Header \in Nat /\ Header < QLen /\ QLen \in Nat \ {0}
  /\ \E c \in Nat : SizeMod = Capacity * c
<1>1. Capacity \in Nat \ {0} /\ SizeMod \in Nat /\ Capacity < SizeMod /\ SizeMod % Capacity = 0
  BY ConnectionAssumption
<1>2. SizeMod \div Capacity \in Nat /\ SizeMod = Capacity * (SizeMod \div Capacity) + (SizeMod % Capacity)
  BY <1>1
<1>3. SizeMod = Capacity * (SizeMod \div Capacity)
  BY <1>1, <1>2
<1> QED BY <1>1, <1>2, <1>3, ConnectionAssumption

(* What % and \div give.                                                   *)
LEMMA ModSplit ==
  ASSUME NEW c \in Nat \ {0}, NEW x \in Int
  PROVE  x % c \in 0 .. c - 1 /\ x \div c \in Int /\ x = c * (x \div c) + (x % c)
OBVIOUS

Congruent(x, y, c) == \E a \in Int : x = y + c * a

(* The remainder is the one congruent number below c.                      *)
LEMMA CongruentIs ==
  ASSUME NEW c \in Nat \ {0}, NEW x \in Int, NEW r \in 0 .. c - 1, Congruent(x, r, c)
  PROVE  x % c = r
<1>0. PICK a \in Int : x = r + c * a
  BY DEF Congruent
<1> DEFINE b == x \div c
           p == x % c
<1>1. p \in 0 .. c - 1 /\ b \in Int /\ x = c * b + p
  BY ModSplit
<1> HIDE DEF b, p
<1>2. c * (a - b) = p - r
  BY <1>0, <1>1
<1>3. CASE a - b >= 1
  <2>1. c * (a - b) >= c
    BY <1>1, <1>3
  <2> QED BY <1>1, <1>2, <2>1
<1>4. CASE a - b <= -1
  <2>1. c * (a - b) <= -c
    BY <1>1, <1>4
  <2> QED BY <1>1, <1>2, <2>1
<1>5. CASE a = b
  <2>1. p = r
    BY <1>0, <1>1, <1>5
  <2> QED BY <2>1 DEF p
<1>6. a - b >= 1 \/ a - b <= -1 \/ a = b
  BY <1>1
<1> QED BY <1>3, <1>4, <1>5, <1>6

(* A number and its remainder are congruent.                               *)
LEMMA CongruentMod ==
  ASSUME NEW c \in Nat \ {0}, NEW x \in Int
  PROVE  x % c \in 0 .. c - 1 /\ Congruent(x, x % c, c)
<1>1. x % c \in 0 .. c - 1 /\ x \div c \in Int /\ x = c * (x \div c) + (x % c)
  BY ModSplit
<1>2. x = (x % c) + c * (x \div c)
  BY <1>1
<1> QED BY <1>1, <1>2 DEF Congruent

(* Congruences add, subtract and turn round.                               *)
LEMMA CongruentArith ==
  ASSUME NEW c \in Nat, NEW x \in Int, NEW y \in Int, NEW z \in Int, NEW w \in Int,
         Congruent(x, y, c)
  PROVE  /\ Congruent(z, w, c) => Congruent(x + z, y + w, c) /\ Congruent(x - z, y - w, c)
         /\ Congruent(x + z, y + z, c) /\ Congruent(y, x, c)
<1>1. PICK a \in Int : x = y + c * a
  BY DEF Congruent
<1>2. PICK ca \in Int : ca = c * a
  OBVIOUS
<1>3. x = y + ca
  BY <1>1, <1>2, Zenon
<1>4. ASSUME Congruent(z, w, c)
      PROVE  Congruent(x + z, y + w, c) /\ Congruent(x - z, y - w, c)
  <2>1. PICK b \in Int : z = w + c * b
    BY <1>4 DEF Congruent
  <2>2. PICK cb \in Int : cb = c * b
    OBVIOUS
  <2>3. z = w + cb
    BY <2>1, <2>2, Zenon
  <2>4. x + z = y + w + (ca + cb) /\ x - z = y - w + (ca - cb)
    BY <1>3, <2>3
  <2>5. ca + cb = c * (a + b) /\ ca - cb = c * (a - b) /\ a + b \in Int /\ a - b \in Int
    BY <1>2, <2>2
  <2>6. x + z = y + w + c * (a + b) /\ x - z = y - w + c * (a - b)
    BY <2>4, <2>5, Zenon
  <2> QED BY <2>5, <2>6, Zenon DEF Congruent
<1>5. Congruent(x + z, y + z, c)
  <2>1. x + z = y + z + ca
    BY <1>3
  <2>2. x + z = y + z + c * a
    BY <1>2, <2>1, Zenon
  <2> QED BY <2>2, Zenon DEF Congruent
<1>6. Congruent(y, x, c)
  <2>1. y = x + (0 - ca)
    BY <1>3
  <2>2. 0 - ca = c * (0 - a) /\ 0 - a \in Int
    BY <1>2
  <2>3. y = x + c * (0 - a)
    BY <2>1, <2>2, Zenon
  <2> QED BY <2>2, <2>3, Zenon DEF Congruent
<1> QED BY <1>4, <1>5, <1>6

(* Congruent numbers have the same remainder.                              *)
LEMMA CongruentSame ==
  ASSUME NEW c \in Nat \ {0}, NEW x \in Int, NEW y \in Int, Congruent(x, y, c)
  PROVE  x % c = y % c
<1>1. PICK r \in 0 .. c - 1 : r = y % c
  BY ModSplit
<1>2. PICK a \in Int, b \in Int : x = y + c * a /\ y = r + c * b
  <2>1. Congruent(y, r, c)
    BY <1>1, CongruentMod
  <2> QED BY <2>1 DEF Congruent
<1>3. PICK ca \in Int, cb \in Int : ca = c * a /\ cb = c * b
  OBVIOUS
<1>4. x = y + ca /\ y = r + cb
  BY <1>2, <1>3, Zenon
<1>5. x = r + (cb + ca)
  BY <1>4
<1>6. cb + ca = c * (b + a) /\ b + a \in Int
  BY <1>3
<1>7. x = r + c * (b + a)
  BY <1>5, <1>6, Zenon
<1>8. Congruent(x, r, c)
  BY <1>6, <1>7, Zenon DEF Congruent
<1>9. x % c = r
  BY <1>8, CongruentIs
<1> QED BY <1>1, <1>9, Zenon

(* Two places less than a lap apart are different.                         *)
LEMMA ModDistinct ==
  ASSUME NEW c \in Nat \ {0}, NEW x \in Int, NEW y \in Int, x % c = y % c,
         x - y < c, y - x < c
  PROVE  x = y
<1>1. PICK r \in Int : r = x % c /\ r = y % c /\ Congruent(x, r, c) /\ Congruent(y, r, c)
  <2>1. Congruent(x, x % c, c) /\ Congruent(y, y % c, c)
    BY CongruentMod, Zenon
  <2>2. x % c \in Int
    BY ModSplit
  <2> QED BY <2>1, <2>2, Zenon
<1>2. Congruent(x - y, r - r, c)
  BY <1>1, CongruentArith
<1>3. PICK a \in Int : x - y = (r - r) + c * a
  BY <1>2, Zenon DEF Congruent
<1>4. x - y = c * a
  BY <1>3
<1>5. a >= 1 => c * a >= c
  OBVIOUS
<1>6. a <= -1 => c * a <= -c
  OBVIOUS
<1>7. a = 0 => c * a = 0
  OBVIOUS
<1>8. a >= 1 \/ a <= -1 \/ a = 0
  OBVIOUS
<1> QED BY <1>4, <1>5, <1>6, <1>7, <1>8

(* size_t arithmetic does not change a place in the ring.                  *)
LEMMA CongruentCapacity ==
  ASSUME NEW x \in Int, NEW y \in Int, Congruent(x, y, SizeMod)
  PROVE  x % Capacity = y % Capacity
<1>1. PICK c \in Nat : SizeMod = Capacity * c
  BY Constants
<1>2. PICK a \in Int : x = y + SizeMod * a
  BY DEF Congruent
<1>3. Capacity \in Nat \ {0}
  BY Constants
<1>4. SizeMod * a = Capacity * (c * a) /\ c * a \in Int
  BY <1>1, <1>3
<1>5. x = y + Capacity * (c * a)
  BY <1>2, <1>4, Zenon
<1>6. Congruent(x, y, Capacity)
  BY <1>4, <1>5, Zenon DEF Congruent
<1> QED BY <1>3, <1>6, CongruentSame

(* The distance from a head to a tail, in size_t arithmetic.                *)
Gap(h, t) == (t - h) % SizeMod

(* What releasing and adding bytes does to the number in use.              *)
LEMMA GapMoves ==
  ASSUME NEW h \in Nat, NEW t \in Nat
  PROVE  /\ Gap(h, t) \in 0 .. SizeMod - 1 /\ Gap(h, t) \in Nat
         /\ \A k \in 0 .. Gap(h, t) : Gap((h + k) % SizeMod, t) = Gap(h, t) - k
         /\ \A d \in Nat : Gap(h, t) + d < SizeMod => Gap(h, t + d) = Gap(h, t) + d
         /\ \A i \in Int : (h + i) % Capacity = (t - Gap(h, t) + i) % Capacity
<1> DEFINE u == Gap(h, t)
<1>1. SizeMod \in Nat \ {0} /\ t - h \in Int /\ h \in Int /\ t \in Int /\ SizeMod \in Nat
  BY Constants
<1>2. u \in 0 .. SizeMod - 1 /\ Congruent(t - h, u, SizeMod) /\ u \in Int
  <2>1. (t - h) % SizeMod \in 0 .. SizeMod - 1 /\ Congruent(t - h, (t - h) % SizeMod, SizeMod)
    BY <1>1, CongruentMod, Zenon
  <2>2. \A v \in 0 .. SizeMod - 1 : v \in Int
    BY <1>1
  <2>3. u = (t - h) % SizeMod
    BY DEF Gap
  <2> QED BY <2>1, <2>2, <2>3, Zenon
<1> HIDE DEF u
<1>3. ASSUME NEW k \in 0 .. u PROVE (t - ((h + k) % SizeMod)) % SizeMod = u - k
  <2>1. h + k \in Int /\ u - k \in 0 .. SizeMod - 1
    BY <1>1, <1>2
  <2>2. PICK g \in Int : g = (h + k) % SizeMod /\ Congruent(h + k, g, SizeMod)
    <3>1. (h + k) % SizeMod \in Int
      BY <1>1, <2>1, ModSplit
    <3> QED BY <1>1, <2>1, <3>1, CongruentMod, Zenon
  <2>3. Congruent((t - h) + (h + k), u + g, SizeMod)
    BY <1>1, <1>2, <2>1, <2>2, CongruentArith
  <2>4. (t - h) + (h + k) \in Int /\ u + g \in Int /\ 0 - (k + g) \in Int
    BY <1>2
  <2>5. Congruent((t - h) + (h + k) + (0 - (k + g)), u + g + (0 - (k + g)), SizeMod)
    BY <1>1, <2>3, <2>4, CongruentArith
  <2>6. (t - h) + (h + k) + (0 - (k + g)) = t - g /\ u + g + (0 - (k + g)) = u - k /\ t - g \in Int
    BY <1>2
  <2>7. Congruent(t - g, u - k, SizeMod)
    BY <2>5, <2>6, Zenon
  <2>8. (t - g) % SizeMod = u - k
    BY <1>1, <2>1, <2>6, <2>7, CongruentIs
  <2> QED BY <2>2, <2>8
<1>4. ASSUME NEW d \in Nat, u + d < SizeMod PROVE (t + d - h) % SizeMod = u + d
  <2>1. Congruent((t - h) + d, u + d, SizeMod)
    <3>1. d \in Int
      OBVIOUS
    <3> QED BY <1>1, <1>2, <3>1, CongruentArith, Zenon
  <2>2. (t - h) + d = t + d - h /\ t + d - h \in Int /\ u + d \in 0 .. SizeMod - 1
    BY <1>1, <1>2, <1>4
  <2>3. Congruent(t + d - h, u + d, SizeMod)
    BY <2>1, <2>2, Zenon
  <2> QED BY <1>1, <2>2, <2>3, CongruentIs
<1>5. ASSUME NEW i \in Int PROVE (h + i) % Capacity = (t - u + i) % Capacity
  <2>1. h - u + i \in Int
    BY <1>2
  <2>2. Congruent((t - h) + (h - u + i), u + (h - u + i), SizeMod)
    BY <1>1, <1>2, <2>1, CongruentArith
  <2>3. (t - h) + (h - u + i) = t - u + i /\ u + (h - u + i) = h + i
        /\ t - u + i \in Int /\ h + i \in Int
    BY <1>2
  <2>4. Congruent(t - u + i, h + i, SizeMod)
    BY <2>2, <2>3, Zenon
  <2> QED BY <2>3, <2>4, CongruentCapacity
<1>6. u \in Nat
  BY <1>1, <1>2
<1> QED BY <1>2, <1>3, <1>4, <1>5, <1>6 DEF Gap, u

(* A place counted from a head that has gone round.                        *)
LEMMA HeadMoves ==
  ASSUME NEW x \in Nat, NEW i \in Int
  PROVE  /\ (x % SizeMod) \in Nat /\ (x % SizeMod) <= x
         /\ ((x % SizeMod) + i) % Capacity = (x + i) % Capacity
<1>1. SizeMod \in Nat \ {0} /\ SizeMod \in Nat
  BY Constants
<1>2. x % SizeMod \in Nat /\ x % SizeMod <= x /\ Congruent(x, x % SizeMod, SizeMod)
  BY <1>1, CongruentMod
<1>3. PICK g \in Nat : g = x % SizeMod
  BY <1>2, Zenon
<1>4. Congruent(x + i, g + i, SizeMod)
  BY <1>1, <1>2, <1>3, CongruentArith
<1>5. x + i \in Int /\ g + i \in Int
  OBVIOUS
<1>6. (x + i) % Capacity = (g + i) % Capacity
  BY <1>4, <1>5, CongruentCapacity
<1> QED BY <1>2, <1>3, <1>6, Zenon

(* The lap a place is in.                                                  *)
LEMMA LapOf ==
  ASSUME NEW t \in Nat
  PROVE  LET p == t % Capacity
             lap == (t \div Capacity + 1) * Capacity
         IN  /\ p \in 0 .. Capacity - 1 /\ lap = t + (Capacity - p) /\ lap \in Nat
             /\ lap % Capacity = 0
             /\ \A x \in t .. lap - 1 : x % Capacity = p + (x - t)
<1>1. Capacity \in Nat \ {0} /\ t \in Int
  BY Constants
<1>2. PICK p \in 0 .. Capacity - 1, b \in Int, cb \in Int :
        p = t % Capacity /\ b = t \div Capacity /\ cb = Capacity * b /\ t = cb + p
  <2>1. t % Capacity \in 0 .. Capacity - 1 /\ t \div Capacity \in Int
        /\ t = Capacity * (t \div Capacity) + (t % Capacity)
    BY <1>1, ModSplit
  <2>2. Capacity * (t \div Capacity) \in Int
    BY <1>1, <2>1
  <2> QED BY <2>1, <2>2, Zenon
<1>3. PICK lap \in Int : lap = (b + 1) * Capacity
  BY <1>1
<1>4. lap = cb + Capacity
  BY <1>1, <1>2, <1>3
<1>5. lap = t + (Capacity - p) /\ lap \in Nat
  BY <1>1, <1>2, <1>4
<1>6. lap % Capacity = 0
  <2>1. lap = 0 + Capacity * (b + 1) /\ b + 1 \in Int
    BY <1>1, <1>3
  <2>2. Congruent(lap, 0, Capacity) /\ 0 \in 0 .. Capacity - 1
    BY <1>1, <2>1 DEF Congruent
  <2> QED BY <1>1, <2>2, CongruentIs
<1>7. ASSUME NEW x \in t .. lap - 1 PROVE x % Capacity = p + (x - t)
  <2>1. x = p + (x - t) + cb /\ p + (x - t) \in 0 .. Capacity - 1 /\ x \in Int
    BY <1>1, <1>2, <1>5
  <2>2. x = p + (x - t) + Capacity * b
    BY <1>2, <2>1, Zenon
  <2>3. Congruent(x, p + (x - t), Capacity)
    BY <2>2, Zenon DEF Congruent
  <2> QED BY <1>1, <2>1, <2>3, CongruentIs
<1> QED BY <1>2, <1>3, <1>5, <1>6, <1>7, Zenon

(* Where push puts a message of len bytes, if it has room.                 *)
LEMMA PushPlace ==
  ASSUME head \in Nat, tail \in Nat, NEW len \in Nat \ {0}, HasRoom(len),
         Used <= Capacity, head + Used <= tail
  PROVE  /\ Start(len) \in Nat /\ tail <= Start(len)
         /\ Start(len) - tail + len + Used <= Capacity
         /\ \A x \in tail .. Start(len) - 1 : x % Capacity > Capacity - Header
         /\ Header < len => Start(len) % Capacity <= Capacity - Header
<1>1. /\ Capacity \in Nat \ {0} /\ Header \in Nat /\ SizeMod \in Nat \ {0} /\ Capacity < SizeMod
  BY Constants
<1>2. PICK u \in Nat : u = Used
  <2>1. Used \in 0 .. SizeMod - 1
    BY GapMoves DEF Used, Gap
  <2> QED BY <1>1, <2>1
<1>3. PICK p \in 0 .. Capacity - 1, lap \in Nat :
        /\ p = tail % Capacity /\ lap = (tail \div Capacity + 1) * Capacity
        /\ lap = tail + (Capacity - p) /\ lap % Capacity = 0
        /\ \A x \in tail .. lap - 1 : x % Capacity = p + (x - tail)
  BY LapOf, Zenon
<1>4. CASE Fits(len)
  <2>1. p + len <= Capacity
    BY <1>3, <1>4, Zenon DEF Fits
  <2>2. Start(len) = tail
    BY <1>4 DEF Start
  <2>3. (Capacity - u) % SizeMod >= len
    BY <1>2, <1>4, Zenon DEF HasRoom
  <2>4. (Capacity - u) % SizeMod = Capacity - u
    <3>1. Capacity - u \in 0 .. SizeMod - 1 /\ Capacity - u \in Int
      BY <1>1, <1>2
    <3>2. Capacity - u = Capacity - u + SizeMod * 0 /\ 0 \in Int
      BY <1>1, <3>1
    <3>3. Congruent(Capacity - u, Capacity - u, SizeMod)
      BY <3>2, Zenon DEF Congruent
    <3> QED BY <1>1, <3>1, <3>3, CongruentIs
  <2>5. Capacity - u >= len
    BY <2>3, <2>4, Zenon
  <2>6. tail - tail + len + u <= Capacity /\ (\A x \in tail .. tail - 1 : FALSE)
    BY <1>1, <2>5
  <2>7. Header < len => p <= Capacity - Header
    BY <1>1, <2>1
  <2> QED BY <1>2, <1>3, <2>2, <2>6, <2>7
<1>5. CASE ~Fits(len)
  <2>1. lap + len <= head + Capacity
    BY <1>3, <1>5, Zenon DEF HasRoom
  <2>2. lap - tail + len + u <= Capacity /\ tail <= lap /\ len <= Capacity
    BY <1>1, <1>2, <1>3, <2>1
  <2>3. CASE Capacity - p >= Header
    <3>1. Start(len) = tail
      BY <1>3, <2>3, Zenon DEF Start
    <3>2. tail - tail + len + u <= Capacity /\ (\A x \in tail .. tail - 1 : FALSE)
      BY <1>1, <2>2
    <3>3. p <= Capacity - Header
      BY <1>1, <2>3
    <3> QED BY <1>2, <1>3, <3>1, <3>2, <3>3
  <2>4. CASE ~(Capacity - p >= Header)
    <3>1. Start(len) = lap
      BY <1>3, <1>5, <2>4, Zenon DEF Start
    <3>2. ASSUME NEW x \in tail .. lap - 1 PROVE x % Capacity > Capacity - Header
      <4>1. x % Capacity = p + (x - tail)
        BY <1>3
      <4>2. p + (x - tail) > Capacity - Header
        BY <1>1, <2>4
      <4> QED BY <4>1, <4>2, Zenon
    <3>3. Header < len => 0 <= Capacity - Header
      BY <1>1, <2>2
    <3> QED BY <1>2, <1>3, <2>2, <3>1, <3>2, <3>3
  <2> QED BY <2>3, <2>4
<1> QED BY <1>4, <1>5

(* A submission is within what is left to send and what is used.           *)
LEMMA ChunkBounds ==
  ASSUME tx.left \in Nat, head \in Nat, tail \in Nat
  PROVE  Chunk \in Int /\ Chunk <= tx.left /\ Chunk <= Used
<1>1. PICK a \in Int, b \in Int, c \in Int :
        a = tx.left /\ b = Used /\ c = Capacity - (head % Capacity)
  <2>1. Used \in 0 .. SizeMod - 1 /\ SizeMod \in Nat
    BY Constants, GapMoves DEF Used, Gap
  <2>2. head % Capacity \in 0 .. Capacity - 1 /\ Capacity \in Nat
    BY Constants, LapOf
  <2>3. Used \in Int /\ Capacity - (head % Capacity) \in Int
    BY <2>1, <2>2
  <2> QED BY <2>3
<1>2. \E x \in {a, b, c} : \A y \in {a, b, c} : x <= y
  <2>1. CASE a <= b /\ a <= c
    BY <2>1
  <2>2. CASE b <= a /\ b <= c
    BY <2>2
  <2>3. CASE c <= a /\ c <= b
    BY <2>3
  <2> QED BY <2>1, <2>2, <2>3
<1>3. Chunk = Min({a, b, c})
  BY <1>1, Zenon DEF Chunk
<1>4. Chunk \in {a, b, c} /\ \A y \in {a, b, c} : Chunk <= y
  BY <1>2, <1>3 DEF Min
<1> QED BY <1>1, <1>4

(* A place of the ring and its distance from s determine each other.       *)
LEMMA RingPlace ==
  ASSUME NEW s \in Nat
  PROVE  /\ \A r \in 0 .. Capacity - 1 :
              (r - s) % Capacity \in 0 .. Capacity - 1 /\ (s + ((r - s) % Capacity)) % Capacity = r
         /\ \A x \in 0 .. Capacity - 1 :
              (s + x) % Capacity \in 0 .. Capacity - 1 /\ (((s + x) % Capacity) - s) % Capacity = x
<1>1. Capacity \in Nat \ {0} /\ Capacity \in Nat
  BY Constants
<1>2. ASSUME NEW r \in 0 .. Capacity - 1
      PROVE  (r - s) % Capacity \in 0 .. Capacity - 1 /\ (s + ((r - s) % Capacity)) % Capacity = r
  <2>1. r - s \in Int /\ s \in Int
    BY <1>1
  <2>2. (r - s) % Capacity \in 0 .. Capacity - 1 /\ Congruent(r - s, (r - s) % Capacity, Capacity)
    BY <1>1, <2>1, CongruentMod, Zenon
  <2>3. PICK k \in 0 .. Capacity - 1 : k = (r - s) % Capacity /\ Congruent(r - s, k, Capacity)
    BY <2>2, Zenon
  <2>4. k \in Int /\ (r - s) + s = r /\ k + s = s + k /\ s + k \in Int /\ r \in Int
    BY <1>1
  <2>5. Congruent((r - s) + s, k + s, Capacity)
    BY <1>1, <2>1, <2>3, <2>4, CongruentArith, Zenon
  <2>6. Congruent(r, s + k, Capacity)
    BY <2>4, <2>5, Zenon
  <2>7. Congruent(s + k, r, Capacity)
    BY <1>1, <2>4, <2>6, CongruentArith, Zenon
  <2>8. (s + k) % Capacity = r
    BY <1>1, <2>4, <2>7, CongruentIs, Zenon
  <2> QED BY <2>3, <2>8, Zenon
<1>3. ASSUME NEW x \in 0 .. Capacity - 1
      PROVE  (s + x) % Capacity \in 0 .. Capacity - 1 /\ (((s + x) % Capacity) - s) % Capacity = x
  <2>1. s + x \in Int /\ 0 - s \in Int
    BY <1>1
  <2>2. (s + x) % Capacity \in 0 .. Capacity - 1 /\ Congruent(s + x, (s + x) % Capacity, Capacity)
    BY <1>1, <2>1, CongruentMod, Zenon
  <2>3. PICK r \in 0 .. Capacity - 1 : r = (s + x) % Capacity /\ Congruent(s + x, r, Capacity)
    BY <2>2, Zenon
  <2>4. r \in Int /\ (s + x) + (0 - s) = x /\ r + (0 - s) = r - s /\ r - s \in Int /\ x \in Int
    BY <1>1
  <2>5. Congruent((s + x) + (0 - s), r + (0 - s), Capacity)
    BY <1>1, <2>1, <2>3, <2>4, CongruentArith, Zenon
  <2>6. Congruent(x, r - s, Capacity)
    BY <2>4, <2>5, Zenon
  <2>7. Congruent(r - s, x, Capacity)
    BY <1>1, <2>4, <2>6, CongruentArith, Zenon
  <2>8. (r - s) % Capacity = x
    BY <1>1, <2>4, <2>7, CongruentIs, Zenon
  <2> QED BY <2>3, <2>8, Zenon
<1> QED BY <1>2, <1>3

-----------------------------------------------------------------------------
(* What the steps of the connection do.                                    *)
Finish ==
  /\ tx.at \in {"ok", "failed"} /\ mtx' = NoCall /\ tx' = Idle
  /\ UNCHANGED <<ringVars, kernelVars, exchangeVars, fillVars, toEx, toUs, conn, sent>>

SendStep == \/ \E t \in Calls : \E m \in Requests : Begin(t, m) \/ Spin(t, m)
            \/ Finish \/ SendZcAll \/ Notify
FillStep == FillThread \/ FillQuote

(* push copies the message to its place and nothing else.                  *)
LEMMA BeginCopies ==
  ASSUME RingTypes, NEW t \in Calls, NEW m \in Requests, Begin(t, m)
  PROVE  LET len == Size(m)
             start == Start(len)
         IN  /\ len \in Nat \ {0} /\ m \in Messages /\ start \in Nat /\ tail' = start + len
             /\ HasRoom(len) /\ mtx = NoCall /\ mtx' = t
             /\ gapped' = (gapped \/ start # tail)
             /\ tx' = [at |-> "submit", msg |-> m, left |-> len]
             /\ sent' = Append(sent, m)
             /\ ring' \in [0 .. Capacity - 1 -> WireBytes]
             /\ \A r \in 0 .. Capacity - 1 :
                  \/ ring'[r] = ring[r] /\ \A x \in 0 .. len - 1 : len <= Capacity => r # (start + x) % Capacity
                  \/ \E x \in 0 .. len - 1 : r = (start + x) % Capacity /\ ring'[r] = Byte(m, x + 1)
             /\ len <= Capacity => \A x \in 0 .. len - 1 :
                  /\ (start + x) % Capacity \in 0 .. Capacity - 1
                  /\ ring'[(start + x) % Capacity] = Byte(m, x + 1)
<1> DEFINE len == Size(m)
           start == Start(len)
<1>1. m \in Messages /\ len \in Nat \ {0}
  BY Sizes DEF Messages
<1>2. Capacity \in Nat \ {0} /\ head \in Nat /\ tail \in Nat
  BY Constants DEF RingTypes
<1>3. start \in Nat
  BY <1>2, LapOf DEF Start
<1>4. /\ tail' = start + len /\ HasRoom(len) /\ gapped' = (gapped \/ start # tail)
      /\ mtx = NoCall /\ mtx' = t
      /\ tx' = [at |-> "submit", msg |-> m, left |-> len] /\ sent' = Append(sent, m)
      /\ ring' = [i \in 0 .. Capacity - 1 |->
                    IF ((i - start) % Capacity) < len THEN Bytes(m)[((i - start) % Capacity) + 1]
                    ELSE ring[i]]
  BY DEF Begin, Size
<1> HIDE DEF len, start
<1>5. \A r \in 0 .. Capacity - 1 :
        (r - start) % Capacity \in 0 .. Capacity - 1 /\ (start + ((r - start) % Capacity)) % Capacity = r
  BY <1>3, RingPlace
<1>6. \A x \in 0 .. Capacity - 1 :
        (start + x) % Capacity \in 0 .. Capacity - 1 /\ (((start + x) % Capacity) - start) % Capacity = x
  BY <1>3, RingPlace
<1>7. ASSUME NEW x \in 0 .. len - 1 PROVE Bytes(m)[x + 1] = Byte(m, x + 1) /\ Byte(m, x + 1) \in WireBytes
  <2>1. x + 1 \in 1 .. len
    BY <1>1
  <2> QED BY <1>1, <2>1, BytesOf DEF len, Byte, WireBytes
<1>8. ASSUME NEW r \in 0 .. Capacity - 1
      PROVE  /\ \/ ring'[r] = ring[r] /\ \A x \in 0 .. len - 1 : len <= Capacity => r # (start + x) % Capacity
                \/ \E x \in 0 .. len - 1 : r = (start + x) % Capacity /\ ring'[r] = Byte(m, x + 1)
             /\ ring'[r] \in WireBytes
  <2>1. PICK k \in 0 .. Capacity - 1 : k = (r - start) % Capacity /\ (start + k) % Capacity = r
    BY <1>5, Zenon
  <2>2. ring'[r] = IF k < len THEN Bytes(m)[k + 1] ELSE ring[r]
    BY <1>4, <2>1, Zenon
  <2>3. CASE k < len
    <3>1. k \in 0 .. len - 1
      BY <1>1, <1>2, <2>3
    <3> QED BY <1>7, <2>1, <2>2, <2>3, <3>1, Zenon
  <2>4. CASE ~(k < len)
    <3>1. ASSUME NEW x \in 0 .. len - 1, len <= Capacity PROVE r # (start + x) % Capacity
      <4>1. x \in 0 .. Capacity - 1 /\ x # k
        BY <1>1, <1>2, <2>4, <3>1
      <4> QED BY <1>6, <2>1, <4>1, Zenon
    <3>2. ring'[r] = ring[r]
      BY <2>2, <2>4
    <3>3. ring[r] \in WireBytes
      BY DEF RingTypes
    <3> QED BY <3>1, <3>2, <3>3
  <2> QED BY <2>3, <2>4
<1>9. ring' \in [0 .. Capacity - 1 -> WireBytes]
  <2>1. DOMAIN ring' = 0 .. Capacity - 1 /\ ring' = [i \in 0 .. Capacity - 1 |-> ring'[i]]
    BY <1>4
  <2> QED BY <1>8, <2>1
<1>10. ASSUME len <= Capacity, NEW x \in 0 .. len - 1
       PROVE  /\ (start + x) % Capacity \in 0 .. Capacity - 1
              /\ ring'[(start + x) % Capacity] = Byte(m, x + 1)
  <2>1. x \in 0 .. Capacity - 1 /\ x < len
    BY <1>1, <1>2, <1>10
  <2>2. PICK r \in 0 .. Capacity - 1 : r = (start + x) % Capacity /\ (r - start) % Capacity = x
    BY <1>6, <2>1, Zenon
  <2>3. ring'[r] = Bytes(m)[x + 1]
    BY <1>4, <2>1, <2>2, Zenon
  <2> QED BY <1>7, <2>2, <2>3, Zenon
<1> QED BY <1>1, <1>3, <1>4, <1>8, <1>9, <1>10 DEF len, start

(* A piece of the ring is a sequence of bytes.                             *)
LEMMA PieceTypes ==
  ASSUME RingTypes, NEW k \in Int
  PROVE  /\ Ahead(k) \in Seq(WireBytes)
         /\ k \in Nat => Len(Ahead(k)) = k
         /\ \A i \in 1 .. k : Ahead(k)[i] = ring[(head + i - 1) % Capacity]
<1>1. Capacity \in Nat \ {0} /\ head \in Nat
  BY Constants DEF RingTypes
<1>2. ASSUME NEW i \in 1 .. k PROVE ring[(head + i - 1) % Capacity] \in WireBytes
  <2>1. head + i - 1 \in Int
    BY <1>1
  <2>2. (head + i - 1) % Capacity \in 0 .. Capacity - 1
    BY <1>1, <2>1, ModSplit
  <2> QED BY <2>2, Zenon DEF RingTypes
<1>3. Ahead(k) = [i \in 1 .. k |-> ring[(head + i - 1) % Capacity]]
  BY DEF Ahead
<1>4. CASE k \in Nat
  BY <1>2, <1>3, <1>4
<1>5. CASE k \notin Nat
  <2>1. \A i \in 1 .. k : FALSE
    BY <1>5
  <2>2. Ahead(k) \in [1 .. 0 -> WireBytes]
    <3>1. 1 .. k = 1 .. 0
      BY <2>1
    <3> QED BY <1>2, <1>3, <3>1
  <2>3. Ahead(k) \in Seq(WireBytes)
    BY <2>2
  <2> QED BY <1>5, <2>1, <2>3
<1> QED BY <1>4, <1>5

(* While nothing was left behind, a submission is the only one.            *)
LEMMA Alone ==
  ASSUME RingTypes, ~kept
  PROVE  /\ staged = Nothing
         /\ \A c \in [n : Nat, res : Int] : cq \o Append(staged.cqes, c) = Append(cq, c)
         /\ \A s \in Seq(WireBytes) : s \o staged.bytes = s
<1>1. staged = Nothing /\ staged.cqes = <<>> /\ staged.bytes = <<>>
  BY DEF RingTypes, Nothing
<1>2. cq \in Seq([n : Nat, res : Int])
  BY DEF RingTypes
<1>3. ASSUME NEW c \in [n : Nat, res : Int] PROVE cq \o Append(staged.cqes, c) = Append(cq, c)
  <2>1. Append(<<>>, c) = <<c>>
    OBVIOUS
  <2>2. cq \o <<c>> = Append(cq, c)
    BY <1>2, AppendIsConcat
  <2> QED BY <1>1, <2>1, <2>2
<1>4. ASSUME NEW s \in Seq(WireBytes) PROVE s \o staged.bytes = s
  BY <1>1, ConcatEmptySeq
<1> QED BY <1>1, <1>3, <1>4

(* What a submission puts on the wire and into the completion queue.       *)
LEMMA SubmitTypes ==
  ASSUME RingTypes, WireTypes, NEW k \in 1 .. Capacity, Submit(k)
  PROVE  /\ RingTypes' /\ WireTypes'
         /\ ~kept => /\ toEx' = IF conn = "up" THEN toEx \o Ahead(k) ELSE toEx
                     /\ cq' = Append(cq, [n |-> sqes + 1, res |-> k])
<1> DEFINE c == [n |-> sqes + 1, res |-> k]
<1>1. Ahead(k) \in Seq(WireBytes) /\ staged.bytes \in Seq(WireBytes) /\ toEx \in Seq(WireBytes)
  BY PieceTypes DEF RingTypes, WireTypes
<1>2. c \in [n : Nat, res : Int] /\ sqes + 1 \in Nat
  BY Constants DEF RingTypes
<1>3. /\ toEx' = (IF conn = "up" THEN toEx \o staged.bytes \o Ahead(k) ELSE toEx)
      /\ cq' = cq \o Append(staged.cqes, c) /\ sqes' = sqes + 1 /\ staged' = Nothing
      /\ tx' = [tx EXCEPT !.at = "reap"]
      /\ UNCHANGED <<ring, head, tail, gapped, stale, kept, torn, faults, exchangeVars, fillVars, mtx,
                     toUs, conn, sent>>
  BY DEF Submit, ringVars
<1> HIDE DEF c
<1>4. toEx' \in Seq(WireBytes)
  <2>1. (toEx \o staged.bytes) \o Ahead(k) \in Seq(WireBytes)
    BY <1>1, ConcatProperties
  <2> QED BY <1>1, <1>3, <2>1
<1>5. cq' \in Seq([n : Nat, res : Int])
  <2>1. Append(staged.cqes, c) \in Seq([n : Nat, res : Int]) /\ cq \in Seq([n : Nat, res : Int])
    BY <1>2, AppendProperties DEF RingTypes
  <2>2. cq \o Append(staged.cqes, c) \in Seq([n : Nat, res : Int])
    BY <2>1, ConcatProperties
  <2> QED BY <1>3, <2>2
<1>6. tx' \in [at : {"idle", "spin", "submit", "reap", "ok", "failed"}, msg : Requests \cup {NoMsg}, left : Nat]
  BY <1>3 DEF RingTypes
<1>7. staged' \in [bytes : Seq(WireBytes), cqes : Seq([n : Nat, res : Int])]
  BY <1>3, EmptySeq DEF Nothing
<1>8. RingTypes'
  BY <1>2, <1>3, <1>5, <1>6, <1>7 DEF RingTypes
<1>9. WireTypes'
  BY <1>3, <1>4 DEF WireTypes, exchangeVars, fillVars
<1>10. ASSUME ~kept PROVE /\ toEx' = IF conn = "up" THEN toEx \o Ahead(k) ELSE toEx
                          /\ cq' = Append(cq, c)
  <2>1. cq \o Append(staged.cqes, c) = Append(cq, c) /\ toEx \o staged.bytes = toEx
    BY <1>1, <1>2, <1>10, Alone
  <2> QED BY <1>3, <2>1
<1> QED BY <1>8, <1>9, <1>10 DEF c

(* So much for one that fails.                                             *)
LEMMA SubmitErrorTypes ==
  ASSUME RingTypes, WireTypes, SubmitError
  PROVE  /\ RingTypes' /\ WireTypes'
         /\ ~kept => toEx' = toEx /\ cq' = Append(cq, [n |-> sqes + 1, res |-> -1])
<1> DEFINE c == [n |-> sqes + 1, res |-> -1]
<1>1. staged.bytes \in Seq(WireBytes) /\ toEx \in Seq(WireBytes)
  BY DEF RingTypes, WireTypes
<1>2. c \in [n : Nat, res : Int] /\ sqes + 1 \in Nat /\ faults' \in Nat
  BY DEF RingTypes, SubmitError
<1>3. /\ toEx' = (IF conn = "up" THEN toEx \o staged.bytes ELSE toEx)
      /\ cq' = cq \o Append(staged.cqes, c) /\ sqes' = sqes + 1 /\ staged' = Nothing
      /\ tx' = [tx EXCEPT !.at = "reap"]
      /\ UNCHANGED <<ring, head, tail, gapped, stale, kept, torn, exchangeVars, fillVars, mtx,
                     toUs, conn, sent>>
  BY DEF SubmitError, ringVars
<1> HIDE DEF c
<1>4. toEx' \in Seq(WireBytes)
  BY <1>1, <1>3, ConcatProperties
<1>5. cq' \in Seq([n : Nat, res : Int])
  <2>1. Append(staged.cqes, c) \in Seq([n : Nat, res : Int]) /\ cq \in Seq([n : Nat, res : Int])
    BY <1>2, AppendProperties DEF RingTypes
  <2>2. cq \o Append(staged.cqes, c) \in Seq([n : Nat, res : Int])
    BY <2>1, ConcatProperties
  <2> QED BY <1>3, <2>2
<1>6. tx' \in [at : {"idle", "spin", "submit", "reap", "ok", "failed"}, msg : Requests \cup {NoMsg}, left : Nat]
  BY <1>3 DEF RingTypes
<1>7. staged' \in [bytes : Seq(WireBytes), cqes : Seq([n : Nat, res : Int])]
  BY <1>3, EmptySeq DEF Nothing
<1>8. RingTypes'
  BY <1>2, <1>3, <1>5, <1>6, <1>7 DEF RingTypes
<1>9. WireTypes'
  BY <1>3, <1>4 DEF WireTypes, exchangeVars, fillVars
<1>10. ASSUME ~kept PROVE toEx' = toEx /\ cq' = Append(cq, c)
  <2>1. cq \o Append(staged.cqes, c) = Append(cq, c) /\ toEx \o staged.bytes = toEx
    BY <1>1, <1>2, <1>10, Alone
  <2> QED BY <1>3, <2>1
<1> QED BY <1>8, <1>9, <1>10 DEF c

(* A send that gives up with its bytes in the ring.                        *)
LeavesBytes == NoSqe \/ SubmitFails \/ WaitFails
LEMMA LeavesTypes ==
  ASSUME RingTypes, WireTypes, LeavesBytes
  PROVE  /\ RingTypes' /\ WireTypes'
         /\ tx.at \in {"submit", "reap"} /\ tx' = [tx EXCEPT !.at = "failed"] /\ kept' = TRUE
         /\ UNCHANGED <<ringVars, cq, stale, torn, exchangeVars, fillVars, mtx, toEx, toUs, conn, sent>>
<1>1. LeaveBytes /\ tx.at \in {"submit", "reap"}
  BY DEF LeavesBytes, NoSqe, SubmitFails, WaitFails
<1>2. /\ tx' = [tx EXCEPT !.at = "failed"] /\ kept' = TRUE
      /\ UNCHANGED <<ringVars, cq, stale, torn, exchangeVars, fillVars, mtx, toEx, toUs, conn, sent>>
  BY <1>1 DEF LeaveBytes
<1>3. tx' \in [at : {"idle", "spin", "submit", "reap", "ok", "failed"}, msg : Requests \cup {NoMsg}, left : Nat]
  BY <1>2 DEF RingTypes
<1>4. sqes' \in Nat /\ faults' \in Nat
  BY DEF LeavesBytes, NoSqe, SubmitFails, WaitFails, RingTypes
<1>5. staged' \in [bytes : Seq(WireBytes), cqes : Seq([n : Nat, res : Int])]
  <2>1. CASE NoSqe \/ WaitFails
    BY <2>1 DEF NoSqe, WaitFails, RingTypes
  <2>2. CASE SubmitFails
    <3>1. tx.left \in Nat /\ head \in Nat /\ tail \in Nat
      BY DEF RingTypes
    <3>2. Chunk \in Int /\ Chunk > 0
      BY <2>2, <3>1, ChunkBounds DEF SubmitFails
    <3>3. Ahead(Chunk) \in Seq(WireBytes) /\ staged.bytes \in Seq(WireBytes)
      BY <3>2, PieceTypes DEF RingTypes
    <3>4. staged.bytes \o Ahead(Chunk) \in Seq(WireBytes)
      BY <3>3, ConcatProperties
    <3>5. [n |-> sqes + 1, res |-> Chunk] \in [n : Nat, res : Int]
      BY <3>2 DEF RingTypes
    <3>6. Append(staged.cqes, [n |-> sqes + 1, res |-> Chunk]) \in Seq([n : Nat, res : Int])
      BY <3>5, AppendProperties DEF RingTypes
    <3>7. staged' = [bytes |-> staged.bytes \o Ahead(Chunk),
                     cqes |-> Append(staged.cqes, [n |-> sqes + 1, res |-> Chunk])]
      BY <2>2 DEF SubmitFails
    <3> QED BY <3>4, <3>6, <3>7
  <2> QED BY <2>1, <2>2 DEF LeavesBytes
<1>6. RingTypes'
  BY <1>2, <1>3, <1>4, <1>5 DEF RingTypes, ringVars
<1>7. WireTypes'
  BY <1>2 DEF WireTypes, exchangeVars, fillVars
<1> QED BY <1>1, <1>2, <1>6, <1>7

(* All but the last of a sequence.                                         *)
LEMMA FrontIs ==
  ASSUME NEW S, NEW s \in Seq(S)
  PROVE  /\ Front(s) \in Seq(S)
         /\ Len(s) > 0 => /\ Len(Front(s)) = Len(s) - 1
                          /\ \A i \in 1 .. Len(s) - 1 : Front(s)[i] = s[i]
<1>1. Len(s) \in Nat /\ Len(s) - 1 \in Int /\ 1 \in Int
  BY LenProperties
<1>2. Front(s) = SubSeq(s, 1, Len(s) - 1)
  BY DEF Front
<1>3. \A i \in 1 .. Len(s) - 1 : s[i] \in S
  BY <1>1, ElementOfSeq
<1>4. /\ SubSeq(s, 1, Len(s) - 1) \in Seq(S)
      /\ Len(SubSeq(s, 1, Len(s) - 1)) = IF 1 <= Len(s) - 1 THEN Len(s) - 1 - 1 + 1 ELSE 0
      /\ \A i \in 1 .. Len(s) - 1 - 1 + 1 : SubSeq(s, 1, Len(s) - 1)[i] = s[1 + i - 1]
  BY <1>1, <1>3, SubSeqProperties
<1>5. ASSUME Len(s) > 0, NEW i \in 1 .. Len(s) - 1 PROVE Front(s)[i] = s[i]
  <2>1. i \in 1 .. Len(s) - 1 - 1 + 1 /\ 1 + i - 1 = i
    BY <1>1
  <2> QED BY <1>2, <1>4, <2>1
<1>6. Len(s) > 0 => Len(Front(s)) = Len(s) - 1
  <2>1. Len(Front(s)) = IF 1 <= Len(s) - 1 THEN Len(s) - 1 - 1 + 1 ELSE 0
    BY <1>2, <1>4
  <2>2. \A n \in Nat : n > 0 => (IF 1 <= n - 1 THEN n - 1 - 1 + 1 ELSE 0) = n - 1
    OBVIOUS
  <2> QED BY <1>1, <2>1, <2>2
<1> QED BY <1>2, <1>4, <1>5, <1>6

(* Taking a completion keeps the types, whoever's it is.                   *)
LEMMA ReapTypes ==
  ASSUME RingTypes, WireTypes, Reap
  PROVE  /\ Head(cq) = cq[1] /\ cq[1] \in [n : Nat, res : Int] /\ Len(cq) \in Nat /\ Len(cq) > 0
         /\ Tail(cq) \in Seq([n : Nat, res : Int]) /\ Len(Tail(cq)) = Len(cq) - 1
         /\ \A i \in 1 .. Len(cq) - 1 : Tail(cq)[i] = cq[i + 1]
         /\ RingTypes' /\ WireTypes'
         /\ torn' = (torn \/ (cq[1].res <= 0 /\ conn = "up" /\ tx.left # Size(tx.msg)))
         /\ sent' = IF cq[1].res <= 0 /\ conn = "up" /\ tx.left = Size(tx.msg)
                    THEN Front(sent) ELSE sent
<1> DEFINE c == cq[1]
           left == (tx.left - c.res) % SizeMod
           go == IF c.res > 0 THEN c.res ELSE tx.left
<1>1. cq \in Seq([n : Nat, res : Int]) /\ cq # <<>>
  BY DEF Reap, RingTypes
<1>2. /\ Head(cq) = cq[1] /\ cq[1] \in [n : Nat, res : Int] /\ Len(cq) \in Nat /\ Len(cq) > 0
      /\ Tail(cq) \in Seq([n : Nat, res : Int]) /\ Len(Tail(cq)) = Len(cq) - 1
      /\ \A i \in 1 .. Len(cq) - 1 : Tail(cq)[i] = cq[i + 1]
  <2>1. Len(cq) \in Nat /\ Len(cq) # 0
    BY <1>1, EmptySeq, LenProperties
  <2>2. 1 \in 1 .. Len(cq)
    BY <2>1
  <2>3. /\ Tail(cq) \in Seq([n : Nat, res : Int]) /\ Len(Tail(cq)) = Len(cq) - 1
        /\ \A i \in 1 .. Len(Tail(cq)) : Tail(cq)[i] = cq[i + 1]
    BY <1>1, HeadTailProperties
  <2>4. cq[1] \in [n : Nat, res : Int]
    BY <1>1, <2>2, ElementOfSeq
  <2>5. Head(cq) = cq[1]
    BY <1>1
  <2> QED BY <2>1, <2>3, <2>4, <2>5
<1>3. c.res \in Int /\ SizeMod \in Nat \ {0} /\ head \in Nat /\ tx.left \in Nat
  BY <1>2, Constants DEF RingTypes
<1>4. left \in Nat
  <2>1. tx.left - c.res \in Int
    BY <1>3
  <2>2. left \in 0 .. SizeMod - 1
    BY <1>3, <2>1, ModSplit
  <2> HIDE DEF left
  <2> QED BY <1>3, <2>2
<1>5. (head + go) % SizeMod \in Nat
  <2>1. head + go \in Int
    BY <1>3
  <2> HIDE DEF go
  <2>2. (head + go) % SizeMod \in 0 .. SizeMod - 1
    BY <1>3, <2>1, ModSplit
  <2>3. \A x \in 0 .. SizeMod - 1 : x \in Nat
    BY <1>3
  <2> QED BY <2>2, <2>3, Zenon
<1>6. /\ head' = (head + go) % SizeMod /\ stale' = (stale \/ c.n # sqes) /\ cq' = Tail(cq)
      /\ torn' = (torn \/ (c.res <= 0 /\ conn = "up" /\ tx.left # Size(tx.msg)))
      /\ sent' = IF c.res <= 0 /\ conn = "up" /\ tx.left = Size(tx.msg) THEN Front(sent) ELSE sent
  BY <1>2, Zenon DEF Reap, ReapRecords, Size
<1>7. tx' = IF c.res > 0 THEN [tx EXCEPT !.at = IF left = 0 THEN "ok" ELSE "submit", !.left = left]
            ELSE [tx EXCEPT !.at = "failed"]
  BY <1>2 DEF Reap
<1> HIDE DEF left, go, c
<1>8. tx' \in [at : {"idle", "spin", "submit", "reap", "ok", "failed"}, msg : Requests \cup {NoMsg}, left : Nat]
  BY <1>4, <1>7 DEF RingTypes
<1>9. stale' \in BOOLEAN /\ torn' \in BOOLEAN
  BY <1>6, Zenon DEF RingTypes
<1>10. UNCHANGED <<ring, tail, gapped, sqes, faults, staged, kept, exchangeVars, fillVars, mtx, toEx, toUs, conn>>
  BY DEF Reap, ReapUnchanged
<1>11. RingTypes'
  BY <1>2, <1>5, <1>6, <1>8, <1>9, <1>10 DEF RingTypes
<1>12. sent' \in Seq(Requests)
  <2>1. sent \in Seq(Requests)
    BY DEF WireTypes
  <2>2. Front(sent) \in Seq(Requests)
    BY <2>1, FrontIs
  <2> QED BY <1>6, <2>1, <2>2
<1>13. WireTypes'
  BY <1>10, <1>12 DEF WireTypes, exchangeVars, fillVars
<1> QED BY <1>2, <1>6, <1>11, <1>13 DEF c

(* The sender's steps keep the types.                                      *)
LEMMA SendTypes ==
  ASSUME RingTypes, WireTypes, SendStep
  PROVE  RingTypes' /\ WireTypes'
<1>1. ASSUME NEW t \in Calls, NEW m \in Requests, Begin(t, m) PROVE RingTypes' /\ WireTypes'
  <2>1. /\ ring' \in [0 .. Capacity - 1 -> WireBytes] /\ tail' \in Nat
        /\ tx' = [at |-> "submit", msg |-> m, left |-> Size(m)] /\ Size(m) \in Nat
        /\ mtx' = t /\ gapped' = (gapped \/ Start(Size(m)) # tail) /\ sent' = Append(sent, m)
    BY <1>1, BeginCopies
  <2>2. UNCHANGED <<head, kernelVars, exchangeVars, fillVars, toEx, toUs, conn>>
    BY <1>1 DEF Begin
  <2>3. gapped' \in BOOLEAN
    BY <2>1, Zenon DEF RingTypes
  <2>4. sent' \in Seq(Requests)
    BY <2>1, AppendProperties DEF WireTypes
  <2>5. RingTypes'
    BY <2>1, <2>2, <2>3 DEF RingTypes, kernelVars
  <2>6. WireTypes'
    BY <2>2, <2>4 DEF WireTypes, exchangeVars, fillVars
  <2> QED BY <2>5, <2>6
<1>2. CASE Finish
  BY <1>2 DEF Finish, RingTypes, WireTypes, ringVars, kernelVars, exchangeVars, fillVars, Idle
<1>3. ASSUME NEW k \in 1 .. Capacity, Submit(k) PROVE RingTypes' /\ WireTypes'
  BY <1>3, SubmitTypes
<1>4. CASE SubmitError
  BY <1>4, SubmitErrorTypes
<1>5. CASE Reap
  BY <1>5, ReapTypes
<1>6. CASE Notify
  <2>1. [n |-> 0, res |-> 0] \in [n : Nat, res : Int]
    OBVIOUS
  <2>2. cq' \in Seq([n : Nat, res : Int])
    BY <1>6, <2>1, AppendProperties DEF Notify, RingTypes
  <2>3. RingTypes'
    BY <1>6, <2>2 DEF Notify, RingTypes, ringVars
  <2> QED BY <1>6, <2>3 DEF Notify, WireTypes, exchangeVars, fillVars
<1>7. CASE LeavesBytes
  BY <1>7, LeavesTypes
<1>8. ASSUME NEW t \in Calls, NEW m \in Requests, Spin(t, m) PROVE RingTypes' /\ WireTypes'
  <2>1. Size(m) \in Nat /\ tx' = [at |-> "spin", msg |-> m, left |-> Size(m)] /\ mtx' = t
    BY <1>8, Sizes DEF Spin, Size, Messages
  <2>2. UNCHANGED <<ringVars, kernelVars, exchangeVars, fillVars, toEx, toUs, conn, sent>>
    BY <1>8 DEF Spin
  <2>3. RingTypes'
    BY <2>1, <2>2 DEF RingTypes, ringVars, kernelVars
  <2> QED BY <2>2, <2>3 DEF WireTypes, exchangeVars, fillVars
<1> QED BY <1>1, <1>2, <1>3, <1>4, <1>5, <1>6, <1>7, <1>8 DEF SendStep, SendZcAll, LeavesBytes

(* No two references of one order: there are no more than calls.           *)
LEMMA InjectiveLen ==
  ASSUME NEW s \in Seq(Calls), \A i, j \in 1 .. Len(s) : s[i] = s[j] => i = j
  PROVE  Len(s) <= MaxCalls
<1>1. Len(s) \in Nat /\ s \in [1 .. Len(s) -> Calls] /\ MaxCalls \in Nat
  BY LenProperties, ConnectionAssumption
<1>2. /\ IsFiniteSet(1 .. Len(s)) /\ Cardinality(1 .. Len(s)) = Len(s)
      /\ IsFiniteSet(Calls) /\ Cardinality(Calls) = MaxCalls
  <2>1. 1 \in Int /\ Len(s) \in Int /\ MaxCalls \in Int
    BY <1>1
  <2>2. \A b \in Int : IsFiniteSet(1 .. b) /\ Cardinality(1 .. b) = IF 1 > b THEN 0 ELSE b - 1 + 1
    BY FS_Interval
  <2>3. \A b \in Nat : (IF 1 > b THEN 0 ELSE b - 1 + 1) = b
    OBVIOUS
  <2> QED BY <1>1, <2>1, <2>2, <2>3, Zenon DEF Calls
<1>3. SUFFICES ASSUME MaxCalls < Len(s) PROVE FALSE
  BY <1>1
<1>4. \E x, y \in 1 .. Len(s) : x # y /\ s[x] = s[y]
  BY <1>1, <1>2, <1>3, FS_PigeonHole
<1> QED BY <1>4

(* ref_for finds the one reference of the order, or makes it.              *)
LEMMA RefForIs ==
  ASSUME refs \in Seq(Calls), \A i, j \in 1 .. Len(refs) : refs[i] = refs[j] => i = j,
         NEW id \in Calls
  PROVE  LET new == RefFor(id)[1]
             r == RefFor(id)[2]
         IN  /\ new \in Seq(Calls) /\ r \in Calls
             /\ Len(refs) <= Len(new) /\ \A i \in 1 .. Len(refs) : new[i] = refs[i]
             /\ r \in 1 .. Len(new) /\ new[r] = id
             /\ \A i, j \in 1 .. Len(new) : new[i] = new[j] => i = j
<1>1. Len(refs) \in Nat /\ MaxCalls \in Nat
  BY LenProperties, ConnectionAssumption
<1>2. CASE Contains(refs, id)
  <2>1. PICK i \in 1 .. Len(refs) : refs[i] = id
    BY <1>2 DEF Contains
  <2>2. {k \in 1 .. Len(refs) : refs[k] = id} = {i}
    BY <2>1
  <2>3. Min({i}) = i
    BY <1>1, <2>1 DEF Min
  <2>4. SelectInSeq(refs, LAMBDA x : x = id) = i
    BY <2>2, <2>3 DEF SelectInSeq
  <2>5. RefFor(id)[1] = refs /\ RefFor(id)[2] = i
    BY <1>2, <2>4 DEF RefFor
  <2>6. i \in Calls
    BY <1>1, <2>1, InjectiveLen DEF Calls
  <2> QED BY <1>1, <2>1, <2>5, <2>6
<1>3. CASE ~Contains(refs, id)
  <2> DEFINE new == Append(refs, id)
  <2>1. RefFor(id)[1] = new /\ RefFor(id)[2] = Len(refs) + 1
    BY <1>3 DEF RefFor
  <2>2. /\ new \in Seq(Calls) /\ Len(new) = Len(refs) + 1 /\ new[Len(refs) + 1] = id
        /\ \A i \in 1 .. Len(refs) : new[i] = refs[i]
    BY AppendProperties
  <2>3. \A i \in 1 .. Len(refs) : refs[i] # id
    BY <1>3 DEF Contains
  <2> HIDE DEF new
  <2>4. ASSUME NEW i \in 1 .. Len(new), NEW j \in 1 .. Len(new), new[i] = new[j] PROVE i = j
    <3>1. i = Len(refs) + 1 \/ (i \in 1 .. Len(refs) /\ new[i] = refs[i])
      BY <1>1, <2>2
    <3>2. j = Len(refs) + 1 \/ (j \in 1 .. Len(refs) /\ new[j] = refs[j])
      BY <1>1, <2>2
    <3> QED BY <2>2, <2>3, <2>4, <3>1, <3>2
  <2>5. Len(new) <= MaxCalls
    BY <2>2, <2>4, InjectiveLen
  <2>6. Len(refs) + 1 \in Calls /\ Len(refs) + 1 \in 1 .. Len(new) /\ Len(refs) <= Len(new)
    BY <1>1, <2>2, <2>5 DEF Calls
  <2> QED BY <2>1, <2>2, <2>4, <2>6
<1> QED BY <1>2, <1>3

(* What a first byte announces is a length, and what follows it is bytes.  *)
LEMMA FrameTypes ==
  ASSUME NEW s \in Seq(WireBytes), s # <<>>
  PROVE  /\ Len(s) \in Nat \ {0} /\ s[1] \in WireBytes /\ FrameLen(s) \in Nat
         /\ s[1].msg.type # "none" => s[1].msg \in Messages
         /\ Complete(s) => Rest(s) \in Seq(WireBytes)
<1>1. Len(s) \in Nat \ {0}
  BY EmptySeq
<1>2. 1 \in 1 .. Len(s)
  BY <1>1
<1>3. s[1] \in WireBytes
  BY <1>2, ElementOfSeq
<1>4. s[1] = NoByte \/ (s[1].msg \in Messages /\ s[1].at \in Nat)
  BY <1>3 DEF WireBytes
<1>5. FrameLen(s) \in Nat
  <2>1. CASE s[1] = NoByte
    <3>1. s[1].at = 0
      BY <2>1 DEF NoByte
    <3> QED BY <3>1 DEF FrameLen
  <2>2. CASE s[1].msg \in Messages
    <3>1. MsgLen[s[1].msg.type] \in Nat /\ BLen \in Nat
      BY <2>2, Sizes, ConnectionAssumption DEF Size
    <3>2. CASE s[1].at = 1
      BY <3>1, <3>2 DEF FrameLen
    <3>3. CASE s[1].at # 1
      <4>1. FrameLen(s) = IF s[1].at = 2 /\ s[1].msg.type \in {"A", "E"} THEN BLen ELSE 0
        BY <3>3 DEF FrameLen
      <4> QED BY <3>1, <4>1
    <3> QED BY <3>2, <3>3
  <2> QED BY <1>4, <2>1, <2>2
<1>6. s[1].msg.type # "none" => s[1].msg \in Messages
  BY <1>4 DEF NoByte, NoMsg
<1>7. Complete(s) => Rest(s) \in Seq(WireBytes)
  <2>1. \A i \in FrameLen(s) + 1 .. Len(s) : i \in 1 .. Len(s)
    BY <1>1, <1>5
  <2>2. \A i \in FrameLen(s) + 1 .. Len(s) : s[i] \in WireBytes
    BY <2>1, ElementOfSeq
  <2>3. FrameLen(s) + 1 \in Int /\ Len(s) \in Int
    BY <1>1, <1>5
  <2> QED BY <2>2, <2>3, SubSeqProperties DEF Rest
<1> QED BY <1>1, <1>3, <1>5, <1>6, <1>7

(* Byte sequences are joined in any grouping.                              *)
LEMMA ConcatBytes ==
  \A s, t, u \in Seq(WireBytes) : (s \o t) \o u = s \o (t \o u)
BY ConcatAssociative

(* More bytes behind a frame change nothing about it.                      *)
LEMMA FrameOfConcat ==
  ASSUME NEW s \in Seq(WireBytes), NEW t \in Seq(WireBytes), s # <<>>
  PROVE  /\ s \o t \in Seq(WireBytes) /\ s \o t # <<>> /\ (s \o t)[1] = s[1]
         /\ FrameLen(s \o t) = FrameLen(s)
         /\ Complete(s) => /\ FrameLen(s \o t) <= Len(s \o t)
                           /\ Frame(s \o t) = Frame(s)
                           /\ Rest(s \o t) = Rest(s) \o t
<1> DEFINE f == FrameLen(s)
           u == s \o t
<1>1. Len(s) \in Nat \ {0} /\ Len(t) \in Nat /\ f \in Nat
  BY FrameTypes, LenProperties
<1>2. /\ u \in Seq(WireBytes) /\ Len(u) = Len(s) + Len(t)
      /\ \A i \in 1 .. Len(s) + Len(t) : u[i] = IF i <= Len(s) THEN s[i] ELSE t[i - Len(s)]
  BY ConcatProperties
<1>3. u # <<>> /\ u[1] = s[1]
  <2>1. u # <<>>
    BY <1>1, <1>2, EmptySeq
  <2>2. 1 \in 1 .. Len(s) + Len(t) /\ 1 <= Len(s)
    BY <1>1
  <2> QED BY <1>2, <2>1, <2>2
<1>4. FrameLen(u) = f
  BY <1>3, Zenon DEF FrameLen
<1>5. ASSUME Complete(s)
      PROVE  f <= Len(u) /\ Frame(u) = Frame(s) /\ Rest(u) = Rest(s) \o t
  <2> HIDE DEF f, u
  <2>1. f > 0 /\ f <= Len(s)
    BY <1>5 DEF Complete, f
  <2>2. f <= Len(u)
    BY <1>1, <1>2, <2>1
  <2>3. 1 \in 1 .. Len(s) /\ f \in 1 .. Len(s)
    BY <1>1, <2>1
  <2>4. SubSeq(u, 1, f) = SubSeq(s, 1, f)
    BY <2>3, SubSeqOfConcat1 DEF u
  <2>5. SubSeq(u, f + 1, Len(u)) = SubSeq(s, f + 1, Len(s)) \o t
    <3> DEFINE a == SubSeq(u, f + 1, Len(u))
               b == SubSeq(s, f + 1, Len(s))
    <3>1. f + 1 \in Int /\ Len(u) \in Int /\ Len(s) \in Int
      BY <1>1, <1>2
    <3>2. \A i \in f + 1 .. Len(u) : u[i] \in WireBytes
      <4>1. \A i \in f + 1 .. Len(u) : i \in 1 .. Len(u)
        BY <1>1, <1>2
      <4> QED BY <1>2, <4>1, ElementOfSeq
    <3>3. \A i \in f + 1 .. Len(s) : s[i] \in WireBytes
      <4>1. \A i \in f + 1 .. Len(s) : i \in 1 .. Len(s)
        BY <1>1
      <4> QED BY <4>1, ElementOfSeq
    <3>4. /\ a \in Seq(WireBytes) /\ Len(a) = IF f + 1 <= Len(u) THEN Len(u) - (f + 1) + 1 ELSE 0
          /\ \A i \in 1 .. Len(u) - (f + 1) + 1 : a[i] = u[f + 1 + i - 1]
      BY <3>1, <3>2, SubSeqProperties
    <3>5. /\ b \in Seq(WireBytes) /\ Len(b) = IF f + 1 <= Len(s) THEN Len(s) - (f + 1) + 1 ELSE 0
          /\ \A i \in 1 .. Len(s) - (f + 1) + 1 : b[i] = s[f + 1 + i - 1]
      BY <3>1, <3>3, SubSeqProperties
    <3> HIDE DEF a, b
    <3>6. Len(a) = Len(u) - f /\ Len(b) = Len(s) - f
      BY <1>1, <1>2, <2>1, <3>4, <3>5
    <3>7. /\ b \o t \in Seq(WireBytes) /\ Len(b \o t) = Len(b) + Len(t)
          /\ \A i \in 1 .. Len(b) + Len(t) : (b \o t)[i] = IF i <= Len(b) THEN b[i] ELSE t[i - Len(b)]
      BY <3>5, ConcatProperties
    <3>8. Len(a) = Len(b \o t)
      BY <1>1, <1>2, <3>6, <3>7
    <3>9. ASSUME NEW i \in 1 .. Len(a) PROVE a[i] = (b \o t)[i]
      <4>1. /\ i \in 1 .. Len(u) - (f + 1) + 1 /\ f + 1 + i - 1 = f + i /\ f + i \in 1 .. Len(s) + Len(t)
            /\ i \in 1 .. Len(b) + Len(t) /\ (f + i <= Len(s) <=> i <= Len(b))
            /\ f + i - Len(s) = i - Len(b)
            /\ i <= Len(b) => i \in 1 .. Len(s) - (f + 1) + 1
        BY <1>1, <1>2, <2>1, <3>6
      <4>2. a[i] = u[f + i]
        BY <3>4, <4>1, Zenon
      <4>3. u[f + i] = IF f + i <= Len(s) THEN s[f + i] ELSE t[i - Len(b)]
        <5>1. PICK j \in 1 .. Len(s) + Len(t) : j = f + i
          BY <4>1
        <5>2. u[j] = IF j <= Len(s) THEN s[j] ELSE t[j - Len(s)]
          BY <1>2
        <5>3. j - Len(s) = i - Len(b)
          BY <1>1, <3>6, <5>1
        <5> QED BY <5>1, <5>2, <5>3
      <4>4. (b \o t)[i] = IF i <= Len(b) THEN b[i] ELSE t[i - Len(b)]
        BY <3>7, <4>1, Zenon
      <4>5. i <= Len(b) => b[i] = s[f + i]
        BY <3>5, <4>1, Zenon
      <4> QED BY <4>1, <4>2, <4>3, <4>4, <4>5
    <3>10. a = b \o t
      BY <3>4, <3>7, <3>8, <3>9, SeqEqual
    <3> QED BY <3>10 DEF a, b
  <2> QED BY <1>4, <2>2, <2>4, <2>5 DEF Frame, Rest, f, u
<1> QED BY <1>2, <1>3, <1>4, <1>5

-----------------------------------------------------------------------------
(* The steps of the exchange and of fill_th.                               *)
Tells(ms, t) == told' = ms /\ toUs' = t
Silent == Tells(told, toUs) /\ refs' = refs
Answer(m) == [m EXCEPT !.type = "B"]
Fill(type, id) == [type |-> type, n |-> id, ref |-> RefFor(id)[2]]
Replies(m) ==
  \/ Silent
  \/ m.type = "Q" /\ refs' = refs /\ Tells(Append(told, Answer(m)), toUs \o Bytes(Answer(m)))
  \/ /\ m.type = "O" /\ refs' = RefFor(m.n)[1]
     /\ Tells(Append(Append(told, Fill("A", m.n)), Fill("E", m.n)),
              (toUs \o Bytes(Fill("A", m.n))) \o Bytes(Fill("E", m.n)))
Reads(m) ==
  /\ m = toEx[1].msg /\ Complete(toEx) /\ Decodes(Frame(toEx))
  /\ taken' = Append(taken, m) /\ toEx' = Rest(toEx) /\ conn' = conn

(* The exchange reads a whole message and replies, or closes, or skips.    *)
LEMMA ExchangeDoes ==
  ASSUME WireTypes, RefsOK, Exchange
  PROVE  /\ ExchangeUnchanged /\ conn = "up" /\ toEx # <<>>
         /\ \/ \E m \in Requests : /\ Reads(m) /\ Replies(m)
                                   /\ m.type = "Q" => Answer(m) \in Quotes
                                   /\ m.type = "O" => Fill("A", m.n) \in Fills /\ Fill("E", m.n) \in Fills
            \/ /\ taken' = taken /\ Silent
               /\ \/ toEx' = <<>> /\ conn' = "refused"
                  \/ toEx' = <<>> /\ conn' = "garbled" /\ FrameLen(toEx) = 0
                  \/ Complete(toEx) /\ ~Decodes(Frame(toEx)) /\ toEx' = Rest(toEx) /\ conn' = conn
<1> DEFINE m == toEx[1].msg
<1>1. /\ toEx \in Seq(WireBytes) /\ toUs \in Seq(WireBytes) /\ told \in Seq(Messages)
      /\ refs \in Seq(Calls) /\ \A i, j \in 1 .. Len(refs) : refs[i] = refs[j] => i = j
  BY DEF WireTypes, RefsOK
<1>2. ASSUME NEW type \in {"Q", "O"}, Reading(type)
      PROVE  /\ conn = "up" /\ toEx # <<>> /\ Complete(toEx) /\ Decodes(Frame(toEx))
             /\ m \in Requests /\ m.type = type /\ m.n \in Calls
  <2>1. conn = "up" /\ toEx # <<>> /\ Complete(toEx) /\ Decodes(Frame(toEx)) /\ m.type = type
    BY <1>2 DEF Reading, Complete
  <2>2. m \in Messages
    BY <1>1, <2>1, FrameTypes
  <2>3. m \in Requests
    BY <2>1, <2>2 DEF Messages, Quotes, Fills
  <2>4. m.n \in Calls
    BY <2>3 DEF Requests
  <2> QED BY <2>1, <2>3, <2>4
<1> HIDE DEF m
<1>3. CASE ExchangeOrder
  <2>1. Reading("O")
    BY <1>3 DEF ExchangeOrder
  <2>2. /\ conn = "up" /\ toEx # <<>> /\ Complete(toEx) /\ Decodes(Frame(toEx))
        /\ m \in Requests /\ m.type = "O" /\ m.n \in Calls
    BY <1>2, <2>1
  <2> DEFINE ack == Fill("A", m.n)
             exec == Fill("E", m.n)
  <2>3. RefFor(m.n)[2] \in Calls
    BY <1>1, <2>2, RefForIs
  <2>4. ack \in Fills /\ exec \in Fills
    BY <2>2, <2>3 DEF Fills, Fill
  <2>5. ack \in Messages /\ exec \in Messages
    BY <2>4 DEF Messages
  <2>6. /\ refs' = RefFor(m.n)[1] /\ taken' = Append(taken, m) /\ toEx' = Rest(toEx)
        /\ told' = told \o <<ack, exec>> /\ toUs' = toUs \o (Bytes(ack) \o Bytes(exec))
        /\ conn' = conn /\ ExchangeUnchanged
    BY <1>3, Zenon DEF ExchangeOrder, Report, Fill, m
  <2> HIDE DEF ack, exec
  <2>7. told \o <<ack, exec>> = Append(Append(told, ack), exec)
    <3>1. Append(told, ack) \in Seq(Messages)
      BY <1>1, <2>5, AppendProperties
    <3>2. Append(Append(told, ack), exec) = (told \o <<ack>>) \o <<exec>>
      BY <1>1, <2>5, <3>1, AppendIsConcat
    <3>3. <<ack>> \in Seq(Messages) /\ <<exec>> \in Seq(Messages)
      BY <2>5
    <3>4. (told \o <<ack>>) \o <<exec>> = told \o (<<ack>> \o <<exec>>)
      BY <1>1, <3>3, ConcatAssociative
    <3>5. <<ack>> \o <<exec>> = <<ack, exec>>
      <4>1. Len(<<ack>>) = 1 /\ Len(<<exec>>) = 1 /\ <<ack>>[1] = ack /\ <<exec>>[1] = exec
        OBVIOUS
      <4>2. <<ack, exec>> \in Seq(Messages) /\ Len(<<ack, exec>>) = 2
        BY <2>5
      <4>3. /\ <<ack>> \o <<exec>> \in Seq(Messages) /\ Len(<<ack>> \o <<exec>>) = 2
            /\ (<<ack>> \o <<exec>>)[1] = ack /\ (<<ack>> \o <<exec>>)[2] = exec
        BY <3>3, <4>1, ConcatProperties
      <4>4. \A i \in 1 .. 2 : i = 1 \/ i = 2
        OBVIOUS
      <4>5. \A i \in 1 .. 2 : (<<ack>> \o <<exec>>)[i] = <<ack, exec>>[i]
        BY <4>3, <4>4
      <4> QED BY <4>2, <4>3, <4>5, SeqEqual
    <3> QED BY <3>2, <3>4, <3>5
  <2>8. toUs \o (Bytes(ack) \o Bytes(exec)) = (toUs \o Bytes(ack)) \o Bytes(exec)
    <3>1. PICK a \in Seq(WireBytes), e \in Seq(WireBytes) : a = Bytes(ack) /\ e = Bytes(exec)
      BY <2>5, BytesOf
    <3>2. toUs \in Seq(WireBytes)
      BY <1>1
    <3>3. (toUs \o a) \o e = toUs \o (a \o e)
      BY <3>2, ConcatBytes
    <3> QED BY <3>1, <3>3, Zenon
  <2>9. Reads(m)
    BY <2>2, <2>6 DEF Reads, m
  <2>10. Replies(m)
    BY <2>2, <2>6, <2>7, <2>8 DEF Replies, Tells, ack, exec
  <2>11. m.type # "Q"
    BY <2>2
  <2> QED BY <2>2, <2>4, <2>6, <2>9, <2>10, <2>11 DEF ack, exec
<1>4. ASSUME NEW reply, NEW bytes, ExchangeQuery(reply, bytes),
             \/ reply = <<>> /\ bytes = <<>>
             \/ reply = <<Answer(m)>> /\ bytes = Bytes(Answer(m))
      PROVE  /\ ExchangeUnchanged /\ conn = "up" /\ toEx # <<>>
             /\ m \in Requests /\ Reads(m) /\ Replies(m)
             /\ m.type = "Q" /\ Answer(m) \in Quotes
  <2>1. Reading("Q")
    BY <1>4 DEF ExchangeQuery
  <2>2. /\ conn = "up" /\ toEx # <<>> /\ Complete(toEx) /\ Decodes(Frame(toEx))
        /\ m \in Requests /\ m.type = "Q" /\ m.n \in Calls
    BY <1>2, <2>1
  <2>3. Answer(m) \in Quotes
    BY <2>2 DEF Answer, Requests, Quotes
  <2>4. Answer(m) \in Messages
    BY <2>3 DEF Messages
  <2>5. /\ taken' = Append(taken, m) /\ toEx' = Rest(toEx) /\ refs' = refs /\ conn' = conn
        /\ told' = told \o reply /\ toUs' = toUs \o bytes /\ ExchangeUnchanged
    BY <1>4, Zenon DEF ExchangeQuery, Report, m
  <2>6. Reads(m)
    BY <2>2, <2>5 DEF Reads, m
  <2>7. Replies(m)
    <3>1. CASE reply = <<>> /\ bytes = <<>>
      <4>1. told \o <<>> = told /\ toUs \o <<>> = toUs
        BY <1>1, ConcatEmptySeq
      <4> QED BY <2>5, <3>1, <4>1 DEF Replies, Silent, Tells
    <3>2. CASE reply = <<Answer(m)>> /\ bytes = Bytes(Answer(m))
      <4>1. told \o <<Answer(m)>> = Append(told, Answer(m))
        BY <1>1, <2>4, AppendIsConcat
      <4> QED BY <2>2, <2>5, <3>2, <4>1 DEF Replies, Tells
    <3> QED BY <1>4, <3>1, <3>2
  <2> QED BY <2>2, <2>3, <2>5, <2>6, <2>7
<1>5. CASE \/ ExchangeQuery(<<Answer(m)>>, Bytes(Answer(m)))
           \/ ExchangeQuery(<<>>, <<>>)
  <2>1. /\ ExchangeUnchanged /\ conn = "up" /\ toEx # <<>>
        /\ m \in Requests /\ Reads(m) /\ Replies(m)
        /\ m.type = "Q" /\ Answer(m) \in Quotes
    BY <1>4, <1>5, Zenon
  <2>2. m.type # "O"
    BY <2>1
  <2> QED BY <2>1, <2>2
<1>6. ASSUME NEW why, ExchangeClose(why)
      PROVE  /\ ExchangeUnchanged /\ conn = "up" /\ toEx # <<>> /\ toEx' = <<>> /\ conn' = why
             /\ taken' = taken /\ Silent
  BY <1>6, Zenon DEF ExchangeClose, exchangeVars, Silent, Tells
<1>7. CASE Reading("Q") /\ ExchangeClose("refused")
  BY <1>6, <1>7
<1>8. CASE toEx # <<>> /\ FrameLen(toEx) = 0 /\ ExchangeClose("garbled")
  BY <1>6, <1>8
<1>9. CASE ExchangeSkip
  BY <1>9, Zenon DEF ExchangeSkip, Complete, exchangeVars, Silent, Tells
<1> QED BY <1>3, <1>5, <1>7, <1>8, <1>9, Zenon DEF Exchange, Answer, m

Known(m) == IF refToId[m.ref] # 0 THEN refToId[m.ref] ELSE m.n
Hears(m) ==
  \/ m \in Quotes /\ heard' = Append(heard, m) /\ refToId' = refToId
  \/ /\ m \in Fills /\ heard' = Append(heard, [m EXCEPT !.n = Known(m)])
     /\ refToId' = IF m.type = "A" THEN [refToId EXCEPT ![m.ref] = Known(m)] ELSE refToId
Garbage(s) == s # <<>> /\ (FrameLen(s) = 0 \/ (Complete(s) /\ ~Decodes(Frame(s))))

(* fill_th throws bytes away, reads on, drops garbage or hears a message.  *)
LEMMA FillDoes ==
  ASSUME WireTypes, FillStep
  PROVE  /\ FillUnchanged /\ mtx' = mtx /\ WireTypes'
         /\ \/ fill = "drain" /\ drained' /\ stream' = stream /\ heard' = heard
               /\ \E n \in 1 .. Len(toUs) : toUs' = SubSeq(toUs, n + 1, Len(toUs))
            \/ UNCHANGED <<drained, Incoming, heard, refToId>>
            \/ /\ Garbage(stream) /\ UNCHANGED <<drained, toUs, heard, refToId>>
               /\ stream' = Tail(stream) \/ (Complete(stream) /\ stream' = Rest(stream))
            \/ \E m \in Messages :
                 /\ m = stream[1].msg /\ Complete(stream) /\ Decodes(Frame(stream))
                 /\ stream' = Rest(stream) /\ UNCHANGED <<drained, toUs>> /\ Hears(m)
<1>1. /\ toUs \in Seq(WireBytes) /\ stream \in Seq(WireBytes) /\ heard \in Seq(Messages)
      /\ refToId \in [Calls -> Calls \cup {0}] /\ Len(toUs) \in Nat
  BY LenProperties DEF WireTypes
<1>2. ASSUME NEW n \in 0 .. Len(toUs)
      PROVE  /\ SubSeq(toUs, n + 1, Len(toUs)) \in Seq(WireBytes)
             /\ SubSeq(toUs, 1, n) \in Seq(WireBytes)
             /\ SubSeq(toUs, 1, n) \o SubSeq(toUs, n + 1, Len(toUs)) = toUs
  <2>1. /\ n + 1 \in Int /\ 1 \in Int /\ n \in Int /\ Len(toUs) \in Int
        /\ \A i \in n + 1 .. Len(toUs) : i \in 1 .. Len(toUs)
        /\ \A i \in 1 .. n : i \in 1 .. Len(toUs)
    BY <1>1
  <2>2. /\ \A i \in n + 1 .. Len(toUs) : toUs[i] \in WireBytes
        /\ \A i \in 1 .. n : toUs[i] \in WireBytes
    BY <1>1, <2>1, ElementOfSeq
  <2>3. /\ SubSeq(toUs, n + 1, Len(toUs)) \in Seq(WireBytes)
        /\ SubSeq(toUs, 1, n) \in Seq(WireBytes)
    BY <2>1, <2>2, SubSeqProperties
  <2>4. 1 \in 1 .. Len(toUs) + 1 /\ n \in 1 - 1 .. Len(toUs) /\ Len(toUs) \in n .. Len(toUs)
    BY <1>1
  <2>5. SubSeq(toUs, 1, n) \o SubSeq(toUs, n + 1, Len(toUs)) = SubSeq(toUs, 1, Len(toUs))
    BY <1>1, <2>4, ConcatAdjacentSubSeq
  <2> QED BY <1>1, <2>3, <2>5, SubSeqFull
<1>3. ASSUME NEW n \in 0 .. Len(toUs), FillDrain(n)
      PROVE  /\ FillUnchanged /\ mtx' = mtx /\ WireTypes'
             /\ \/ fill = "drain" /\ drained' /\ stream' = stream /\ heard' = heard
                   /\ \E k \in 1 .. Len(toUs) : toUs' = SubSeq(toUs, k + 1, Len(toUs))
                \/ UNCHANGED <<drained, Incoming, heard, refToId>>
  <2>1. /\ fill = "drain" /\ ((n = 0) <=> (toUs = <<>>)) /\ fill' = "recv"
        /\ toUs' = SubSeq(toUs, n + 1, Len(toUs)) /\ drained' = (n > 0)
        /\ UNCHANGED <<refToId, stream, heard, mtx>> /\ FillUnchanged
    BY <1>3, Zenon DEF FillDrain
  <2>2. toUs' \in Seq(WireBytes)
    BY <1>2, <2>1
  <2>3. drained' \in BOOLEAN
    <3>1. (n > 0) \in BOOLEAN
      OBVIOUS
    <3> QED BY <2>1, <3>1, Zenon
  <2>4. WireTypes'
    BY <2>1, <2>2, <2>3 DEF WireTypes, FillUnchanged, exchangeVars
  <2>5. CASE n = 0
    <3>1. toUs = <<>> /\ Len(toUs) = 0
      BY <2>1, <2>5, EmptySeq
    <3>2. SubSeq(toUs, n + 1, Len(toUs)) = <<>>
      BY <2>5, <3>1, SubSeqEmpty
    <3>3. ~drained /\ ~drained'
      <4>1. ~(n > 0)
        BY <2>5
      <4> QED BY <2>1, <4>1, Zenon DEF WireTypes
    <3>4. drained \in BOOLEAN
      BY DEF WireTypes
    <3>5. drained' = drained
      BY <2>3, <3>3, <3>4, Zenon
    <3> QED BY <2>1, <2>4, <3>1, <3>2, <3>5 DEF Incoming
  <2>6. CASE n # 0
    <3>1. n > 0 /\ n \in 1 .. Len(toUs)
      BY <1>1, <2>6
    <3>2. drained'
      BY <2>1, <3>1, Zenon
    <3> QED BY <2>1, <2>4, <3>1, <3>2
  <2> QED BY <2>5, <2>6
<1>4. ASSUME NEW n \in 0 .. Len(toUs), FillRecv(n)
      PROVE  FillUnchanged /\ mtx' = mtx /\ WireTypes' /\ UNCHANGED <<drained, Incoming, heard, refToId>>
  <2>1. /\ fill = "recv" /\ stream' = stream \o SubSeq(toUs, 1, n)
        /\ toUs' = SubSeq(toUs, n + 1, Len(toUs))
        /\ UNCHANGED <<refToId, fill, heard, drained, mtx>> /\ FillUnchanged
    BY <1>4 DEF FillRecv
  <2>2. PICK a \in Seq(WireBytes), b \in Seq(WireBytes) :
          a = SubSeq(toUs, 1, n) /\ b = SubSeq(toUs, n + 1, Len(toUs)) /\ a \o b = toUs
    BY <1>2, Zenon
  <2>3. stream' = stream \o a /\ toUs' = b
    BY <2>1, <2>2
  <2>4. (stream \o a) \o b = stream \o (a \o b)
    BY <1>1, ConcatBytes
  <2>5. Incoming' = Incoming
    BY <2>2, <2>3, <2>4, Zenon DEF Incoming
  <2>6. stream' \in Seq(WireBytes)
    BY <1>1, <2>3, ConcatProperties
  <2>7. WireTypes'
    BY <2>1, <2>3, <2>6 DEF WireTypes, FillUnchanged, exchangeVars
  <2> QED BY <2>1, <2>5, <2>7
<1>5. CASE FillEnd
  <2>1. /\ fill' = "ended" /\ UNCHANGED <<refToId, stream, heard, drained, toUs, mtx>> /\ FillUnchanged
    BY <1>5 DEF FillEnd
  <2>2. WireTypes'
    BY <2>1 DEF WireTypes, FillUnchanged, exchangeVars
  <2> QED BY <2>1, <2>2 DEF Incoming
<1>6. CASE FillDrop
  <2>1. /\ Garbage(stream)
        /\ stream' = Tail(stream) \/ (Complete(stream) /\ stream' = Rest(stream))
        /\ UNCHANGED <<refToId, fill, heard, drained, toUs, mtx>> /\ FillUnchanged
    BY <1>6, Zenon DEF FillDrop, Garbage
  <2>2. stream # <<>>
    BY <2>1 DEF Garbage
  <2>3. stream' \in Seq(WireBytes)
    BY <1>1, <2>1, <2>2, FrameTypes, HeadTailProperties
  <2>4. WireTypes'
    BY <2>1, <2>2, <2>3 DEF WireTypes, FillUnchanged, exchangeVars
  <2> QED BY <2>1, <2>4
<1>7. ASSUME NEW types, Framed(types), types = {"B"} \/ types = {"A", "E"}
      PROVE  /\ stream # <<>> /\ Complete(stream) /\ Decodes(Frame(stream)) /\ Rest(stream) \in Seq(WireBytes)
             /\ stream[1].msg \in Messages /\ stream[1].msg.type \in types
  <2>1. stream # <<>> /\ Complete(stream) /\ Decodes(Frame(stream)) /\ stream[1].msg.type \in types
    BY <1>7 DEF Framed, Complete
  <2>2. stream[1].msg.type # "none"
    BY <1>7, <2>1
  <2> QED BY <1>1, <2>1, <2>2, FrameTypes
<1>8. CASE FillReport
  <2> DEFINE m == stream[1].msg
  <2>1. /\ Framed({"A", "E"}) /\ heard' = Append(heard, [m EXCEPT !.n = Known(m)])
        /\ refToId' = (IF m.type = "A" THEN [refToId EXCEPT ![m.ref] = Known(m)] ELSE refToId)
        /\ stream' = Rest(stream) /\ UNCHANGED <<fill, drained, toUs, mtx>> /\ FillUnchanged
    BY <1>8, Zenon DEF FillReport, Known
  <2>2. /\ stream # <<>> /\ Complete(stream) /\ Decodes(Frame(stream)) /\ Rest(stream) \in Seq(WireBytes)
        /\ m \in Messages /\ m.type \in {"A", "E"}
    BY <1>7, <2>1
  <2> HIDE DEF m
  <2>3. m \in Fills
    BY <2>2 DEF Messages, Requests, Quotes
  <2>4. m.ref \in Calls /\ m.n \in Calls
    BY <2>3 DEF Fills
  <2>5. Known(m) \in Calls
    BY <1>1, <2>4 DEF Known
  <2>6. [m EXCEPT !.n = Known(m)] \in Messages
    BY <2>3, <2>5 DEF Messages, Fills
  <2>7. heard' \in Seq(Messages)
    BY <1>1, <2>1, <2>6, AppendProperties
  <2>8. refToId' \in [Calls -> Calls \cup {0}]
    BY <1>1, <2>1, <2>4, <2>5
  <2>9. WireTypes'
    BY <2>1, <2>2, <2>7, <2>8 DEF WireTypes, FillUnchanged, exchangeVars
  <2>10. Hears(m)
    BY <2>1, <2>3 DEF Hears
  <2> QED BY <2>1, <2>2, <2>9, <2>10 DEF m
<1>9. CASE FillQuote
  <2> DEFINE m == stream[1].msg
  <2>1. /\ Framed({"B"}) /\ heard' = Append(heard, m) /\ refToId' = refToId
        /\ stream' = Rest(stream) /\ UNCHANGED <<fill, drained, toUs, mtx>> /\ FillUnchanged
    BY <1>9 DEF FillQuote
  <2>2. /\ stream # <<>> /\ Complete(stream) /\ Decodes(Frame(stream)) /\ Rest(stream) \in Seq(WireBytes)
        /\ m \in Messages /\ m.type = "B"
    BY <1>7, <2>1
  <2> HIDE DEF m
  <2>3. m \in Quotes
    BY <2>2 DEF Messages, Requests, Fills
  <2>4. heard' \in Seq(Messages)
    BY <1>1, <2>1, <2>2, AppendProperties
  <2>5. WireTypes'
    BY <2>1, <2>2, <2>4 DEF WireTypes, FillUnchanged, exchangeVars
  <2>6. Hears(m)
    BY <2>1, <2>3 DEF Hears
  <2> QED BY <2>1, <2>2, <2>5, <2>6 DEF m
<1> QED BY <1>3, <1>4, <1>5, <1>6, <1>8, <1>9, Zenon DEF FillStep, FillThread

(* The exchange's steps keep the types.                                    *)
LEMMA ExchangeTypes ==
  ASSUME RingTypes, WireTypes, RefsOK, Exchange
  PROVE  RingTypes' /\ WireTypes'
<1>1. ExchangeUnchanged /\ toEx # <<>> /\ conn = "up"
  BY ExchangeDoes
<1>2. UNCHANGED <<ring, head, tail, gapped, cq, staged, sqes, faults, stale, kept, torn, refToId, fill, stream,
                  heard, drained, mtx, tx, sent>>
  BY <1>1 DEF ExchangeUnchanged, ringVars, kernelVars, fillVars
<1>3. RingTypes'
  BY <1>2 DEF RingTypes
<1>4. /\ toEx \in Seq(WireBytes) /\ toUs \in Seq(WireBytes) /\ told \in Seq(Messages)
      /\ refs \in Seq(Calls) /\ \A i, j \in 1 .. Len(refs) : refs[i] = refs[j] => i = j
      /\ taken \in Seq(Requests)
  BY DEF WireTypes, RefsOK
<1>5. SUFFICES /\ toEx' \in Seq(WireBytes) /\ toUs' \in Seq(WireBytes) /\ told' \in Seq(Messages)
               /\ refs' \in Seq(Calls) /\ taken' \in Seq(Requests) /\ conn' \in {"up", "refused", "garbled"}
  BY <1>2, <1>3 DEF WireTypes
<1>6. Complete(toEx) => Rest(toEx) \in Seq(WireBytes)
  BY <1>1, <1>4, FrameTypes
<1>7. ASSUME NEW m \in Messages, NEW s \in Seq(WireBytes), NEW ms \in Seq(Messages)
      PROVE  s \o Bytes(m) \in Seq(WireBytes) /\ Append(ms, m) \in Seq(Messages)
  <2>1. PICK b \in Seq(WireBytes) : b = Bytes(m)
    BY BytesOf
  <2>2. s \o b \in Seq(WireBytes)
    BY ConcatProperties
  <2> QED BY <2>1, <2>2, AppendProperties
<1>8. ASSUME NEW m \in Requests, Reads(m), Replies(m), m.type = "Q" => Answer(m) \in Quotes,
             m.type = "O" => Fill("A", m.n) \in Fills /\ Fill("E", m.n) \in Fills
      PROVE  /\ toEx' \in Seq(WireBytes) /\ toUs' \in Seq(WireBytes) /\ told' \in Seq(Messages)
             /\ refs' \in Seq(Calls) /\ taken' \in Seq(Requests) /\ conn' \in {"up", "refused", "garbled"}
  <2>1. toEx' \in Seq(WireBytes) /\ conn' \in {"up", "refused", "garbled"} /\ taken' \in Seq(Requests)
    BY <1>1, <1>4, <1>6, <1>8, AppendProperties DEF Reads
  <2>2. CASE Silent
    BY <1>4, <2>1, <2>2 DEF Silent, Tells
  <2>3. CASE m.type = "Q" /\ refs' = refs /\ Tells(Append(told, Answer(m)), toUs \o Bytes(Answer(m)))
    <3>1. Answer(m) \in Messages
      BY <1>8, <2>3 DEF Messages
    <3> QED BY <1>4, <1>7, <2>1, <2>3, <3>1 DEF Tells
  <2>4. CASE /\ m.type = "O" /\ refs' = RefFor(m.n)[1]
             /\ Tells(Append(Append(told, Fill("A", m.n)), Fill("E", m.n)),
                      (toUs \o Bytes(Fill("A", m.n))) \o Bytes(Fill("E", m.n)))
    <3>1. Fill("A", m.n) \in Messages /\ Fill("E", m.n) \in Messages
      BY <1>8, <2>4 DEF Messages
    <3>2. m.n \in Calls
      BY DEF Requests
    <3>3. refs' \in Seq(Calls)
      BY <1>4, <2>4, <3>2, RefForIs
    <3>4. toUs \o Bytes(Fill("A", m.n)) \in Seq(WireBytes) /\ Append(told, Fill("A", m.n)) \in Seq(Messages)
      BY <1>4, <1>7, <3>1
    <3>5. toUs' \in Seq(WireBytes) /\ told' \in Seq(Messages)
      BY <1>7, <2>4, <3>1, <3>4, Zenon DEF Tells
    <3> QED BY <2>1, <3>3, <3>5
  <2> QED BY <1>8, <2>2, <2>3, <2>4 DEF Replies
<1>9. CASE /\ taken' = taken /\ Silent
           /\ \/ toEx' = <<>> /\ conn' = "refused"
              \/ toEx' = <<>> /\ conn' = "garbled" /\ FrameLen(toEx) = 0
              \/ Complete(toEx) /\ ~Decodes(Frame(toEx)) /\ toEx' = Rest(toEx) /\ conn' = conn
  <2>1. toEx' \in Seq(WireBytes)
    BY <1>6, <1>9, EmptySeq
  <2> QED BY <1>1, <1>4, <1>9, <2>1 DEF Silent, Tells
<1> QED BY <1>8, <1>9, ExchangeDoes, Zenon

(* The exchange makes no second reference for an order, and tells of an    *)
(* order with its own.                                                     *)
LEMMA ExchangeReports ==
  ASSUME RingTypes, WireTypes, RefsOK, ReportsOK, Exchange
  PROVE  RefsOK' /\ ReportsOK'
<1>1. ExchangeUnchanged
  BY ExchangeDoes
<1>2. UNCHANGED <<refToId, stream, heard, drained>>
  BY <1>1 DEF ExchangeUnchanged, fillVars
<1>3. /\ toUs \in Seq(WireBytes) /\ stream \in Seq(WireBytes) /\ told \in Seq(Messages)
      /\ heard \in Seq(Messages) /\ Len(heard) \in Nat /\ Len(told) \in Nat
      /\ refs \in Seq(Calls) /\ \A i, j \in 1 .. Len(refs) : refs[i] = refs[j] => i = j
      /\ Len(refs) \in Nat
  BY LenProperties DEF WireTypes, RefsOK
<1>4. Incoming \in Seq(WireBytes)
  BY <1>3, ConcatProperties DEF Incoming
<1> DEFINE Hold(ms, s) == /\ Len(heard) <= Len(ms)
                          /\ \A k \in 1 .. Len(heard) : heard[k] = ms[k]
                          /\ Encodes(s, ms, Len(heard), 0)
<1>5. ASSUME NEW m \in Messages, NEW ms \in Seq(Messages), NEW s \in Seq(WireBytes), Hold(ms, stream \o s)
      PROVE  Append(ms, m) \in Seq(Messages) /\ s \o Bytes(m) \in Seq(WireBytes)
             /\ Hold(Append(ms, m), stream \o (s \o Bytes(m)))
  <2>1. PICK b \in Seq(WireBytes) : b = Bytes(m)
    BY BytesOf
  <2>2. /\ s \o b \in Seq(WireBytes) /\ stream \o s \in Seq(WireBytes)
    BY <1>3, ConcatProperties
  <2>3. (stream \o s) \o b = stream \o (s \o b)
    BY <1>3, ConcatBytes
  <2>4. /\ Append(ms, m) \in Seq(Messages) /\ Len(Append(ms, m)) = Len(ms) + 1 /\ Len(ms) \in Nat
        /\ \A k \in 1 .. Len(ms) : Append(ms, m)[k] = ms[k]
    BY AppendProperties, LenProperties
  <2>5. Len(heard) \in 0 .. Len(ms) /\ Encodes(stream \o s, ms, Len(heard), 0)
    BY <1>3, <1>5, <2>4
  <2>6. Encodes((stream \o s) \o Bytes(m), Append(ms, m), Len(heard), 0)
    BY <2>2, <2>5, EncodesWhole
  <2>7. Encodes(stream \o (s \o Bytes(m)), Append(ms, m), Len(heard), 0)
    BY <2>1, <2>3, <2>6, Zenon
  <2>8. Len(heard) <= Len(Append(ms, m)) /\ \A k \in 1 .. Len(heard) : heard[k] = Append(ms, m)[k]
    BY <1>3, <1>5, <2>4
  <2> QED BY <2>1, <2>2, <2>4, <2>7, <2>8, Zenon
<1>6. ~drained => Hold(told, stream \o toUs)
  BY DEF ReportsOK, Incoming
<1> DEFINE Truthful(ms, rs) == \A k \in 1 .. Len(ms) : ms[k].type \in {"A", "E"} =>
                                 ms[k].ref \in 1 .. Len(rs) /\ rs[ms[k].ref] = ms[k].n
           Learnt(rs) == \A r \in Calls : refToId[r] # 0 => r \in 1 .. Len(rs) /\ refToId[r] = rs[r]
<1>7. Truthful(told, refs) /\ (~drained => Learnt(refs))
  BY DEF RefsOK
<1>8. ASSUME NEW m \in Messages, NEW ms \in Seq(Messages), NEW rs, Truthful(ms, rs),
             m.type \in {"A", "E"} => m.ref \in 1 .. Len(rs) /\ rs[m.ref] = m.n
      PROVE  Truthful(Append(ms, m), rs)
  <2>1. /\ Len(Append(ms, m)) = Len(ms) + 1 /\ Len(ms) \in Nat /\ Append(ms, m)[Len(ms) + 1] = m
        /\ \A k \in 1 .. Len(ms) : Append(ms, m)[k] = ms[k]
    BY AppendProperties, LenProperties
  <2>2. \A k \in 1 .. Len(ms) + 1 : k \in 1 .. Len(ms) \/ k = Len(ms) + 1
    BY <2>1
  <2> QED BY <1>8, <2>1, <2>2
<1>9. ASSUME NEW rs \in Seq(Calls), Len(refs) <= Len(rs), \A i \in 1 .. Len(refs) : rs[i] = refs[i]
      PROVE  Truthful(told, rs) /\ (~drained => Learnt(rs))
  <2>1. Len(rs) \in Nat
    BY LenProperties
  <2>2. \A i \in 1 .. Len(refs) : i \in 1 .. Len(rs) /\ rs[i] = refs[i]
    BY <1>3, <1>9, <2>1
  <2> QED BY <1>7, <2>2
<1> DEFINE Distinct(rs) == \A i, j \in 1 .. Len(rs) : rs[i] = rs[j] => i = j
<1>10. ASSUME NEW ms \in Seq(Messages), NEW rs \in Seq(Calls), NEW s \in Seq(WireBytes), Tells(ms, s),
              refs' = rs, Truthful(ms, rs), Distinct(rs), ~drained => Hold(ms, stream \o s) /\ Learnt(rs)
       PROVE  RefsOK' /\ ReportsOK'
  <2>1. told' = ms /\ toUs' = s
    BY <1>10 DEF Tells
  <2>2. RefsOK'
    BY <1>2, <1>10, <2>1 DEF RefsOK
  <2>3. ReportsOK'
    BY <1>2, <1>10, <2>1 DEF ReportsOK, Incoming
  <2> QED BY <2>2, <2>3
<1> HIDE DEF Hold, Truthful, Learnt
<1>11. CASE Silent
  <2>1. Tells(told, toUs) /\ refs' = refs
    BY <1>11 DEF Silent
  <2> QED BY <1>3, <1>6, <1>7, <1>10, <2>1
<1>12. ASSUME NEW m \in Requests, m.type = "Q", Answer(m) \in Quotes, refs' = refs,
              Tells(Append(told, Answer(m)), toUs \o Bytes(Answer(m)))
       PROVE  RefsOK' /\ ReportsOK'
  <2>1. PICK q \in Messages : q = Answer(m) /\ q.type = "B"
    BY <1>12 DEF Messages, Quotes
  <2>2. /\ Append(told, q) \in Seq(Messages) /\ toUs \o Bytes(q) \in Seq(WireBytes)
    <3>1. PICK b \in Seq(WireBytes) : b = Bytes(q)
      BY BytesOf
    <3>2. toUs \o b \in Seq(WireBytes)
      BY <1>3, ConcatProperties
    <3> QED BY <1>3, <3>1, <3>2, AppendProperties
  <2>3. ~drained => Hold(Append(told, q), stream \o (toUs \o Bytes(q)))
    BY <1>3, <1>5, <1>6
  <2>4. Truthful(Append(told, q), refs)
    BY <1>3, <1>7, <1>8, <2>1
  <2>5. Tells(Append(told, q), toUs \o Bytes(q))
    BY <1>12, <2>1
  <2> QED BY <1>3, <1>7, <1>10, <1>12, <2>2, <2>3, <2>4, <2>5
<1>13. ASSUME NEW m \in Requests, Fill("A", m.n) \in Fills, Fill("E", m.n) \in Fills, refs' = RefFor(m.n)[1],
              Tells(Append(Append(told, Fill("A", m.n)), Fill("E", m.n)),
                    (toUs \o Bytes(Fill("A", m.n))) \o Bytes(Fill("E", m.n)))
       PROVE  RefsOK' /\ ReportsOK'
  <2>1. m.n \in Calls
    BY DEF Requests
  <2>2. PICK rs \in Seq(Calls), r \in Calls :
          /\ rs = RefFor(m.n)[1] /\ r = RefFor(m.n)[2]
          /\ Len(refs) <= Len(rs) /\ \A i \in 1 .. Len(refs) : rs[i] = refs[i]
          /\ r \in 1 .. Len(rs) /\ rs[r] = m.n
          /\ \A i, j \in 1 .. Len(rs) : rs[i] = rs[j] => i = j
    <3> DEFINE new == RefFor(m.n)[1]
               ref == RefFor(m.n)[2]
    <3>1. /\ new \in Seq(Calls) /\ ref \in Calls
          /\ Len(refs) <= Len(new) /\ \A i \in 1 .. Len(refs) : new[i] = refs[i]
          /\ ref \in 1 .. Len(new) /\ new[ref] = m.n
          /\ \A i, j \in 1 .. Len(new) : new[i] = new[j] => i = j
      BY <1>3, <2>1, RefForIs
    <3> HIDE DEF new, ref
    <3>2. \E rs \in Seq(Calls), r \in Calls :
            /\ rs = new /\ r = ref
            /\ Len(refs) <= Len(rs) /\ \A i \in 1 .. Len(refs) : rs[i] = refs[i]
            /\ r \in 1 .. Len(rs) /\ rs[r] = m.n
            /\ \A i, j \in 1 .. Len(rs) : rs[i] = rs[j] => i = j
      BY <3>1, Zenon
    <3> QED BY <3>2 DEF new, ref
  <2>3. PICK a \in Messages, e \in Messages :
          /\ a = Fill("A", m.n) /\ e = Fill("E", m.n)
          /\ a.ref = r /\ a.n = m.n /\ e.ref = r /\ e.n = m.n
    <3>1. Fill("A", m.n) \in Messages /\ Fill("E", m.n) \in Messages
      BY <1>13 DEF Messages
    <3> QED BY <2>2, <3>1 DEF Fill
  <2>4. /\ Tells(Append(Append(told, a), e), (toUs \o Bytes(a)) \o Bytes(e)) /\ refs' = rs
    BY <1>13, <2>2, <2>3
  <2>5. Truthful(told, rs) /\ (~drained => Learnt(rs)) /\ Distinct(rs)
    BY <1>9, <2>2
  <2>6. /\ Append(told, a) \in Seq(Messages) /\ toUs \o Bytes(a) \in Seq(WireBytes)
    <3>1. PICK b \in Seq(WireBytes) : b = Bytes(a)
      BY BytesOf
    <3>2. toUs \o b \in Seq(WireBytes)
      BY <1>3, ConcatProperties
    <3> QED BY <1>3, <3>1, <3>2, AppendProperties
  <2>7. PICK ms \in Seq(Messages), s \in Seq(WireBytes) : ms = Append(told, a) /\ s = toUs \o Bytes(a)
    BY <2>6
  <2>8. Truthful(ms, rs)
    BY <1>3, <1>8, <2>2, <2>3, <2>5, <2>7
  <2>9. ~drained => Hold(ms, stream \o s)
    BY <1>3, <1>5, <1>6, <2>7
  <2>10. Append(ms, e) \in Seq(Messages) /\ s \o Bytes(e) \in Seq(WireBytes)
    <3>1. PICK b \in Seq(WireBytes) : b = Bytes(e)
      BY BytesOf
    <3>2. s \o b \in Seq(WireBytes)
      BY ConcatProperties
    <3> QED BY <3>1, <3>2, AppendProperties
  <2>11. Truthful(Append(ms, e), rs)
    BY <1>8, <2>2, <2>3, <2>8
  <2>12. ~drained => Hold(Append(ms, e), stream \o (s \o Bytes(e)))
    BY <1>5, <2>9
  <2>13. Tells(Append(ms, e), s \o Bytes(e))
    BY <2>4, <2>7
  <2> HIDE DEF Distinct
  <2> QED BY <1>10, <2>4, <2>5, <2>10, <2>11, <2>12, <2>13
<1> HIDE DEF Distinct
<1> QED BY <1>11, <1>12, <1>13, ExchangeDoes, Zenon DEF Replies

(* fill_th takes the next report whole, as the one told, and for the order *)
(* it is about.                                                            *)
LEMMA FillReports ==
  ASSUME WireTypes, RefsOK, ReportsOK, FillStep
  PROVE  RefsOK' /\ ReportsOK'
<1>1. FillUnchanged /\ UNCHANGED <<refs, told>>
  BY FillDoes DEF FillUnchanged, exchangeVars
<1>2. /\ toUs \in Seq(WireBytes) /\ stream \in Seq(WireBytes) /\ told \in Seq(Messages)
      /\ heard \in Seq(Messages) /\ Len(heard) \in Nat /\ Len(told) \in Nat
      /\ Incoming \in Seq(WireBytes)
      /\ refToId \in [Calls -> Calls \cup {0}]
  BY LenProperties, ConcatProperties DEF WireTypes, Incoming
<1>3. CASE drained'
  BY <1>1, <1>3 DEF RefsOK, ReportsOK
<1>4. CASE UNCHANGED <<drained, Incoming, heard, refToId>>
  BY <1>1, <1>4 DEF RefsOK, ReportsOK
<1>5. ASSUME ~drained, stream # <<>>
      PROVE  LET m == told[Len(heard) + 1]
             IN  /\ Len(heard) + 1 \in 1 .. Len(told) /\ m \in Messages
                 /\ stream[1] = Byte(m, 1) /\ FrameLen(stream) = Size(m) /\ FrameLen(stream) > 0
                 /\ Complete(stream) => /\ Frame(stream) = Bytes(m) /\ Decodes(Frame(stream))
                                        /\ Encodes(Rest(stream) \o toUs, told, Len(heard) + 1, 0)
  <2> DEFINE m == told[Len(heard) + 1]
  <2>1. Len(heard) \in 0 .. Len(told) /\ Encodes(Incoming, told, Len(heard), 0)
    BY <1>2, <1>5 DEF ReportsOK
  <2>2. /\ Incoming # <<>> /\ Incoming[1] = stream[1] /\ FrameLen(Incoming) = FrameLen(stream)
        /\ Complete(stream) => /\ FrameLen(Incoming) <= Len(Incoming)
                               /\ Frame(Incoming) = Frame(stream)
                               /\ Rest(Incoming) = Rest(stream) \o toUs
    BY <1>2, <1>5, FrameOfConcat DEF Incoming
  <2>3. /\ Len(heard) < Len(told) /\ Incoming[1] = Byte(m, 1) /\ FrameLen(Incoming) = Size(m)
        /\ FrameLen(Incoming) <= Len(Incoming) =>
             /\ Frame(Incoming) = Bytes(m)
             /\ Encodes(Rest(Incoming), told, Len(heard) + 1, 0)
    BY <1>2, <2>1, <2>2, EncodesTake
  <2>4. Len(heard) + 1 \in 1 .. Len(told)
    BY <1>2, <2>3
  <2>5. m \in Messages
    BY <1>2, <2>4, ElementOfSeq
  <2>6. Size(m) \in Nat \ {0} /\ 1 \in 1 .. Size(m) /\ Bytes(m)[1] = Byte(m, 1)
    BY <2>5, Sizes, BytesOf
  <2>7. Bytes(m)[1].msg = m
    BY <2>6 DEF Byte
  <2>8. Decodes(Bytes(m))
    BY <2>7 DEF Decodes
  <2>9. stream[1] = Byte(m, 1) /\ FrameLen(stream) = Size(m)
    BY <2>2, <2>3, Zenon
  <2>10. FrameLen(stream) > 0
    BY <2>6, <2>9
  <2>11. Complete(stream) => /\ Frame(stream) = Bytes(m) /\ Decodes(Frame(stream))
                             /\ Encodes(Rest(stream) \o toUs, told, Len(heard) + 1, 0)
    BY <2>2, <2>3, <2>8, Zenon
  <2> QED BY <2>4, <2>5, <2>9, <2>10, <2>11, Zenon
<1>6. CASE Garbage(stream) /\ UNCHANGED <<drained, toUs, heard, refToId>>
  <2>1. CASE drained
    BY <1>3, <1>6, <2>1
  <2>2. CASE ~drained
    BY <1>5, <1>6, <2>2 DEF Garbage
  <2> QED BY <2>1, <2>2
<1>7. ASSUME NEW m \in Messages, m = stream[1].msg, Complete(stream), Decodes(Frame(stream)),
             stream' = Rest(stream), UNCHANGED <<drained, toUs>>, Hears(m), ~drained
      PROVE  RefsOK' /\ ReportsOK'
  <2>1. stream # <<>>
    BY <1>7 DEF Complete
  <2>2. /\ Len(heard) + 1 \in 1 .. Len(told) /\ told[Len(heard) + 1] = m
        /\ Encodes(Rest(stream) \o toUs, told, Len(heard) + 1, 0)
    BY <1>5, <1>7, <2>1 DEF Byte
  <2>3. heard' = Append(heard, m) /\ \A r \in Calls :
          refToId'[r] # 0 => r \in 1 .. Len(refs) /\ refToId'[r] = refs[r]
    <3>1. CASE m \in Quotes /\ heard' = Append(heard, m) /\ refToId' = refToId
      BY <1>7, <3>1 DEF RefsOK
    <3>2. CASE /\ m \in Fills /\ heard' = Append(heard, [m EXCEPT !.n = Known(m)])
               /\ refToId' = IF m.type = "A" THEN [refToId EXCEPT ![m.ref] = Known(m)] ELSE refToId
      <4>1. m.type \in {"A", "E"} /\ m.ref \in Calls /\ m.n \in Calls
        BY <3>2 DEF Fills
      <4>2. m.ref \in 1 .. Len(refs) /\ refs[m.ref] = m.n
        BY <2>2, <4>1 DEF RefsOK
      <4>3. Known(m) = m.n
        BY <1>7, <4>1, <4>2 DEF Known, RefsOK
      <4>4. [m EXCEPT !.n = m.n] = m
        BY <3>2 DEF Fills
      <4>5. \A r \in Calls : refToId[r] # 0 => r \in 1 .. Len(refs) /\ refToId[r] = refs[r]
        BY <1>7 DEF RefsOK
      <4>6. \A r \in Calls : refToId'[r] = refToId[r] \/ (r = m.ref /\ refToId'[r] = m.n)
        BY <1>2, <3>2, <4>1, <4>3
      <4> QED BY <3>2, <4>2, <4>3, <4>4, <4>5, <4>6
    <3> QED BY <1>7, <3>1, <3>2 DEF Hears
  <2>4. /\ Len(heard') = Len(heard) + 1 /\ heard'[Len(heard) + 1] = m
        /\ \A k \in 1 .. Len(heard) : heard'[k] = heard[k]
    BY <1>2, <2>3, AppendProperties
  <2>5. Incoming' = Rest(stream) \o toUs
    BY <1>7 DEF Incoming
  <2>6. \A k \in 1 .. Len(heard) + 1 : k \in 1 .. Len(heard) \/ k = Len(heard) + 1
    BY <1>2
  <2>7. \A k \in 1 .. Len(heard) : heard[k] = told[k]
    BY <1>7 DEF ReportsOK
  <2>8. Len(heard') <= Len(told) /\ \A k \in 1 .. Len(heard') : heard'[k] = told[k]
    <3>1. Len(heard) + 1 <= Len(told)
      BY <1>2, <2>2
    <3>2. heard'[Len(heard) + 1] = told[Len(heard) + 1]
      BY <2>2, <2>4
    <3>3. \A k \in 1 .. Len(heard) : heard'[k] = told[k]
      BY <2>4, <2>7
    <3> QED BY <2>4, <2>6, <3>1, <3>2, <3>3
  <2>9. ReportsOK'
    BY <1>1, <2>2, <2>4, <2>5, <2>8 DEF ReportsOK
  <2>10. RefsOK'
    BY <1>1, <2>3 DEF RefsOK
  <2> QED BY <2>9, <2>10
<1>8. ASSUME NEW m \in Messages, m = stream[1].msg, Complete(stream), Decodes(Frame(stream)),
             stream' = Rest(stream), UNCHANGED <<drained, toUs>>, Hears(m)
      PROVE  RefsOK' /\ ReportsOK'
  <2>1. CASE drained
    BY <1>3, <1>8, <2>1
  <2>2. CASE ~drained
    BY <1>7, <1>8, <2>2
  <2> QED BY <2>1, <2>2
<1> QED BY <1>3, <1>4, <1>6, <1>8, FillDoes, Zenon

(* The sender's steps leave the reports alone.                             *)
LEMMA SendReports ==
  ASSUME RefsOK, ReportsOK, SendStep
  PROVE  RefsOK' /\ ReportsOK'
<1>1. UNCHANGED <<exchangeVars, fillVars, toUs>>
  BY DEF SendStep, SendZcAll, Begin, Spin, Finish, Submit, SubmitError, NoSqe, SubmitFails, WaitFails,
         LeaveBytes, Reap, ReapUnchanged, Notify
<1>2. UNCHANGED <<refs, told, refToId, stream, heard, drained, toUs>>
  BY <1>1 DEF exchangeVars, fillVars
<1> QED BY <1>2 DEF RefsOK, ReportsOK, Incoming

-----------------------------------------------------------------------------
(* Sending: what is written to the stream and when it is released.         *)
LEMMA FillSends ==
  ASSUME WireTypes, SendOK, RingOK, StreamOK, FillStep
  PROVE  SendOK' /\ RingOK' /\ StreamOK'
<1>1. FillUnchanged /\ mtx' = mtx
  BY FillDoes
<1>2. UNCHANGED <<ring, head, tail, gapped, cq, sqes, stale, tx, toEx, conn, sent, taken, mtx, faults, kept, torn>>
  BY <1>1 DEF FillUnchanged, ringVars, kernelVars, exchangeVars
<1>3. SendOK'
  BY <1>2 DEF SendOK, CompletionsOK, Own, Sending, Used, Regular, Failing
<1>4. RingOK'
  BY <1>2 DEF RingOK, LeftInRing, Owed, Sending, Used, Slipped
<1>5. StreamOK'
  BY <1>2 DEF StreamOK, SentLast, Owed, Out, Own, Sending, Slipped
<1> QED BY <1>3, <1>4, <1>5

(* If bytes are owed, a message has not been read.                         *)
LEMMA EncodesOwed ==
  ASSUME NEW msgs \in Seq(Messages), NEW n \in 0 .. Len(msgs), NEW s \in Seq(WireBytes),
         NEW left \in Nat \ {0}, Encodes(s, msgs, n, left)
  PROVE  n < Len(msgs)
<1>1. Len(msgs) \in Nat /\ Len(s) \in Nat
  BY LenProperties
<1>2. PICK off \in [n .. Len(msgs) -> Nat] : off[n] = 0 /\ Len(s) + left = off[Len(msgs)]
  BY DEF Encodes
<1>3. n # Len(msgs)
  BY <1>1, <1>2
<1> QED BY <1>1, <1>3

(* If nothing of the last message has gone out, it can be taken back.      *)
LEMMA EncodesDropped ==
  ASSUME NEW msgs \in Seq(Messages), NEW n \in 0 .. Len(msgs), NEW s \in Seq(WireBytes),
         n < Len(msgs), Encodes(s, msgs, n, Size(msgs[Len(msgs)]))
  PROVE  Encodes(s, Front(msgs), n, 0)
<1> DEFINE N == Len(msgs)
           z == Size(msgs[N])
           less == Front(msgs)
<1>1. PICK off \in [n .. N -> Nat] :
        /\ off[n] = 0
        /\ \A k \in n + 1 .. N : off[k] = off[k - 1] + Size(msgs[k])
        /\ \A j, k \in n .. N : j <= k => off[j] <= off[k]
        /\ Len(s) + z = off[N]
        /\ \A k \in n + 1 .. N : \A i \in 1 .. Size(msgs[k]) :
             off[k - 1] + i <= Len(s) => s[off[k - 1] + i] = Byte(msgs[k], i)
  BY DEF Encodes
<1>2. N \in Nat /\ n \in Nat /\ n < N /\ Len(s) \in Nat
  BY LenProperties
<1>3. z \in Nat
  BY <1>2, Sizes, ElementOfSeq
<1>4. Len(less) = N - 1 /\ \A k \in 1 .. N - 1 : less[k] = msgs[k]
  BY <1>2, FrontIs
<1> DEFINE new == [k \in n .. N - 1 |-> off[k]]
<1>5. \A k \in n .. N - 1 : k \in n .. N /\ off[k] \in Nat /\ new[k] = off[k]
  BY <1>1, <1>2
<1>6. new \in [n .. N - 1 -> Nat]
  BY <1>5
<1> HIDE DEF new, less, z, N
<1>7. n \in n .. N - 1 /\ N - 1 \in n .. N - 1 /\ N \in n + 1 .. N
  BY <1>2
<1>8. new[n] = 0
  BY <1>1, <1>5, <1>7
<1>9. Len(s) + 0 = new[N - 1]
  <2>1. off[N] = off[N - 1] + z /\ off[N - 1] \in Nat
    BY <1>1, <1>5, <1>7 DEF z
  <2> QED BY <1>1, <1>2, <1>3, <1>5, <1>7, <2>1
<1>10. \A k \in n + 1 .. N - 1 : k \in n + 1 .. N /\ k \in n .. N - 1 /\ k - 1 \in n .. N - 1 /\ k \in 1 .. N - 1
  BY <1>2
<1>11. \A k \in n + 1 .. N - 1 :
         /\ new[k] = new[k - 1] + Size(less[k])
         /\ \A i \in 1 .. Size(less[k]) :
              new[k - 1] + i <= Len(s) => s[new[k - 1] + i] = Byte(less[k], i)
  BY <1>1, <1>4, <1>5, <1>10
<1>12. \A j, k \in n .. N - 1 : j <= k => new[j] <= new[k]
  BY <1>1, <1>5
<1>13. SUFFICES \E f \in [n .. Len(less) -> Nat] :
        /\ f[n] = 0
        /\ \A k \in n + 1 .. Len(less) : f[k] = f[k - 1] + Size(less[k])
        /\ \A j, k \in n .. Len(less) : j <= k => f[j] <= f[k]
        /\ Len(s) + 0 = f[Len(less)]
        /\ \A k \in n + 1 .. Len(less) : \A i \in 1 .. Size(less[k]) :
             f[k - 1] + i <= Len(s) => s[f[k - 1] + i] = Byte(less[k], i)
  BY Zenon DEF Encodes, less
<1>14. new \in [n .. Len(less) -> Nat]
  BY <1>4, <1>6
<1> WITNESS new \in [n .. Len(less) -> Nat]
<1> QED BY <1>4, <1>8, <1>9, <1>11, <1>12

(* The types of what the send invariant counts.                            *)
LEMMA OwedTypes ==
  ASSUME RingTypes, WireTypes
  PROVE  /\ Owed \in Nat /\ sent \in Seq(Messages) /\ Len(sent) \in Nat /\ Len(taken) \in Nat
         /\ toEx \in Seq(WireBytes) /\ Len(cq) \in Nat /\ Used \in Nat
<1>1. Owed \in Nat
  BY DEF Owed, RingTypes
<1>2. Requests \subseteq Messages
  BY DEF Messages
<1>3. sent \in Seq(Messages)
  BY <1>2, SeqMonotonic DEF WireTypes
<1>4. Used \in Nat
  <2>1. head \in Nat /\ tail \in Nat /\ SizeMod \in Nat
    BY Constants DEF RingTypes
  <2>2. Used \in 0 .. SizeMod - 1
    BY <2>1, GapMoves DEF Used, Gap
  <2> QED BY <2>1, <2>2
<1>5. Len(sent) \in Nat /\ Len(taken) \in Nat /\ Len(cq) \in Nat
  BY LenProperties DEF WireTypes, RingTypes
<1> QED BY <1>1, <1>3, <1>4, <1>5 DEF WireTypes

(* The exchange reads the next message sent, whole.                        *)
LEMMA ExchangeInStep ==
  ASSUME RingTypes, WireTypes, StreamOK, ~Slipped, ~torn, conn = "up", toEx # <<>>
  PROVE  LET m == sent[Len(taken) + 1]
         IN  /\ Len(taken) + 1 \in 1 .. Len(sent) /\ toEx[1].msg = m
             /\ FrameLen(toEx) # 0
             /\ Complete(toEx) =>
                  /\ Decodes(Frame(toEx))
                  /\ \E k \in 0 .. Owed : Out(k) /\ Encodes(Rest(toEx), sent, Len(taken) + 1, Owed - k)
<1> DEFINE m == sent[Len(taken) + 1]
<1>1. /\ Owed \in Nat /\ sent \in Seq(Messages) /\ Len(sent) \in Nat /\ Len(taken) \in Nat
      /\ toEx \in Seq(WireBytes)
  BY OwedTypes
<1>2. PICK k \in 0 .. Owed : Out(k) /\ Encodes(toEx, sent, Len(taken), Owed - k)
  BY DEF StreamOK
<1>3. Len(taken) \in 0 .. Len(sent)
  BY <1>1 DEF StreamOK
<1>4. PICK left \in Nat : left = Owed - k
  BY <1>1
<1>5. /\ Len(taken) < Len(sent) /\ toEx[1] = Byte(m, 1) /\ FrameLen(toEx) = Size(m)
      /\ FrameLen(toEx) <= Len(toEx) =>
           /\ Frame(toEx) = Bytes(m)
           /\ Encodes(Rest(toEx), sent, Len(taken) + 1, left)
  BY <1>1, <1>2, <1>3, <1>4, EncodesTake
<1>6. Len(taken) + 1 \in 1 .. Len(sent)
  BY <1>1, <1>5
<1>7. m \in Messages
  BY <1>1, <1>6, ElementOfSeq
<1>8. Size(m) \in Nat \ {0} /\ 1 \in 1 .. Size(m) /\ Bytes(m)[1] = Byte(m, 1)
  BY <1>7, Sizes, BytesOf
<1>9. Bytes(m)[1].msg = m /\ toEx[1].msg = m
  BY <1>5, <1>8 DEF Byte
<1>10. Decodes(Bytes(m))
  BY <1>9 DEF Decodes
<1>11. FrameLen(toEx) # 0
  BY <1>5, <1>8
<1>12. Complete(toEx) => FrameLen(toEx) <= Len(toEx)
  <2>1. Len(toEx) \in Nat /\ FrameLen(toEx) \in Nat
    BY <1>1, FrameTypes
  <2> QED BY <2>1 DEF Complete
<1>13. Complete(toEx) => /\ Decodes(Frame(toEx))
                         /\ Encodes(Rest(toEx), sent, Len(taken) + 1, Owed - k)
  BY <1>4, <1>5, <1>10, <1>12, Zenon
<1> QED BY <1>2, <1>6, <1>9, <1>11, <1>13, Zenon

(* The exchange stays in step with the sender.                             *)
LEMMA ExchangeSends ==
  ASSUME RingTypes, WireTypes, RefsOK, SendOK, RingOK, StreamOK, Exchange
  PROVE  SendOK' /\ RingOK' /\ StreamOK'
<1>1. ExchangeUnchanged /\ toEx # <<>> /\ conn = "up"
  BY ExchangeDoes
<1>2. UNCHANGED <<ring, head, tail, gapped, cq, sqes, stale, tx, sent, mtx, faults, kept, torn>>
  BY <1>1 DEF ExchangeUnchanged, ringVars, kernelVars
<1>a. Failing => Failing'
  BY <1>1, <1>2 DEF Failing
<1>3. SendOK'
  BY <1>a, <1>2 DEF SendOK, CompletionsOK, Own, Sending, Used, Regular
<1>b. RingOK'
  BY <1>2 DEF RingOK, LeftInRing, Owed, Sending, Used, Slipped
<1>4. /\ Owed' = Owed /\ (Sending' <=> Sending) /\ \A k : Out(k)' <=> Out(k)
      /\ Slipped' <=> Slipped
  BY <1>2 DEF Owed, Out, Own, Sending, Slipped
<1>5. SUFFICES ASSUME ~Slipped, ~torn
               PROVE  /\ Len(taken') <= Len(sent) /\ \A k \in 1 .. Len(taken') : taken'[k] = sent[k]
                      /\ conn' # "garbled"
                      /\ conn' = "up" => \E k \in 0 .. Owed : Out(k) /\ Encodes(toEx', sent, Len(taken'), Owed - k)
  <2>1. CASE ~Slipped /\ ~torn
    <3>1. /\ Len(taken') <= Len(sent) /\ \A k \in 1 .. Len(taken') : taken'[k] = sent[k]
          /\ conn' # "garbled"
          /\ conn' = "up" => \E k \in 0 .. Owed : Out(k) /\ Encodes(toEx', sent, Len(taken'), Owed - k)
      BY <1>5, <2>1
    <3>2. SentLast
      BY <2>1 DEF StreamOK
    <3>3. SentLast'
      BY <1>2, <1>4, <3>2 DEF SentLast
    <3>4. (conn = "up" => \E k \in 0 .. Owed : Out(k) /\ Encodes(toEx, sent, Len(taken), Owed - k))'
      BY <1>2, <1>4, <3>1
    <3>5. (Len(taken) <= Len(sent) /\ \A k \in 1 .. Len(taken) : taken[k] = sent[k])'
      BY <1>2, <3>1
    <3> QED BY <1>3, <1>b, <3>1, <3>3, <3>4, <3>5 DEF StreamOK
  <2>2. CASE Slipped \/ torn
    BY <1>2, <1>3, <1>b, <1>4, <2>2 DEF StreamOK
  <2> QED BY <2>1, <2>2
<1>6. /\ taken \in Seq(Requests) /\ Len(taken) \in Nat /\ Len(sent) \in Nat
      /\ Len(taken) <= Len(sent) /\ \A k \in 1 .. Len(taken) : taken[k] = sent[k]
  BY <1>5, LenProperties DEF WireTypes, StreamOK
<1>7. /\ Len(taken) + 1 \in 1 .. Len(sent) /\ toEx[1].msg = sent[Len(taken) + 1]
      /\ FrameLen(toEx) # 0
      /\ Complete(toEx) =>
           /\ Decodes(Frame(toEx))
           /\ \E k \in 0 .. Owed : Out(k) /\ Encodes(Rest(toEx), sent, Len(taken) + 1, Owed - k)
  BY <1>1, <1>5, ExchangeInStep
<1>8. ASSUME NEW m \in Requests, Reads(m)
      PROVE  /\ Len(taken') <= Len(sent) /\ \A k \in 1 .. Len(taken') : taken'[k] = sent[k]
             /\ conn' # "garbled"
             /\ \E k \in 0 .. Owed : Out(k) /\ Encodes(toEx', sent, Len(taken'), Owed - k)
  <2>1. /\ m = toEx[1].msg /\ Complete(toEx) /\ taken' = Append(taken, m) /\ toEx' = Rest(toEx) /\ conn' = conn
    BY <1>8 DEF Reads
  <2>2. /\ Len(taken') = Len(taken) + 1 /\ taken'[Len(taken) + 1] = m
        /\ \A k \in 1 .. Len(taken) : taken'[k] = taken[k]
    BY <1>6, <2>1, AppendProperties
  <2>3. \A k \in 1 .. Len(taken) + 1 : k \in 1 .. Len(taken) \/ k = Len(taken) + 1
    BY <1>6
  <2>4. Len(taken') <= Len(sent) /\ \A k \in 1 .. Len(taken') : taken'[k] = sent[k]
    BY <1>6, <1>7, <2>1, <2>2, <2>3
  <2>5. \E k \in 0 .. Owed : Out(k) /\ Encodes(toEx', sent, Len(taken'), Owed - k)
    BY <1>7, <2>1, <2>2, Zenon
  <2> QED BY <1>1, <2>1, <2>4, <2>5
<1>9. ASSUME taken' = taken,
             \/ toEx' = <<>> /\ conn' = "refused"
             \/ toEx' = <<>> /\ conn' = "garbled" /\ FrameLen(toEx) = 0
             \/ Complete(toEx) /\ ~Decodes(Frame(toEx)) /\ toEx' = Rest(toEx) /\ conn' = conn
      PROVE  /\ Len(taken') <= Len(sent) /\ \A k \in 1 .. Len(taken') : taken'[k] = sent[k]
             /\ conn' = "refused"
  BY <1>6, <1>7, <1>9
<1>10. CASE \E m \in Requests : Reads(m)
  BY <1>8, <1>10
<1>11. CASE /\ taken' = taken
            /\ \/ toEx' = <<>> /\ conn' = "refused"
               \/ toEx' = <<>> /\ conn' = "garbled" /\ FrameLen(toEx) = 0
               \/ Complete(toEx) /\ ~Decodes(Frame(toEx)) /\ toEx' = Rest(toEx) /\ conn' = conn
  <2>1. /\ Len(taken') <= Len(sent) /\ \A k \in 1 .. Len(taken') : taken'[k] = sent[k]
        /\ conn' = "refused"
    BY <1>9, <1>11
  <2> QED BY <2>1
<1> QED BY <1>10, <1>11, ExchangeDoes, Zenon

(* Without a submission under way, only notifications are queued.          *)
LEMMA NoneOwn ==
  ASSUME CompletionsOK, tx.at # "reap"
  PROVE  \A i \in 1 .. Len(cq) : cq[i].n = 0
BY DEF CompletionsOK, Own

(* push makes room: what is owed and what is used grow by the message.     *)
LEMMA BeginUsed ==
  ASSUME RingTypes, WireTypes, SendOK, Regular, NEW t \in Calls, NEW m \in Requests, Begin(t, m)
  PROVE  /\ Used' = Used + (Start(Size(m)) - tail) + Size(m)
         /\ tail <= Start(Size(m)) /\ Size(m) <= Capacity /\ Used' <= Capacity
         /\ head' + Used' <= tail'
         /\ \A x \in tail .. Start(Size(m)) - 1 : x % Capacity > Capacity - Header
         /\ Header < Size(m) => Start(Size(m)) % Capacity <= Capacity - Header
<1> DEFINE len == Size(m)
           start == Start(len)
<1>1. /\ len \in Nat \ {0} /\ start \in Nat /\ tail' = start + len /\ HasRoom(len) /\ head' = head
  BY BeginCopies DEF Begin
<1>2. head \in Nat /\ tail \in Nat /\ Capacity \in Nat /\ SizeMod \in Nat /\ Capacity < SizeMod
  BY Constants DEF RingTypes
<1>3. Used <= Capacity /\ head + Used <= tail /\ Used \in Nat
  BY OwedTypes DEF SendOK
<1>4. /\ tail <= start /\ start - tail + len + Used <= Capacity
      /\ \A x \in tail .. start - 1 : x % Capacity > Capacity - Header
      /\ Header < len => start % Capacity <= Capacity - Header
  BY <1>1, <1>2, <1>3, PushPlace
<1> HIDE DEF len, start
<1>5. PICK d \in Nat : d = start - tail + len
  BY <1>1, <1>2, <1>4
<1>6. PICK u \in Nat : u = Used
  BY <1>3
<1>7. u + d < SizeMod /\ tail + d = tail'
  BY <1>1, <1>2, <1>4, <1>5, <1>6
<1>8. Gap(head, tail + d) = u + d
  <2>1. u = Gap(head, tail)
    BY <1>6 DEF Used, Gap
  <2>2. \A x \in Nat : Gap(head, tail) + x < SizeMod => Gap(head, tail + x) = Gap(head, tail) + x
    BY <1>2, GapMoves, Zenon
  <2> QED BY <1>7, <2>1, <2>2, Zenon
<1>9. Used' = u + d
  <2>1. Used' = Gap(head', tail')
    BY DEF Used, Gap
  <2> QED BY <1>1, <1>7, <1>8, <2>1, Zenon
<1>10. /\ Used' = Used + (start - tail) + len /\ len <= Capacity /\ Used' <= Capacity
       /\ head' + Used' <= tail'
  BY <1>1, <1>2, <1>3, <1>4, <1>5, <1>6, <1>7, <1>9
<1> QED BY <1>4, <1>10 DEF len, start

(* send's push keeps the exchange in step.                                 *)
LEMMA BeginSends ==
  ASSUME RingTypes, WireTypes, SendOK, RingOK, StreamOK, ~kept,
         NEW t \in Calls, NEW m \in Requests, Begin(t, m)
  PROVE  SendOK' /\ RingOK' /\ StreamOK'
<1> DEFINE len == Size(m)
           start == Start(len)
<1>1. /\ len \in Nat \ {0} /\ m \in Messages /\ start \in Nat /\ tail' = start + len
      /\ mtx = NoCall /\ mtx' = t /\ gapped' = (gapped \/ start # tail)
      /\ tx' = [at |-> "submit", msg |-> m, left |-> len] /\ sent' = Append(sent, m)
      /\ len <= Capacity => \A x \in 0 .. len - 1 :
           /\ (start + x) % Capacity \in 0 .. Capacity - 1
           /\ ring'[(start + x) % Capacity] = Byte(m, x + 1)
  BY BeginCopies
<1>2. UNCHANGED <<head, cq, sqes, stale, taken, toEx, conn, faults, kept, torn>>
  BY DEF Begin, kernelVars, exchangeVars
<1>3. tx.at = "idle" /\ t # NoCall
  <2>1. \A c \in Calls : c # NoCall
    BY DEF Calls, NoCall
  <2> QED BY <1>1, <2>1 DEF SendOK
<1>4. tx'.at = "submit" /\ tx'.msg = m /\ tx'.left = len /\ Sending' /\ ~Sending /\ Owed' = len /\ Owed = 0
  BY <1>1, <1>3 DEF Sending, Owed
<1> HIDE DEF len, start
<1>5. ASSUME ~stale
      PROVE  CompletionsOK' /\ Used' <= Capacity /\ head' + Used' <= tail' /\ tx'.left <= Used'
  <2>1. /\ Used' = Used + (start - tail) + len /\ tail <= start /\ Used' <= Capacity
        /\ head' + Used' <= tail'
    BY <1>5, BeginUsed DEF len, start, Regular
  <2>2. Used \in Nat /\ tail \in Nat
    BY OwedTypes DEF RingTypes
  <2>3. tx'.left <= Used'
    BY <1>1, <1>4, <2>1, <2>2
  <2>4. \A i \in 1 .. Len(cq) : cq[i].n = 0
    BY <1>3, <1>5, NoneOwn DEF SendOK, Regular
  <2>5. CompletionsOK'
    BY <1>2, <1>4, <2>4 DEF CompletionsOK, Own
  <2> QED BY <2>1, <2>3, <2>5
<1>6. SendOK'
  BY <1>1, <1>2, <1>3, <1>4, <1>5 DEF SendOK, Regular
<1>7. ASSUME ~stale', ~gapped'
      PROVE  /\ Used' = Owed'
             /\ tx'.left <= Size(tx'.msg)
             /\ \A i \in 1 .. tx'.left : ring'[(head' + i - 1) % Capacity] =
                                          Byte(tx'.msg, Size(tx'.msg) - tx'.left + i)
             /\ ~torn =>
                  /\ Len(taken') <= Len(sent') /\ \A k \in 1 .. Len(taken') : taken'[k] = sent'[k]
                  /\ conn' # "garbled"
                  /\ Len(sent') > 0 /\ sent'[Len(sent')] = tx'.msg
                  /\ conn' = "up" => Out(0)' /\ Encodes(toEx', sent', Len(taken'), Owed' - 0)
  <2>1. ~stale /\ ~gapped /\ start = tail
    BY <1>1, <1>2, <1>7, Zenon
  <2>a. ~Slipped
    BY <2>1 DEF Slipped
  <2>2. /\ Used = 0
        /\ ~torn => /\ Len(taken) <= Len(sent) /\ \A k \in 1 .. Len(taken) : taken[k] = sent[k]
                    /\ conn # "garbled"
    BY <1>4, <2>a DEF RingOK, StreamOK
  <2>3. /\ Used' = Used + (start - tail) + len /\ len <= Capacity
    BY <2>1, BeginUsed DEF len, start, Regular
  <2>4. /\ sent \in Seq(Messages) /\ Len(sent) \in Nat /\ Len(taken) \in Nat /\ head \in Nat /\ tail \in Nat
        /\ toEx \in Seq(WireBytes)
    BY OwedTypes DEF RingTypes
  <2>5. Used' = len
    BY <1>1, <2>1, <2>2, <2>3, <2>4
  <2>6. /\ Len(sent') = Len(sent) + 1 /\ sent'[Len(sent) + 1] = m
        /\ \A k \in 1 .. Len(sent) : sent'[k] = sent[k]
    BY <1>1, <2>4, AppendProperties
  <2>7. /\ ~torn => Len(taken') <= Len(sent') /\ \A k \in 1 .. Len(taken') : taken'[k] = sent'[k]
        /\ Len(sent') > 0 /\ sent'[Len(sent')] = m
    BY <1>2, <2>2, <2>4, <2>6
  <2>8. ASSUME NEW i \in 1 .. len PROVE ring'[(head + i - 1) % Capacity] = Byte(m, Size(m) - len + i)
    <3>1. tail' \in Nat /\ len = (tail' - head) % SizeMod
      BY <1>1, <1>2, <2>5 DEF Used
    <3>2. i - 1 \in Int /\ i - 1 \in 0 .. len - 1 /\ i - 1 + 1 = i
      BY <1>1
    <3>3. (head + (i - 1)) % Capacity = (tail' - len + (i - 1)) % Capacity
      <4>1. PICK e \in Nat : e = tail'
        BY <3>1
      <4>2. len = Gap(head, e)
        BY <3>1, <4>1, Zenon DEF Gap
      <4>3. \A x \in Int : (head + x) % Capacity = (e - Gap(head, e) + x) % Capacity
        BY <2>4, GapMoves, Zenon
      <4> QED BY <3>2, <4>1, <4>2, <4>3, Zenon
    <3>4. head + (i - 1) = head + i - 1 /\ tail' - len + (i - 1) = start + (i - 1)
      BY <1>1, <2>4
    <3>5. ring'[(start + (i - 1)) % Capacity] = Byte(m, i - 1 + 1)
      BY <1>1, <2>3, <3>2, Zenon
    <3>6. Size(m) - len + i = i
      BY <1>1 DEF len
    <3> QED BY <3>2, <3>3, <3>4, <3>5, <3>6, Zenon
  <2>9. ASSUME ~torn, conn = "up" PROVE Encodes(toEx, sent', Len(taken), len)
    <3>1. PICK k \in 0 .. Owed : Out(k) /\ Encodes(toEx, sent, Len(taken), Owed - k)
      BY <2>a, <2>9 DEF StreamOK
    <3>2. k = 0 /\ Owed - k = 0
      <4>1. Owed = 0
        BY <1>4
      <4>2. k \in 0 .. 0
        BY <4>1, Zenon
      <4>3. k = 0 /\ 0 - 0 = 0
        BY <4>2
      <4> QED BY <4>1, <4>3, Zenon
    <3>3. Encodes(toEx, sent, Len(taken), 0)
      BY <3>1, <3>2, Zenon
    <3>4. Len(taken) \in 0 .. Len(sent)
      BY <2>2, <2>4, <2>9
    <3> QED BY <1>1, <2>4, <3>3, <3>4, EncodesAppend DEF len
  <2>10. Out(0)' /\ len - 0 = len /\ len <= Size(m)
    BY <1>1, <1>4 DEF Out, len
  <2> QED BY <1>2, <1>4, <2>2, <2>5, <2>7, <2>8, <2>9, <2>10
<1>8. Slipped' => gapped' \/ stale'
  BY <1>2 DEF Slipped
<1>9. RingOK'
  BY <1>7, <1>8 DEF RingOK, LeftInRing, Slipped
<1>10. StreamOK'
  <2>1. 0 \in 0 .. Owed'
    BY <1>1, <1>4
  <2>2. SUFFICES ASSUME ~Slipped', ~torn' PROVE StreamOK'
    BY DEF StreamOK
  <2>3. ~stale' /\ ~gapped' /\ ~torn
    BY <1>2, <2>2 DEF Slipped
  <2> QED BY <1>7, <2>1, <2>3 DEF StreamOK, SentLast
<1> QED BY <1>6, <1>9, <1>10

(* A call that finds no room changes nothing.                              *)
LEMMA SpinSends ==
  ASSUME RingTypes, WireTypes, SendOK, RingOK, StreamOK, ~kept,
         NEW t \in Calls, NEW m \in Requests, Spin(t, m)
  PROVE  SendOK' /\ RingOK' /\ StreamOK'
<1>1. /\ mtx = NoCall /\ mtx' = t /\ tx' = [at |-> "spin", msg |-> m, left |-> Size(m)]
      /\ UNCHANGED <<ring, head, tail, gapped, cq, sqes, stale, taken, toEx, conn, faults, kept, torn, sent>>
  BY DEF Spin, Size, ringVars, kernelVars, exchangeVars
<1>2. tx.at = "idle" /\ t # NoCall /\ tx'.at = "spin"
  <2>1. \A c \in Calls : c # NoCall
    BY DEF Calls, NoCall
  <2> QED BY <1>1, <2>1 DEF SendOK
<1>3. ~Sending /\ ~Sending' /\ Owed = 0 /\ Owed' = 0 /\ Used' = Used /\ \A k : Out(k)' <=> Out(k)
  BY <1>1, <1>2 DEF Sending, Owed, Used, Out
<1>4. ASSUME ~stale PROVE CompletionsOK'
  <2>1. \A i \in 1 .. Len(cq) : cq[i].n = 0
    BY <1>2, <1>4, NoneOwn DEF SendOK, Regular
  <2> QED BY <1>1, <1>2, <2>1 DEF CompletionsOK, Own
<1>5. SendOK'
  BY <1>1, <1>2, <1>3, <1>4 DEF SendOK, Regular
<1>6. RingOK'
  BY <1>1, <1>3 DEF RingOK, Slipped
<1>7. StreamOK'
  BY <1>1, <1>3 DEF StreamOK, SentLast, Slipped
<1> QED BY <1>5, <1>6, <1>7

(* A step that changes neither the ring nor the exchange.                  *)
LEMMA Appended ==
  ASSUME NEW c \in [n : Nat, res : Int], RingTypes, cq' = Append(cq, c)
  PROVE  /\ Len(cq) \in Nat /\ Len(cq') = Len(cq) + 1 /\ cq'[Len(cq) + 1] = c
         /\ \A i \in 1 .. Len(cq) : cq'[i] = cq[i]
         /\ \A i \in 1 .. Len(cq') : i \in 1 .. Len(cq) \/ i = Len(cq) + 1
         /\ Len(cq) + 1 \in 1 .. Len(cq') /\ \A i \in 1 .. Len(cq) : i \in 1 .. Len(cq')
<1>1. cq \in Seq([n : Nat, res : Int])
  BY DEF RingTypes
<1>2. /\ Len(cq) \in Nat /\ Len(cq') = Len(cq) + 1 /\ cq'[Len(cq) + 1] = c
      /\ \A i \in 1 .. Len(cq) : cq'[i] = cq[i]
  BY <1>1, AppendProperties, LenProperties
<1> QED BY <1>2

(* A submission, in whole or in part, keeps the exchange in step.          *)
LEMMA SubmitSends ==
  ASSUME RingTypes, WireTypes, SendOK, RingOK, StreamOK, ~kept, NEW k \in 1 .. Capacity, Submit(k)
  PROVE  SendOK' /\ RingOK' /\ StreamOK'
<1> DEFINE c == [n |-> sqes + 1, res |-> k]
           piece == Ahead(k)
<1>1. /\ tx.at = "submit" /\ k <= Chunk /\ sqes' = sqes + 1
      /\ toEx' = (IF conn = "up" THEN toEx \o piece ELSE toEx)
      /\ cq' = Append(cq, c) /\ tx' = [tx EXCEPT !.at = "reap"]
      /\ UNCHANGED <<ring, head, tail, gapped, stale, taken, mtx, conn, sent, faults, kept, torn>>
  <2>1. /\ toEx' = (IF conn = "up" THEN toEx \o piece ELSE toEx)
        /\ cq' = Append(cq, c)
    BY SubmitTypes
  <2>2. /\ tx.at = "submit" /\ k \in 1 .. Chunk /\ sqes' = sqes + 1 /\ tx' = [tx EXCEPT !.at = "reap"]
        /\ UNCHANGED <<ring, head, tail, gapped, stale, taken, mtx, conn, sent, faults, kept, torn>>
    BY DEF Submit, ringVars, exchangeVars
  <2>3. k <= Chunk
    BY <2>2
  <2> QED BY <2>1, <2>2, <2>3
<1>2. /\ piece \in Seq(WireBytes) /\ Len(piece) = k
      /\ \A i \in 1 .. k : piece[i] = ring[(head + i - 1) % Capacity]
  <2>1. k \in Int /\ k \in Nat
    BY Constants
  <2> QED BY <2>1, PieceTypes
<1>3. head \in Nat /\ tail \in Nat /\ tx.left \in Nat /\ sqes \in Nat /\ k \in Nat \ {0}
  BY Constants DEF RingTypes
<1>4. k \in 1 .. tx.left
  <2>1. Chunk \in Int /\ Chunk <= tx.left
    BY <1>3, ChunkBounds
  <2> QED BY <1>1, <1>3, <2>1
<1>5. tx'.at = "reap" /\ tx'.msg = tx.msg /\ tx'.left = tx.left
  BY <1>1 DEF RingTypes
<1>6. c \in [n : Nat, res : Int] /\ c.n = sqes + 1 /\ c.res = k /\ c.n # 0
  BY <1>3
<1> HIDE DEF c, piece
<1>7. /\ Len(cq') = Len(cq) + 1 /\ cq'[Len(cq) + 1] = c
      /\ \A i \in 1 .. Len(cq) : cq'[i] = cq[i]
      /\ \A i \in 1 .. Len(cq') : i \in 1 .. Len(cq) \/ i = Len(cq) + 1
      /\ Len(cq) + 1 \in 1 .. Len(cq')
  BY <1>1, <1>6, Appended
<1>8. Sending /\ Sending' /\ Owed = tx.left /\ Owed' = tx.left /\ Used' = Used
  BY <1>1, <1>5 DEF Sending, Owed, Used
<1>9. Out(k)'
  BY <1>5, <1>6, <1>7 DEF Out, Own
<1>10. ASSUME ~stale PROVE CompletionsOK'
  <2>1. \A i \in 1 .. Len(cq) : cq[i].n = 0
    BY <1>1, <1>10, NoneOwn DEF SendOK, Regular
  <2>2. \A i \in 1 .. Len(cq') : Own(i)' => i = Len(cq) + 1
    BY <1>7, <2>1 DEF Own
  <2>3. \E i \in 1 .. Len(cq') : Own(i)'
    BY <1>6, <1>7 DEF Own
  <2>4. \A i \in 1 .. Len(cq') : Own(i)' => cq'[i].n = sqes' /\ cq'[i].res \in 1 .. tx'.left
    BY <1>1, <1>4, <1>5, <1>6, <1>7, <2>2
  <2>5. sqes' > 0
    BY <1>1, <1>3
  <2>6. \A i, j \in 1 .. Len(cq') : Own(i)' /\ Own(j)' => i = j
    BY <2>2
  <2> QED BY <1>5, <1>7, <2>3, <2>4, <2>5, <2>6 DEF CompletionsOK
<1>11. SendOK'
  BY <1>1, <1>5, <1>8, <1>10 DEF SendOK, Regular
<1>12. ASSUME ~Slipped, ~torn, conn = "up" PROVE Encodes(toEx', sent, Len(taken), tx.left - k)
  <2>1. /\ sent \in Seq(Messages) /\ Len(sent) \in Nat /\ Len(taken) \in Nat /\ toEx \in Seq(WireBytes)
    BY OwedTypes
  <2>2. PICK x \in 0 .. Owed : Out(x) /\ Encodes(toEx, sent, Len(taken), Owed - x)
    BY <1>12 DEF StreamOK
  <2>3. x = 0
    BY <1>1, <2>2 DEF Out
  <2>4. Owed - x = tx.left
    BY <1>3, <1>8, <2>3
  <2>5. Encodes(toEx, sent, Len(taken), tx.left)
    BY <2>2, <2>4, Zenon
  <2>6. Len(taken) \in 0 .. Len(sent) /\ tx.left \in Nat \ {0}
    BY <1>3, <1>8, <1>12, <2>1 DEF StreamOK, SendOK
  <2>7. Len(taken) < Len(sent)
    BY <2>1, <2>5, <2>6, EncodesOwed
  <2>8. /\ sent[Len(sent)] = tx.msg /\ tx.left <= Size(tx.msg)
        /\ \A i \in 1 .. tx.left : ring[(head + i - 1) % Capacity] =
                                     Byte(tx.msg, Size(tx.msg) - tx.left + i)
    BY <1>8, <1>12 DEF StreamOK, SentLast, RingOK, LeftInRing
  <2>9. Len(piece) = k /\ \A i \in 1 .. k : piece[i] = ring[(head + i - 1) % Capacity]
    BY <1>2
  <2>10. \A i \in 1 .. k : i \in 1 .. tx.left
    BY <1>3, <1>4
  <2>11. \A i \in 1 .. Len(piece) : piece[i] = Byte(sent[Len(sent)], Size(sent[Len(sent)]) - tx.left + i)
    BY <2>8, <2>9, <2>10, Zenon
  <2>12. Len(piece) <= tx.left /\ tx.left <= Size(sent[Len(sent)])
    BY <1>3, <1>4, <2>8, <2>9
  <2>13. Encodes(toEx \o piece, sent, Len(taken), tx.left - Len(piece))
    BY <1>2, <1>3, <2>1, <2>5, <2>6, <2>7, <2>11, <2>12, EncodesMore
  <2> QED BY <1>1, <1>12, <2>9, <2>13
<1>13. RingOK'
  BY <1>1, <1>5, <1>8 DEF RingOK, LeftInRing, Slipped
<1>14. k \in 0 .. Owed'
  BY <1>4, <1>8
<1>15. StreamOK'
  <2>1. SUFFICES ASSUME ~Slipped', ~torn' PROVE StreamOK'
    BY DEF StreamOK
  <2>2. ~Slipped /\ ~torn
    BY <1>1, <2>1 DEF Slipped
  <2>3. /\ Len(taken) <= Len(sent) /\ \A i \in 1 .. Len(taken) : taken[i] = sent[i]
        /\ conn # "garbled" /\ SentLast
    BY <2>2 DEF StreamOK
  <2>4. SentLast'
    BY <1>1, <1>5, <1>8, <2>3 DEF SentLast
  <2>5. conn = "up" => Encodes(toEx', sent, Len(taken), Owed' - k)
    BY <1>8, <1>12, <2>2
  <2> QED BY <1>1, <1>9, <1>14, <2>3, <2>4, <2>5 DEF StreamOK
<1> QED BY <1>11, <1>13, <1>15

(* So does one that fails.                                                 *)
LEMMA SubmitErrorSends ==
  ASSUME RingTypes, WireTypes, SendOK, RingOK, StreamOK, ~kept, SubmitError
  PROVE  SendOK' /\ RingOK' /\ StreamOK'
<1> DEFINE c == [n |-> sqes + 1, res |-> -1]
<1>1. /\ tx.at = "submit" /\ sqes' = sqes + 1 /\ faults' = (IF conn = "up" THEN faults + 1 ELSE faults)
      /\ cq' = Append(cq, c) /\ tx' = [tx EXCEPT !.at = "reap"]
      /\ toEx' = toEx
      /\ UNCHANGED <<ring, head, tail, gapped, stale, taken, mtx, conn, sent, kept, torn>>
  BY SubmitErrorTypes DEF SubmitError, ringVars, exchangeVars
<1>2. sqes \in Nat /\ faults \in Nat
  BY DEF RingTypes
<1>a. Failing'
  BY <1>1, <1>2 DEF Failing
<1>3. tx'.at = "reap" /\ tx'.msg = tx.msg /\ tx'.left = tx.left
  BY <1>1 DEF RingTypes
<1>4. c \in [n : Nat, res : Int] /\ c.n = sqes + 1 /\ c.res = -1 /\ c.n # 0
  BY <1>2
<1> HIDE DEF c
<1>5. /\ Len(cq') = Len(cq) + 1 /\ cq'[Len(cq) + 1] = c
      /\ \A i \in 1 .. Len(cq) : cq'[i] = cq[i]
      /\ \A i \in 1 .. Len(cq') : i \in 1 .. Len(cq) \/ i = Len(cq) + 1
      /\ Len(cq) + 1 \in 1 .. Len(cq')
  BY <1>1, <1>4, Appended
<1>6. Sending /\ Sending' /\ Owed = tx.left /\ Owed' = tx.left /\ Used' = Used
  BY <1>1, <1>3 DEF Sending, Owed, Used
<1>7. ASSUME ~stale PROVE CompletionsOK'
  <2>1. \A i \in 1 .. Len(cq) : cq[i].n = 0
    BY <1>1, <1>7, NoneOwn DEF SendOK, Regular
  <2>2. \A i \in 1 .. Len(cq') : Own(i)' => i = Len(cq) + 1
    BY <1>5, <2>1 DEF Own
  <2>3. \E i \in 1 .. Len(cq') : Own(i)'
    BY <1>4, <1>5 DEF Own
  <2>4. \A i \in 1 .. Len(cq') : Own(i)' => cq'[i].n = sqes' /\ cq'[i].res = -1 /\ Failing'
    BY <1>1, <1>a, <1>4, <1>5, <2>2
  <2>5. sqes' > 0
    BY <1>1, <1>2
  <2>6. \A i, j \in 1 .. Len(cq') : Own(i)' /\ Own(j)' => i = j
    BY <2>2
  <2> QED BY <1>3, <1>5, <2>3, <2>4, <2>5, <2>6 DEF CompletionsOK
<1>8. SendOK'
  BY <1>1, <1>3, <1>6, <1>7 DEF SendOK, Regular
<1>9. RingOK'
  BY <1>1, <1>3, <1>6 DEF RingOK, LeftInRing, Slipped
<1>10. Out(0) /\ Out(0)' /\ \A k : Out(k) => k = 0
  BY <1>1, <1>3, <1>4, <1>5 DEF Out, Own
<1>11. StreamOK'
  <2>1. SUFFICES ASSUME ~Slipped', ~torn' PROVE StreamOK'
    BY DEF StreamOK
  <2>2. ~Slipped /\ ~torn
    BY <1>1, <2>1 DEF Slipped
  <2>3. /\ Len(taken) <= Len(sent) /\ \A i \in 1 .. Len(taken) : taken[i] = sent[i]
        /\ conn # "garbled" /\ SentLast
    BY <2>2 DEF StreamOK
  <2>4. SentLast'
    BY <1>1, <1>3, <1>6, <2>3 DEF SentLast
  <2>5. conn = "up" => \E k \in 0 .. Owed : Out(k)' /\ Encodes(toEx, sent, Len(taken), Owed - k)
    BY <1>10, <2>2 DEF StreamOK
  <2>6. Owed' = Owed
    BY <1>6
  <2> QED BY <1>1, <2>3, <2>4, <2>5, <2>6 DEF StreamOK
<1> QED BY <1>8, <1>9, <1>11

(* So does a notification.                                                 *)
LEMMA NotifySends ==
  ASSUME RingTypes, WireTypes, SendOK, RingOK, StreamOK, Notify
  PROVE  SendOK' /\ RingOK' /\ StreamOK'
<1> DEFINE c == [n |-> 0, res |-> 0]
<1>1. cq' = Append(cq, c) /\ UNCHANGED <<ring, head, tail, gapped, sqes, stale, taken, mtx, tx, conn, sent, toEx, faults, kept, torn>>
  BY DEF Notify, ringVars, exchangeVars
<1>2. c \in [n : Nat, res : Int] /\ c.n = 0
  OBVIOUS
<1> HIDE DEF c
<1>3. /\ Len(cq') = Len(cq) + 1 /\ cq'[Len(cq) + 1] = c
      /\ \A i \in 1 .. Len(cq) : cq'[i] = cq[i]
      /\ \A i \in 1 .. Len(cq') : i \in 1 .. Len(cq) \/ i = Len(cq) + 1
      /\ \A i \in 1 .. Len(cq) : i \in 1 .. Len(cq')
  BY <1>1, <1>2, Appended
<1>4. \A i \in 1 .. Len(cq') : Own(i)' => i \in 1 .. Len(cq) /\ Own(i) /\ cq'[i] = cq[i]
  BY <1>2, <1>3 DEF Own
<1>5. \A i \in 1 .. Len(cq) : Own(i) => i \in 1 .. Len(cq') /\ Own(i)' /\ cq'[i] = cq[i]
  BY <1>3 DEF Own
<1>6. CompletionsOK => CompletionsOK'
  BY <1>1, <1>4, <1>5 DEF CompletionsOK, Failing
<1>7. \A k : Out(k) => Out(k)'
  BY <1>1, <1>5 DEF Out
<1>8. Used' = Used /\ (Sending' <=> Sending) /\ Owed' = Owed
  BY <1>1 DEF Used, Sending, Owed
<1>9. SendOK'
  BY <1>1, <1>6, <1>8 DEF SendOK, Regular, Failing
<1>10. RingOK'
  BY <1>1, <1>8 DEF RingOK, LeftInRing, Slipped
<1>11. StreamOK'
  BY <1>1, <1>7, <1>8 DEF StreamOK, SentLast, Slipped
<1> QED BY <1>9, <1>10, <1>11

(* So does the end of a send.                                              *)
LEMMA FinishSends ==
  ASSUME RingTypes, WireTypes, SendOK, RingOK, StreamOK, Finish
  PROVE  SendOK' /\ RingOK' /\ StreamOK'
<1>1. /\ tx.at \in {"ok", "failed"} /\ mtx' = NoCall /\ tx' = Idle
      /\ UNCHANGED <<ring, head, tail, gapped, cq, sqes, stale, taken, conn, sent, toEx, faults, kept, torn>>
  BY DEF Finish, ringVars, kernelVars, exchangeVars
<1>2. tx'.at = "idle"
  BY <1>1 DEF Idle
<1>3. ~Sending /\ ~Sending' /\ Owed = 0 /\ Owed' = 0 /\ Used' = Used /\ \A k : Out(k)' <=> Out(k)
  BY <1>1, <1>2 DEF Sending, Owed, Used, Out
<1>4. ASSUME Regular PROVE CompletionsOK'
  <2>1. \A i \in 1 .. Len(cq) : cq[i].n = 0
    BY <1>1, <1>4, NoneOwn DEF SendOK
  <2> QED BY <1>1, <1>2, <2>1 DEF CompletionsOK, Own
<1>5. SendOK'
  BY <1>1, <1>2, <1>3, <1>4 DEF SendOK, Regular
<1>6. RingOK'
  BY <1>1, <1>3 DEF RingOK, Slipped
<1>7. StreamOK'
  BY <1>1, <1>3 DEF StreamOK, SentLast, Slipped
<1> QED BY <1>5, <1>6, <1>7

(* A send that takes its own completion releases what that one covers; an  *)
(* error drops the rest of the message.                                    *)
LEMMA ReapOwn ==
  ASSUME RingTypes, WireTypes, SendOK, ~kept, Reap, ~stale'
  PROVE  LET c == cq[1]
         IN  /\ ~stale /\ tx.at = "reap" /\ 1 \in 1 .. Len(cq) /\ Own(1)
             /\ \A i \in 1 .. Len(cq) : Own(i) => i = 1
             /\ \A i \in 1 .. Len(cq') : cq'[i].n = 0
             /\ \/ /\ c.res \in 1 .. tx.left
                   /\ head' = (head + c.res) % SizeMod /\ Used' = Used - c.res
                   /\ tx'.left = tx.left - c.res /\ tx'.msg = tx.msg
                   /\ tx'.at = IF tx'.left = 0 THEN "ok" ELSE "submit"
                \/ /\ c.res = -1 /\ Failing /\ tx'.at = "failed"
                   /\ head' = (head + tx.left) % SizeMod /\ Used' = Used - tx.left
                   /\ tx'.msg = tx.msg
<1> DEFINE c == cq[1]
<1>1. /\ Head(cq) = cq[1] /\ cq[1] \in [n : Nat, res : Int] /\ Len(cq) \in Nat /\ Len(cq) > 0
      /\ Len(Tail(cq)) = Len(cq) - 1
      /\ \A i \in 1 .. Len(cq) - 1 : Tail(cq)[i] = cq[i + 1]
  BY ReapTypes
<1>2. /\ tx.at = "reap" /\ cq' = Tail(cq) /\ stale' = (stale \/ c.n # sqes)
      /\ head' = (head + (IF c.res > 0 THEN c.res ELSE tx.left)) % SizeMod
      /\ tx' = (IF c.res > 0
                THEN [tx EXCEPT !.at = IF (tx.left - c.res) % SizeMod = 0 THEN "ok" ELSE "submit",
                                !.left = (tx.left - c.res) % SizeMod]
                ELSE [tx EXCEPT !.at = "failed"])
      /\ tail' = tail
  BY <1>1, Zenon DEF Reap, ReapRecords, ReapUnchanged
<1>3. ~stale /\ c.n = sqes
  BY <1>2, Zenon
<1>4. /\ CompletionsOK /\ Used <= Capacity /\ head + Used <= tail /\ tx.left <= Used /\ tx.left > 0
  BY <1>2, <1>3 DEF SendOK, Sending, Regular
<1>5. sqes > 0 /\ sqes \in Nat
  BY <1>2, <1>4 DEF CompletionsOK, RingTypes
<1>6. 1 \in 1 .. Len(cq) /\ Own(1)
  BY <1>1, <1>3, <1>5 DEF Own
<1>7. \A i \in 1 .. Len(cq) : Own(i) => i = 1
  BY <1>4, <1>6 DEF CompletionsOK
<1>8. \A i \in 1 .. Len(cq') : cq'[i].n = 0
  <2>1. \A i \in 1 .. Len(cq') : i \in 1 .. Len(cq) - 1 /\ i + 1 \in 1 .. Len(cq) /\ i + 1 # 1 /\ cq'[i] = cq[i + 1]
    BY <1>1, <1>2
  <2> QED BY <1>7, <2>1 DEF Own
<1>9. c.res \in 1 .. tx.left \/ (c.res = -1 /\ Failing)
  BY <1>4, <1>6 DEF CompletionsOK
<1>10. /\ head \in Nat /\ tail \in Nat /\ tx.left \in Nat /\ Used \in Nat /\ Capacity \in Nat
       /\ SizeMod \in Nat /\ Capacity < SizeMod /\ Used = Gap(head, tail)
  BY Constants, OwedTypes DEF RingTypes, Used, Gap
<1>11. ASSUME NEW k \in 0 .. Used, head' = (head + k) % SizeMod PROVE Used' = Used - k
  <2>1. Gap((head + k) % SizeMod, tail) = Used - k
    <3>1. head \in Nat /\ tail \in Nat /\ Used = Gap(head, tail)
      BY <1>10
    <3>2. \A x \in 0 .. Gap(head, tail) : Gap((head + x) % SizeMod, tail) = Gap(head, tail) - x
      BY <3>1, GapMoves, Zenon
    <3> QED BY <3>1, <3>2, Zenon
  <2>2. Used' = Gap(head', tail')
    BY DEF Used, Gap
  <2> QED BY <1>2, <1>11, <2>1, <2>2, Zenon
<1>12. CASE c.res \in 1 .. tx.left
  <2>1. PICK r \in Nat : r = c.res /\ r > 0 /\ r <= tx.left
    BY <1>10, <1>12
  <2>2. PICK left \in Nat : left = tx.left - r /\ left < SizeMod
    BY <1>4, <1>10, <2>1
  <2>3. (tx.left - r) % SizeMod = left
    <3>1. left % SizeMod = left
      BY <1>10, <2>2
    <3> QED BY <2>2, <3>1, Zenon
  <2>4. c.res > 0
    BY <2>1
  <2>5. head' = (head + r) % SizeMod
    BY <1>2, <2>1, <2>4, Zenon
  <2>6. tx' = [tx EXCEPT !.at = IF left = 0 THEN "ok" ELSE "submit", !.left = left]
    BY <1>2, <2>1, <2>3, <2>4, Zenon
  <2>7. tx'.left = left /\ tx'.msg = tx.msg /\ tx'.at = IF left = 0 THEN "ok" ELSE "submit"
    BY <2>6 DEF RingTypes
  <2>8. Used' = Used - r
    <3>1. r \in 0 .. Used
      BY <1>4, <1>10, <2>1
    <3> QED BY <1>11, <2>5, <3>1
  <2> QED BY <1>2, <1>3, <1>6, <1>7, <1>8, <1>12, <2>1, <2>2, <2>5, <2>7, <2>8, Zenon
<1>13. CASE c.res = -1 /\ Failing
  <2>1. ~(c.res > 0)
    BY <1>13
  <2>2. head' = (head + tx.left) % SizeMod /\ tx' = [tx EXCEPT !.at = "failed"]
    BY <1>2, <2>1, Zenon
  <2>3. tx'.at = "failed" /\ tx'.msg = tx.msg
    BY <2>2 DEF RingTypes
  <2>4. tx.left \in 0 .. Used
    BY <1>4, <1>10
  <2>5. Used' = Used - tx.left
    BY <1>11, <2>2, <2>4
  <2> QED BY <1>2, <1>3, <1>6, <1>7, <1>8, <1>13, <2>2, <2>3, <2>5, Zenon
<1> QED BY <1>9, <1>12, <1>13

(* So does a completion that is the send's own.                            *)
LEMMA ReapSends ==
  ASSUME RingTypes, WireTypes, SendOK, RingOK, StreamOK, ~kept, Reap
  PROVE  SendOK' /\ RingOK' /\ StreamOK'
<1> DEFINE c == cq[1]
<1>1. UNCHANGED <<ring, tail, gapped, sqes, taken, mtx, toEx, conn, faults, kept>> /\ tx.at = "reap"
  BY DEF Reap, ReapUnchanged, exchangeVars
<1>2. tx'.at \in {"ok", "submit", "failed"} /\ tx'.msg = tx.msg /\ (tx'.at = "submit" => tx'.left # 0)
  BY DEF Reap, RingTypes
<1>3. RingTypes'
  BY ReapTypes
<1>4. tx'.left \in Nat
  BY <1>3 DEF RingTypes
<1>5. (Sending' => tx'.msg \in Requests /\ tx'.left > 0) /\ ((mtx' = NoCall) <=> (tx'.at = "idle"))
  BY <1>1, <1>2, <1>4 DEF SendOK, Sending
<1>6. /\ head \in Nat /\ tail \in Nat /\ tx.left \in Nat /\ Used \in Nat /\ Capacity \in Nat
  BY Constants, OwedTypes DEF RingTypes
<1>7. ASSUME ~stale'
      PROVE  LET d == IF c.res > 0 THEN c.res ELSE tx.left
             IN  /\ ~stale /\ 1 \in 1 .. Len(cq) /\ Own(1) /\ \A i \in 1 .. Len(cq) : Own(i) => i = 1
                 /\ \A i \in 1 .. Len(cq') : cq'[i].n = 0
                 /\ d \in 1 .. tx.left /\ head' = (head + d) % SizeMod /\ Used' = Used - d
                 /\ tx'.at = "failed" => Failing
                 /\ Owed' = tx.left - d
                 /\ tx'.at # "failed" => d = c.res /\ tx'.left = tx.left - d
                 /\ tx'.at = "failed" => c.res = -1 /\ d = tx.left
                 /\ tx'.at # "failed" => c.res > 0
                 /\ Used <= Capacity /\ head + Used <= tail /\ tx.left <= Used
  <2>1. /\ ~stale /\ 1 \in 1 .. Len(cq) /\ Own(1) /\ \A i \in 1 .. Len(cq) : Own(i) => i = 1
        /\ \A i \in 1 .. Len(cq') : cq'[i].n = 0
    BY <1>7, ReapOwn
  <2>2. Used <= Capacity /\ head + Used <= tail /\ tx.left <= Used /\ tx.left > 0
    BY <1>1, <2>1 DEF SendOK, Sending, Regular
  <2>3. CASE /\ c.res \in 1 .. tx.left
             /\ head' = (head + c.res) % SizeMod /\ Used' = Used - c.res
             /\ tx'.left = tx.left - c.res /\ tx'.msg = tx.msg
             /\ tx'.at = IF tx'.left = 0 THEN "ok" ELSE "submit"
    <3>1. c.res > 0 /\ c.res \in 1 .. tx.left /\ head' = (head + c.res) % SizeMod /\ Used' = Used - c.res
      BY <1>6, <2>3
    <3>2. tx'.at # "failed" /\ tx'.left = tx.left - c.res
      BY <2>3
    <3>3. Owed' = tx'.left
      BY <2>3 DEF Owed, Sending
    <3> QED BY <2>1, <2>2, <3>1, <3>2, <3>3, Zenon
  <2>4. CASE /\ c.res = -1 /\ Failing /\ tx'.at = "failed"
             /\ head' = (head + tx.left) % SizeMod /\ Used' = Used - tx.left
             /\ tx'.msg = tx.msg
    <3>1. ~(c.res > 0) /\ tx.left \in 1 .. tx.left /\ tx.left - tx.left = 0
      BY <1>6, <2>2, <2>4
    <3>2. Owed' = 0
      BY <2>4 DEF Owed, Sending
    <3> QED BY <2>1, <2>2, <2>4, <3>1, <3>2, Zenon
  <2> QED BY <1>7, <2>3, <2>4, ReapOwn
<1> DEFINE d == IF c.res > 0 THEN c.res ELSE tx.left
<1>8. ASSUME ~stale'
      PROVE  /\ ~stale /\ 1 \in 1 .. Len(cq) /\ Own(1) /\ \A i \in 1 .. Len(cq) : Own(i) => i = 1
             /\ \A i \in 1 .. Len(cq') : cq'[i].n = 0
             /\ d \in 1 .. tx.left /\ head' = (head + d) % SizeMod /\ Used' = Used - d
             /\ tx'.at = "failed" => Failing
             /\ Owed' = tx.left - d
             /\ tx'.at # "failed" => d = c.res /\ tx'.left = tx.left - d
             /\ tx'.at = "failed" => c.res = -1 /\ d = tx.left
             /\ tx'.at # "failed" => c.res > 0
             /\ Used <= Capacity /\ head + Used <= tail /\ tx.left <= Used
  BY <1>7, <1>8, Zenon
<1> HIDE DEF d
<1>9. ASSUME ~stale'
      PROVE  /\ CompletionsOK' /\ Used' <= Capacity /\ head' + Used' <= tail'
             /\ Sending' => tx'.left <= Used'
  <2>1. CompletionsOK'
    BY <1>2, <1>8, <1>9 DEF CompletionsOK, Own
  <2>2. PICK k \in Nat : k = d /\ k \in 1 .. tx.left /\ Used' = Used - k /\ k <= Used
    BY <1>6, <1>8, <1>9
  <2>3. head' \in Nat /\ head' <= head + k
    <3>1. head + k \in Nat /\ 0 \in Int
      BY <1>6
    <3>2. (head + k) % SizeMod \in Nat /\ (head + k) % SizeMod <= head + k
      BY <3>1, HeadMoves
    <3>3. head' = (head + k) % SizeMod
      BY <1>8, <1>9, <2>2, Zenon
    <3> QED BY <3>2, <3>3, Zenon
  <2>4. Used <= Capacity /\ head + Used <= tail /\ tx.left <= Used
    BY <1>8, <1>9
  <2>5. Used' <= Capacity /\ head' + Used' <= tail'
    <3>1. PICK g \in Nat, v \in Int, u \in Nat :
            g = head' /\ v = Used' /\ u = Used /\ g <= head + k /\ v = u - k
      BY <1>6, <2>2, <2>3
    <3>2. u <= Capacity /\ head + u <= tail
      BY <2>4, <3>1
    <3>3. v <= Capacity /\ g + v <= tail
      <4>1. g <= head + k /\ v = u - k /\ head \in Nat /\ tail \in Nat /\ Capacity \in Nat
        BY <1>6, <3>1
      <4>2. \A h, t, C \in Nat : g <= h + k /\ v = u - k /\ u <= C /\ h + u <= t => v <= C /\ g + v <= t
        OBVIOUS
      <4> QED BY <3>2, <4>1, <4>2
    <3> QED BY <1>1, <3>1, <3>3, Zenon
  <2>6. Sending' => tx'.left = tx.left - k
    BY <1>8, <1>9, <2>2 DEF Sending
  <2>7. Sending' => tx'.left <= Used'
    BY <1>6, <2>2, <2>4, <2>6
  <2> QED BY <2>1, <2>5, <2>7
<1>10. SendOK'
  BY <1>1, <1>5, <1>8, <1>9 DEF SendOK, Regular, Failing
<1>11. ASSUME ~Slipped'
       PROVE  /\ ~Slipped /\ Used = tx.left /\ Used' = Owed' /\ Used' = Used - d
              /\ Sending' =>
                   /\ tx'.left <= Size(tx.msg)
                   /\ \A i \in 1 .. tx'.left : ring[(head' + i - 1) % Capacity] =
                                                Byte(tx.msg, Size(tx.msg) - tx'.left + i)
  <2>0. ~stale' /\ ~gapped
    BY <1>1, <1>11 DEF Slipped
  <2>a. ~Slipped
    BY <1>8, <2>0 DEF Slipped
  <2>1. Sending /\ Owed = tx.left
    BY <1>1 DEF Sending, Owed
  <2>2. /\ Used = tx.left /\ tx.left <= Size(tx.msg)
        /\ \A i \in 1 .. tx.left : ring[(head + i - 1) % Capacity] =
                                     Byte(tx.msg, Size(tx.msg) - tx.left + i)
    BY <2>a, <2>1 DEF RingOK, LeftInRing
  <2>3. PICK k \in Nat : k = d /\ k \in 1 .. tx.left /\ Used' = Used - k /\ Owed' = tx.left - k
                         /\ head' = (head + k) % SizeMod
    BY <1>6, <1>8, <2>0
  <2>4. Used' = Owed'
    BY <2>2, <2>3
  <2>5. ASSUME Sending'
        PROVE  /\ tx'.left <= Size(tx.msg)
               /\ \A i \in 1 .. tx'.left : ring[(head' + i - 1) % Capacity] =
                                            Byte(tx.msg, Size(tx.msg) - tx'.left + i)
    <3>1. PICK left \in Nat, z \in Nat : left = tx'.left /\ left = tx.left - k /\ z = Size(tx.msg)
                                         /\ tx.left <= z
      <4>1. tx.msg \in Messages
        BY <2>1 DEF SendOK, Messages
      <4>2. Size(tx.msg) \in Nat
        BY <4>1, Sizes
      <4>3. tx'.left = tx.left - k
        BY <1>8, <2>0, <2>3, <2>5 DEF Sending
      <4> QED BY <1>4, <2>2, <4>2, <4>3
    <3>2. left <= z
      BY <1>6, <2>3, <3>1
    <3>3. ASSUME NEW i \in 1 .. left PROVE ring[(head' + i - 1) % Capacity] = Byte(tx.msg, z - left + i)
      <4>1. k + i \in 1 .. tx.left /\ z - tx.left + (k + i) = z - left + i
        BY <1>6, <2>3, <3>1
      <4>2. ring[(head + (k + i) - 1) % Capacity] = Byte(tx.msg, z - tx.left + (k + i))
        BY <2>2, <3>1, <4>1, Zenon
      <4>3. head + k \in Nat /\ i - 1 \in Int
        BY <1>6
      <4>4. (((head + k) % SizeMod) + (i - 1)) % Capacity = (head + k + (i - 1)) % Capacity
              /\ (head + k) % SizeMod \in Nat
        BY <4>3, HeadMoves
      <4>5. PICK h \in Nat : h = (head + k) % SizeMod /\ h = head'
        BY <2>3, <4>4, Zenon
      <4>6. h + (i - 1) = h + i - 1 /\ head + k + (i - 1) = head + (k + i) - 1
        BY <1>6
      <4>7. (h + i - 1) % Capacity = (head + (k + i) - 1) % Capacity
        BY <4>4, <4>5, <4>6, Zenon
      <4> QED BY <4>1, <4>2, <4>5, <4>7, Zenon
    <3> QED BY <3>1, <3>2, <3>3, Zenon
  <2> QED BY <2>a, <2>2, <2>3, <2>4, <2>5
<1>12. RingOK'
  BY <1>1, <1>2, <1>11 DEF RingOK, LeftInRing
<1>13. Owed' \in Nat /\ 0 \in 0 .. Owed' /\ Out(0)'
  <2>1. Owed' \in Nat
    BY <1>4 DEF Owed
  <2> QED BY <1>2, <2>1 DEF Out
<1>14. /\ torn' = (torn \/ (c.res <= 0 /\ conn = "up" /\ tx.left # Size(tx.msg)))
       /\ sent' = IF c.res <= 0 /\ conn = "up" /\ tx.left = Size(tx.msg) THEN Front(sent) ELSE sent
  BY ReapTypes
<1>15. ASSUME ~Slipped', ~torn'
       PROVE  /\ Len(taken) <= Len(sent') /\ \A k \in 1 .. Len(taken) : taken[k] = sent'[k]
              /\ conn # "garbled"
              /\ Sending' => Len(sent') > 0 /\ sent'[Len(sent')] = tx.msg
              /\ conn = "up" => Encodes(toEx, sent', Len(taken), Owed' - 0)
  <2>0. ~stale' /\ ~gapped /\ ~torn /\ ~Slipped
    BY <1>1, <1>11, <1>14, <1>15, Zenon DEF Slipped
  <2>1. Sending /\ Owed = tx.left
    BY <1>1 DEF Sending, Owed
  <2>2. /\ Len(taken) <= Len(sent) /\ \A k \in 1 .. Len(taken) : taken[k] = sent[k]
        /\ conn # "garbled"
        /\ Len(sent) > 0 /\ sent[Len(sent)] = tx.msg
        /\ conn = "up" => \E k \in 0 .. Owed : Out(k) /\ Encodes(toEx, sent, Len(taken), Owed - k)
    BY <2>0, <2>1 DEF StreamOK, SentLast
  <2>3. PICK k \in Nat : k = d /\ k \in 1 .. tx.left /\ Owed' = tx.left - k
    BY <1>6, <1>8, <2>0
  <2>t. /\ sent \in Seq(Messages) /\ Len(sent) \in Nat /\ Len(taken) \in Nat /\ toEx \in Seq(WireBytes)
    BY OwedTypes
  <2>4. CASE tx'.at # "failed"
    <3>1. c.res > 0 /\ d = c.res
      BY <1>8, <2>0, <2>4
    <3>2. sent' = sent
      <4>1. c.res \in Int
        BY ReapTypes
      <4>2. ~(c.res <= 0)
        BY <3>1, <4>1
      <4> QED BY <1>14, <4>2, Zenon
    <3>3. ASSUME conn = "up" PROVE Encodes(toEx, sent, Len(taken), Owed' - 0)
      <4>1. PICK x \in 0 .. Owed : Out(x) /\ Encodes(toEx, sent, Len(taken), Owed - x)
        BY <2>2, <3>3
      <4>2. x = k
        <5>1. cq[1].res = x \/ (cq[1].res = -1 /\ x = 0)
          BY <1>1, <1>8, <2>0, <4>1 DEF Out
        <5>2. cq[1].res = k /\ k > 0
          BY <2>3, <3>1
        <5> QED BY <5>1, <5>2
      <4>3. Owed - x = Owed' - 0
        BY <1>6, <2>1, <2>3, <4>2
      <4> QED BY <4>1, <4>3, Zenon
    <3> QED BY <2>2, <3>2, <3>3
  <2>5. CASE tx'.at = "failed"
    <3>1. c.res = -1 /\ d = tx.left /\ ~Sending'
      BY <1>8, <2>0, <2>5 DEF Sending
    <3>2. Owed' - 0 = 0
      BY <1>6, <2>3, <3>1
    <3>3. CASE conn # "up"
      <4>1. sent' = sent
        BY <1>14, <3>3, Zenon
      <4> QED BY <2>2, <3>1, <3>3, <4>1
    <3>4. CASE conn = "up"
      <4>1. tx.left = Size(tx.msg) /\ sent' = Front(sent)
        <5>1. c.res <= 0
          BY <3>1
        <5> QED BY <1>14, <1>15, <3>4, <5>1, Zenon
      <4>2. PICK x \in 0 .. Owed : Out(x) /\ Encodes(toEx, sent, Len(taken), Owed - x)
        BY <2>2, <3>4
      <4>3. x = 0
        <5>1. cq[1].res = x \/ x = 0
          BY <1>1, <1>8, <2>0, <4>2 DEF Out
        <5> QED BY <3>1, <5>1
      <4>4. Owed - x = Size(sent[Len(sent)]) /\ Size(sent[Len(sent)]) \in Nat \ {0}
        BY <1>6, <2>1, <2>2, <2>3, <4>1, <4>3
      <4>5. Encodes(toEx, sent, Len(taken), Size(sent[Len(sent)])) /\ Len(taken) \in 0 .. Len(sent)
        BY <2>2, <2>t, <4>2, <4>4
      <4>6. Len(taken) < Len(sent)
        BY <2>t, <4>4, <4>5, EncodesOwed
      <4>7. Encodes(toEx, Front(sent), Len(taken), 0)
        BY <2>t, <4>5, <4>6, EncodesDropped
      <4>8. Len(Front(sent)) = Len(sent) - 1 /\ \A i \in 1 .. Len(sent) - 1 : Front(sent)[i] = sent[i]
        BY <2>t, <2>2, FrontIs
      <4>9. \A i \in 1 .. Len(taken) : i \in 1 .. Len(sent) - 1
        BY <2>t, <4>6
      <4>10. Len(taken) <= Len(Front(sent)) /\ \A i \in 1 .. Len(taken) : taken[i] = Front(sent)[i]
        BY <2>2, <2>t, <4>6, <4>8, <4>9
      <4> QED BY <2>2, <3>1, <3>2, <4>1, <4>7, <4>10
    <3> QED BY <3>3, <3>4
  <2> QED BY <2>4, <2>5
<1>16. StreamOK'
  BY <1>1, <1>2, <1>13, <1>15 DEF StreamOK, SentLast
<1> QED BY <1>10, <1>12, <1>16

(* Once bytes were left behind, little is known: who sends, and what.      *)
LEMMA KeptGrows ==
  ASSUME SendStep
  PROVE  (kept => kept') /\ (LeavesBytes => kept')
<1>1. LeavesBytes => kept'
  BY DEF LeavesBytes, NoSqe, SubmitFails, WaitFails, LeaveBytes
<1>2. ASSUME NEW t \in Calls, NEW m \in Requests, Begin(t, m) \/ Spin(t, m) PROVE kept' = kept
  BY <1>2 DEF Begin, Spin, kernelVars
<1>3. ASSUME NEW k \in 1 .. Capacity, Submit(k) PROVE kept' = kept
  BY <1>3 DEF Submit
<1>4. Finish \/ SubmitError \/ Reap \/ Notify => kept' = kept
  BY DEF Finish, SubmitError, Reap, ReapUnchanged, Notify, kernelVars
<1> QED BY <1>1, <1>2, <1>3, <1>4 DEF SendStep, SendZcAll, LeavesBytes

LEMMA KeptSends ==
  ASSUME RingTypes, WireTypes, SendOK, SendStep, kept'
  PROVE  SendOK' /\ RingOK' /\ StreamOK'
<1>1. /\ (mtx = NoCall) <=> (tx.at = "idle")
      /\ Sending => tx.msg \in Requests /\ tx.left > 0
  BY DEF SendOK
<1>2. ASSUME NEW t \in Calls, NEW m \in Requests, Begin(t, m) \/ Spin(t, m)
      PROVE  tx'.at \in {"submit", "spin"} /\ tx'.msg \in Requests /\ tx'.left > 0 /\ mtx' # NoCall
  <2>1. Size(m) > 0 /\ t # NoCall
    BY Sizes DEF Messages, Calls, NoCall
  <2> QED BY <1>2, <2>1 DEF Begin, Spin, Size
<1>4. ASSUME (\E k \in 1 .. Capacity : Submit(k)) \/ SubmitError
      PROVE  Sending /\ tx'.at = "reap" /\ tx'.msg = tx.msg /\ tx'.left = tx.left /\ mtx' = mtx
  BY <1>4 DEF Submit, SubmitError, RingTypes, Sending
<1>5. ASSUME LeavesBytes PROVE tx.at # "idle" /\ tx'.at = "failed" /\ mtx' = mtx
  BY <1>5, LeavesTypes DEF RingTypes
<1>6. ASSUME Reap
      PROVE  /\ Sending /\ tx'.at \in {"ok", "submit", "failed"} /\ tx'.msg = tx.msg /\ mtx' = mtx
             /\ tx'.at = "submit" => tx'.left > 0
  <2>1. /\ tx.at = "reap" /\ tx'.at \in {"ok", "submit", "failed"} /\ tx'.msg = tx.msg /\ mtx' = mtx
        /\ tx'.at = "submit" => tx'.left # 0
    BY <1>6 DEF Reap, ReapUnchanged, RingTypes
  <2>2. tx'.left \in Nat
    BY <1>6, ReapTypes DEF RingTypes
  <2> QED BY <2>1, <2>2 DEF Sending
<1>8. /\ (mtx' = NoCall) <=> (tx'.at = "idle")
      /\ Sending' => tx'.msg \in Requests /\ tx'.left > 0
  <2>1. CASE \E t \in Calls : \E m \in Requests : Begin(t, m) \/ Spin(t, m)
    BY <1>2, <2>1 DEF Sending
  <2>2. CASE Finish
    BY <2>2 DEF Finish, Idle, Sending
  <2>3. CASE (\E k \in 1 .. Capacity : Submit(k)) \/ SubmitError
    BY <1>1, <1>4, <2>3 DEF Sending
  <2>4. CASE LeavesBytes
    BY <1>1, <1>5, <2>4 DEF Sending
  <2>5. CASE Reap
    BY <1>1, <1>6, <2>5 DEF Sending
  <2>6. CASE Notify
    BY <1>1, <2>6 DEF Notify, Sending
  <2> QED BY <2>1, <2>2, <2>3, <2>4, <2>5, <2>6 DEF SendStep, SendZcAll, LeavesBytes
<1>9. SendOK'
  BY <1>8 DEF SendOK, Regular
<1>10. RingOK' /\ StreamOK'
  BY DEF RingOK, StreamOK, Slipped
<1> QED BY <1>9, <1>10

(* Every step of the sender keeps the exchange in step.                    *)
LEMMA SendSends ==
  ASSUME RingTypes, WireTypes, SendOK, RingOK, StreamOK, SendStep
  PROVE  SendOK' /\ RingOK' /\ StreamOK'
<1>1. CASE kept'
  BY <1>1, KeptSends
<1>2. CASE ~kept'
  <2>1. ~kept /\ ~LeavesBytes
    BY <1>2, KeptGrows
  <2> QED BY <2>1, BeginSends, SpinSends, FinishSends, SubmitSends, SubmitErrorSends, ReapSends, NotifySends
          DEF SendStep, SendZcAll, LeavesBytes
<1> QED BY <1>1, <1>2

-----------------------------------------------------------------------------
(* What a call does to the connection.                                     *)
LEMMA RequestTypes ==
  ASSUME CallTypes, NEW t \in Calls
  PROVE  Query(t) \in Requests /\ Order(t) \in Requests
BY DEF CallTypes, Query, Order, Requests

(* What the steps of a call do to the connection and to the types.         *)
LEMMA CallerSteps ==
  ASSUME CallTypes, NEW t \in Calls, Call(t) \/ Caller(t)
  PROVE  CallTypes' /\ (SendStep \/ UNCHANGED connVars)
<1>1. ASSUME NEW l \in Places, Goto(t, l) PROVE pc' \in [Calls -> Places]
  BY <1>1 DEF Goto, CallTypes
<1>2. {"new", "lock", "query", "sendQ", "wait", "order", "sendO", "done"} \subseteq Places
  BY DEF Places
<1>3. ASSUME pc' \in [Calls -> Places], UNCHANGED <<want, rejected, unanswered>>,
             holder' \in Calls \cup {NoCall}, waiting' \in BOOLEAN
      PROVE  CallTypes'
  BY <1>3 DEF CallTypes
<1>4. t \in Calls \cup {NoCall} /\ NoCall \in Calls \cup {NoCall} /\ waiting \in BOOLEAN
      /\ holder \in Calls \cup {NoCall} /\ TRUE \in BOOLEAN /\ FALSE \in BOOLEAN
  BY DEF CallTypes
<1>5. CASE Call(t)
  <2>1. Goto(t, "lock") /\ UNCHANGED <<connVars, want, holder, waiting, rejected, unanswered>>
    BY <1>5 DEF Call
  <2>2. pc' \in [Calls -> Places]
    BY <1>1, <1>2, <2>1
  <2> QED BY <1>3, <1>4, <2>1, <2>2
<1>6. CASE Lock(t)
  <2>1. /\ Goto(t, "query") /\ holder' = t /\ waiting' = TRUE
        /\ UNCHANGED <<connVars, want, rejected, unanswered>>
    BY <1>6 DEF Lock
  <2>2. pc' \in [Calls -> Places]
    BY <1>1, <1>2, <2>1
  <2> QED BY <1>3, <1>4, <2>1, <2>2
<1>7. CASE Send(t)
  <2>1. /\ Goto(t, "sendQ") \/ Goto(t, "sendO")
        /\ \/ Begin(t, Query(t)) \/ Spin(t, Query(t))
           \/ Begin(t, Order(t)) \/ Spin(t, Order(t))
        /\ UNCHANGED <<want, holder, waiting, rejected, unanswered>>
    BY <1>7, Zenon DEF Send, Query, Order
  <2>2. pc' \in [Calls -> Places]
    BY <1>1, <1>2, <2>1
  <2>3. SendStep
    BY <2>1, RequestTypes, Zenon DEF SendStep
  <2> QED BY <1>3, <1>4, <2>1, <2>2, <2>3
<1>8. ASSUME Returned(t), tx.at \in {"ok", "failed"} PROVE Finish /\ want' = want /\ unanswered' = unanswered
  BY <1>8 DEF Returned, Finish
<1>9. CASE QuerySent(t)
  <2>1. /\ Returned(t) /\ UNCHANGED rejected /\ tx.at \in {"ok", "failed"}
        /\ \/ Goto(t, "wait") /\ UNCHANGED <<holder, waiting>>
           \/ waiting' = FALSE /\ holder' = NoCall /\ Goto(t, "done")
    BY <1>9 DEF QuerySent, Fail
  <2>2. pc' \in [Calls -> Places]
    BY <1>1, <1>2, <2>1
  <2>3. Finish /\ want' = want /\ unanswered' = unanswered
    BY <1>8, <2>1
  <2> QED BY <1>3, <1>4, <2>1, <2>2, <2>3 DEF SendStep
<1>10. CASE OrderSent(t)
  <2>1. /\ Returned(t) /\ UNCHANGED <<holder, waiting>> /\ tx.at \in {"ok", "failed"} /\ Goto(t, "done")
        /\ rejected' = rejected \/ rejected' = rejected \cup {t}
    BY <1>10 DEF OrderSent
  <2>2. pc' \in [Calls -> Places]
    BY <1>1, <1>2, <2>1
  <2>3. Finish /\ want' = want /\ unanswered' = unanswered
    BY <1>8, <2>1
  <2>4. CallTypes'
    BY <2>1, <2>2, <2>3 DEF CallTypes
  <2> QED BY <2>3, <2>4 DEF SendStep
<1>11. CASE TimeOut(t)
  <2>1. /\ waiting' = FALSE /\ holder' = NoCall /\ Goto(t, "done") /\ unanswered' = TRUE
        /\ UNCHANGED <<connVars, want, rejected>>
    BY <1>11 DEF TimeOut, Fail
  <2>2. pc' \in [Calls -> Places]
    BY <1>1, <1>2, <2>1
  <2>3. CallTypes'
    BY <1>4, <2>1, <2>2 DEF CallTypes
  <2> QED BY <2>1, <2>3
<1>12. CASE Take(t)
  <2>1. /\ holder' = NoCall
        /\ Goto(t, "order") \/ Goto(t, "done")
        /\ UNCHANGED <<connVars, want, waiting, rejected, unanswered>>
    BY <1>12, Zenon DEF Take
  <2>2. pc' \in [Calls -> Places]
    BY <1>1, <1>2, <2>1
  <2> QED BY <1>3, <1>4, <2>1, <2>2
<1>13. CASE UNCHANGED callerVars /\ SendZcAll
  <2>1. CallTypes'
    BY <1>13 DEF CallTypes, callerVars
  <2> QED BY <1>13, <2>1, Zenon DEF SendStep
<1> QED BY <1>5, <1>6, <1>7, <1>9, <1>10, <1>11, <1>12, <1>13, Zenon DEF Caller

(* Every step is one of the sender, the exchange or fill_th, or none.      *)
LEMMA Steps ==
  ASSUME CallTypes, [Next]_vars
  PROVE  CallTypes' /\ (SendStep \/ Exchange \/ FillStep \/ UNCHANGED connVars)
<1>1. CASE \E t \in Calls : Call(t) \/ Caller(t)
  BY <1>1, CallerSteps
<1>2. CASE OnBookQuote
  <2>1. waiting' = FALSE /\ UNCHANGED <<pc, want, holder, unanswered, rejected>> /\ FillQuote
    BY <1>2 DEF OnBookQuote
  <2>2. CallTypes'
    BY <2>1 DEF CallTypes
  <2> QED BY <2>1, <2>2 DEF FillStep
<1>3. CASE (Notify \/ Exchange \/ FillThread) /\ UNCHANGED callerVars
  <2>1. CallTypes'
    BY <1>3 DEF CallTypes, callerVars
  <2> QED BY <1>3, <2>1, Zenon DEF SendStep, FillStep
<1>4. CASE UNCHANGED vars
  <2>1. UNCHANGED <<connVars, callerVars>>
    BY <1>4 DEF vars
  <2>2. CallTypes'
    BY <2>1 DEF CallTypes, callerVars
  <2> QED BY <2>1, <2>2
<1> QED BY <1>1, <1>2, <1>3, <1>4, Zenon DEF Next

(* The invariant of the connection is inductive.                           *)
LEMMA ConnStep ==
  ASSUME CallTypes, ConnInv, [Next]_vars
  PROVE  CallTypes' /\ ConnInv'
<1>1. RingTypes /\ WireTypes /\ RefsOK /\ ReportsOK /\ SendOK /\ RingOK /\ StreamOK
  BY DEF ConnInv
<1>2. CallTypes'
  BY Steps
<1>3. CASE SendStep
  BY <1>1, <1>2, <1>3, SendTypes, SendReports, SendSends DEF ConnInv
<1>4. CASE Exchange
  BY <1>1, <1>2, <1>4, ExchangeTypes, ExchangeReports, ExchangeSends DEF ConnInv
<1>5. CASE FillStep
  <2>1. FillUnchanged /\ mtx' = mtx /\ WireTypes'
    BY <1>1, <1>5, FillDoes
  <2>2. RingTypes'
    BY <1>1, <2>1 DEF RingTypes, FillUnchanged, ringVars, kernelVars
  <2> QED BY <1>1, <1>2, <1>5, <2>1, <2>2, FillReports, FillSends DEF ConnInv
<1>6. CASE UNCHANGED connVars
  <2>1. UNCHANGED <<ring, head, tail, gapped, cq, staged, sqes, faults, stale, kept, torn, refs, taken, told,
                    refToId, fill, stream, heard, drained, mtx, tx, toEx, toUs, conn, sent>>
    BY <1>6 DEF connVars, ringVars, kernelVars, exchangeVars, fillVars
  <2>2. RingTypes' /\ WireTypes'
    BY <1>1, <2>1 DEF RingTypes, WireTypes
  <2>3. RefsOK' /\ ReportsOK'
    BY <1>1, <2>1 DEF RefsOK, ReportsOK, Incoming
  <2>4. SendOK' /\ RingOK'
    BY <1>1, <2>1 DEF SendOK, RingOK, LeftInRing, CompletionsOK, Own, Owed, Sending, Used, Regular, Failing, Slipped
  <2>5. StreamOK'
    BY <1>1, <2>1 DEF StreamOK, SentLast, Own, Out, Owed, Sending, Slipped
  <2> QED BY <1>2, <2>2, <2>3, <2>4, <2>5 DEF ConnInv
<1> QED BY <1>3, <1>4, <1>5, <1>6, Steps

(* It holds at the start.                                                  *)
LEMMA ConnStart ==
  ASSUME Init
  PROVE  CallTypes /\ ConnInv
<1>1. ConnInit /\ pc = [t \in Calls |-> "new"] /\ want \in [Calls -> Symbols]
      /\ holder = NoCall /\ waiting = FALSE /\ unanswered = FALSE /\ rejected = {}
  BY DEF Init
<1>2. CallTypes
  BY <1>1 DEF CallTypes, Places
<1>3. /\ ring = [i \in 0 .. Capacity - 1 |-> NoByte] /\ head = 0 /\ tail = 0
      /\ mtx = NoCall /\ tx = Idle /\ cq = <<>> /\ staged = Nothing /\ sqes = 0 /\ faults = 0
      /\ toEx = <<>> /\ toUs = <<>> /\ conn = "up"
      /\ refs = <<>> /\ refToId = [r \in Calls |-> 0]
      /\ fill = "drain" /\ stream = <<>>
      /\ sent = <<>> /\ taken = <<>> /\ told = <<>> /\ heard = <<>>
      /\ gapped = FALSE /\ stale = FALSE /\ kept = FALSE /\ torn = FALSE /\ drained = FALSE
  BY <1>1 DEF ConnInit
<1>4. /\ Len(<<>>) = 0 /\ <<>> \in Seq(WireBytes) /\ <<>> \in Seq(Messages) /\ <<>> \in Seq(Requests)
      /\ <<>> \in Seq(Calls) /\ <<>> \in Seq([n : Nat, res : Int])
      /\ \A i \in 1 .. 0 : FALSE
  BY EmptySeq
<1>5. RingTypes
  <2>1. NoByte \in WireBytes
    BY DEF WireBytes
  <2>2. ring \in [0 .. Capacity - 1 -> WireBytes]
    BY <1>3, <2>1
  <2> QED BY <1>3, <1>4, <2>2 DEF RingTypes, Idle, Nothing
<1>6. WireTypes
  BY <1>3, <1>4 DEF WireTypes
<1>7. RefsOK
  BY <1>3, <1>4 DEF RefsOK
<1>8. ReportsOK
  <2>1. Incoming = <<>>
    BY <1>3, <1>4, ConcatEmptySeq DEF Incoming
  <2>2. Encodes(<<>>, told, Len(told), 0)
    BY <1>6, EncodesNothing DEF WireTypes
  <2> QED BY <1>3, <1>4, <2>1, <2>2 DEF ReportsOK
<1>9. Used = 0
  <2>1. SizeMod \in Nat \ {0}
    BY Constants
  <2>2. 0 % SizeMod = 0
    BY <2>1
  <2>3. tail - head = 0
    BY <1>3
  <2> QED BY <2>2, <2>3, Zenon DEF Used
<1>10. tx.at = "idle" /\ ~Sending /\ Owed = 0 /\ Out(0)
  BY <1>3 DEF Idle, Sending, Owed, Out
<1>11. SendOK
  <2>1. CompletionsOK
    BY <1>3, <1>4, <1>10 DEF CompletionsOK
  <2>2. 0 <= Capacity
    BY Constants
  <2> QED BY <1>3, <1>9, <1>10, <2>1, <2>2 DEF SendOK
<1>a. RingOK
  BY <1>9, <1>10 DEF RingOK
<1>12. StreamOK
  <2>1. sent \in Seq(Messages) /\ Encodes(<<>>, sent, Len(sent), 0)
    BY <1>5, <1>6, OwedTypes, EncodesNothing
  <2>2. 0 \in 0 .. Owed /\ Owed - 0 = 0
    BY <1>10
  <2>3. Encodes(toEx, sent, Len(taken), Owed - 0)
    BY <1>3, <2>1, <2>2, Zenon
  <2> QED BY <1>3, <1>4, <1>10, <2>2, <2>3 DEF StreamOK, SentLast
<1> QED BY <1>2, <1>5, <1>6, <1>7, <1>8, <1>11, <1>a, <1>12 DEF ConnInv

(* The two sides of the order connection stay in step: the types, the      *)
(* references, and what the bytes in the ring and under way encode.        *)
THEOREM ConnectionInvariant == Spec => [](CallTypes /\ ConnInv)
<1>1. Init => CallTypes /\ ConnInv
  BY ConnStart
<1>2. (CallTypes /\ ConnInv) /\ [Next]_vars => (CallTypes /\ ConnInv)'
  BY ConnStep
<1> QED BY <1>1, <1>2, PTL DEF Spec

(* A sequence that agrees with the front of another is a prefix of it.     *)
LEMMA PrefixOf ==
  ASSUME NEW S, NEW s \in Seq(S), NEW t \in Seq(S), Len(s) <= Len(t),
         \A k \in 1 .. Len(s) : s[k] = t[k]
  PROVE  IsPrefix(s, t)
<1>1. Len(s) \in Nat /\ Len(t) \in Nat /\ 1 \in Int /\ Len(s) \in Int
  BY LenProperties
<1>2. \A i \in 1 .. Len(s) : i \in 1 .. Len(t)
  BY <1>1
<1>3. \A i \in 1 .. Len(s) : s[i] \in S /\ t[i] \in S
  BY <1>2, ElementOfSeq
<1> DEFINE a == SubSeq(s, 1, Len(s))
           b == SubSeq(t, 1, Len(s))
<1>4. /\ a \in Seq(S) /\ Len(a) = IF 1 <= Len(s) THEN Len(s) - 1 + 1 ELSE 0
      /\ \A i \in 1 .. Len(s) - 1 + 1 : a[i] = s[1 + i - 1]
  BY <1>1, <1>3, SubSeqProperties
<1>5. /\ b \in Seq(S) /\ Len(b) = IF 1 <= Len(s) THEN Len(s) - 1 + 1 ELSE 0
      /\ \A i \in 1 .. Len(s) - 1 + 1 : b[i] = t[1 + i - 1]
  BY <1>1, <1>3, SubSeqProperties
<1> HIDE DEF a, b
<1>6. Len(a) = Len(s) /\ Len(b) = Len(a)
  BY <1>1, <1>4, <1>5
<1>7. \A i \in 1 .. Len(a) : a[i] = b[i]
  <2>1. \A i \in 1 .. Len(a) : i \in 1 .. Len(s) /\ i \in 1 .. Len(s) - 1 + 1 /\ 1 + i - 1 = i
    BY <1>1, <1>6
  <2> QED BY <1>4, <1>5, <2>1
<1>8. a = b
  BY <1>4, <1>5, <1>6, <1>7, SeqEqual
<1> QED BY <1>8 DEF IsPrefix, a, b

(* The exchange reads the messages in the order in which they were sent,   *)
(* whole and once, however the sends were cut by the end of the ring, by   *)
(* short writes and by errors before the first byte; unless push left a    *)
(* gap at the end of the ring, a send took a completion that was not its   *)
(* own or gave up with its bytes in the ring, or an error dropped the rest *)
(* of a message on a connection that stays up.                             *)
THEOREM StreamStaysIntact == Spec => []StreamIntactUnlessTorn
<1>1. CallTypes /\ ConnInv => StreamIntactUnlessTorn
  <2>1. SUFFICES ASSUME ConnInv, ~Slipped, ~torn PROVE IsPrefix(taken, sent) /\ conn # "garbled"
    BY DEF StreamIntactUnlessTorn
  <2>2. /\ Len(taken) <= Len(sent) /\ \A k \in 1 .. Len(taken) : taken[k] = sent[k]
        /\ conn # "garbled"
    BY <2>1 DEF ConnInv, StreamOK
  <2>3. taken \in Seq(Requests) /\ sent \in Seq(Requests)
    BY <2>1 DEF ConnInv, WireTypes
  <2> QED BY <2>2, <2>3, PrefixOf
<1> QED BY <1>1, ConnectionInvariant, PTL

(* A send that returns leaves the ring empty, whether it sent its message, *)
(* in however many pieces, or gave it up; unless push left a gap, a send   *)
(* took a completion that was not its own, or gave up with its bytes in    *)
(* the ring.                                                               *)
THEOREM SendsDrain == Spec => []DrainedUnlessSlipped
<1>1. CallTypes /\ ConnInv => DrainedUnlessSlipped
  BY DEF ConnInv, SendOK, RingOK, Owed, Sending, DrainedUnlessSlipped
<1> QED BY <1>1, ConnectionInvariant, PTL

(* fill_th hands the reports to the engine as the exchange told them, each *)
(* for its own order, in whatever pieces they arrive, and holds none back; *)
(* unless its first read threw some away.                                  *)
THEOREM ReportsArrive == Spec => []ReportsArriveUnlessDrained
<1>1. CallTypes /\ ConnInv => ReportsArriveUnlessDrained
  <2>1. SUFFICES ASSUME ConnInv, ~drained
                 PROVE  /\ IsPrefix(heard, told)
                        /\ (fill = "recv" /\ toUs = <<>> /\ Broken) => heard = told
    BY DEF ReportsArriveUnlessDrained
  <2>2. /\ Len(heard) <= Len(told) /\ \A k \in 1 .. Len(heard) : heard[k] = told[k]
        /\ Encodes(Incoming, told, Len(heard), 0)
    BY <2>1 DEF ConnInv, ReportsOK
  <2>3. /\ heard \in Seq(Messages) /\ told \in Seq(Messages) /\ stream \in Seq(WireBytes)
        /\ Len(heard) \in Nat /\ Len(told) \in Nat
    BY <2>1, LenProperties DEF ConnInv, WireTypes
  <2>4. IsPrefix(heard, told)
    BY <2>2, <2>3, PrefixOf
  <2>5. ASSUME toUs = <<>>, Broken PROVE heard = told
    <3>1. Incoming = stream
      BY <2>3, <2>5, ConcatEmptySeq DEF Incoming
    <3>2. Len(heard) \in 0 .. Len(told) /\ Encodes(stream, told, Len(heard), 0)
      BY <2>2, <2>3, <3>1
    <3>3. stream = <<>>
      <4>1. SUFFICES ASSUME stream # <<>> PROVE FALSE
        OBVIOUS
      <4>2. FrameLen(stream) <= Len(stream)
        BY <2>3, <3>2, <4>1, EncodesTake
      <4>3. FrameLen(stream) > Len(stream)
        BY <2>5, <4>1 DEF Broken
      <4>4. FrameLen(stream) \in Nat /\ Len(stream) \in Nat
        BY <2>3, <4>1, FrameTypes
      <4> QED BY <4>2, <4>3, <4>4
    <3>4. Len(heard) = Len(told)
      BY <2>3, <3>2, <3>3, EncodesNone
    <3> QED BY <2>2, <2>3, <3>4, SeqEqual
  <2> QED BY <2>4, <2>5
<1> QED BY <1>1, ConnectionInvariant, PTL

-----------------------------------------------------------------------------
(* How bytes move.                                                         *)
LEMMA RestOf ==
  ASSUME NEW s \in Seq(WireBytes), Complete(s)
  PROVE  /\ FrameLen(s) \in Nat \ {0} /\ Len(s) \in Nat /\ Len(Rest(s)) = Len(s) - FrameLen(s)
         /\ FrameLen(s) <= Len(s)
         /\ \A i \in 1 .. Len(Rest(s)) :
              i + FrameLen(s) \in 1 .. Len(s) /\ Rest(s)[i] = s[i + FrameLen(s)]
<1> DEFINE f == FrameLen(s)
<1>1. s # <<>>
  BY DEF Complete
<1>2. Len(s) \in Nat \ {0} /\ f \in Nat
  BY <1>1, FrameTypes
<1>3. f > 0 /\ f <= Len(s)
  BY <1>2 DEF Complete
<1> HIDE DEF f
<1>4. \A i \in f + 1 .. Len(s) : i \in 1 .. Len(s)
  BY <1>2
<1>5. \A i \in f + 1 .. Len(s) : s[i] \in WireBytes
  BY <1>4, ElementOfSeq
<1>6. f + 1 \in Int /\ Len(s) \in Int
  BY <1>2
<1> DEFINE a == SubSeq(s, f + 1, Len(s))
<1>7. /\ Len(a) = IF f + 1 <= Len(s) THEN Len(s) - (f + 1) + 1 ELSE 0
      /\ \A i \in 1 .. Len(s) - (f + 1) + 1 : a[i] = s[f + 1 + i - 1]
  BY <1>5, <1>6, SubSeqProperties
<1>8. a = Rest(s)
  BY DEF Rest, f
<1> HIDE DEF a
<1>9. Len(a) = Len(s) - f
  BY <1>2, <1>3, <1>7
<1>10. ASSUME NEW i \in 1 .. Len(a) PROVE i + f \in 1 .. Len(s) /\ a[i] = s[i + f]
  <2>1. i + f \in 1 .. Len(s) /\ i \in 1 .. Len(s) - (f + 1) + 1 /\ f + 1 + i - 1 = i + f
    BY <1>2, <1>9
  <2> QED BY <1>7, <2>1, Zenon
<1> QED BY <1>2, <1>3, <1>8, <1>9, <1>10 DEF f

(* A frame that decodes is the message of its first byte.                  *)
LEMMA FrameIs ==
  ASSUME NEW s \in Seq(WireBytes), Complete(s), Decodes(Frame(s)), NEW m \in Messages, m = s[1].msg
  PROVE  /\ FrameLen(s) = Size(m)
         /\ \A i \in 1 .. Size(m) : i \in 1 .. Len(s) /\ s[i] = Byte(m, i)
<1> DEFINE f == FrameLen(s)
           b == Frame(s)
<1>1. f \in Nat \ {0} /\ Len(s) \in Nat /\ f <= Len(s)
  BY RestOf
<1> HIDE DEF f
<1>2. \A i \in 1 .. f : i \in 1 .. Len(s) /\ i \in 1 .. f - 1 + 1 /\ 1 + i - 1 = i
  BY <1>1
<1>3. \A i \in 1 .. f : s[i] \in WireBytes
  BY <1>2, ElementOfSeq
<1>4. Len(b) = f /\ \A i \in 1 .. f : b[i] = s[i]
  <2>1. 1 \in Int /\ f \in Int /\ 1 <= f /\ f - 1 + 1 = f
    BY <1>1
  <2> DEFINE z == SubSeq(s, 1, f)
  <2>2. /\ Len(z) = IF 1 <= f THEN f - 1 + 1 ELSE 0
        /\ \A i \in 1 .. f - 1 + 1 : z[i] = s[1 + i - 1]
    BY <1>3, <2>1, SubSeqProperties
  <2>3. z = b
    BY DEF Frame, f
  <2> HIDE DEF z, b
  <2> QED BY <1>2, <2>1, <2>2, <2>3
<1>5. 1 \in 1 .. f
  BY <1>1
<1>6. b = Bytes(b[1].msg) /\ b[1] = s[1]
  BY <1>4, <1>5 DEF Decodes
<1>7. b = Bytes(m)
  BY <1>6
<1> HIDE DEF b
<1>8. Len(b) = Size(m) /\ \A i \in 1 .. Size(m) : b[i] = Byte(m, i)
  BY <1>7, BytesOf
<1>9. f = Size(m)
  BY <1>4, <1>8
<1> QED BY <1>2, <1>4, <1>8, <1>9 DEF f

(* Where the bytes of a submission come from.                              *)
LEMMA SubmitMoves ==
  ASSUME RingTypes, WireTypes, ~kept, NEW k \in 1 .. Capacity, Submit(k)
  PROVE  /\ k \in 1 .. tx.left /\ k <= Used /\ Used \in Nat
         /\ Len(toEx') = IF conn = "up" THEN Len(toEx) + k ELSE Len(toEx)
         /\ Len(toEx) \in Nat
         /\ \A i \in 1 .. Len(toEx) : i \in 1 .. Len(toEx') /\ toEx'[i] = toEx[i]
         /\ conn = "up" => \A x \in 1 .. k :
              /\ Len(toEx) + x \in 1 .. Len(toEx')
              /\ (head + x - 1) % Capacity \in 0 .. Capacity - 1
              /\ toEx'[Len(toEx) + x] = ring[(head + x - 1) % Capacity]
         /\ \A i \in 1 .. Len(toEx') :
              \/ i \in 1 .. Len(toEx)
              \/ conn = "up" /\ \E x \in 1 .. k : i = Len(toEx) + x
<1> DEFINE piece == Ahead(k)
<1>1. toEx' = (IF conn = "up" THEN toEx \o piece ELSE toEx) /\ k <= Chunk
  <2>1. toEx' = (IF conn = "up" THEN toEx \o Ahead(k) ELSE toEx)
    BY SubmitTypes
  <2>2. k \in 1 .. Chunk
    BY DEF Submit
  <2>3. Chunk \in Int
    BY ChunkBounds, Constants DEF RingTypes
  <2> QED BY <2>1, <2>2, <2>3
<1>2. piece \in Seq(WireBytes)
  BY PieceTypes
<1>3. head \in Nat /\ tail \in Nat /\ tx.left \in Nat /\ k \in Nat \ {0} /\ Capacity \in Nat \ {0}
  BY Constants DEF RingTypes
<1>4. k \in 1 .. tx.left /\ k <= Used /\ Used \in Nat
  <2>1. Chunk \in Int /\ Chunk <= tx.left /\ Chunk <= Used /\ Used \in Nat
    BY <1>3, ChunkBounds, OwedTypes
  <2> QED BY <1>1, <1>3, <2>1
<1>5. Len(piece) = k /\ \A i \in 1 .. k : piece[i] = ring[(head + i - 1) % Capacity]
  BY <1>3, PieceTypes
<1>6. \A x \in 1 .. k : (head + x - 1) % Capacity \in 0 .. Capacity - 1
  <2>1. \A x \in 1 .. k : head + x - 1 \in Int
    BY <1>3
  <2> QED BY <1>3, <2>1, ModSplit
<1> HIDE DEF piece
<1>7. toEx \in Seq(WireBytes) /\ Len(toEx) \in Nat
  BY LenProperties DEF WireTypes
<1>8. CASE conn = "up"
  <2>1. /\ Len(toEx') = Len(toEx) + k
        /\ \A i \in 1 .. Len(toEx) + k : toEx'[i] = IF i <= Len(toEx) THEN toEx[i] ELSE piece[i - Len(toEx)]
    BY <1>1, <1>2, <1>5, <1>7, <1>8, ConcatProperties
  <2>2. \A i \in 1 .. Len(toEx) : i \in 1 .. Len(toEx) + k /\ i <= Len(toEx)
    BY <1>3, <1>7
  <2>3. \A x \in 1 .. k : /\ Len(toEx) + x \in 1 .. Len(toEx) + k /\ ~(Len(toEx) + x <= Len(toEx))
                          /\ Len(toEx) + x - Len(toEx) = x
    BY <1>3, <1>7
  <2>4. \A x \in 1 .. k : toEx'[Len(toEx) + x] = piece[x]
    BY <2>1, <2>3
  <2>5. \A i \in 1 .. Len(toEx) + k : i \in 1 .. Len(toEx) \/ \E x \in 1 .. k : i = Len(toEx) + x
    <3>1. ASSUME NEW i \in 1 .. Len(toEx) + k, ~(i \in 1 .. Len(toEx)) PROVE \E x \in 1 .. k : i = Len(toEx) + x
      <4>1. i - Len(toEx) \in 1 .. k /\ i = Len(toEx) + (i - Len(toEx))
        BY <1>3, <1>7, <3>1
      <4> QED BY <4>1
    <3> QED BY <3>1
  <2>6. \A i \in 1 .. Len(toEx) : i \in 1 .. Len(toEx') /\ toEx'[i] = toEx[i]
    BY <2>1, <2>2
  <2>7. \A x \in 1 .. k : /\ Len(toEx) + x \in 1 .. Len(toEx')
                          /\ toEx'[Len(toEx) + x] = ring[(head + x - 1) % Capacity]
    BY <1>5, <2>1, <2>3, <2>4, Zenon
  <2> QED BY <1>4, <1>6, <1>7, <1>8, <2>1, <2>5, <2>6, <2>7, Zenon
<1>9. CASE conn # "up"
  BY <1>1, <1>4, <1>7, <1>9
<1> QED BY <1>8, <1>9

(* What the exchange reads or drops leaves the front of the stream.        *)
LEMMA ExchangeMoves ==
  ASSUME WireTypes, RefsOK, Exchange
  PROVE  /\ conn = "up" /\ toEx # <<>>
         /\ \E f \in Nat : /\ Len(toEx') <= Len(toEx)
                           /\ \A i \in 1 .. Len(toEx') : i + f \in 1 .. Len(toEx) /\ toEx'[i] = toEx[i + f]
         /\ \/ taken' = taken
            \/ \E m \in Requests : /\ m = toEx[1].msg /\ taken' = Append(taken, m) /\ conn' = "up"
                                   /\ \A i \in 1 .. Size(m) : i \in 1 .. Len(toEx) /\ toEx[i] = Byte(m, i)
                                   /\ Len(toEx') = Len(toEx) - Size(m)
                                   /\ \A i \in 1 .. Len(toEx') :
                                        i + Size(m) \in 1 .. Len(toEx) /\ toEx'[i] = toEx[i + Size(m)]
<1>1. conn = "up" /\ toEx # <<>> /\ toEx \in Seq(WireBytes) /\ Len(toEx) \in Nat
  BY ExchangeDoes, LenProperties DEF WireTypes
<1>2. ASSUME Complete(toEx), toEx' = Rest(toEx)
      PROVE  /\ FrameLen(toEx) \in Nat /\ Len(toEx') = Len(toEx) - FrameLen(toEx) /\ Len(toEx') <= Len(toEx)
             /\ \A i \in 1 .. Len(toEx') : i + FrameLen(toEx) \in 1 .. Len(toEx) /\ toEx'[i] = toEx[i + FrameLen(toEx)]
  <2>1. /\ FrameLen(toEx) \in Nat \ {0} /\ Len(toEx') = Len(toEx) - FrameLen(toEx)
        /\ \A i \in 1 .. Len(toEx') : i + FrameLen(toEx) \in 1 .. Len(toEx) /\ toEx'[i] = toEx[i + FrameLen(toEx)]
    BY <1>1, <1>2, RestOf
  <2> QED BY <1>1, <2>1
<1>3. CASE \E m \in Requests : Reads(m)
  <2>1. PICK m \in Requests : Reads(m)
    BY <1>3
  <2>2. /\ m = toEx[1].msg /\ Complete(toEx) /\ Decodes(Frame(toEx))
        /\ taken' = Append(taken, m) /\ toEx' = Rest(toEx) /\ conn' = conn
    BY <2>1 DEF Reads
  <2>3. m \in Messages
    BY DEF Messages
  <2>4. FrameLen(toEx) = Size(m) /\ \A i \in 1 .. Size(m) : i \in 1 .. Len(toEx) /\ toEx[i] = Byte(m, i)
    BY <1>1, <2>2, <2>3, FrameIs
  <2>5. /\ FrameLen(toEx) \in Nat /\ Len(toEx') = Len(toEx) - FrameLen(toEx) /\ Len(toEx') <= Len(toEx)
        /\ \A i \in 1 .. Len(toEx') : i + FrameLen(toEx) \in 1 .. Len(toEx) /\ toEx'[i] = toEx[i + FrameLen(toEx)]
    BY <1>2, <2>2
  <2> QED BY <1>1, <2>2, <2>4, <2>5
<1>4. CASE taken' = taken /\ toEx' = <<>>
  <2>1. Len(toEx') = 0 /\ \A i \in 1 .. 0 : FALSE
    BY <1>4, EmptySeq
  <2> QED BY <1>1, <1>4, <2>1
<1>5. CASE taken' = taken /\ Complete(toEx) /\ toEx' = Rest(toEx)
  BY <1>1, <1>2, <1>5
<1> QED BY <1>3, <1>4, <1>5, ExchangeDoes, Zenon

-----------------------------------------------------------------------------
(* The steps of the calls, as far as the connection is concerned.          *)
Local(t) == /\ UNCHANGED <<connVars, rejected>> /\ pc[t] \in {"new", "lock", "wait"}
            /\ \/ pc[t] = "new" /\ Goto(t, "lock")
               \/ pc[t] = "lock" /\ Goto(t, "query")
               \/ pc[t] = "wait" /\ (Goto(t, "order") \/ Goto(t, "done"))
Begins(t, m) == /\ Begin(t, m) /\ UNCHANGED rejected
                /\ \/ pc[t] = "query" /\ m = Query(t) /\ Goto(t, "sendQ")
                   \/ pc[t] = "order" /\ m = Order(t) /\ Goto(t, "sendO")
Spins(t, m) == /\ Spin(t, m) /\ UNCHANGED rejected
               /\ \/ pc[t] = "query" /\ m = Query(t) /\ Goto(t, "sendQ")
                  \/ pc[t] = "order" /\ m = Order(t) /\ Goto(t, "sendO")
Ends(t) == /\ mtx = t /\ Finish
           /\ \/ pc[t] = "sendQ" /\ UNCHANGED rejected /\ (Goto(t, "wait") \/ Goto(t, "done"))
              \/ /\ pc[t] = "sendO" /\ Goto(t, "done")
                 /\ UNCHANGED rejected \/ (tx.at = "failed" /\ rejected' = rejected \cup {t})
Passes == /\ UNCHANGED <<pc, rejected>>
          /\ SendZcAll \/ Notify \/ Exchange \/ FillStep \/ UNCHANGED connVars

(* Every step is one of those.                                             *)
LEMMA Cases ==
  ASSUME CallTypes, [Next]_vars
  PROVE  /\ want' = want
         /\ \/ \E t \in Calls : Local(t) \/ Ends(t) \/ \E m \in Requests : Begins(t, m) \/ Spins(t, m)
            \/ Passes
<1>1. ASSUME NEW t \in Calls, Call(t) \/ Lock(t) \/ TimeOut(t) \/ Take(t) PROVE want' = want /\ Local(t)
  BY <1>1, Zenon DEF Call, Lock, TimeOut, Take, Fail, Local
<1>2. ASSUME NEW t \in Calls, Send(t) PROVE want' = want /\ \E m \in Requests : Begins(t, m) \/ Spins(t, m)
  <2>1. Query(t) \in Requests /\ Order(t) \in Requests
    BY RequestTypes
  <2>2. \/ Begins(t, Query(t)) \/ Spins(t, Query(t))
        \/ Begins(t, Order(t)) \/ Spins(t, Order(t))
    <3>1. UNCHANGED rejected
      BY <1>2 DEF Send
    <3>2. \/ pc[t] = "query" /\ Goto(t, "sendQ") /\ (Begin(t, Query(t)) \/ Spin(t, Query(t)))
          \/ pc[t] = "order" /\ Goto(t, "sendO") /\ (Begin(t, Order(t)) \/ Spin(t, Order(t)))
      BY <1>2, Zenon DEF Send, Query, Order
    <3> QED BY <3>1, <3>2, Zenon DEF Begins, Spins
  <2>3. want' = want
    BY <1>2 DEF Send
  <2> QED BY <2>1, <2>2, <2>3
<1>3. ASSUME NEW t \in Calls, QuerySent(t) \/ OrderSent(t) PROVE want' = want /\ Ends(t)
  <2>1. Returned(t) /\ tx.at \in {"ok", "failed"}
    BY <1>3 DEF QuerySent, OrderSent
  <2>2. mtx = t /\ want' = want /\ Finish
    BY <2>1 DEF Returned, Finish
  <2> QED BY <1>3, <2>2, Zenon DEF QuerySent, OrderSent, Fail, Ends
<1>4. ASSUME NEW t \in Calls, mtx = t, UNCHANGED callerVars, SendZcAll
      PROVE  want' = want /\ Passes
  BY <1>4, Zenon DEF callerVars, Passes
<1>5. CASE OnBookQuote
  BY <1>5, Zenon DEF OnBookQuote, Passes, FillStep
<1>6. CASE (Notify \/ Exchange \/ FillThread) /\ UNCHANGED callerVars
  BY <1>6, Zenon DEF callerVars, Passes, FillStep
<1>7. CASE UNCHANGED vars
  <2>1. UNCHANGED <<connVars, callerVars>>
    BY <1>7 DEF vars
  <2> QED BY <2>1, Zenon DEF callerVars, Passes
<1>8. CASE \E t \in Calls : Call(t) \/ Caller(t)
  BY <1>1, <1>2, <1>3, <1>4, <1>8, Zenon DEF Caller
<1> QED BY <1>5, <1>6, <1>7, <1>8, Zenon DEF Next

(* The steps that are no call's.                                           *)
LEMMA PassesKeeps ==
  ASSUME Passes
  PROVE  pc' = pc /\ rejected' = rejected
<1>1. UNCHANGED <<pc, rejected>>
  BY Zenon DEF Passes
<1> QED BY <1>1

(* The bytes on their way, and those read, change in two of them only.     *)
LEMMA WireSteps ==
  ASSUME CallTypes, ConnInv, ~kept, [Next]_vars
  PROVE  \/ Exchange
         \/ \E k \in 1 .. Capacity : Submit(k)
         \/ UNCHANGED <<toEx, taken>>
<1>1. RingTypes /\ WireTypes
  BY DEF ConnInv
<1>2. ASSUME NEW t \in Calls, NEW m \in Requests, Local(t) \/ Ends(t) \/ Begins(t, m) \/ Spins(t, m)
      PROVE  UNCHANGED <<toEx, taken>>
  BY <1>2 DEF Local, Ends, Begins, Begin, Spins, Spin, Finish, connVars, exchangeVars
<1>3. CASE SubmitError
  <2>1. toEx' = toEx
    BY <1>1, <1>3, SubmitErrorTypes
  <2> QED BY <1>3, <2>1 DEF SubmitError, exchangeVars
<1>4. CASE LeavesBytes
  <2>1. UNCHANGED <<toEx, exchangeVars>>
    BY <1>1, <1>4, LeavesTypes
  <2> QED BY <2>1 DEF exchangeVars
<1>5. CASE Reap \/ Notify \/ UNCHANGED connVars
  BY <1>5 DEF Reap, ReapUnchanged, Notify, connVars, exchangeVars
<1>6. CASE FillStep
  <2>1. FillUnchanged
    BY <1>1, <1>6, FillDoes
  <2> QED BY <2>1 DEF FillUnchanged, exchangeVars
<1>7. CASE Passes
  BY <1>3, <1>4, <1>5, <1>6, <1>7, Zenon DEF Passes, SendZcAll, LeavesBytes
<1>8. \A t \in Calls : \E m \in Requests : TRUE
  BY RequestTypes
<1> QED BY <1>2, <1>7, <1>8, Cases, Zenon

(* A call does not go back before its sends.                               *)
Forward ==
  \A u \in Calls :
    /\ pc[u] \notin {"new", "lock", "query"} => pc'[u] \notin {"new", "lock", "query"}
    /\ pc[u] \in {"sendO", "done"} => pc'[u] \in {"sendO", "done"}

(* One call moves.                                                         *)
LEMMA Goes ==
  ASSUME CallTypes, NEW t \in Calls, NEW l, Goto(t, l)
  PROVE  pc'[t] = l /\ \A u \in Calls : u # t => pc'[u] = pc[u]
BY DEF CallTypes, Goto

(* No step takes a call back.                                              *)
LEMMA ForwardStep ==
  ASSUME CallTypes, [Next]_vars
  PROVE  Forward
<1>1. ASSUME NEW t \in Calls, NEW l, Goto(t, l),
             \/ pc[t] \in {"new", "lock"}
             \/ pc[t] = "query" /\ l = "sendQ"
             \/ pc[t] \in {"sendQ", "wait", "order"} /\ l \in {"wait", "order", "sendO", "done"}
             \/ pc[t] = "sendO" /\ l = "done"
      PROVE  Forward
  <2>1. pc'[t] = l /\ \A u \in Calls : u # t => pc'[u] = pc[u]
    BY <1>1, Goes
  <2>2. ASSUME NEW u \in Calls, u # t
        PROVE  /\ pc[u] \notin {"new", "lock", "query"} => pc'[u] \notin {"new", "lock", "query"}
               /\ pc[u] \in {"sendO", "done"} => pc'[u] \in {"sendO", "done"}
    BY <2>1, <2>2
  <2>3. /\ pc[t] \notin {"new", "lock", "query"} => pc'[t] \notin {"new", "lock", "query"}
        /\ pc[t] \in {"sendO", "done"} => pc'[t] \in {"sendO", "done"}
    BY <1>1, <2>1
  <2> QED BY <2>2, <2>3 DEF Forward
<1>2. ASSUME NEW t \in Calls, Local(t) PROVE Forward
  BY <1>1, <1>2 DEF Local
<1>3. ASSUME NEW t \in Calls, Ends(t) PROVE Forward
  BY <1>1, <1>3 DEF Ends
<1>4. ASSUME NEW t \in Calls, NEW m \in Requests, Begins(t, m) \/ Spins(t, m) PROVE Forward
  BY <1>1, <1>4 DEF Begins, Spins
<1>5. CASE Passes
  <2>1. pc' = pc
    BY <1>5, PassesKeeps
  <2> QED BY <2>1 DEF Forward
<1> QED BY <1>2, <1>3, <1>4, <1>5, Cases

(* What a call has sent stays sent.                                        *)
LEMMA RealKept ==
  ASSUME CallTypes, Forward, want' = want, NEW m \in Messages \cup {NoMsg}, Real(m)
  PROVE  Real(m)'
<1>1. CASE m = NoMsg
  BY <1>1 DEF Real
<1>2. CASE m # NoMsg
  <2>1. m \in Messages
    BY <1>2
  <2>2. m.n \in Calls
    BY <2>1 DEF Messages, Requests, Quotes, Fills
  <2>3. m \in {Query(m.n), Order(m.n)} /\ Began(m)
    BY <1>2 DEF Real
  <2>4. Query(m.n)' = Query(m.n) /\ Order(m.n)' = Order(m.n)
    BY DEF Query, Order
  <2>5. Began(m)'
    BY <2>2, <2>3 DEF Began, Forward
  <2> QED BY <2>3, <2>4, <2>5 DEF Real
<1> QED BY <1>1, <1>2

(* Bytes that stay, or come from the ring, or are new and real.            *)
LEMMA RealMoves ==
  ASSUME CallTypes, RingTypes, WireTypes, OnlyReal, Forward, want' = want,
         NEW N \in SUBSET Requests, \A n \in N : Real(n)',
         \A r \in 0 .. Capacity - 1 : ring'[r] = ring[r] \/ ring'[r].msg \in N,
         \A i \in 1 .. Len(toEx') : \/ \E j \in 1 .. Len(toEx) : toEx'[i] = toEx[j]
                                    \/ \E q \in 0 .. Capacity - 1 : toEx'[i] = ring[q],
         \A i \in 1 .. Len(taken') : \/ \E j \in 1 .. Len(taken) : taken'[i] = taken[j]
                                     \/ \E j \in 1 .. Len(toEx) : taken'[i] = toEx[j].msg
  PROVE  OnlyReal'
<1>1. /\ \A r \in 0 .. Capacity - 1 : ring[r] \in WireBytes
      /\ \A i \in 1 .. Len(toEx) : toEx[i] \in WireBytes
      /\ \A i \in 1 .. Len(taken) : taken[i] \in Requests
  BY ElementOfSeq DEF RingTypes, WireTypes
<1>2. \A b \in WireBytes : b.msg \in Messages \cup {NoMsg}
  BY DEF WireBytes, NoByte
<1>3. N \subseteq Messages \cup {NoMsg}
  BY DEF Messages
<1>4. ASSUME NEW r \in 0 .. Capacity - 1 PROVE Real(ring[r].msg)'
  <2>1. PICK m \in Messages \cup {NoMsg} : m = ring'[r].msg /\ (m \in N \/ Real(m))
    <3>1. ring[r].msg \in Messages \cup {NoMsg} /\ Real(ring[r].msg)
      BY <1>1, <1>2 DEF OnlyReal
    <3> QED BY <1>3, <3>1, Zenon
  <2>2. Real(m)'
    BY <2>1, RealKept
  <2> QED BY <2>1, <2>2 DEF Real, Began, Query, Order
<1>5. ASSUME NEW i \in 1 .. Len(toEx') PROVE Real(toEx[i].msg)'
  <2>1. PICK m \in Messages \cup {NoMsg} : m = toEx'[i].msg /\ Real(m)
    BY <1>1, <1>2 DEF OnlyReal
  <2>2. Real(m)'
    BY <2>1, RealKept
  <2> QED BY <2>1, <2>2 DEF Real, Began, Query, Order
<1>6. ASSUME NEW i \in 1 .. Len(taken') PROVE Real(taken[i])'
  <2>1. PICK m \in Messages \cup {NoMsg} : m = taken'[i] /\ Real(m)
    BY <1>1, <1>2 DEF OnlyReal, Messages
  <2>2. Real(m)'
    BY <2>1, RealKept
  <2> QED BY <2>1, <2>2 DEF Real, Began, Query, Order
<1> QED BY <1>4, <1>5, <1>6 DEF OnlyReal

(* Every step moves bytes of messages that were sent.                      *)
LEMMA OnlyRealStep ==
  ASSUME CallTypes, ConnInv, OnlyReal, ~kept, [Next]_vars
  PROVE  OnlyReal'
<1>1. RingTypes /\ WireTypes /\ RefsOK /\ Forward /\ want' = want
  BY ForwardStep, Cases DEF ConnInv
<1>2. /\ \A i \in 1 .. Len(toEx) : \E j \in 1 .. Len(toEx) : toEx[i] = toEx[j]
      /\ \A i \in 1 .. Len(taken) : \E j \in 1 .. Len(taken) : taken[i] = taken[j]
      /\ {} \in SUBSET Requests /\ \A n \in {} : FALSE
  OBVIOUS
<1>3. ASSUME NEW t \in Calls, Local(t) \/ Ends(t) \/ \E m \in Requests : Spins(t, m) PROVE OnlyReal'
  <2>1. UNCHANGED <<ring, toEx, taken>>
    BY <1>3 DEF Local, Ends, Spins, Spin, Finish, connVars, ringVars, exchangeVars
  <2> QED BY <1>1, <1>2, <2>1, RealMoves
<1>4. ASSUME NEW t \in Calls, NEW m \in Requests, Begins(t, m) PROVE OnlyReal'
  <2>1. Begin(t, m) /\ UNCHANGED <<toEx, taken>>
    BY <1>4 DEF Begins, Begin, exchangeVars
  <2>2. \A r \in 0 .. Capacity - 1 : ring'[r] = ring[r] \/ \E x \in 0 .. Size(m) - 1 : ring'[r] = Byte(m, x + 1)
    BY <1>1, <2>1, BeginCopies
  <2>b. \A i \in Int : Byte(m, i).msg = m
    BY DEF Byte
  <2>3. \A r \in 0 .. Capacity - 1 : ring'[r] = ring[r] \/ ring'[r].msg \in {m}
    <3>1. \A x \in 0 .. Size(m) - 1 : x + 1 \in Int
      OBVIOUS
    <3>2. \A x \in 0 .. Size(m) - 1 : Byte(m, x + 1).msg = m
      BY <2>b, <3>1
    <3> QED BY <2>2, <3>2, Zenon
  <2>4. m.n = t /\ m \in {Query(t), Order(t)} /\ Query(t)' = Query(t) /\ Order(t)' = Order(t)
    BY <1>1, <1>4 DEF Begins, Query, Order
  <2>5. Began(m)'
    <3>1. CASE pc[t] = "query" /\ m = Query(t) /\ Goto(t, "sendQ")
      <4>1. pc'[t] = "sendQ" /\ m.type = "Q"
        BY <3>1, Goes DEF Query
      <4> QED BY <2>4, <4>1 DEF Began
    <3>2. CASE pc[t] = "order" /\ m = Order(t) /\ Goto(t, "sendO")
      <4>1. pc'[t] = "sendO" /\ m.type = "O"
        BY <3>2, Goes DEF Order
      <4> QED BY <2>4, <4>1 DEF Began
    <3> QED BY <1>4, <3>1, <3>2 DEF Begins
  <2>6. Real(m)'
    BY <2>4, <2>5 DEF Real
  <2>7. \A n \in {m} : Real(n)'
    BY <2>6 DEF Real, Began, Query, Order
  <2>8. {m} \in SUBSET Requests
    OBVIOUS
  <2> QED BY <1>1, <1>2, <2>1, <2>3, <2>7, <2>8, RealMoves
<1>5. ASSUME NEW k \in 1 .. Capacity, Submit(k) PROVE OnlyReal'
  <2>1. UNCHANGED <<ring, taken>>
    BY <1>5 DEF Submit, ringVars, exchangeVars
  <2>2. \A i \in 1 .. Len(toEx') : \/ \E j \in 1 .. Len(toEx) : toEx'[i] = toEx[j]
                                   \/ \E q \in 0 .. Capacity - 1 : toEx'[i] = ring[q]
    <3> SUFFICES ASSUME NEW i \in 1 .. Len(toEx')
                 PROVE  \/ \E j \in 1 .. Len(toEx) : toEx'[i] = toEx[j]
                        \/ \E q \in 0 .. Capacity - 1 : toEx'[i] = ring[q]
      OBVIOUS
    <3>1. \/ i \in 1 .. Len(toEx) /\ toEx'[i] = toEx[i]
          \/ \E x \in 1 .. k : /\ i = Len(toEx) + x
                               /\ toEx'[Len(toEx) + x] = ring[(head + x - 1) % Capacity]
      <4>1. /\ \A j \in 1 .. Len(toEx) : toEx'[j] = toEx[j]
            /\ conn = "up" => \A x \in 1 .. k :
                 toEx'[Len(toEx) + x] = ring[(head + x - 1) % Capacity]
            /\ \A j \in 1 .. Len(toEx') :
                 \/ j \in 1 .. Len(toEx)
                 \/ conn = "up" /\ \E x \in 1 .. k : j = Len(toEx) + x
        BY <1>1, <1>5, SubmitMoves
      <4> QED BY <4>1, Zenon
    <3>2. \A x \in 1 .. k : (head + x - 1) % Capacity \in 0 .. Capacity - 1
      BY <1>1, Constants DEF RingTypes
    <3> QED BY <3>1, <3>2
  <2> QED BY <1>1, <1>2, <2>1, <2>2, RealMoves
<1>6. CASE SubmitError \/ LeavesBytes \/ Reap \/ Notify \/ FillStep \/ UNCHANGED connVars
  <2>1. FillStep => FillUnchanged
    BY <1>1, FillDoes
  <2>2. UNCHANGED <<ring, toEx, taken>>
    <3>1. SubmitError => toEx' = toEx /\ UNCHANGED <<ring, taken>>
      <4>1. SubmitError => toEx' = toEx
        BY <1>1, SubmitErrorTypes
      <4> QED BY <4>1 DEF SubmitError, ringVars, exchangeVars
    <3>2. LeavesBytes => UNCHANGED <<ring, toEx, taken>>
      <4>1. LeavesBytes => UNCHANGED <<ringVars, toEx, exchangeVars>>
        BY <1>1, LeavesTypes
      <4> QED BY <4>1 DEF ringVars, exchangeVars
    <3>3. Reap \/ Notify \/ FillUnchanged \/ UNCHANGED connVars => UNCHANGED <<ring, toEx, taken>>
      BY DEF Reap, ReapUnchanged, Notify, FillUnchanged, connVars, ringVars, exchangeVars
    <3> QED BY <1>6, <2>1, <3>1, <3>2, <3>3
  <2> QED BY <1>1, <1>2, <2>2, RealMoves
<1>7. CASE Exchange
  <2>1. ring' = ring
    BY <1>1, <1>7, ExchangeDoes DEF ExchangeUnchanged, ringVars
  <2>2. \A i \in 1 .. Len(toEx') : \E j \in 1 .. Len(toEx) : toEx'[i] = toEx[j]
    BY <1>1, <1>7, ExchangeMoves
  <2>3. \A i \in 1 .. Len(taken') : \/ \E j \in 1 .. Len(taken) : taken'[i] = taken[j]
                                    \/ \E j \in 1 .. Len(toEx) : taken'[i] = toEx[j].msg
    <3>1. CASE taken' = taken
      BY <1>2, <3>1
    <3>2. ASSUME NEW m \in Requests, m = toEx[1].msg, taken' = Append(taken, m),
                 \A i \in 1 .. Size(m) : i \in 1 .. Len(toEx)
          PROVE  \A i \in 1 .. Len(taken') : \/ \E j \in 1 .. Len(taken) : taken'[i] = taken[j]
                                             \/ \E j \in 1 .. Len(toEx) : taken'[i] = toEx[j].msg
      <4>1. m \in Messages /\ taken \in Seq(Requests)
        BY <1>1 DEF Messages, WireTypes
      <4>2. 1 \in 1 .. Size(m)
        BY <4>1, Sizes
      <4>3. 1 \in 1 .. Len(toEx)
        BY <3>2, <4>2
      <4>4. /\ Len(taken') = Len(taken) + 1 /\ taken'[Len(taken) + 1] = m /\ Len(taken) \in Nat
            /\ \A i \in 1 .. Len(taken) : taken'[i] = taken[i]
        BY <3>2, <4>1, AppendProperties, LenProperties
      <4>5. \A i \in 1 .. Len(taken) + 1 : i \in 1 .. Len(taken) \/ i = Len(taken) + 1
        BY <4>4
      <4> QED BY <3>2, <4>3, <4>4, <4>5
    <3> QED BY <1>1, <1>7, <3>1, <3>2, ExchangeMoves
  <2> QED BY <1>1, <1>2, <2>1, <2>2, <2>3, RealMoves
<1>8. CASE Passes
  BY <1>5, <1>6, <1>7, <1>8, Zenon DEF Passes, SendZcAll, LeavesBytes
<1> QED BY <1>3, <1>4, <1>8, Cases, Zenon

(* mtx_ passes from one sending call to the next.                          *)
LEMMA MutualStep ==
  ASSUME CallTypes, ConnInv, Mutual, [Next]_vars
  PROVE  Mutual'
<1>1. /\ RingTypes /\ WireTypes /\ RefsOK /\ want' = want /\ 0 \notin Calls
      /\ mtx \in Calls \cup {NoCall}
  BY Cases, ConnectionAssumption DEF ConnInv, RingTypes, Calls
<1>2. ASSUME NEW u \in Calls PROVE Query(u)' = Query(u) /\ Order(u)' = Order(u)
  BY <1>1 DEF Query, Order
<1>3. ASSUME NEW t \in Calls, Local(t) PROVE Mutual'
  <2>1. PICK l : Goto(t, l) /\ l \in {"lock", "query", "order", "done"}
    BY <1>3 DEF Local
  <2>2. pc'[t] = l /\ \A u \in Calls : u # t => pc'[u] = pc[u]
    BY <2>1, Goes
  <2>3. mtx' = mtx /\ tx' = tx /\ pc[t] \in {"new", "lock", "wait"}
    BY <1>3 DEF Local, connVars
  <2>4. mtx # NoCall => mtx \in Calls /\ mtx # t /\ pc'[mtx] = pc[mtx]
    BY <1>1, <2>2, <2>3 DEF Mutual
  <2>5. mtx # NoCall => /\ pc'[mtx] \in {"sendQ", "sendO"}
                        /\ tx'.msg = IF pc'[mtx] = "sendQ" THEN Query(mtx)' ELSE Order(mtx)'
    BY <1>2, <2>3, <2>4 DEF Mutual
  <2>6. \A u \in Calls : pc'[u] \in {"sendQ", "sendO"} => mtx = u
    BY <2>1, <2>2 DEF Mutual
  <2> QED BY <2>3, <2>5, <2>6 DEF Mutual, Query, Order
<1>4. ASSUME NEW t \in Calls, NEW m \in Requests, Begins(t, m) \/ Spins(t, m) PROVE Mutual'
  <2>1. mtx = NoCall /\ mtx' = t /\ tx'.msg = m
    BY <1>4 DEF Begins, Spins, Begin, Spin
  <2>2. \/ pc'[t] = "sendQ" /\ m = Query(t)'
        \/ pc'[t] = "sendO" /\ m = Order(t)'
    BY <1>2, <1>4, Goes DEF Begins, Spins
  <2>3. \A u \in Calls : u # t => pc'[u] = pc[u]
    BY <1>4, Goes DEF Begins, Spins
  <2>4. \A u \in Calls : pc[u] \notin {"sendQ", "sendO"}
    BY <1>1, <2>1 DEF Mutual, NoCall
  <2>5. \A u \in Calls : pc'[u] \in {"sendQ", "sendO"} => u = t
    BY <2>3, <2>4
  <2> QED BY <2>1, <2>2, <2>5 DEF Mutual, Query, Order
<1>5. ASSUME NEW t \in Calls, Ends(t) PROVE Mutual'
  <2>1. mtx = t /\ mtx' = NoCall
    BY <1>5 DEF Ends, Finish
  <2>2. pc'[t] \in {"wait", "done"} /\ \A u \in Calls : u # t => pc'[u] = pc[u]
    BY <1>5, Goes DEF Ends
  <2>3. \A u \in Calls : pc[u] \in {"sendQ", "sendO"} => u = t
    BY <2>1 DEF Mutual
  <2> QED BY <2>1, <2>2, <2>3 DEF Mutual
<1>6. CASE Passes
  <2>0. pc' = pc
    BY <1>6, PassesKeeps
  <2>1. mtx' = mtx /\ tx'.msg = tx.msg
    <3>1. CASE Exchange
      BY <1>1, <3>1, ExchangeDoes DEF ExchangeUnchanged
    <3>2. CASE FillStep
      BY <1>1, <3>2, FillDoes DEF FillUnchanged
    <3>3. CASE (\E k \in 1 .. Capacity : Submit(k)) \/ SubmitError \/ Reap \/ Notify \/ UNCHANGED connVars
      BY <1>1, <3>3 DEF Submit, SubmitError, Reap, ReapUnchanged, Notify, connVars, RingTypes
    <3>4. CASE LeavesBytes
      <4>1. tx' = [tx EXCEPT !.at = "failed"] /\ mtx' = mtx
        BY <1>1, <3>4, LeavesTypes
      <4> QED BY <1>1, <4>1 DEF RingTypes
    <3> QED BY <1>6, <3>1, <3>2, <3>3, <3>4, Zenon DEF Passes, SendZcAll, LeavesBytes
  <2>2. mtx # NoCall => mtx \in Calls
    BY <1>1
  <2> QED BY <1>1, <2>0, <2>1 DEF Mutual, Query, Order
<1> QED BY <1>3, <1>4, <1>5, <1>6, Cases

(* What has gone wrong stays so.                                           *)
LEMMA Grows ==
  ASSUME CallTypes, ConnInv, [Next]_vars
  PROVE  /\ stale => stale'
         /\ kept => kept'
         /\ LeftBehind => LeftBehind'
         /\ Failing => Failing'
         /\ conn' = "up" => conn = "up"
         /\ LeavesBytes => kept'
<1>1. RingTypes /\ WireTypes
  BY DEF ConnInv
<1>2. /\ stale => stale'
      /\ kept => kept'
      /\ gapped => gapped'
      /\ faults' \in Nat /\ faults <= faults'
      /\ conn # "up" => conn' # "up"
      /\ LeavesBytes => kept'
  <2>1. CASE Exchange
    <3>1. ExchangeUnchanged /\ conn = "up"
      <4>1. RefsOK
        BY DEF ConnInv
      <4> QED BY <1>1, <2>1, <4>1, ExchangeDoes
    <3>2. UNCHANGED <<stale, kept, gapped, faults, tx, staged, sqes>>
      BY <3>1 DEF ExchangeUnchanged, ringVars, kernelVars
    <3>3. ~LeavesBytes
      BY <1>1, <3>2, LeavesTypes DEF RingTypes
    <3> QED BY <1>1, <3>1, <3>2, <3>3 DEF RingTypes
  <2>2. CASE FillStep
    <3>1. FillUnchanged
      BY <1>1, <2>2, FillDoes
    <3>2. UNCHANGED <<stale, kept, gapped, faults, tx, staged, sqes, conn>>
      BY <3>1 DEF FillUnchanged, ringVars, kernelVars
    <3>3. ~LeavesBytes
      BY <1>1, <3>2, LeavesTypes DEF RingTypes
    <3> QED BY <1>1, <3>2, <3>3 DEF RingTypes
  <2>3. CASE UNCHANGED connVars
    <3>1. UNCHANGED <<stale, kept, gapped, faults, tx, staged, sqes, conn>>
      BY <2>3 DEF connVars, ringVars, kernelVars
    <3>2. ~LeavesBytes
      BY <1>1, <3>1, LeavesTypes DEF RingTypes
    <3> QED BY <1>1, <3>1, <3>2 DEF RingTypes
  <2>4. CASE SendStep
    <3>1. (kept => kept') /\ (LeavesBytes => kept')
      BY <2>4, KeptGrows
    <3>2. (stale => stale') /\ (gapped => gapped') /\ faults' \in Nat /\ faults <= faults' /\ conn' = conn
      <4>1. ASSUME NEW t \in Calls, NEW m \in Requests, Begin(t, m) \/ Spin(t, m)
            PROVE  (gapped => gapped') /\ UNCHANGED <<stale, faults, conn>>
        <5>1. Begin(t, m) => (gapped => gapped')
          BY Zenon DEF Begin
        <5>2. Spin(t, m) => gapped' = gapped
          BY DEF Spin, ringVars
        <5> QED BY <4>1, <5>1, <5>2 DEF Begin, Spin, kernelVars
      <4>2. ASSUME NEW k \in 1 .. Capacity, Submit(k)
            PROVE  UNCHANGED <<gapped, stale, faults, conn>>
        BY <4>2 DEF Submit, ringVars
      <4>3. Finish \/ Notify => UNCHANGED <<gapped, stale, faults, conn>>
        BY DEF Finish, Notify, ringVars, kernelVars
      <4>4. SubmitError => UNCHANGED <<gapped, stale, conn>> /\ faults' \in {faults, faults + 1}
        BY DEF SubmitError, ringVars
      <4>5. LeavesBytes => UNCHANGED <<gapped, stale, conn>> /\ faults' \in {faults, faults + 1}
        BY DEF LeavesBytes, NoSqe, SubmitFails, WaitFails, LeaveBytes, ringVars
      <4>6. Reap => UNCHANGED <<gapped, faults, conn>> /\ (stale => stale')
        BY DEF Reap, ReapUnchanged, ReapRecords
      <4>7. faults \in Nat
        BY <1>1 DEF RingTypes
      <4>8. CASE \E t \in Calls : \E m \in Requests : Begin(t, m) \/ Spin(t, m)
        BY <4>1, <4>7, <4>8
      <4>9. CASE \E k \in 1 .. Capacity : Submit(k)
        BY <4>2, <4>7, <4>9
      <4>10. CASE Finish \/ Notify
        BY <4>3, <4>7, <4>10
      <4>11. CASE SubmitError \/ LeavesBytes
        BY <4>4, <4>5, <4>7, <4>11
      <4>12. CASE Reap
        BY <4>6, <4>7, <4>12
      <4> QED BY <2>4, <4>8, <4>9, <4>10, <4>11, <4>12, Zenon DEF SendStep, SendZcAll, LeavesBytes
    <3> QED BY <3>1, <3>2
  <2> QED BY <2>1, <2>2, <2>3, <2>4, Steps
<1>3. faults \in Nat
  BY <1>1 DEF RingTypes
<1>4. faults > 0 => faults' > 0
  BY <1>2, <1>3
<1> QED BY <1>2, <1>4 DEF LeftBehind, Failing

(* A message whose last byte is missing stays unread: what the exchange    *)
(* reads or drops adds no byte,                                            *)
LEMMA LostExchange ==
  ASSUME WireTypes, RefsOK, Exchange, NEW x, Lost(x)
  PROVE  Lost(x)'
<1> DEFINE last == Byte(x, Size(x))
<1>1. last' = last
  BY DEF Byte, Size, MsgLen
<1>a. (\A i \in 1 .. Len(toEx) : toEx[i] # last) /\ (\A i \in 1 .. Len(taken) : taken[i] # x)
  BY DEF Lost
<1>2. ASSUME NEW m \in Requests, \A i \in 1 .. Size(m) : i \in 1 .. Len(toEx) /\ toEx[i] = Byte(m, i)
      PROVE  m # x
  <2>1. m \in Messages
    BY DEF Messages
  <2>2. Size(m) \in 1 .. Size(m)
    BY <2>1, Sizes
  <2>3. toEx[Size(m)] = Byte(m, Size(m)) /\ Size(m) \in 1 .. Len(toEx)
    BY <1>2, <2>2
  <2> QED BY <1>a, <2>3
<1> HIDE DEF last
<1>3. \A i \in 1 .. Len(toEx') : toEx'[i] # last
  BY <1>a, ExchangeMoves
<1>4. ASSUME NEW m \in Requests, m # x, taken' = Append(taken, m) PROVE \A i \in 1 .. Len(taken') : taken'[i] # x
  <2>1. taken \in Seq(Requests)
    BY DEF WireTypes
  <2>2. /\ Len(taken') = Len(taken) + 1 /\ taken'[Len(taken) + 1] = m /\ Len(taken) \in Nat
        /\ \A i \in 1 .. Len(taken) : taken'[i] = taken[i]
    BY <1>4, <2>1, AppendProperties, LenProperties
  <2>3. \A i \in 1 .. Len(taken) + 1 : i \in 1 .. Len(taken) \/ i = Len(taken) + 1
    BY <2>2
  <2> QED BY <1>4, <1>a, <2>2, <2>3
<1>5. \A i \in 1 .. Len(taken') : taken'[i] # x
  <2>1. CASE taken' = taken
    BY <1>a, <2>1
  <2> QED BY <1>2, <1>4, <2>1, ExchangeMoves
<1> QED BY <1>1, <1>3, <1>5 DEF Lost, last

(* and another message's submission has none of its bytes.                 *)
LEMMA LostSubmit ==
  ASSUME ConnInv, ~Slipped, NEW k \in 1 .. Capacity, Submit(k), NEW x, x # tx.msg, Lost(x)
  PROVE  Lost(x)'
<1>1. RingTypes /\ WireTypes /\ ~kept
  BY DEF ConnInv, Slipped
<1>2. /\ k \in 1 .. tx.left
      /\ \A i \in 1 .. Len(toEx) : toEx'[i] = toEx[i]
      /\ conn = "up" => \A y \in 1 .. k : toEx'[Len(toEx) + y] = ring[(head + y - 1) % Capacity]
      /\ \A i \in 1 .. Len(toEx') :
           \/ i \in 1 .. Len(toEx)
           \/ conn = "up" /\ \E y \in 1 .. k : i = Len(toEx) + y
  BY <1>1, SubmitMoves
<1>3. tx.at = "submit" /\ taken' = taken
  BY DEF Submit, exchangeVars
<1>4. LeftInRing /\ tx.left \in Nat
  BY <1>1, <1>3 DEF ConnInv, RingOK, Sending, RingTypes
<1>5. ASSUME NEW y \in 1 .. k PROVE ring[(head + y - 1) % Capacity].msg = tx.msg
  <2>1. y \in 1 .. tx.left
    BY <1>2, <1>4
  <2>2. ring[(head + y - 1) % Capacity] = Byte(tx.msg, Size(tx.msg) - tx.left + y)
    BY <1>4, <2>1 DEF LeftInRing
  <2> QED BY <2>2 DEF Byte
<1>6. Byte(x, Size(x)).msg = x /\ Byte(x, Size(x))' = Byte(x, Size(x))
  BY DEF Byte, Size, MsgLen
<1>7. ASSUME NEW i \in 1 .. Len(toEx') PROVE toEx'[i] # Byte(x, Size(x))
  <2>1. CASE i \in 1 .. Len(toEx)
    BY <1>2, <2>1 DEF Lost
  <2>2. ASSUME conn = "up", NEW y \in 1 .. k, i = Len(toEx) + y PROVE toEx'[i] # Byte(x, Size(x))
    <3>1. toEx'[i] = ring[(head + y - 1) % Capacity]
      BY <1>2, <2>2
    <3> QED BY <1>5, <1>6, <3>1
  <2> QED BY <1>2, <2>1, <2>2
<1>8. \A i \in 1 .. Len(taken') : taken'[i] # x
  BY <1>3 DEF Lost
<1> QED BY <1>6, <1>7, <1>8 DEF Lost

(* Nothing changes what is lost but these two.                             *)
LEMMA LostSame ==
  ASSUME UNCHANGED <<toEx, taken>>, NEW x, Lost(x)
  PROVE  Lost(x)'
BY DEF Lost, Byte, Size, MsgLen

(* A message whose send failed stays lost, while nothing was left behind:  *)
(* if its connection is up, the ring holds what is sent next and no more.  *)
LEMMA LostStep ==
  ASSUME CallTypes, ConnInv, Mutual, ~stale, ~LeftBehind, [Next]_vars,
         NEW u \in Calls, pc[u] = "done", Failing, NEW x, x.n = u, Lost(x)
  PROVE  Failing' /\ pc'[u] = "done" /\ Lost(x)'
<1>1. RingTypes /\ WireTypes /\ RefsOK /\ want' = want
  BY Cases DEF ConnInv
<1>2. Failing /\ pc[u] = "done"
  OBVIOUS
<1>3. Failing'
  BY <1>2, Grows
<1>4. pc'[u] = "done"
  <2>1. ASSUME NEW t \in Calls, NEW l, Goto(t, l), pc[t] # "done" PROVE pc'[u] = "done"
    <3>1. u # t
      BY <1>2, <2>1
    <3> QED BY <1>1, <1>2, <2>1, <3>1, Goes
  <2>2. ASSUME NEW t \in Calls, NEW m \in Requests, Local(t) \/ Ends(t) \/ Begins(t, m) \/ Spins(t, m)
        PROVE  pc'[u] = "done"
    BY <2>1, <2>2 DEF Local, Ends, Begins, Spins
  <2>3. CASE Passes
    BY <1>2, <2>3, PassesKeeps
  <2>4. \E m : m \in Requests
    BY <1>1, RequestTypes
  <2> QED BY <2>2, <2>3, <2>4, Cases, Zenon
<1>7. Lost(x)'
  <2>1. Lost(x)
    OBVIOUS
  <2>2. CASE UNCHANGED <<toEx, taken>>
    BY <2>1, <2>2, LostSame
  <2>3. CASE Exchange
    BY <1>1, <2>1, <2>3, LostExchange
  <2>4. ASSUME NEW k \in 1 .. Capacity, Submit(k) PROVE Lost(x)'
    <3>1. CASE conn = "up"
      <4>1. ~Slipped
        BY <1>1, <1>2, <3>1 DEF Failing, LeftBehind, Slipped, RingTypes
      <4>2. x # tx.msg
        <5>1. mtx # NoCall
          BY <2>4 DEF ConnInv, SendOK, Submit
        <5>2. pc[mtx] \in {"sendQ", "sendO"} /\ tx.msg \in {Query(mtx), Order(mtx)}
          BY <5>1 DEF Mutual
        <5>3. Query(mtx).n = mtx /\ Order(mtx).n = mtx
          BY DEF Query, Order
        <5> QED BY <1>2, <5>2, <5>3
      <4> QED BY <2>1, <2>4, <4>1, <4>2, LostSubmit
    <3>2. CASE conn # "up"
      <4>1. UNCHANGED <<toEx, taken>>
        BY <2>4, <3>2 DEF Submit, exchangeVars
      <4> QED BY <2>1, <4>1, LostSame
    <3> QED BY <3>1, <3>2
  <2> QED BY <2>2, <2>3, <2>4, WireSteps DEF LeftBehind
<1> QED BY <1>3, <1>4, <1>7

(* Rejected orders and failed queries are such messages.                   *)
LEMMA RejectedStep ==
  ASSUME CallTypes, ConnInv, Mutual, ~stale, ~LeftBehind, LastKept, [Next]_vars, NEW u \in rejected
  PROVE  Failing' /\ pc'[u] = "done" /\ Lost(Order(u))'
<1>1. u \in Calls /\ Failing /\ pc[u] = "done" /\ Lost(Order(u)) /\ want' = want
  BY Cases DEF CallTypes, LastKept
<1>2a. Order(u).n = u
  BY DEF Order
<1>2. PICK x : x = Order(u) /\ x.n = u
  BY <1>2a
<1>3. Failing' /\ pc'[u] = "done" /\ Lost(x)'
  BY <1>1, <1>2, LostStep
<1>4. Order(u)' = x
  BY <1>1, <1>2 DEF Order
<1> QED BY <1>3, <1>4 DEF Lost, Byte, Size, MsgLen

LEMMA ForgoneStep ==
  ASSUME CallTypes, ConnInv, Mutual, ~stale, ~LeftBehind, [Next]_vars
  PROVE  \A u \in Calls : Forgone(u) => Forgone(u)'
<1>1. SUFFICES ASSUME NEW u \in Calls, Forgone(u) PROVE Forgone(u)'
  OBVIOUS
<1>2. pc[u] = "done" /\ Failing /\ Lost(Query(u)) /\ want' = want
  BY <1>1, Cases DEF Forgone
<1>3a. Query(u).n = u
  BY DEF Query
<1>3. PICK x : x = Query(u) /\ x.n = u
  BY <1>3a
<1>4. Failing' /\ pc'[u] = "done" /\ Lost(x)'
  BY <1>2, <1>3, LostStep
<1>5. Query(u)' = x
  BY <1>2, <1>3 DEF Query
<1> QED BY <1>4, <1>5 DEF Forgone, Lost, Byte, Size, MsgLen

(* What LastKept says of the send under way.                               *)
OwnKept ==
  /\ Sending => \A r \in 0 .. Capacity - 1 : ring[r] = LastByte => r = (tail - 1) % Capacity
  /\ tx.at \in {"submit", "failed"} => Lost(tx.msg)
  /\ tx.at = "reap" => Lost(tx.msg) \/ Out(tx.left)

LEMMA LastSame ==
  ASSUME LastKept, UNCHANGED <<ring, tail, tx, toEx, taken>>, Out(tx.left) => Out(tx.left)'
  PROVE  OwnKept'
<1>1. Sending' = Sending /\ LastByte' = LastByte /\ Lost(tx.msg)' = Lost(tx.msg)
  BY DEF Sending, LastByte, Lost, Byte, Size, MsgLen
<1> QED BY <1>1 DEF LastKept, OwnKept

(* A message that no call has sent has no byte anywhere.                   *)
LEMMA NotBegan ==
  ASSUME RingTypes, WireTypes, OnlyReal, NEW m \in Requests, ~Began(m)
  PROVE  /\ \A r \in 0 .. Capacity - 1 : ring[r].msg # m
         /\ \A i \in 1 .. Len(toEx) : toEx[i].msg # m
         /\ \A i \in 1 .. Len(taken) : taken[i] # m
<1>1. m # NoMsg
  BY DEF Requests, NoMsg
<1>2. \A n : n = m => ~Real(n)
  BY <1>1 DEF Real
<1> QED BY <1>2 DEF OnlyReal

(* push puts the last byte just before the tail.                           *)
LEMMA LastBegin ==
  ASSUME CallTypes, ConnInv, OnlyReal, NEW t \in Calls, NEW m \in Requests, Begins(t, m)
  PROVE  OwnKept'
<1>1. RingTypes /\ WireTypes /\ SendOK /\ Begin(t, m)
  BY DEF ConnInv, Begins
<1>2. m.n = t /\ ~Began(m)
  BY DEF Begins, Began, Query, Order
<1>3. /\ \A r \in 0 .. Capacity - 1 : ring[r].msg # m
      /\ \A i \in 1 .. Len(toEx) : toEx[i].msg # m
      /\ \A i \in 1 .. Len(taken) : taken[i] # m
  BY <1>1, <1>2, NotBegan
<1>4. UNCHANGED <<toEx, taken>>
  BY DEF Begins, Begin, exchangeVars
<1> DEFINE len == Size(m)
           start == Start(len)
<1>5. /\ len \in Nat \ {0} /\ start \in Nat /\ tail' = start + len
      /\ tx' = [at |-> "submit", msg |-> m, left |-> len]
      /\ \A r \in 0 .. Capacity - 1 :
           \/ ring'[r] = ring[r]
           \/ \E x \in 0 .. len - 1 : r = (start + x) % Capacity /\ ring'[r] = Byte(m, x + 1)
  BY <1>1, BeginCopies
<1> HIDE DEF len, start
<1>6. tx'.at = "submit" /\ tx'.msg = m /\ LastByte' = Byte(m, len)
  BY <1>5 DEF LastByte, Size, Byte, len
<1>7. \A i \in Int, j \in Int : Byte(m, i).msg = m /\ (Byte(m, i) = Byte(m, j) => i = j)
  BY DEF Byte
<1>8. ASSUME NEW r \in 0 .. Capacity - 1, ring'[r] = Byte(m, len) PROVE r = (tail' - 1) % Capacity
  <2>1. PICK x \in 0 .. len - 1 : r = (start + x) % Capacity /\ ring'[r] = Byte(m, x + 1)
    <3>1. Byte(m, len).msg = m
      BY <1>5, <1>7
    <3>2. ring'[r] # ring[r]
      BY <1>3, <1>8, <3>1
    <3> QED BY <1>5, <3>2
  <2>2. x + 1 \in Int /\ len \in Int
    BY <1>5
  <2>3. x + 1 = len
    BY <1>7, <1>8, <2>1, <2>2
  <2>4. start + x = tail' - 1
    BY <1>5, <2>3
  <2> QED BY <2>1, <2>4
<1>9. Lost(tx.msg)'
  <2>1. \A i \in 1 .. Len(toEx) : toEx[i] # Byte(m, len)
    BY <1>3 DEF Byte
  <2>2. Byte(tx.msg, Size(tx.msg))' = Byte(m, len) /\ tx'.msg = m
    BY <1>6 DEF Size, Byte, MsgLen, len
  <2> QED BY <1>3, <1>4, <2>1, <2>2 DEF Lost
<1> QED BY <1>6, <1>8, <1>9 DEF OwnKept

(* The last byte goes out with the last piece only.                        *)
LEMMA LastSubmit ==
  ASSUME ConnInv, Regular, LastKept, NEW k \in 1 .. Capacity, Submit(k)
  PROVE  OwnKept'
<1>1. RingTypes /\ WireTypes /\ SendOK /\ ~kept
  BY DEF ConnInv, Regular
<1>2. /\ tx.at = "submit" /\ tx' = [tx EXCEPT !.at = "reap"]
      /\ cq' = Append(cq, [n |-> sqes + 1, res |-> k])
      /\ UNCHANGED <<ring, head, tail, taken, conn>>
  <2>1. cq' = Append(cq, [n |-> sqes + 1, res |-> k])
    BY <1>1, SubmitTypes
  <2> QED BY <2>1 DEF Submit, ringVars, exchangeVars
<1>3. tx'.at = "reap" /\ tx'.msg = tx.msg /\ tx'.left = tx.left
  BY <1>1, <1>2 DEF RingTypes
<1>4. LastByte' = LastByte
  BY <1>3 DEF LastByte, Byte, Size, MsgLen
<1>5. /\ k \in 1 .. tx.left /\ k <= Used /\ Used \in Nat
      /\ \A i \in 1 .. Len(toEx) : toEx'[i] = toEx[i]
      /\ conn = "up" => \A x \in 1 .. k :
           /\ (head + x - 1) % Capacity \in 0 .. Capacity - 1
           /\ toEx'[Len(toEx) + x] = ring[(head + x - 1) % Capacity]
      /\ \A i \in 1 .. Len(toEx') :
           \/ i \in 1 .. Len(toEx)
           \/ conn = "up" /\ \E x \in 1 .. k : i = Len(toEx) + x
  BY <1>1, SubmitMoves
<1>6. /\ Used <= Capacity /\ tx.left <= Used /\ Lost(tx.msg) /\ tx.left \in Nat
      /\ head \in Nat /\ tail \in Nat /\ Capacity \in Nat \ {0} /\ k \in Nat
      /\ \A r \in 0 .. Capacity - 1 : ring[r] = LastByte => r = (tail - 1) % Capacity
  BY <1>1, <1>2, Constants DEF SendOK, Sending, Regular, LastKept, RingTypes
<1>7. CASE k = tx.left
  <2>1. [n |-> sqes + 1, res |-> k] \in [n : Nat, res : Int] /\ sqes + 1 # 0
    BY <1>1, <1>6 DEF RingTypes
  <2>2. Len(cq) + 1 \in 1 .. Len(cq') /\ cq'[Len(cq) + 1] = [n |-> sqes + 1, res |-> k]
    BY <1>1, <1>2, <2>1, Appended
  <2>3. Out(tx.left)'
    BY <1>3, <1>7, <2>1, <2>2 DEF Out, Own
  <2> QED BY <1>2, <1>3, <1>4, <1>6, <2>3 DEF OwnKept
<1>8. CASE k # tx.left
  <2>1. ASSUME conn = "up", NEW x \in 1 .. k PROVE ring[(head + x - 1) % Capacity] # LastByte
    <3>1. SUFFICES ASSUME (head + x - 1) % Capacity = (tail - 1) % Capacity PROVE FALSE
      BY <1>5, <1>6, <2>1
    <3>2. Used = Gap(head, tail)
      BY DEF Used, Gap
    <3>3. \A i \in Int : (head + i) % Capacity = (tail - Used + i) % Capacity
      BY <1>6, <3>2, GapMoves
    <3>4. PICK u \in Nat : u = Used /\ x < u /\ u <= Capacity /\ x >= 1
      BY <1>5, <1>6, <1>8
    <3>5. x - 1 \in Int /\ head + (x - 1) = head + x - 1 /\ tail - u + (x - 1) \in Int /\ tail - 1 \in Int
      BY <1>6
    <3>6. (tail - u + (x - 1)) % Capacity = (tail - 1) % Capacity
      BY <3>1, <3>3, <3>4, <3>5, Zenon
    <3>7. (tail - u + (x - 1)) - (tail - 1) < Capacity /\ (tail - 1) - (tail - u + (x - 1)) < Capacity
      BY <1>6, <3>4
    <3>8. tail - u + (x - 1) = tail - 1
      BY <1>6, <3>5, <3>6, <3>7, ModDistinct
    <3> QED BY <1>6, <3>4, <3>8
  <2>2. Lost(tx.msg)'
    <3>1. ASSUME NEW i \in 1 .. Len(toEx') PROVE toEx'[i] # LastByte
      <4>1. CASE i \in 1 .. Len(toEx)
        BY <1>5, <1>6, <4>1 DEF Lost, LastByte
      <4>2. ASSUME conn = "up", NEW x \in 1 .. k, i = Len(toEx) + x PROVE toEx'[i] # LastByte
        BY <1>5, <2>1, <4>2
      <4> QED BY <1>5, <4>1, <4>2, Zenon
    <3>2. \A i \in 1 .. Len(taken') : taken'[i] # tx.msg
      BY <1>2, <1>6 DEF Lost
    <3> QED BY <1>3, <1>4, <3>1, <3>2 DEF Lost, LastByte
  <2> QED BY <1>2, <1>3, <1>4, <1>6, <2>2 DEF OwnKept
<1> QED BY <1>7, <1>8

(* A submission that fails sends nothing.                                  *)
LEMMA LastSubmitError ==
  ASSUME ConnInv, ~kept, LastKept, SubmitError
  PROVE  OwnKept'
<1>1. /\ tx.at = "submit" /\ tx' = [tx EXCEPT !.at = "reap"]
      /\ UNCHANGED <<ring, tail, taken>>
  BY DEF SubmitError, ringVars, exchangeVars
<1>2. toEx' = toEx
  BY SubmitErrorTypes DEF ConnInv
<1>3. tx'.at = "reap" /\ tx'.msg = tx.msg
  BY <1>1 DEF ConnInv, RingTypes
<1>4. LastByte' = LastByte /\ Lost(tx.msg)' = Lost(tx.msg)
  BY <1>1, <1>2, <1>3 DEF LastByte, Lost, Byte, Size, MsgLen
<1> QED BY <1>1, <1>3, <1>4 DEF LastKept, OwnKept, Sending

(* A send that counts on, or fails, has kept its last byte.                *)
LEMMA LastReap ==
  ASSUME ConnInv, ~kept, ~stale', LastKept, Reap
  PROVE  OwnKept'
<1>1. RingTypes /\ WireTypes /\ SendOK /\ RingTypes'
  BY ReapTypes DEF ConnInv
<1>2. tx.at = "reap" /\ UNCHANGED <<ring, tail, toEx, taken>>
  BY DEF Reap, ReapUnchanged, exchangeVars
<1>3. /\ \A i \in 1 .. Len(cq) : Own(i) => i = 1
      /\ \/ /\ cq[1].res \in 1 .. tx.left /\ tx'.left = tx.left - cq[1].res
            /\ tx'.msg = tx.msg /\ tx'.at = IF tx'.left = 0 THEN "ok" ELSE "submit"
         \/ cq[1].res = -1 /\ tx'.at = "failed" /\ tx'.msg = tx.msg
  BY <1>1, ReapOwn
<1>4. tx'.msg = tx.msg /\ tx.left \in Nat
  BY <1>1, <1>3 DEF RingTypes
<1>5. LastByte' = LastByte /\ Lost(tx.msg)' = Lost(tx.msg)
  BY <1>2, <1>4 DEF LastByte, Lost, Byte, Size, MsgLen
<1>6. tx'.at \in {"ok", "submit", "failed"} /\ (tx'.at # "ok" => cq[1].res # tx.left)
  BY <1>3, <1>4
<1>7. tx'.at # "ok" => Lost(tx.msg)
  <2>1. Out(tx.left) => cq[1].res = tx.left
    <3>1. tx.left > 0
      BY <1>1, <1>2 DEF SendOK, Sending
    <3> QED BY <1>2, <1>3, <1>4, <3>1 DEF Out
  <2> QED BY <1>2, <1>6, <2>1 DEF LastKept
<1>8. Sending' => tx'.at = "submit"
  BY <1>6 DEF Sending
<1>9. \A r \in 0 .. Capacity - 1 : ring[r] = LastByte => r = (tail - 1) % Capacity
  BY <1>2 DEF LastKept, Sending
<1> QED BY <1>2, <1>5, <1>6, <1>7, <1>8, <1>9 DEF OwnKept

(* A message whose last byte is missing is not read.                       *)
LEMMA LastExchange ==
  ASSUME ConnInv, LastKept, Exchange
  PROVE  OwnKept'
<1>1. RingTypes /\ WireTypes /\ RefsOK
  BY DEF ConnInv
<1>2. UNCHANGED <<ring, tail, tx, cq>>
  BY <1>1, ExchangeDoes DEF ExchangeUnchanged, ringVars, kernelVars
<1>3. LastByte' = LastByte /\ Sending' = Sending /\ (Out(tx.left) => Out(tx.left)')
  BY <1>2 DEF LastByte, Byte, Size, MsgLen, Sending, Out, Own
<1>4. PICK x : x = tx.msg
  OBVIOUS
<1>5. Lost(tx.msg) => Lost(tx.msg)'
  <2>1. Lost(x) => Lost(x)'
    BY <1>1, LostExchange
  <2>2. tx'.msg = x
    BY <1>2, <1>4
  <2> QED BY <1>4, <2>1, <2>2 DEF Lost, Byte, Size, MsgLen
<1> QED BY <1>2, <1>3, <1>5 DEF LastKept, OwnKept

(* An order whose send failed has not left the ring as a whole.            *)
LEMMA LastEnds ==
  ASSUME CallTypes, ConnInv, Mutual, Regular, LastKept, want' = want, NEW t \in Calls, Ends(t)
  PROVE  OwnKept' /\ \A u \in rejected' : u \in rejected \/ (Failing' /\ pc'[u] = "done" /\ Lost(Order(u))')
<1>1. mtx = t /\ tx' = Idle /\ UNCHANGED <<toEx, taken, conn, faults>> /\ 0 \notin Calls
  BY ConnectionAssumption DEF Ends, Finish, exchangeVars, kernelVars, Calls
<1>2. OwnKept'
  BY <1>1 DEF Idle, OwnKept, Sending
<1>3. ASSUME pc[t] = "sendO", Goto(t, "done"), tx.at = "failed"
      PROVE  Failing' /\ pc'[t] = "done" /\ Lost(Order(t))'
  <2>1. tx.msg = Order(t)
    BY <1>1, <1>3 DEF Mutual, NoCall
  <2>2. Failing /\ Lost(tx.msg)
    BY <1>3 DEF ConnInv, SendOK, Regular, LastKept
  <2>3. pc'[t] = "done"
    BY <1>3, Goes
  <2>4. Lost(Order(t))'
    BY <1>1, <2>1, <2>2 DEF Lost, Order, Byte, Size, MsgLen
  <2> QED BY <1>1, <2>2, <2>3, <2>4 DEF Failing
<1> QED BY <1>2, <1>3 DEF Ends

(* LastKept is inductive while no completion was mistaken and nothing was  *)
(* left behind.                                                            *)
LEMMA LastKeptStep ==
  ASSUME CallTypes, ConnInv, SendsInv, ~stale', ~LeftBehind', [Next]_vars
  PROVE  LastKept'
<1>1. /\ RingTypes /\ WireTypes /\ RefsOK /\ want' = want /\ Mutual
      /\ ~stale /\ ~LeftBehind /\ ~kept /\ ~kept' /\ Regular
  BY Cases, Grows DEF ConnInv, SendsInv, LeftBehind, Regular
<1>2. OnlyReal /\ LastKept
  BY <1>1 DEF SendsInv
<1>3. \A u \in rejected : Failing' /\ pc'[u] = "done" /\ Lost(Order(u))'
  BY <1>1, <1>2, RejectedStep
<1>4. ASSUME OwnKept', rejected' = rejected PROVE LastKept'
  BY <1>3, <1>4 DEF OwnKept, LastKept
<1>5. ASSUME NEW t \in Calls, Local(t) PROVE LastKept'
  <2>1. UNCHANGED <<connVars, rejected>>
    BY <1>5 DEF Local
  <2>2. UNCHANGED <<ring, tail, tx, toEx, taken, cq, rejected>>
    BY <2>1 DEF connVars, ringVars, kernelVars, exchangeVars
  <2>3. Out(tx.left) => Out(tx.left)'
    BY <2>2 DEF Out, Own
  <2> QED BY <1>2, <1>4, <2>2, <2>3, LastSame
<1>6. ASSUME NEW t \in Calls, NEW m \in Requests, Begins(t, m) PROVE LastKept'
  <2>1. OwnKept'
    BY <1>2, <1>6, LastBegin
  <2> QED BY <1>4, <1>6, <2>1 DEF Begins
<1>7. ASSUME NEW t \in Calls, NEW m \in Requests, Spins(t, m) PROVE LastKept'
  <2>1. OwnKept'
    BY <1>7 DEF Spins, Spin, OwnKept, Sending
  <2> QED BY <1>4, <1>7, <2>1 DEF Spins
<1>8. ASSUME NEW t \in Calls, Ends(t) PROVE LastKept'
  <2>1. OwnKept' /\ \A u \in rejected' : u \in rejected \/ (Failing' /\ pc'[u] = "done" /\ Lost(Order(u))')
    BY <1>1, <1>2, <1>8, LastEnds
  <2> QED BY <1>3, <2>1 DEF OwnKept, LastKept
<1>9. CASE Passes
  <2>1. rejected' = rejected
    BY <1>9, PassesKeeps
  <2>2. ASSUME NEW k \in 1 .. Capacity, Submit(k) PROVE OwnKept'
    BY <1>1, <1>2, <2>2, LastSubmit
  <2>3. ASSUME SubmitError PROVE OwnKept'
    BY <1>1, <1>2, <2>3, LastSubmitError
  <2>4. ASSUME LeavesBytes PROVE OwnKept'
    BY <1>1, <2>4, Grows
  <2>5. ASSUME Reap PROVE OwnKept'
    BY <1>1, <1>2, <2>5, LastReap
  <2>6. ASSUME Exchange PROVE OwnKept'
    BY <1>2, <2>6, LastExchange
  <2>7. ASSUME Notify PROVE OwnKept'
    <3>1. UNCHANGED <<ring, tail, tx, toEx, taken>> /\ cq' = Append(cq, [n |-> 0, res |-> 0])
      BY <2>7 DEF Notify, ringVars, exchangeVars
    <3>2. \A i \in 1 .. Len(cq) : i \in 1 .. Len(cq') /\ cq'[i] = cq[i]
      BY <1>1, <3>1, Appended
    <3>3. Out(tx.left) => Out(tx.left)'
      BY <3>1, <3>2 DEF Out, Own
    <3> QED BY <1>2, <3>1, <3>3, LastSame
  <2>8. ASSUME FillStep \/ UNCHANGED connVars PROVE OwnKept'
    <3>1. FillStep => FillUnchanged
      BY <1>1, FillDoes
    <3>2. UNCHANGED <<ring, tail, tx, toEx, taken, cq>>
      BY <2>8, <3>1 DEF FillUnchanged, connVars, ringVars, exchangeVars, kernelVars
    <3>3. Out(tx.left) => Out(tx.left)'
      BY <3>2 DEF Out, Own
    <3> QED BY <1>2, <3>2, <3>3, LastSame
  <2>9. OwnKept'
    BY <1>9, <2>2, <2>3, <2>4, <2>5, <2>6, <2>7, <2>8, Zenon DEF Passes, SendZcAll, LeavesBytes
  <2> QED BY <1>4, <2>1, <2>9
<1> QED BY <1>5, <1>6, <1>7, <1>8, <1>9, Cases, Zenon

(* The invariant of the sends holds at the start.                          *)
LEMMA SendsStart == ASSUME Init PROVE SendsInv
<1>1. /\ ring = [i \in 0 .. Capacity - 1 |-> NoByte] /\ mtx = NoCall /\ tx = Idle
      /\ toEx = <<>> /\ taken = <<>> /\ rejected = {} /\ pc = [t \in Calls |-> "new"]
  BY DEF Init, ConnInit
<1>2. tx.at = "idle" /\ Len(toEx) = 0 /\ Len(taken) = 0 /\ \A i \in 1 .. 0 : FALSE
  BY <1>1, EmptySeq DEF Idle
<1>3. OnlyReal
  <2>1. \A r \in 0 .. Capacity - 1 : ring[r].msg = NoMsg
    BY <1>1 DEF NoByte
  <2> QED BY <1>2, <2>1 DEF OnlyReal, Real
<1>4. LastKept
  BY <1>1, <1>2 DEF LastKept, Sending
<1>5. Mutual
  BY <1>1 DEF Mutual
<1> QED BY <1>3, <1>4, <1>5 DEF SendsInv

(* Every byte under way belongs to a message that some call has sent, and  *)
(* none but the owner of mtx_ is sending.                                  *)
THEOREM SendsInvariant == Spec => []SendsInv
<1>1. CallTypes /\ ConnInv /\ SendsInv /\ [Next]_vars => SendsInv'
  <2>1. ASSUME CallTypes, ConnInv, SendsInv, [Next]_vars PROVE SendsInv'
    <3>1. Mutual'
      BY <2>1, MutualStep DEF SendsInv
    <3>2. ASSUME ~kept' PROVE OnlyReal'
      <4>1. ~kept
        BY <2>1, <3>2, Grows
      <4> QED BY <2>1, <4>1, OnlyRealStep DEF SendsInv
    <3>3. ASSUME ~stale', ~LeftBehind' PROVE LastKept'
      BY <2>1, <3>3, LastKeptStep
    <3> QED BY <3>1, <3>2, <3>3 DEF SendsInv
  <2> QED BY <2>1
<1> QED BY <1>1, SendsStart, ConnectionInvariant, PTL DEF Spec

(* An order that submit_signal rejected because its send failed is never   *)
(* read by the exchange, also on a connection that stays up, unless a send *)
(* took a completion that was not its own or bytes were left behind: the   *)
(* last byte of its message was not out when the send failed, and no later *)
(* submission holds it.                                                    *)
THEOREM RejectedStaysUnsent == Spec => []RejectedIsUnsentUnlessLeft
<1>1. CallTypes /\ ConnInv /\ SendsInv => RejectedIsUnsentUnlessLeft
  <2>1. SUFFICES ASSUME CallTypes, ConnInv, SendsInv, ~stale, ~LeftBehind, NEW i \in DOMAIN taken,
                        taken[i].type = "O", taken[i].n \in rejected
                 PROVE  FALSE
    BY Zenon DEF RejectedIsUnsentUnlessLeft
  <2>2. taken \in Seq(Requests) /\ i \in 1 .. Len(taken)
    BY <2>1 DEF ConnInv, WireTypes
  <2>3. taken[i] \in Requests
    BY <2>2, ElementOfSeq
  <2>4. taken[i] # NoMsg
    BY <2>3 DEF Requests, NoMsg
  <2>5. taken[i] \in {Query(taken[i].n), Order(taken[i].n)}
    BY <2>1, <2>2, <2>4 DEF SendsInv, OnlyReal, Real, LeftBehind
  <2>6. taken[i] = Order(taken[i].n)
    BY <2>1, <2>5 DEF Query
  <2>7. Lost(Order(taken[i].n))
    BY <2>1 DEF SendsInv, LastKept
  <2> QED BY <2>2, <2>6, <2>7 DEF Lost
<1> QED BY <1>1, SendsInvariant, ConnectionInvariant, PTL

-----------------------------------------------------------------------------
(* A query is read once.                                                   *)
LEMMA OnceBegin ==
  ASSUME CallTypes, ConnInv, OnlyReal, Regular, conn = "up", want' = want, NEW t \in Calls,
         NEW m \in Requests, Begins(t, m), NEW u \in Calls, Once(u)
  PROVE  Once(u)'
<1>1. RingTypes /\ WireTypes /\ SendOK /\ Begin(t, m)
  BY DEF ConnInv, Begins
<1>2. m.n = t /\ ~Began(m) /\ Query(u)' = Query(u) /\ First(u)' = First(u)
  BY DEF Begins, Began, Query, Order, First, Byte
<1>3. /\ \A r \in 0 .. Capacity - 1 : ring[r].msg # m
      /\ \A i \in 1 .. Len(toEx) : toEx[i].msg # m
      /\ \A i \in 1 .. Len(taken) : taken[i] # m
  BY <1>1, <1>2, NotBegan
<1>4. UNCHANGED <<toEx, taken, head>>
  BY DEF Begins, Begin, exchangeVars
<1> DEFINE len == Size(m)
           start == Start(len)
<1>5. /\ len \in Nat \ {0} /\ start \in Nat /\ tail' = start + len /\ mtx = NoCall
      /\ tx' = [at |-> "submit", msg |-> m, left |-> len]
      /\ \A r \in 0 .. Capacity - 1 :
           \/ ring'[r] = ring[r]
           \/ \E x \in 0 .. len - 1 : r = (start + x) % Capacity /\ ring'[r] = Byte(m, x + 1)
      /\ len <= Capacity => \A x \in 0 .. len - 1 : ring'[(start + x) % Capacity] = Byte(m, x + 1)
  BY <1>1, BeginCopies
<1>6. /\ Used' = Used + (start - tail) + len /\ tail <= start /\ len <= Capacity
      /\ \A x \in tail .. start - 1 : x % Capacity > Capacity - Header
      /\ Header < len => start % Capacity <= Capacity - Header
  BY <1>1, BeginUsed
<1>7. /\ head \in Nat /\ tail \in Nat /\ Capacity \in Nat \ {0} /\ Used \in Nat
      /\ Header \in Nat /\ Header < QLen
  BY <1>1, Constants, OwedTypes DEF RingTypes
<1>8. Query(u).type = "Q" /\ (m = Query(u) => len = QLen)
  BY DEF Query, Size, MsgLen, len
<1> HIDE DEF len, start
<1>9. \A i \in Int : Byte(m, i).msg = m /\ (Byte(m, i) = First(u) => m = Query(u) /\ i = 1)
  BY DEF Byte, First
<1>10. ASSUME NEW r \in 0 .. Capacity - 1, ring'[r] = First(u)
       PROVE  \/ m = Query(u) /\ r = start % Capacity
              \/ m # Query(u) /\ ring[r] = First(u) /\ \A x \in 0 .. len - 1 : r # (start + x) % Capacity
  <2>1. ASSUME NEW x \in 0 .. len - 1, ring'[r] = Byte(m, x + 1) PROVE m = Query(u) /\ x = 0
    <3>1. x + 1 \in Int
      BY <1>5
    <3>2. m = Query(u) /\ x + 1 = 1
      BY <1>9, <1>10, <2>1, <3>1
    <3> QED BY <1>5, <3>2
  <2>2. First(u).msg = Query(u)
    BY DEF First, Byte
  <2>3. CASE ring'[r] = ring[r]
    <3>1. m # Query(u)
      BY <1>3, <1>10, <2>2, <2>3
    <3>2. \A x \in 0 .. len - 1 : r # (start + x) % Capacity
      BY <1>5, <1>6, <2>1, <3>1
    <3> QED BY <1>10, <2>3, <3>1, <3>2
  <2>4. ASSUME NEW x \in 0 .. len - 1, r = (start + x) % Capacity, ring'[r] = Byte(m, x + 1)
        PROVE  m = Query(u) /\ r = start % Capacity
    <3>1. m = Query(u) /\ x = 0
      BY <2>1, <2>4
    <3>2. start + x = start
      BY <1>5, <3>1
    <3> QED BY <2>4, <3>1, <3>2, Zenon
  <2> QED BY <1>5, <2>3, <2>4
<1>11. \A r \in 0 .. Capacity - 1 : ring'[r] = First(u) =>
         /\ r <= Capacity - Header
         /\ \A q \in 0 .. Capacity - 1 : ring'[q] = First(u) => q = r
  <2>1. CASE m = Query(u)
    BY <1>6, <1>7, <1>8, <1>10, <2>1
  <2>2. CASE m # Query(u)
    BY <1>10, <2>2 DEF Once
  <2> QED BY <2>1, <2>2
<1>12. tx.at = "idle" /\ tx'.at = "submit" /\ Out(0)'
  BY <1>1, <1>5 DEF SendOK, Out
<1>13. ASSUME NEW i \in 0 .. Used' - 1, ring'[(head + i) % Capacity] = First(u)
       PROVE  ~OnWire(u) /\ ~WasRead(u)
  <2>1. CASE m = Query(u)
    <3>1. First(u).msg = m
      BY <2>1 DEF First, Byte
    <3> QED BY <1>3, <2>1, <3>1 DEF OnWire, WasRead
  <2>2. CASE m # Query(u)
    <3>1. PICK r \in 0 .. Capacity - 1 : r = (head + i) % Capacity
      <4>1. head + i \in Int
        BY <1>7
      <4> QED BY <1>7, <4>1, ModSplit
    <3>2. ring[r] = First(u) /\ \A x \in 0 .. len - 1 : r # (start + x) % Capacity
      BY <1>10, <1>13, <2>2, <3>1
    <3>3. r <= Capacity - Header
      BY <3>2 DEF Once
    <3>4. PICK g \in Nat : g = Used
      BY <1>7
    <3>5. r = (tail - g + i) % Capacity
      <4>1. g = Gap(head, tail) /\ i \in Int
        BY <3>4 DEF Used, Gap
      <4>2. \A x \in Int : (head + x) % Capacity = (tail - Gap(head, tail) + x) % Capacity
        BY <1>7, GapMoves
      <4> QED BY <3>1, <4>1, <4>2, Zenon
    <3>6. i < g
      <4>1. SUFFICES ASSUME i >= g PROVE FALSE
        BY <1>7
      <4>2. PICK y \in Nat : y = tail - g + i
        BY <1>7, <4>1
      <4>3. y \in tail .. start - 1 \/ (y - start \in 0 .. len - 1 /\ start + (y - start) = y)
        BY <1>5, <1>6, <1>7, <3>4, <4>1, <4>2
      <4>4. y \in tail .. start - 1 => r > Capacity - Header
        BY <1>6, <3>5, <4>2
      <4>5. ~(r > Capacity - Header)
        BY <1>7, <3>3
      <4>6. y - start \in 0 .. len - 1 /\ start + (y - start) = y => FALSE
        BY <3>2, <3>5, <4>2
      <4> QED BY <4>3, <4>4, <4>5, <4>6
    <3>7. PICK k \in Nat : Out(k) /\ \A j \in k .. Used - 1 :
             ring[(head + j) % Capacity] = First(u) => ~OnWire(u) /\ ~WasRead(u)
      BY DEF Once
    <3>8. k = 0
      BY <1>12, <3>7 DEF Out
    <3>9. i \in k .. Used - 1
      BY <1>7, <3>4, <3>6, <3>8
    <3> QED BY <3>1, <3>2, <3>7, <3>9
  <2> QED BY <2>1, <2>2
<1>14. OnWire(u)' = OnWire(u) /\ WasRead(u)' = WasRead(u)
  BY <1>2, <1>4 DEF OnWire, WasRead
<1>15. \E k \in Nat : Out(k)' /\ \A i \in k .. Used' - 1 :
         ring'[(head' + i) % Capacity] = First(u)' => ~OnWire(u)' /\ ~WasRead(u)'
  BY <1>2, <1>4, <1>12, <1>13, <1>14
<1>16. /\ \A i, j \in 1 .. Len(toEx) : toEx[i] = First(u) /\ toEx[j] = First(u) => i = j
       /\ WasRead(u) => ~OnWire(u)
  BY DEF Once
<1> QED BY <1>2, <1>4, <1>11, <1>14, <1>15, <1>16 DEF Once

(* A submission moves the first byte of a query out of the ring.           *)
LEMMA OnceSubmit ==
  ASSUME ConnInv, Regular, conn = "up", want' = want, NEW k \in 1 .. Capacity, Submit(k),
         NEW u \in Calls, Once(u)
  PROVE  Once(u)'
<1>1. RingTypes /\ WireTypes /\ SendOK /\ ~kept
  BY DEF ConnInv, Regular
<1>2. /\ tx.at = "submit" /\ tx' = [tx EXCEPT !.at = "reap"]
      /\ cq' = Append(cq, [n |-> sqes + 1, res |-> k])
      /\ UNCHANGED <<ring, head, tail, taken>>
  <2>1. cq' = Append(cq, [n |-> sqes + 1, res |-> k])
    BY <1>1, SubmitTypes
  <2> QED BY <2>1 DEF Submit, ringVars, exchangeVars
<1>3. tx'.at = "reap" /\ Used' = Used
  BY <1>1, <1>2 DEF RingTypes, Used
<1>4. Query(u)' = Query(u) /\ First(u)' = First(u) /\ WasRead(u)' = WasRead(u)
  BY <1>2 DEF Query, First, Byte, WasRead
<1>5. /\ k <= Used /\ Used \in Nat /\ Len(toEx) \in Nat
      /\ \A i \in 1 .. Len(toEx) : toEx'[i] = toEx[i]
      /\ \A x \in 1 .. k : /\ (head + x - 1) % Capacity \in 0 .. Capacity - 1
                           /\ toEx'[Len(toEx) + x] = ring[(head + x - 1) % Capacity]
      /\ \A i \in 1 .. Len(toEx') : i \in 1 .. Len(toEx) \/ \E x \in 1 .. k : i = Len(toEx) + x
  BY <1>1, SubmitMoves
<1>6. Used <= Capacity /\ head \in Nat /\ Capacity \in Nat \ {0} /\ k \in Nat
  BY <1>1, Constants DEF SendOK, Regular, RingTypes
<1>7. \A i \in 0 .. Used - 1 : ring[(head + i) % Capacity] = First(u) => ~OnWire(u) /\ ~WasRead(u)
  <2>1. PICK x \in Nat : Out(x) /\ \A i \in x .. Used - 1 :
           ring[(head + i) % Capacity] = First(u) => ~OnWire(u) /\ ~WasRead(u)
    BY DEF Once
  <2>2. x = 0
    BY <1>2, <2>1 DEF Out
  <2> QED BY <2>1, <2>2
<1>8. ASSUME NEW i \in 0 .. Used - 1, NEW j \in 0 .. Used - 1,
             ring[(head + i) % Capacity] = First(u), ring[(head + j) % Capacity] = First(u)
      PROVE  i = j
  <2>1. head + i \in Int /\ head + j \in Int
    BY <1>6
  <2>2. (head + i) % Capacity \in 0 .. Capacity - 1 /\ (head + j) % Capacity \in 0 .. Capacity - 1
    BY <1>6, <2>1, ModSplit
  <2>3. (head + i) % Capacity = (head + j) % Capacity
    BY <1>8, <2>2 DEF Once
  <2>4. (head + i) - (head + j) < Capacity /\ (head + j) - (head + i) < Capacity
    BY <1>5, <1>6
  <2>5. head + i = head + j
    BY <1>6, <2>1, <2>3, <2>4, ModDistinct
  <2> QED BY <1>6, <2>5
<1>9. ASSUME NEW x \in 1 .. k, toEx'[Len(toEx) + x] = First(u)
      PROVE  /\ x - 1 \in 0 .. Used - 1 /\ ring[(head + (x - 1)) % Capacity] = First(u)
             /\ ~OnWire(u) /\ ~WasRead(u)
  <2>1. x - 1 \in 0 .. Used - 1 /\ head + x - 1 = head + (x - 1)
    BY <1>5, <1>6
  <2>2. ring[(head + (x - 1)) % Capacity] = First(u)
    BY <1>5, <1>9, <2>1
  <2> QED BY <1>7, <2>1, <2>2
<1>10. ASSUME NEW i \in 1 .. Len(toEx'), toEx'[i] = First(u)
       PROVE  \/ i \in 1 .. Len(toEx) /\ toEx[i] = First(u) /\ OnWire(u)
              \/ \E x \in 1 .. k : i = Len(toEx) + x /\ toEx'[Len(toEx) + x] = First(u)
  BY <1>5, <1>10 DEF OnWire
<1>11. ASSUME NEW i \in 1 .. Len(toEx'), NEW j \in 1 .. Len(toEx'), toEx'[i] = First(u), toEx'[j] = First(u)
       PROVE  i = j
  <2>1. CASE OnWire(u)
    <3>1. i \in 1 .. Len(toEx) /\ toEx[i] = First(u) /\ j \in 1 .. Len(toEx) /\ toEx[j] = First(u)
      BY <1>9, <1>10, <1>11, <2>1
    <3> QED BY <3>1 DEF Once
  <2>2. CASE ~OnWire(u)
    <3>1. PICK x \in 1 .. k : i = Len(toEx) + x /\ toEx'[Len(toEx) + x] = First(u)
      BY <1>10, <1>11, <2>2
    <3>2. PICK y \in 1 .. k : j = Len(toEx) + y /\ toEx'[Len(toEx) + y] = First(u)
      BY <1>10, <1>11, <2>2
    <3>3. x - 1 = y - 1
      BY <1>8, <1>9, <3>1, <3>2
    <3> QED BY <1>6, <3>1, <3>2, <3>3
  <2> QED BY <2>1, <2>2
<1>12. OnWire(u)' => OnWire(u) \/ \E x \in 1 .. k : toEx'[Len(toEx) + x] = First(u)
  BY <1>4, <1>10 DEF OnWire
<1>13. ASSUME NEW i \in k .. Used - 1, ring[(head + i) % Capacity] = First(u)
       PROVE  ~OnWire(u)' /\ ~WasRead(u)'
  <2>1. i \in 0 .. Used - 1
    BY <1>5, <1>6
  <2>2. ~OnWire(u) /\ ~WasRead(u)
    BY <1>7, <1>13, <2>1
  <2>3. ASSUME NEW x \in 1 .. k, toEx'[Len(toEx) + x] = First(u) PROVE FALSE
    <3>1. x - 1 \in 0 .. Used - 1 /\ ring[(head + (x - 1)) % Capacity] = First(u)
      BY <1>9, <2>3
    <3>2. i = x - 1
      BY <1>8, <1>13, <2>1, <3>1
    <3> QED BY <1>6, <3>2
  <2> QED BY <1>4, <1>12, <2>2, <2>3
<1>14. Out(k)'
  <2>1. [n |-> sqes + 1, res |-> k] \in [n : Nat, res : Int] /\ sqes + 1 # 0
    BY <1>1, <1>6 DEF RingTypes
  <2>2. Len(cq) + 1 \in 1 .. Len(cq') /\ cq'[Len(cq) + 1] = [n |-> sqes + 1, res |-> k]
    BY <1>1, <1>2, <2>1, Appended
  <2> QED BY <1>3, <2>1, <2>2 DEF Out, Own
<1>15. WasRead(u)' => ~OnWire(u)'
  BY <1>4, <1>9, <1>12 DEF Once
<1>16. \E x \in Nat : Out(x)' /\ \A i \in x .. Used' - 1 :
         ring'[(head' + i) % Capacity] = First(u)' => ~OnWire(u)' /\ ~WasRead(u)'
  <2>1. \A i \in k .. Used' - 1 : ring'[(head' + i) % Capacity] = First(u)' => ~OnWire(u)' /\ ~WasRead(u)'
    BY <1>2, <1>3, <1>4, <1>13
  <2> QED BY <1>6, <1>14, <2>1
<1>17. \A r \in 0 .. Capacity - 1 : ring[r] = First(u) =>
         /\ r <= Capacity - Header
         /\ \A q \in 0 .. Capacity - 1 : ring[q] = First(u) => q = r
  BY DEF Once
<1> QED BY <1>2, <1>4, <1>11, <1>15, <1>16, <1>17 DEF Once

(* What Once speaks of stays as it was.                                    *)
LEMMA OnceSame ==
  ASSUME want' = want, UNCHANGED <<ring, head, tail, toEx, taken>>, NEW u \in Calls, Once(u),
         \A k \in Nat : Out(k) => Out(k)'
  PROVE  Once(u)'
<1>1. /\ First(u)' = First(u) /\ Query(u)' = Query(u) /\ Used' = Used
      /\ WasRead(u)' = WasRead(u) /\ OnWire(u)' = OnWire(u)
  BY DEF First, Byte, Query, Used, WasRead, OnWire
<1>2. PICK k \in Nat : Out(k) /\ \A i \in k .. Used - 1 :
         ring[(head + i) % Capacity] = First(u) => ~OnWire(u) /\ ~WasRead(u)
  BY DEF Once
<1>3. Out(k)'
  BY <1>2
<1>4. \E x \in Nat : Out(x)' /\ \A i \in x .. Used' - 1 :
         ring'[(head' + i) % Capacity] = First(u)' => ~OnWire(u)' /\ ~WasRead(u)'
  BY <1>1, <1>2, <1>3
<1>5. /\ \A r \in 0 .. Capacity - 1 : ring[r] = First(u) =>
           /\ r <= Capacity - Header
           /\ \A q \in 0 .. Capacity - 1 : ring[q] = First(u) => q = r
      /\ \A i, j \in 1 .. Len(toEx) : toEx[i] = First(u) /\ toEx[j] = First(u) => i = j
      /\ WasRead(u) => ~OnWire(u)
  BY DEF Once
<1> QED BY <1>1, <1>4, <1>5 DEF Once

(* A submission that fails moves nothing, and nothing is out before it.    *)
LEMMA OnceSubmitError ==
  ASSUME ConnInv, ~kept, want' = want, SubmitError, NEW u \in Calls, Once(u)
  PROVE  Once(u)'
<1>1. RingTypes /\ WireTypes
  BY DEF ConnInv
<1>2. /\ tx.at = "submit" /\ tx' = [tx EXCEPT !.at = "reap"] /\ toEx' = toEx
      /\ cq' = Append(cq, [n |-> sqes + 1, res |-> -1])
      /\ UNCHANGED <<ring, head, tail, taken>>
  <2>1. toEx' = toEx /\ cq' = Append(cq, [n |-> sqes + 1, res |-> -1])
    BY <1>1, SubmitErrorTypes
  <2> QED BY <2>1 DEF SubmitError, ringVars, exchangeVars
<1>3. tx'.at = "reap"
  BY <1>1, <1>2 DEF RingTypes
<1>4. Out(0)'
  <2>1. [n |-> sqes + 1, res |-> -1] \in [n : Nat, res : Int] /\ sqes + 1 # 0
    BY <1>1 DEF RingTypes
  <2>2. Len(cq) + 1 \in 1 .. Len(cq') /\ cq'[Len(cq) + 1] = [n |-> sqes + 1, res |-> -1]
    BY <1>1, <1>2, <2>1, Appended
  <2> QED BY <1>3, <2>1, <2>2 DEF Out, Own
<1>5. \A k \in Nat : Out(k) => Out(k)'
  BY <1>2, <1>4 DEF Out
<1> QED BY <1>2, <1>5, OnceSame

(* A completion releases what went out, or all that is left.               *)
LEMMA OnceReap ==
  ASSUME ConnInv, ~kept, ~stale', want' = want, Reap, NEW u \in Calls, Once(u)
  PROVE  Once(u)'
<1>1. RingTypes /\ WireTypes /\ SendOK
  BY DEF ConnInv
<1>2. tx.at = "reap" /\ UNCHANGED <<ring, tail, toEx, taken>>
  BY DEF Reap, ReapUnchanged, exchangeVars
<1>3. /\ First(u)' = First(u) /\ WasRead(u)' = WasRead(u) /\ OnWire(u)' = OnWire(u)
  BY <1>2 DEF Query, First, Byte, WasRead, OnWire
<1>4. PICK c \in Nat : /\ head' = (head + c) % SizeMod /\ Used' = Used - c
                       /\ \A k \in Nat : Out(k) => k <= c
  <2>1. /\ \A i \in 1 .. Len(cq) : Own(i) => i = 1
        /\ \/ cq[1].res \in 1 .. tx.left /\ head' = (head + cq[1].res) % SizeMod /\ Used' = Used - cq[1].res
           \/ cq[1].res = -1 /\ head' = (head + tx.left) % SizeMod /\ Used' = Used - tx.left
    BY <1>1, ReapOwn
  <2>2. tx.left \in Nat
    BY <1>1 DEF RingTypes
  <2>3. CASE cq[1].res \in 1 .. tx.left
    <3>1. cq[1].res \in Nat /\ cq[1].res # -1
      BY <2>2, <2>3
    <3>2. \A k \in Nat : Out(k) => k <= cq[1].res
      BY <1>2, <2>1, <3>1 DEF Out
    <3> QED BY <2>1, <3>1, <3>2
  <2>4. CASE cq[1].res = -1 /\ head' = (head + tx.left) % SizeMod /\ Used' = Used - tx.left
    <3>1. \A k \in Nat : Out(k) => k <= tx.left
      BY <1>2, <2>1, <2>2, <2>4 DEF Out
    <3> QED BY <2>2, <2>4, <3>1
  <2> QED BY <2>1, <2>3, <2>4
<1>5. head \in Nat /\ Used \in Nat /\ tx'.at # "reap"
  <2>1. head \in Nat /\ Used \in Nat
    BY <1>1, OwedTypes DEF RingTypes
  <2>2. tx'.at # "reap"
    BY <1>1, ReapOwn
  <2> QED BY <2>1, <2>2
<1>6. PICK k \in Nat : Out(k) /\ \A i \in k .. Used - 1 :
         ring[(head + i) % Capacity] = First(u) => ~OnWire(u) /\ ~WasRead(u)
  BY DEF Once
<1>7. k <= c
  BY <1>4, <1>6
<1>8. Out(0)'
  BY <1>5 DEF Out
<1>9. ASSUME NEW i \in 0 .. Used' - 1, ring[(head' + i) % Capacity] = First(u)
      PROVE  ~OnWire(u) /\ ~WasRead(u)
  <2>1. c + i \in k .. Used - 1 /\ head + c \in Nat /\ i \in Int /\ head + (c + i) = head + c + i
    BY <1>4, <1>5, <1>7
  <2>2. (((head + c) % SizeMod) + i) % Capacity = (head + c + i) % Capacity
    BY <2>1, HeadMoves, Zenon
  <2>3. ring[(head + (c + i)) % Capacity] = First(u)
    BY <1>4, <1>9, <2>1, <2>2, Zenon
  <2> QED BY <1>6, <2>1, <2>3
<1>10. \E x \in Nat : Out(x)' /\ \A i \in x .. Used' - 1 :
         ring'[(head' + i) % Capacity] = First(u)' => ~OnWire(u)' /\ ~WasRead(u)'
  BY <1>2, <1>3, <1>8, <1>9
<1>11. /\ \A r \in 0 .. Capacity - 1 : ring[r] = First(u) =>
            /\ r <= Capacity - Header
            /\ \A q \in 0 .. Capacity - 1 : ring[q] = First(u) => q = r
       /\ \A i, j \in 1 .. Len(toEx) : toEx[i] = First(u) /\ toEx[j] = First(u) => i = j
       /\ WasRead(u) => ~OnWire(u)
  BY DEF Once
<1> QED BY <1>2, <1>3, <1>10, <1>11 DEF Once

(* Reading a query removes its first byte from the wire.                   *)
LEMMA OnceExchange ==
  ASSUME ConnInv, want' = want, Exchange, conn' = "up", NEW u \in Calls, Once(u)
  PROVE  Once(u)'
<1>1. RingTypes /\ WireTypes /\ SendOK /\ RefsOK
  BY DEF ConnInv
<1>2. UNCHANGED <<ring, head, tail, tx, cq>>
  BY <1>1, ExchangeDoes DEF ExchangeUnchanged, ringVars, kernelVars
<1>3. /\ First(u)' = First(u) /\ Query(u)' = Query(u) /\ Used' = Used /\ \A k \in Nat : Out(k)' = Out(k)
  BY <1>2 DEF First, Byte, Query, Used, Out, Own
<1>4. PICK f \in Nat : \A i \in 1 .. Len(toEx') : i + f \in 1 .. Len(toEx) /\ toEx'[i] = toEx[i + f]
  BY <1>1, ExchangeMoves
<1>5. Len(toEx') \in Nat /\ Len(toEx) \in Nat
  <2>1. WireTypes'
    BY <1>1, ExchangeTypes
  <2> QED BY <1>1, <2>1, LenProperties DEF WireTypes
<1>6. \A i, j \in 1 .. Len(toEx') : toEx'[i] = First(u) /\ toEx'[j] = First(u) => i = j
  <2>1. ASSUME NEW i \in 1 .. Len(toEx'), NEW j \in 1 .. Len(toEx'), toEx'[i] = First(u), toEx'[j] = First(u)
        PROVE  i = j
    <3>1. i + f = j + f
      BY <1>4, <2>1 DEF Once
    <3> QED BY <1>5, <3>1
  <2> QED BY <2>1
<1>7. OnWire(u)' => OnWire(u)
  BY <1>3, <1>4 DEF OnWire
<1>8. ASSUME NEW m \in Requests, m = toEx[1].msg, taken' = Append(taken, m),
             \A i \in 1 .. Size(m) : i \in 1 .. Len(toEx) /\ toEx[i] = Byte(m, i),
             \A i \in 1 .. Len(toEx') : i + Size(m) \in 1 .. Len(toEx) /\ toEx'[i] = toEx[i + Size(m)]
      PROVE  /\ WasRead(u)' => WasRead(u) \/ (m = Query(u) /\ OnWire(u) /\ ~OnWire(u)')
  <2>1. m \in Messages /\ taken \in Seq(Requests)
    BY <1>1 DEF Messages, WireTypes
  <2>2. Size(m) \in Nat \ {0} /\ 1 \in 1 .. Size(m)
    BY <2>1, Sizes
  <2>3. /\ Len(taken') = Len(taken) + 1 /\ taken'[Len(taken) + 1] = m /\ Len(taken) \in Nat
        /\ \A i \in 1 .. Len(taken) : taken'[i] = taken[i]
    BY <1>8, <2>1, AppendProperties, LenProperties
  <2>4. \A i \in 1 .. Len(taken) + 1 : i \in 1 .. Len(taken) \/ i = Len(taken) + 1
    BY <2>3
  <2>5. WasRead(u)' => WasRead(u) \/ m = Query(u)
    BY <1>3, <2>3, <2>4 DEF WasRead
  <2>6. ASSUME m = Query(u) PROVE OnWire(u) /\ ~OnWire(u)'
    <3>1. 1 \in 1 .. Len(toEx) /\ toEx[1] = First(u)
      BY <1>8, <2>2, <2>6 DEF First
    <3>2. \A i \in 1 .. Len(toEx') : i + Size(m) # 1 /\ i + Size(m) \in 1 .. Len(toEx)
      BY <1>5, <1>8, <2>2
    <3>3. \A i \in 1 .. Len(toEx') : toEx'[i] # First(u)
      BY <1>8, <3>1, <3>2 DEF Once
    <3> QED BY <1>3, <3>1, <3>3 DEF OnWire
  <2> QED BY <2>5, <2>6
<1>9. CASE taken' = taken
  <2>1. WasRead(u)' = WasRead(u)
    BY <1>3, <1>9 DEF WasRead
  <2> QED BY <1>2, <1>3, <1>6, <1>7, <2>1 DEF Once
<1>10. CASE WasRead(u)' => WasRead(u) \/ (OnWire(u) /\ ~OnWire(u)')
  <2>1. PICK k \in Nat : Out(k) /\ \A i \in k .. Used - 1 :
          ring[(head + i) % Capacity] = First(u) => ~OnWire(u) /\ ~WasRead(u)
    BY DEF Once
  <2>2. Out(k)' /\ \A i \in k .. Used' - 1 :
          ring'[(head' + i) % Capacity] = First(u)' => ~OnWire(u)' /\ ~WasRead(u)'
    BY <1>2, <1>3, <1>7, <1>10, <2>1
  <2>3. WasRead(u)' => ~OnWire(u)'
    BY <1>7, <1>10 DEF Once
  <2>4. \A r \in 0 .. Capacity - 1 : ring[r] = First(u) =>
          /\ r <= Capacity - Header
          /\ \A q \in 0 .. Capacity - 1 : ring[q] = First(u) => q = r
    BY DEF Once
  <2> QED BY <1>2, <1>3, <1>6, <2>2, <2>3, <2>4 DEF Once
<1> QED BY <1>1, <1>8, <1>9, <1>10, ExchangeMoves

(* ReadOnce is inductive.                                                  *)
LEMMA ReadOnceStep ==
  ASSUME CallTypes, ConnInv, SendsInv, ReadOnce, [Next]_vars
  PROVE  ReadOnce'
<1>1. RingTypes /\ WireTypes /\ RefsOK /\ want' = want
  BY Cases DEF ConnInv
<1>2. SUFFICES ASSUME Regular', conn' = "up", NEW u \in Calls PROVE Once(u)'
  BY DEF ReadOnce
<1>3. Regular /\ ~kept /\ ~kept' /\ ~stale' /\ OnlyReal
  BY <1>2, Grows DEF Regular, SendsInv
<1>4. conn = "up"
  BY <1>2, Grows
<1>5. Once(u)
  BY <1>3, <1>4 DEF ReadOnce
<1>6. ASSUME NEW t \in Calls, Local(t) PROVE Once(u)'
  <2>1. UNCHANGED <<ring, head, tail, tx, toEx, taken, cq>>
    BY <1>6 DEF Local, connVars, ringVars, kernelVars, exchangeVars
  <2>2. \A k \in Nat : Out(k) => Out(k)'
    BY <2>1 DEF Out, Own
  <2> QED BY <1>1, <1>5, <2>1, <2>2, OnceSame
<1>7. ASSUME NEW t \in Calls, NEW m \in Requests, Begins(t, m) PROVE Once(u)'
  BY <1>1, <1>3, <1>4, <1>5, <1>7, OnceBegin
<1>8. ASSUME NEW t \in Calls, NEW m \in Requests, Spins(t, m) PROVE Once(u)'
  <2>1. UNCHANGED <<ring, head, tail, toEx, taken>> /\ mtx = NoCall /\ tx'.at = "spin"
    BY <1>8 DEF Spins, Spin, ringVars, exchangeVars
  <2>2. tx.at # "reap"
    BY <2>1 DEF ConnInv, SendOK
  <2>3. \A k \in Nat : Out(k) => Out(k)'
    BY <2>1, <2>2 DEF Out
  <2> QED BY <1>1, <1>5, <2>1, <2>3, OnceSame
<1>9. ASSUME NEW t \in Calls, Ends(t) PROVE Once(u)'
  <2>1. UNCHANGED <<ring, head, tail, toEx, taken>> /\ tx.at # "reap" /\ tx'.at # "reap"
    BY <1>9 DEF Ends, Finish, Idle, ringVars, exchangeVars
  <2>2. \A k \in Nat : Out(k) => Out(k)'
    BY <2>1 DEF Out
  <2> QED BY <1>1, <1>5, <2>1, <2>2, OnceSame
<1>10. ASSUME NEW k \in 1 .. Capacity, Submit(k) PROVE Once(u)'
  BY <1>1, <1>3, <1>4, <1>5, <1>10, OnceSubmit
<1>11. CASE SubmitError
  BY <1>1, <1>3, <1>5, <1>11, OnceSubmitError
<1>12. CASE LeavesBytes
  BY <1>3, <1>12, Grows
<1>13. CASE Reap
  BY <1>1, <1>3, <1>5, <1>13, OnceReap
<1>14. CASE Exchange
  BY <1>1, <1>2, <1>5, <1>14, OnceExchange
<1>15. CASE Notify
  <2>1. UNCHANGED <<ring, head, tail, tx, toEx, taken>> /\ cq' = Append(cq, [n |-> 0, res |-> 0])
    BY <1>15 DEF Notify, ringVars, exchangeVars
  <2>2. \A i \in 1 .. Len(cq) : i \in 1 .. Len(cq') /\ cq'[i] = cq[i]
    BY <1>1, <2>1, Appended
  <2>3. \A k \in Nat : Out(k) => Out(k)'
    BY <2>1, <2>2 DEF Out, Own
  <2> QED BY <1>1, <1>5, <2>1, <2>3, OnceSame
<1>16. CASE FillStep \/ UNCHANGED connVars
  <2>1. FillStep => FillUnchanged
    BY <1>1, FillDoes
  <2>2. UNCHANGED <<ring, head, tail, tx, toEx, taken, cq>>
    BY <1>16, <2>1 DEF FillUnchanged, connVars, ringVars, exchangeVars, kernelVars
  <2>3. \A k \in Nat : Out(k) => Out(k)'
    BY <2>2 DEF Out, Own
  <2> QED BY <1>1, <1>5, <2>2, <2>3, OnceSame
<1>17. CASE Passes
  BY <1>10, <1>11, <1>12, <1>13, <1>14, <1>15, <1>16, <1>17, Zenon DEF Passes, SendZcAll, LeavesBytes
<1> QED BY <1>6, <1>7, <1>8, <1>9, <1>17, Cases, Zenon

(* query_mtx_ is held by the one query in flight.                          *)
LEMMA OneQueryStep ==
  ASSUME CallTypes, OneQuery, [Next]_vars
  PROVE  OneQuery'
<1>1. \A u \in Calls : u # NoCall
  BY DEF Calls, NoCall
<1>2. ASSUME NEW t \in Calls, NEW l, Goto(t, l),
             \/ pc[t] = "lock" /\ l = "query" /\ holder = NoCall /\ holder' = t
             \/ pc[t] \in {"query", "sendQ"} /\ l \in {"sendQ", "wait"} /\ holder' = holder
             \/ pc[t] \in {"sendQ", "wait"} /\ l \in {"order", "done"} /\ holder' = NoCall
             \/ /\ pc[t] \notin {"query", "sendQ", "wait"} /\ l \notin {"query", "sendQ", "wait"}
                /\ holder' = holder
      PROVE  OneQuery'
  <2>1. pc'[t] = l /\ \A u \in Calls : u # t => pc'[u] = pc[u]
    BY <1>2, Goes
  <2>2. ASSUME NEW u \in Calls PROVE (pc'[u] \in {"query", "sendQ", "wait"}) <=> (holder' = u)
    <3>1. CASE u = t
      BY <1>1, <1>2, <2>1, <3>1 DEF OneQuery
    <3>2. CASE u # t
      BY <1>1, <1>2, <2>1, <3>2 DEF OneQuery
    <3> QED BY <3>1, <3>2
  <2> QED BY <2>2 DEF OneQuery
<1>3. ASSUME NEW t \in Calls, Call(t) \/ Caller(t) PROVE OneQuery'
  <2>1. CASE Call(t)
    BY <1>2, <2>1 DEF Call
  <2>2. CASE Lock(t)
    BY <1>2, <2>2 DEF Lock
  <2>3. CASE Send(t)
    BY <1>2, <2>3 DEF Send
  <2>4. CASE QuerySent(t)
    BY <1>2, <2>4 DEF QuerySent, Fail
  <2>5. CASE OrderSent(t)
    BY <1>2, <2>5 DEF OrderSent
  <2>6. CASE TimeOut(t)
    BY <1>2, <2>6 DEF TimeOut, Fail
  <2>7. CASE Take(t)
    BY <1>2, <2>7 DEF Take
  <2>8. CASE UNCHANGED callerVars
    BY <2>8 DEF callerVars, OneQuery
  <2> QED BY <1>3, <2>1, <2>2, <2>3, <2>4, <2>5, <2>6, <2>7, <2>8 DEF Caller
<1>4. CASE OnBookQuote
  BY <1>4 DEF OnBookQuote, OneQuery
<1>5. CASE UNCHANGED callerVars
  BY <1>5 DEF callerVars, OneQuery
<1>6. CASE UNCHANGED vars
  BY <1>5, <1>6 DEF vars
<1> QED BY <1>3, <1>4, <1>5, <1>6, Zenon DEF Next

-----------------------------------------------------------------------------
(* What has been told stays in front of fill_th until it is framed.        *)
Shifted(f) == \A i \in 1 .. Len(Incoming') : i + f \in 1 .. Len(Incoming) /\ Incoming'[i] = Incoming[i + f]

(* What has been told and not yet framed is a sequence of bytes.           *)
LEMMA IncomingTypes ==
  ASSUME WireTypes
  PROVE  /\ Incoming \in Seq(WireBytes) /\ Len(Incoming) \in Nat
         /\ \A i \in 1 .. Len(stream) : i \in 1 .. Len(Incoming) /\ Incoming[i] = stream[i]
<1>1. stream \in Seq(WireBytes) /\ toUs \in Seq(WireBytes) /\ Len(stream) \in Nat /\ Len(toUs) \in Nat
  BY LenProperties DEF WireTypes
<1>2. /\ Incoming \in Seq(WireBytes) /\ Len(Incoming) = Len(stream) + Len(toUs)
      /\ \A i \in 1 .. Len(stream) : Incoming[i] = stream[i]
  BY <1>1, ConcatProperties DEF Incoming
<1> QED BY <1>1, <1>2

(* The front of a sequence goes.                                           *)
LEMMA ShiftConcat ==
  ASSUME NEW s \in Seq(WireBytes), NEW r \in Seq(WireBytes), NEW t \in Seq(WireBytes), NEW f \in Nat,
         f <= Len(s), Len(r) = Len(s) - f, \A i \in 1 .. Len(r) : r[i] = s[i + f]
  PROVE  \A i \in 1 .. Len(r \o t) : i + f \in 1 .. Len(s \o t) /\ (r \o t)[i] = (s \o t)[i + f]
<1>1. Len(s) \in Nat /\ Len(r) \in Nat /\ Len(t) \in Nat
  BY LenProperties
<1>a. ASSUME NEW x \in Seq(WireBytes)
      PROVE  /\ Len(x \o t) = Len(x) + Len(t)
             /\ \A i \in 1 .. Len(x) : (x \o t)[i] = x[i]
             /\ \A i \in 1 .. Len(t) : (x \o t)[Len(x) + i] = t[i]
  BY ConcatProperties
<1>2. /\ Len(s \o t) = Len(s) + Len(t) /\ Len(r \o t) = Len(r) + Len(t)
      /\ \A i \in 1 .. Len(s) : (s \o t)[i] = s[i]
      /\ \A i \in 1 .. Len(t) : (s \o t)[Len(s) + i] = t[i]
      /\ \A i \in 1 .. Len(r) : (r \o t)[i] = r[i]
      /\ \A i \in 1 .. Len(t) : (r \o t)[Len(r) + i] = t[i]
  BY <1>a
<1>3. ASSUME NEW i \in 1 .. Len(r) + Len(t)
      PROVE  i + f \in 1 .. Len(s) + Len(t) /\ (r \o t)[i] = (s \o t)[i + f]
  <2>1. i + f \in 1 .. Len(s) + Len(t)
    BY <1>1
  <2>2. CASE i <= Len(r)
    <3>1. i \in 1 .. Len(r) /\ i + f \in 1 .. Len(s)
      BY <1>1, <2>2
    <3> QED BY <1>2, <2>1, <3>1
  <2>3. CASE ~(i <= Len(r))
    <3>1. PICK x \in 1 .. Len(t) : i = Len(r) + x /\ i + f = Len(s) + x
      <4>1. i - Len(r) \in 1 .. Len(t) /\ i = Len(r) + (i - Len(r)) /\ i + f = Len(s) + (i - Len(r))
        BY <1>1, <2>3
      <4> QED BY <4>1
    <3> QED BY <1>2, <2>1, <3>1
  <2> QED BY <2>2, <2>3
<1> QED BY <1>2, <1>3

(* fill_th takes bytes off the front of its stream.                        *)
LEMMA StreamShifts ==
  ASSUME WireTypes, WireTypes', toUs' = toUs, NEW f \in Nat, f <= Len(stream),
         Len(stream') = Len(stream) - f, \A i \in 1 .. Len(stream') : stream'[i] = stream[i + f]
  PROVE  Shifted(f)
<1>1. stream \in Seq(WireBytes) /\ stream' \in Seq(WireBytes) /\ toUs \in Seq(WireBytes)
  BY DEF WireTypes
<1>2. \A i \in 1 .. Len(stream' \o toUs) :
        i + f \in 1 .. Len(stream \o toUs) /\ (stream' \o toUs)[i] = (stream \o toUs)[i + f]
  BY <1>1, ShiftConcat
<1>3. Incoming' = stream' \o toUs /\ Incoming = stream \o toUs
  BY DEF Incoming
<1> QED BY <1>2, <1>3 DEF Shifted

(* Whatever fill_th does, only the front of what was told goes.            *)
LEMMA FillShifts ==
  ASSUME WireTypes, FillStep
  PROVE  \E f \in Nat : Shifted(f)
<1>1. WireTypes' /\ stream \in Seq(WireBytes) /\ toUs \in Seq(WireBytes) /\ Len(toUs) \in Nat
      /\ Len(stream) \in Nat
  BY FillDoes, LenProperties DEF WireTypes
<1>2. ASSUME Complete(stream), stream' = Rest(stream), toUs' = toUs PROVE \E f \in Nat : Shifted(f)
  <2>1. PICK f \in Nat : f = FrameLen(stream) /\ f <= Len(stream) /\ Len(Rest(stream)) = Len(stream) - f
                         /\ \A i \in 1 .. Len(Rest(stream)) : Rest(stream)[i] = stream[i + f]
    BY <1>1, <1>2, RestOf
  <2>2. Shifted(f)
    BY <1>1, <1>2, <2>1, StreamShifts
  <2> QED BY <2>2
<1>3. CASE Garbage(stream) /\ stream' = Tail(stream) /\ toUs' = toUs
  <2>1. stream # <<>>
    BY <1>3 DEF Garbage
  <2>2. /\ 1 <= Len(stream) /\ Len(Tail(stream)) = Len(stream) - 1
        /\ \A i \in 1 .. Len(Tail(stream)) : Tail(stream)[i] = stream[i + 1]
    BY <1>1, <2>1, HeadTailProperties, EmptySeq
  <2>3. Shifted(1)
    BY <1>1, <1>3, <2>2, StreamShifts
  <2> QED BY <2>3
<1>4. CASE UNCHANGED Incoming
  <2>1. \A i \in 1 .. Len(Incoming) : i + 0 = i
    BY IncomingTypes
  <2> QED BY <1>4, <2>1 DEF Shifted
<1>5. ASSUME fill = "drain", stream' = stream, NEW n \in 1 .. Len(toUs),
             toUs' = SubSeq(toUs, n + 1, Len(toUs))
      PROVE  \E f \in Nat : Shifted(f)
  <2>1. stream = <<>>
    BY <1>5 DEF WireTypes
  <2>2. Incoming = toUs /\ Incoming' = toUs'
    <3>1. toUs' \in Seq(WireBytes)
      BY <1>1 DEF WireTypes
    <3>2. \A s \in Seq(WireBytes) : <<>> \o s = s
      BY ConcatEmptySeq
    <3> QED BY <1>1, <1>5, <2>1, <3>1, <3>2 DEF Incoming
  <2>3. n + 1 \in Int /\ Len(toUs) \in Int /\ n \in Nat
        /\ \A i \in n + 1 .. Len(toUs) : i \in 1 .. Len(toUs)
    BY <1>1
  <2>4. \A i \in n + 1 .. Len(toUs) : toUs[i] \in WireBytes
    BY <1>1, <2>3, ElementOfSeq
  <2>5. /\ Len(toUs') = IF n + 1 <= Len(toUs) THEN Len(toUs) - (n + 1) + 1 ELSE 0
        /\ \A i \in 1 .. Len(toUs) - (n + 1) + 1 : toUs'[i] = toUs[(n + 1) + i - 1]
    BY <1>5, <2>3, <2>4, SubSeqProperties
  <2>6. \A i \in 1 .. Len(toUs') : /\ i \in 1 .. Len(toUs) - (n + 1) + 1
                                   /\ (n + 1) + i - 1 = i + n /\ i + n \in 1 .. Len(toUs)
    BY <1>1, <2>3, <2>5
  <2>7. Shifted(n)
    BY <2>2, <2>5, <2>6 DEF Shifted
  <2> QED BY <2>3, <2>7
<1> QED BY <1>2, <1>3, <1>4, <1>5, FillDoes, Zenon

(* A quote that is framed goes as a whole.                                 *)
LEMMA QuoteLeaves ==
  ASSUME WireTypes, FillQuote
  PROVE  \E m \in Quotes :
           /\ m = stream[1].msg /\ Shifted(BLen) /\ FillUnchanged
           /\ \A i \in 1 .. BLen : i \in 1 .. Len(Incoming) /\ Incoming[i] = Byte(m, i)
<1> DEFINE m == stream[1].msg
<1>1. Complete(stream) /\ Decodes(Frame(stream)) /\ m.type = "B" /\ stream' = Rest(stream) /\ toUs' = toUs
  BY DEF FillQuote, Framed
<1>2. stream \in Seq(WireBytes) /\ stream # <<>>
  BY <1>1 DEF WireTypes, Complete
<1>3. m \in Messages
  BY <1>1, <1>2, FrameTypes
<1>4. m \in Quotes /\ Size(m) = BLen
  BY <1>1, <1>3 DEF Messages, Requests, Fills, Quotes, Size, MsgLen
<1>5. FrameLen(stream) = BLen /\ \A i \in 1 .. BLen : i \in 1 .. Len(stream) /\ stream[i] = Byte(m, i)
  BY <1>1, <1>2, <1>3, <1>4, FrameIs
<1>6. FillUnchanged /\ WireTypes'
  BY FillDoes DEF FillStep
<1>7. /\ BLen \in Nat /\ BLen <= Len(stream) /\ Len(stream') = Len(stream) - BLen
      /\ \A i \in 1 .. Len(stream') : stream'[i] = stream[i + BLen]
  BY <1>1, <1>2, <1>5, RestOf
<1>8. Shifted(BLen)
  BY <1>1, <1>6, <1>7, StreamShifts
<1>9. \A i \in 1 .. BLen : i \in 1 .. Len(Incoming) /\ Incoming[i] = Byte(m, i)
  BY <1>5, IncomingTypes
<1> QED BY <1>4, <1>6, <1>8, <1>9

(* What is left of the quotes is as it was.                                *)
LEMMA QuotesShift ==
  ASSUME WireTypes, WireTypes', QuotesOK, want' = want, NEW f \in Nat, Shifted(f)
  PROVE  QuotesOK' /\ \A u \in Calls : Answering(u)' => Answering(u)
<1>1. \A u \in Calls : Answering(u)' => Answering(u)
  BY DEF Answering, Shifted, QuoteFor
<1>2. Len(Incoming) \in Nat /\ Len(Incoming)' \in Nat
  BY IncomingTypes
<1>3. ASSUME NEW i \in 1 .. Len(Incoming'), Incoming'[i].msg.type = "B"
      PROVE  /\ Incoming'[i].msg = QuoteFor(Incoming'[i].msg.n)
             /\ Incoming'[i].at \in 1 .. BLen
             /\ \A j \in 1 .. Len(Incoming') : Incoming'[j] = Incoming'[i] => j = i
  <2>1. i + f \in 1 .. Len(Incoming) /\ Incoming'[i] = Incoming[i + f]
    BY DEF Shifted
  <2>2. /\ Incoming[i + f].msg = QuoteFor(Incoming[i + f].msg.n) /\ Incoming[i + f].at \in 1 .. BLen
        /\ \A j \in 1 .. Len(Incoming) : Incoming[j] = Incoming[i + f] => j = i + f
    BY <1>3, <2>1 DEF QuotesOK
  <2>3. ASSUME NEW j \in 1 .. Len(Incoming'), Incoming'[j] = Incoming'[i] PROVE j = i
    <3>1. j + f \in 1 .. Len(Incoming) /\ Incoming'[j] = Incoming[j + f]
      BY DEF Shifted
    <3>2. j + f = i + f
      BY <2>1, <2>2, <2>3, <3>1
    <3> QED BY <1>2, <3>2
  <2> QED BY <2>1, <2>2, <2>3
<1> QED BY <1>1, <1>3 DEF QuotesOK, QuoteFor

(* The calls stay where they are.                                          *)
LEMMA AnswersPass ==
  ASSUME CallTypes, AnswersOK, \A u \in Calls : Forgone(u) => Forgone(u)',
         UNCHANGED callerVars, conn' = conn \/ conn' # "up",
         \A u \in Calls : WasRead(u) => WasRead(u)', QuotesOK',
         \A u \in Calls : Answering(u)' => Answering(u) \/ (WasRead(u)' /\ Asking(u) /\ waiting)
  PROVE  AnswersOK'
<1>1. UNCHANGED <<want, pc, result, orders>> /\ (waiting' <=> waiting)
  BY DEF callerVars
<1>2. \A u \in Calls : Asking(u)' = Asking(u) /\ Began(Query(u))' = Began(Query(u))
  BY <1>1 DEF Asking, Began, Query
<1> QED BY <1>1, <1>2 DEF AnswersOK

(* fill_th drops something or reads a report.                              *)
LEMMA AnswersFill ==
  ASSUME CallTypes, WireTypes, AnswersOK, \A u \in Calls : Forgone(u) => Forgone(u)',
         FillStep, UNCHANGED callerVars
  PROVE  AnswersOK'
<1>1. WireTypes' /\ FillUnchanged
  BY FillDoes
<1>2. UNCHANGED <<taken, conn, want>>
  BY <1>1 DEF FillUnchanged, exchangeVars, callerVars
<1>3. PICK f \in Nat : Shifted(f)
  BY FillShifts
<1>4. QuotesOK' /\ \A u \in Calls : Answering(u)' => Answering(u)
  BY <1>1, <1>2, <1>3, QuotesShift DEF AnswersOK
<1>5. \A u \in Calls : WasRead(u)' = WasRead(u)
  BY <1>2 DEF WasRead, Query
<1> QED BY <1>2, <1>4, <1>5, AnswersPass

(* A quote is stored: it answers the query that waits for it, and none is  *)
(* left.                                                                   *)
LEMMA AnswersQuote ==
  ASSUME CallTypes, WireTypes, OneQuery, AnswersOK, \A u \in Calls : Forgone(u) => Forgone(u)',
         OnBookQuote
  PROVE  AnswersOK'
<1>1. /\ FillQuote /\ ~waiting' /\ result' = stream[1].msg
      /\ UNCHANGED <<pc, want, holder, orders>>
  BY DEF OnBookQuote
<1>2. PICK m \in Quotes :
        /\ m = stream[1].msg /\ Shifted(BLen) /\ FillUnchanged
        /\ \A i \in 1 .. BLen : i \in 1 .. Len(Incoming) /\ Incoming[i] = Byte(m, i)
  BY <1>1, QuoteLeaves
<1>3. WireTypes' /\ BLen \in Nat \ {0} /\ UNCHANGED <<taken, conn>>
  BY <1>1, <1>2, FillDoes, ConnectionAssumption DEF FillStep, FillUnchanged, exchangeVars
<1>4. 1 \in 1 .. BLen /\ m.n \in Calls /\ m.type = "B"
  BY <1>3 DEF Quotes
<1>5. 1 \in 1 .. Len(Incoming) /\ Incoming[1].msg = m
  <2>1. Byte(m, 1).msg = m
    BY DEF Byte
  <2> QED BY <1>2, <1>4, <2>1
<1>6. m = QuoteFor(m.n)
  BY <1>4, <1>5 DEF AnswersOK, QuotesOK
<1>7. Answering(m.n)
  BY <1>5, <1>6 DEF Answering
<1>8. WasRead(m.n) /\ Asking(m.n)
  BY <1>4, <1>7 DEF AnswersOK
<1>9. QuotesOK' /\ \A u \in Calls : Answering(u)' => Answering(u)
  BY <1>1, <1>2, <1>3, QuotesShift DEF AnswersOK
<1>10. ASSUME NEW u \in Calls, pc[u] \in {"query", "sendQ", "wait"} PROVE u = m.n
  BY <1>4, <1>8, <1>10 DEF OneQuery, Asking
<1>11. ASSUME Answering(m.n)' PROVE FALSE
  <2>1. PICK i \in 1 .. Len(Incoming') : Incoming'[i].msg = m
    BY <1>1, <1>6, <1>11 DEF Answering, QuoteFor
  <2>2. i + BLen \in 1 .. Len(Incoming) /\ Incoming[i + BLen].msg = m
    BY <1>2, <2>1 DEF Shifted
  <2>3. /\ Incoming[i + BLen].at \in 1 .. BLen
        /\ \A j \in 1 .. Len(Incoming) : Incoming[j] = Incoming[i + BLen] => j = i + BLen
    BY <1>4, <2>2 DEF AnswersOK, QuotesOK
  <2>4. PICK a \in 1 .. BLen : a = Incoming[i + BLen].at
    BY <2>3
  <2>5. Incoming[i + BLen] = Byte(m, a)
    <3>1. Incoming[i + BLen] \in WireBytes
      BY <2>2, IncomingTypes, ElementOfSeq
    <3>2. Incoming[i + BLen] # NoByte
      BY <1>3, <2>4 DEF NoByte
    <3> QED BY <2>2, <2>4, <3>1, <3>2 DEF WireBytes, Byte
  <2>6. a \in 1 .. Len(Incoming) /\ Incoming[a] = Byte(m, a)
    BY <1>2
  <2>7. a = i + BLen
    BY <2>3, <2>5, <2>6
  <2>8. Len(Incoming)' \in Nat
    BY <1>3, IncomingTypes
  <2> QED BY <1>3, <2>7, <2>8
<1>12. ASSUME NEW u \in Calls PROVE ~Answering(u)'
  <2>1. Answering(u) => u = m.n
    BY <1>10 DEF AnswersOK, Asking
  <2> QED BY <1>9, <1>11, <2>1
<1>13. ASSUME NEW u \in Calls, conn = "up", Began(Query(u)), ~WasRead(u) PROVE Forgone(u)'
  <2>1. Asking(u) \/ Forgone(u)
    BY <1>13 DEF AnswersOK
  <2>2. ~Asking(u)
    BY <1>8, <1>10, <1>13 DEF Asking
  <2> QED BY <2>1, <2>2
<1>14. \A u \in Calls : /\ WasRead(u)' = WasRead(u) /\ Asking(u)' = Asking(u)
                        /\ Began(Query(u))' = Began(Query(u))
  BY <1>1, <1>3 DEF WasRead, Asking, Began, Query
<1>15. ASSUME NEW u \in Calls
       PROVE  /\ conn' = "up" /\ Began(Query(u))' /\ ~WasRead(u)' => Forgone(u)'
              /\ Asking(u)' => result'.n = u
              /\ pc'[u] # "query"
  <2>1. Asking(u)' => result'.n = u
    BY <1>1, <1>2, <1>10, <1>14 DEF Asking
  <2>2. pc[u] # "query"
    BY <1>8, <1>10 DEF Asking
  <2> QED BY <1>1, <1>3, <1>13, <1>14, <2>1, <2>2
<1>16. \A o \in orders' : o.query = o.for
  BY <1>1 DEF AnswersOK
<1> QED BY <1>9, <1>12, <1>15, <1>16 DEF AnswersOK

(* The exchange tells more.                                                *)
LEMMA TellsMore ==
  ASSUME WireTypes, stream' = stream, NEW b \in Seq(WireBytes), toUs' = toUs \o b
  PROVE  /\ Len(Incoming) \in Nat /\ Len(b) \in Nat
         /\ \A i \in 1 .. Len(Incoming) : i \in 1 .. Len(Incoming') /\ Incoming'[i] = Incoming[i]
         /\ \A x \in 1 .. Len(b) : /\ Len(Incoming) + x \in 1 .. Len(Incoming')
                                   /\ Incoming'[Len(Incoming) + x] = b[x]
         /\ \A i \in 1 .. Len(Incoming') : i \in 1 .. Len(Incoming) \/ \E x \in 1 .. Len(b) : i = Len(Incoming) + x
<1>1. stream \in Seq(WireBytes) /\ toUs \in Seq(WireBytes)
  BY DEF WireTypes
<1>2. PICK s \in Seq(WireBytes) : s = Incoming
  BY IncomingTypes
<1>3. Incoming' = s \o b
  BY <1>1, <1>2, ConcatBytes DEF Incoming
<1>4. /\ Len(s) \in Nat /\ Len(b) \in Nat /\ Len(s \o b) = Len(s) + Len(b)
      /\ \A i \in 1 .. Len(s) : (s \o b)[i] = s[i]
      /\ \A x \in 1 .. Len(b) : (s \o b)[Len(s) + x] = b[x]
  BY ConcatProperties, LenProperties
<1>5. \A i \in 1 .. Len(s) : i \in 1 .. Len(s) + Len(b)
  BY <1>4
<1>6. \A x \in 1 .. Len(b) : Len(s) + x \in 1 .. Len(s) + Len(b)
  BY <1>4
<1>7. ASSUME NEW i \in 1 .. Len(s) + Len(b), ~(i \in 1 .. Len(s)) PROVE \E x \in 1 .. Len(b) : i = Len(s) + x
  <2>1. i - Len(s) \in 1 .. Len(b) /\ i = Len(s) + (i - Len(s))
    BY <1>4, <1>7
  <2> QED BY <2>1
<1> QED BY <1>2, <1>3, <1>4, <1>5, <1>6, <1>7

(* Reports of orders add no quote.                                         *)
LEMMA QuotesMore ==
  ASSUME WireTypes, stream' = stream, want' = want, QuotesOK, NEW b \in Seq(WireBytes), toUs' = toUs \o b,
         \A x \in 1 .. Len(b) : b[x].msg.type # "B"
  PROVE  QuotesOK' /\ \A u \in Calls : Answering(u)' => Answering(u)
<1>1. /\ \A i \in 1 .. Len(Incoming) : i \in 1 .. Len(Incoming') /\ Incoming'[i] = Incoming[i]
      /\ \A i \in 1 .. Len(Incoming') :
           i \in 1 .. Len(Incoming) \/ \E x \in 1 .. Len(b) : Incoming'[i] = b[x]
  <2>1. /\ \A i \in 1 .. Len(Incoming) : i \in 1 .. Len(Incoming') /\ Incoming'[i] = Incoming[i]
        /\ \A x \in 1 .. Len(b) : Incoming'[Len(Incoming) + x] = b[x]
        /\ \A i \in 1 .. Len(Incoming') :
             i \in 1 .. Len(Incoming) \/ \E x \in 1 .. Len(b) : i = Len(Incoming) + x
    BY TellsMore
  <2> QED BY <2>1
<1>2. ASSUME NEW i \in 1 .. Len(Incoming'), Incoming'[i].msg.type = "B"
      PROVE  i \in 1 .. Len(Incoming) /\ Incoming'[i] = Incoming[i]
  BY <1>1, <1>2
<1>3. QuotesOK'
  <2>1. ASSUME NEW i \in 1 .. Len(Incoming'), Incoming'[i].msg.type = "B"
        PROVE  /\ Incoming'[i].msg = QuoteFor(Incoming'[i].msg.n)
               /\ Incoming'[i].at \in 1 .. BLen
               /\ \A j \in 1 .. Len(Incoming') : Incoming'[j] = Incoming'[i] => j = i
    <3>1. i \in 1 .. Len(Incoming) /\ Incoming'[i] = Incoming[i]
      BY <1>2, <2>1
    <3>2. ASSUME NEW j \in 1 .. Len(Incoming'), Incoming'[j] = Incoming'[i] PROVE j = i
      <4>1. j \in 1 .. Len(Incoming) /\ Incoming'[j] = Incoming[j]
        BY <1>2, <2>1, <3>2
      <4> QED BY <2>1, <3>1, <3>2, <4>1 DEF QuotesOK
    <3> QED BY <2>1, <3>1, <3>2 DEF QuotesOK
  <2> QED BY <2>1 DEF QuotesOK, QuoteFor
<1>4. ASSUME NEW u \in Calls, Answering(u)' PROVE Answering(u)
  <2>1. PICK i \in 1 .. Len(Incoming') : Incoming'[i].msg = QuoteFor(u)
    BY <1>4 DEF Answering, QuoteFor
  <2>2. Incoming'[i].msg.type = "B"
    BY <2>1 DEF QuoteFor
  <2> QED BY <1>2, <2>1, <2>2 DEF Answering
<1> QED BY <1>3, <1>4

(* The first answer to a query adds its quote.                             *)
LEMMA QuotesAnswer ==
  ASSUME WireTypes, stream' = stream, want' = want, QuotesOK, NEW v \in Calls, ~Answering(v),
         QuoteFor(v) \in Quotes, toUs' = toUs \o Bytes(QuoteFor(v))
  PROVE  QuotesOK' /\ \A u \in Calls : Answering(u)' => Answering(u) \/ u = v
<1> DEFINE q == QuoteFor(v)
<1>1. PICK b \in Seq(WireBytes) : /\ b = Bytes(q) /\ Len(b) = BLen
                                  /\ \A x \in 1 .. BLen : b[x] = Byte(q, x)
  <2>1. q \in Messages /\ Size(q) = BLen
    BY DEF Messages, QuoteFor, Size, MsgLen
  <2> QED BY <2>1, BytesOf
<1>2. q.type = "B" /\ q.n = v /\ \A x \in 1 .. BLen : Byte(q, x).msg = q /\ Byte(q, x).at = x
  BY DEF QuoteFor, Byte
<1>3. toUs' = toUs \o b
  BY <1>1
<1>4. /\ Len(Incoming) \in Nat /\ BLen \in Nat
      /\ \A i \in 1 .. Len(Incoming) : i \in 1 .. Len(Incoming') /\ Incoming'[i] = Incoming[i]
      /\ \A x \in 1 .. Len(b) : Incoming'[Len(Incoming) + x] = b[x]
      /\ \A i \in 1 .. Len(Incoming') :
           i \in 1 .. Len(Incoming) \/ \E x \in 1 .. Len(b) : i = Len(Incoming) + x
  BY <1>1, <1>3, TellsMore
<1> HIDE DEF q
<1>5. ASSUME NEW i \in 1 .. Len(Incoming')
      PROVE  \/ i \in 1 .. Len(Incoming) /\ Incoming'[i] = Incoming[i] /\ Incoming'[i].msg # q
             \/ \E x \in 1 .. BLen : i = Len(Incoming) + x /\ Incoming'[i] = Byte(q, x)
  <2>1. \A j \in 1 .. Len(Incoming) : Incoming[j].msg # q
    BY DEF Answering, q
  <2> QED BY <1>1, <1>4, <2>1
<1>6. ASSUME NEW i \in 1 .. Len(Incoming'), Incoming'[i].msg.type = "B"
      PROVE  /\ Incoming'[i].msg = QuoteFor(Incoming'[i].msg.n)
             /\ Incoming'[i].at \in 1 .. BLen
             /\ \A j \in 1 .. Len(Incoming') : Incoming'[j] = Incoming'[i] => j = i
  <2>1. CASE i \in 1 .. Len(Incoming) /\ Incoming'[i] = Incoming[i] /\ Incoming'[i].msg # q
    <3>1. \A j \in 1 .. Len(Incoming') : Incoming'[j] = Incoming'[i] =>
            j \in 1 .. Len(Incoming) /\ Incoming'[j] = Incoming[j]
      <4>1. \A x \in 1 .. BLen : Byte(q, x) # Incoming'[i]
        BY <1>2, <2>1
      <4> QED BY <1>5, <4>1, Zenon
    <3> QED BY <1>6, <2>1, <3>1 DEF QuotesOK
  <2>2. ASSUME NEW x \in 1 .. BLen, i = Len(Incoming) + x, Incoming'[i] = Byte(q, x)
        PROVE  /\ Incoming'[i].msg = QuoteFor(Incoming'[i].msg.n)
               /\ Incoming'[i].at \in 1 .. BLen
               /\ \A j \in 1 .. Len(Incoming') : Incoming'[j] = Incoming'[i] => j = i
    <3>1. Incoming'[i].msg = q /\ Incoming'[i].at = x
      BY <1>2, <2>2
    <3>2. ASSUME NEW j \in 1 .. Len(Incoming'), Incoming'[j] = Incoming'[i] PROVE j = i
      <4>1. PICK y \in 1 .. BLen : j = Len(Incoming) + y /\ Incoming'[j] = Byte(q, y)
        BY <1>5, <3>1, <3>2
      <4>2. y = x
        BY <1>2, <3>1, <3>2, <4>1
      <4> QED BY <2>2, <4>1, <4>2
    <3> QED BY <1>2, <3>1, <3>2 DEF q
  <2> QED BY <1>5, <2>1, <2>2
<1>7. ASSUME NEW u \in Calls, Answering(u)' PROVE Answering(u) \/ u = v
  <2>1. PICK i \in 1 .. Len(Incoming') : Incoming'[i].msg = QuoteFor(u)
    BY <1>7 DEF Answering, QuoteFor
  <2>2. CASE i \in 1 .. Len(Incoming) /\ Incoming'[i] = Incoming[i]
    BY <2>1, <2>2 DEF Answering
  <2>3. ASSUME NEW x \in 1 .. BLen, Incoming'[i] = Byte(q, x) PROVE u = v
    <3>1. QuoteFor(u) = q /\ QuoteFor(u).n = u
      BY <1>2, <2>1, <2>3 DEF QuoteFor
    <3> QED BY <1>2, <3>1
  <2> QED BY <1>5, <2>2, <2>3
<1>8. QuotesOK'
  BY <1>6 DEF QuotesOK, QuoteFor
<1> QED BY <1>7, <1>8

(* The exchange answers the one query that waits.                          *)
LEMMA AnswersExchange ==
  ASSUME CallTypes, ConnInv, OnlyReal, ReadOnce, Regular, AnswersOK, Exchange, UNCHANGED callerVars,
         \A u \in Calls : Forgone(u) => Forgone(u)'
  PROVE  AnswersOK'
<1>1. RingTypes /\ WireTypes /\ RefsOK /\ conn = "up" /\ want' = want /\ QuotesOK
  BY ExchangeDoes DEF ConnInv, callerVars, AnswersOK
<1>2. stream' = stream /\ toUs \in Seq(WireBytes) /\ taken \in Seq(Requests)
  BY <1>1, ExchangeDoes DEF ExchangeUnchanged, fillVars, WireTypes
<1>3. ASSUME toUs' = toUs PROVE QuotesOK' /\ \A u \in Calls : Answering(u)' => Answering(u)
  BY <1>1, <1>2, <1>3 DEF QuotesOK, Answering, Incoming, QuoteFor
<1>4. ASSUME NEW m \in Requests, taken' = Append(taken, m)
      PROVE  /\ \A u \in Calls : WasRead(u) => WasRead(u)'
             /\ \A u \in Calls : m = Query(u) => WasRead(u)'
  <2>1. /\ Len(taken') = Len(taken) + 1 /\ taken'[Len(taken) + 1] = m /\ Len(taken) \in Nat
        /\ \A i \in 1 .. Len(taken) : taken'[i] = taken[i]
    BY <1>2, <1>4, AppendProperties, LenProperties
  <2>2. Len(taken) + 1 \in 1 .. Len(taken') /\ \A i \in 1 .. Len(taken) : i \in 1 .. Len(taken')
    BY <2>1
  <2> QED BY <1>1, <2>1, <2>2 DEF WasRead, Query
<1>5. CASE taken' = taken /\ Silent
  <2>1. toUs' = toUs /\ \A u \in Calls : WasRead(u)' = WasRead(u)
    BY <1>1, <1>5 DEF Silent, Tells, WasRead, Query
  <2>2. conn' = conn \/ conn' # "up"
    BY <1>1, ExchangeDoes
  <2> QED BY <1>3, <2>1, <2>2, AnswersPass
<1>6. ASSUME NEW m \in Requests, Reads(m), Silent PROVE AnswersOK'
  <2>1. toUs' = toUs /\ taken' = Append(taken, m) /\ conn' = conn
    BY <1>6 DEF Silent, Tells, Reads
  <2> QED BY <1>3, <1>4, <2>1, AnswersPass
<1>7. ASSUME NEW m \in Requests, Reads(m), m.type = "O", Fill("A", m.n) \in Fills, Fill("E", m.n) \in Fills,
             toUs' = (toUs \o Bytes(Fill("A", m.n))) \o Bytes(Fill("E", m.n))
      PROVE  AnswersOK'
  <2>1. taken' = Append(taken, m) /\ conn' = conn
    BY <1>7 DEF Reads
  <2>2. PICK a \in Messages, e \in Messages :
          a = Fill("A", m.n) /\ e = Fill("E", m.n) /\ a.type # "B" /\ e.type # "B"
    BY <1>7 DEF Messages, Fills
  <2>3. PICK s \in Seq(WireBytes), t \in Seq(WireBytes) :
          /\ s = Bytes(a) /\ \A i \in 1 .. Len(s) : s[i] = Byte(a, i)
          /\ t = Bytes(e) /\ \A i \in 1 .. Len(t) : t[i] = Byte(e, i)
    BY BytesOf
  <2>4. PICK b \in Seq(WireBytes) : b = s \o t
    BY ConcatProperties
  <2>5. toUs' = toUs \o b
    <3>1. toUs' = (toUs \o s) \o t
      BY <1>7, <2>2, <2>3, Zenon
    <3>2. (toUs \o s) \o t = toUs \o (s \o t)
      BY <1>2, ConcatBytes
    <3> QED BY <2>4, <3>1, <3>2, Zenon
  <2>6. ASSUME NEW x \in 1 .. Len(b) PROVE b[x].msg.type # "B"
    <3>1. /\ Len(s) \in Nat /\ Len(t) \in Nat /\ Len(b) = Len(s) + Len(t)
          /\ \A i \in 1 .. Len(s) : b[i] = s[i]
          /\ \A i \in 1 .. Len(t) : b[Len(s) + i] = t[i]
      BY <2>4, ConcatProperties, LenProperties
    <3>2. x \in 1 .. Len(s) \/ (x - Len(s) \in 1 .. Len(t) /\ x = Len(s) + (x - Len(s)))
      BY <3>1
    <3>3. b[x] = Byte(a, x) \/ b[x] = Byte(e, x - Len(s))
      BY <2>3, <3>1, <3>2
    <3> QED BY <2>2, <3>3 DEF Byte
  <2>7. QuotesOK' /\ \A u \in Calls : Answering(u)' => Answering(u)
    BY <1>1, <1>2, <2>5, <2>6, QuotesMore
  <2> QED BY <1>4, <2>1, <2>7, AnswersPass
<1>8. ASSUME NEW m \in Requests, Reads(m), m.type = "Q", Answer(m) \in Quotes,
             toUs' = toUs \o Bytes(Answer(m))
      PROVE  AnswersOK'
  <2>1. /\ taken' = Append(taken, m) /\ conn' = conn /\ m = toEx[1].msg /\ Complete(toEx)
        /\ Decodes(Frame(toEx)) /\ m \in Messages /\ toEx \in Seq(WireBytes)
    BY <1>1, <1>8 DEF Reads, Messages, WireTypes
  <2>2. \A i \in 1 .. Size(m) : i \in 1 .. Len(toEx) /\ toEx[i] = Byte(m, i)
    BY <2>1, FrameIs
  <2>3. 1 \in 1 .. Size(m)
    BY <2>1, Sizes
  <2>4. 1 \in 1 .. Len(toEx) /\ toEx[1] = Byte(m, 1)
    BY <2>2, <2>3
  <2>5. PICK v \in Calls : v = m.n /\ m = Query(v) /\ Began(m)
    <3>1. m # NoMsg /\ m.n \in Calls
      BY DEF Requests, NoMsg
    <3>2. Real(m)
      BY <2>1, <2>4 DEF OnlyReal
    <3> QED BY <1>8, <3>1, <3>2 DEF Real, Order
  <2>6. ~WasRead(v)
    <3>1. OnWire(v)
      BY <2>4, <2>5 DEF OnWire, First
    <3> QED BY <1>1, <3>1 DEF ReadOnce, Once
  <2>a. ~Forgone(v)
    <3>1. Size(m) \in 1 .. Size(m)
      BY <2>1, Sizes
    <3>2. Size(m) \in 1 .. Len(toEx) /\ toEx[Size(m)] = Byte(m, Size(m))
      BY <2>2, <3>1
    <3> QED BY <2>5, <3>2 DEF Forgone, Lost
  <2>7. ~Answering(v) /\ Asking(v) /\ waiting
    BY <1>1, <2>5, <2>6, <2>a DEF AnswersOK
  <2>8. Answer(m) = QuoteFor(v)
    BY <2>5 DEF Answer, QuoteFor, Query
  <2>9. QuotesOK' /\ \A u \in Calls : Answering(u)' => Answering(u) \/ u = v
    BY <1>1, <1>2, <1>8, <2>7, <2>8, QuotesAnswer
  <2>10. WasRead(v)'
    BY <1>4, <2>1, <2>5
  <2>11. \A u \in Calls : Answering(u)' => Answering(u) \/ (WasRead(u)' /\ Asking(u) /\ waiting)
    BY <2>7, <2>9, <2>10
  <2> QED BY <1>4, <2>1, <2>9, <2>11, AnswersPass
<1> QED BY <1>1, <1>5, <1>6, <1>7, <1>8, ExchangeDoes, Zenon DEF Replies, Tells

(* A call moves on, and nothing is sent, read or told.                     *)
LEMMA CallMoves ==
  ASSUME CallTypes, AnswersOK, UNCHANGED <<stream, toUs, taken, conn, want>>,
         NEW t \in Calls, NEW l, Goto(t, l)
  PROVE  /\ pc'[t] = l /\ QuotesOK'
         /\ \A u \in Calls : /\ Answering(u)' = Answering(u) /\ WasRead(u)' = WasRead(u)
                             /\ u # t => /\ pc'[u] = pc[u] /\ Asking(u)' = Asking(u)
                                         /\ Began(Query(u))' = Began(Query(u))
         /\ Asking(t)' <=> l \in {"sendQ", "wait"}
         /\ Began(Query(t))' <=> l \notin {"new", "lock", "query"}
         /\ Began(Query(t)) <=> pc[t] \notin {"new", "lock", "query"}
<1>1. pc'[t] = l /\ \A u \in Calls : u # t => pc'[u] = pc[u]
  BY Goes
<1>2. Incoming' = Incoming
  BY DEF Incoming
<1>3. \A u \in Calls : Query(u)' = Query(u) /\ Query(u).n = u /\ Query(u).type = "Q" /\ QuoteFor(u)' = QuoteFor(u)
  BY DEF Query, QuoteFor
<1>4. \A u \in Calls : Answering(u)' = Answering(u) /\ WasRead(u)' = WasRead(u)
  BY <1>2, <1>3 DEF Answering, WasRead
<1>5. QuotesOK'
  BY <1>2 DEF AnswersOK, QuotesOK, QuoteFor
<1>6. \A u \in Calls : /\ Began(Query(u)) <=> pc[u] \notin {"new", "lock", "query"}
                       /\ Began(Query(u))' <=> pc'[u] \notin {"new", "lock", "query"}
  BY <1>3 DEF Began
<1>7. \A u \in Calls : u # t => /\ Asking(u)' = Asking(u)
                                /\ Began(Query(u))' = Began(Query(u))
  BY <1>1, <1>3 DEF Asking, Began
<1>8. Asking(t)' <=> l \in {"sendQ", "wait"}
  BY <1>1 DEF Asking
<1> QED BY <1>1, <1>4, <1>5, <1>6, <1>7, <1>8, Zenon

(* A call arms the flag before it asks, and takes its own answer.          *)
LEMMA AnswersCall ==
  ASSUME CallTypes, ConnInv, Mutual, LastKept, OneQuery, Regular, ~unanswered', AnswersOK,
         \A u \in Calls : Forgone(u) => Forgone(u)',
         NEW t \in Calls, Call(t) \/ Lock(t) \/ Send(t) \/ QuerySent(t) \/ OrderSent(t) \/ TimeOut(t) \/ Take(t)
  PROVE  AnswersOK'
<1>1. UNCHANGED <<stream, toUs, taken, conn, want>>
  BY DEF Call, Lock, Send, QuerySent, OrderSent, TimeOut, Take, Returned, Begin, Spin,
         connVars, exchangeVars, fillVars
<1>2. ASSUME NEW u \in Calls
      PROVE  /\ Answering(u) => WasRead(u) /\ Asking(u) /\ waiting
             /\ conn = "up" /\ Began(Query(u)) /\ ~WasRead(u) => (Asking(u) /\ waiting) \/ Forgone(u)'
             /\ Asking(u) /\ ~waiting => result.n = u
             /\ pc[u] = "query" => waiting
             /\ pc[u] \in {"query", "sendQ", "wait"} <=> holder = u
             /\ Asking(u) <=> pc[u] \in {"sendQ", "wait"}
  BY DEF AnswersOK, OneQuery, Asking
<1>3. ASSUME NEW l, Goto(t, l), waiting' <=> waiting, UNCHANGED <<result, orders>>,
             \/ pc[t] \in {"new"} /\ l = "lock"
             \/ pc[t] \in {"query", "sendQ"} /\ l \in {"sendQ", "wait"}
             \/ pc[t] \in {"order", "sendO"} /\ l \in {"sendO", "done"}
      PROVE  AnswersOK'
  <2>1. /\ pc'[t] = l /\ QuotesOK'
        /\ \A u \in Calls : /\ Answering(u)' = Answering(u) /\ WasRead(u)' = WasRead(u)
                            /\ u # t => /\ pc'[u] = pc[u] /\ Asking(u)' = Asking(u)
                                        /\ Began(Query(u))' = Began(Query(u))
        /\ Asking(t)' <=> l \in {"sendQ", "wait"}
        /\ Began(Query(t))' <=> l \notin {"new", "lock", "query"}
        /\ Began(Query(t)) <=> pc[t] \notin {"new", "lock", "query"}
    BY <1>1, <1>3, CallMoves
  <2>2. ASSUME NEW u \in Calls
        PROVE  /\ Answering(u)' => WasRead(u)' /\ Asking(u)' /\ waiting'
               /\ conn' = "up" /\ Began(Query(u))' /\ ~WasRead(u)' => (Asking(u)' /\ waiting') \/ Forgone(u)'
               /\ Asking(u)' /\ ~waiting' => result'.n = u
               /\ pc'[u] = "query" => waiting'
    <3>1. CASE u # t
      BY <1>1, <1>2, <1>3, <2>1, <3>1
    <3>2. CASE u = t
      BY <1>1, <1>2, <1>3, <2>1, <3>2
    <3> QED BY <3>1, <3>2
  <2>3. \A o \in orders' : o.query = o.for
    BY <1>3 DEF AnswersOK
  <2> QED BY <2>1, <2>2, <2>3 DEF AnswersOK
<1>4. CASE Call(t)
  BY <1>3, <1>4 DEF Call
<1>5. CASE Send(t)
  BY <1>3, <1>5 DEF Send
<1>6. CASE OrderSent(t)
  BY <1>3, <1>6 DEF OrderSent, Returned
<1>7. CASE TimeOut(t)
  BY <1>7 DEF TimeOut
<1>8. CASE Lock(t)
  <2>1. pc[t] = "lock" /\ waiting' /\ Goto(t, "query") /\ UNCHANGED <<result, orders>>
    BY <1>8 DEF Lock
  <2>2. /\ pc'[t] = "query" /\ QuotesOK'
        /\ \A u \in Calls : /\ Answering(u)' = Answering(u) /\ WasRead(u)' = WasRead(u)
                            /\ u # t => /\ pc'[u] = pc[u] /\ Asking(u)' = Asking(u)
                                        /\ Began(Query(u))' = Began(Query(u))
        /\ ~Asking(t)' /\ ~Began(Query(t))'
    BY <1>1, <2>1, CallMoves
  <2>3. ASSUME NEW u \in Calls
        PROVE  /\ Answering(u)' => WasRead(u)' /\ Asking(u)'
               /\ conn' = "up" /\ Began(Query(u))' /\ ~WasRead(u)' => Asking(u)' \/ Forgone(u)'
    <3>1. CASE u # t
      BY <1>1, <1>2, <2>2, <3>1
    <3>2. CASE u = t
      BY <1>2, <2>1, <2>2, <3>2
    <3> QED BY <3>1, <3>2
  <2>4. \A o \in orders' : o.query = o.for
    BY <2>1 DEF AnswersOK
  <2> QED BY <2>1, <2>2, <2>3, <2>4 DEF AnswersOK
<1>9. CASE QuerySent(t) /\ tx.at = "ok"
  <2>1. pc[t] = "sendQ" /\ Goto(t, "wait") /\ UNCHANGED <<waiting, result, orders>>
    BY <1>9 DEF QuerySent, Returned
  <2> QED BY <1>3, <2>1
<1>10. CASE QuerySent(t) /\ tx.at = "failed"
  <2>1. /\ pc[t] = "sendQ" /\ ~waiting' /\ Goto(t, "done") /\ mtx = t /\ UNCHANGED <<result, orders>>
    BY <1>10 DEF QuerySent, Returned, Fail
  <2>2. /\ pc'[t] = "done" /\ QuotesOK' /\ ~Asking(t)'
        /\ \A u \in Calls : /\ Answering(u)' = Answering(u) /\ WasRead(u)' = WasRead(u)
                            /\ u # t => /\ pc'[u] = pc[u] /\ Asking(u)' = Asking(u)
                                        /\ Began(Query(u))' = Began(Query(u))
    BY <1>1, <2>1, CallMoves
  <2>3. t # NoCall
    BY DEF Calls, NoCall
  <2>4. tx.msg = Query(t)
    BY <2>1, <2>3 DEF Mutual
  <2>5. ~WasRead(t) /\ Forgone(t)'
    <3>1. Lost(tx.msg) /\ Failing
      BY <1>10 DEF ConnInv, SendOK, Regular, LastKept
    <3>2. UNCHANGED <<toEx, taken, conn, faults>>
      BY <1>10 DEF QuerySent, Returned, exchangeVars, kernelVars
    <3>3. Query(t)' = Query(t)
      BY <1>1 DEF Query
    <3>4. Lost(Query(t))'
      BY <2>4, <3>1, <3>2, <3>3 DEF Lost, Byte, Size, MsgLen
    <3>5. ~WasRead(t)
      BY <2>4, <3>1 DEF Lost, WasRead
    <3> QED BY <2>2, <3>1, <3>2, <3>4, <3>5 DEF Forgone, Failing
  <2>6. \A u \in Calls : pc[u] \in {"query", "sendQ", "wait"} => u = t
    BY <1>2, <2>1
  <2>7. ASSUME NEW u \in Calls
        PROVE  /\ ~Answering(u)' /\ ~Asking(u)' /\ pc'[u] # "query"
               /\ conn' = "up" /\ Began(Query(u))' /\ ~WasRead(u)' => Forgone(u)'
    <3>1. CASE u = t
      BY <1>2, <2>2, <2>5, <3>1
    <3>2. CASE u # t
      BY <1>1, <1>2, <2>2, <2>6, <3>2
    <3> QED BY <3>1, <3>2
  <2>8. \A o \in orders' : o.query = o.for
    BY <2>1 DEF AnswersOK
  <2> QED BY <2>1, <2>2, <2>7, <2>8 DEF AnswersOK
<1>11. CASE Take(t)
  <2>1. /\ pc[t] = "wait" /\ ~waiting /\ (waiting' <=> waiting) /\ result' = result
        /\ Goto(t, "order") \/ Goto(t, "done")
        /\ orders' = orders \/ orders' = orders \cup {[query |-> t, for |-> result.n]}
    BY <1>11 DEF Take
  <2>2. result.n = t
    BY <1>2, <2>1
  <2>3. \A o \in orders' : o.query = o.for
    BY <2>1, <2>2 DEF AnswersOK
  <2>4. PICK l \in {"order", "done"} : Goto(t, l)
    BY <2>1
  <2>5. /\ pc'[t] = l /\ QuotesOK' /\ ~Asking(t)'
        /\ \A u \in Calls : /\ Answering(u)' = Answering(u) /\ WasRead(u)' = WasRead(u)
                            /\ u # t => /\ pc'[u] = pc[u] /\ Asking(u)' = Asking(u)
                                        /\ Began(Query(u))' = Began(Query(u))
        /\ Began(Query(t))
    BY <1>1, <2>1, <2>4, CallMoves
  <2>6. ASSUME NEW u \in Calls
        PROVE  /\ ~Answering(u)'
               /\ conn' = "up" /\ Began(Query(u))' /\ ~WasRead(u)' => Forgone(u)'
               /\ Asking(u)' => result'.n = u
               /\ pc'[u] # "query"
    <3>1. CASE u # t
      BY <1>1, <1>2, <2>1, <2>5, <3>1
    <3>2. CASE u = t
      BY <1>1, <1>2, <2>1, <2>5, <3>2
    <3> QED BY <3>1, <3>2
  <2> QED BY <2>1, <2>3, <2>5, <2>6 DEF AnswersOK
<1>12. QuerySent(t) => tx.at \in {"ok", "failed"}
  BY DEF QuerySent
<1> QED BY <1>4, <1>5, <1>6, <1>7, <1>8, <1>9, <1>10, <1>11, <1>12

(* AnswersOK is inductive until a query gives up.                          *)
LEMMA AnswersStep ==
  ASSUME CallTypes, ConnInv, SendsInv, ReadOnce, OneQuery,
         ~stale /\ ~LeftBehind /\ ~unanswered => AnswersOK,
         [Next]_vars, ~stale', ~LeftBehind', ~unanswered'
  PROVE  AnswersOK'
<1>1. ~stale /\ ~LeftBehind /\ Regular /\ ~kept'
  BY Grows DEF LeftBehind, Regular
<1>a. RingTypes /\ WireTypes /\ OnlyReal /\ Mutual /\ LastKept
  BY <1>1 DEF ConnInv, SendsInv, Regular
<1>b. \A u \in Calls : Forgone(u) => Forgone(u)'
  BY <1>1, <1>a, ForgoneStep
<1>2. ~unanswered
  <2>1. CASE \E t \in Calls : Call(t) \/ Lock(t) \/ Send(t) \/ QuerySent(t) \/ OrderSent(t) \/ TimeOut(t) \/ Take(t)
    BY <2>1, Zenon DEF Call, Lock, Send, QuerySent, OrderSent, TimeOut, Take, Returned
  <2>2. CASE OnBookQuote \/ UNCHANGED callerVars \/ UNCHANGED vars
    BY <2>2, Zenon DEF OnBookQuote, callerVars, vars
  <2> QED BY <2>1, <2>2, Zenon DEF Next, Caller
<1>3. AnswersOK
  BY <1>1, <1>2
<1>4. ASSUME UNCHANGED <<callerVars, stream, toUs, taken, conn>> PROVE AnswersOK'
  <2>1. want' = want /\ Incoming' = Incoming
    BY <1>4 DEF callerVars, Incoming
  <2>2. QuotesOK' /\ \A u \in Calls : Answering(u)' = Answering(u) /\ WasRead(u)' = WasRead(u)
    BY <1>3, <1>4, <2>1 DEF AnswersOK, QuotesOK, QuoteFor, Answering, WasRead, Query
  <2> QED BY <1>3, <1>4, <1>b, <2>2, AnswersPass
<1>5. CASE (SendZcAll \/ Notify) /\ UNCHANGED callerVars
  <2>1. CASE LeavesBytes
    BY <1>1, <2>1, Grows
  <2>2. CASE (\E k \in 1 .. Capacity : Submit(k)) \/ SubmitError \/ Reap \/ Notify
    BY <1>4, <1>5, <2>2 DEF Submit, SubmitError, Reap, ReapUnchanged, Notify, exchangeVars, fillVars
  <2> QED BY <1>5, <2>1, <2>2, Zenon DEF SendZcAll, LeavesBytes
<1>6. CASE UNCHANGED vars
  BY <1>4, <1>6 DEF vars, connVars, exchangeVars, fillVars
<1>7. CASE OnBookQuote
  BY <1>3, <1>7, <1>a, <1>b, AnswersQuote
<1>8. CASE FillThread /\ UNCHANGED callerVars
  BY <1>3, <1>8, <1>a, <1>b, AnswersFill DEF FillStep
<1>9. CASE Exchange /\ UNCHANGED callerVars
  BY <1>1, <1>3, <1>9, <1>a, <1>b, AnswersExchange
<1>10. ASSUME NEW t \in Calls,
              Call(t) \/ Lock(t) \/ Send(t) \/ QuerySent(t) \/ OrderSent(t) \/ TimeOut(t) \/ Take(t)
       PROVE  AnswersOK'
  BY <1>1, <1>3, <1>10, <1>a, <1>b, AnswersCall
<1> QED BY <1>5, <1>6, <1>7, <1>8, <1>9, <1>10, Zenon DEF Next, Caller

(* The invariant of the queries holds at the start.                        *)
LEMMA QueryStart == ASSUME Init PROVE QueryInv
<1>1. /\ ring = [i \in 0 .. Capacity - 1 |-> NoByte] /\ head = 0 /\ tail = 0 /\ tx = Idle
      /\ toEx = <<>> /\ toUs = <<>> /\ stream = <<>> /\ taken = <<>> /\ orders = {}
      /\ pc = [t \in Calls |-> "new"] /\ holder = NoCall
  BY DEF Init, ConnInit
<1>2. /\ tx.at = "idle" /\ Len(toEx) = 0 /\ Len(taken) = 0 /\ \A i \in 1 .. 0 : FALSE
      /\ Incoming = <<>> /\ Len(Incoming) = 0
  BY <1>1, EmptySeq DEF Idle, Incoming
<1>3. \A u \in Calls : ~OnWire(u) /\ ~WasRead(u) /\ ~Answering(u) /\ pc[u] = "new" /\ u # NoCall
  BY <1>1, <1>2 DEF OnWire, WasRead, Answering, Calls, NoCall
<1>4. ASSUME NEW u \in Calls PROVE Once(u)
  <2>1. \A r \in 0 .. Capacity - 1 : ring[r] # First(u)
    BY <1>1 DEF First, Byte, NoByte
  <2>2. Out(0)
    BY <1>2 DEF Out
  <2> QED BY <1>2, <1>3, <2>1, <2>2 DEF Once
<1>5. OneQuery
  BY <1>1, <1>3 DEF OneQuery
<1>6. AnswersOK
  <2>1. QuotesOK
    BY <1>2 DEF QuotesOK
  <2>2. \A u \in Calls : ~Asking(u) /\ ~Began(Query(u)) /\ pc[u] # "query"
    BY <1>3 DEF Asking, Began, Query
  <2> QED BY <1>1, <1>3, <2>1, <2>2 DEF AnswersOK
<1> QED BY <1>4, <1>5, <1>6 DEF QueryInv, ReadOnce

(* Each query is read at most once, only the holder of query_mtx_ is       *)
(* asking, and until a query has given up, a send taken a completion that  *)
(* was not its own or bytes been left behind, the answer on its way is the *)
(* holder's.                                                               *)
THEOREM QueryInvariant == Spec => []QueryInv
<1>1. CallTypes /\ ConnInv /\ SendsInv /\ QueryInv /\ [Next]_vars => QueryInv'
  <2>1. ASSUME CallTypes, ConnInv, SendsInv, QueryInv, [Next]_vars PROVE QueryInv'
    <3>1. ReadOnce'
      BY <2>1, ReadOnceStep DEF QueryInv
    <3>2. OneQuery'
      BY <2>1, OneQueryStep DEF QueryInv
    <3>3. ASSUME ~stale', ~LeftBehind', ~unanswered' PROVE AnswersOK'
      BY <2>1, <3>3, AnswersStep DEF QueryInv
    <3> QED BY <3>1, <3>2, <3>3 DEF QueryInv
  <2> QED BY <2>1
<1> QED BY <1>1, QueryStart, SendsInvariant, ConnectionInvariant, PTL DEF Spec

(* A limit order made from a market order is priced from the answer to its *)
(* own query, also after sends that failed on a connection that stays up,  *)
(* until a query has given up waiting, a send has taken a completion that  *)
(* was not its own or bytes of a failed send were left behind.             *)
THEOREM QuoteIsOwn == Spec => []QuoteIsOwnUnlessLate
<1>1. QueryInv => QuoteIsOwnUnlessLate
  BY Zenon DEF QueryInv, AnswersOK, QuoteIsOwnUnlessLate
<1> QED BY <1>1, QueryInvariant, PTL
=============================================================================
