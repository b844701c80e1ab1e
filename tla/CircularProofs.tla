--------------------------- MODULE CircularProofs ---------------------------
(***************************************************************************)
(* Proofs about the two structures that wrap round an array: the byte ring *)
(* of the parser (core/queue/spsc_byte_ring.h) with its two users, the     *)
(* feed of the receive thread and the parser's loop, for every capacity,   *)
(* header size, longest body and number of messages; and the hash table of *)
(* price levels (market/book/order_book.h), for every hash, set of prices  *)
(* and initial size.                                                       *)
(***************************************************************************)
EXTENDS ByteRing, PriceLevelTable, SequenceTheorems, SumLemmas, TLAPS

Lengths == HeaderBytes + 1 .. HeaderBytes + MaxBody

RingTypes ==
  /\ head_ \in Nat /\ tail_ \in Nat
  /\ buf_ \in [0 .. Capacity - 1 -> Nat \X Nat]
  /\ sent \in Seq([at : Nat, len : Lengths])
  /\ parsed \in Seq(Nat)

WriterTypes == writer \in [pc : {"idle", "push", "write", "publish"}, len : Nat, at : Nat]
ParserTypes == parser \in [pc : {"read_head", "load_used", "gap", "parse", "release"},
                           n : Nat, used : Nat, len : Nat]

(* A message that follows one that ends at e starts there, or on the next  *)
(* lap when a header does not fit behind e.                                *)
Follows(e, at) ==
  /\ at = e \/ (at = NextLap(e) /\ Room(e) < HeaderBytes)
  /\ Room(at) >= HeaderBytes

End(s) == IF s = 0 THEN 0 ELSE sent[s].at + sent[s].len

(* The messages lie behind each other, up to the tail.                     *)
Chain ==
  /\ tail_ = End(Len(sent))
  /\ \A s \in 1 .. Len(sent) : Follows(End(s - 1), sent[s].at)
  /\ \A s \in 1 .. Len(sent) : sent[s].at + sent[s].len <= tail_

Cursors == head_ <= tail_ /\ tail_ <= head_ + Capacity

(* What the receive thread has decided stays true while it writes: the     *)
(* room it found can only grow.                                            *)
WriterOK ==
  /\ writer.pc # "idle" => writer.len \in Lengths
  /\ writer.pc \in {"write", "publish"} =>
       /\ tail_ <= writer.at /\ writer.at + writer.len <= head_ + Capacity
       /\ Follows(tail_, writer.at)
  /\ writer.pc = "publish" =>
       \A i \in 1 .. writer.len : buf_[Pos(writer.at + i - 1)] = <<Len(sent) + 1, i>>

(* What the parser has read off the cursors is still there.                *)
ParserOK ==
  /\ parser.pc = "load_used" => head_ + parser.n <= tail_ /\ parser.n <= Room(head_)
  /\ parser.pc = "parse" =>
       /\ HeaderBytes <= Room(head_) /\ HeaderBytes <= parser.used
       /\ parser.n = HeaderBytes /\ head_ + parser.used <= tail_
  /\ parser.pc = "release" => head_ + parser.len <= tail_

(* The number of messages behind the head.                                 *)
Done == IF parser.pc = "release" THEN Len(parsed) - 1 ELSE Len(parsed)

(* As long as only gaps were skipped, the head is at the end of the last   *)
(* message parsed or at the start of the next one.                         *)
InStep ==
  ~skewed =>
    /\ Done \in 0 .. Len(sent)
    /\ \A k \in 1 .. Len(parsed) : parsed[k] = k
    /\ head_ = End(Done) \/ (Done < Len(sent) /\ head_ = sent[Done + 1].at)
    /\ parser.pc = "release" =>
         /\ Done < Len(sent) /\ head_ = sent[Done + 1].at
         /\ parser.len = sent[Done + 1].len

RingInv == /\ RingTypes /\ WriterTypes /\ ParserTypes
           /\ Chain /\ Cursors /\ WriterOK /\ ParserOK /\ UnreadIntact
-----------------------------------------------------------------------------
(* Places in the buffer.                                                   *)
LEMMA Positive ==
  /\ Capacity \in Nat \ {0} /\ HeaderBytes \in Nat \ {0} /\ MaxBody \in Nat \ {0}
  /\ \A l \in Lengths : l \in Nat /\ HeaderBytes < l /\ l <= Capacity
  /\ HeaderBytes <= Capacity
BY ByteRingAssumption DEF Lengths

(* A place is so many laps and a position.                                 *)
LEMMA PosSplit ==
  ASSUME NEW x \in Int
  PROVE  /\ Pos(x) \in 0 .. Capacity - 1
         /\ x \div Capacity \in Int
         /\ x = Capacity * (x \div Capacity) + Pos(x)
BY Positive DEF Pos

(* The laps and the position of a place are unique.                        *)
LEMMA PosIs ==
  ASSUME NEW a \in Int, NEW r \in 0 .. Capacity - 1, NEW x \in Int, x = Capacity * a + r
  PROVE  Pos(x) = r /\ x \div Capacity = a
<1> DEFINE b == x \div Capacity
           p == Pos(x)
<1>1. p \in 0 .. Capacity - 1 /\ b \in Int /\ x = Capacity * b + p /\ Capacity \in Nat \ {0}
  BY PosSplit, Positive
<1> HIDE DEF b, p
<1>2. Capacity * (a - b) = p - r
  BY <1>1
<1>3. CASE a - b >= 1
  <2>1. Capacity * (a - b) >= Capacity
    BY <1>1, <1>3
  <2> QED BY <1>1, <1>2, <2>1
<1>4. CASE a - b <= -1
  <2>1. Capacity * (a - b) <= -Capacity
    BY <1>1, <1>4
  <2> QED BY <1>1, <1>2, <2>1
<1>5. CASE a = b
  <2>1. p = r
    BY <1>1, <1>5
  <2> QED BY <1>5, <2>1 DEF b, p
<1>6. a - b >= 1 \/ a - b <= -1 \/ a = b
  BY <1>1
<1> QED BY <1>3, <1>4, <1>5, <1>6

(* The distance of two places, going round the buffer.                     *)
LEMMA PosShift ==
  ASSUME NEW x \in Int, NEW y \in Int
  PROVE  /\ x - y \in 0 .. Capacity - 1 => Pos(Pos(x) - y) = x - y
         /\ x - y + Capacity \in 0 .. Capacity - 1 => Pos(Pos(x) - y) = x - y + Capacity
<1> DEFINE b == x \div Capacity
           p == Pos(x)
<1>1. p \in Int /\ b \in Int /\ x = Capacity * b + p /\ Capacity \in Nat \ {0}
  BY PosSplit, Positive
<1> HIDE DEF b, p
<1>2. /\ p - y \in Int /\ 0 - b \in Int /\ 0 - b - 1 \in Int
      /\ p - y = Capacity * (0 - b) + (x - y)
      /\ p - y = Capacity * (0 - b - 1) + (x - y + Capacity)
  BY <1>1
<1>3. ASSUME x - y \in 0 .. Capacity - 1 PROVE Pos(p - y) = x - y
  BY <1>2, <1>3, PosIs
<1>4. ASSUME x - y + Capacity \in 0 .. Capacity - 1 PROVE Pos(p - y) = x - y + Capacity
  BY <1>2, <1>4, PosIs
<1> QED BY <1>3, <1>4 DEF p

(* The next lap begins where the room of this one ends.                    *)
LEMMA NextLapIs ==
  ASSUME NEW x \in Nat
  PROVE  /\ Room(x) \in 1 .. Capacity
         /\ NextLap(x) = x + Room(x) /\ NextLap(x) \in Nat
         /\ Room(NextLap(x)) = Capacity
<1> DEFINE b == x \div Capacity
           p == Pos(x)
<1>0. x \in Int
  OBVIOUS
<1>1. p \in 0 .. Capacity - 1 /\ b \in Int /\ x = Capacity * b + p /\ Capacity \in Nat \ {0}
  BY <1>0, PosSplit, Positive
<1>2. Room(x) = Capacity - p /\ NextLap(x) = (b + 1) * Capacity
  BY DEF Room, NextLap
<1> HIDE DEF b, p
<1>3. Capacity - p \in 1 .. Capacity /\ (b + 1) * Capacity = x + (Capacity - p)
  BY <1>1
<1>4. (b + 1) * Capacity \in Nat /\ b + 1 \in Int /\ 0 \in 0 .. Capacity - 1
      /\ (b + 1) * Capacity = Capacity * (b + 1) + 0
  BY <1>1, <1>3
<1>5. Pos((b + 1) * Capacity) = 0
  BY <1>4, PosIs
<1>6. Room((b + 1) * Capacity) = Capacity
  BY <1>1, <1>5 DEF Room
<1> QED BY <1>2, <1>3, <1>4, <1>6
-----------------------------------------------------------------------------
(* The messages pushed and parsed, and their lengths.                      *)
LEMMA SentTypes ==
  ASSUME RingTypes
  PROVE  /\ Len(sent) \in Nat /\ DOMAIN sent = 1 .. Len(sent)
         /\ \A s \in 1 .. Len(sent) : sent[s].at \in Nat /\ sent[s].len \in Lengths
                                      /\ sent[s].len \in Nat
         /\ Len(parsed) \in Nat
<1>1. sent \in Seq([at : Nat, len : Lengths]) /\ parsed \in Seq(Nat)
  BY DEF RingTypes
<1>2. \A s \in 1 .. Len(sent) : sent[s] \in [at : Nat, len : Lengths]
  BY <1>1, ElementOfSeq
<1> QED BY <1>1, <1>2, LenProperties, Positive

(* The ring starts empty and in step.                                      *)
LEMMA InitRing == Init => RingInv /\ InStep
<1> SUFFICES ASSUME Init PROVE RingInv /\ InStep
  OBVIOUS
<1> USE DEF Init
<1>1. /\ sent = <<>> /\ parsed = <<>> /\ Len(sent) = 0 /\ Len(parsed) = 0
      /\ DOMAIN sent = {}
  BY EmptySeq
<1>2. RingTypes /\ WriterTypes /\ ParserTypes
  BY <1>1, EmptySeq, Positive DEF RingTypes, WriterTypes, ParserTypes
<1>3. Chain /\ Cursors /\ UnreadIntact
  BY <1>1, Positive DEF Chain, Cursors, UnreadIntact, End
<1>4. WriterOK /\ ParserOK /\ InStep
  BY <1>1 DEF WriterOK, ParserOK, InStep, Done, End
<1> QED BY <1>2, <1>3, <1>4 DEF RingInv
-----------------------------------------------------------------------------
(* The receive thread.                                                     *)
LEMMA StartFits ==
  ASSUME RingTypes, Cursors, NEW len \in Lengths, Fits(len)
  PROVE  /\ Start(len) \in Nat /\ tail_ <= Start(len) /\ Start(len) + len <= head_ + Capacity
         /\ Follows(tail_, Start(len))
<1>1. /\ tail_ \in Nat /\ head_ \in Nat /\ head_ <= tail_ /\ Capacity \in Nat
      /\ HeaderBytes \in Nat /\ len \in Nat /\ HeaderBytes < len /\ HeaderBytes <= Capacity
  BY Positive DEF RingTypes, Cursors
<1> DEFINE room == Room(tail_)
<1>2. /\ room \in 1 .. Capacity /\ NextLap(tail_) = tail_ + room /\ NextLap(tail_) \in Nat
      /\ Room(NextLap(tail_)) = Capacity /\ room = Capacity - Pos(tail_)
  BY <1>1, NextLapIs DEF Room
<1>3. Pos(tail_) \in Int
  BY <1>1, PosSplit
<1>4. (Pos(tail_) + len <= Capacity) <=> (len <= room)
  BY <1>1, <1>2, <1>3
<1> HIDE DEF room
<1>5. CASE len <= room
  <2>1. Start(len) = tail_ /\ Capacity - (tail_ - head_) >= len
    BY <1>4, <1>5 DEF Start, Fits
  <2>2. tail_ + len <= head_ + Capacity /\ room >= HeaderBytes /\ tail_ <= tail_
    BY <1>1, <1>2, <1>5, <2>1
  <2> QED BY <1>1, <2>1, <2>2 DEF Follows, room
<1>6. CASE ~(len <= room)
  <2>1. NextLap(tail_) + len <= head_ + Capacity
    BY <1>4, <1>6 DEF Fits
  <2>2. Start(len) = IF room >= HeaderBytes THEN tail_ ELSE NextLap(tail_)
    BY <1>4, <1>6 DEF Start, room
  <2>3. CASE room >= HeaderBytes
    <3>1. tail_ + len <= head_ + Capacity /\ tail_ <= tail_
      BY <1>1, <1>2, <2>1
    <3> QED BY <1>1, <2>2, <2>3, <3>1 DEF Follows, room
  <2>4. CASE ~(room >= HeaderBytes)
    <3>1. tail_ <= NextLap(tail_) /\ room < HeaderBytes
      BY <1>1, <1>2, <2>4
    <3>2. Room(NextLap(tail_)) >= HeaderBytes
      BY <1>1, <1>2
    <3> QED BY <1>2, <2>1, <2>2, <2>4, <3>1, <3>2 DEF Follows, room
  <2> QED BY <2>3, <2>4
<1> QED BY <1>5, <1>6

(* The unpacker hands a message to push.                                   *)
LEMMA UnpackStep ==
  ASSUME RingInv, InStep, NEW body \in 1 .. MaxBody, Unpack(body)
  PROVE  RingInv' /\ InStep'
<1>1. /\ buf_' = buf_ /\ head_' = head_ /\ tail_' = tail_ /\ parser' = parser
      /\ sent' = sent /\ parsed' = parsed /\ skewed' = skewed
      /\ writer' = [writer EXCEPT !.pc = "push", !.len = HeaderBytes + body]
  BY DEF Unpack, ring
<1>2. HeaderBytes + body \in Lengths /\ HeaderBytes + body \in Nat
  BY Positive DEF Lengths
<1>3. WriterTypes' /\ writer'.pc = "push" /\ writer'.len \in Lengths
  BY <1>1, <1>2 DEF RingInv, WriterTypes
<1>4. WriterOK'
  BY <1>3 DEF WriterOK
<1>5. RingTypes' /\ ParserTypes' /\ Chain' /\ Cursors' /\ ParserOK' /\ UnreadIntact'
  BY <1>1 DEF RingInv, RingTypes, ParserTypes, Chain, Cursors, ParserOK, UnreadIntact, End
<1>6. InStep'
  BY <1>1 DEF InStep, Done, End
<1> QED BY <1>3, <1>4, <1>5, <1>6 DEF RingInv

(* push computes the gap and finds room.                                   *)
LEMMA PushCheckStep ==
  ASSUME RingInv, InStep, PushCheck
  PROVE  RingInv' /\ InStep'
<1>1. /\ buf_' = buf_ /\ head_' = head_ /\ tail_' = tail_ /\ parser' = parser
      /\ sent' = sent /\ parsed' = parsed /\ skewed' = skewed
      /\ writer' = [writer EXCEPT !.pc = "write", !.at = Start(writer.len)]
      /\ writer.pc = "push" /\ Fits(writer.len)
  BY DEF PushCheck, ring
<1>2. writer.len \in Lengths
  BY <1>1 DEF RingInv, WriterOK
<1>3. /\ Start(writer.len) \in Nat /\ tail_ <= Start(writer.len)
      /\ Start(writer.len) + writer.len <= head_ + Capacity
      /\ Follows(tail_, Start(writer.len))
  BY <1>1, <1>2, StartFits DEF RingInv
<1>4. /\ WriterTypes' /\ writer'.pc = "write" /\ writer'.len = writer.len
      /\ writer'.at = Start(writer.len)
  BY <1>1, <1>3 DEF RingInv, WriterTypes
<1>5. Follows(tail_, writer'.at)
  BY <1>3, <1>4
<1>6. Follows(tail_, writer.at)'
  BY <1>1, <1>5 DEF Follows, NextLap, Room, Pos
<1>7. WriterOK'
  BY <1>1, <1>2, <1>3, <1>4, <1>6 DEF WriterOK
<1>8. RingTypes' /\ ParserTypes' /\ Chain' /\ Cursors' /\ ParserOK' /\ UnreadIntact'
  BY <1>1 DEF RingInv, RingTypes, ParserTypes, Chain, Cursors, ParserOK, UnreadIntact, End
<1>9. InStep'
  BY <1>1 DEF InStep, Done, End
<1> QED BY <1>4, <1>7, <1>8, <1>9 DEF RingInv

(* What the copy changes: the places of the new message, nothing between   *)
(* the head and the tail.                                                  *)
LEMMA CopyPlaces ==
  ASSUME RingInv, PushWrite
  PROVE  /\ buf_' \in [0 .. Capacity - 1 -> Nat \X Nat]
         /\ \A i \in 1 .. writer.len : buf_'[Pos(writer.at + i - 1)] = <<Len(sent) + 1, i>>
         /\ \A x \in Int : head_ <= x /\ x < tail_ => buf_'[Pos(x)] = buf_[Pos(x)]
<1> DEFINE at  == writer.at
           len == writer.len
           C   == Capacity
           new(p) == LET i == Pos(p - at) + 1
                     IN  IF i <= len THEN <<Len(sent) + 1, i>> ELSE buf_[p]
<1>1. /\ buf_' = [p \in 0 .. C - 1 |-> new(p)]
      /\ writer.pc = "write"
  BY DEF PushWrite
<1>2. /\ at \in Nat /\ len \in Nat /\ C \in Nat /\ head_ \in Nat /\ tail_ \in Nat
      /\ tail_ <= at /\ at + len <= head_ + C /\ head_ <= tail_ /\ len <= C
  BY <1>1, Positive DEF RingInv, WriterOK, WriterTypes, RingTypes, Cursors
<1>3. buf_ \in [0 .. C - 1 -> Nat \X Nat] /\ Len(sent) + 1 \in Nat
  BY SentTypes DEF RingInv, RingTypes
<1>4. \A p \in 0 .. C - 1 : new(p) \in Nat \X Nat
  <2> TAKE p \in 0 .. C - 1
  <2>1. p - at \in Int
    BY <1>2
  <2>2. Pos(p - at) + 1 \in Nat
    BY <1>2, <2>1, PosSplit
  <2> QED BY <1>3, <2>2
<1>5. ASSUME NEW i \in 1 .. len
      PROVE  buf_'[Pos(at + i - 1)] = <<Len(sent) + 1, i>>
  <2> DEFINE x == at + i - 1
  <2>1. x \in Int /\ x - at \in 0 .. C - 1 /\ (x - at) + 1 = i /\ at \in Int
    BY <1>2
  <2>2. Pos(Pos(x) - at) = x - at
    BY <2>1, PosShift
  <2>3. Pos(x) \in 0 .. C - 1
    BY <2>1, PosSplit
  <2>4. Pos(Pos(x) - at) + 1 = i /\ i <= len
    BY <1>2, <2>1, <2>2
  <2> HIDE DEF x
  <2>5. new(Pos(x)) = <<Len(sent) + 1, i>>
    BY <2>4
  <2> HIDE DEF new
  <2>6. buf_'[Pos(x)] = new(Pos(x))
    BY <1>1, <2>3
  <2> QED BY <2>5, <2>6 DEF x
<1>6. ASSUME NEW x \in Int, head_ <= x, x < tail_
      PROVE  buf_'[Pos(x)] = buf_[Pos(x)]
  <2>1. x - at + C \in 0 .. C - 1 /\ at \in Int /\ ~(x - at + C + 1 <= len)
    BY <1>2, <1>6
  <2>2. Pos(Pos(x) - at) = x - at + C
    BY <2>1, PosShift
  <2>3. Pos(x) \in 0 .. C - 1
    BY PosSplit
  <2>4. ~(Pos(Pos(x) - at) + 1 <= len)
    BY <2>1, <2>2
  <2>5. new(Pos(x)) = buf_[Pos(x)]
    BY <2>4
  <2> HIDE DEF new
  <2> QED BY <1>1, <2>3, <2>5
<1> HIDE DEF new
<1>7. buf_' \in [0 .. C - 1 -> Nat \X Nat]
  BY <1>1, <1>4
<1> QED BY <1>5, <1>6, <1>7

(* The bytes of a message that the parser has not released.                *)
LEMMA UnreadPlaces ==
  ASSUME RingInv, NEW s \in 1 .. Len(sent), sent[s].at >= head_, NEW i \in 1 .. sent[s].len
  PROVE  /\ sent[s].at + i - 1 \in Int /\ head_ <= sent[s].at + i - 1
         /\ sent[s].at + i - 1 < tail_
<1>1. /\ sent[s].at \in Nat /\ sent[s].len \in Nat /\ head_ \in Nat /\ tail_ \in Nat
      /\ sent[s].at + sent[s].len <= tail_
  BY SentTypes DEF RingInv, RingTypes, Chain
<1> QED BY <1>1

(* push copies a piece of the message.                                     *)
LEMMA PushWriteStep ==
  ASSUME RingInv, InStep, PushWrite
  PROVE  RingInv' /\ InStep'
<1>1. /\ head_' = head_ /\ tail_' = tail_ /\ parser' = parser
      /\ sent' = sent /\ parsed' = parsed /\ skewed' = skewed
      /\ writer' = [writer EXCEPT !.pc = "publish"] /\ writer.pc = "write"
  BY DEF PushWrite
<1>2. /\ buf_' \in [0 .. Capacity - 1 -> Nat \X Nat]
      /\ \A i \in 1 .. writer.len : buf_'[Pos(writer.at + i - 1)] = <<Len(sent) + 1, i>>
      /\ \A x \in Int : head_ <= x /\ x < tail_ => buf_'[Pos(x)] = buf_[Pos(x)]
  BY CopyPlaces
<1>3. /\ WriterTypes' /\ writer'.pc = "publish" /\ writer'.len = writer.len
      /\ writer'.at = writer.at
  BY <1>1 DEF RingInv, WriterTypes
<1>4. /\ writer.len \in Lengths /\ tail_ <= writer.at /\ writer.at + writer.len <= head_ + Capacity
      /\ Follows(tail_, writer.at)
  BY <1>1 DEF RingInv, WriterOK
<1>5. Follows(tail_, writer.at)'
  BY <1>1, <1>3, <1>4 DEF Follows, NextLap, Room, Pos
<1>6. \A i \in 1 .. writer'.len : buf_'[Pos(writer'.at + i - 1)] = <<Len(sent') + 1, i>>
  BY <1>1, <1>2, <1>3
<1>7. WriterOK'
  <2>1. (\A i \in 1 .. writer.len : buf_[Pos(writer.at + i - 1)] = <<Len(sent) + 1, i>>)'
    BY <1>6 DEF Pos
  <2> QED BY <1>1, <1>3, <1>4, <1>5, <2>1 DEF WriterOK
<1>8. UnreadIntact'
  <2> SUFFICES ASSUME NEW s \in 1 .. Len(sent), sent[s].at >= head_, NEW i \in 1 .. sent[s].len
               PROVE  buf_'[Pos(sent[s].at + i - 1)] = <<s, i>>
    BY <1>1, SentTypes DEF UnreadIntact, RingInv, Pos
  <2>1. buf_[Pos(sent[s].at + i - 1)] = <<s, i>>
    BY SentTypes DEF RingInv, UnreadIntact
  <2> QED BY <1>2, <2>1, UnreadPlaces
<1>9. RingTypes' /\ ParserTypes' /\ Chain' /\ Cursors' /\ ParserOK'
  BY <1>1, <1>2 DEF RingInv, RingTypes, ParserTypes, Chain, Cursors, ParserOK, End
<1>10. InStep'
  BY <1>1 DEF InStep, Done, End
<1> QED BY <1>3, <1>7, <1>8, <1>9, <1>10 DEF RingInv

(* push publishes the tail.                                                *)
LEMMA PushPublishStep ==
  ASSUME RingInv, InStep, PushPublish
  PROVE  RingInv' /\ InStep'
<1> DEFINE m == [at |-> writer.at, len |-> writer.len]
<1>0. \E k \in Nat : k = Len(sent)
  BY SentTypes DEF RingInv
<1> PICK n \in Nat : n = Len(sent)
  BY <1>0
<1>1. /\ buf_' = buf_ /\ head_' = head_ /\ parser' = parser /\ parsed' = parsed
      /\ skewed' = skewed /\ tail_' = writer.at + writer.len /\ sent' = Append(sent, m)
      /\ writer' = [writer EXCEPT !.pc = "idle"] /\ writer.pc = "publish"
  BY DEF PushPublish
<1>2. /\ writer.len \in Lengths /\ writer.len \in Nat /\ writer.at \in Nat /\ tail_ <= writer.at
      /\ writer.at + writer.len <= head_ + Capacity /\ Follows(tail_, writer.at)
      /\ \A i \in 1 .. writer.len : buf_[Pos(writer.at + i - 1)] = <<n + 1, i>>
  BY <1>1 DEF RingInv, WriterOK, WriterTypes
<1>3. head_ \in Nat /\ tail_ \in Nat /\ head_ <= tail_
  BY DEF RingInv, RingTypes, Cursors
<1>4. m \in [at : Nat, len : Lengths] /\ m.at = writer.at /\ m.len = writer.len
  BY <1>2
<1> HIDE DEF m
<1>5. /\ sent' \in Seq([at : Nat, len : Lengths]) /\ Len(sent') = n + 1 /\ sent'[n + 1] = m
      /\ \A s \in 1 .. n : sent'[s] = sent[s]
  BY <1>1, <1>4, AppendProperties DEF RingInv, RingTypes
<1>6. /\ \A s \in 1 .. n + 1 : s \in 1 .. n \/ s = n + 1
      /\ \A s \in 1 .. n : s \in 1 .. n + 1 /\ s - 1 \in 0 .. n /\ s # 0
      /\ n + 1 # 0 /\ (n + 1) - 1 = n /\ n \in 0 .. n
  OBVIOUS
<1>7. tail_' \in Nat /\ tail_ <= tail_'
  BY <1>1, <1>2, <1>3
<1>8. RingTypes' /\ WriterTypes' /\ ParserTypes' /\ writer'.pc = "idle"
  BY <1>1, <1>5, <1>7 DEF RingInv, RingTypes, WriterTypes, ParserTypes
<1>9. Cursors' /\ WriterOK' /\ ParserOK'
  <2>1. Cursors'
    BY <1>1, <1>2, <1>3 DEF Cursors
  <2>2. WriterOK'
    BY <1>8 DEF WriterOK
  <2>3. parser.n \in Nat /\ parser.used \in Nat /\ parser.len \in Nat
    BY DEF RingInv, ParserTypes
  <2>4. ParserOK'
    BY <1>1, <1>3, <1>7, <2>3 DEF RingInv, ParserOK, Room, Pos
  <2> QED BY <2>1, <2>2, <2>4
<1>10. \A k \in 0 .. n : End(k)' = End(k)
  <2> TAKE k \in 0 .. n
  <2>1. k = 0 \/ k \in 1 .. n
    OBVIOUS
  <2> QED BY <1>5, <2>1 DEF End
<1>11. Chain'
  <2>1. tail_' = End(n + 1)'
    BY <1>1, <1>4, <1>5, <1>6 DEF End
  <2>2. tail_ = End(n) /\ \A s \in 1 .. n : Follows(End(s - 1), sent[s].at)
    BY DEF RingInv, Chain
  <2>3. ASSUME NEW s \in 1 .. n + 1 PROVE Follows(End(s - 1), sent[s].at)'
    <3>1. CASE s \in 1 .. n
      <4>1. s - 1 \in 0 .. n
        BY <3>1
      <4>2. End(s - 1)' = End(s - 1) /\ sent'[s].at = sent[s].at
        BY <1>5, <1>10, <3>1, <4>1
      <4> QED BY <2>2, <3>1, <4>2 DEF Follows, NextLap, Room, Pos
    <3>2. CASE s = n + 1
      <4>1. End(s - 1)' = tail_ /\ sent'[s].at = writer.at
        BY <1>4, <1>5, <1>6, <1>10, <2>2, <3>2
      <4> QED BY <1>2, <4>1 DEF Follows, NextLap, Room, Pos
    <3> QED BY <1>6, <3>1, <3>2
  <2>4. ASSUME NEW s \in 1 .. n + 1 PROVE sent'[s].at + sent'[s].len <= tail_'
    <3>1. CASE s \in 1 .. n
      <4>1. sent[s].at + sent[s].len <= tail_ /\ sent[s].at \in Nat /\ sent[s].len \in Nat
        BY <3>1, SentTypes DEF RingInv, Chain
      <4>2. sent[s].at + sent[s].len <= tail_'
        BY <1>3, <1>7, <4>1
      <4> QED BY <1>5, <3>1, <4>2
    <3>2. CASE s = n + 1
      BY <1>1, <1>2, <1>4, <1>5, <3>2
    <3> QED BY <1>6, <3>1, <3>2
  <2> QED BY <1>5, <2>1, <2>3, <2>4 DEF Chain
<1>12. UnreadIntact'
  <2> SUFFICES ASSUME NEW s \in 1 .. n + 1, sent'[s].at >= head_, NEW i \in 1 .. sent'[s].len
               PROVE  buf_[Pos(sent'[s].at + i - 1)] = <<s, i>>
    <3>1. DOMAIN sent' = 1 .. n + 1
      BY <1>5
    <3> QED BY <1>1, <3>1 DEF UnreadIntact, Pos
  <2>1. CASE s \in 1 .. n
    BY <1>5, <2>1, SentTypes DEF RingInv, UnreadIntact
  <2>2. CASE s = n + 1
    BY <1>2, <1>4, <1>5, <2>2
  <2> QED BY <1>6, <2>1, <2>2
<1>13. InStep'
  <2> SUFFICES ASSUME ~skewed
      PROVE  /\ Done' \in 0 .. n + 1
             /\ \A k \in 1 .. Len(parsed) : parsed[k] = k
             /\ head_ = End(Done)' \/ (Done' < n + 1 /\ head_ = sent'[Done' + 1].at)
             /\ parser.pc = "release" =>
                  /\ Done' < n + 1 /\ head_ = sent'[Done' + 1].at
                  /\ parser.len = sent'[Done' + 1].len
    BY <1>1, <1>5 DEF InStep, Done
  <2>1. Done' = Done
    BY <1>1 DEF Done
  <2>2. /\ Done \in 0 .. n
        /\ \A k \in 1 .. Len(parsed) : parsed[k] = k
        /\ head_ = End(Done) \/ (Done < n /\ head_ = sent[Done + 1].at)
        /\ parser.pc = "release" =>
             /\ Done < n /\ head_ = sent[Done + 1].at
             /\ parser.len = sent[Done + 1].len
    BY DEF InStep
  <2>3. \A d \in 0 .. n : d < n => d + 1 \in 1 .. n
    OBVIOUS
  <2>4. Done < n => sent'[Done + 1] = sent[Done + 1]
    BY <1>5, <2>2, <2>3
  <2>5. End(Done)' = End(Done)
    <3>1. \E d \in 0 .. n : d = Done
      BY <2>2
    <3>2. PICK d \in 0 .. n : d = Done
      BY <3>1
    <3>3. End(d)' = End(d)
      BY <1>10
    <3>4. End(Done)' = End(d)'
      BY <2>1, <3>2 DEF End
    <3> QED BY <3>2, <3>3, <3>4
  <2>6. Done \in 0 .. n + 1 /\ (Done < n => Done < n + 1)
    BY <2>2
  <2> QED BY <2>1, <2>2, <2>4, <2>5, <2>6
<1> QED BY <1>8, <1>9, <1>11, <1>12, <1>13 DEF RingInv
-----------------------------------------------------------------------------
(* The parser thread.                                                      *)
LEMMA CursorTypes ==
  ASSUME RingInv
  PROVE  /\ head_ \in Nat /\ tail_ \in Nat /\ head_ <= tail_ /\ tail_ - head_ \in Nat
         /\ parser.n \in Nat /\ parser.used \in Nat /\ parser.len \in Nat
         /\ Room(head_) \in 1 .. Capacity /\ NextLap(head_) = head_ + Room(head_)
<1>1. /\ head_ \in Nat /\ tail_ \in Nat /\ head_ <= tail_
      /\ parser.n \in Nat /\ parser.used \in Nat /\ parser.len \in Nat
  BY DEF RingInv, RingTypes, Cursors, ParserTypes
<1> QED BY <1>1, NextLapIs

(* A step of the parser that leaves the head where it is.                  *)
LEMMA HeadStays ==
  ASSUME RingInv, UNCHANGED <<ring, writer, sent>>, ParserTypes', ParserOK', parsed' \in Seq(Nat)
  PROVE  RingInv'
<1>1. /\ buf_' = buf_ /\ head_' = head_ /\ tail_' = tail_ /\ writer' = writer /\ sent' = sent
  BY DEF ring
<1>2. RingTypes' /\ WriterTypes'
  BY <1>1 DEF RingInv, RingTypes, WriterTypes
<1>3. Chain' /\ Cursors' /\ WriterOK' /\ UnreadIntact'
  BY <1>1 DEF RingInv, Chain, Cursors, WriterOK, UnreadIntact, End, Follows, NextLap, Room, Pos
<1> QED BY <1>2, <1>3 DEF RingInv

(* A step that moves the head, up to the tail at most.                     *)
LEMMA HeadMoves ==
  ASSUME RingInv, UNCHANGED <<buf_, tail_, writer, sent, parsed>>,
         head_' \in Nat, head_ <= head_', head_' <= tail_,
         ParserTypes', parser'.pc = "read_head"
  PROVE  RingInv'
<1>1. /\ buf_' = buf_ /\ tail_' = tail_ /\ writer' = writer /\ sent' = sent /\ parsed' = parsed
  OBVIOUS
<1>2. RingTypes' /\ WriterTypes' /\ ParserOK'
  BY <1>1 DEF RingInv, RingTypes, WriterTypes, ParserOK
<1>3. Chain'
  BY <1>1 DEF RingInv, Chain, End, Follows, NextLap, Room, Pos
<1>4. head_ \in Nat /\ tail_ \in Nat /\ tail_ <= head_ + Capacity /\ Capacity \in Nat
  BY Positive DEF RingInv, RingTypes, Cursors
<1>5. Cursors'
  <2>1. \A x, y, z, c \in Nat : z <= x + c /\ x <= y => z <= y + c
    OBVIOUS
  <2>2. tail_ <= head_' + Capacity
    BY <1>4, <2>1
  <2> QED BY <1>1, <2>2 DEF Cursors
<1>6. WriterOK'
  <2>1. writer.at \in Nat /\ writer.len \in Nat
    BY DEF RingInv, WriterTypes
  <2>2. writer.at + writer.len <= head_ + Capacity => writer.at + writer.len <= head_' + Capacity
    BY <1>4, <2>1
  <2>3. WriterOK
    BY DEF RingInv
  <2> QED BY <1>1, <2>2, <2>3 DEF WriterOK, Follows, NextLap, Room, Pos
<1>7. UnreadIntact'
  <2> SUFFICES ASSUME NEW s \in DOMAIN sent, sent[s].at >= head_', NEW i \in 1 .. sent[s].len
               PROVE  buf_[Pos(sent[s].at + i - 1)] = <<s, i>>
    BY <1>1 DEF UnreadIntact, Pos
  <2>1. sent[s].at \in Nat
    BY SentTypes DEF RingInv
  <2>2. sent[s].at >= head_
    BY <1>4, <2>1
  <2> QED BY <2>2 DEF RingInv, UnreadIntact
<1> QED BY <1>2, <1>3, <1>5, <1>6, <1>7 DEF RingInv

(* The parser reads its head.                                              *)
LEMMA ReadHeadStep ==
  ASSUME RingInv, InStep, ReadHead
  PROVE  RingInv' /\ InStep'
<1>1. /\ buf_' = buf_ /\ head_' = head_ /\ tail_' = tail_ /\ writer' = writer
      /\ sent' = sent /\ parsed' = parsed /\ skewed' = skewed /\ parser.pc = "read_head"
      /\ parser' = [parser EXCEPT !.pc = "load_used", !.n = ReadAcquire(HeaderBytes)]
  BY DEF ReadHead, ring
<1> DEFINE r == ReadAcquire(HeaderBytes)
<1>2. r \in Nat /\ head_ + r <= tail_ /\ r <= Room(head_)
  BY CursorTypes, Positive DEF ReadAcquire, Lesser
<1> HIDE DEF r
<1>3. /\ ParserTypes' /\ parser'.pc = "load_used" /\ parser'.n = r
  BY <1>1, <1>2 DEF RingInv, ParserTypes, r
<1>4. ParserOK'
  BY <1>1, <1>2, <1>3 DEF ParserOK, Room, Pos
<1>5. InStep'
  BY <1>1, <1>3 DEF InStep, Done, End
<1> QED BY <1>1, <1>3, <1>4, <1>5, HeadStays DEF ring, RingInv, RingTypes

(* The parser loads the tail for the number of bytes to read.              *)
LEMMA LoadUsedStep ==
  ASSUME RingInv, InStep, LoadUsed
  PROVE  RingInv' /\ InStep'
<1>1. /\ buf_' = buf_ /\ head_' = head_ /\ tail_' = tail_ /\ writer' = writer
      /\ sent' = sent /\ parsed' = parsed /\ skewed' = skewed /\ parser.pc = "load_used"
      /\ parser' = [parser EXCEPT !.pc = AfterHead(tail_ - head_), !.used = tail_ - head_]
  BY DEF LoadUsed, ring
<1>2. /\ tail_ - head_ \in Nat /\ parser.n \in Nat /\ head_ + (tail_ - head_) <= tail_
      /\ head_ + parser.n <= tail_ /\ parser.n <= Room(head_) /\ parser.n <= tail_ - head_
  BY <1>1, CursorTypes DEF RingInv, ParserOK
<1>3. /\ AfterHead(tail_ - head_) \in {"parse", "gap", "read_head"}
      /\ AfterHead(tail_ - head_) = "parse" => parser.n = HeaderBytes
  BY DEF AfterHead
<1>4. /\ ParserTypes' /\ parser'.pc \in {"parse", "gap", "read_head"}
      /\ parser'.pc = "parse" => parser.n = HeaderBytes
      /\ parser'.n = parser.n /\ parser'.used = tail_ - head_
  BY <1>1, <1>2, <1>3 DEF RingInv, ParserTypes
<1>5. ParserOK'
  BY <1>1, <1>2, <1>4 DEF ParserOK, Room, Pos
<1>6. InStep'
  BY <1>1, <1>4 DEF InStep, Done, End
<1> QED BY <1>1, <1>4, <1>5, <1>6, HeadStays DEF ring, RingInv, RingTypes

(* Where the head is when a gap is skipped: behind message Done, with the  *)
(* next one at the start of the next lap.                                  *)
LEMMA AtGap ==
  ASSUME RingInv, InStep, ~skewed, Room(head_) < HeaderBytes, head_ < tail_,
         parser.pc # "release"
  PROVE  Done < Len(sent) /\ NextLap(head_) = sent[Done + 1].at
<1>1. /\ Done \in 0 .. Len(sent) /\ Len(sent) \in Nat
      /\ head_ = End(Done) \/ (Done < Len(sent) /\ head_ = sent[Done + 1].at)
  BY SentTypes DEF InStep, RingInv
<1> HIDE DEF Done
<1>2. PICK d \in 0 .. Len(sent) : d = Done
  BY <1>1
<1>3. Room(head_) \in Int /\ HeaderBytes \in Int /\ head_ \in Nat /\ tail_ \in Nat
  BY CursorTypes, Positive
<1>4. d < Len(sent) => d + 1 \in 1 .. Len(sent) /\ (d + 1) - 1 = d
  BY <1>1
<1>5. d < Len(sent) => Follows(End(d), sent[d + 1].at)
  BY <1>4 DEF RingInv, Chain
<1>6. ~(d < Len(sent) /\ head_ = sent[d + 1].at)
  BY <1>3, <1>5 DEF Follows
<1>7. head_ = End(d)
  BY <1>1, <1>2, <1>6
<1>8. d # Len(sent)
  BY <1>3, <1>7 DEF RingInv, Chain
<1>9. d < Len(sent)
  BY <1>1, <1>8
<1>10. sent[d + 1].at = NextLap(End(d))
  BY <1>5, <1>6, <1>7, <1>9 DEF Follows
<1> QED BY <1>2, <1>7, <1>9, <1>10

(* Where the head is when a header was read: at message Done + 1.          *)
LEMMA AtMessage ==
  ASSUME RingInv, InStep, ~skewed, parser.pc = "parse"
  PROVE  /\ Done < Len(sent) /\ Done + 1 \in 1 .. Len(sent) /\ head_ = sent[Done + 1].at
         /\ Done = Len(parsed)
<1>1. /\ Done \in 0 .. Len(sent) /\ Len(sent) \in Nat
      /\ head_ = End(Done) \/ (Done < Len(sent) /\ head_ = sent[Done + 1].at)
      /\ Done = Len(parsed)
  BY SentTypes DEF InStep, RingInv, Done
<1> HIDE DEF Done
<1>2. PICK d \in 0 .. Len(sent) : d = Done
  BY <1>1
<1>3. /\ HeaderBytes <= Room(head_) /\ HeaderBytes <= parser.used /\ head_ + parser.used <= tail_
  BY DEF RingInv, ParserOK
<1>4. /\ Room(head_) \in Int /\ HeaderBytes \in Nat /\ HeaderBytes > 0
      /\ head_ \in Nat /\ tail_ \in Nat /\ parser.used \in Nat
  BY CursorTypes, Positive
<1>5. head_ < tail_ /\ ~(Room(head_) < HeaderBytes)
  BY <1>3, <1>4
<1>6. d < Len(sent)
  <2>1. CASE head_ = End(d) /\ d = Len(sent)
    BY <1>4, <1>5, <2>1 DEF RingInv, Chain
  <2>2. d # Len(sent)
    BY <1>1, <1>2, <2>1
  <2> QED BY <1>1, <2>2
<1>7. d + 1 \in 1 .. Len(sent) /\ (d + 1) - 1 = d
  BY <1>1, <1>6
<1>8. Follows(End(d), sent[d + 1].at)
  BY <1>7 DEF RingInv, Chain
<1>9. head_ = sent[d + 1].at
  BY <1>1, <1>2, <1>5, <1>8 DEF Follows
<1> QED BY <1>1, <1>2, <1>6, <1>7, <1>9

(* The parser loads the tail again and skips what it takes for a gap.      *)
LEMMA SkipGapStep ==
  ASSUME RingInv, InStep, SkipGap
  PROVE  RingInv' /\ InStep'
<1>1. /\ buf_' = buf_ /\ tail_' = tail_ /\ writer' = writer
      /\ sent' = sent /\ parsed' = parsed /\ parser.pc = "gap"
      /\ parser' = [parser EXCEPT !.pc = "read_head"]
  BY DEF SkipGap
<1>2. ParserTypes' /\ parser'.pc = "read_head"
  BY <1>1 DEF RingInv, ParserTypes
<1>3. ParserOK'
  BY <1>2 DEF ParserOK
<1>4. CASE NextLap(head_) > tail_ /\ UNCHANGED <<head_, skewed>>
  <2>1. RingInv'
    BY <1>1, <1>2, <1>3, <1>4, HeadStays DEF ring, RingInv, RingTypes
  <2>2. InStep'
    BY <1>1, <1>2, <1>4 DEF InStep, Done, End
  <2> QED BY <2>1, <2>2
<1>5. CASE /\ NextLap(head_) <= tail_ /\ head_' = NextLap(head_)
           /\ skewed' = (skewed \/ Room(head_) >= HeaderBytes)
  <2>1. /\ head_' \in Nat /\ head_ <= head_' /\ head_' <= tail_ /\ head_ < tail_
        /\ Room(head_) \in Int
    BY <1>5, CursorTypes
  <2>2. RingInv'
    BY <1>1, <1>2, <2>1, HeadMoves
  <2>3. ASSUME ~skewed' PROVE Done < Len(sent) /\ head_' = sent[Done + 1].at
    <3>1. ~skewed /\ Room(head_) < HeaderBytes
      <4>1. ~skewed /\ ~(Room(head_) >= HeaderBytes)
        BY <1>5, <2>3, Zenon
      <4> QED BY <2>1, <4>1, Positive
    <3> QED BY <1>1, <1>5, <2>1, <3>1, AtGap
  <2>4. Done' = Done
    BY <1>1, <1>2 DEF Done
  <2>5. ~skewed' => ~skewed
    BY <1>5, Zenon
  <2>6. InStep'
    <3> SUFFICES ASSUME ~skewed' PROVE InStep'
      BY DEF InStep
    <3>1. Done \in 0 .. Len(sent) /\ \A k \in 1 .. Len(parsed) : parsed[k] = k
      BY <2>5 DEF InStep
    <3>2. Done < Len(sent) /\ head_' = sent[Done + 1].at
      BY <2>3
    <3> HIDE DEF Done
    <3> QED BY <1>1, <1>2, <2>4, <3>1, <3>2 DEF InStep
  <2> QED BY <2>2, <2>6
<1> QED BY <1>4, <1>5 DEF SkipGap

(* In step, the parser finds the header of message Done + 1 and is handed  *)
(* that message.                                                           *)
LEMMA FindsMessage ==
  ASSUME RingInv, InStep, ~skewed, parser.pc = "parse", NEW b \in BodyLengths
  PROVE  LET s == Len(parsed) + 1
         IN  /\ s \in 1 .. Len(sent) /\ head_ = sent[s].at
             /\ b \in 1 .. MaxBody /\ HeaderBytes + b = sent[s].len
             /\ Message(HeaderBytes + b) = s
<1> DEFINE s == Len(parsed) + 1
<1>1. s \in 1 .. Len(sent) /\ head_ = sent[s].at
  BY AtMessage
<1>2. /\ sent[s].len \in Lengths /\ sent[s].at \in Nat /\ DOMAIN sent = 1 .. Len(sent)
  BY <1>1, SentTypes DEF RingInv
<1>3. /\ HeaderBytes \in Nat /\ HeaderBytes > 0 /\ MaxBody \in Nat /\ Capacity \in Nat \ {0}
  BY Positive
<1> HIDE DEF s
<1>4. \A i \in 1 .. sent[s].len : buf_[Pos(head_ + i - 1)] = <<s, i>>
  <2>1. head_ \in Nat /\ sent[s].at >= head_
    BY <1>1, <1>2
  <2> QED BY <1>1, <1>2, <2>1 DEF RingInv, UnreadIntact
<1>5. /\ 1 \in 1 .. sent[s].len
      /\ \A i \in 1 .. HeaderBytes : i \in 1 .. sent[s].len
      /\ sent[s].len - HeaderBytes \in 1 .. MaxBody
      /\ HeaderBytes + (sent[s].len - HeaderBytes) = sent[s].len
  BY <1>2, <1>3 DEF Lengths
<1>6. Holds(s, HeaderBytes) /\ Holds(s, sent[s].len)
  BY <1>4, <1>5 DEF Holds
<1>7. buf_[Pos(head_)][1] = s
  <2>1. head_ + 1 - 1 = head_
    BY <1>1, <1>2
  <2>2. buf_[Pos(head_ + 1 - 1)] = <<s, 1>>
    BY <1>4, <1>5
  <2> QED BY <2>1, <2>2
<1>8. b = sent[s].len - HeaderBytes
  BY <1>1, <1>2, <1>6, <1>7 DEF BodyLengths
<1>9. Message(sent[s].len) = s
  BY <1>1, <1>2, <1>6, <1>7 DEF Message
<1> QED BY <1>1, <1>5, <1>8, <1>9 DEF s

(* The number of a message.                                                *)
LEMMA MessageType ==
  ASSUME RingInv, NEW len
  PROVE  Message(len) \in Nat
<1> DEFINE s == buf_[Pos(head_)][1]
<1>1. DOMAIN sent \subseteq Nat
  BY SentTypes DEF RingInv
<1> HIDE DEF s
<1>2. Message(len) = IF s \in DOMAIN sent /\ sent[s].len = len /\ Holds(s, len) THEN s ELSE 0
  BY DEF Message, s
<1> QED BY <1>1, <1>2

(* The parser takes a message.                                             *)
LEMMA ParseStep ==
  ASSUME RingInv, InStep, NEW b \in BodyLengths, Parse(b)
  PROVE  RingInv' /\ InStep'
<1>1. /\ buf_' = buf_ /\ head_' = head_ /\ tail_' = tail_ /\ writer' = writer
      /\ sent' = sent /\ skewed' = skewed /\ parser.pc = "parse"
  BY DEF Parse, ring
<1>2. /\ HeaderBytes <= parser.used /\ parser.n = HeaderBytes /\ head_ + parser.used <= tail_
      /\ head_ \in Nat /\ tail_ \in Nat /\ parser.used \in Nat /\ parser.n \in Nat
  BY <1>1, CursorTypes DEF RingInv, ParserOK
<1>3. parsed \in Seq(Nat)
  BY DEF RingInv, RingTypes
<1>4. ASSUME ~skewed
      PROVE  LET s == Len(parsed) + 1
             IN  /\ s \in 1 .. Len(sent) /\ head_ = sent[s].at
                 /\ b \in 1 .. MaxBody /\ HeaderBytes + b = sent[s].len
                 /\ Message(HeaderBytes + b) = s
  BY <1>1, <1>4, FindsMessage
<1>5. CASE /\ b \notin 1 .. MaxBody /\ parser' = [parser EXCEPT !.pc = "release", !.len = parser.n]
           /\ UNCHANGED parsed
  <2>1. ParserTypes' /\ parser'.pc = "release" /\ parser'.len = parser.n
    BY <1>2, <1>5 DEF RingInv, ParserTypes
  <2>2. head_ + parser.n <= tail_
    BY <1>2
  <2>3. ParserOK'
    BY <1>1, <2>1, <2>2 DEF ParserOK
  <2>4. InStep'
    BY <1>1, <1>4, <1>5 DEF InStep
  <2> QED BY <1>1, <1>3, <1>5, <2>1, <2>3, <2>4, HeadStays DEF ring
<1>6. CASE /\ b \in 1 .. MaxBody /\ parser.used < HeaderBytes + b
           /\ parser' = [parser EXCEPT !.pc = "read_head"] /\ UNCHANGED parsed
  <2>1. ParserTypes' /\ parser'.pc = "read_head"
    BY <1>6 DEF RingInv, ParserTypes
  <2>2. ParserOK'
    BY <2>1 DEF ParserOK
  <2>3. InStep'
    BY <1>1, <1>6, <2>1 DEF InStep, Done, End
  <2> QED BY <1>1, <1>3, <1>6, <2>1, <2>2, <2>3, HeadStays DEF ring
<1>7. CASE /\ b \in 1 .. MaxBody /\ parser.used >= HeaderBytes + b
           /\ parser' = [parser EXCEPT !.pc = "release", !.len = HeaderBytes + b]
           /\ parsed' = Append(parsed, Message(HeaderBytes + b))
  <2>1. HeaderBytes + b \in Nat /\ head_ + (HeaderBytes + b) <= tail_
    BY <1>2, <1>7, Positive
  <2>2. ParserTypes' /\ parser'.pc = "release" /\ parser'.len = HeaderBytes + b
    BY <1>7, <2>1 DEF RingInv, ParserTypes
  <2>3. ParserOK'
    BY <1>1, <2>1, <2>2 DEF ParserOK
  <2>4. /\ parsed' \in Seq(Nat) /\ Len(parsed') = Len(parsed) + 1 /\ Len(parsed) \in Nat
        /\ parsed'[Len(parsed) + 1] = Message(HeaderBytes + b)
        /\ \A k \in 1 .. Len(parsed) : parsed'[k] = parsed[k]
    BY <1>3, <1>7, MessageType, AppendProperties, LenProperties
  <2>5. InStep'
    <3> SUFFICES ASSUME ~skewed
        PROVE  /\ Len(parsed) \in 0 .. Len(sent)
               /\ \A k \in 1 .. Len(parsed) + 1 : parsed'[k] = k
               /\ Len(parsed) < Len(sent) /\ head_ = sent[Len(parsed) + 1].at
               /\ parser'.len = sent[Len(parsed) + 1].len
      <4>1. Len(parsed') - 1 = Len(parsed)
        BY <2>4
      <4>2. Done' = Len(parsed)
        BY <2>2, <4>1 DEF Done
      <4> QED BY <1>1, <2>2, <2>4, <4>2 DEF InStep
    <3>1. /\ Len(parsed) + 1 \in 1 .. Len(sent) /\ head_ = sent[Len(parsed) + 1].at
          /\ HeaderBytes + b = sent[Len(parsed) + 1].len
          /\ parsed'[Len(parsed) + 1] = Len(parsed) + 1
      BY <1>4, <2>4
    <3>2. Len(sent) \in Nat /\ Len(parsed) \in 0 .. Len(sent) /\ Len(parsed) < Len(sent)
      BY <2>4, <3>1, SentTypes DEF RingInv
    <3>3. \A k \in 1 .. Len(parsed) : parsed[k] = k
      BY DEF InStep
    <3>4. \A k \in 1 .. Len(parsed) + 1 : k \in 1 .. Len(parsed) \/ k = Len(parsed) + 1
      BY <2>4
    <3> QED BY <2>2, <2>4, <3>1, <3>2, <3>3, <3>4
  <2> QED BY <1>1, <2>2, <2>3, <2>4, <2>5, HeadStays DEF ring
<1> QED BY <1>5, <1>6, <1>7 DEF Parse

(* The parser releases the bytes.                                          *)
LEMMA ReadReleaseStep ==
  ASSUME RingInv, InStep, ReadRelease
  PROVE  RingInv' /\ InStep'
<1>1. /\ buf_' = buf_ /\ tail_' = tail_ /\ writer' = writer
      /\ sent' = sent /\ parsed' = parsed /\ skewed' = skewed /\ parser.pc = "release"
      /\ head_' = head_ + parser.len
      /\ parser' = [parser EXCEPT !.pc = "read_head"]
  BY DEF ReadRelease
<1>2. ParserTypes' /\ parser'.pc = "read_head"
  BY <1>1 DEF RingInv, ParserTypes
<1>3. head_' \in Nat /\ head_ <= head_' /\ head_' <= tail_
  BY <1>1, CursorTypes DEF RingInv, ParserOK
<1>4. RingInv'
  BY <1>1, <1>2, <1>3, HeadMoves
<1>5. InStep'
  <2> SUFFICES ASSUME ~skewed
      PROVE  /\ Len(parsed) \in 0 .. Len(sent) /\ \A k \in 1 .. Len(parsed) : parsed[k] = k
             /\ head_' = End(Len(parsed))
    BY <1>1, <1>2 DEF InStep, Done, End
  <2>1. /\ Len(parsed) - 1 \in 0 .. Len(sent) /\ Len(parsed) - 1 < Len(sent)
        /\ head_ = sent[Len(parsed) - 1 + 1].at /\ parser.len = sent[Len(parsed) - 1 + 1].len
        /\ \A k \in 1 .. Len(parsed) : parsed[k] = k
    BY <1>1 DEF InStep, Done
  <2>2. /\ Len(parsed) \in 0 .. Len(sent) /\ Len(parsed) # 0 /\ Len(parsed) - 1 + 1 = Len(parsed)
    BY <2>1, SentTypes DEF RingInv
  <2> QED BY <1>1, <2>1, <2>2 DEF End
<1> QED BY <1>4, <1>5

(* Every step keeps the ring and the parser in step with it.               *)
LEMMA NextRing ==
  ASSUME RingInv, InStep, [Next]_vars
  PROVE  RingInv' /\ InStep'
<1>1. CASE UNCHANGED vars
  <2>1. /\ buf_' = buf_ /\ head_' = head_ /\ tail_' = tail_ /\ writer' = writer
        /\ sent' = sent /\ parsed' = parsed /\ skewed' = skewed /\ parser' = parser
    BY <1>1 DEF vars, ring
  <2>2. ParserTypes' /\ ParserOK' /\ parsed' \in Seq(Nat)
    BY <2>1 DEF RingInv, RingTypes, ParserTypes, ParserOK, Room, Pos
  <2>3. InStep'
    BY <2>1 DEF InStep, Done, End
  <2> QED BY <2>1, <2>2, <2>3, HeadStays DEF ring
<1>2. CASE Feed
  BY <1>2, UnpackStep, PushCheckStep, PushWriteStep, PushPublishStep DEF Feed
<1>3. CASE ParseAvailable
  BY <1>3, ReadHeadStep, LoadUsedStep, SkipGapStep, ParseStep, ReadReleaseStep DEF ParseAvailable
<1> QED BY <1>1, <1>2, <1>3 DEF Next
-----------------------------------------------------------------------------
(* The inductive invariant: where the messages lie (Chain), what push()    *)
(* has decided and not yet published (WriterOK), what the parser has read  *)
(* off the cursors (ParserOK), and where the head stands (InStep).         *)
THEOREM ByteRingInvariant == Spec => [](RingInv /\ InStep)
<1>1. Init => RingInv /\ InStep
  BY InitRing
<1>2. (RingInv /\ InStep) /\ [Next]_vars => (RingInv /\ InStep)'
  BY NextRing
<1> QED BY <1>1, <1>2, PTL DEF Spec

(* push() never writes over a message that the parser has not released,    *)
(* for every capacity of at least two of the longest messages: the room it *)
(* computes, gap and straddling body included, is room the parser has      *)
(* given back.                                                             *)
THEOREM UnreadStaysIntact == Spec => []UnreadIntact
<1>1. RingInv /\ InStep => UnreadIntact
  BY DEF RingInv
<1> QED BY <1>1, ByteRingInvariant, PTL

(* As long as the parser skips nothing but gaps it is handed the messages  *)
(* that were fed, whole, each once and in order.                           *)
THEOREM ParsedInOrder == Spec => []ParsedInOrderUnlessSkewed
<1>1. RingInv /\ InStep => ParsedInOrderUnlessSkewed
  <2> SUFFICES ASSUME RingInv, InStep, ~skewed PROVE \A k \in DOMAIN parsed : parsed[k] = k
    BY DEF ParsedInOrderUnlessSkewed
  <2>1. DOMAIN parsed = 1 .. Len(parsed)
    BY DEF RingInv, RingTypes
  <2> QED BY <2>1 DEF InStep
<1> QED BY <1>1, ByteRingInvariant, PTL

-----------------------------------------------------------------------------
(***************************************************************************)
(* The price-level table (market/book/order_book.h).                       *)
(***************************************************************************)
(* A number is its remainder if it is so many times c and the remainder.   *)
LEMMA RemainderIs ==
  ASSUME NEW c \in Nat \ {0}, NEW a \in Int, NEW r \in 0 .. c - 1, NEW x \in Int, x = c * a + r
  PROVE  x % c = r
<1> DEFINE b == x \div c
           p == x % c
<1>1. b \in Int /\ p \in 0 .. c - 1 /\ x = c * b + p
  OBVIOUS
<1> HIDE DEF b, p
<1>2. c * (a - b) = p - r
  BY <1>1
<1>3. ~(a - b >= 1)
  <2>1. a - b >= 1 => c * (a - b) >= c
    BY <1>1
  <2> QED BY <1>1, <1>2, <2>1
<1>4. ~(a - b <= -1)
  <2>1. a - b <= -1 => c * (a - b) <= -c
    BY <1>1
  <2> QED BY <1>1, <1>2, <2>1
<1>5. a = b
  BY <1>1, <1>3, <1>4
<1>6. p = r
  BY <1>1, <1>2, <1>5
<1> QED BY <1>6 DEF p

(* Where a search begins, in a table no larger than the hash's range.      *)
LEMMA ProbeType ==
  ASSUME NEW p \in Prices, NEW c \in Nat \ {0}, c <= HashBits
  PROVE  Probe(p, c) \in Nat
<1> DEFINE q == HashBits \div c
           r == HashBits % c
<1>1. HashBits \in Nat /\ Hash[p] \in Nat
  BY TableAssumption
<1>2. q \in Int /\ r \in 0 .. c - 1 /\ HashBits = c * q + r
  BY <1>1
<1> HIDE DEF q, r
<1>3. q >= 1
  <2>1. q <= 0 => c * q <= 0
    BY <1>2
  <2> QED BY <1>1, <1>2, <2>1
<1>4. Hash[p] \div q \in Nat
  BY <1>1, <1>2, <1>3
<1> QED BY <1>4 DEF Probe, q

(* A search visits each slot of the table once.                            *)
LEMMA SearchVisits ==
  ASSUME NEW p \in Prices, NEW c \in Nat \ {0}, c <= HashBits
  PROVE  /\ \A n \in Nat : At(p, c, n) \in 0 .. c - 1
         /\ \A n, m \in 0 .. c - 1 : At(p, c, n) = At(p, c, m) => n = m
         /\ \A i \in 0 .. c - 1 : \E n \in 0 .. c - 1 : At(p, c, n) = i
<1> DEFINE h == Probe(p, c)
           a == h \div c
           r == h % c
<1>1. h \in Nat
  BY ProbeType
<1>2. a \in Int /\ r \in 0 .. c - 1 /\ h = c * a + r
  BY <1>1
<1>3. \A n \in Nat : At(p, c, n) = (h + n) % c
  BY DEF At
<1> HIDE DEF h, a, r
<1>4. \A n \in Nat : At(p, c, n) \in 0 .. c - 1
  BY <1>1, <1>3
<1>5. ASSUME NEW n \in 0 .. c - 1
      PROVE  At(p, c, n) = IF r + n < c THEN r + n ELSE r + n - c
  <2>1. CASE r + n < c
    <3>1. r + n \in 0 .. c - 1 /\ h + n = c * a + (r + n) /\ h + n \in Int /\ n \in Nat
      BY <1>1, <1>2, <2>1
    <3> DEFINE x == h + n
               y == r + n
    <3>2. x \in Int /\ y \in 0 .. c - 1 /\ x = c * a + y
      BY <3>1
    <3> HIDE DEF x, y
    <3>3. x % c = y
      BY <1>2, <3>2, RemainderIs
    <3> QED BY <1>3, <2>1, <3>1, <3>3 DEF x, y
  <2>2. CASE ~(r + n < c)
    <3>1. /\ r + n - c \in 0 .. c - 1 /\ h + n \in Int /\ n \in Nat /\ a + 1 \in Int
          /\ h + n = c * (a + 1) + (r + n - c)
      BY <1>1, <1>2, <2>2
    <3> DEFINE x == h + n
               y == r + n - c
    <3>2. x \in Int /\ y \in 0 .. c - 1 /\ a + 1 \in Int /\ x = c * (a + 1) + y
      BY <3>1
    <3> HIDE DEF x, y
    <3>3. x % c = y
      BY <3>2, RemainderIs
    <3> QED BY <1>3, <2>2, <3>1, <3>3 DEF x, y
  <2> QED BY <2>1, <2>2
<1>6. \A n, m \in 0 .. c - 1 : At(p, c, n) = At(p, c, m) => n = m
  <2> SUFFICES ASSUME NEW n \in 0 .. c - 1, NEW m \in 0 .. c - 1, At(p, c, n) = At(p, c, m)
               PROVE  n = m
    OBVIOUS
  <2> QED BY <1>2, <1>5
<1>7. ASSUME NEW i \in 0 .. c - 1 PROVE \E n \in 0 .. c - 1 : At(p, c, n) = i
  <2> DEFINE n == IF i >= r THEN i - r ELSE i - r + c
  <2>1. n \in 0 .. c - 1 /\ i = IF r + n < c THEN r + n ELSE r + n - c
    BY <1>2
  <2> HIDE DEF n
  <2> QED BY <1>5, <2>1
<1> QED BY <1>4, <1>6, <1>7

(* A set of numbers that is not empty has a least one.                     *)
LEMMA LeastOf ==
  ASSUME NEW S, S \subseteq Nat, S # {}
  PROVE  /\ \E n \in S : \A m \in S : n <= m
         /\ Min(S) \in S /\ \A m \in S : Min(S) <= m
<1> DEFINE T == {k \in Nat : \A n \in S : n <= k => \E l \in S : \A m \in S : l <= m}
<1>1. 0 \in T
  <2> SUFFICES ASSUME NEW n \in S, n <= 0 PROVE \A m \in S : n <= m
    OBVIOUS
  <2> QED OBVIOUS
<1>2. ASSUME NEW k \in Nat, k \in T PROVE k + 1 \in T
  <2> SUFFICES ASSUME NEW n \in S, n <= k + 1 PROVE \E l \in S : \A m \in S : l <= m
    OBVIOUS
  <2>1. CASE \E l \in S : l <= k
    BY <1>2, <2>1
  <2>2. CASE ~\E l \in S : l <= k
    <3>1. \A m \in S : n <= m
      BY <2>2
    <3> QED BY <3>1
  <2> QED BY <2>1, <2>2
<1>3. PICK n \in S : TRUE
  OBVIOUS
<1> HIDE DEF T
<1>4. n \in T
  BY <1>1, <1>2, SetInduction
<1>5. \E l \in S : \A m \in S : l <= m
  <2>1. n <= n
    OBVIOUS
  <2> QED BY <1>4, <2>1 DEF T
<1>6. Min(S) \in S /\ \A m \in S : Min(S) <= m
  BY <1>5 DEF Min
<1> QED BY <1>5, <1>6

(* A finite set of numbers that is not empty has a greatest one.           *)
LEMMA GreatestOf ==
  ASSUME NEW S, IsFiniteSet(S), S \subseteq Nat, S # {}
  PROVE  Max(S) \in S /\ \A m \in S : m <= Max(S)
<1> DEFINE P == {s \in SUBSET S : s # {} => \E n \in s : \A m \in s : m <= n}
<1>1. ASSUME NEW s \in SUBSET S, \A x \in s : s \ {x} \in P PROVE s \in P
  <2> SUFFICES ASSUME s # {} PROVE \E n \in s : \A m \in s : m <= n
    OBVIOUS
  <2>1. PICK x \in s : TRUE
    OBVIOUS
  <2>2. CASE s \ {x} = {}
    <3>1. \A m \in s : m = x /\ m <= x
      BY <2>2
    <3> QED BY <3>1
  <2>3. CASE s \ {x} # {}
    <3>1. PICK n \in s \ {x} : \A m \in s \ {x} : m <= n
      BY <1>1, <2>3
    <3>2. x <= n \/ n <= x
      OBVIOUS
    <3>3. CASE x <= n
      BY <3>1, <3>3
    <3>4. CASE n <= x
      <4>1. \A m \in s : m <= x
        BY <3>1, <3>4
      <4> QED BY <4>1
    <3> QED BY <3>2, <3>3, <3>4
  <2> QED BY <2>2, <2>3
<1> HIDE DEF P
<1>2. S \in P
  BY <1>1, SubsetInduction
<1>3. \E n \in S : \A m \in S : m <= n
  BY <1>2 DEF P
<1> QED BY <1>3 DEF Max
-----------------------------------------------------------------------------
(* A table is well kept when no price is in it twice and every one is      *)
(* found: a search for it passes no slot that was never used.              *)
Entries == [price : Prices \cup {kEmpty, kTombstone}, lvl : Levels]
Passed(f, c, p, n) == \A m \in 0 .. n - 1 : f[At(p, c, m)].price # kEmpty

Once(f, c) ==
  \A i, j \in 0 .. c - 1 : f[i].price \in Prices /\ f[i].price = f[j].price => i = j
Reached(f, c) ==
  \A i \in 0 .. c - 1 : f[i].price \in Prices =>
    \E n \in 0 .. c - 1 : At(f[i].price, c, n) = i /\ Passed(f, c, f[i].price, n)

TableOK(f, c) ==
  /\ c \in Nat \ {0} /\ c <= HashBits /\ f \in [0 .. c - 1 -> Entries]
  /\ Once(f, c) /\ Reached(f, c)

(* g differs from f in slot i, where the price is now q.                   *)
Changed(f, g, c, i, q) ==
  /\ g \in [0 .. c - 1 -> Entries] /\ g[i].price = q
  /\ \A j \in 0 .. c - 1 : j # i => g[j] = f[j]

Keys(f, c) == {p \in Prices : \E i \in 0 .. c - 1 : f[i].price = p}

(* A search that stops stops first at Steps.                               *)
LEMMA StepsIs ==
  ASSUME NEW f, NEW c \in Nat \ {0}, NEW p, ~Full(f, c, p)
  PROVE  /\ Steps(f, c, p) \in 0 .. c - 1 /\ Stops(f, c, p, Steps(f, c, p))
         /\ \A m \in 0 .. Steps(f, c, p) - 1 : ~Stops(f, c, p, m)
<1> DEFINE S == {n \in 0 .. c - 1 : Stops(f, c, p, n)}
<1>1. S \subseteq Nat /\ S # {}
  BY DEF Full
<1>2. PICK n \in S : \A m \in S : n <= m
  BY <1>1, LeastOf
<1>3. ASSUME NEW m \in 0 .. n - 1 PROVE ~Stops(f, c, p, m)
  <2>1. m \in 0 .. c - 1 /\ ~(n <= m)
    BY <1>2
  <2> QED BY <1>2, <2>1
<1>4. n \in 0 .. c - 1 /\ Stops(f, c, p, n) /\ \A m \in 0 .. n - 1 : ~Stops(f, c, p, m)
  BY <1>2, <1>3
<1> QED BY <1>4 DEF Steps

(* A search for a price in the table finds its slot.                       *)
LEMMA FoundIs ==
  ASSUME NEW f, NEW c, TableOK(f, c), NEW p \in Prices, NEW i \in 0 .. c - 1, f[i].price = p
  PROVE  ~Full(f, c, p) /\ Present(f, c, p) /\ Found(f, c, p) = i
<1>0. c \in Nat \ {0} /\ c <= HashBits
  BY DEF TableOK
<1>1. PICK n \in 0 .. c - 1 : At(p, c, n) = i /\ Passed(f, c, p, n)
  BY DEF TableOK, Reached
<1>2. Stops(f, c, p, n)
  BY <1>1 DEF Stops
<1>3. ~Full(f, c, p)
  BY <1>2 DEF Full
<1> DEFINE s == Steps(f, c, p)
<1>4. /\ s \in 0 .. c - 1 /\ Stops(f, c, p, s)
      /\ \A m \in 0 .. s - 1 : ~Stops(f, c, p, m)
  BY <1>0, <1>3, StepsIs
<1>5. Found(f, c, p) = At(p, c, s)
  BY DEF Found
<1> HIDE DEF s
<1>6. s <= n
  <2>1. ~(s <= n) => n \in 0 .. s - 1
    BY <1>4
  <2> QED BY <1>2, <1>4, <2>1
<1>7. ~(s < n)
  <2> SUFFICES ASSUME s < n PROVE FALSE
    OBVIOUS
  <2>1. s \in 0 .. n - 1 /\ s \in Nat
    BY <1>4
  <2>2. f[At(p, c, s)].price = p
    BY <1>1, <1>4, <2>1 DEF Passed, Stops
  <2>3. At(p, c, s) \in 0 .. c - 1
    BY <1>0, <2>1, SearchVisits
  <2>4. At(p, c, s) = At(p, c, n)
    BY <1>1, <2>2, <2>3 DEF TableOK, Once
  <2>5. s = n
    BY <1>0, <1>4, <2>4, SearchVisits
  <2> QED BY <2>5
<1>8. s = n
  BY <1>4, <1>6, <1>7
<1> QED BY <1>1, <1>3, <1>5, <1>8 DEF Present

(* What a search finds is in the table.                                    *)
LEMMA PresentIs ==
  ASSUME NEW f, NEW c, TableOK(f, c), NEW p \in Prices
  PROVE  /\ Present(f, c, p) <=> p \in Keys(f, c)
         /\ Present(f, c, p) => Found(f, c, p) \in 0 .. c - 1 /\ f[Found(f, c, p)].price = p
<1>1. ASSUME Present(f, c, p)
      PROVE  Found(f, c, p) \in 0 .. c - 1 /\ f[Found(f, c, p)].price = p
  <2>1. c \in Nat \ {0} /\ c <= HashBits /\ ~Full(f, c, p)
    BY <1>1 DEF TableOK, Present
  <2>2. Steps(f, c, p) \in Nat
    BY <2>1, StepsIs
  <2> QED BY <1>1, <2>1, <2>2, SearchVisits DEF Found, Present
<1>2. p \in Keys(f, c) => Present(f, c, p)
  BY FoundIs DEF Keys
<1> QED BY <1>1, <1>2 DEF Keys

(* A price that is put where a search for it ends.                         *)
LEMMA PutOK ==
  ASSUME NEW f, NEW c, TableOK(f, c), NEW p \in Prices, p \notin Keys(f, c),
         NEW n \in 0 .. c - 1, Passed(f, c, p, n), NEW i, i = At(p, c, n), f[i].price \notin Prices,
         NEW g, Changed(f, g, c, i, p)
  PROVE  /\ TableOK(g, c) /\ i \in 0 .. c - 1
         /\ \A q : q \in Keys(g, c) <=> q \in Keys(f, c) \/ q = p
<1>1. /\ c \in Nat \ {0} /\ c <= HashBits /\ f \in [0 .. c - 1 -> Entries] /\ n \in Nat
      /\ Once(f, c) /\ Reached(f, c)
  BY DEF TableOK
<1>2. \A q \in Prices : \A m \in Nat : At(q, c, m) \in 0 .. c - 1
  BY <1>1, SearchVisits
<1>3. i \in 0 .. c - 1
  BY <1>1, <1>2
<1>4. /\ g \in [0 .. c - 1 -> Entries] /\ g[i].price = p
      /\ \A j \in 0 .. c - 1 : j # i => g[j] = f[j]
  BY DEF Changed
<1>5. \A j \in 0 .. c - 1 : f[j].price # p
  BY DEF Keys
<1>6. Once(g, c)
  <2> SUFFICES ASSUME NEW j \in 0 .. c - 1, NEW k \in 0 .. c - 1, g[j].price \in Prices,
                      g[j].price = g[k].price
               PROVE  j = k
    BY DEF Once
  <2>1. j = i => k = i
    BY <1>4, <1>5
  <2>2. k = i => j = i
    BY <1>4, <1>5
  <2>3. j # i /\ k # i => j = k
    BY <1>1, <1>4 DEF Once
  <2> QED BY <2>1, <2>2, <2>3
<1>7. p # kEmpty
  BY TableAssumption DEF kEmpty
<1>8. ASSUME NEW q \in Prices, NEW m \in 0 .. c - 1, Passed(f, c, q, m) PROVE Passed(g, c, q, m)
  <2> SUFFICES ASSUME NEW k \in 0 .. m - 1 PROVE g[At(q, c, k)].price # kEmpty
    BY DEF Passed
  <2>1. k \in Nat /\ At(q, c, k) \in 0 .. c - 1
    BY <1>2
  <2> QED BY <1>4, <1>7, <1>8, <2>1 DEF Passed
<1>9. Reached(g, c)
  <2> SUFFICES ASSUME NEW j \in 0 .. c - 1, g[j].price \in Prices
               PROVE  \E m \in 0 .. c - 1 : At(g[j].price, c, m) = j /\ Passed(g, c, g[j].price, m)
    BY DEF Reached
  <2>1. CASE j = i
    BY <1>4, <1>8, <2>1
  <2>2. CASE j # i
    <3>1. g[j] = f[j]
      BY <1>4, <2>2
    <3>2. PICK m \in 0 .. c - 1 : At(f[j].price, c, m) = j /\ Passed(f, c, f[j].price, m)
      BY <1>1, <3>1 DEF Reached
    <3> QED BY <1>8, <3>1, <3>2
  <2> QED BY <2>1, <2>2
<1>10. Keys(g, c) = Keys(f, c) \cup {p}
  <2>1. ASSUME NEW q \in Keys(g, c) PROVE q \in Keys(f, c) \cup {p}
    BY <1>4 DEF Keys
  <2>2. ASSUME NEW q \in Keys(f, c) PROVE q \in Keys(g, c)
    <3>1. PICK j \in 0 .. c - 1 : f[j].price = q
      BY DEF Keys
    <3>2. j # i /\ q \in Prices
      BY <3>1 DEF Keys
    <3> QED BY <1>4, <3>1, <3>2 DEF Keys
  <2>3. p \in Keys(g, c)
    BY <1>3, <1>4 DEF Keys
  <2> QED BY <2>1, <2>2, <2>3
<1> QED BY <1>1, <1>3, <1>4, <1>6, <1>9, <1>10 DEF TableOK

(* A price's level is replaced, or the price by a tombstone.               *)
LEMMA ReplaceOK ==
  ASSUME NEW f, NEW c, TableOK(f, c), NEW i \in 0 .. c - 1, f[i].price \in Prices,
         NEW q \in {f[i].price, kTombstone}, NEW g, Changed(f, g, c, i, q)
  PROVE  /\ TableOK(g, c)
         /\ \A r : r \in Keys(g, c) <=> r \in Keys(f, c) /\ (q = kTombstone => r # f[i].price)
<1> DEFINE p == f[i].price
<1>1. /\ c \in Nat \ {0} /\ c <= HashBits /\ f \in [0 .. c - 1 -> Entries]
      /\ Once(f, c) /\ Reached(f, c)
  BY DEF TableOK
<1>2. \A r \in Prices : \A m \in Nat : At(r, c, m) \in 0 .. c - 1
  BY <1>1, SearchVisits
<1>3. kTombstone \notin Prices /\ kEmpty \notin Prices /\ kTombstone # kEmpty
  BY TableAssumption DEF kTombstone, kEmpty
<1>4. /\ g \in [0 .. c - 1 -> Entries] /\ g[i].price = q
      /\ \A j \in 0 .. c - 1 : j # i => g[j] = f[j]
  BY DEF Changed
<1>5. \A j \in 0 .. c - 1 : g[j].price \in Prices => g[j].price = f[j].price
  BY <1>3, <1>4
<1>6. \A j \in 0 .. c - 1 : f[j].price # kEmpty => g[j].price # kEmpty
  BY <1>3, <1>4
<1>7. Once(g, c)
  BY <1>1, <1>5 DEF Once
<1>8. ASSUME NEW r \in Prices, NEW m \in 0 .. c - 1, Passed(f, c, r, m) PROVE Passed(g, c, r, m)
  <2> SUFFICES ASSUME NEW k \in 0 .. m - 1 PROVE g[At(r, c, k)].price # kEmpty
    BY DEF Passed
  <2>1. k \in Nat /\ At(r, c, k) \in 0 .. c - 1
    BY <1>2
  <2> QED BY <1>6, <1>8, <2>1 DEF Passed
<1>9. Reached(g, c)
  <2> SUFFICES ASSUME NEW j \in 0 .. c - 1, g[j].price \in Prices
               PROVE  \E m \in 0 .. c - 1 : At(g[j].price, c, m) = j /\ Passed(g, c, g[j].price, m)
    BY DEF Reached
  <2>1. PICK m \in 0 .. c - 1 : At(f[j].price, c, m) = j /\ Passed(f, c, f[j].price, m)
    BY <1>1, <1>5 DEF Reached
  <2> QED BY <1>5, <1>8, <2>1
<1>10. \A r \in Prices : r # p => (r \in Keys(g, c) <=> r \in Keys(f, c))
  BY <1>3, <1>4 DEF Keys
<1>11. p \in Keys(f, c)
  BY DEF Keys
<1>12. p \in Keys(g, c) <=> q # kTombstone
  <2>1. q # kTombstone => p \in Keys(g, c)
    BY <1>4 DEF Keys
  <2>2. ASSUME NEW j \in 0 .. c - 1, g[j].price = p PROVE q # kTombstone
    <3>1. j = i
      BY <1>1, <1>4, <2>2 DEF Once
    <3> QED BY <1>3, <1>4, <2>2, <3>1
  <2> QED BY <2>1, <2>2 DEF Keys
<1>13. Keys(f, c) \subseteq Prices /\ Keys(g, c) \subseteq Prices
  BY DEF Keys
<1>14. TableOK(g, c)
  BY <1>1, <1>4, <1>7, <1>9 DEF TableOK
<1>15. CASE q = kTombstone
  <2>1. Keys(g, c) = Keys(f, c) \ {p}
    BY <1>10, <1>12, <1>13, <1>15
  <2> QED BY <1>14, <1>15, <2>1
<1>16. CASE q # kTombstone
  <2>1. Keys(g, c) = Keys(f, c)
    <3>1. \A r \in Prices : r \in Keys(g, c) <=> r \in Keys(f, c)
      BY <1>10, <1>11, <1>12, <1>16
    <3> HIDE DEF p
    <3> QED BY <1>13, <3>1
  <2> QED BY <1>14, <1>16, <2>1
<1> QED BY <1>15, <1>16

-----------------------------------------------------------------------------
(* Growing: the slots in use are counted, so there is room for the next.   *)
Filled(f, c) == {i \in 0 .. c - 1 : f[i].price # kEmpty}

(* With a slot that was never used every search ends.                      *)
LEMMA SearchEnds ==
  ASSUME NEW f, NEW c, TableOK(f, c), NEW i \in 0 .. c - 1, f[i].price = kEmpty, NEW p \in Prices
  PROVE  /\ \E n \in 0 .. c - 1 : f[At(p, c, n)].price = kEmpty
         /\ ~Full(f, c, p)
<1>1. PICK n \in 0 .. c - 1 : At(p, c, n) = i
  BY SearchVisits DEF TableOK
<1> QED BY <1>1 DEF Full, Stops

(* A table with fewer slots in use than slots has one never used.          *)
LEMMA SlotLeft ==
  ASSUME NEW f, NEW c \in Nat, Cardinality(Filled(f, c)) < c
  PROVE  \E i \in 0 .. c - 1 : f[i].price = kEmpty
<1> SUFFICES ASSUME \A i \in 0 .. c - 1 : f[i].price # kEmpty PROVE FALSE
  OBVIOUS
<1>1. Filled(f, c) = 0 .. c - 1
  BY DEF Filled
<1>2. Cardinality(0 .. c - 1) = c
  BY FS_Interval
<1> QED BY <1>1, <1>2

(* One slot more in use.                                                   *)
LEMMA FilledPut ==
  ASSUME NEW f, NEW c \in Nat, NEW i \in 0 .. c - 1, NEW g, NEW k \in Nat,
         Cardinality(Filled(f, c)) <= k, \A j \in 0 .. c - 1 : j # i => g[j] = f[j]
  PROVE  Cardinality(Filled(g, c)) <= k + 1
<1>1. IsFiniteSet(0 .. c - 1)
  BY FS_Interval
<1>2. Filled(f, c) \subseteq 0 .. c - 1 /\ Filled(g, c) \subseteq Filled(f, c) \cup {i}
  BY DEF Filled
<1>3. IsFiniteSet(Filled(f, c)) /\ Cardinality(Filled(f, c)) \in Nat
  BY <1>1, <1>2, FS_Subset, FS_CardinalityType
<1>4. /\ IsFiniteSet(Filled(f, c) \cup {i})
      /\ Cardinality(Filled(f, c) \cup {i}) \in {Cardinality(Filled(f, c)), Cardinality(Filled(f, c)) + 1}
  BY <1>3, FS_AddElement
<1>5. Cardinality(Filled(g, c)) <= Cardinality(Filled(f, c) \cup {i}) /\ Cardinality(Filled(g, c)) \in Nat
  BY <1>2, <1>4, FS_Subset, FS_CardinalityType
<1> QED BY <1>3, <1>4, <1>5

(* A table of unused slots.                                                *)
LEMMA EmptyOK ==
  ASSUME NEW c \in Nat \ {0}, c <= HashBits
  PROVE  /\ TableOK(EmptyTable(c), c) /\ Keys(EmptyTable(c), c) = {} /\ Filled(EmptyTable(c), c) = {}
         /\ \A i \in 0 .. c - 1 : EmptyTable(c)[i].price = kEmpty
<1>1. /\ EmptyTable(c) \in [0 .. c - 1 -> Entries]
      /\ \A i \in 0 .. c - 1 : EmptyTable(c)[i].price = kEmpty
  BY TableAssumption DEF EmptyTable, Entries
<1>2. kEmpty \notin Prices
  BY TableAssumption DEF kEmpty
<1> QED BY <1>1, <1>2 DEF TableOK, Once, Reached, Keys, Filled

(* The first k slots of f are in the table g of twice the size.            *)
GrownTo(g, f, c, k) ==
  /\ TableOK(g, 2 * c) /\ Cardinality(Filled(g, 2 * c)) <= k
  /\ \A j \in 0 .. 2 * c - 1 : g[j].price # kEmpty => \E i \in 0 .. k - 1 : g[j] = f[i]
  /\ \A i \in 0 .. k - 1 : f[i].price \in Prices => \E j \in 0 .. 2 * c - 1 : g[j] = f[i]

(* grow puts the next one where a search for it ends.                      *)
LEMMA PlaceOK ==
  ASSUME NEW f, NEW c, TableOK(f, c), 2 * c <= HashBits, NEW k \in 0 .. c - 1, NEW g, GrownTo(g, f, c, k)
  PROVE  GrownTo(Place(g, 2 * c, f[k]), f, c, k + 1)
<1> DEFINE d == 2 * c
           e == f[k]
           p == e.price
           S == {n \in 0 .. d - 1 : g[At(p, d, n)].price = kEmpty}
           n == Min(S)
           i == At(p, d, n)
           h == [g EXCEPT ![i] = e]
<1>0. /\ c \in Nat \ {0} /\ d \in Nat \ {0} /\ d <= HashBits /\ k \in Nat /\ k < d
      /\ f \in [0 .. c - 1 -> Entries] /\ e \in Entries
  BY DEF TableOK
<1>1. /\ TableOK(g, d) /\ Cardinality(Filled(g, d)) <= k
      /\ \A j \in 0 .. d - 1 : g[j].price # kEmpty => \E m \in 0 .. k - 1 : g[j] = f[m]
      /\ \A m \in 0 .. k - 1 : f[m].price \in Prices => \E j \in 0 .. d - 1 : g[j] = f[m]
  BY DEF GrownTo
<1>2. CASE p \in {kEmpty, kTombstone}
  <2>1. Place(g, d, e) = g
    BY <1>2 DEF Place
  <2>2. p \notin Prices
    BY <1>2, TableAssumption DEF kEmpty, kTombstone
  <2>3. \A m \in 0 .. (k + 1) - 1 : m \in 0 .. k - 1 \/ m = k
    OBVIOUS
  <2>4. \A j \in 0 .. d - 1 : g[j].price # kEmpty => \E m \in 0 .. (k + 1) - 1 : g[j] = f[m]
    <3>1. \A m \in 0 .. k - 1 : m \in 0 .. (k + 1) - 1
      OBVIOUS
    <3> QED BY <1>1, <3>1
  <2>5. \A m \in 0 .. (k + 1) - 1 : f[m].price \in Prices => \E j \in 0 .. d - 1 : g[j] = f[m]
    BY <1>1, <2>2, <2>3
  <2>6. Cardinality(Filled(g, d)) <= k + 1
    <3>1. Cardinality(Filled(g, d)) \in Nat
      <4>1. IsFiniteSet(0 .. d - 1) /\ Filled(g, d) \subseteq 0 .. d - 1
        BY <1>0, FS_Interval DEF Filled
      <4> QED BY <4>1, FS_Subset, FS_CardinalityType
    <3> QED BY <1>0, <1>1, <3>1
  <2> HIDE DEF d, e
  <2>7. GrownTo(g, f, c, k + 1)
    BY <1>1, <2>4, <2>5, <2>6 DEF GrownTo, d
  <2> QED BY <2>1, <2>7 DEF d, e
<1>3. CASE p \notin {kEmpty, kTombstone}
  <2>1. p \in Prices /\ e \in Entries /\ e.price = p
    BY <1>0, <1>3 DEF Entries
  <2>2. Cardinality(Filled(g, d)) < d
    <3>1. Cardinality(Filled(g, d)) \in Nat
      <4>1. IsFiniteSet(0 .. d - 1) /\ Filled(g, d) \subseteq 0 .. d - 1
        BY <1>0, FS_Interval DEF Filled
      <4> QED BY <4>1, FS_Subset, FS_CardinalityType
    <3> QED BY <1>0, <1>1, <3>1
  <2> HIDE DEF d
  <2>3. PICK s \in 0 .. d - 1 : g[s].price = kEmpty
    BY <1>0, <2>2, SlotLeft
  <2>4. S \subseteq Nat /\ S # {}
    <3>1. S \subseteq Nat
      OBVIOUS
    <3>2. S # {}
      <4> HIDE DEF p
      <4>1. \E m \in 0 .. d - 1 : g[At(p, d, m)].price = kEmpty
        BY <1>1, <2>1, <2>3, SearchEnds
      <4> QED BY <4>1
    <3> QED BY <3>1, <3>2
  <2>5. n \in S /\ \A m \in S : n <= m
    BY <2>4, LeastOf
  <2> HIDE DEF n
  <2>6. n \in 0 .. d - 1 /\ g[i].price = kEmpty
    BY <2>5
  <2>7. Passed(g, d, p, n)
    <3> SUFFICES ASSUME NEW m \in 0 .. n - 1 PROVE g[At(p, d, m)].price # kEmpty
      BY DEF Passed
    <3>1. m \in 0 .. d - 1 /\ ~(n <= m)
      BY <1>0, <2>6
    <3> QED BY <2>5, <3>1
  <2>8. kEmpty \notin Prices
    BY TableAssumption DEF kEmpty
  <2>9. p \notin Keys(g, d)
    <3> SUFFICES ASSUME NEW j \in 0 .. d - 1, g[j].price = p PROVE FALSE
      BY DEF Keys
    <3>1. PICK m \in 0 .. k - 1 : g[j] = f[m]
      BY <1>1, <2>1, <2>8
    <3>2. m \in 0 .. c - 1 /\ m # k
      BY <1>0
    <3> QED BY <2>1, <3>1, <3>2 DEF TableOK, Once
  <2> HIDE DEF e, p, S, i
  <2>18. i \in 0 .. d - 1 /\ g \in [0 .. d - 1 -> Entries]
    <3>1. n \in Nat
      BY <2>6
    <3> QED BY <1>0, <1>1, <2>1, <3>1, SearchVisits DEF TableOK, i
  <2>11. h \in [0 .. d - 1 -> Entries] /\ h[i] = e /\ \A j \in 0 .. d - 1 : j # i => h[j] = g[j]
    BY <2>1, <2>18
  <2>10. TableOK(h, d) /\ i \in 0 .. d - 1
    <3> HIDE DEF h
    <3>1. Changed(g, h, d, i, p)
      BY <2>11 DEF Changed, p
    <3>2. g[i].price \notin Prices
      BY <2>6, <2>8
    <3> QED BY <1>1, <2>1, <2>6, <2>7, <2>9, <2>18, <3>1, <3>2, PutOK DEF i
  <2>12. Place(g, d, e) = h
    BY <1>3 DEF Place, p, i, n, S
  <2> HIDE DEF h
  <2>13. Cardinality(Filled(h, d)) <= k + 1
    BY <1>0, <1>1, <2>10, <2>11, FilledPut
  <2>14. k \in 0 .. (k + 1) - 1 /\ \A m \in 0 .. k - 1 : m \in 0 .. (k + 1) - 1
    BY <1>0
  <2>15. \A j \in 0 .. d - 1 : h[j].price # kEmpty => \E m \in 0 .. (k + 1) - 1 : h[j] = f[m]
    BY <1>1, <2>11, <2>14 DEF e
  <2>16. \A m \in 0 .. (k + 1) - 1 : f[m].price \in Prices => \E j \in 0 .. d - 1 : h[j] = f[m]
    <3> SUFFICES ASSUME NEW m \in 0 .. (k + 1) - 1, f[m].price \in Prices
                 PROVE  \E j \in 0 .. d - 1 : h[j] = f[m]
      OBVIOUS
    <3>1. CASE m = k
      BY <2>10, <2>11, <3>1 DEF e
    <3>2. CASE m # k
      <4>1. m \in 0 .. k - 1
        BY <1>0, <3>2
      <4>2. PICK j \in 0 .. d - 1 : g[j] = f[m]
        BY <1>1, <4>1
      <4>3. j # i
        BY <2>6, <2>8, <4>2
      <4> QED BY <2>11, <4>2, <4>3
    <3> QED BY <3>1, <3>2
  <2>17. GrownTo(h, f, c, k + 1)
    BY <2>10, <2>13, <2>15, <2>16 DEF GrownTo, d
  <2> QED BY <2>12, <2>17 DEF d, e
<1> QED BY <1>2, <1>3

(* The tables grow goes through, by the number of slots put.               *)
Growing(h, f, c, n) ==
  h = [i \in 0 .. n |-> IF i = 0 THEN EmptyTable(2 * c) ELSE Place(h[i - 1], 2 * c, f[i - 1])]

(* The recursion of grow has a solution.                                   *)
LEMMA GrowingExists ==
  ASSUME NEW f, NEW c, NEW n \in Nat
  PROVE  \E h : Growing(h, f, c, n)
<1> DEFINE T == {k \in Nat : \E h : Growing(h, f, c, k)}
<1>1. 0 \in T
  <2>1. Growing([i \in 0 .. 0 |-> EmptyTable(2 * c)], f, c, 0)
    BY DEF Growing
  <2> QED BY <2>1
<1>2. \A k \in Nat : k \in T => k + 1 \in T
  <2> SUFFICES ASSUME NEW k \in Nat, NEW h, Growing(h, f, c, k) PROVE \E g : Growing(g, f, c, k + 1)
    OBVIOUS
  <2> DEFINE V(x, i) == IF i = 0 THEN EmptyTable(2 * c) ELSE Place(x[i - 1], 2 * c, f[i - 1])
             g == [i \in 0 .. k + 1 |-> V(h, i)]
  <2>1. h = [i \in 0 .. k |-> V(h, i)]
    BY DEF Growing
  <2> HIDE DEF V
  <2>2. \A i \in 0 .. k : g[i] = h[i]
    BY <2>1
  <2>3. ASSUME NEW i \in 0 .. k + 1 PROVE V(h, i) = V(g, i)
    <3>1. CASE i = 0
      BY <3>1 DEF V
    <3>2. CASE i # 0
      <4>1. i - 1 \in 0 .. k
        BY <3>2
      <4>2. g[i - 1] = h[i - 1]
        BY <2>2, <4>1
      <4> HIDE DEF g
      <4> QED BY <4>2 DEF V
    <3> QED BY <3>1, <3>2
  <2>4. g = [i \in 0 .. k + 1 |-> V(g, i)]
    <3>1. g = [i \in 0 .. k + 1 |-> V(h, i)]
      OBVIOUS
    <3> HIDE DEF g
    <3> QED BY <2>3, <3>1
  <2> HIDE DEF g
  <2>5. Growing(g, f, c, k + 1)
    BY <2>4 DEF Growing, V
  <2> QED BY <2>5
<1> HIDE DEF T
<1>3. n \in T
  BY <1>1, <1>2, SetInduction
<1> QED BY <1>3 DEF T

(* A grown table holds what the full one held and has room.                *)
LEMMA GrownOK ==
  ASSUME NEW f, NEW c, TableOK(f, c), 2 * c <= HashBits
  PROVE  /\ TableOK(Grown(f, c), 2 * c)
         /\ \A i \in 0 .. c - 1 : f[i].price \in Prices => \E j \in 0 .. 2 * c - 1 : Grown(f, c)[j] = f[i]
         /\ \A j \in 0 .. 2 * c - 1 : Grown(f, c)[j].price # kEmpty =>
              \E i \in 0 .. c - 1 : Grown(f, c)[j] = f[i]
         /\ \A p \in Prices : ~Full(Grown(f, c), 2 * c, p)
<1> DEFINE h == CHOOSE h : Growing(h, f, c, c)
<1>0. c \in Nat \ {0} /\ c \in Nat /\ 2 * c \in Nat \ {0}
  BY DEF TableOK
<1>1. Grown(f, c) = h[c]
  BY Zenon DEF Grown, Growing
<1>2. Growing(h, f, c, c)
  BY <1>0, GrowingExists
<1> HIDE DEF h
<1>3. /\ h[0] = EmptyTable(2 * c)
      /\ \A k \in 0 .. c - 1 : h[k + 1] = Place(h[k], 2 * c, f[k])
  <2> DEFINE V(i) == IF i = 0 THEN EmptyTable(2 * c) ELSE Place(h[i - 1], 2 * c, f[i - 1])
  <2>1. h = [i \in 0 .. c |-> V(i)]
    BY <1>2 DEF Growing
  <2> HIDE DEF V
  <2>2. \A i \in 0 .. c : h[i] = V(i)
    BY <2>1
  <2>3. h[0] = V(0) /\ V(0) = EmptyTable(2 * c)
    BY <1>0, <2>2 DEF V
  <2>4. ASSUME NEW k \in 0 .. c - 1 PROVE h[k + 1] = Place(h[k], 2 * c, f[k])
    <3>1. k + 1 \in 0 .. c /\ k + 1 # 0 /\ (k + 1) - 1 = k
      BY <1>0
    <3>2. h[k + 1] = V(k + 1)
      BY <2>2, <3>1
    <3> QED BY <3>1, <3>2 DEF V
  <2> QED BY <2>3, <2>4
<1> DEFINE T == {k \in Nat : k <= c => GrownTo(h[k], f, c, k)}
<1>4. 0 \in T
  <2>1. /\ TableOK(EmptyTable(2 * c), 2 * c) /\ Filled(EmptyTable(2 * c), 2 * c) = {}
        /\ \A i \in 0 .. 2 * c - 1 : EmptyTable(2 * c)[i].price = kEmpty
    BY <1>0, EmptyOK
  <2>2. Cardinality(Filled(EmptyTable(2 * c), 2 * c)) <= 0
    BY <2>1, FS_EmptySet
  <2> QED BY <1>3, <2>1, <2>2 DEF GrownTo
<1>5. ASSUME NEW k \in Nat, k \in T PROVE k + 1 \in T
  <2> SUFFICES ASSUME k + 1 <= c PROVE GrownTo(h[k + 1], f, c, k + 1)
    OBVIOUS
  <2>1. k \in 0 .. c - 1 /\ GrownTo(h[k], f, c, k)
    BY <1>0, <1>5
  <2>2. GrownTo(Place(h[k], 2 * c, f[k]), f, c, k + 1)
    BY <2>1, PlaceOK
  <2> QED BY <1>3, <2>1, <2>2
<1> HIDE DEF T
<1>6. c \in T
  BY <1>0, <1>4, <1>5, SetInduction
<1>7. GrownTo(Grown(f, c), f, c, c)
  BY <1>0, <1>1, <1>6 DEF T
<1> DEFINE g == Grown(f, c)
<1> HIDE DEF g
<1>8. /\ TableOK(g, 2 * c) /\ Cardinality(Filled(g, 2 * c)) <= c
      /\ \A j \in 0 .. 2 * c - 1 : g[j].price # kEmpty => \E i \in 0 .. c - 1 : g[j] = f[i]
      /\ \A i \in 0 .. c - 1 : f[i].price \in Prices => \E j \in 0 .. 2 * c - 1 : g[j] = f[i]
  BY <1>7 DEF GrownTo, g
<1>9. Cardinality(Filled(g, 2 * c)) < 2 * c
  <2>1. IsFiniteSet(0 .. 2 * c - 1) /\ Filled(g, 2 * c) \subseteq 0 .. 2 * c - 1
    BY <1>0, FS_Interval DEF Filled
  <2>2. Cardinality(Filled(g, 2 * c)) \in Nat
    BY <2>1, FS_Subset, FS_CardinalityType
  <2> QED BY <1>0, <1>8, <2>2
<1>10. PICK s \in 0 .. 2 * c - 1 : g[s].price = kEmpty
  BY <1>0, <1>9, SlotLeft
<1>11. \A p \in Prices : ~Full(g, 2 * c, p)
  BY <1>8, <1>10, SearchEnds
<1> QED BY <1>8, <1>11 DEF g

-----------------------------------------------------------------------------
(* The levels of a table, as a relation.                                   *)
HoldsLevel(f, c, p, l) == \E i \in 0 .. c - 1 : f[i].price = p /\ f[i].lvl = l

(* g holds what f holds, and l as the level of p.                          *)
NowHolds(f, c, g, d, p, l) ==
  /\ Keys(g, d) = Keys(f, c) \cup {p} /\ HoldsLevel(g, d, p, l)
  /\ \A q \in Keys(f, c) : \A m : q # p /\ HoldsLevel(f, c, q, m) => HoldsLevel(g, d, q, m)

(* The level a search finds is the one the table holds.                    *)
LEMMA LevelIs ==
  ASSUME NEW f, NEW c, TableOK(f, c), NEW p \in Prices, NEW l, HoldsLevel(f, c, p, l)
  PROVE  p \in Keys(f, c) /\ f[Found(f, c, p)].lvl = l
<1>1. PICK i \in 0 .. c - 1 : f[i].price = p /\ f[i].lvl = l
  BY DEF HoldsLevel
<1>2. Found(f, c, p) = i
  BY <1>1, FoundIs
<1> QED BY <1>1, <1>2 DEF Keys

(* A price in the table holds the level a search finds.                    *)
LEMMA KeyHolds ==
  ASSUME NEW f, NEW c, TableOK(f, c), NEW p \in Keys(f, c)
  PROVE  HoldsLevel(f, c, p, f[Found(f, c, p)].lvl)
BY PresentIs DEF Keys, HoldsLevel

(* The table operator[] inserts into holds what the old one holds.         *)
LEMMA TableSame ==
  ASSUME NEW f, NEW c, TableOK(f, c), NEW p \in Prices, Full(f, c, p) => 2 * c <= HashBits,
         NEW g, g = Table(f, c, p), NEW d, d = Cardinality(DOMAIN g)
  PROVE  /\ TableOK(g, d) /\ ~Full(g, d, p) /\ Keys(g, d) = Keys(f, c)
         /\ \A q \in Prices : \A m : HoldsLevel(f, c, q, m) => HoldsLevel(g, d, q, m)
<1>0. c \in Nat \ {0} /\ 2 * c \in Nat \ {0} /\ kEmpty \notin Prices
  BY TableAssumption DEF TableOK, kEmpty
<1>1. CASE ~Full(f, c, p)
  <2>1. g = f /\ DOMAIN g = 0 .. c - 1
    BY <1>1 DEF Table, TableOK
  <2>2. d = c
    BY <1>0, <2>1, FS_Interval
  <2> QED BY <1>1, <2>1, <2>2
<1>2. CASE Full(f, c, p)
  <2>1. /\ TableOK(g, 2 * c) /\ ~Full(g, 2 * c, p)
        /\ \A i \in 0 .. c - 1 : f[i].price \in Prices => \E j \in 0 .. 2 * c - 1 : g[j] = f[i]
        /\ \A j \in 0 .. 2 * c - 1 : g[j].price # kEmpty => \E i \in 0 .. c - 1 : g[j] = f[i]
    BY <1>2, GrownOK DEF Table
  <2>2. DOMAIN g = 0 .. 2 * c - 1
    BY <2>1 DEF TableOK
  <2>3. d = 2 * c
    BY <1>0, <2>2, FS_Interval
  <2>4. \A q \in Prices : \A m : HoldsLevel(f, c, q, m) => HoldsLevel(g, 2 * c, q, m)
    BY <2>1 DEF HoldsLevel
  <2>5. ASSUME NEW q \in Keys(g, 2 * c) PROVE q \in Keys(f, c)
    <3>1. PICK j \in 0 .. 2 * c - 1 : g[j].price = q
      BY DEF Keys
    <3>2. PICK i \in 0 .. c - 1 : g[j] = f[i]
      BY <1>0, <2>1, <3>1 DEF Keys
    <3> QED BY <3>1, <3>2 DEF Keys
  <2>6. ASSUME NEW q \in Keys(f, c) PROVE q \in Keys(g, 2 * c)
    <3>1. PICK i \in 0 .. c - 1 : f[i].price = q
      BY DEF Keys
    <3>2. PICK j \in 0 .. 2 * c - 1 : g[j] = f[i]
      BY <2>1, <3>1 DEF Keys
    <3> QED BY <3>1, <3>2 DEF Keys
  <2>7. Keys(g, 2 * c) = Keys(f, c)
    BY <2>5, <2>6
  <2> QED BY <2>1, <2>3, <2>4, <2>7
<1> QED BY <1>1, <1>2

(* Where operator[] puts p: its own slot, or one that a search for it      *)
(* passes or ends at, and that no price is in.                             *)
LEMMA SlotIs ==
  ASSUME NEW g, NEW d, TableOK(g, d), NEW p \in Prices, ~Full(g, d, p), NEW i, i = InsertSlot(g, d, p)
  PROVE  /\ p \in Keys(g, d) => i \in 0 .. d - 1 /\ g[i].price = p
         /\ p \notin Keys(g, d) =>
              /\ i \in 0 .. d - 1 /\ g[i].price \notin Prices
              /\ \E n \in 0 .. d - 1 : i = At(p, d, n) /\ Passed(g, d, p, n)
<1>0. /\ d \in Nat \ {0} /\ d <= HashBits /\ kEmpty \notin Prices /\ kTombstone \notin Prices
      /\ Keys(g, d) \subseteq Prices
  BY TableAssumption DEF TableOK, kEmpty, kTombstone, Keys
<1> DEFINE s == Steps(g, d, p)
           T == Tombs(g, d, p)
<1>1. /\ s \in 0 .. d - 1 /\ Stops(g, d, p, s)
      /\ \A m \in 0 .. s - 1 : ~Stops(g, d, p, m)
  BY <1>0, StepsIs
<1>2. /\ Present(g, d, p) <=> p \in Keys(g, d)
      /\ Present(g, d, p) => Found(g, d, p) \in 0 .. d - 1 /\ g[Found(g, d, p)].price = p
  BY PresentIs
<1>3. Found(g, d, p) = At(p, d, s) /\ T = {n \in 0 .. s : g[At(p, d, n)].price = kTombstone}
  BY DEF Found, Tombs
<1>4. i = IF ~Present(g, d, p) /\ T # {} THEN At(p, d, Min(T)) ELSE Found(g, d, p)
  BY DEF InsertSlot
<1> HIDE DEF s, T
<1>5. ASSUME p \notin Keys(g, d)
      PROVE  /\ g[i].price \notin Prices
             /\ \E n \in 0 .. d - 1 : i = At(p, d, n) /\ Passed(g, d, p, n)
  <2>1. ASSUME NEW n \in 0 .. s PROVE Passed(g, d, p, n)
    <3> SUFFICES ASSUME NEW m \in 0 .. n - 1 PROVE g[At(p, d, m)].price # kEmpty
      BY DEF Passed
    <3>1. m \in 0 .. s - 1
      BY <1>1
    <3> QED BY <1>1, <3>1 DEF Stops
  <2>2. CASE T # {}
    <3>1. T \subseteq Nat
      BY <1>1, <1>3
    <3>2. Min(T) \in T
      BY <2>2, <3>1, LeastOf
    <3>3. Min(T) \in 0 .. s
      BY <1>3, <3>2
    <3>5. Min(T) \in 0 .. d - 1
      BY <1>0, <1>1, <3>3
    <3>4. i = At(p, d, Min(T)) /\ g[i].price = kTombstone
      BY <1>2, <1>3, <1>4, <1>5, <2>2, <3>2
    <3> QED BY <1>0, <2>1, <3>3, <3>4, <3>5
  <2>3. CASE T = {}
    <3>1. i = At(p, d, s)
      BY <1>3, <1>4, <2>3
    <3>2. i \in 0 .. d - 1
      BY <1>0, <1>1, <3>1, SearchVisits
    <3>3. g[i].price # p
      BY <1>5, <3>2 DEF Keys
    <3>4. g[i].price = kEmpty
      BY <1>1, <3>1, <3>3 DEF Stops
    <3>5. s \in 0 .. s
      BY <1>1
    <3> QED BY <1>0, <1>1, <2>1, <3>1, <3>4, <3>5
  <2> QED BY <2>2, <2>3
<1>6. p \notin Keys(g, d) => i \in 0 .. d - 1
  BY <1>0, <1>5, SearchVisits
<1>7. p \in Keys(g, d) => i = Found(g, d, p)
  BY <1>2, <1>4
<1> QED BY <1>2, <1>5, <1>6, <1>7

(* operator[] leaves a table that holds what it held and v for p, and      *)
(* finds the level p had, or a fresh one.                                  *)
LEMMA InsertOK ==
  ASSUME NEW g, NEW d, TableOK(g, d), NEW p \in Prices, ~Full(g, d, p), NEW v \in Levels,
         NEW i, i = InsertSlot(g, d, p), NEW h, h = [g EXCEPT ![i] = [price |-> p, lvl |-> v]]
  PROVE  /\ TableOK(h, d) /\ NowHolds(g, d, h, d, p, v)
         /\ g[i].price # p <=> p \notin Keys(g, d)
         /\ p \in Keys(g, d) => HoldsLevel(g, d, p, g[i].lvl)
<1>0. d \in Nat \ {0} /\ g \in [0 .. d - 1 -> Entries]
  BY DEF TableOK
<1>1. i \in 0 .. d - 1
  BY SlotIs
<1>2. /\ h[i].price = p /\ h[i].lvl = v /\ \A j \in 0 .. d - 1 : j # i => h[j] = g[j]
      /\ h \in [0 .. d - 1 -> Entries]
  BY <1>0, <1>1 DEF Entries
<1>3. HoldsLevel(h, d, p, v)
  BY <1>1, <1>2 DEF HoldsLevel
<1>4. CASE p \in Keys(g, d)
  <2>1. g[i].price = p
    BY <1>4, SlotIs
  <2>2. p \in {g[i].price, kTombstone} /\ g[i].price \in Prices /\ p # kTombstone
    BY <2>1, TableAssumption DEF kTombstone
  <2>3. TableOK(h, d) /\ Keys(h, d) = Keys(g, d)
    <3>1. TableOK(h, d) /\ \A r : r \in Keys(h, d) <=> r \in Keys(g, d)
      <4>1. Changed(g, h, d, i, p)
        BY <1>2 DEF Changed
      <4>2. TableOK(g, d)
        OBVIOUS
      <4> QED BY ONLY <1>1, <2>2, <4>1, <4>2, ReplaceOK
    <3> QED BY <3>1
  <2>4. ASSUME NEW q \in Keys(g, d), NEW m, q # p, HoldsLevel(g, d, q, m) PROVE HoldsLevel(h, d, q, m)
    BY <1>2, <2>1, <2>4 DEF HoldsLevel
  <2>5. Keys(h, d) = Keys(g, d) \cup {p}
    BY <1>4, <2>3
  <2>6. NowHolds(g, d, h, d, p, v)
    BY <1>3, <2>4, <2>5 DEF NowHolds
  <2>7. HoldsLevel(g, d, p, g[i].lvl)
    BY <1>1, <2>1 DEF HoldsLevel
  <2> QED BY <1>4, <2>1, <2>3, <2>6, <2>7
<1>5. CASE p \notin Keys(g, d)
  <2>1. PICK n \in 0 .. d - 1 : i = At(p, d, n) /\ Passed(g, d, p, n)
    BY <1>5, SlotIs
  <2>2. g[i].price \notin Prices
    BY <1>5, SlotIs
  <2>3. TableOK(h, d) /\ Keys(h, d) = Keys(g, d) \cup {p}
    <3>1. TableOK(h, d) /\ \A r : r \in Keys(h, d) <=> r \in Keys(g, d) \/ r = p
      <4>1. Changed(g, h, d, i, p)
        BY <1>2 DEF Changed
      <4>2. TableOK(g, d) /\ p \in Prices
        OBVIOUS
      <4> QED BY ONLY <1>5, <2>1, <2>2, <4>1, <4>2, PutOK
    <3> QED BY <3>1
  <2>4. ASSUME NEW q \in Keys(g, d), NEW m, q # p, HoldsLevel(g, d, q, m) PROVE HoldsLevel(h, d, q, m)
    <3>1. PICK j \in 0 .. d - 1 : g[j].price = q /\ g[j].lvl = m
      BY <2>4 DEF HoldsLevel
    <3>2. j # i
      BY <2>2, <3>1 DEF Keys
    <3> QED BY <1>2, <3>1, <3>2 DEF HoldsLevel
  <2>5. NowHolds(g, d, h, d, p, v)
    BY <1>3, <2>3, <2>4 DEF NowHolds
  <2> QED BY <1>5, <2>2, <2>3, <2>5
<1> QED BY <1>4, <1>5

Buried(f, c, p) == [f EXCEPT ![Found(f, c, p)].price = kTombstone]

(* erase leaves a table that holds what it held but for p.                 *)
LEMMA EraseOK ==
  ASSUME NEW f, NEW c, TableOK(f, c), NEW p \in Prices, Present(f, c, p),
         NEW h, h = Buried(f, c, p)
  PROVE  /\ TableOK(h, c) /\ p \in Keys(f, c)
         /\ \A r : r \in Keys(h, c) <=> r \in Keys(f, c) /\ r # p
         /\ \A q \in Keys(f, c) : \A m : q # p /\ HoldsLevel(f, c, q, m) => HoldsLevel(h, c, q, m)
<1> DEFINE i == Found(f, c, p)
           v == f[i].lvl
<1>1. i \in 0 .. c - 1 /\ f[i].price = p /\ p \in Keys(f, c)
  BY PresentIs
<1>2. f \in [0 .. c - 1 -> Entries] /\ v \in Levels
  BY <1>1 DEF TableOK, Entries
<1>3. h = [f EXCEPT ![i] = [price |-> kTombstone, lvl |-> v]]
  <2>1. f[i] = [price |-> f[i].price, lvl |-> f[i].lvl]
    BY <1>1, <1>2 DEF Entries
  <2>2. [f[i] EXCEPT !.price = kTombstone] = [price |-> kTombstone, lvl |-> v]
    BY <2>1
  <2>3. h = [f EXCEPT ![i] = [f[i] EXCEPT !.price = kTombstone]]
    BY DEF Buried
  <2> QED BY <2>2, <2>3
<1> HIDE DEF i, v
<1>7. /\ h[i].price = kTombstone /\ \A j \in 0 .. c - 1 : j # i => h[j] = f[j]
      /\ h \in [0 .. c - 1 -> Entries]
  <2>1. [price |-> kTombstone, lvl |-> v] \in Entries
    BY <1>2 DEF Entries
  <2>2. h \in [0 .. c - 1 -> Entries] /\ h[i] = [price |-> kTombstone, lvl |-> v]
    BY <1>1, <1>2, <1>3, <2>1
  <2>3. \A j \in 0 .. c - 1 : j # i => h[j] = f[j]
    BY <1>1, <1>2, <1>3
  <2> QED BY <2>2, <2>3
<1>4. TableOK(h, c) /\ Keys(h, c) = Keys(f, c) \ {p}
  <2>1. TableOK(h, c) /\ \A r : r \in Keys(h, c) <=> r \in Keys(f, c) /\ r # p
    <3>1. Changed(f, h, c, i, kTombstone)
      BY <1>7 DEF Changed
    <3>2. TableOK(f, c) /\ f[i].price \in Prices /\ kTombstone \in {f[i].price, kTombstone}
      BY <1>1
    <3> QED BY ONLY <1>1, <3>1, <3>2, ReplaceOK
  <2> QED BY <2>1
<1>5. ASSUME NEW q \in Keys(f, c), NEW m, q # p, HoldsLevel(f, c, q, m) PROVE HoldsLevel(h, c, q, m)
  BY <1>1, <1>5, <1>7 DEF HoldsLevel
<1> QED BY <1>1, <1>4, <1>5

-----------------------------------------------------------------------------
(* The extreme price of a side.                                            *)
ExtremeOf(b, S) == IF S = {} THEN IF b THEN WorstBid ELSE WorstAsk
                   ELSE IF b THEN Max(S) ELSE Min(S)

(* It is one of the prices, and no other is better.                        *)
LEMMA ExtremeIs ==
  ASSUME NEW S, S \subseteq Prices, NEW b \in BOOLEAN
  PROVE  /\ Prices # {} => ExtremeOf(b, S) \in Int
         /\ S # {} => ExtremeOf(b, S) \in S
         /\ \A m \in S : IF b THEN m <= ExtremeOf(b, S) ELSE ExtremeOf(b, S) <= m
         /\ S = {} => \A p \in Prices : IF b THEN p > ExtremeOf(b, S) ELSE p < ExtremeOf(b, S)
<1>1. Prices \subseteq Nat /\ IsFiniteSet(Prices) /\ S \subseteq Nat /\ IsFiniteSet(S)
  BY TableAssumption, FS_Subset
<1>2. Prices # {} => Max(Prices) \in Nat /\ \A m \in Prices : m <= Max(Prices)
  BY <1>1, GreatestOf
<1>3. S # {} => /\ Max(S) \in S /\ \A m \in S : m <= Max(S)
                /\ Min(S) \in S /\ \A m \in S : Min(S) <= m
  BY <1>1, GreatestOf, LeastOf
<1> DEFINE e == ExtremeOf(b, S)
<1>4. CASE S = {}
  <2>1. e = IF b THEN WorstBid ELSE WorstAsk
    BY <1>4 DEF ExtremeOf
  <2> HIDE DEF e
  <2>2. Prices # {} => e \in Int
    BY <1>2, <2>1 DEF WorstBid, WorstAsk
  <2>3. ASSUME NEW p \in Prices PROVE IF b THEN p > e ELSE p < e
    <3>1. p \in Nat /\ Max(Prices) \in Nat /\ p <= Max(Prices)
      BY <1>1, <1>2
    <3> QED BY <2>1, <3>1 DEF WorstBid, WorstAsk
  <2> QED BY <1>4, <2>2, <2>3 DEF e
<1>5. CASE S # {}
  <2>1. e = IF b THEN Max(S) ELSE Min(S)
    BY <1>5 DEF ExtremeOf
  <2> HIDE DEF e
  <2>2. e \in S
    BY <1>3, <1>5, <2>1
  <2>3. \A m \in S : IF b THEN m <= e ELSE e <= m
    <3>1. CASE b
      BY <1>3, <1>5, <2>1, <3>1
    <3>2. CASE ~b
      BY <1>3, <1>5, <2>1, <3>2
    <3> QED BY <3>1, <3>2
  <2>4. e \in Int /\ (S = {} => FALSE)
    BY <1>1, <1>5, <2>2
  <2> QED BY <2>2, <2>3, <2>4 DEF e
<1> QED BY <1>4, <1>5

Beats(b, p, q) == IF b THEN p > q ELSE p < q
BetterOf(b, p, q) == IF Beats(b, p, q) THEN p ELSE q

(* A price that is added is the extreme one if it is better.               *)
LEMMA ExtremeAdd ==
  ASSUME NEW S, S \subseteq Prices, NEW p \in Prices, NEW b \in BOOLEAN
  PROVE  ExtremeOf(b, S \cup {p}) = BetterOf(b, p, ExtremeOf(b, S))
<1> DEFINE R == S \cup {p}
           x == ExtremeOf(b, S)
           y == ExtremeOf(b, R)
<1>1. R \subseteq Prices /\ R # {} /\ Prices # {} /\ Prices \subseteq Nat
  BY TableAssumption
<1>2. /\ x \in Int /\ (S # {} => x \in S) /\ \A m \in S : IF b THEN m <= x ELSE x <= m
      /\ S = {} => IF b THEN p > x ELSE p < x
  BY <1>1, ExtremeIs
<1>3. \A m \in S : m \in R
  OBVIOUS
<1>4. p \in R /\ \A m \in R : m = p \/ m \in S
  OBVIOUS
<1> HIDE DEF R, x
<1>5. y \in Int /\ y \in R /\ \A m \in R : IF b THEN m <= y ELSE y <= m
  BY <1>1, ExtremeIs
<1> HIDE DEF y
<1>6. (IF b THEN p <= y ELSE y <= p) /\ (y = p \/ y \in S)
  BY <1>4, <1>5
<1>7. S # {} => IF b THEN x <= y ELSE y <= x
  BY <1>2, <1>3, <1>5
<1>8. y = p \/ IF b THEN y <= x ELSE x <= y
  BY <1>2, <1>6
<1>9. y = IF IF b THEN p > x ELSE p < x THEN p ELSE x
  <2>1. p \in Int /\ x \in Int /\ y \in Int
    BY <1>1, <1>2, <1>5
  <2>2. CASE S = {}
    BY <1>2, <1>6, <2>2
  <2>3. CASE S # {} /\ b
    <3>1. x <= y /\ p <= y /\ (y = p \/ y <= x)
      BY <1>6, <1>7, <1>8, <2>3
    <3>2. y = IF p > x THEN p ELSE x
      BY ONLY <2>1, <3>1
    <3> QED BY <2>3, <3>2
  <2>4. CASE S # {} /\ ~b
    <3>1. y <= x /\ y <= p /\ (y = p \/ x <= y)
      BY <1>6, <1>7, <1>8, <2>4
    <3>2. y = IF p < x THEN p ELSE x
      BY ONLY <2>1, <3>1
    <3> QED BY <2>4, <3>2
  <2> QED BY <2>2, <2>3, <2>4
<1> QED BY <1>9 DEF y, R, x, BetterOf, Beats

(* A price that is not the extreme one may go.                             *)
LEMMA ExtremeDrop ==
  ASSUME NEW S, S \subseteq Prices, NEW p \in S, NEW b \in BOOLEAN, p # ExtremeOf(b, S)
  PROVE  ExtremeOf(b, S \ {p}) = ExtremeOf(b, S)
<1> DEFINE R == S \ {p}
           x == ExtremeOf(b, S)
           y == ExtremeOf(b, R)
<1>1. S # {} /\ Prices # {} /\ R \subseteq Prices
  OBVIOUS
<1>2. x \in Int /\ x \in S /\ \A m \in S : IF b THEN m <= x ELSE x <= m
  BY <1>1, ExtremeIs
<1>3. x \in R /\ \A m \in R : m \in S
  BY <1>2
<1>4. R # {}
  BY <1>3
<1> HIDE DEF x, R
<1>5. y \in Int /\ y \in R /\ \A m \in R : IF b THEN m <= y ELSE y <= m
  BY <1>1, <1>4, ExtremeIs
<1> HIDE DEF y
<1>6. IF b THEN y <= x /\ x <= y ELSE x <= y /\ y <= x
  BY <1>2, <1>3, <1>5
<1>7. y = x
  BY <1>2, <1>5, <1>6
<1> QED BY <1>7 DEF x, y, R

(* rescan_best finds the extreme of the prices that are left.              *)
LEMMA RescanIs ==
  ASSUME NEW f, NEW c, TableOK(f, c)
  PROVE  RescanBest(f) = ExtremeOf(is_bid, Keys(f, c))
<1> DEFINE live == {f[i].price : i \in DOMAIN f} \ {kEmpty, kTombstone}
<1>1. f \in [0 .. c - 1 -> Entries] /\ kEmpty \notin Prices /\ kTombstone \notin Prices
  BY TableAssumption DEF TableOK, kEmpty, kTombstone
<1>2. live = Keys(f, c)
  <2>1. DOMAIN f = 0 .. c - 1 /\ \A i \in 0 .. c - 1 : f[i].price \in Prices \cup {kEmpty, kTombstone}
    BY <1>1 DEF Entries
  <2> QED BY <1>1, <2>1 DEF Keys
<1>3. RescanBest(f) = CASE live = {} -> IF is_bid THEN WorstBid ELSE WorstAsk
                        [] live # {} /\ is_bid -> Max(live)
                        [] OTHER -> Min(live)
  BY DEF RescanBest
<1> HIDE DEF live
<1> QED BY <1>2, <1>3 DEF ExtremeOf

-----------------------------------------------------------------------------
(* The table is well kept and best_ is the extreme of its prices.          *)
TableInv == /\ TableOK(slots, cap) /\ is_bid \in BOOLEAN
            /\ best = ExtremeOf(is_bid, Keys(slots, cap))

(* operator[], whether or not the table grows.                             *)
LEMMA AccessIs ==
  ASSUME TableInv, NEW p \in Prices, NEW v \in Levels, Access(p, v)
  PROVE  /\ TableInv' /\ NowHolds(slots, cap, slots', cap', p, v)
         /\ got' = IF p \in Keys(slots, cap) THEN slots[Found(slots, cap, p)].lvl ELSE Fresh
<1> DEFINE f == Table(slots, cap, p)
           c == Cardinality(DOMAIN f)
           i == InsertSlot(f, c, p)
           new == f[i].price # p
<1>1. /\ slots' = [f EXCEPT ![i] = [price |-> p, lvl |-> v]] /\ cap' = c
      /\ got' = (IF new THEN Fresh ELSE f[i].lvl)
      /\ best' = (IF Better(p, best) THEN p ELSE best) /\ is_bid' = is_bid
      /\ Full(slots, cap, p) => 2 * cap <= HashBits
  BY DEF Access
<1>2. TableOK(slots, cap) /\ is_bid \in BOOLEAN /\ best = ExtremeOf(is_bid, Keys(slots, cap))
  BY DEF TableInv
<1> HIDE DEF f
<1>3. /\ TableOK(f, c) /\ ~Full(f, c, p) /\ Keys(f, c) = Keys(slots, cap)
      /\ \A q \in Prices : \A m : HoldsLevel(slots, cap, q, m) => HoldsLevel(f, c, q, m)
  BY <1>1, <1>2, TableSame DEF f
<1> HIDE DEF c, i
<1>4. /\ TableOK(slots', c) /\ NowHolds(f, c, slots', c, p, v)
      /\ f[i].price # p <=> p \notin Keys(f, c)
      /\ p \in Keys(f, c) => HoldsLevel(f, c, p, f[i].lvl)
  BY <1>1, <1>3, InsertOK DEF i
<1>5. Keys(slots, cap) \subseteq Prices
  BY DEF Keys
<1>6. NowHolds(slots, cap, slots', cap', p, v)
  BY <1>1, <1>3, <1>4, <1>5 DEF NowHolds
<1>7. got' = IF p \in Keys(slots, cap) THEN slots[Found(slots, cap, p)].lvl ELSE Fresh
  <2>1. CASE p \notin Keys(slots, cap)
    BY <1>1, <1>3, <1>4, <2>1
  <2>2. CASE p \in Keys(slots, cap)
    <3> DEFINE l == slots[Found(slots, cap, p)].lvl
               m == f[i].lvl
    <3>1. HoldsLevel(slots, cap, p, l)
      BY <1>2, <2>2, KeyHolds
    <3>2. got' = m /\ HoldsLevel(f, c, p, m)
      BY <1>1, <1>3, <1>4, <2>2
    <3> HIDE DEF l, m
    <3>3. HoldsLevel(f, c, p, l)
      BY <1>3, <3>1
    <3>4. f[Found(f, c, p)].lvl = l /\ f[Found(f, c, p)].lvl = m
      BY <1>3, <3>2, <3>3, LevelIs
    <3> QED BY <2>2, <3>2, <3>4 DEF l
  <2> QED BY <2>1, <2>2
<1>8. best' = ExtremeOf(is_bid', Keys(slots', cap'))
  <2>1. Keys(slots', cap') = Keys(slots, cap) \cup {p}
    BY <1>6 DEF NowHolds
  <2>2. ExtremeOf(is_bid, Keys(slots, cap) \cup {p}) = BetterOf(is_bid, p, best)
    <3> DEFINE S == Keys(slots, cap)
    <3>1. S \subseteq Prices /\ is_bid \in BOOLEAN /\ best = ExtremeOf(is_bid, S) /\ p \in Prices
      BY <1>2, <1>5
    <3> HIDE DEF S
    <3>2. ExtremeOf(is_bid, S \cup {p}) = BetterOf(is_bid, p, ExtremeOf(is_bid, S))
      BY ONLY <3>1, ExtremeAdd, Zenon
    <3>3. ExtremeOf(is_bid, S \cup {p}) = BetterOf(is_bid, p, best)
      BY <3>1, <3>2
    <3> QED BY <3>3 DEF S
  <2>3. best' = BetterOf(is_bid, p, best)
    BY <1>1, Zenon DEF Better, BetterOf, Beats
  <2> QED BY <1>1, <2>1, <2>2, <2>3
<1> QED BY <1>1, <1>2, <1>4, <1>6, <1>7, <1>8 DEF TableInv

(* erase.                                                                  *)
LEMMA EraseIs ==
  ASSUME TableInv, NEW p \in Prices, Erase(p)
  PROVE  /\ TableInv' /\ Keys(slots', cap') = Keys(slots, cap) \ {p} /\ got' = got
         /\ \A q \in Keys(slots, cap) : \A m :
              q # p /\ HoldsLevel(slots, cap, q, m) => HoldsLevel(slots', cap', q, m)
<1>1. /\ Present(slots, cap, p) /\ cap' = cap /\ is_bid' = is_bid /\ got' = got
      /\ slots' = [slots EXCEPT ![Found(slots, cap, p)].price = kTombstone]
      /\ best' = IF p = best THEN RescanBest(slots') ELSE best
  BY DEF Erase
<1>2. TableOK(slots, cap) /\ is_bid \in BOOLEAN /\ best = ExtremeOf(is_bid, Keys(slots, cap))
  BY DEF TableInv
<1>5. /\ TableOK(slots', cap) /\ p \in Keys(slots, cap)
      /\ \A r : r \in Keys(slots', cap) <=> r \in Keys(slots, cap) /\ r # p
      /\ \A q \in Keys(slots, cap) : \A m :
           q # p /\ HoldsLevel(slots, cap, q, m) => HoldsLevel(slots', cap, q, m)
  <2>1. slots' = Buried(slots, cap, p)
    BY <1>1 DEF Buried
  <2> QED BY ONLY <1>1, <1>2, <2>1, p \in Prices, EraseOK
<1>3. /\ TableOK(slots', cap) /\ Keys(slots', cap) = Keys(slots, cap) \ {p} /\ p \in Keys(slots, cap)
      /\ \A q \in Keys(slots, cap) : \A m :
           q # p /\ HoldsLevel(slots, cap, q, m) => HoldsLevel(slots', cap, q, m)
  BY <1>5
<1>4. best' = ExtremeOf(is_bid, Keys(slots', cap))
  <2>1. CASE p = best
    <3>1. RescanBest(slots') = ExtremeOf(is_bid, Keys(slots', cap))
      BY <1>3, RescanIs
    <3> QED BY <1>1, <2>1, <3>1
  <2>2. CASE p # best
    <3>1. Keys(slots, cap) \subseteq Prices
      BY DEF Keys
    <3>2. ExtremeOf(is_bid, Keys(slots, cap) \ {p}) = best
      BY <1>2, <1>3, <2>2, <3>1, ExtremeDrop
    <3> QED BY <1>1, <1>3, <2>2, <3>2
  <2> QED BY <2>1, <2>2
<1> QED BY <1>1, <1>2, <1>3, <1>4 DEF TableInv

-----------------------------------------------------------------------------
(* What find() answers, as a function of the prices in the table.          *)
ContentsOf(f, c) == [p \in {q \in Prices : Present(f, c, q)} |-> f[Found(f, c, p)].lvl]

(* It is the levels the table holds.                                       *)
LEMMA ContentsIs ==
  ASSUME NEW f, NEW c, TableOK(f, c)
  PROVE  /\ ContentsOf(f, c) = [p \in Keys(f, c) |-> f[Found(f, c, p)].lvl]
         /\ DOMAIN ContentsOf(f, c) = Keys(f, c)
         /\ \A p \in Keys(f, c) : ContentsOf(f, c)[p] = f[Found(f, c, p)].lvl
         /\ \A p \in Keys(f, c) : HoldsLevel(f, c, p, ContentsOf(f, c)[p])
<1>1. {q \in Prices : Present(f, c, q)} = Keys(f, c)
  BY PresentIs DEF Keys
<1>2. ContentsOf(f, c) = [p \in Keys(f, c) |-> f[Found(f, c, p)].lvl]
  BY <1>1 DEF ContentsOf
<1>3. \A p \in Keys(f, c) : HoldsLevel(f, c, p, f[Found(f, c, p)].lvl)
  BY KeyHolds
<1> QED BY <1>2, <1>3

(* A table that holds the levels of a map is that map.                     *)
LEMMA ContentsAre ==
  ASSUME NEW f, NEW c, TableOK(f, c), NEW m, m = [p \in Keys(f, c) |-> m[p]],
         \A p \in Keys(f, c) : HoldsLevel(f, c, p, m[p])
  PROVE  ContentsOf(f, c) = m
<1>1. ASSUME NEW p \in Keys(f, c) PROVE f[Found(f, c, p)].lvl = m[p]
  <2>1. p \in Prices /\ HoldsLevel(f, c, p, m[p])
    BY DEF Keys
  <2> DEFINE l == m[p]
  <2>2. HoldsLevel(f, c, p, l)
    BY <2>1
  <2> HIDE DEF l
  <2>3. f[Found(f, c, p)].lvl = l
    BY <2>1, <2>2, LevelIs
  <2> QED BY <2>3 DEF l
<1> DEFINE g == [p \in Keys(f, c) |-> m[p]]
<1>2. ContentsOf(f, c) = g
  BY <1>1, ContentsIs
<1>3. g = m
  OBVIOUS
<1> QED BY <1>2, <1>3

(* The table is well kept in every state.                                  *)
LEMMA TableStart == TableInit => TableInv
<1> SUFFICES ASSUME TableInit PROVE TableInv
  OBVIOUS
<1>1. /\ cap = InitCap /\ slots = EmptyTable(InitCap) /\ is_bid \in BOOLEAN
      /\ best = IF is_bid THEN WorstBid ELSE WorstAsk
  BY DEF TableInit
<1>2. TableOK(slots, cap) /\ Keys(slots, cap) = {}
  BY <1>1, EmptyOK, TableAssumption
<1>3. best = ExtremeOf(is_bid, {})
  BY <1>1 DEF ExtremeOf
<1> QED BY <1>1, <1>2, <1>3 DEF TableInv

LEMMA TableStep == TableInv /\ [TableNext]_tableVars => TableInv'
<1> SUFFICES ASSUME TableInv, [TableNext]_tableVars PROVE TableInv'
  OBVIOUS
<1>1. CASE UNCHANGED tableVars
  BY <1>1 DEF tableVars, TableInv
<1>2. ASSUME NEW p \in Prices, Erase(p) PROVE TableInv'
  BY <1>2, EraseIs
<1>3. ASSUME NEW p \in Prices, NEW v \in Levels, Access(p, v) PROVE TableInv'
  BY <1>3, AccessIs
<1> QED BY <1>1, <1>2, <1>3 DEF TableNext

-----------------------------------------------------------------------------
(* The abstract map is Contents.                                           *)
LEMMA ContentsNow ==
  /\ Contents = ContentsOf(slots, cap)
  /\ Contents' = ContentsOf(slots', cap')
BY DEF Contents, ContentsOf

(* The abstract extreme.                                                   *)
LEMMA ExtremeNow == \A S : M!Extreme(S) = ExtremeOf(is_bid, S)
BY DEF M!Extreme, ExtremeOf, M!Max, M!Min, Max, Min

(* operator[] does to the map what the map's operator[] does.              *)
LEMMA AccessMaps ==
  ASSUME TableInv, NEW p \in Prices, NEW v \in Levels, Access(p, v)
  PROVE  M!MNext
<1> DEFINE C == ContentsOf(slots, cap)
           D == ContentsOf(slots', cap')
           m == [q \in DOMAIN C \cup {p} |-> IF q = p THEN v ELSE C[q]]
<1>1. /\ TableInv' /\ NowHolds(slots, cap, slots', cap', p, v)
      /\ got' = IF p \in Keys(slots, cap) THEN slots[Found(slots, cap, p)].lvl ELSE Fresh
  BY AccessIs
<1>2. TableOK(slots, cap) /\ TableOK(slots', cap') /\ is_bid' = is_bid
  BY <1>1 DEF TableInv, Access
<1>3. /\ DOMAIN C = Keys(slots, cap) /\ DOMAIN D = Keys(slots', cap')
      /\ \A q \in Keys(slots, cap) : C[q] = slots[Found(slots, cap, q)].lvl
      /\ \A q \in Keys(slots, cap) : HoldsLevel(slots, cap, q, C[q])
  BY <1>2, ContentsIs
<1> HIDE DEF C, D
<1>4. /\ Keys(slots', cap') = DOMAIN C \cup {p} /\ HoldsLevel(slots', cap', p, v)
      /\ \A q \in DOMAIN C : q # p => HoldsLevel(slots', cap', q, C[q])
  BY <1>1, <1>3 DEF NowHolds
<1>5. m = [q \in Keys(slots', cap') |-> m[q]]
  BY <1>4
<1>6. \A q \in Keys(slots', cap') : HoldsLevel(slots', cap', q, m[q])
  BY <1>4
<1> HIDE DEF m
<1>7. D = m
  BY <1>2, <1>5, <1>6, ContentsAre DEF D
<1>8. got' = IF p \in DOMAIN C THEN C[p] ELSE Fresh
  BY <1>1, <1>3
<1>9. M!MAccess(C, D, p, v)
  BY <1>7, <1>8 DEF M!MAccess, m
<1>10. best' = M!Extreme(DOMAIN D)
  BY <1>1, <1>2, <1>3, ExtremeNow DEF TableInv
<1>11. Contents = C /\ Contents' = D
  BY ContentsNow DEF C, D
<1> QED BY <1>2, <1>9, <1>10, <1>11 DEF M!MNext

(* erase does to the map what the map's erase does.                        *)
LEMMA EraseMaps ==
  ASSUME TableInv, NEW p \in Prices, Erase(p)
  PROVE  M!MNext
<1> DEFINE C == ContentsOf(slots, cap)
           D == ContentsOf(slots', cap')
           m == [q \in DOMAIN C \ {p} |-> C[q]]
<1>1. /\ TableInv' /\ Keys(slots', cap') = Keys(slots, cap) \ {p} /\ got' = got
      /\ \A q \in Keys(slots, cap) : \A l :
           q # p /\ HoldsLevel(slots, cap, q, l) => HoldsLevel(slots', cap', q, l)
  BY EraseIs
<1>2. TableOK(slots, cap) /\ TableOK(slots', cap') /\ is_bid' = is_bid
  BY <1>1 DEF TableInv, Erase
<1>3. /\ DOMAIN C = Keys(slots, cap) /\ DOMAIN D = Keys(slots', cap')
      /\ \A q \in Keys(slots, cap) : HoldsLevel(slots, cap, q, C[q])
  BY <1>2, ContentsIs
<1> HIDE DEF C, D
<1>4. /\ Keys(slots', cap') = DOMAIN C \ {p}
      /\ \A q \in DOMAIN C \ {p} : HoldsLevel(slots', cap', q, C[q])
  BY <1>1, <1>3
<1>5. m = [q \in Keys(slots', cap') |-> m[q]]
  BY <1>4
<1>6. \A q \in Keys(slots', cap') : HoldsLevel(slots', cap', q, m[q])
  BY <1>4
<1> HIDE DEF m
<1>7. D = m
  BY <1>2, <1>5, <1>6, ContentsAre DEF D
<1>9. M!MErase(C, D, p)
  BY <1>1, <1>7 DEF M!MErase, m
<1>10. best' = M!Extreme(DOMAIN D)
  BY <1>1, <1>2, <1>3, ExtremeNow DEF TableInv
<1>11. Contents = C /\ Contents' = D
  BY ContentsNow DEF C, D
<1> QED BY <1>2, <1>9, <1>10, <1>11 DEF M!MNext

(* A new table is the empty map.                                           *)
LEMMA StartMaps == TableInit => M!MInit
<1> SUFFICES ASSUME TableInit PROVE M!MInit
  OBVIOUS
<1>1. /\ cap = InitCap /\ slots = EmptyTable(InitCap) /\ is_bid \in BOOLEAN /\ got = Fresh
      /\ best = IF is_bid THEN WorstBid ELSE WorstAsk
  BY DEF TableInit
<1>2. TableOK(slots, cap) /\ Keys(slots, cap) = {}
  BY <1>1, EmptyOK, TableAssumption
<1>3. <<>> = [p \in {} |-> <<>>[p]]
  OBVIOUS
<1>4. ContentsOf(slots, cap) = <<>>
  BY <1>2, <1>3, ContentsAre
<1>5. best = M!Extreme({})
  BY <1>1, ExtremeNow DEF ExtremeOf
<1> QED BY <1>1, <1>4, <1>5, ContentsNow DEF M!MInit

(* THE TABLE IMPLEMENTS THE MAP.                                           *)
THEOREM TableRefinement == TableSpec => ImplementsMap
<1>1. TableInit => TableInv /\ M!MInit
  BY TableStart, StartMaps
<1>2. TableInv /\ [TableNext]_tableVars => TableInv'
  BY TableStep
<1>3. TableInv /\ [TableNext]_tableVars => [M!MNext]_<<Contents, got, best, is_bid>>
  <2> SUFFICES ASSUME TableInv, [TableNext]_tableVars
               PROVE  [M!MNext]_<<Contents, got, best, is_bid>>
    OBVIOUS
  <2>1. CASE UNCHANGED tableVars
    <3>1. Contents' = Contents
      BY <2>1, ContentsNow DEF tableVars
    <3> QED BY <2>1, <3>1 DEF tableVars
  <2>2. ASSUME NEW p \in Prices, Erase(p) PROVE M!MNext
    BY <2>2, EraseMaps
  <2>3. ASSUME NEW p \in Prices, NEW v \in Levels, Access(p, v) PROVE M!MNext
    BY <2>3, AccessMaps
  <2> QED BY <2>1, <2>2, <2>3 DEF TableNext
<1> QED BY <1>1, <1>2, <1>3, PTL DEF TableSpec, ImplementsMap, M!MSpec
=============================================================================
