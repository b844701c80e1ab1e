--------------------------- MODULE OrderConnection ---------------------------
(***************************************************************************)
(* The TCP connection to the exchange, byte by byte: IoUringSender's send  *)
(* ring and completion queue (core/net/io_uring_sender.cpp), the OUCH      *)
(* messages (oms/ouch_order_codec.h) as runs of bytes of fixed length, the *)
(* exchange's reading of them (benchmark/main.cpp), and fill_th's framing  *)
(* of the reports (main.cpp).  A byte is a message and a position in it;   *)
(* a frame decodes if all its bytes are those of one message, which is     *)
(* what the checksum is for.  The two directions are byte sequences that   *)
(* each side reads in pieces of any size.                                  *)
(***************************************************************************)
EXTENDS Integers, Sequences, SequencesExt

CONSTANTS Symbols,
          MaxCalls,    \* bound: calls of submit_market_as_limit
          Capacity,    \* ring_capacity of the sender
          Header,      \* kHeaderBytes
          QLen, OLen, BLen, ALen, ELen, \* kBookQueryMsgLen ... kExecMsgLen
          SizeMod,     \* size_t arithmetic wraps here
          MaxSqes,     \* bound: submissions of a behaviour
          MaxShort,    \* bound: short writes of a behaviour
          MaxNotify,   \* bound: notifications of a behaviour
          MaxFaults    \* bound: failures of sends while the peer is up

ASSUME ConnectionAssumption ==
    /\ Symbols # {} /\ MaxCalls \in Nat \ {0}
    /\ {QLen, OLen, BLen, ALen, ELen} \subseteq Nat \ {0}
    /\ Header \in Nat /\ Header < QLen
    /\ Capacity \in Nat \ {0} /\ 2 * OLen <= Capacity
    /\ SizeMod \in Nat /\ Capacity < SizeMod /\ SizeMod % Capacity = 0
    /\ {MaxSqes, MaxShort, MaxNotify, MaxFaults} \subseteq Nat

VARIABLES ring, head, tail, \* SPSCByteRing of the sender
          mtx,       \* the call that owns ExecutionEngine::mtx_, 0 if free
          tx,        \* the send under way
          cq,        \* completions posted by the kernel
          staged,    \* what the entries that were not submitted will do
          sqes, shorts, notes, faults, \* counted for the bounds
          toEx, toUs,\* bytes on their way
          conn,      \* "up", or why the exchange closed the connection
          refs,      \* exchange: id_to_ref_, the order ids by reference
          refToId,   \* trader: ref_to_id_, 0 where unknown
          fill,      \* where fill_th is
          stream     \* its accumulated bytes

(* What has happened: messages sent, read by the exchange, reported by it, *)
(* handed to the engine; and what has gone wrong on the way.               *)
VARIABLES sent, taken, told, heard,
          gapped,    \* push skipped the end of the ring
          stale,     \* a send took a completion that was not its own
          kept,      \* a send failed and left its bytes in the ring
          torn,      \* a send failed halfway and the peer reads on
          drained    \* fill_th's first read threw bytes away

ringVars == <<ring, head, tail, gapped>>
kernelVars == <<cq, staged, sqes, shorts, notes, faults, stale, kept, torn>>
exchangeVars == <<refs, taken, told>>
fillVars == <<refToId, fill, stream, heard, drained>>
connVars == <<ringVars, kernelVars, exchangeVars, fillVars, mtx, tx, toEx, toUs,
              conn, sent>>

(* A message is numbered after the call it belongs to.                     *)
Calls == 1 .. MaxCalls
NoCall == 0

MsgLen == [Q |-> QLen, O |-> OLen, B |-> BLen, A |-> ALen, E |-> ELen]

(* The bytes of a message, and the message of a frame.                     *)
Bytes(m) == [i \in 1 .. MsgLen[m.type] |-> [msg |-> m, at |-> i]]
Decodes(f) == f = Bytes(f[1].msg)

(* The length a first byte announces, 0 for a byte that is no type.  The   *)
(* side 'B' inside an 'A' or 'E' looks like the type of a book message.    *)
FrameLen(s) ==
    CASE s[1].at = 1 -> MsgLen[s[1].msg.type]
      [] s[1].at = 2 /\ s[1].msg.type \in {"A", "E"} -> BLen
      [] OTHER -> 0
Complete(s) == s # <<>> /\ FrameLen(s) > 0 /\ Len(s) >= FrameLen(s)
Frame(s) == SubSeq(s, 1, FrameLen(s))
Rest(s) == SubSeq(s, FrameLen(s) + 1, Len(s))

NoMsg == [type |-> "none"]
NoByte == [msg |-> NoMsg, at |-> 0]
Idle == [at |-> "idle", msg |-> NoMsg, left |-> 0]
Nothing == [bytes |-> <<>>, cqes |-> <<>>]

ConnInit ==
    /\ ring = [i \in 0 .. Capacity - 1 |-> NoByte] /\ head = 0 /\ tail = 0
    /\ mtx = NoCall /\ tx = Idle
    /\ cq = <<>> /\ staged = Nothing
    /\ sqes = 0 /\ shorts = 0 /\ notes = 0 /\ faults = 0
    /\ toEx = <<>> /\ toUs = <<>> /\ conn = "up"
    /\ refs = <<>> /\ refToId = [r \in Calls |-> 0]
    /\ fill = "drain" /\ stream = <<>>
    /\ sent = <<>> /\ taken = <<>> /\ told = <<>> /\ heard = <<>>
    /\ gapped = FALSE /\ stale = FALSE /\ kept = FALSE /\ torn = FALSE
    /\ drained = FALSE

----------------------------------------------------------------------------
(* IoUringSender.                                                          *)

Used == (tail - head) % SizeMod
Fits(len) == (tail % Capacity) + len <= Capacity

(* Where push puts a message: in a row, round the end if its header fits   *)
(* there, and else from the start of the next lap.                         *)
Start(len) ==
    IF Fits(len) \/ Capacity - (tail % Capacity) >= Header
    THEN tail ELSE (tail \div Capacity + 1) * Capacity
HasRoom(len) ==
    IF Fits(len) THEN (Capacity - Used) % SizeMod >= len
    ELSE (tail \div Capacity + 1) * Capacity + len <= head + Capacity

(* send, under mtx_: the message is copied into the ring.                  *)
Begin(t, m) ==
    LET len == MsgLen[m.type]
        start == Start(len)
    IN /\ mtx = NoCall /\ HasRoom(len)
       /\ mtx' = t
       /\ ring' = [i \in 0 .. Capacity - 1 |->
                     LET k == (i - start) % Capacity
                     IN IF k < len THEN Bytes(m)[k + 1] ELSE ring[i]]
       /\ tail' = start + len
       /\ gapped' = (gapped \/ start # tail)
       /\ tx' = [at |-> "submit", msg |-> m, left |-> len]
       /\ sent' = Append(sent, m)
       /\ UNCHANGED <<head, kernelVars, exchangeVars, fillVars, toEx, toUs, conn>>

(* There is no room and, as only the owner of mtx_ makes some, there never *)
(* will be: push is called again and again.                                *)
Spin(t, m) ==
    /\ mtx = NoCall /\ ~HasRoom(MsgLen[m.type])
    /\ mtx' = t
    /\ tx' = [at |-> "spin", msg |-> m, left |-> MsgLen[m.type]]
    /\ UNCHANGED <<ringVars, kernelVars, exchangeVars, fillVars, toEx, toUs, conn,
                   sent>>

(* What send_zc_all submits: what is contiguous from the head on.          *)
Chunk == Min({tx.left, Used, Capacity - (head % Capacity)})
Ahead(k) == [i \in 1 .. k |-> ring[(head + i - 1) % Capacity]]

(* A zero-copy send is submitted, behind the entries that failed before,   *)
(* and goes out, perhaps in part.  The kernel posts its result at once     *)
(* and, when the buffer is no longer needed, a notification.  After the    *)
(* peer has closed, the bytes are discarded.                               *)
Submit(k) ==
    /\ tx.at = "submit" /\ k \in 1 .. Chunk /\ sqes < MaxSqes
    /\ k < Chunk => conn = "up" /\ shorts < MaxShort
    /\ shorts' = IF k < Chunk THEN shorts + 1 ELSE shorts
    /\ sqes' = sqes + 1
    /\ toEx' = IF conn = "up" THEN toEx \o staged.bytes \o Ahead(k) ELSE toEx
    /\ cq' = cq \o Append(staged.cqes, [n |-> sqes + 1, res |-> k])
    /\ staged' = Nothing
    /\ tx' = [tx EXCEPT !.at = "reap"]
    /\ UNCHANGED <<ringVars, notes, faults, stale, kept, torn, exchangeVars,
                   fillVars, mtx, toUs, conn, sent>>

(* The kernel completes a send with an error: for want of memory while the *)
(* peer is up, or because it has closed.                                   *)
SubmitError ==
    /\ tx.at = "submit" /\ Chunk > 0 /\ sqes < MaxSqes
    /\ conn = "up" => faults < MaxFaults
    /\ faults' = IF conn = "up" THEN faults + 1 ELSE faults
    /\ sqes' = sqes + 1
    /\ toEx' = IF conn = "up" THEN toEx \o staged.bytes ELSE toEx
    /\ cq' = cq \o Append(staged.cqes, [n |-> sqes + 1, res |-> -1])
    /\ staged' = Nothing
    /\ tx' = [tx EXCEPT !.at = "reap"]
    /\ UNCHANGED <<ringVars, shorts, notes, stale, kept, torn, exchangeVars,
                   fillVars, mtx, toUs, conn, sent>>

(* send_zc_all returns -1 and leaves what it has not released in the ring. *)
LeaveBytes ==
    /\ tx' = [tx EXCEPT !.at = "failed"]
    /\ kept' = TRUE
    /\ UNCHANGED <<ringVars, cq, shorts, notes, stale, torn, exchangeVars, fillVars,
                   mtx, toEx, toUs, conn, sent>>

(* The submission queue is full of entries that could not be submitted; the *)
(* code's holds 256 of them.                                               *)
NoSqe ==
    /\ tx.at = "submit" /\ Chunk > 0 /\ staged # Nothing
    /\ LeaveBytes /\ UNCHANGED <<staged, sqes, faults>>

(* io_uring_submit fails: the entry stays queued and goes out with the     *)
(* next one that is submitted.                                             *)
SubmitFails ==
    /\ tx.at = "submit" /\ Chunk > 0 /\ sqes < MaxSqes /\ faults < MaxFaults
    /\ faults' = faults + 1 /\ sqes' = sqes + 1
    /\ staged' = [bytes |-> staged.bytes \o Ahead(Chunk),
                  cqes |-> Append(staged.cqes, [n |-> sqes + 1, res |-> Chunk])]
    /\ LeaveBytes

(* Waiting for the completion fails, with the submission out.              *)
WaitFails ==
    /\ tx.at = "reap" /\ faults < MaxFaults
    /\ faults' = faults + 1
    /\ LeaveBytes /\ UNCHANGED <<staged, sqes>>

(* The kernel posts the notification of a send, with result 0; external.   *)
Notify ==
    /\ notes < MaxNotify /\ notes < sqes
    /\ cq' = Append(cq, [n |-> 0, res |-> 0])
    /\ notes' = notes + 1
    /\ UNCHANGED <<ringVars, staged, sqes, shorts, faults, stale, kept, torn,
                   exchangeVars, fillVars, mtx, tx, toEx, toUs, conn, sent>>

ReapUnchanged ==
    UNCHANGED <<ring, tail, gapped, staged, sqes, shorts, notes, faults, kept,
                exchangeVars, fillVars, mtx, toEx, toUs, conn>>

(* A message dropped whole was not sent after all.                         *)
ReapRecords(c) ==
    LET dropped == c.res <= 0 /\ conn = "up"
        whole == tx.left = MsgLen[tx.msg.type]
    IN /\ stale' = (stale \/ c.n # sqes)
       /\ sent' = IF dropped /\ whole THEN Front(sent) ELSE sent
       /\ torn' = (torn \/ (dropped /\ ~whole))

(* Mutant: a short write is taken for a complete one.                      *)
Reap_Once ==
    LET c == Head(cq)
    IN /\ tx.at = "reap" /\ cq # <<>>
       /\ cq' = Tail(cq)
       /\ head' = (head + tx.left) % SizeMod
       /\ tx' = [tx EXCEPT !.at = IF c.res > 0 THEN "ok" ELSE "failed", !.left = 0]
       /\ ReapRecords(c) /\ ReapUnchanged

(* Mutant: what is returned is the count of the last piece.                *)
Reap_LastCount ==
    LET c == Head(cq)
        left == (tx.left - c.res) % SizeMod
    IN /\ tx.at = "reap" /\ cq # <<>>
       /\ cq' = Tail(cq)
       /\ head' = (head + (IF c.res > 0 THEN c.res ELSE tx.left)) % SizeMod
       /\ tx' = IF c.res > 0 /\ left > 0
                THEN [tx EXCEPT !.at = "submit", !.left = left]
                ELSE [tx EXCEPT !.at = IF c.res = MsgLen[tx.msg.type]
                                       THEN "ok" ELSE "failed"]
       /\ ReapRecords(c) /\ ReapUnchanged

(* Mutant: a send that failed does not release what it has not sent.       *)
Reap_KeepsRest ==
    LET c == Head(cq)
        left == (tx.left - c.res) % SizeMod
    IN /\ tx.at = "reap" /\ cq # <<>>
       /\ cq' = Tail(cq)
       /\ head' = (head + (IF c.res > 0 THEN c.res ELSE 0)) % SizeMod
       /\ tx' = IF c.res > 0
                THEN [tx EXCEPT !.at = IF left = 0 THEN "ok" ELSE "submit",
                                !.left = left]
                ELSE [tx EXCEPT !.at = "failed"]
       /\ ReapRecords(c) /\ ReapUnchanged

(* The oldest completion is taken for that of the submission: a positive   *)
(* count releases that much and the rest is sent next, 0 or an error       *)
(* drops the rest.                                                         *)
Reap ==
    LET c == Head(cq)
        left == (tx.left - c.res) % SizeMod
    IN /\ tx.at = "reap" /\ cq # <<>>
       /\ cq' = Tail(cq)
       /\ head' = (head + (IF c.res > 0 THEN c.res ELSE tx.left)) % SizeMod
       /\ tx' = IF c.res > 0
                THEN [tx EXCEPT !.at = IF left = 0 THEN "ok" ELSE "submit",
                                !.left = left]
                ELSE [tx EXCEPT !.at = "failed"]
       /\ ReapRecords(c) /\ ReapUnchanged

SendZcAll == \/ \E k \in 1 .. Capacity : Submit(k)
            \/ SubmitError \/ NoSqe \/ SubmitFails \/ WaitFails \/ Reap

----------------------------------------------------------------------------
(* The exchange.                                                           *)

Reading(type) ==
    /\ conn = "up" /\ Complete(toEx) /\ Decodes(Frame(toEx))
    /\ toEx[1].msg.type = type

Report(ms, bytes) ==
    /\ told' = told \o ms
    /\ toUs' = toUs \o bytes

ExchangeUnchanged == UNCHANGED <<ringVars, kernelVars, fillVars, mtx, tx, sent>>

(* ref_for: the reference of an order, a new one the first time.           *)
RefFor(id) == IF Contains(refs, id)
              THEN <<refs, SelectInSeq(refs, LAMBDA x : x = id)>>
              ELSE <<Append(refs, id), Len(refs) + 1>>

(* An 'O' is accepted and executed in full: 'A' and 'E'.                   *)
ExchangeOrder ==
    LET id == toEx[1].msg.n
        ref == RefFor(id)
        ack == [type |-> "A", n |-> id, ref |-> ref[2]]
        exec == [type |-> "E", n |-> id, ref |-> ref[2]]
    IN /\ Reading("O")
       /\ refs' = ref[1]
       /\ taken' = Append(taken, toEx[1].msg)
       /\ Report(<<ack, exec>>, Bytes(ack) \o Bytes(exec))
       /\ toEx' = Rest(toEx)
       /\ UNCHANGED conn /\ ExchangeUnchanged

(* A 'Q' is answered with a 'B', or not at all, by a matching engine that  *)
(* uses this codec; its own code is not in the repository.                 *)
ExchangeQuery(reply, bytes) ==
    /\ Reading("Q")
    /\ taken' = Append(taken, toEx[1].msg)
    /\ Report(reply, bytes)
    /\ toEx' = Rest(toEx)
    /\ UNCHANGED <<refs, conn>> /\ ExchangeUnchanged

(* The simulated exchange closes the connection at a 'Q', which it does    *)
(* not know, and any exchange at a byte that is no type.                   *)
ExchangeClose(why) ==
    /\ conn = "up" /\ toEx # <<>>
    /\ conn' = why
    /\ toEx' = <<>>
    /\ UNCHANGED <<toUs, exchangeVars>> /\ ExchangeUnchanged

(* A frame with a wrong checksum is skipped.                               *)
ExchangeSkip ==
    /\ conn = "up" /\ Complete(toEx) /\ ~Decodes(Frame(toEx))
    /\ toEx' = Rest(toEx)
    /\ UNCHANGED <<conn, toUs, exchangeVars>> /\ ExchangeUnchanged

Exchange ==
    \/ ExchangeOrder
    \/ LET quote == [toEx[1].msg EXCEPT !.type = "B"]
       IN ExchangeQuery(<<quote>>, Bytes(quote))
    \/ ExchangeQuery(<<>>, <<>>)
    \/ Reading("Q") /\ ExchangeClose("refused")
    \/ toEx # <<>> /\ FrameLen(toEx) = 0 /\ ExchangeClose("garbled")
    \/ ExchangeSkip

----------------------------------------------------------------------------
(* fill_th.                                                                *)

FillUnchanged ==
    UNCHANGED <<ringVars, kernelVars, exchangeVars, tx, toEx, conn, sent>>

(* The first, non-blocking read throws away what it gets.                  *)
FillDrain(n) ==
    /\ fill = "drain" /\ ((n = 0) <=> (toUs = <<>>))
    /\ fill' = "recv"
    /\ toUs' = SubSeq(toUs, n + 1, Len(toUs))
    /\ drained' = (n > 0)
    /\ UNCHANGED <<refToId, stream, heard, mtx>> /\ FillUnchanged

(* The framing loop breaks off here: no complete message is left.          *)
Broken == stream # <<>> => FrameLen(stream) > Len(stream)

(* Mutant: bytes left over from the last read are forgotten.               *)
FillRecv_Fresh(n) ==
    /\ fill = "recv" /\ Broken /\ n \in 1 .. Len(toUs)
    /\ stream' = SubSeq(toUs, 1, n)
    /\ toUs' = SubSeq(toUs, n + 1, Len(toUs))
    /\ UNCHANGED <<refToId, fill, heard, drained, mtx>> /\ FillUnchanged

(* A read returns some of the bytes that have arrived.                     *)
FillRecv(n) ==
    /\ fill = "recv" /\ Broken /\ n \in 1 .. Len(toUs)
    /\ stream' = stream \o SubSeq(toUs, 1, n)
    /\ toUs' = SubSeq(toUs, n + 1, Len(toUs))
    /\ UNCHANGED <<refToId, fill, heard, drained, mtx>> /\ FillUnchanged

(* The peer has closed: recv returns 0 and the thread ends.                *)
FillEnd ==
    /\ fill = "recv" /\ Broken /\ toUs = <<>> /\ conn # "up"
    /\ fill' = "ended"
    /\ UNCHANGED <<refToId, stream, heard, drained, toUs, mtx>> /\ FillUnchanged

(* A byte that is no type is dropped; a frame that does not decode is      *)
(* dropped whole.                                                          *)
FillDrop ==
    /\ stream # <<>>
    /\ \/ FrameLen(stream) = 0 /\ stream' = Tail(stream)
       \/ Complete(stream) /\ ~Decodes(Frame(stream)) /\ stream' = Rest(stream)
    /\ UNCHANGED <<refToId, fill, heard, drained, toUs, mtx>> /\ FillUnchanged

Framed(types) ==
    /\ Complete(stream) /\ Decodes(Frame(stream))
    /\ stream[1].msg.type \in types

(* decode_fill and on_order_report, which needs mtx_: the order is the one *)
(* the reference is known for, else the one of the token; an 'A' teaches.  *)
FillReport ==
    LET m == stream[1].msg
        id == IF refToId[m.ref] # 0 THEN refToId[m.ref] ELSE m.n
    IN /\ Framed({"A", "E"}) /\ mtx = NoCall
       /\ heard' = Append(heard, [m EXCEPT !.n = id])
       /\ refToId' = IF m.type = "A" THEN [refToId EXCEPT ![m.ref] = id] ELSE refToId
       /\ stream' = Rest(stream)
       /\ UNCHANGED <<fill, drained, toUs, mtx>> /\ FillUnchanged

(* decode_book; on_book_quote is the engine's.                             *)
FillQuote ==
    /\ Framed({"B"})
    /\ heard' = Append(heard, stream[1].msg)
    /\ stream' = Rest(stream)
    /\ UNCHANGED <<refToId, fill, drained, toUs, mtx>> /\ FillUnchanged

FillThread == \/ \E n \in 0 .. Len(toUs) : FillDrain(n) \/ FillRecv(n)
              \/ FillEnd \/ FillDrop \/ FillReport

----------------------------------------------------------------------------
(* The ring no longer holds what is sent, or a completion was mistaken.    *)
Slipped == gapped \/ stale \/ kept

(* When no send is under way the ring is empty, so that the next send      *)
(* starts with its own first byte: whatever was written short, and         *)
(* whichever completion was an error.                                      *)
DrainedUnlessSlipped == Slipped \/ (mtx = NoCall => Used = 0)

(* The exchange reads the messages in the order in which they were sent,   *)
(* whole and once, and meets no byte that is none of theirs, unless the    *)
(* ring slipped or a send failed halfway on a connection that stays up.    *)
StreamIntactUnlessTorn ==
    \/ Slipped \/ torn
    \/ IsPrefix(taken, sent) /\ conn # "garbled"

(* fill_th hands every report to the engine, in order and for the order it *)
(* is about, in whatever pieces it arrives, unless its first read threw    *)
(* some away.                                                              *)
ReportsArriveUnlessDrained ==
    \/ drained
    \/ /\ IsPrefix(heard, told)
       /\ (fill = "recv" /\ toUs = <<>> /\ Broken) => heard = told
=============================================================================
