------------------------------ MODULE ByteRing ------------------------------
(***************************************************************************)
(* The byte stream between the receive thread and the parser thread:       *)
(* MoldUdpUnpacker::feed pushes framed messages ([header][body]) into      *)
(* SPSCByteRing, ByteRingParser::parse_available takes them out again.     *)
(*                                                                         *)
(* A header never straddles the end of the buffer: when fewer than         *)
(* HeaderBytes are left there, push leaves a gap and starts the message at *)
(* the beginning, and the parser has to skip the same gap.  A body may     *)
(* straddle.  Cursors are unbounded, reduced to a place in the buffer by   *)
(* the mask.                                                               *)
(*                                                                         *)
(* A byte is <<s, i>>: the i-th byte of the s-th message.  What the parser *)
(* reads off bytes that are not a header is arbitrary.                     *)
(***************************************************************************)
EXTENDS Integers, Sequences, SequencesExt, FiniteSets

CONSTANTS
  Capacity,      \* capacity_
  HeaderBytes,   \* kHeaderBytes = kHeadBytes (10)
  MaxBody,       \* longest body (200)
  MaxMsgs        \* bound: messages fed

(* A message must fit in half the ring: see AllParsedUnlessSkewed.         *)
ASSUME ByteRingAssumption ==
  /\ Capacity \in Nat /\ HeaderBytes \in Nat \ {0} /\ MaxBody \in Nat \ {0}
  /\ MaxMsgs \in Nat
  /\ 2 * (HeaderBytes + MaxBody) <= Capacity

VARIABLES
  buf_, head_, tail_,   \* SPSCByteRing
  writer,               \* receive thread, inside push: [pc, len, at]
  parser,               \* parser thread, inside parse_available: [pc, n, used, len]
  sent,                 \* history: [at, len] of every message published
  parsed,               \* history: messages handed to ItchParser, 0 = garbage
  skewed                \* history: the parser skipped bytes that are no gap

ring == <<buf_, head_, tail_>>
vars == <<ring, writer, parser, sent, parsed, skewed>>

Pos(x)      == x % Capacity                          \* x & mask
NextLap(x)  == (x \div Capacity + 1) * Capacity      \* aligned
Room(x)     == Capacity - Pos(x)                     \* bytes up to the buffer's end
Lesser(a, b) == IF a < b THEN a ELSE b

Init ==
  /\ buf_ = [p \in 0 .. Capacity - 1 |-> <<0, 0>>]
  /\ head_ = 0 /\ tail_ = 0
  /\ writer = [pc |-> "idle", len |-> 0, at |-> 0]
  /\ parser = [pc |-> "read_head", n |-> 0, used |-> 0, len |-> 0]
  /\ sent = <<>> /\ parsed = <<>> /\ skewed = FALSE
-----------------------------------------------------------------------------
(* The receive thread.  feed() takes the next message of the packet; its   *)
(* length is within bounds, anything else ends the packet.                 *)
Unpack(body) ==
  /\ writer.pc = "idle"
  /\ Len(sent) < MaxMsgs
  /\ writer' = [writer EXCEPT !.pc = "push", !.len = HeaderBytes + body]
  /\ UNCHANGED <<ring, parser, sent, parsed, skewed>>

(* Where push puts a message: at the tail, unless the header would not fit *)
(* before the end of the buffer.                                           *)
Start(len) ==
  IF Pos(tail_) + len <= Capacity \/ Room(tail_) >= HeaderBytes
  THEN tail_ ELSE NextLap(tail_)

(* Mutant of Fits: the gap is left out of the room a message needs.        *)
Fits_NoGap(len) == tail_ - head_ + len <= Capacity

(* Whether push accepts it: a message that reaches the end of the buffer   *)
(* is charged from the next lap on, even when it starts at the tail.       *)
Fits(len) ==
  IF Pos(tail_) + len <= Capacity
  THEN Capacity - (tail_ - head_) >= len
  ELSE NextLap(tail_) + len <= head_ + Capacity

(* push(): head is loaded and the room is computed; while it is too small  *)
(* feed() spins and tries again.                                           *)
PushCheck ==
  /\ writer.pc = "push"
  /\ Fits(writer.len)
  /\ writer' = [writer EXCEPT !.pc = "write", !.at = Start(writer.len)]
  /\ UNCHANGED <<ring, parser, sent, parsed, skewed>>

PushWrite ==
  /\ writer.pc = "write"
  /\ buf_' = [p \in 0 .. Capacity - 1 |->
                LET i == Pos(p - writer.at) + 1
                IN  IF i <= writer.len THEN <<Len(sent) + 1, i>> ELSE buf_[p]]
  /\ writer' = [writer EXCEPT !.pc = "publish"]
  /\ UNCHANGED <<head_, tail_, parser, sent, parsed, skewed>>

PushPublish ==
  /\ writer.pc = "publish"
  /\ tail_' = writer.at + writer.len
  /\ sent' = Append(sent, [at |-> writer.at, len |-> writer.len])
  /\ writer' = [writer EXCEPT !.pc = "idle"]
  /\ UNCHANGED <<buf_, head_, parser, parsed, skewed>>

Feed == (\E body \in 1 .. MaxBody : Unpack(body)) \/ PushCheck \/ PushWrite \/ PushPublish
-----------------------------------------------------------------------------
(* The parser thread.  read_acquire(): how many of the bytes asked for lie *)
(* contiguous at the head, going by the tail loaded now.                   *)
ReadAcquire(request) ==
  Lesser(Lesser(request, tail_ - head_), Room(head_))

ReadHead ==
  /\ parser.pc = "read_head"
  /\ parser' = [parser EXCEPT !.pc = "load_used", !.n = ReadAcquire(HeaderBytes)]
  /\ UNCHANGED <<ring, writer, sent, parsed, skewed>>

(* Mutant of AfterHead: a short read is never taken for a gap.             *)
AfterHead_NoGap(used) == IF parser.n = HeaderBytes THEN "parse" ELSE "read_head"

(* The three-way branch on the header read and on the bytes in use, the    *)
(* latter by a second load of the tail; without data the loop ends and     *)
(* parse_th calls parse_available again.                                   *)
AfterHead(used) ==
  IF parser.n = HeaderBytes THEN "parse"
  ELSE IF used >= HeaderBytes THEN "gap" ELSE "read_head"

LoadUsed ==
  /\ parser.pc = "load_used"
  /\ parser' = [parser EXCEPT !.pc = AfterHead(tail_ - head_), !.used = tail_ - head_]
  /\ UNCHANGED <<ring, writer, sent, parsed, skewed>>

(* Skip to the start of the buffer once the producer has got that far.     *)
SkipGap ==
  /\ parser.pc = "gap"
  /\ parser' = [parser EXCEPT !.pc = "read_head"]
  /\ \/ /\ NextLap(head_) <= tail_
        /\ head_' = NextLap(head_)
        /\ skewed' = (skewed \/ Room(head_) >= HeaderBytes)
     \/ /\ NextLap(head_) > tail_
        /\ UNCHANGED <<head_, skewed>>
  /\ UNCHANGED <<buf_, tail_, writer, sent, parsed>>

(* The bytes of length len at the head are message s from its first byte.  *)
Holds(s, len) == \A i \in 1 .. len : buf_[Pos(head_ + i - 1)] = <<s, i>>

(* The body length found in a header, any value when it is not a header.   *)
BodyLengths ==
  LET s == buf_[Pos(head_)][1]
  IN  IF s \in DOMAIN sent /\ Holds(s, HeaderBytes)
      THEN {sent[s].len - HeaderBytes}
      ELSE 0 .. MaxBody + 1

(* What the parser is handed: the message, or 0 when it is not one whole.  *)
Message(len) ==
  LET s == buf_[Pos(head_)][1]
  IN  IF s \in DOMAIN sent /\ sent[s].len = len /\ Holds(s, len) THEN s ELSE 0

(* A header with an impossible length is dropped; a message that is not    *)
(* complete is left for later; a complete one goes to ItchParser::feed.    *)
Parse(b) ==
  /\ parser.pc = "parse"
  /\ \/ /\ b \notin 1 .. MaxBody
        /\ parser' = [parser EXCEPT !.pc = "release", !.len = parser.n]
        /\ UNCHANGED parsed
     \/ /\ b \in 1 .. MaxBody
        /\ parser.used < HeaderBytes + b
        /\ parser' = [parser EXCEPT !.pc = "read_head"]
        /\ UNCHANGED parsed
     \/ /\ b \in 1 .. MaxBody
        /\ parser.used >= HeaderBytes + b
        /\ parser' = [parser EXCEPT !.pc = "release", !.len = HeaderBytes + b]
        /\ parsed' = Append(parsed, Message(HeaderBytes + b))
  /\ UNCHANGED <<ring, writer, sent, skewed>>

(* Mutant of ReadRelease: only the body is released after a message.       *)
ReadRelease_BodyOnly ==
  /\ parser.pc = "release"
  /\ head_' = head_ + parser.len - HeaderBytes
  /\ parser' = [parser EXCEPT !.pc = "read_head"]
  /\ UNCHANGED <<buf_, tail_, writer, sent, parsed, skewed>>

ReadRelease ==
  /\ parser.pc = "release"
  /\ head_' = head_ + parser.len
  /\ parser' = [parser EXCEPT !.pc = "read_head"]
  /\ UNCHANGED <<buf_, tail_, writer, sent, parsed, skewed>>

ParseAvailable == \/ ReadHead \/ LoadUsed \/ SkipGap
                  \/ \E b \in BodyLengths : Parse(b)
                  \/ ReadRelease

Next == Feed \/ ParseAvailable

Spec == Init /\ [][Next]_vars

(* Both threads run on cores of their own; the parser's wait for a wake-up *)
(* ends after at most 200 ms.                                              *)
FairSpec == Spec /\ WF_vars(Feed) /\ WF_vars(ParseAvailable)
-----------------------------------------------------------------------------
(* push() never writes over a message the parser has not released: every   *)
(* message at or after the head is still whole in the buffer, wrapped or   *)
(* not, also while the next one is being copied in.                        *)
UnreadIntact ==
  \A s \in DOMAIN sent : sent[s].at >= head_ =>
    \A i \in 1 .. sent[s].len : buf_[Pos(sent[s].at + i - 1)] = <<s, i>>

(* As long as the parser skips nothing but gaps, ItchParser is handed the  *)
(* messages that were fed, whole, each once and in order.                  *)
ParsedInOrderUnlessSkewed ==
  ~skewed => \A k \in DOMAIN parsed : parsed[k] = k

(* No message is stuck: every message the packet holds is pushed and       *)
(* parsed, although push charges a straddling message from the next lap on *)
(* (which would never fit if messages could be longer than half the ring). *)
AllParsedUnlessSkewed ==
  <>(skewed \/ Len(parsed) = MaxMsgs)
=============================================================================
