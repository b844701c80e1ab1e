------------------------------ MODULE EventRing ------------------------------
(***************************************************************************)
(* core/queue/spsc_event_ring.h: the fixed-slot ring between one producer  *)
(* and one consumer (parser -> worker, parser -> retry thread).  The two   *)
(* sides share only the slots and the cursors head_ and tail_, which grow  *)
(* without bound and are reduced to a slot index by the mask.  A slot is a *)
(* multi-word MarketEvent, so its copy is a step of its own and a concurrent  *)
(* access to the same slot would tear it.                                  *)
(***************************************************************************)
EXTENDS Integers, Sequences

CONSTANTS
  Values,     \* the events
  NoValue,    \* no event
  Capacity,   \* number of slots
  MaxPush     \* bound: events pushed

ASSUME RingAssumption == /\ Capacity \in Nat \ {0}
                         /\ MaxPush \in Nat
                         /\ NoValue \notin Values

VARIABLES
  slots_, head_, tail_,   \* the ring
  ppc, pev,               \* producer: place inside push, event being pushed
  cpc, cev,               \* consumer: place inside pop, event copied out
  peeked,                 \* consumer: the event peek() showed, until it is popped
  taken                   \* consumer: the event the last pop returned

ring     == <<slots_, head_, tail_>>
producer == <<ppc, pev>>
consumer == <<cpc, cev, peeked, taken>>
eventVars     == <<slots_, head_, tail_, ppc, pev, cpc, cev, peeked, taken>>

Index(n) == n % Capacity     \* n & mask_

RingInit ==
  /\ slots_ = [i \in 0 .. Capacity - 1 |-> NoValue]
  /\ head_ = 0 /\ tail_ = 0
  /\ ppc = "idle" /\ pev = NoValue
  /\ cpc = "idle" /\ cev = NoValue /\ peeked = NoValue /\ taken = NoValue
-----------------------------------------------------------------------------
(* Mutant of HasRoom: one slot too many.                                   *)
HasRoom_OffByOne == tail_ - head_ <= Capacity

HasRoom == tail_ - head_ < Capacity

(* push(): refused when full, otherwise the slot is written and published. *)
PushCheck(v) ==
  /\ ppc = "idle"
  /\ HasRoom
  /\ tail_ < MaxPush
  /\ pev' = v
  /\ ppc' = "write"
  /\ UNCHANGED <<ring, consumer>>

(* Mutant of PushWrite: the event goes one slot beyond the tail.           *)
PushWrite_Beyond ==
  /\ ppc = "write"
  /\ slots_' = [slots_ EXCEPT ![Index(tail_ + 1)] = pev]
  /\ ppc' = "publish"
  /\ UNCHANGED <<head_, tail_, pev, consumer>>

PushWrite ==
  /\ ppc = "write"
  /\ slots_' = [slots_ EXCEPT ![Index(tail_)] = pev]
  /\ ppc' = "publish"
  /\ UNCHANGED <<head_, tail_, pev, consumer>>

PushPublish ==
  /\ ppc = "publish"
  /\ tail_' = tail_ + 1
  /\ ppc' = "idle"
  /\ UNCHANGED <<slots_, head_, pev, consumer>>

(* pop(): refused when empty, otherwise the slot is copied and released.   *)
PopCheck ==
  /\ cpc = "idle"
  /\ head_ # tail_
  /\ cpc' = "read"
  /\ UNCHANGED <<ring, producer, cev, peeked, taken>>

PopRead ==
  /\ cpc = "read"
  /\ cev' = slots_[Index(head_)]
  /\ cpc' = "advance"
  /\ UNCHANGED <<ring, producer, peeked, taken>>

(* Mutant of PopAdvance: the head is released one slot too far.            *)
PopAdvance_Twice ==
  /\ cpc = "advance"
  /\ head_' = head_ + 2
  /\ taken' = cev
  /\ peeked' = NoValue
  /\ cpc' = "idle"
  /\ UNCHANGED <<slots_, tail_, producer, cev>>

PopAdvance ==
  /\ cpc = "advance"
  /\ head_' = head_ + 1
  /\ taken' = cev
  /\ peeked' = NoValue
  /\ cpc' = "idle"
  /\ UNCHANGED <<slots_, tail_, producer, cev>>

(* peek(): the head slot is copied and not released.                       *)
PeekCheck ==
  /\ cpc = "idle"
  /\ head_ # tail_
  /\ cpc' = "peek"
  /\ UNCHANGED <<ring, producer, cev, peeked, taken>>

(* Mutant of PeekRead: the newest event is shown instead of the oldest.    *)
PeekRead_Newest ==
  /\ cpc = "peek"
  /\ peeked' = slots_[Index(tail_ - 1)]
  /\ cpc' = "idle"
  /\ UNCHANGED <<ring, producer, cev, taken>>

PeekRead ==
  /\ cpc = "peek"
  /\ peeked' = slots_[Index(head_)]
  /\ cpc' = "idle"
  /\ UNCHANGED <<ring, producer, cev, taken>>

(* push() on a full ring and pop()/peek() on an empty one return false.    *)
PushRefused == ppc = "idle" /\ ~HasRoom /\ UNCHANGED eventVars
PopRefused  == cpc = "idle" /\ head_ = tail_ /\ UNCHANGED eventVars

RingNext == \/ \E v \in Values : PushCheck(v)
        \/ PushRefused \/ PopRefused
        \/ PushWrite \/ PushPublish
        \/ PopCheck \/ PopRead \/ PopAdvance
        \/ PeekCheck \/ PeekRead

RingSpec == RingInit /\ [][RingNext]_eventVars
-----------------------------------------------------------------------------
(* Types; the cursors never cross and never drift more than Capacity apart.*)
RingTypeOK ==
  /\ slots_ \in [0 .. Capacity - 1 -> Values \cup {NoValue}]
  /\ head_ \in Nat /\ tail_ \in Nat /\ head_ <= tail_ /\ tail_ - head_ <= Capacity
  /\ ppc \in {"idle", "write", "publish"}
  /\ pev \in Values \cup {NoValue}
  /\ cpc \in {"idle", "read", "advance", "peek"}
  /\ cev \in Values \cup {NoValue}
  /\ peeked \in Values \cup {NoValue}
  /\ taken \in Values \cup {NoValue}

(* The producer never copies an event into the slot the consumer is        *)
(* copying out: no torn MarketEvent, with no lock between the two.         *)
NoTornSlot ==
  ~ (ppc = "write" /\ cpc \in {"read", "peek"} /\ Index(head_) = Index(tail_))

(* peek, then push to the downstream ring, then pop (main.cpp, retry       *)
(* thread): what pop takes away is what peek showed.                       *)
PopTakesPeeked == cpc = "advance" /\ peeked # NoValue => cev = peeked

(* The ring implements the bounded FIFO: publishing the tail is its push,  *)
(* releasing the head its pop.                                             *)
Contents == [i \in 1 .. tail_ - head_ |-> slots_[Index(head_ + i - 1)]]

Fifo == INSTANCE BoundedFifo WITH queue <- Contents

ImplementsFifo == Fifo!Spec

(* The inductive invariant: what each side has established on its way.     *)
RingInv ==
  /\ RingTypeOK
  /\ ppc # "idle" => tail_ - head_ < Capacity /\ pev \in Values
  /\ ppc = "publish" => slots_[Index(tail_)] = pev
  /\ cpc # "idle" => head_ < tail_
  /\ cpc = "advance" => cev = slots_[Index(head_)]
  /\ peeked # NoValue => head_ < tail_ /\ peeked = slots_[Index(head_)]
=============================================================================
