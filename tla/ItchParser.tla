----------------------------- MODULE ItchParser -----------------------------
(***************************************************************************)
(* ITCH 5.0 messages and the events they become                            *)
(* (market/parser/itch_parser.cpp, core/market_event.h).  The parser keeps *)
(* no state but a message count: it is the function Feed from a message to *)
(* the events it emits, at most one.  A message holds the fields its       *)
(* layout has; the byte offsets, the time stamp, the stock locate (one     *)
(* symbol here) and the sequence number are left out.                      *)
(***************************************************************************)
EXTENDS Integers

CONSTANTS Refs,        \* order_ref values of the feed
          WirePrices,  \* prices on the wire, in 1/10000 dollars
          MaxShares    \* shares of one message: 1 .. MaxShares

ASSUME ItchAssumption ==
    /\ WirePrices \subseteq Nat /\ \A w \in WirePrices : w >= 100
    /\ MaxShares \in Nat \ {0}

Sides == {"BUY", "SELL"}
Shares == 1 .. MaxShares
NoRef == 0

(* Shortest body each message type is parsed at.                           *)
Lengths == [A |-> 36, F |-> 36, D |-> 19, X |-> 23, U |-> 35, P |-> 44,
            E |-> 31, C |-> 35]

(* Bodies of the right length and bodies a byte short; R stands for the    *)
(* types the parser does not handle, the empty body for the ones below the *)
(* three bytes feed asks for.                                              *)
Sizes(t) == {Lengths[t] - 1, Lengths[t]}
Messages ==
    [type : {"A", "F"}, len : Sizes("A"), ref : Refs, side : {"B", "S"},
     shares : Shares, price : WirePrices]
    \cup [type : {"D"}, len : Sizes("D"), ref : Refs]
    \cup [type : {"X"}, len : Sizes("X"), ref : Refs, shares : Shares]
    \cup [type : {"U"}, len : Sizes("U"), ref : Refs, new : Refs,
          shares : Shares, price : WirePrices]
    \cup [type : {"P"}, len : Sizes("P"), ref : Refs, side : {"B", "S"},
          shares : Shares, price : WirePrices]
    \cup [type : {"E"}, len : Sizes("E"), ref : Refs, shares : Shares]
    \cup [type : {"C"}, len : Sizes("C"), ref : Refs, shares : Shares,
          price : WirePrices]
    \cup [type : {"R", "A"}, len : {2}]
    \cup [type : {"R"}, len : {39}]

(* MarketEvent ev{}: all zero, and 0 is BUY.  The two members of the union *)
(* lay side, price, quantity and order_ref at the same places.             *)
Zero(t) == [type |-> t, side |-> "BUY", price |-> 0, shares |-> 0,
            ref |-> NoRef, new |-> NoRef]

SideByte(m) == IF m.side = "S" THEN "SELL" ELSE "BUY"

(* itch_to_cents: whole cents, the rest is cut off.                        *)
ItchToCents(w) == w \div 100

ParseA(m) ==
    IF m.len < 36 THEN {}
    ELSE {[Zero("ADD") EXCEPT !.side = SideByte(m), !.shares = m.shares,
              !.price = ItchToCents(m.price), !.ref = m.ref]}

ParseD(m) ==
    IF m.len < 19 THEN {} ELSE {[Zero("DELETE") EXCEPT !.ref = m.ref]}

ParseX(m) ==
    IF m.len < 23 THEN {}
    ELSE {[Zero("CANCEL") EXCEPT !.ref = m.ref, !.shares = m.shares]}

(* U has no side byte: the event keeps the zero, BUY.                      *)
ParseU(m) ==
    IF m.len < 35 THEN {}
    ELSE {[Zero("REPLACE") EXCEPT !.ref = m.ref, !.new = m.new,
              !.price = ItchToCents(m.price), !.shares = m.shares]}

ParseP(m) ==
    IF m.len < 44 THEN {}
    ELSE {[Zero("TRADE") EXCEPT !.price = ItchToCents(m.price),
              !.shares = m.shares, !.side = SideByte(m), !.ref = m.ref]}

(* E has no price: -1 asks the consumer to look it up.                     *)
ParseE(m) ==
    IF m.len < 31 THEN {}
    ELSE {[Zero("EXECUTE") EXCEPT !.price = -1, !.shares = m.shares,
              !.side = "NONE", !.ref = m.ref]}

ParseC(m) ==
    IF m.len < 35 THEN {}
    ELSE {[Zero("TRADE") EXCEPT !.price = ItchToCents(m.price),
              !.shares = m.shares, !.side = "NONE", !.ref = m.ref]}

(* The events one message emits.                                           *)
Feed(m) ==
    IF m.len < 3 THEN {}
    ELSE CASE m.type \in {"A", "F"} -> ParseA(m)
           [] m.type = "D"          -> ParseD(m)
           [] m.type = "X"          -> ParseX(m)
           [] m.type = "U"          -> ParseU(m)
           [] m.type = "P"          -> ParseP(m)
           [] m.type = "E"          -> ParseE(m)
           [] m.type = "C"          -> ParseC(m)
           [] OTHER                 -> {}

(* The prices the events carry.                                            *)
Prices == {ItchToCents(w) : w \in WirePrices}
=============================================================================
