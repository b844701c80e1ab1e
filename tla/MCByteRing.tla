----------------------------- MODULE MCByteRing -----------------------------
(* A ring of eight bytes, headers of two and bodies of one or two: every   *)
(* place in the buffer is met as the start of a message, straddling        *)
(* bodies and gaps included.                                               *)
EXTENDS ByteRing
=============================================================================
