----------------------------- MODULE MCOrderPool -----------------------------
(* Two workers on a three-slot pool; enough CASes for the ABA pattern (take *)
(* two, give the first back) to happen inside another thread's allocate().  *)
EXTENDS OrderPool

CONSTANTS w1, w2

MCThreads == {w1, w2}
=============================================================================
