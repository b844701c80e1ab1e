----------------------------- MODULE MCOrderMap -----------------------------
(* Two workers; three of their four keys share a bucket, so that each walks *)
(* past the other's nodes, and freed nodes are reused in the other bucket.  *)
EXTENDS OrderMap, TLC

CONSTANTS w1, w2, a1, a2, c1, c2

MCOwner == a1 :> w1 @@ a2 :> w1 @@ c1 :> w2 @@ c2 :> w2
MCHash  == a1 :> 0 @@ a2 :> 1 @@ c1 :> 0 @@ c2 :> 0
=============================================================================
