---------------------------- MODULE MCBookQuery ----------------------------
(* Two callers: one may wait for query_mtx_ while the other's answer is    *)
(* late, lost, or for the query before.  'Q' and 'O' of 3 and 4 bytes in a *)
(* ring of 8 leave a gap that is shorter than a header at the third send;  *)
(* a failed send that leaves its bytes behind is overtaken by the next,    *)
(* and with enough of them the fourth send finds no room and spins.        *)
EXTENDS BookQuery
=============================================================================
