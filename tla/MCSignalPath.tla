---------------------------- MODULE MCSignalPath ----------------------------
(* Two symbols and a window of two entries; the strategies weigh the same, *)
(* strengths of a half, three quarters and one, and a limit of one full    *)
(* order.                                                                  *)
EXTENDS SignalPath, TLC

CONSTANTS s1, s2

MCTops    == {<<0, 0>>, <<1, 1>>, <<3, 1>>, <<1, 3>>}
MCWeights == <<1, 1>>
Symmetry  == Permutations(Symbols)
=============================================================================
