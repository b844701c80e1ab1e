------------------------- MODULE MCExecutionEngine -------------------------
(* One symbol and two orders of one or two shares: buys, sells, partial    *)
(* fills, cancels that cross fills, and both drawdown thresholds.          *)
EXTENDS ExecutionEngine

CONSTANT s1
=============================================================================
