---------------------------- MODULE MCDispatcher ----------------------------
(* Two workers, a few locates and the smallest rings, so that rings and     *)
(* buckets fill up and drain several times within a handful of events.     *)
EXTENDS Dispatcher

CONSTANTS l1, l2
=============================================================================
