----------------------------- MODULE MCShutdown -----------------------------
(* Two workers, three packets and queues of one place, so that queues fill *)
(* and backlog is left in every stage when stop is set; one buffer for the *)
(* reads in flight and one for single reads.                               *)
EXTENDS Shutdown
=============================================================================
