---------------------------- MODULE MCEventRing ----------------------------
(* A four-slot ring that is filled and wrapped around more than twice.      *)
EXTENDS EventRing

CONSTANTS e1, e2, none
=============================================================================
