---------------------------- MODULE MCLifecycle ----------------------------
(***************************************************************************)
(* The instance of Lifecycle for TLC: two packets, and a flush at every    *)
(* third heartbeat.                                                        *)
(***************************************************************************)
EXTENDS Lifecycle

CONSTANTS p1, p2

MCPackets == {p1, p2}

=============================================================================
