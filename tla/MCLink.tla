------------------------------- MODULE MCLink -------------------------------
(***************************************************************************)
(* The instance of Link for TLC: one node of the heartbeat's mesh.         *)
(***************************************************************************)
EXTENDS Link

MeshOne == [n \in Slids |-> 1]

=============================================================================
