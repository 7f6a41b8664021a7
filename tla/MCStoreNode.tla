----------------------------- MODULE MCStoreNode -----------------------------
(***************************************************************************)
(* Instances of StoreNode for TLC.                                         *)
(***************************************************************************)
EXTENDS StoreNode, TLC

CONSTANTS a, b      \* slids

Direct(n, op, num, arg) == [slid |-> n, op |-> op, num |-> num, via |-> <<>>, arg |-> arg]

\* Packets of each op and argument post_data tells apart.
Kinds ==
       {<<op, "none">> : op \in {"RC", "OF", "DS", "Other", "Control"}}
  \cup {<<"SS", s>> : s \in Statuses}
  \cup {<<"AS", k>> : k \in {"known", "unknown"}}
  \cup {<<"TR", k>> : k \in {"parsed", "malformed", "raises"}}

----------------------------------------------------------------------------
\* One node in the mesh of the heartbeat, that sends every kind of packet, with
\* the number of a restarted node and with the one at which numbers wrap.
MeshOne == [n \in Slids |-> 1]

OneNodeInbound == {Direct(a, k[1], num, k[2]) : k \in Kinds, num \in {1, MaxPktNum}}

----------------------------------------------------------------------------
\* Node a, in the mesh of the heartbeat, and the bridge b, in mesh 0.  Packets
\* of a arrive directly and through b; b signs on and off.
MeshOneZero == a :> 1 @@ b :> 0

ViaB(op, num, arg) == [Direct(a, op, num, arg) EXCEPT !.via = <<b>>]

RelayInbound ==
       {Direct(a, op, 1, "none") : op \in {"RC", "OF"}}
  \cup {ViaB(k[1], 2, k[2]) : k \in {<<"RC", "none">>, <<"DS", "none">>, <<"AS", "known">>}}
  \cup {Direct(b, op, 1, "none") : op \in {"RC", "OF"}}

----------------------------------------------------------------------------
\* One node in the mesh of the heartbeat whose packets may stop at any time.
TalkativeInbound ==
  {Direct(a, op, 1, "none") : op \in {"RC", "OF"}}
    \cup {Direct(a, "DS", 2, "none"), Direct(a, "AS", 3, "known")}

=============================================================================
