----------------------------- MODULE PktNumbers -----------------------------
(***************************************************************************)
(* The 16 bit packet numbers of the SteamLink protocol and the duplicate   *)
(* check the store makes on the number of every data packet it receives    *)
(* (Node.check_duplicate_pkt_num).  The check is a pure function of the    *)
(* number it saw last and the number it sees now; 0 stands for "no packet  *)
(* seen yet" and no node sends it.                                         *)
(***************************************************************************)
EXTENDS Integers

CONSTANT MaxPktNum   \* the largest packet number: 0xFFFF in the code

ASSUME MaxPktNumAssumption == MaxPktNum \in Nat \ {0}

PktNum   == 1 .. MaxPktNum
LastSeen == 0 .. MaxPktNum

(***************************************************************************)
(* The packet repeats the last one seen.                                   *)
(***************************************************************************)
IsDuplicate(last, num) == last # 0 /\ num = last

\* Mutation: the number expected next is kept instead.
ExpectedNext(last, num) == num + 1

(***************************************************************************)
(* last_packet_num after the check, whatever its verdict: at the top of    *)
(* the number space it is set back to "none seen", because the remote node *)
(* skips 0; but not if nothing was seen before, where the check returns    *)
(* first.                                                                  *)
(***************************************************************************)
LastAfter(last, num) == IF last # 0 /\ num = MaxPktNum THEN 0 ELSE num

(***************************************************************************)
(* What the check adds to packets_missed.  Number 1 is taken for a restart *)
(* of the remote node.  The difference is negative when the number is      *)
(* lower than the last one.                                                *)
(***************************************************************************)
Missed(last, num) ==
  IF last = 0 \/ num \in {last, last + 1, 1} THEN 0 ELSE num - (last + 1)

=============================================================================
