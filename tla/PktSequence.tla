----------------------------- MODULE PktSequence -----------------------------
(***************************************************************************)
(* The store's duplicate check against a node that numbers its packets,    *)
(* repeats those that are not acknowledged, and restarts, over a transport *)
(* that loses packets in both directions.                                  *)
(*                                                                         *)
(* The node is not in this repository (it is an Arduino; pynode.py is its  *)
(* Python double): it counts from 1, skips 0 at the wrap, opens a session  *)
(* with a sign-on, and keeps one packet unacknowledged at a time.  Every   *)
(* copy of a packet that reaches the store is one Deliver; a copy that     *)
(* does not is no step at all.                                             *)
(***************************************************************************)
EXTENDS PktNumbers, Sequences

CONSTANTS
  MaxItems,          \* bound: data packets a node sends
  MaxCopies,         \* bound: copies of a packet that arrive, MAX_RESEND_COUNT + 1
  MaxNodeRestarts,   \* bound: restarts of the node
  MaxStoreRestarts   \* bound: restarts of the store

ASSUME PktSequenceAssumption ==
  /\ MaxItems \in Nat /\ MaxCopies \in Nat /\ MaxNodeRestarts \in Nat /\ MaxStoreRestarts \in Nat
  /\ MaxPktNum > 2

VARIABLES
  counter,      \* the node's last number; 0: it has sent nothing in this session
  pending,      \* the packet the node waits to see acknowledged, or None
  last,         \* the store's last_packet_num
  missed,       \* its packets_missed
  stored,       \* how many records of each data packet the database has
  \* What really happened, for comparison:
  sent,         \* the number of each data packet; a packet is its index here
  acked,        \* the data packets the node has seen acknowledged
  unheard,      \* the node's packets since one reached the store
  skipped,      \* how many never did, between the first and the last that did
  exposed,      \* data packets that were pending when the store restarted
  wrapped,      \* the node's numbers have wrapped
  unsigned,     \* the node has given up on a sign-on
  restarts      \* restarts so far of the node and of the store

node  == <<counter, pending, sent, acked, unsigned, wrapped>>
store == <<last, missed, stored>>
ghost == <<unheard, skipped, exposed, restarts>>
vars  == <<node, store, ghost>>

None == [op |-> "None", num |-> 0, item |-> 0, copies |-> 0]

NextNum(num) == IF num = MaxPktNum THEN 1 ELSE num + 1

\* A packet is sent under the next number.  Bound: the numbers do not come full
\* circle, back to the last one heard, without any packet being heard.
TakeNumber ==
  /\ pending = None
  /\ unheard < MaxPktNum - 1
  /\ counter' = NextNum(counter)
  /\ wrapped' = (wrapped \/ counter = MaxPktNum)
  /\ unheard' = unheard + 1

----------------------------------------------------------------------------
(* The node.                                                               *)

SendSignOn ==
  /\ counter = 0
  /\ TakeNumber
  /\ pending' = [op |-> "RC", num |-> counter', item |-> 0, copies |-> 0]
  /\ UNCHANGED <<sent, acked, unsigned, store, skipped, exposed, restarts>>

SendData ==
  /\ counter # 0
  /\ Len(sent) < MaxItems
  /\ TakeNumber
  /\ sent' = Append(sent, counter')
  /\ pending' = [op |-> "DS", num |-> counter', item |-> Len(sent'), copies |-> 0]
  /\ UNCHANGED <<acked, unsigned, store, skipped, exposed, restarts>>

\* The resend limit: the node goes on to its next packet.
GiveUp ==
  /\ pending # None
  /\ pending' = None
  /\ unsigned' = (unsigned \/ pending.op = "RC")
  /\ UNCHANGED <<counter, sent, acked, wrapped, store, ghost>>

NodeRestart ==
  /\ restarts.node < MaxNodeRestarts
  /\ restarts' = [restarts EXCEPT !.node = @ + 1]
  /\ counter' = 0
  /\ pending' = None
  /\ unheard' = 0
  /\ UNCHANGED <<sent, acked, unsigned, wrapped, store, skipped, exposed>>

----------------------------------------------------------------------------
(* The store.                                                              *)

\* Mutation: the verdict is not used.
StoreAnyway(p) ==
  /\ last' = LastAfter(last, p.num)
  /\ missed' = missed + Missed(last, p.num)
  /\ stored' = IF p.op = "DS" THEN [stored EXCEPT ![p.item] = @ + 1] ELSE stored

\* Mutation: a lower number than the last is taken for an old packet.
DropOld(p) ==
  /\ last' = LastAfter(last, p.num)
  /\ missed' = missed + Missed(last, p.num)
  /\ stored' = IF p.op = "DS" /\ ~(last # 0 /\ p.num <= last)
               THEN [stored EXCEPT ![p.item] = @ + 1] ELSE stored

\* Mutation: the packet that shows the gap is counted with it.
CountOneMore(p) ==
  /\ last' = LastAfter(last, p.num)
  /\ missed' = missed + (IF Missed(last, p.num) > 0 THEN p.num - last ELSE 0)
  /\ stored' = IF p.op = "DS" /\ ~IsDuplicate(last, p.num)
               THEN [stored EXCEPT ![p.item] = @ + 1] ELSE stored

(***************************************************************************)
(* post_data, as far as it concerns numbers: a data packet that is not a   *)
(* duplicate is stored.                                                    *)
(***************************************************************************)
PostData(p) ==
  /\ last' = LastAfter(last, p.num)
  /\ missed' = missed + Missed(last, p.num)
  /\ stored' = IF p.op = "DS" /\ ~IsDuplicate(last, p.num)
               THEN [stored EXCEPT ![p.item] = @ + 1] ELSE stored

(***************************************************************************)
(* A copy of the pending packet arrives, and is acknowledged, duplicate or *)
(* not; the acknowledgement arrives or is lost.                            *)
(***************************************************************************)
Deliver(ack_arrives) ==
  /\ pending # None /\ pending.copies < MaxCopies
  /\ PostData(pending)
  /\ skipped' = skipped + (IF last # 0 /\ unheard > 0 THEN unheard - 1 ELSE 0)
  /\ unheard' = 0
  /\ pending' = IF ack_arrives THEN None ELSE [pending EXCEPT !.copies = @ + 1]
  /\ acked' = IF ack_arrives /\ pending.op = "DS" THEN acked \cup {pending.item}
              ELSE acked
  /\ UNCHANGED <<counter, sent, unsigned, wrapped, exposed, restarts>>

\* The runtime state of the node object is not saved: it starts at 0.
StoreRestart ==
  /\ restarts.store < MaxStoreRestarts
  /\ restarts' = [restarts EXCEPT !.store = @ + 1]
  /\ last' = 0
  /\ missed' = 0
  /\ exposed' = exposed \cup ({pending.item} \ {0})
  /\ UNCHANGED <<node, stored, unheard, skipped>>

Init ==
  /\ counter = 0 /\ pending = None
  /\ last = 0 /\ missed = 0 /\ stored = [item \in 1 .. MaxItems |-> 0]
  /\ sent = <<>> /\ acked = {}
  /\ unheard = 0 /\ skipped = 0 /\ exposed = {}
  /\ wrapped = FALSE /\ unsigned = FALSE
  /\ restarts = [node |-> 0, store |-> 0]

Next ==
  \/ SendSignOn \/ SendData \/ GiveUp \/ NodeRestart
  \/ \E ack_arrives \in BOOLEAN : Deliver(ack_arrives)
  \/ StoreRestart

Spec == Init /\ [][Next]_vars

----------------------------------------------------------------------------
(* What is checked.                                                        *)

TypeOK ==
  /\ counter \in LastSeen /\ last \in LastSeen /\ missed \in Int
  /\ pending \in [op : {"RC", "DS"}, num : PktNum, item : 0 .. Len(sent),
                  copies : 0 .. MaxCopies] \cup {None}
  /\ sent \in Seq(PktNum) /\ stored \in [1 .. MaxItems -> Nat]
  /\ acked \subseteq DOMAIN sent /\ exposed \subseteq DOMAIN sent
  /\ unheard \in Nat /\ skipped \in Nat
  /\ wrapped \in BOOLEAN /\ unsigned \in BOOLEAN
  /\ restarts \in [node : 0 .. MaxNodeRestarts, store : 0 .. MaxStoreRestarts]

(***************************************************************************)
(* Data the node has seen acknowledged is in the database: no new packet   *)
(* is taken for a repeated one, over restarts of the node and the store    *)
(* and past the wrap.  Only a node that goes on without its sign-on having *)
(* been heard is not protected: its numbers may happen to follow those of  *)
(* its last session (check_duplicate_pkt_num, set_pkt_number).             *)
(***************************************************************************)
AckedIsInDatabase ==
  unsigned \/ \A item \in acked : stored[item] > 0

(***************************************************************************)
(* Data is in the database once, however often it was repeated, with two   *)
(* exceptions the check leaves open: the packet at the top of the number   *)
(* space, after which last_packet_num is 0, and packets that were being    *)
(* repeated while the store restarted.                                     *)
(***************************************************************************)
StoredOnce ==
  \A item \in DOMAIN sent :
    stored[item] > 1 => sent[item] = MaxPktNum \/ item \in exposed

(***************************************************************************)
(* packets_missed counts the packets that never arrived between the first  *)
(* and the last that did, as long as neither side has restarted and the    *)
(* numbers have not wrapped.                                               *)
(***************************************************************************)
MissedIsExact ==
  wrapped \/ restarts # [node |-> 0, store |-> 0] \/ missed = skipped

----------------------------------------------------------------------------
\* "packets_missed: number of packets that the node should have received but
\* never saw" (README.md): it is a count.
MissedIsACount == missed >= 0

=============================================================================
