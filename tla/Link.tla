-------------------------------- MODULE Link --------------------------------
(***************************************************************************)
(* A Python node and the store, joined by the broker: PyNode on one side,  *)
(* StoreNode on the other, and between them the node's data topic and its  *)
(* control topic.  A topic keeps the order of its messages; messages are   *)
(* sent with quality of service 0, so one may be lost, none is repeated.   *)
(*                                                                         *)
(* No packet says which packet it answers.  An AS is one byte of code, and *)
(* the store takes any AS for the answer to what it waits for; the node    *)
(* takes any AN for the answer to the data it sent last.  The properties   *)
(* below say when these two guesses are right.                             *)
(*                                                                         *)
(* The node is in mesh 1, which the heartbeat checks; a configuration the  *)
(* console sends to such a node raises before it is published, and a node  *)
(* that does not sign on is sent none, so no SC is ever on the way.        *)
(*                                                                         *)
(* The node may restart; so may the store (Restart of StoreNode).  Packets *)
(* carry, for the properties only, the session of the sender.              *)
(***************************************************************************)
EXTENDS StoreNode, Lists

CONSTANTS
  a,             \* the node: its SteamLink id, the one element of Slids
  MaxInTransit,  \* messages on both topics at which nobody starts a new exchange
  MaxLost,       \* messages the broker may lose
  MaxRestarts    \* restarts of the node and of the store, together

Py == INSTANCE PyNode

\* The packets of a PyNode, as they leave deconstruct().
ArgOf(op) == CASE op = "SS" -> "OK" [] op = "AS" -> "known" [] OTHER -> "none"

AsPacket(op, num) ==
  [slid |-> a, op |-> op, num |-> num, via |-> <<>>, arg |-> ArgOf(op)]

NodePackets == {AsPacket(op, num) : op \in Py!PyOps, num \in PktNum}

ASSUME LinkAssumption ==
  /\ Slids = {a} /\ Commanded = {a}
  /\ Inbound = NodePackets
  /\ {MaxInTransit, MaxLost, MaxRestarts} \subseteq Nat

VARIABLES
  py,         \* the PyNode object
  to_store,   \* the node's data topic: packets on the way to the store
  to_node,    \* its control topic: packets on the way to the node
  lost,       \* how many packets were lost
  node_session, store_session,
  \* What happened in the present sessions, for the properties.
  sent,       \* the packet the node waits with was published
  stored,     \* numbers of the node's data packets in the database
  first,      \* the number the store saw first from the node
  taken,      \* numbers of the store's data packets in the receive queue
  hasty,      \* the store repeated or dropped a packet while it, or its
              \* answer, was on the way
  crossed     \* the node restarted while data of it, or an AN, was on the way

broker == <<to_store, to_node, lost>>
sessions == <<node_session, store_session>>
ghosts == <<sent, stored, first, taken, hasty, crossed>>
linkvars == <<node, known, running, py, broker, sessions, ghosts>>

Ids == (1 .. MaxRestarts + 1) \X PktNum
MayRestart == node_session + store_session < MaxRestarts + 2

Upward   == [op : Py!PyOps, id : Ids]
Downward == [op : StoreOps, id : Ids]

----------------------------------------------------------------------------
(* The topics.                                                             *)

\* What the node publishes in a step that makes of its object the record d.
PySent(d) == [i \in DOMAIN d.out |->
                [op |-> d.out[i].op, id |-> <<node_session, d.out[i].num>>]]

StoreSent ==
  LET out == node'[a].out
      ps  == Filter(out, {e \in Elements(out) : e.kind = "publish"})
  IN  [i \in DOMAIN ps |-> [op |-> ps[i].op, id |-> <<store_session, ps[i].num>>]]

OnTopic(topic, ops) == \E i \in DOMAIN topic : topic[i].op \in ops

\* A packet that needs an AS, or an AS, is on the way.
ExchangeOpen == OnTopic(to_node, {"DN", "SC"}) \/ OnTopic(to_store, {"AS"})

HasRoom == Len(to_store) + Len(to_node) < MaxInTransit

----------------------------------------------------------------------------
(* Steps of the node.                                                      *)

\* The node's step makes of its object the record d.
NodeStep(d) ==
  /\ py' = Py!Idle(d)
  /\ to_store' = to_store \o PySent(d)
  /\ UNCHANGED <<node, known, running, lost, sessions, stored, first, hasty, crossed>>

NodeStart ==
  /\ ~py.subscribed
  /\ NodeStep(Py!start(py))
  /\ UNCHANGED <<to_node, sent, taken>>

\* send(), called by the node's program.
NodeSendsData(fits) ==
  /\ py.subscribed /\ py.pkt_num < MaxPktNum /\ HasRoom
  /\ LET d == Py!send_data_to_store(py, fits)
     IN  /\ NodeStep(d)
         /\ sent' = IF d.raised THEN sent ELSE d.out # <<>>
  /\ UNCHANGED <<to_node, taken>>

NodeSetsStatus ==
  /\ py.subscribed /\ py.pkt_num < MaxPktNum /\ HasRoom
  /\ NodeStep(Py!set_status(py))
  /\ UNCHANGED <<to_node, sent, taken>>

\* A packet reaches the node, or nobody if it has not subscribed.
NodeReceives ==
  /\ to_node # <<>>
  /\ LET p == Head(to_node)
         d == IF py.subscribed THEN Py!on_control_msg(py, p.op, p.id[2]) ELSE py
     IN  /\ NodeStep(d)
         /\ taken' = IF p.id[1] = store_session THEN taken \cup d.taken ELSE taken
  /\ to_node' = Tail(to_node)
  /\ UNCHANGED sent

\* The program ends at any time and is started again; a new object numbers its
\* packets from 1, and nothing tells the store.
NodeRestart ==
  /\ MayRestart
  /\ py' = Py!NewPyNode
  /\ node_session' = node_session + 1
  /\ sent' = FALSE /\ stored' = {} /\ first' = 0
  /\ crossed' = (OnTopic(to_store, {"DS"}) \/ OnTopic(to_node, {"AN"}))
  /\ UNCHANGED <<node, known, running, broker, store_session, taken, hasty>>

----------------------------------------------------------------------------
(* Steps of the store.                                                     *)

Inserts(op) ==
  {node'[a].out[i].num : i \in {j \in DOMAIN node'[a].out :
     node'[a].out[j].kind = "insert" /\ node'[a].out[j].op = op}}

Abandons == is_waiting(node[a]) /\ ~is_waiting(node'[a])
Resends == \E i \in DOMAIN node'[a].out : node'[a].out[i].resend

StoreSends ==
  /\ to_node' = to_node \o StoreSent
  /\ UNCHANGED <<py, lost, node_session, sent, taken, crossed>>

\* What the store does of its own accord may be too early.
StoreActs ==
  /\ StoreSends
  /\ hasty' = (hasty \/ (ExchangeOpen /\ (Resends \/ Abandons)))
  /\ UNCHANGED <<to_store, store_session, stored, first>>

StoreReceives ==
  /\ to_store # <<>>
  /\ LET p == Head(to_store)
     IN  /\ OnDataMsg(AsPacket(p.op, p.id[2]))
         /\ IF p.id[1] = node_session /\ a \in known
            THEN /\ stored' = stored \cup Inserts("DS")
                 /\ first' = IF first = 0 THEN p.id[2] ELSE first
            ELSE UNCHANGED <<stored, first>>
  /\ to_store' = Tail(to_store)
  /\ StoreSends
  /\ UNCHANGED <<store_session, hasty>>

StoreSendsData(fits) ==
  /\ HasRoom /\ node[a].pkt_num < MaxPktNum
  /\ SendData(a, fits)
  /\ StoreActs

StoreBeats ==
  /\ HasRoom
  /\ Heartbeat
  /\ StoreActs

\* Time passes.
StoreTicks ==
  /\ Tick
  /\ StoreActs

StoreRestarts ==
  /\ MayRestart
  /\ Restart
  /\ store_session' = store_session + 1
  /\ hasty' = (hasty \/ ExchangeOpen)
  /\ taken' = {}
  /\ UNCHANGED <<py, broker, node_session, sent, stored, first, crossed>>

----------------------------------------------------------------------------
Without(topic, i) == SubSeq(topic, 1, i - 1) \o SubSeq(topic, i + 1, Len(topic))

\* A connection breaks, and a message with it.
Lose ==
  /\ lost < MaxLost
  /\ lost' = lost + 1
  /\ \/ /\ \E i \in DOMAIN to_store : to_store' = Without(to_store, i)
        /\ UNCHANGED to_node
     \/ /\ \E i \in DOMAIN to_node : to_node' = Without(to_node, i)
        /\ UNCHANGED to_store
  /\ UNCHANGED <<node, known, running, py, sessions, ghosts>>

LinkInit ==
  /\ Init
  /\ py = Py!NewPyNode
  /\ to_store = <<>> /\ to_node = <<>> /\ lost = 0
  /\ node_session = 1 /\ store_session = 1
  /\ sent = FALSE /\ stored = {} /\ first = 0 /\ taken = {}
  /\ hasty = FALSE /\ crossed = FALSE

LinkNext ==
  \/ NodeStart
  \/ \E fits \in BOOLEAN : NodeSendsData(fits)
  \/ NodeSetsStatus
  \/ NodeReceives
  \/ NodeRestart
  \/ StoreReceives
  \/ \E fits \in BOOLEAN : StoreSendsData(fits)
  \/ StoreBeats
  \/ StoreTicks
  \/ StoreRestarts
  \/ Lose

LinkSpec == LinkInit /\ [][LinkNext]_linkvars

----------------------------------------------------------------------------
(* What is checked.                                                        *)

\* Both objects and the two topics are well formed.
LinkTypeOK ==
  /\ TypeOK
  /\ py \in Py!PyRec
  /\ to_store \in Seq(Upward) /\ to_node \in Seq(Downward)
  /\ sent \in BOOLEAN /\ first \in LastSeen
  /\ stored \cup taken \subseteq PktNum

(***************************************************************************)
(* Data the store recorded as delivered is in the node's receive queue,    *)
(* although an AS does not name what it answers: unless the store lost     *)
(* patience, and repeated or dropped a packet that was still on its way or *)
(* whose answer was.  SL_ACK_WAIT is 20 seconds for this reason            *)
(* (Node.post_data, AS; Node.periodic_check_for_AS).                       *)
(***************************************************************************)
RecordedWasTaken ==
  [][store_session' = store_session => hasty \/ Inserts("DN") \subseteq taken]_linkvars

(***************************************************************************)
(* Data that the node published and saw confirmed is in the database,      *)
(* although an AN does not name what it answers.  There are two            *)
(* exceptions, both after a restart of the node: an AN meant for the       *)
(* session before; and the first packet heard of a session, which the      *)
(* store takes for a repeated one if it has the number of the last         *)
(* (PyNode.on_control_msg, Node.check_duplicate_pkt_num).                  *)
(***************************************************************************)
Confirmed == py.wait.waiting /\ ~py'.wait.waiting /\ node_session' = node_session

ConfirmedIsStored ==
  [][Confirmed /\ sent =>
       \/ py.wait.pkt.num \in stored
       \/ node_session > 1 /\ (crossed \/ py.wait.pkt.num = first)]_linkvars

(***************************************************************************)
(* A node that waits for an AN when neither its data nor an AN is on the   *)
(* way waits until it is restarted: it has no timer, and it drops whatever *)
(* it should send, the answers to the store included, so that the store    *)
(* never hears of it again (PyNode.publish_pkt, send_data_to_store).       *)
(***************************************************************************)
Mute == /\ py.wait.waiting
        /\ ~OnTopic(to_store, {"DS"}) /\ ~OnTopic(to_node, {"AN"})

MuteUntilRestart ==
  [][Mute /\ node_session' = node_session =>
       Mute' /\ Len(to_store') <= Len(to_store)]_linkvars

(***************************************************************************)
(* A node becomes mute for few reasons only.  Its data, or the AN, was     *)
(* lost; the store does not know it; the store's numbers ran out; or the   *)
(* packet it waits with was never sent, for it was too long, or took the   *)
(* place of one that waited.  However the steps interleave, an answer is   *)
(* never forgotten, or used up by another packet (Node.store_data, the     *)
(* duplicate check of Node.post_data).                                     *)
(***************************************************************************)
BecomesMuteForAReason ==
  [][~Mute /\ Mute' =>
       \/ ~sent'
       \/ lost' > lost
       \/ a \notin known
       \/ node'[a].pkt_num > MaxPktNum]_linkvars

=============================================================================
