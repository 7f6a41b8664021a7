------------------------------ MODULE StoreNode ------------------------------
(***************************************************************************)
(* The store's side of the SteamLink node protocol: class Node and the     *)
(* parts of class Steam that drive it (steamlink/steamlink.py).            *)
(*                                                                         *)
(* The store keeps one Node object per node of the network.  Four things   *)
(* touch it, each a callback that the asyncio loop runs to completion, so  *)
(* each is one action: a packet from MQTT (on_data_msg), a command of the  *)
(* web console (handle_web_command) or of the public control topic         *)
(* (on_public_control_msg), and the heartbeat.  Tick is the passing of     *)
(* time and Restart a graceful shutdown and a new start.                   *)
(*                                                                         *)
(* A Node object is a record; a method that changes the object is an       *)
(* operator from the old record to the new one, under the method's name.   *)
(* Three fields of the record are not attributes of the object but say     *)
(* what the last step did.  `out` lists its effects on the outside, in     *)
(* order: packets published on the node's control topic, packets inserted  *)
(* in the database, data put on the public topic.  `raised` is set once a  *)
(* method has raised an exception: the methods called after it in the same *)
(* step do nothing.  `signed` is set if the step handled a sign-on.        *)
(*                                                                         *)
(* Timestamps are ages, cut off where no comparison of the code can tell   *)
(* them from larger ones; statistics counters, names, radio levels and     *)
(* payloads are left out.                                                  *)
(***************************************************************************)
EXTENDS PktNumbers, WaitForAck, Sequences

CONSTANTS
  Slids,         \* the nodes that may appear: their SteamLink ids
  MeshOf,        \* the mesh of each, slid >> 8
  Statuses,      \* the status texts a node may report in an SS packet
  Inbound,       \* the packets that may arrive, as deconstruct() leaves them
  Commanded,     \* the nodes a user sends data or configurations to
  Configs,       \* the configurations a user enters: what is wrong with each
  NodeMaxSilence,\* max_silence of the node configurations, where it is a number
  MAXSILENCE,    \* time since the last transmission before a poll is repeated
  autocreate     \* the configuration switch: a sign-on creates unknown nodes

\* Ops of the packets the store sends, and of those a node sends that post_data
\* tells apart; "Other" is a data op it has no branch for, "Control" an even op.
StoreOps == {"DN", "GS", "SC", "AN"}
NodeOps  == {"RC", "OF", "DS", "SS", "AS", "TR", "Other", "Control"}

\* The states the code itself sets, and those it counts as up.
CodeStates == {"INITIAL", "ONLINE", "OFFLINE", "OVERDUE", "TRANSMITTING"}
UPSTATES   == {"ONLINE", "OK", "UP", "TRANSMITTING"}
States     == CodeStates \cup Statuses

\* OPS_need_ack
OPS_need_ack == {"DS", "RC"}

(***************************************************************************)
(* `arg` of a packet is what post_data reads of its payload: the status of *)
(* an SS, the kind of code in an AS ("known": a key of SL_AS_CODE, or      *)
(* not), and whether a TR payload can be parsed, ends in the caught        *)
(* ValueError or raises something else.                                    *)
(***************************************************************************)
Args == Statuses \cup {"none", "known", "unknown", "parsed", "malformed", "raises"}

(***************************************************************************)
(* What can be wrong with a node configuration (SL_NodeCfgStruct), of      *)
(* which nothing is checked when a user enters it.  With any of these it   *)
(* cannot be packed: the version is out of range, max_silence is not a     *)
(* number, another field that a sign-on replaces is missing or out of      *)
(* range, such as the slid, or one that it keeps, such as the altitude.    *)
(***************************************************************************)
Defects == {"version", "max_silence", "slid", "altitude"}

Packets == [slid : Slids, op : NodeOps, num : PktNum, via : Seq(Slids), arg : Args]

ASSUME StoreNodeAssumption ==
  /\ MeshOf \in [Slids -> Nat]
  /\ Commanded \subseteq Slids
  /\ Configs \subseteq SUBSET (Defects \ {"version"})
  /\ NodeMaxSilence \in Nat
  /\ MAXSILENCE \in Nat
  /\ autocreate \in BOOLEAN
  /\ \A p \in Inbound :
       /\ p \in Packets
       /\ p.op = "SS" => p.arg \in Statuses
       /\ \A i, j \in DOMAIN p.via : p.via[i] # p.slid /\ (p.via[i] = p.via[j] => i = j)

VARIABLES
  node,    \* the record of each node
  known,   \* the nodes in the node table
  running  \* FALSE once an exception has left the heartbeat and ended main

vars == <<node, known, running>>

----------------------------------------------------------------------------
(* The record.                                                             *)

Ages    == 0 .. NodeMaxSilence            \* of last_packet_rx_ts; the end: or older, or 0
TxAges  == -1 .. MAXSILENCE + 1           \* of last_packet_tx_ts; -1: it is 0
Issued  == 0 .. MaxPktNum + 1             \* pkt_numbers[control]; the end: past 16 bits

WaitPkts == [op : {"DN", "SC"}, num : PktNum, fits : BOOLEAN]
Waits    == [waiting : BOOLEAN, remaining : 0 .. SL_ACK_WAIT,
             pkt : WaitPkts \cup {NoPkt}, count : 0 .. MAX_RESEND_COUNT,
             do_insert : BOOLEAN]

Effects == [kind : {"publish", "insert", "public"},
            op : {"DN", "GS", "SC", "AN", "DS"}, num : PktNum, resend : BOOLEAN]

NodeRec == [state : States, via : Seq(Slids),
            pkt_num : Issued, last_packet_num : LastSeen,
            rx : Ages, tx : TxAges, wait : Waits,
            cfg : SUBSET Defects, saved : [via : Seq(Slids), cfg : SUBSET Defects],
            out : Seq(Effects), raised : BOOLEAN, signed : BOOLEAN]

\* What save() puts of a Node into its database record: not the version.
Saved(via, cfg) == [via |-> via, cfg |-> cfg \ {"version"}]

\* Item.update: the database record is written anew.
update(c) == IF c.raised THEN c ELSE [c EXCEPT !.saved = Saved(c.via, c.cfg)]

\* Node.__init__, with the attributes that load() restores from the database;
\* a Node that is created is inserted there.
NewNode(via, cfg) ==
  [state |-> "INITIAL", via |-> via, pkt_num |-> 0, last_packet_num |-> 0,
   rx |-> NodeMaxSilence, tx |-> -1, wait |-> clear_wait,
   cfg |-> cfg, saved |-> Saved(via, cfg), out |-> <<>>, raised |-> FALSE,
   signed |-> FALSE]

\* A step starts: nothing sent yet, nothing raised.
Fresh(c) == [c EXCEPT !.out = <<>>, !.raised = FALSE, !.signed = FALSE]

is_state_up(c) == c.state \in UPSTATES
is_offline(c)  == c.state = "OFFLINE"
\* Mutation: a comparison that a node never satisfies.
NeverOverdue(c) == ~is_offline(c) /\ c.rx > NodeMaxSilence

is_overdue(c)  == ~is_offline(c) /\ c.rx = NodeMaxSilence
is_waiting(c)  == c.wait.waiting

\* is_overdue adds max_silence to a time, whatever a user made of it.
overdue_raises(c) == ~is_offline(c) /\ "max_silence" \in c.cfg

----------------------------------------------------------------------------
(* Sending.                                                                *)

\* Mutation: numbers past 16 bits are not refused.
ConstructUnbounded(c) ==
  [c EXCEPT !.pkt_num = IF c.pkt_num > MaxPktNum THEN c.pkt_num ELSE c.pkt_num + 1]

(***************************************************************************)
(* Packet(slnode=...): the number is taken, then the header packed, which  *)
(* raises struct.error for a number that does not fit 16 bits.             *)
(***************************************************************************)
Construct(c) ==
  IF c.raised THEN c
  ELSE IF c.pkt_num >= MaxPktNum
       THEN [c EXCEPT !.pkt_num = MaxPktNum + 1, !.raised = TRUE]
       ELSE [c EXCEPT !.pkt_num = c.pkt_num + 1]

Emit(c, kind, op, num, resend) ==
  [c EXCEPT !.out = Append(c.out, [kind |-> kind, op |-> op, num |-> num,
                                   resend |-> resend])]

\* Mutation: nothing is held back while a packet waits.
PublishAlways(c, pkt, resend) ==
  IF c.raised \/ ~pkt.fits THEN c
  ELSE update([Emit(c, "publish", pkt.op, pkt.num, resend) EXCEPT !.tx = 0])

\* Mutation: a packet that is too long raises instead of being skipped.
PublishOrRaise(c, pkt, resend) ==
  IF c.raised \/ (~resend /\ is_waiting(c) /\ pkt.op # "AN") THEN c
  ELSE IF ~pkt.fits THEN [c EXCEPT !.raised = TRUE]
       ELSE update([Emit(c, "publish", pkt.op, pkt.num, resend) EXCEPT !.tx = 0])

(***************************************************************************)
(* publish_pkt: while a packet waits for its AS only an AN, or that packet *)
(* again, may pass; one longer than SL_MAX_MESSAGE_LEN never does.         *)
(***************************************************************************)
publish_pkt(c, pkt, resend) ==
  IF \/ c.raised
     \/ ~resend /\ is_waiting(c) /\ pkt.op # "AN"
     \/ ~pkt.fits
  THEN c
  ELSE update([Emit(c, "publish", pkt.op, pkt.num, resend) EXCEPT !.tx = 0])

\* A packet of kind `op` carrying the number just taken.
PktOf(c, op, fits) == [op |-> op, num |-> c.pkt_num, fits |-> fits]

SendShort(c, op) ==
  LET d == Construct(c) IN publish_pkt(d, PktOf(d, op, TRUE), FALSE)

send_get_status(c)  == SendShort(c, "GS")
send_ack_to_node(c) == SendShort(c, "AN")

(***************************************************************************)
(* The end of send_data_to_node and send_set_config: the packet is         *)
(* published, then waited for, whether publish_pkt sent it or not.         *)
(***************************************************************************)
SendAndWait(c, op, fits) ==
  LET d == Construct(c)
      e == publish_pkt(d, PktOf(d, op, fits), FALSE)
  IN  IF d.raised THEN d
      ELSE [e EXCEPT !.wait = set_wait(PktOf(d, op, fits), op = "DN")]

\* Mutation: the AckWait test is forgotten.
MaySendIfUp(c) == ~c.raised /\ is_state_up(c)

\* Neither method does anything for a node that is down or has a packet waiting.
MaySend(c) == ~c.raised /\ is_state_up(c) /\ ~is_waiting(c)

send_data_to_node(c, fits) ==
  IF MaySend(c) THEN SendAndWait(c, "DN", fits) ELSE c

\* nodecfg.pack() comes first, and raises if anything is wrong with it.
send_set_config(c) ==
  IF ~MaySend(c) THEN c
  ELSE IF c.cfg = {} THEN SendAndWait(c, "SC", TRUE)
       ELSE [c EXCEPT !.raised = TRUE]

\* set_state: TRANSMITTING asks the node for its status.
set_state(c, new) ==
  IF c.raised THEN c
  ELSE LET d == [c EXCEPT !.state = new]
       IN  update(IF new = "TRANSMITTING" THEN send_get_status(d) ELSE d)

----------------------------------------------------------------------------
(* Receiving.                                                              *)

\* Mutation: acknowledged first, stored afterwards.
AckThenStore(c, num) ==
  LET d == send_ack_to_node(c)
  IN  IF d.raised THEN d
      ELSE Emit(Emit(d, "insert", "DS", num, FALSE), "public", "DS", num, FALSE)

(***************************************************************************)
(* store_data: the packet is inserted, then acknowledged, then passed on   *)
(* to the public topic.                                                    *)
(***************************************************************************)
store_data(c, num) ==
  LET d == send_ack_to_node(Emit(c, "insert", "DS", num, FALSE))
  IN  IF d.raised THEN d ELSE Emit(d, "public", "DS", num, FALSE)

\* A sign-on: give up on the packet that waits, take the node's configuration,
\* send it back, and only then call the node ONLINE.
SignOn(c) ==
  set_state(send_set_config([c EXCEPT !.wait = clear_wait,
                                      !.cfg = @ \ {"max_silence", "slid"},
                                      !.signed = TRUE]), "ONLINE")

\* Mutation: the packet is forgotten, the time to wait for it is not.
ForgetPacketOnly(c) ==
  LET pkt == Stopped(c.wait)
      d   == [c EXCEPT !.wait.pkt = NoPkt, !.wait.do_insert = FALSE]
  IN  IF pkt = NoPkt THEN d ELSE Emit(d, "insert", pkt.op, pkt.num, FALSE)

\* An acknowledgement: the packet number it names is not looked at.
Acknowledged(c) ==
  LET pkt == Stopped(c.wait)
      d   == [c EXCEPT !.wait = clear_wait]
  IN  IF pkt = NoPkt THEN d ELSE Emit(d, "insert", pkt.op, pkt.num, FALSE)

\* The branch of post_data for the packet's op.
OpBranch(c, p) ==
  CASE p.op = "RC" -> SignOn(c)
    [] p.op = "OF" -> set_state(c, "OFFLINE")
    [] p.op = "DS" -> store_data(c, p.num)
    [] p.op = "SS" -> set_state(c, p.arg)
    [] p.op = "AS" -> IF p.arg = "known" THEN Acknowledged(c)
                      ELSE [c EXCEPT !.raised = TRUE]
    [] p.op = "TR" -> IF p.arg = "raises" THEN [c EXCEPT !.raised = TRUE] ELSE c
    [] OTHER       -> c

\* "any pkt from node indicates it's up"
MarkHeard(c) ==
  LET d == [c EXCEPT !.rx = 0]
  IN  update(IF ~is_offline(d) /\ ~is_state_up(d) THEN set_state(d, "TRANSMITTING")
             ELSE d)

\* A malformed test packet returns before the node is marked as heard.
ReturnsEarly(p) == p.op = "TR" /\ p.arg = "malformed"

(***************************************************************************)
(* post_data for the sender, from the duplicate check on.  `lost` says     *)
(* that handling a node of the via route raised, which ends post_data.     *)
(***************************************************************************)
Accept(c, p, lost) ==
  LET num == [c EXCEPT !.last_packet_num = LastAfter(c.last_packet_num, p.num)]
      d   == OpBranch([num EXCEPT !.via = p.via], p)
  IN  IF lost THEN num
      ELSE IF d.raised \/ ReturnsEarly(p) THEN d
           ELSE MarkHeard(d)

\* Mutation: a repeated packet is dropped without an answer.
DuplicateUnanswered(c, p) ==
  [c EXCEPT !.last_packet_num = LastAfter(c.last_packet_num, p.num)]

Duplicate(c, p) ==
  LET d == [c EXCEPT !.last_packet_num = LastAfter(c.last_packet_num, p.num)]
  IN  IF p.op \in OPS_need_ack THEN send_ack_to_node(d) ELSE d

\* Mutation: only the time is noted.
BridgedUnmarked(c) == update([c EXCEPT !.rx = 0])

\* Mutation: a bridge that comes back is treated like one that signs on.
BridgedAnew(c) ==
  LET d == [c EXCEPT !.rx = 0]
  IN  IF is_state_up(d) THEN update(d)
      ELSE set_state([d EXCEPT !.wait = clear_wait], "TRANSMITTING")

\* A node that bridged the packet: it is alive, whatever its state was.
Bridged(c) ==
  LET d == [c EXCEPT !.rx = 0]
  IN  IF is_state_up(d) THEN update(d) ELSE set_state(d, "TRANSMITTING")

----------------------------------------------------------------------------
(* The heartbeat.                                                          *)

periodic_check_for_AS(c) ==
  IF ~Expired(c.wait) THEN c
  ELSE IF Exhausted(c.wait) THEN [c EXCEPT !.wait = clear_wait]
       ELSE publish_pkt([c EXCEPT !.wait = restart_wait(c.wait)], c.wait.pkt, TRUE)

\* Mutation: OFFLINE nodes are polled as well.
PollDueAnyState(c) == ~is_state_up(c) /\ c.tx = MAXSILENCE + 1

PollDue(c) == ~is_offline(c) /\ ~is_state_up(c) /\ c.tx = MAXSILENCE + 1

\* The last two parts of periodic_check: is the node overdue, is it to be asked?
OverdueCheck(c) ==
  IF is_overdue(c) /\ is_state_up(c) THEN set_state(c, "OVERDUE") ELSE c

PollCheck(c) == IF PollDue(c) THEN send_get_status(c) ELSE c

periodic_check(c) ==
  LET d == periodic_check_for_AS(c)
  IN  IF overdue_raises(d) THEN [d EXCEPT !.raised = TRUE]
      ELSE PollCheck(OverdueCheck(d))

----------------------------------------------------------------------------
(* The actions.                                                            *)

Init ==
  /\ known \in SUBSET Slids
  /\ node = [n \in Slids |-> NewNode(<<>>, {})]
  /\ running = TRUE

Quiet == [n \in Slids |-> Fresh(node[n])]

\* The nodes of the route that the loop over it reaches: those before, and
\* including, the first whose handling raises.
RouteHops(p)  == {i \in DOMAIN p.via : p.via[i] \in known}
HopRaises(p, i) == Bridged(Fresh(node[p.via[i]])).raised
ReachedHops(p) ==
  {p.via[i] : i \in {j \in RouteHops(p) :
                       \A k \in RouteHops(p) : k < j => ~HopRaises(p, k)}}
RouteRaises(p) == \E i \in RouteHops(p) : HopRaises(p, i)

(***************************************************************************)
(* on_data_msg: a sign-on of an unknown node creates it; any other packet  *)
(* of an unknown node, and any control packet, changes nothing.            *)
(***************************************************************************)
OnDataMsg(p) ==
  /\ running
  /\ LET n == p.slid
         created == n \notin known /\ autocreate /\ p.op = "RC"
         c == IF created THEN NewNode(<<>>, {}) ELSE Quiet[n]
     IN  IF (n \notin known /\ ~created) \/ p.op = "Control"
         THEN node' = Quiet /\ UNCHANGED known
         ELSE IF IsDuplicate(c.last_packet_num, p.num)
         THEN node' = [Quiet EXCEPT ![n] = Duplicate(c, p)] /\ UNCHANGED known
         ELSE /\ node' = [m \in Slids |->
                            IF m = n THEN Accept(c, p, RouteRaises(p))
                            ELSE IF m \in ReachedHops(p) THEN Bridged(Quiet[m])
                            ELSE Quiet[m]]
              /\ known' = known \cup {n}
  /\ UNCHANGED running

\* handle_web_command "DN", and on_public_control_msg with a plain text.
SendData(n, fits) ==
  /\ running /\ n \in known
  /\ node' = [Quiet EXCEPT ![n] = send_data_to_node(@, fits)]
  /\ UNCHANGED <<known, running>>

(***************************************************************************)
(* handle_web_command "SC": the user's JSON becomes the configuration, as  *)
(* it is, and stays it even if it then cannot be sent.  The first          *)
(* parameter of SL_NodeCfgStruct is the version and the slid is passed for *)
(* it, which fits the version's 8 bits in mesh 0 only; the slid is the one *)
(* in the JSON, if any.                                                    *)
(***************************************************************************)
WebSetConfig(n, defects) ==
  /\ running /\ n \in known
  /\ LET cfg == IF MeshOf[n] = 0 THEN defects ELSE defects \cup {"version"}
     IN  node' = [Quiet EXCEPT ![n] = send_set_config([@ EXCEPT !.cfg = cfg])]
  /\ UNCHANGED <<known, running>>

\* on_public_control_msg with a JSON object that has a payload: it is made
\* bytes, and adding the '\0' string to it raises before anything is sent.  So
\* does handle_web_command for a JSON that SL_NodeCfgStruct does not take.
CommandRaises(n) ==
  /\ running /\ n \in known
  /\ node' = [Quiet EXCEPT ![n].raised = TRUE]
  /\ UNCHANGED <<known, running>>

(***************************************************************************)
(* heartbeat: every node of mesh 1, and no other, in the order of the      *)
(* table.  If the check of one raises, those after it are not checked and  *)
(* the exception ends the program.                                         *)
(***************************************************************************)
Beating == {n \in known : MeshOf[n] = 1}

Heartbeat ==
  /\ running
  /\ LET checked == [n \in Beating |-> periodic_check(Fresh(node[n]))]
         failing == {n \in Beating : checked[n].raised}
     IN  \E done \in SUBSET Beating :
           /\ \/ failing = {} /\ done = Beating
              \/ \E last \in failing : done \cap failing = {last}
           /\ node' = [n \in Slids |-> IF n \in done THEN checked[n]
                                      ELSE Fresh(node[n])]
           /\ running' = (failing = {})
  /\ UNCHANGED known

Older(age, top) == IF age = -1 \/ age = top THEN age ELSE age + 1

Tick ==
  /\ running
  /\ node' = [n \in Slids |->
                [Quiet[n] EXCEPT !.rx = Older(@, NodeMaxSilence),
                                 !.tx = Older(@, MAXSILENCE + 1),
                                 !.wait = Elapse(@)]]
  /\ UNCHANGED <<known, running>>

\* A graceful shutdown closes the database, which puts what was written to it
\* in the file; a start loads the node table from there.
Restart ==
  /\ running
  /\ node' = [n \in Slids |-> NewNode(node[n].saved.via, node[n].saved.cfg)]
  /\ UNCHANGED <<known, running>>

Next ==
  \/ \E p \in Inbound : OnDataMsg(p)
  \/ \E n \in Commanded, fits \in BOOLEAN : SendData(n, fits)
  \/ \E n \in Commanded, defects \in Configs : WebSetConfig(n, defects)
  \/ \E n \in Commanded : CommandRaises(n)
  \/ Heartbeat
  \/ Tick
  \/ Restart

\* start(): a loop that sleeps one second and runs the heartbeat.
Fairness == WF_vars(Tick) /\ WF_vars(Heartbeat)

Spec     == Init /\ [][Next]_vars
FairSpec == Spec /\ Fairness

----------------------------------------------------------------------------
(* What is checked.                                                        *)

\* Every node's record is well formed.
TypeOK ==
  /\ node \in [Slids -> NodeRec]
  /\ known \subseteq Slids
  /\ running \in BOOLEAN

(***************************************************************************)
(* The wait of a node is all set or all clear, and it is for a packet that *)
(* was numbered in this session: wait_for_AS holds nothing or a DN, which  *)
(* is inserted when acknowledged, or an SC, which is not.                  *)
(***************************************************************************)
WaitCoherent(c) ==
  IF c.wait.waiting
  THEN /\ c.wait.pkt \in WaitPkts
       /\ c.wait.pkt.num <= c.pkt_num
       /\ c.wait.do_insert <=> c.wait.pkt.op = "DN"
  ELSE c.wait = clear_wait

WaitsCoherent == \A n \in Slids : WaitCoherent(node[n])

----------------------------------------------------------------------------
\* The store's handling of packets to a node implements a window of one packet.
Delivered(c) ==
  {c.out[i].num : i \in {j \in DOMAIN c.out : /\ c.out[j].kind = "insert"
                                             /\ c.out[j].op = "DN"}}

Window == INSTANCE AckWindow WITH
  Nodes    <- Slids,
  NoPacket <- NoPkt,
  MaxTries <- MAX_RESEND_COUNT,
  window   <- [n \in Slids |-> node[n].wait.pkt],
  tries    <- [n \in Slids |-> node[n].wait.count],
  issued   <- [n \in Slids |-> node[n].pkt_num],
  recorded <- [n \in Slids |-> Delivered(node[n])],
  signed   <- [n \in Slids |-> node[n].signed]

\* Of all the ways in which packets, commands, heartbeats and restarts can
\* interleave, none breaks the promises of AckWindow (wait_for_AS).
ImplementsWindow == Window!Spec

(***************************************************************************)
(* While a packet waits for its AS, nothing overtakes it: what the store   *)
(* publishes to the node is the waiting packet again, or an AN             *)
(* (publish_pkt).  A status request, data or configuration that came to be *)
(* sent in that time would make the node see packets out of order.         *)
(***************************************************************************)
Published(c) == {c.out[i] : i \in {j \in DOMAIN c.out : c.out[j].kind = "publish"}}

OnlyAcksOvertake ==
  [][\A n \in Slids :
       is_waiting(node[n]) /\ node'[n].wait.pkt = node[n].wait.pkt =>
         \A e \in Published(node'[n]) :
           e.op = "AN" \/ (e.resend /\ e.num = node[n].wait.pkt.num)]_vars

(***************************************************************************)
(* An AN is sent in two cases only.  The data it acknowledges was put in   *)
(* the database before, in the same step; or the packet repeats the last   *)
(* one seen, and then the answer is all that happens: the second copy      *)
(* changes nothing the store knows of the node or has waiting for it.  An  *)
(* AN in any other place would let the node forget data the store does not *)
(* have (store_data, and the duplicate check that opens post_data).        *)
(***************************************************************************)
Repeated(c, d) ==
  /\ c.last_packet_num # 0
  /\ d.last_packet_num = LastAfter(c.last_packet_num, c.last_packet_num)
  /\ \A f \in {"state", "via", "rx", "wait", "cfg"} : d[f] = c[f]
  /\ Len(d.out) = 1

AckedIsStored ==
  [][\A n \in Slids :
       \A i \in DOMAIN node'[n].out :
         node'[n].out[i].op = "AN" =>
           \/ \E j \in 1 .. i - 1 : /\ node'[n].out[j].kind = "insert"
                                   /\ node'[n].out[j].op = "DS"
           \/ Repeated(node[n], node'[n])]_vars

(***************************************************************************)
(* A node that went OFFLINE is left alone: the heartbeat neither polls it  *)
(* nor calls it overdue, and data of its that arrives late is stored but   *)
(* does not revive it.  It leaves the state when it is heard to be back,   *)
(* by a sign-on, a status or a packet it bridged, or when the store starts *)
(* anew (set_state, is_overdue, periodic_check, post_data).  If its status *)
(* is TRANSMITTING and the store has no number left to ask for more,       *)
(* set_state raises after it has set the state, before the time is noted.  *)
(***************************************************************************)
RanOut(c) == c.raised /\ c.state = "TRANSMITTING" /\ c.pkt_num > MaxPktNum

OfflineIsLeftAlone ==
  [][\A n \in Slids :
       is_offline(node[n]) =>
         IF is_offline(node'[n])
         THEN \A e \in Published(node'[n]) : e.op # "GS"
         ELSE \/ node'[n].state = "INITIAL"
              \/ node'[n].rx = 0 /\ \A i \in DOMAIN node'[n].out : node'[n].out[i].op # "DS"
              \/ RanOut(node'[n])]_vars

(***************************************************************************)
(* A node heard within the present second is up, unless it is OFFLINE:     *)
(* however the packet arrived, from the node or through it, and whatever   *)
(* else went wrong in handling it (the last lines of post_data, and its    *)
(* loop over the via route).                                               *)
(***************************************************************************)
HeardIsUp ==
  NodeMaxSilence > 0 =>
    \A n \in Slids : node[n].rx = 0 => is_state_up(node[n]) \/ is_offline(node[n])

(***************************************************************************)
(* The checks of the heartbeat end the program for two reasons only: a     *)
(* packet had to be numbered to a node of its mesh that has used up the 16 *)
(* bit numbers; or a node of its mesh, not OFFLINE, has from a user a      *)
(* max_silence that is not a number, which the node has not replaced since *)
(* by a sign-on.  Whatever else raises in the methods of this module, does *)
(* so in a callback that the loop survives (periodic_check, heartbeat).    *)
(***************************************************************************)
OnlyTwoReasonsEnd ==
  ~running =>
    \E n \in known :
      /\ MeshOf[n] = 1 /\ node[n].raised
      /\ \/ node[n].pkt_num > MaxPktNum
         \/ "max_silence" \in node[n].cfg /\ ~is_offline(node[n])

(***************************************************************************)
(* Liveness of the resends: a packet sent to a node of mesh 1, the mesh of *)
(* the heartbeat, does not wait for ever.  It is answered, superseded, or  *)
(* given up; or the program ends.                                          *)
(***************************************************************************)
WaitEnds ==
  \A n \in Slids :
    MeshOf[n] = 1 =>
      (is_waiting(node[n]) ~> ~is_waiting(node[n]) \/ ~running)

(***************************************************************************)
(* A silent node of mesh 1 does not stay up: a node that is up is heard    *)
(* again, or goes down, or the program ends.                               *)
(***************************************************************************)
SilenceIsNoticed ==
  \A n \in Slids :
    MeshOf[n] = 1 =>
      (is_state_up(node[n]) /\ node[n].rx > 0
         ~> node[n].rx = 0 \/ ~is_state_up(node[n]) \/ ~running)

----------------------------------------------------------------------------
(* What the repository says of the program and it does not do.             *)

\* "report config, ack with SC" (SL_OP.RC): a sign-on is answered with an SC.
SignOnIsAnswered ==
  [][\A n \in Slids :
       node'[n].signed => \E e \in Published(node'[n]) : e.op = "SC"]_vars

\* "If a node sends a set status (op code SS) this status will be set."
StatusIsSet ==
  [][\A p \in Inbound :
       /\ p.op = "SS" /\ p.slid \in known
       /\ ~IsDuplicate(node[p.slid].last_packet_num, p.num)
       /\ OnDataMsg(p)
       => node'[p.slid].state = p.arg]_vars

\* "skip 0" (set_pkt_number): numbering goes on past the largest number; the
\* heartbeat then has no reason to fail, if no user gives it one.
HeartbeatSurvives == running

=============================================================================
