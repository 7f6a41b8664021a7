------------------------------- MODULE PyNode -------------------------------
(***************************************************************************)
(* A node written in Python: class PyNode (steamlink/pynode.py).  The      *)
(* object is a record and a method that changes it an operator from the    *)
(* old record to the new one, as in StoreNode; `out` lists the packets the *)
(* step published, `taken` the numbers of the data packets it put in the   *)
(* receive queue.                                                          *)
(*                                                                         *)
(* start() connects, subscribes and then calls send_online_to_store, which *)
(* names SL_OP.ON; there is no such op, so it raises AttributeError before *)
(* anything is sent.  The model goes on from there, as a program does that *)
(* catches the exception: the node has subscribed.  send_online_to_store   *)
(* is the only method that sets a timer, hence process_ack_timeout never   *)
(* runs and a packet that waits for its AN is never sent again.            *)
(***************************************************************************)
EXTENDS PktNumbers, WaitForAck, Sequences

\* Ops of the packets PyNode sends: data, status, and the answer to DN and SC.
PyOps == {"DS", "SS", "AS"}

\* Its wait is for a DS; time does not matter to it, for want of a timer.
PyWaitPkts == [op : {"DS"}, num : PktNum, fits : BOOLEAN]
PyWaits    == {clear_wait} \cup {set_wait(pkt, FALSE) : pkt \in PyWaitPkts}

PySent == [op : PyOps, num : PktNum, fits : {TRUE}]

PyRec == [subscribed : BOOLEAN, pkt_num : 0 .. MaxPktNum + 1, wait : PyWaits,
          out : Seq(PySent), taken : SUBSET PktNum, raised : BOOLEAN]

\* PyNode.__init__
NewPyNode ==
  [subscribed |-> FALSE, pkt_num |-> 0, wait |-> clear_wait, out |-> <<>>,
   taken |-> {}, raised |-> FALSE]

\* A step starts: nothing sent or taken yet, nothing raised.
Idle(py) == [py EXCEPT !.out = <<>>, !.taken = {}, !.raised = FALSE]

start(py) == [Idle(py) EXCEPT !.subscribed = TRUE, !.raised = TRUE]

\* Mutation: numbers past 16 bits are not refused.
ConstructUnbounded(py) == [py EXCEPT !.pkt_num = py.pkt_num + 1]

\* BasePacket.construct takes the number, whatever becomes of the packet, and
\* raises for one that does not fit 16 bits.
Construct(py) ==
  IF py.pkt_num >= MaxPktNum
  THEN [py EXCEPT !.pkt_num = MaxPktNum + 1, !.raised = TRUE]
  ELSE [py EXCEPT !.pkt_num = py.pkt_num + 1]

PktOf(py, op, fits) == [op |-> op, num |-> py.pkt_num, fits |-> fits]

\* Mutation: the test for a waiting packet is forgotten.
publish_always(py, pkt) ==
  IF py.raised \/ ~pkt.fits THEN py ELSE [py EXCEPT !.out = Append(py.out, pkt)]

(***************************************************************************)
(* publish_pkt, never for a resend: while a packet waits for its AN every  *)
(* other is dropped (a node sends no AN), the answers to the store as      *)
(* well; one that is too long always.                                      *)
(***************************************************************************)
publish_pkt(py, pkt) ==
  IF py.raised \/ py.wait.waiting \/ ~pkt.fits THEN py
  ELSE [py EXCEPT !.out = Append(py.out, pkt)]

Send(py, op) ==
  LET d == Construct(py) IN publish_pkt(d, PktOf(d, op, TRUE))

send_status_to_store(py) == Send(py, "SS")
send_ack_to_store(py)    == Send(py, "AS")

\* The wait is set for the new packet even if publish_pkt has dropped it, and
\* in place of one that waits already.
send_data_to_store(py, fits) ==
  LET d   == Construct(Idle(py))
      pkt == PktOf(d, "DS", fits)
  IN  IF d.raised THEN d
      ELSE [publish_pkt(d, pkt) EXCEPT !.wait = set_wait(pkt, FALSE)]

set_status(py) == send_status_to_store(Idle(py))

\* Mutation: a request for the status ends the wait as well.
AnyEndsWait(py, op, num) ==
  CASE op = "AN" -> [py EXCEPT !.wait = clear_wait]
    [] op = "SC" -> send_ack_to_store(py)
    [] op = "DN" -> send_ack_to_store([py EXCEPT !.taken = {num}])
    [] op = "GS" -> send_status_to_store([py EXCEPT !.wait = clear_wait])

\* Mutation: an answer is sent, the data is not queued.
AckOnly(py, op, num) ==
  CASE op = "AN" -> [py EXCEPT !.wait = clear_wait]
    [] op = "GS" -> send_status_to_store(py)
    [] OTHER     -> send_ack_to_store(py)

(***************************************************************************)
(* on_control_msg for the four ops the store sends.  An AN ends the wait,  *)
(* whichever packet it answers.  Data goes to the receive queue each time  *)
(* it arrives: a node does not look for duplicates.                        *)
(***************************************************************************)
Handle(py, op, num) ==
  CASE op = "AN" -> [py EXCEPT !.wait = clear_wait]
    [] op = "SC" -> send_ack_to_store(py)
    [] op = "DN" -> send_ack_to_store([py EXCEPT !.taken = {num}])
    [] op = "GS" -> send_status_to_store(py)

on_control_msg(py, op, num) == Handle(Idle(py), op, num)

=============================================================================
