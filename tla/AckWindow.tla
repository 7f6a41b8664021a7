------------------------------ MODULE AckWindow ------------------------------
(***************************************************************************)
(* What the store promises about packets that need an acknowledgement from *)
(* a node, without saying how: each node has a window of one packet.  The  *)
(* packet in it is new, with a number above every number issued to the     *)
(* node in this session; it is retried at most MaxTries times; it leaves   *)
(* the window confirmed, or given up, or because the node signed on, and   *)
(* only a confirmed data packet is recorded as delivered, once.            *)
(***************************************************************************)
EXTENDS Integers

CONSTANTS
  Nodes,      \* the nodes
  NoPacket,   \* the content of an empty window
  MaxTries    \* retries of one packet

VARIABLES
  window,    \* the unacknowledged packet of each node, or NoPacket
  tries,     \* how often it was retried
  issued,    \* the largest packet number used for the node
  recorded,  \* the numbers recorded as delivered in the last step
  signed     \* the node signed on in the last step

vars == <<window, tries, issued, recorded, signed>>

Empty(n) == window[n] = NoPacket

IsNew(n, p) == p.num > issued[n] /\ p.num <= issued'[n]

\* The window is not touched; numbers may go to packets that need no answer.
Keep(n) ==
  /\ window'[n] = window[n]
  /\ tries'[n] = tries[n]
  /\ issued'[n] >= issued[n]
  /\ recorded'[n] = {}

Offer(n) ==
  /\ Empty(n)
  /\ ~Empty(n)'
  /\ IsNew(n, window'[n])
  /\ tries'[n] = 0
  /\ recorded'[n] = {}

Retry(n) ==
  /\ ~Empty(n)
  /\ tries[n] < MaxTries
  /\ window'[n] = window[n]
  /\ tries'[n] = tries[n] + 1
  /\ issued'[n] >= issued[n]
  /\ recorded'[n] = {}

\* Only data is recorded; a configuration is confirmed without a trace.
Confirm(n) ==
  /\ ~Empty(n)
  /\ Empty(n)'
  /\ tries'[n] = 0
  /\ issued'[n] >= issued[n]
  /\ recorded'[n] = IF window[n].op = "DN" THEN {window[n].num} ELSE {}

GiveUp(n) ==
  /\ ~Empty(n)
  /\ tries[n] = MaxTries
  /\ Empty(n)'
  /\ tries'[n] = 0
  /\ issued'[n] >= issued[n]
  /\ recorded'[n] = {}

\* The node signed on: what waited is dropped, and the configuration takes
\* its place if there is one to send.
SignOn(n) ==
  /\ tries'[n] = 0
  /\ issued'[n] >= issued[n]
  /\ recorded'[n] = {}
  /\ signed'[n]
  /\ ~Empty(n)' => window'[n].op = "SC" /\ IsNew(n, window'[n])

Step(n) ==
  \/ SignOn(n)
  \/ /\ ~signed'[n]
     /\ Keep(n) \/ Offer(n) \/ Retry(n) \/ Confirm(n) \/ GiveUp(n)

\* A new session of the store.
Reset ==
  \A n \in Nodes : /\ Empty(n)' /\ ~signed'[n]
                  /\ tries'[n] = 0 /\ issued'[n] = 0 /\ recorded'[n] = {}

Init ==
  \A n \in Nodes : /\ Empty(n) /\ ~signed[n]
                  /\ tries[n] = 0 /\ issued[n] = 0 /\ recorded[n] = {}

Next == Reset \/ \A n \in Nodes : Step(n)

Spec == Init /\ [][Next]_vars

=============================================================================
