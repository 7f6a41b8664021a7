----------------------------- MODULE Lifecycle -----------------------------
(***************************************************************************)
(* The process of the store from start to stop, and what becomes of the    *)
(* data it has acknowledged: steamlink_main (steamlink/main.py) with the   *)
(* start and stop of its parts, class Mqtt (steamlink/mqtt.py), the        *)
(* heartbeat loop Steam.start (steamlink/steamlink.py) and class DB        *)
(* (steamlink/db.py).                                                      *)
(*                                                                         *)
(* The process connects to the broker and subscribes, opens the database,  *)
(* starts the web server, and creates Steam, which sets the callback for   *)
(* packets: one that comes before is logged by Mqtt.on_message and lost,   *)
(* which changes nothing here.  From then on each packet goes to the       *)
(* database, which is in memory, and is acknowledged; every FLUSHWAIT      *)
(* beats of the heart the database is written to its file.                 *)
(* A signal stops the web server, which takes a while, closes the          *)
(* database, which writes the file, and stops MQTT; the event loop runs    *)
(* until the end, so that packets are handled and the heart beats.         *)
(* The write of the file is one step here.  TinyDB rewrites the file in    *)
(* place, so that a kill in the middle of it may leave no readable file at *)
(* all; that is not represented.                                           *)
(*                                                                         *)
(* Of a packet this module keeps whether it is stored and acknowledged.  A *)
(* node sends it again until it is acknowledged, and not any more; numbers *)
(* and waits are the subject of StoreNode and Link.                        *)
(***************************************************************************)
EXTENDS Integers

CONSTANTS
  Packets,    \* data packets that nodes send
  FLUSHWAIT   \* heartbeats from one flush to the next: 10

ASSUME LifecycleAssumption == FLUSHWAIT \in Nat \ {0}

VARIABLES
  phase,        \* what steamlink_main waits for
  restarting,   \* the signal asked for a restart
  memory,       \* packets in the database of this process
  disk,         \* packets in the file
  acked,        \* packets the store has acknowledged, ever
  flushwait,    \* heartbeats to the next flush
  beating,      \* the heartbeat loop runs
  connected,    \* Mqtt.connected
  subscribed,   \* Mqtt.subscribed
  asked,        \* how many of the topics it has subscribed to
  pending,      \* which of these the broker has yet to grant,
  granted,      \* which it delivers,
  refused,      \* and which it has refused
  age,          \* for the properties: heartbeats since a packet was acknowledged,
  late,         \* packets acknowledged after the database was closed,
  crashed,      \* a process has ended without closing its database,
  linkLost      \* this process has lost its connection

data  == <<memory, disk, acked, age, late>>
heart == <<flushwait, beating>>
mqtt  == <<connected, subscribed, asked, pending, granted, refused, linkLost>>
vars  == <<phase, restarting, data, heart, mqtt, crashed>>

Phases == {"down", "connecting", "subscribing", "web_starting", "running",
           "web_stopping", "closed", "disconnecting"}

Starting == {"connecting", "subscribing", "web_starting"}
Open     == {"running", "web_stopping"}             \* packets go to an open database
Handling == Open \cup {"closed", "disconnecting"}   \* there is a callback for packets
Stopping == {"web_stopping", "closed", "disconnecting"}

Topics == 1 .. 2   \* subscription_list: the data topic, the public control topic

----------------------------------------------------------------------------
(* Starting.                                                               *)

\* Mqtt.__init__ and what else a new process begins with.
NewProcess ==
  /\ connected' = FALSE /\ subscribed' = FALSE
  /\ asked' = 0 /\ pending' = {} /\ granted' = {} /\ refused' = {} /\ linkLost' = FALSE
  /\ memory' = {} /\ beating' = FALSE /\ flushwait' = FLUSHWAIT
  /\ restarting' = FALSE

Start ==
  /\ phase = "down"
  /\ phase' = "connecting"
  /\ NewProcess
  /\ UNCHANGED <<disk, acked, age, late, crashed>>

\* Mqtt.wait_connect goes on when connected is set.
Connected ==
  /\ phase = "connecting" /\ connected
  /\ phase' = "subscribing"
  /\ UNCHANGED <<restarting, data, heart, mqtt, crashed>>

\* The next topic of wait_connect, after the last wait for `subscribed`.  The
\* event is never cleared, so that the second wait ends at once.
Subscribe ==
  /\ phase = "subscribing" /\ asked < 2 /\ (asked > 0 => subscribed)
  /\ asked' = asked + 1
  /\ pending' = IF connected THEN pending \cup {asked'} ELSE pending
  /\ UNCHANGED <<phase, restarting, data, heart, connected, subscribed, granted,
                 refused, linkLost, crashed>>

\* Mutation: the database begins empty.
OpenEmpty ==
  /\ phase = "subscribing" /\ asked = 2 /\ subscribed
  /\ phase' = "web_starting"
  /\ memory' = {}
  /\ UNCHANGED <<restarting, disk, acked, age, late, heart, mqtt, crashed>>

\* Mutation: the answer of the broker is not waited for.
OpenAtOnce ==
  /\ phase = "subscribing" /\ asked > 0
  /\ phase' = "web_starting"
  /\ memory' = disk
  /\ UNCHANGED <<restarting, disk, acked, age, late, heart, mqtt, crashed>>

\* DB.start reads the file; webapp.start is next.
OpenDatabase ==
  /\ phase = "subscribing" /\ asked = 2 /\ subscribed
  /\ phase' = "web_starting"
  /\ memory' = disk
  /\ UNCHANGED <<restarting, disk, acked, age, late, heart, mqtt, crashed>>

\* The web server is up; Steam is created, and the loops are started.
Run ==
  /\ phase = "web_starting"
  /\ phase' = "running"
  /\ beating' = TRUE
  /\ UNCHANGED <<restarting, data, flushwait, mqtt, crashed>>

----------------------------------------------------------------------------
(* The broker.                                                             *)

\* on_connect: paho connects again by itself when a connection was lost.
OnConnect ==
  /\ phase # "down" /\ ~connected
  /\ connected' = TRUE
  /\ UNCHANGED <<phase, restarting, data, heart, subscribed, asked, pending,
                 granted, refused, linkLost, crashed>>

\* on_subscribe: the broker answers the subscriptions in order.  Whether it grants
\* or refuses one, in granted_qos, is not looked at.
OnSubscribe ==
  /\ phase # "down"
  /\ \E t \in pending :
       /\ \A u \in pending : t <= u
       /\ pending' = pending \ {t}
       /\ \/ granted' = granted \cup {t} /\ UNCHANGED refused
          \/ refused' = refused \cup {t} /\ UNCHANGED granted
  /\ subscribed' = TRUE
  /\ UNCHANGED <<phase, restarting, data, heart, connected, asked, linkLost, crashed>>

\* on_disconnect, of a connection nobody has asked to end.  The broker forgets
\* the subscriptions, and the store does not ask for them again.
OnDisconnect ==
  /\ phase # "down" /\ phase # "disconnecting" /\ connected
  /\ connected' = FALSE /\ pending' = {} /\ granted' = {} /\ refused' = {}
  /\ linkLost' = TRUE
  /\ UNCHANGED <<phase, restarting, data, heart, subscribed, asked, crashed>>

----------------------------------------------------------------------------
(* Running.                                                                *)

(***************************************************************************)
(* on_data_msg of a packet that is new: it is inserted and acknowledged,   *)
(* also in a database that was closed.  TinyDB's cache writes the file by  *)
(* itself now and then, while it is open.                                  *)
(***************************************************************************)
Receive(p) ==
  /\ phase \in Handling /\ connected /\ 1 \in granted
  /\ p \notin acked
  /\ memory' = memory \cup {p}
  /\ acked' = acked \cup {p}
  /\ age' = [age EXCEPT ![p] = 0]
  /\ late' = IF phase \in Open THEN late ELSE late \cup {p}
  /\ \/ disk' = disk
     \/ phase \in Open /\ disk' = memory'
  /\ UNCHANGED <<phase, restarting, heart, mqtt, crashed>>

Older == [p \in Packets |-> IF p \in memory /\ age[p] < FLUSHWAIT
                            THEN age[p] + 1 ELSE age[p]]

\* Mutation: the count ends below zero.
BeatBelowZero ==
  /\ phase \in Open /\ beating
  /\ IF flushwait = 0
     THEN disk' = memory /\ flushwait' = FLUSHWAIT
     ELSE disk' = disk /\ flushwait' = flushwait - 1
  /\ age' = Older
  /\ UNCHANGED <<phase, restarting, memory, acked, late, beating, mqtt, crashed>>

\* A round of Steam.start with the database open; a flush is one step.
Beat ==
  /\ phase \in Open /\ beating
  /\ IF flushwait = 1
     THEN disk' = memory /\ flushwait' = FLUSHWAIT
     ELSE disk' = disk /\ flushwait' = flushwait - 1
  /\ age' = Older
  /\ UNCHANGED <<phase, restarting, memory, acked, late, beating, mqtt, crashed>>

\* A round with the database closed: flush raises, in a task nobody waits for.
BeatClosed ==
  /\ phase \in {"closed", "disconnecting"} /\ beating
  /\ IF flushwait = 1
     THEN beating' = FALSE /\ UNCHANGED flushwait
     ELSE flushwait' = flushwait - 1 /\ UNCHANGED beating
  /\ age' = Older
  /\ UNCHANGED <<phase, restarting, memory, disk, acked, late, mqtt, crashed>>

----------------------------------------------------------------------------
(* Stopping.                                                               *)

\* The process ends; execve makes it a new one.
End(again) ==
  /\ phase' = IF again THEN "connecting" ELSE "down"
  /\ NewProcess
  /\ UNCHANGED <<disk, acked, age, late>>

\* SIGHUP, SIGINT or SIGTERM while the loops run.
Signal(restart) ==
  /\ phase = "running"
  /\ phase' = "web_stopping" /\ restarting' = restart
  /\ UNCHANGED <<data, heart, mqtt, crashed>>

(***************************************************************************)
(* A signal before the loops run, or a second one while the process stops, *)
(* is raised where nobody catches it; so is an exception of a heartbeat,   *)
(* and of a connect that fails in another way than by a refusal.  A kill   *)
(* has the same effect.                                                    *)
(***************************************************************************)
Abort ==
  /\ phase # "down"
  /\ End(FALSE)
  /\ crashed' = (crashed \/ phase \in Open)

\* Mutation: close does not write the file.
CloseUnwritten ==
  /\ phase = "web_stopping"
  /\ phase' = "closed"
  /\ UNCHANGED <<restarting, data, heart, mqtt, crashed>>

\* webapp.stop is done; DB.close.
CloseDatabase ==
  /\ phase = "web_stopping"
  /\ phase' = "closed"
  /\ disk' = memory
  /\ UNCHANGED <<restarting, memory, acked, age, late, heart, mqtt, crashed>>

\* Mutation: stop waits for the end of a connection that it does not have.
StopWaitsAlways ==
  /\ phase = "closed"
  /\ phase' = "disconnecting"
  /\ UNCHANGED <<restarting, data, heart, mqtt, crashed>>

\* Mqtt.stop: it ends the connection and waits, or there is none.
StopMqtt ==
  /\ phase = "closed"
  /\ IF connected
     THEN phase' = "disconnecting" /\ UNCHANGED <<restarting, data, heart, mqtt>>
     ELSE End(restarting)
  /\ UNCHANGED crashed

\* on_disconnect of the connection that was asked to end.
Disconnected ==
  /\ phase = "disconnecting" /\ connected
  /\ End(restarting)
  /\ UNCHANGED crashed

Init ==
  /\ phase = "down" /\ restarting = FALSE
  /\ memory = {} /\ disk = {} /\ acked = {}
  /\ flushwait = FLUSHWAIT /\ beating = FALSE
  /\ connected = FALSE /\ subscribed = FALSE /\ asked = 0
  /\ pending = {} /\ granted = {} /\ refused = {}
  /\ age = [p \in Packets |-> 0] /\ late = {}
  /\ crashed = FALSE /\ linkLost = FALSE

Next ==
  \/ Start \/ Connected \/ Subscribe \/ OpenDatabase \/ Run
  \/ OnConnect \/ OnSubscribe \/ OnDisconnect
  \/ \E p \in Packets : Receive(p)
  \/ Beat \/ BeatClosed
  \/ \E restart \in BOOLEAN : Signal(restart)
  \/ Abort
  \/ CloseDatabase \/ StopMqtt \/ Disconnected

\* The heart beats, and each step of a stop comes to its end.
Fairness ==
  /\ WF_vars(Beat)
  /\ WF_vars(CloseDatabase) /\ WF_vars(StopMqtt) /\ WF_vars(Disconnected)

Spec == Init /\ [][Next]_vars /\ Fairness

----------------------------------------------------------------------------
(* What is checked.                                                        *)

\* Each variable has its type, and the counter stays above zero.
TypeOK ==
  /\ phase \in Phases /\ restarting \in BOOLEAN
  /\ memory \subseteq Packets /\ disk \subseteq Packets /\ acked \subseteq Packets
  /\ flushwait \in 1 .. FLUSHWAIT /\ beating \in BOOLEAN
  /\ connected \in BOOLEAN /\ subscribed \in BOOLEAN
  /\ asked \in 0 .. 2 /\ pending \subseteq Topics /\ granted \subseteq Topics
  /\ refused \subseteq Topics
  /\ age \in [Packets -> 0 .. FLUSHWAIT] /\ late \subseteq Packets
  /\ crashed \in BOOLEAN /\ linkLost \in BOOLEAN

(***************************************************************************)
(* However the process ends, but in the middle of a write of the file, and *)
(* however often, a packet that was acknowledged is in the file, or it was *)
(* acknowledged less than FLUSHWAIT heartbeats before the end, or after    *)
(* the database was closed (Steam.start, DB.flush, DB.close).              *)
(***************************************************************************)
LossIsRecent ==
  \A p \in acked : p \in disk \/ p \in late \/ age[p] < FLUSHWAIT

(***************************************************************************)
(* As long as each process has been stopped by one signal, and has come to *)
(* its end, no packet that was acknowledged before the database was closed *)
(* is lost: it is in the file, or in the database that will be written to  *)
(* it (the shutdown of steamlink_main).                                    *)
(***************************************************************************)
CleanStopsKeepAcked ==
  ~crashed =>
    acked \ late \subseteq IF phase \in Open THEN memory ELSE disk

(***************************************************************************)
(* A store that handles packets receives them, unless its connection was   *)
(* lost since it was started, or the broker has refused to deliver them    *)
(* (Mqtt.wait_connect waits for an answer of the broker before the start   *)
(* goes on, Mqtt.on_subscribe takes any).  After a loss it is deaf: the    *)
(* connection is made again, the subscriptions are not.                    *)
(***************************************************************************)
HearsUntilLinkLost ==
  phase \in Handling /\ ~linkLost => connected /\ 1 \in granted \cup refused

(***************************************************************************)
(* A packet that was acknowledged in time reaches the file in the end,     *)
(* unless a process ends without closing the database (Steam.start,        *)
(* DB.close).                                                              *)
(***************************************************************************)
AckedIsFlushed ==
  \A p \in Packets : p \in acked \ late ~> p \in disk \/ crashed

(***************************************************************************)
(* A process that was told to stop ends, whatever the connection does in   *)
(* the meantime: Mqtt.stop waits for a disconnect only if there will be    *)
(* one.                                                                    *)
(***************************************************************************)
StopsWhenAsked == phase \in Stopping ~> phase \notin Stopping

=============================================================================
