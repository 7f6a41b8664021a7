-------------------------- MODULE LifecycleProofs --------------------------
(***************************************************************************)
(* Proofs about Lifecycle: what survives the end of a process, and when a  *)
(* store hears, for every set of packets and every number of heartbeats    *)
(* between two flushes.                                                    *)
(***************************************************************************)
EXTENDS Lifecycle, TLAPS

USE LifecycleAssumption

(***************************************************************************)
(* What is kept where.  An open database holds what the file holds, and    *)
(* what else it holds was acknowledged since the last flush; after it was  *)
(* closed only late packets are missing in the file; and one that was just *)
(* opened is the file.                                                     *)
(***************************************************************************)
Kept ==
  /\ phase \in Open =>
       /\ disk \subseteq memory
       /\ \A p \in memory \ disk : age[p] <= FLUSHWAIT - flushwait
  /\ phase \in {"closed", "disconnecting"} => memory \ disk \subseteq late
  /\ phase = "web_starting" => memory = disk

DataInv == TypeOK /\ Kept /\ LossIsRecent /\ CleanStopsKeepAcked

(***************************************************************************)
(* How far the subscriptions are.  A process that connects has asked for   *)
(* nothing; it goes on to subscribe when it is connected; the broker       *)
(* answers for the topics in order, so that any answer includes the first. *)
(***************************************************************************)
Subscribing ==
  /\ pending \subseteq 1 .. asked
  /\ phase \in {"down", "connecting"} => asked = 0 /\ ~subscribed
  /\ phase = "subscribing" /\ ~linkLost =>
       /\ connected
       /\ asked > 0 => 1 \in pending \cup granted \cup refused
       /\ subscribed => 1 \in granted \cup refused
  /\ phase = "web_starting" /\ ~linkLost => connected /\ 1 \in granted \cup refused

LinkInv == TypeOK /\ Subscribing /\ HearsUntilLinkLost

----------------------------------------------------------------------------
(* Types.                                                                  *)

LEMMA TypeInit == Init => TypeOK
<1>1. SUFFICES ASSUME Init PROVE TypeOK
  OBVIOUS
<1>2. /\ flushwait \in 1 .. FLUSHWAIT /\ asked \in 0 .. 2
      /\ age \in [Packets -> 0 .. FLUSHWAIT]
  BY <1>1, SMT DEF Init
<1>3. QED
  BY <1>1, <1>2, Zenon DEF Init, TypeOK, Phases, Topics

\* What a new process begins with is well typed.
NewTypes ==
  /\ restarting \in BOOLEAN /\ memory \subseteq Packets
  /\ flushwait \in 1 .. FLUSHWAIT /\ beating \in BOOLEAN
  /\ connected \in BOOLEAN /\ subscribed \in BOOLEAN
  /\ asked \in 0 .. 2 /\ pending \subseteq Topics /\ granted \subseteq Topics
  /\ refused \subseteq Topics /\ linkLost \in BOOLEAN

LEMMA NewProcessTypes == NewProcess => NewTypes'
<1>1. SUFFICES ASSUME NewProcess PROVE NewTypes'
  OBVIOUS
<1>2. flushwait' \in 1 .. FLUSHWAIT /\ asked' \in 0 .. 2
  BY <1>1, SMT DEF NewProcess
<1>3. QED
  BY <1>1, <1>2, Zenon DEF NewProcess, NewTypes

LEMMA TypeStep == TypeOK /\ [Next]_vars => TypeOK'
<1>1. SUFFICES ASSUME TypeOK, [Next]_vars PROVE TypeOK'
  OBVIOUS
<1> USE <1>1 DEF TypeOK
<1>2. CASE Start
  BY <1>2, NewProcessTypes, Zenon DEF Start, NewTypes, Phases
<1>3. CASE Connected
  BY <1>3 DEF Connected, Phases, data, heart, mqtt
<1>4. CASE Subscribe
  BY <1>4 DEF Subscribe, Topics, data, heart
<1>5. CASE OpenDatabase
  BY <1>5 DEF OpenDatabase, Phases, heart, mqtt
<1>6. CASE Run
  BY <1>6 DEF Run, Phases, data, mqtt
<1>7. CASE OnConnect
  BY <1>7 DEF OnConnect, data, heart
<1>8. CASE OnSubscribe
  BY <1>8 DEF OnSubscribe, Topics, data, heart
<1>9. CASE OnDisconnect
  BY <1>9 DEF OnDisconnect, Topics, data, heart
<1>10. ASSUME NEW p \in Packets, Receive(p)
        PROVE  TypeOK'
  BY <1>10 DEF Receive, heart, mqtt
<1>11. CASE Beat
  BY <1>11 DEF Beat, Older, mqtt
<1>12. CASE BeatClosed
  <2>1. flushwait' \in 1 .. FLUSHWAIT
    <3>1. flushwait' = IF flushwait = 1 THEN flushwait ELSE flushwait - 1
      BY <1>12, Zenon DEF BeatClosed
    <3>2. QED
      BY <3>1, SMT
  <2>2. age' \in [Packets -> 0 .. FLUSHWAIT]
    BY <1>12, SMT DEF BeatClosed, Older
  <2>3. beating' \in BOOLEAN
    BY <1>12, Zenon DEF BeatClosed
  <2>4. UNCHANGED <<phase, restarting, memory, disk, acked, late, mqtt, crashed>>
    BY <1>12 DEF BeatClosed
  <2>5. QED
    BY <2>1, <2>2, <2>3, <2>4, Zenon DEF mqtt
<1>13. ASSUME NEW restart \in BOOLEAN, Signal(restart)
        PROVE  TypeOK'
  BY <1>13 DEF Signal, Phases, data, heart, mqtt
<1>14. CASE Abort
  <2>1. /\ NewTypes' /\ phase' = "down" /\ crashed' \in BOOLEAN
        /\ UNCHANGED <<disk, acked, age, late>>
    BY <1>14, NewProcessTypes, Zenon DEF Abort, End
  <2>2. QED
    BY <2>1, Zenon DEF NewTypes, Phases
<1>15. CASE CloseDatabase
  BY <1>15 DEF CloseDatabase, Phases, heart, mqtt
<1>16. CASE StopMqtt
  <2>1. CASE /\ End(restarting)
             /\ UNCHANGED crashed
    <3>1. /\ NewTypes' /\ phase' \in {"down", "connecting"}
          /\ UNCHANGED <<disk, acked, age, late, crashed>>
      BY <2>1, NewProcessTypes, Zenon DEF End
    <3>2. QED
      BY <3>1, Zenon DEF NewTypes, Phases
  <2>2. CASE /\ phase' = "disconnecting"
             /\ UNCHANGED <<restarting, data, heart, mqtt, crashed>>
    BY <2>2 DEF Phases, data, heart, mqtt
  <2>3. QED
    BY <1>16, <2>1, <2>2 DEF StopMqtt
<1>17. CASE Disconnected
  <2>1. CASE /\ End(restarting)
             /\ UNCHANGED crashed
    <3>1. /\ NewTypes' /\ phase' \in {"down", "connecting"}
          /\ UNCHANGED <<disk, acked, age, late, crashed>>
      BY <2>1, NewProcessTypes, Zenon DEF End
    <3>2. QED
      BY <3>1, Zenon DEF NewTypes, Phases
  <2>2. QED
    BY <1>17, <2>1 DEF Disconnected
<1>18. CASE UNCHANGED vars
  BY <1>18 DEF vars, data, heart, mqtt
<1>19. QED
  BY <1>2, <1>3, <1>4, <1>5, <1>6, <1>7, <1>8, <1>9, <1>10, <1>11,
     <1>12, <1>13, <1>14, <1>15, <1>16, <1>17, <1>18 DEF Next

(***************************************************************************)
(* The variables keep their types, and the count of heartbeats to the next *)
(* flush stays above zero, through every start, stop and end of a process. *)
(***************************************************************************)
THEOREM LifecycleTypeCorrect == Spec => []TypeOK
  BY TypeInit, TypeStep, PTL DEF Spec

----------------------------------------------------------------------------
(* The data.                                                               *)

LEMMA DataInit == Init => DataInv
  BY TypeInit DEF Init, DataInv, Kept, LossIsRecent, CleanStopsKeepAcked, Open

LEMMA DataStep == DataInv /\ [Next]_vars => DataInv'
<1>1. SUFFICES ASSUME DataInv, [Next]_vars
               PROVE  Kept' /\ LossIsRecent' /\ CleanStopsKeepAcked'
  BY TypeStep DEF DataInv
<1> USE <1>1 DEF DataInv, TypeOK, Kept, LossIsRecent, CleanStopsKeepAcked, Open
<1>2. CASE Start
  BY <1>2 DEF Start, NewProcess
<1>3. CASE Connected
  BY <1>3 DEF Connected, data, heart, mqtt
<1>4. CASE Subscribe
  BY <1>4 DEF Subscribe, data, heart
<1>5. CASE OpenDatabase
  BY <1>5 DEF OpenDatabase, heart, mqtt
<1>6. CASE Run
  BY <1>6 DEF Run, data, mqtt
<1>7. CASE OnConnect
  BY <1>7 DEF OnConnect, data, heart
<1>8. CASE OnSubscribe
  BY <1>8 DEF OnSubscribe, data, heart
<1>9. CASE OnDisconnect
  BY <1>9 DEF OnDisconnect, data, heart
<1>10. ASSUME NEW p \in Packets, Receive(p)
        PROVE  Kept' /\ LossIsRecent' /\ CleanStopsKeepAcked'
  <2>1. memory' = memory \cup {p} /\ p \in acked' /\ age'[p] = 0
    BY <1>10 DEF Receive
  <2>2. phase \in Open => disk \subseteq disk' /\ disk' \subseteq memory'
    BY <1>10, <2>1 DEF Receive
  <2>3. Kept'
    BY <1>10, <2>1, <2>2 DEF Receive, Handling, heart
  <2>4. LossIsRecent'
    BY <1>10, <2>1, <2>2 DEF Receive, Handling
  <2>5. CleanStopsKeepAcked'
    BY <1>10 DEF Receive, Handling
  <2>6. QED
    BY <2>3, <2>4, <2>5
<1>11. CASE Beat
  <2>1. CASE flushwait = 1
    \* All that is in memory is in the file from now on.
    BY <1>11, <2>1 DEF Beat, Older
  <2>2. CASE flushwait # 1
    <3>1. disk' = disk /\ flushwait' = flushwait - 1 /\ flushwait' > 0
      BY <1>11, <2>2 DEF Beat
    <3>2. \A p \in memory \ disk : /\ age'[p] <= FLUSHWAIT - flushwait'
                                 /\ age'[p] < FLUSHWAIT
      BY <1>11, <3>1 DEF Beat, Older
    <3>3. \A p \in Packets \ memory : age'[p] = age[p]
      BY <1>11 DEF Beat, Older
    <3>4. QED
      BY <1>11, <3>1, <3>2, <3>3 DEF Beat
  <2>3. QED
    BY <2>1, <2>2
<1>12. CASE BeatClosed
  BY <1>12 DEF BeatClosed, Older, mqtt
<1>13. ASSUME NEW restart \in BOOLEAN, Signal(restart)
        PROVE  Kept' /\ LossIsRecent' /\ CleanStopsKeepAcked'
  BY <1>13 DEF Signal, data, heart, mqtt
<1>14. CASE Abort
  BY <1>14 DEF Abort, End, NewProcess
<1>15. CASE CloseDatabase
  BY <1>15 DEF CloseDatabase, heart, mqtt
<1>16. CASE StopMqtt
  BY <1>16 DEF StopMqtt, End, NewProcess, data, heart, mqtt
<1>17. CASE Disconnected
  BY <1>17 DEF Disconnected, End, NewProcess
<1>18. CASE UNCHANGED vars
  BY <1>18 DEF vars, data, heart, mqtt
<1>19. QED
  BY <1>2, <1>3, <1>4, <1>5, <1>6, <1>7, <1>8, <1>9, <1>10, <1>11,
     <1>12, <1>13, <1>14, <1>15, <1>16, <1>17, <1>18 DEF Next

LEMMA DataAlways == Spec => []DataInv
  BY DataInit, DataStep, PTL DEF Spec

(***************************************************************************)
(* Whatever ends a process, and whenever, but in the middle of a write of  *)
(* the file: a packet that was acknowledged is in the file, or it was      *)
(* acknowledged less than FLUSHWAIT heartbeats before the end, or after    *)
(* the database was closed.                                                *)
(***************************************************************************)
THEOREM LossIsBounded == Spec => []LossIsRecent
<1>1. DataInv => LossIsRecent
  BY DEF DataInv
<1>2. QED
  BY <1>1, DataAlways, PTL

(***************************************************************************)
(* A store that was stopped by one signal each time has lost no packet     *)
(* that it acknowledged before it closed its database.                     *)
(***************************************************************************)
THEOREM CleanStopsLoseNothing == Spec => []CleanStopsKeepAcked
<1>1. DataInv => CleanStopsKeepAcked
  BY DEF DataInv
<1>2. QED
  BY <1>1, DataAlways, PTL

----------------------------------------------------------------------------
(* The subscriptions.                                                      *)

LEMMA LinkInit == Init => LinkInv
  BY TypeInit DEF Init, LinkInv, Subscribing, HearsUntilLinkLost, Handling, Open

LEMMA LinkStep == LinkInv /\ [Next]_vars => LinkInv'
<1>1. SUFFICES ASSUME LinkInv, [Next]_vars
               PROVE  Subscribing' /\ HearsUntilLinkLost'
  BY TypeStep DEF LinkInv
<1> USE <1>1 DEF LinkInv, TypeOK, Topics, Subscribing, HearsUntilLinkLost, Open, Handling
<1>2. CASE Start
  BY <1>2 DEF Start, NewProcess
<1>3. CASE Connected
  BY <1>3 DEF Connected, data, heart, mqtt
<1>4. CASE Subscribe
  BY <1>4 DEF Subscribe, data, heart
<1>5. CASE OpenDatabase
  BY <1>5 DEF OpenDatabase, heart, mqtt
<1>6. CASE Run
  BY <1>6 DEF Run, data, mqtt
<1>7. CASE OnConnect
  BY <1>7 DEF OnConnect, data, heart
<1>8. CASE OnSubscribe
  BY <1>8 DEF OnSubscribe, data, heart
<1>9. CASE OnDisconnect
  BY <1>9 DEF OnDisconnect, data, heart
<1>10. ASSUME NEW p \in Packets, Receive(p)
        PROVE  Subscribing' /\ HearsUntilLinkLost'
  BY <1>10 DEF Receive, heart, mqtt
<1>11. CASE Beat
  BY <1>11 DEF Beat, Older, mqtt
<1>12. CASE BeatClosed
  BY <1>12 DEF BeatClosed, Older, mqtt
<1>13. ASSUME NEW restart \in BOOLEAN, Signal(restart)
        PROVE  Subscribing' /\ HearsUntilLinkLost'
  BY <1>13 DEF Signal, data, heart, mqtt
<1>14. CASE Abort
  BY <1>14 DEF Abort, End, NewProcess
<1>15. CASE CloseDatabase
  BY <1>15 DEF CloseDatabase, heart, mqtt
<1>16. CASE StopMqtt
  BY <1>16 DEF StopMqtt, End, NewProcess, data, heart, mqtt
<1>17. CASE Disconnected
  BY <1>17 DEF Disconnected, End, NewProcess
<1>18. CASE UNCHANGED vars
  BY <1>18 DEF vars, data, heart, mqtt
<1>19. QED
  BY <1>2, <1>3, <1>4, <1>5, <1>6, <1>7, <1>8, <1>9, <1>10, <1>11,
     <1>12, <1>13, <1>14, <1>15, <1>16, <1>17, <1>18 DEF Next

(***************************************************************************)
(* A store that handles packets is connected, and the broker delivers the  *)
(* nodes' topic to it or has refused to, as long as the connection it made *)
(* first lasts.                                                            *)
(***************************************************************************)
THEOREM StartedStoreHears == Spec => []HearsUntilLinkLost
<1>1. LinkInv => HearsUntilLinkLost
  BY DEF LinkInv
<1>2. QED
  BY <1>1, LinkInit, LinkStep, PTL DEF Spec

=============================================================================
