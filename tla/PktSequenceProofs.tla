------------------------- MODULE PktSequenceProofs -------------------------
(***************************************************************************)
(* Proofs about PktSequence, for every largest packet number above 2 and   *)
(* every bound on packets, copies and restarts: what the duplicate check   *)
(* of the store guarantees, and when packets_missed is exact.              *)
(***************************************************************************)
EXTENDS PktSequence, TLAPS

USE MaxPktNumAssumption, PktSequenceAssumption

(***************************************************************************)
(* The inductive invariant.  The packet that waits carries the node's last *)
(* number; if it is data, it is the newest.                                *)
(***************************************************************************)
PendingIsNewest ==
  pending # None =>
    /\ pending.num = counter
    /\ IF pending.op = "DS"
       THEN pending.item = Len(sent) /\ Len(sent) > 0 /\ sent[Len(sent)] = counter
       ELSE pending.item = 0

\* The data not yet sent is not stored, and there is room for all that is sent.
UnsentIsUnstored ==
  /\ Len(sent) <= MaxItems
  /\ \A item \in 1 .. MaxItems : item > Len(sent) => stored[item] = 0

(***************************************************************************)
(* Once the sign-on is over, the node is ahead of the store by the packets *)
(* the store has not heard of, less than once around.  This is what makes  *)
(* the check sound across the wrap: it fails for a node whose sign-on was  *)
(* given up on.                                                            *)
(***************************************************************************)
InStep ==
  ~unsigned /\ counter # 0 /\ pending.op # "RC" /\ last # 0 =>
    counter \in {last + unheard, last + unheard - MaxPktNum}

\* The newest packet is not counted as heard before it is stored ...
UnstoredIsUnheard ==
  ~unsigned /\ pending.op = "DS" =>
    stored[pending.item] > 0 \/ unheard > 0

\* ... and once it is stored, the store takes further copies for what they are.
StoredIsKnown ==
  pending.op = "DS" =>
    \/ stored[pending.item] = 0
    \/ last = pending.num
    \/ pending.num = MaxPktNum
    \/ pending.item \in exposed

\* Before the first wrap and the first restart the distance is the difference.
FirstSession ==
  wrapped \/ restarts # [node |-> 0, store |-> 0]
    \/ (missed = skipped /\ (last # 0 => counter = last + unheard))

IInv ==
  /\ TypeOK
  /\ unheard < MaxPktNum
  /\ PendingIsNewest
  /\ UnsentIsUnstored
  /\ InStep
  /\ UnstoredIsUnheard
  /\ StoredIsKnown
  /\ FirstSession
  /\ AckedIsInDatabase
  /\ StoredOnce

----------------------------------------------------------------------------
(* The node's steps.                                                       *)

\* The next number is one more, or once around back to 1.
LEMMA NextNumIsAhead ==
  ASSUME NEW num \in LastSeen
  PROVE  /\ NextNum(num) \in PktNum
         /\ num # MaxPktNum => NextNum(num) = num + 1
         /\ num = MaxPktNum => NextNum(num) = num + 1 - MaxPktNum
  BY DEF NextNum, LastSeen, PktNum

\* A packet that waits is a sign-on or the newest data.
LEMMA PendingCases ==
  ASSUME IInv
  PROVE  /\ None.op = "None"
         /\ pending # None => /\ pending.op \in {"RC", "DS"} /\ pending.num = counter
                              /\ pending.num \in PktNum
                              /\ pending.copies \in 0 .. MaxCopies
         /\ pending.op = "DS" => /\ pending # None
                                 /\ pending.item = Len(sent)
                                 /\ pending.item \in 1 .. MaxItems
                                 /\ pending.item \in DOMAIN sent
                                 /\ sent[pending.item] = counter
         /\ pending.op = "RC" => pending # None /\ pending.item = 0
         /\ Len(sent) \in 0 .. MaxItems /\ DOMAIN sent = 1 .. Len(sent)
<1>1. None.op = "None" /\ sent \in Seq(PktNum) /\ Len(sent) <= MaxItems
  BY DEF None, IInv, TypeOK, UnsentIsUnstored
<1>2. Len(sent) \in 0 .. MaxItems /\ DOMAIN sent = 1 .. Len(sent)
  BY <1>1
<1>3. pending # None => pending \in [op : {"RC", "DS"}, num : PktNum, item : 0 .. Len(sent),
                                     copies : 0 .. MaxCopies]
  BY DEF IInv, TypeOK
<1>4. QED
  BY <1>1, <1>2, <1>3 DEF IInv, PendingIsNewest

LEMMA SendSignOnKeeps ==
  ASSUME IInv, SendSignOn
  PROVE  IInv'
<1> DEFINE p == [op |-> "RC", num |-> 1, item |-> 0, copies |-> 0]
<1>1. /\ counter = 0 /\ counter' = 1 /\ pending = None /\ pending' = p
      /\ unheard' = unheard + 1 /\ unheard < MaxPktNum - 1
      /\ wrapped' = wrapped
      /\ UNCHANGED <<sent, acked, unsigned, store, skipped, exposed, restarts>>
  BY DEF SendSignOn, TakeNumber, NextNum, IInv, TypeOK
<1>2. p # None /\ p.op = "RC" /\ p.num = 1 /\ p.item = 0
  BY DEF None
<1>3. TypeOK'
  <2>1. 1 \in PktNum /\ 1 \in LastSeen /\ 0 \in 0 .. Len(sent) /\ 0 \in 0 .. MaxCopies
    BY DEF PktNum, LastSeen, IInv, TypeOK
  <2>2. p \in [op : {"RC", "DS"}, num : PktNum, item : 0 .. Len(sent), copies : 0 .. MaxCopies]
    BY <2>1
  <2> HIDE DEF p
  <2>3. QED
    BY <1>1, <2>1, <2>2 DEF IInv, TypeOK, store
<1> HIDE DEF p
<1>4. PendingIsNewest' /\ InStep' /\ UnstoredIsUnheard' /\ StoredIsKnown'
  BY <1>1, <1>2 DEF PendingIsNewest, InStep, UnstoredIsUnheard, StoredIsKnown
<1>5. unheard' < MaxPktNum
  BY <1>1 DEF IInv, TypeOK
<1>6. FirstSession'
  BY <1>1 DEF IInv, TypeOK, FirstSession, store, LastSeen
<1>7. UnsentIsUnstored' /\ AckedIsInDatabase' /\ StoredOnce'
  BY <1>1 DEF IInv, UnsentIsUnstored, AckedIsInDatabase, StoredOnce, store
<1>8. QED
  BY <1>3, <1>4, <1>5, <1>6, <1>7 DEF IInv

LEMMA SendDataKeeps ==
  ASSUME IInv, SendData
  PROVE  IInv'
<1> DEFINE num == NextNum(counter)
           item == Len(sent) + 1
           p == [op |-> "DS", num |-> num, item |-> item, copies |-> 0]
<1>1. /\ counter # 0 /\ counter \in LastSeen /\ pending = None /\ counter' = num
      /\ Len(sent) < MaxItems /\ sent' = Append(sent, num) /\ sent \in Seq(PktNum)
      /\ unheard' = unheard + 1 /\ unheard < MaxPktNum - 1 /\ unheard \in Nat
      /\ wrapped' = (wrapped \/ counter = MaxPktNum)
      /\ UNCHANGED <<acked, unsigned, store, skipped, exposed, restarts>>
  BY DEF SendData, TakeNumber, IInv, TypeOK
<1>2. num \in PktNum /\ num \in LastSeen
  BY <1>1, NextNumIsAhead DEF PktNum, LastSeen
<1>3. /\ sent' \in Seq(PktNum) /\ Len(sent') = item
      /\ sent'[item] = num
      /\ \A i \in 1 .. Len(sent) : sent'[i] = sent[i]
      /\ DOMAIN sent = 1 .. Len(sent) /\ DOMAIN sent' = 1 .. item
      /\ Len(sent) \in Nat
  BY <1>1, <1>2
<1>4. pending' = p
  BY <1>1, <1>3 DEF SendData
<1>5. p # None /\ p.op = "DS" /\ p.num = num /\ p.item = item
  BY DEF None
<1>6. TypeOK'
  <2>1. p \in [op : {"RC", "DS"}, num : PktNum, item : 0 .. Len(sent'), copies : 0 .. MaxCopies]
    BY <1>2, <1>3
  <2> HIDE DEF p, num, item
  <2>2. acked' \subseteq DOMAIN sent' /\ exposed' \subseteq DOMAIN sent'
    BY <1>1, <1>3 DEF IInv, TypeOK, item
  <2>3. QED
    BY <1>1, <1>2, <1>3, <1>4, <2>1, <2>2 DEF IInv, TypeOK, store
<1> HIDE DEF p
<1>7. PendingIsNewest'
  BY <1>1, <1>3, <1>4, <1>5 DEF PendingIsNewest
<1>8. stored' = stored /\ stored[item] = 0 /\ item \in 1 .. MaxItems
  BY <1>1, <1>3 DEF IInv, UnsentIsUnstored, store
<1>9. UnsentIsUnstored'
  BY <1>1, <1>3, <1>8 DEF IInv, UnsentIsUnstored
<1>10. UnstoredIsUnheard' /\ StoredIsKnown'
  BY <1>1, <1>4, <1>5, <1>8 DEF UnstoredIsUnheard, StoredIsKnown
<1>11. InStep'
  <2> SUFFICES ASSUME ~unsigned, last # 0
               PROVE  num \in {last + (unheard + 1), last + (unheard + 1) - MaxPktNum}
    BY <1>1 DEF InStep, store
  <2>1. counter \in {last + unheard, last + unheard - MaxPktNum}
    BY <1>1 DEF IInv, InStep, None
  <2>2. last \in PktNum
    BY DEF IInv, TypeOK, LastSeen, PktNum
  <2>3. CASE counter # MaxPktNum
    BY <1>1, <2>1, <2>2, <2>3, NextNumIsAhead DEF PktNum
  <2>4. CASE counter = MaxPktNum
    <3>1. counter = last + unheard
      BY <1>1, <2>1, <2>2, <2>4 DEF PktNum
    <3>2. QED
      BY <1>1, <2>2, <2>4, <3>1, NextNumIsAhead DEF PktNum
  <2>5. QED
    BY <2>3, <2>4
<1>12. FirstSession'
  <2> SUFFICES ASSUME ~wrapped, counter # MaxPktNum,
                      restarts = [node |-> 0, store |-> 0]
               PROVE  missed = skipped /\ (last # 0 => num = last + (unheard + 1))
    BY <1>1 DEF FirstSession, store
  <2>1. missed = skipped /\ (last # 0 => counter = last + unheard)
    BY DEF IInv, FirstSession
  <2>2. num = counter + 1 /\ counter \in Int /\ last \in Int
    BY <1>1, NextNumIsAhead DEF IInv, TypeOK, LastSeen
  <2>3. QED
    BY <1>1, <2>1, <2>2
<1>13. unheard' < MaxPktNum
  BY <1>1
<1>14. AckedIsInDatabase'
  BY <1>1, <1>8 DEF IInv, AckedIsInDatabase
<1>15. StoredOnce'
  <2> SUFFICES ASSUME NEW i \in DOMAIN sent', stored[i] > 1
               PROVE  sent'[i] = MaxPktNum \/ i \in exposed
    BY <1>1, <1>8 DEF StoredOnce
  <2>1. i # item
    BY <1>8
  <2>2. i \in DOMAIN sent /\ sent'[i] = sent[i]
    BY <1>3, <2>1
  <2>3. QED
    BY <2>2 DEF IInv, StoredOnce
<1>16. QED
  BY <1>6, <1>7, <1>9, <1>10, <1>11, <1>12, <1>13, <1>14, <1>15 DEF IInv

LEMMA GiveUpKeeps ==
  ASSUME IInv, GiveUp
  PROVE  IInv'
<1>1. /\ pending # None /\ pending' = None
      /\ unsigned' = (unsigned \/ pending.op = "RC")
      /\ UNCHANGED <<counter, sent, acked, wrapped, last, missed, stored,
                     unheard, skipped, exposed, restarts>>
  BY DEF GiveUp, store, ghost
<1>2. None.op = "None"
  BY DEF None
<1>3. TypeOK'
  BY <1>1 DEF IInv, TypeOK
<1>4. PendingIsNewest' /\ UnstoredIsUnheard' /\ StoredIsKnown'
  BY <1>1, <1>2 DEF PendingIsNewest, UnstoredIsUnheard, StoredIsKnown
<1>5. InStep'
  BY <1>1 DEF IInv, InStep
<1>6. UnsentIsUnstored' /\ FirstSession' /\ AckedIsInDatabase' /\ StoredOnce'
      /\ unheard' < MaxPktNum
  BY <1>1 DEF IInv, UnsentIsUnstored, FirstSession, AckedIsInDatabase, StoredOnce
<1>7. QED
  BY <1>3, <1>4, <1>5, <1>6 DEF IInv

LEMMA NodeRestartKeeps ==
  ASSUME IInv, NodeRestart
  PROVE  IInv'
<1>1. /\ pending' = None /\ counter' = 0 /\ unheard' = 0
      /\ restarts.node < MaxNodeRestarts
      /\ restarts' = [restarts EXCEPT !.node = @ + 1]
      /\ UNCHANGED <<sent, acked, unsigned, wrapped, last, missed, stored, skipped, exposed>>
  BY DEF NodeRestart, store
<1>2. None.op = "None"
  BY DEF None
<1>3. /\ restarts' \in [node : 0 .. MaxNodeRestarts, store : 0 .. MaxStoreRestarts]
      /\ restarts' # [node |-> 0, store |-> 0]
  <2>1. restarts \in [node : 0 .. MaxNodeRestarts, store : 0 .. MaxStoreRestarts]
    BY DEF IInv, TypeOK
  <2>2. restarts.node \in 0 .. MaxNodeRestarts
    BY <2>1
  <2>3. restarts.node + 1 \in 1 .. MaxNodeRestarts
    BY <1>1, <2>2
  <2>4. restarts'.node = restarts.node + 1
    BY <1>1, <2>1
  <2>5. restarts' \in [node : 0 .. MaxNodeRestarts, store : 0 .. MaxStoreRestarts]
    BY <1>1, <2>1, <2>3
  <2>6. restarts'.node # 0
    BY <2>3, <2>4
  <2>7. QED
    BY <2>5, <2>6
<1>4. TypeOK'
  BY <1>1, <1>3 DEF IInv, TypeOK, LastSeen
<1>5. PendingIsNewest' /\ UnstoredIsUnheard' /\ StoredIsKnown' /\ InStep' /\ FirstSession'
  BY <1>1, <1>2, <1>3
  DEF PendingIsNewest, UnstoredIsUnheard, StoredIsKnown, InStep, FirstSession
<1>6. UnsentIsUnstored' /\ AckedIsInDatabase' /\ StoredOnce' /\ unheard' < MaxPktNum
  BY <1>1 DEF IInv, UnsentIsUnstored, AckedIsInDatabase, StoredOnce
<1>7. QED
  BY <1>4, <1>5, <1>6 DEF IInv

----------------------------------------------------------------------------
(* The store's steps.                                                      *)

\* What the check leaves in last_packet_num, and what it adds to packets_missed.
LEMMA CheckedNumbers ==
  ASSUME NEW l \in LastSeen, NEW num \in PktNum
  PROVE  /\ LastAfter(l, num) \in LastSeen
         /\ LastAfter(l, num) = num \/ (LastAfter(l, num) = 0 /\ num = MaxPktNum)
         /\ Missed(l, num) \in Int
         /\ l = 0 => Missed(l, num) = 0
         /\ \A u \in Nat : l # 0 /\ num = l + u =>
              Missed(l, num) = IF u > 0 THEN u - 1 ELSE 0
  BY DEF LastAfter, Missed, LastSeen, PktNum

LEMMA DeliverKeeps ==
  ASSUME IInv, NEW ack_arrives \in BOOLEAN, Deliver(ack_arrives)
  PROVE  IInv'
<1> DEFINE num == pending.num
           item == pending.item
           isData == pending.op = "DS"
           isNew == isData /\ ~IsDuplicate(last, num)
           again == [pending EXCEPT !.copies = @ + 1]
           gap == IF last # 0 /\ unheard > 0 THEN unheard - 1 ELSE 0
<1>1. /\ pending # None /\ pending.copies < MaxCopies
      /\ last' = LastAfter(last, num)
      /\ missed' = missed + Missed(last, num)
      /\ stored' = IF isNew THEN [stored EXCEPT ![item] = @ + 1] ELSE stored
      /\ skipped' = skipped + gap
      /\ unheard' = 0
      /\ pending' = IF ack_arrives THEN None ELSE again
      /\ acked' = IF ack_arrives /\ isData THEN acked \cup {item} ELSE acked
      /\ UNCHANGED <<counter, sent, unsigned, wrapped, exposed, restarts>>
  BY DEF Deliver, PostData
<1>2. /\ None.op = "None"
      /\ pending.op \in {"RC", "DS"} /\ num = counter /\ num \in PktNum
      /\ isData => /\ item = Len(sent) /\ item \in 1 .. MaxItems /\ item \in DOMAIN sent
                   /\ sent[item] = counter
      /\ ~isData => item = 0
      /\ Len(sent) \in 0 .. MaxItems /\ DOMAIN sent = 1 .. Len(sent)
  BY <1>1, PendingCases
<1>3. /\ last \in LastSeen /\ unheard \in Nat /\ skipped \in Nat /\ missed \in Int
      /\ stored \in [1 .. MaxItems -> Nat] /\ unheard < MaxPktNum
  BY DEF IInv, TypeOK
<1>4. /\ again # None /\ again.op = pending.op /\ again.num = num /\ again.item = item
      /\ again \in [op : {"RC", "DS"}, num : PktNum, item : 0 .. Len(sent),
                    copies : 0 .. MaxCopies]
  <2>1. pending \in [op : {"RC", "DS"}, num : PktNum, item : 0 .. Len(sent),
                     copies : 0 .. MaxCopies]
    BY <1>1 DEF IInv, TypeOK
  <2>2. pending.copies + 1 \in 0 .. MaxCopies
    BY <1>1, <2>1
  <2>3. /\ again.op = pending.op /\ again.num = num /\ again.item = item
        /\ again \in [op : {"RC", "DS"}, num : PktNum, item : 0 .. Len(sent),
                      copies : 0 .. MaxCopies]
    BY <2>1, <2>2
  <2>4. QED
    BY <1>2, <2>3
<1>5. /\ last' \in LastSeen /\ missed' \in Int
      /\ last' = num \/ (last' = 0 /\ num = MaxPktNum)
  <2>1. /\ LastAfter(last, num) \in LastSeen
        /\ LastAfter(last, num) = num \/ (LastAfter(last, num) = 0 /\ num = MaxPktNum)
        /\ Missed(last, num) \in Int
    <3> HIDE DEF num
    <3> QED BY <1>2, <1>3, CheckedNumbers
  <2> HIDE DEF num
  <2>2. QED
    BY <1>1, <1>3, <2>1
<1>6. /\ stored' \in [1 .. MaxItems -> Nat]
      /\ \A i \in 1 .. MaxItems : stored'[i] >= stored[i]
      /\ \A i \in 1 .. MaxItems : i # item => stored'[i] = stored[i]
      /\ isData => stored'[item] = IF isNew THEN stored[item] + 1 ELSE stored[item]
  <2> HIDE DEF num, again, gap
  <2>1. CASE isNew
    BY <1>1, <1>2, <1>3, <2>1
  <2>2. CASE ~isNew
    BY <1>1, <1>2, <1>3, <2>2
  <2>3. QED
    BY <2>1, <2>2
<1>7. ~unsigned /\ isData => stored'[item] > 0
  <2> SUFFICES ASSUME ~unsigned, isData, ~isNew, stored[item] = 0 PROVE FALSE
    BY <1>2, <1>3, <1>6
  <2>1. last # 0 /\ last = counter
    BY <1>2 DEF IsDuplicate
  <2>2. unheard > 0
    BY DEF IInv, UnstoredIsUnheard
  <2>3. counter \in {last + unheard, last + unheard - MaxPktNum}
    BY <1>2, <2>1 DEF IInv, InStep
  <2>4. QED
    BY <1>3, <2>1, <2>2, <2>3 DEF LastSeen
<1>8. pending' = None \/ pending' = again
  BY <1>1
<1> HIDE DEF again
<1>9. TypeOK'
  <2>1. skipped' \in Nat
    BY <1>1, <1>3
  <2>2. acked' \subseteq DOMAIN sent
    BY <1>1, <1>2 DEF IInv, TypeOK
  <2>3. pending' \in [op : {"RC", "DS"}, num : PktNum, item : 0 .. Len(sent),
                      copies : 0 .. MaxCopies] \cup {None}
    BY <1>4, <1>8
  <2> HIDE DEF num, item, isData, isNew, gap
  <2>4. QED
    BY <1>1, <1>5, <1>6, <2>1, <2>2, <2>3 DEF IInv, TypeOK
<1>10. PendingIsNewest'
  <2>1. CASE pending' = None
    BY <2>1 DEF PendingIsNewest
  <2>2. CASE pending' = again
    BY <1>1, <1>2, <1>4, <2>2 DEF IInv, PendingIsNewest
  <2>3. QED
    BY <1>8, <2>1, <2>2
<1>11. UnsentIsUnstored'
  BY <1>1, <1>2, <1>6 DEF IInv, UnsentIsUnstored
<1>12. InStep'
  BY <1>1, <1>2, <1>5 DEF InStep, PktNum
<1>13. UnstoredIsUnheard'
  BY <1>1, <1>2, <1>4, <1>7, <1>8 DEF UnstoredIsUnheard
<1>14. StoredIsKnown'
  BY <1>1, <1>2, <1>4, <1>5, <1>8 DEF StoredIsKnown
<1>15. FirstSession'
  <2> SUFFICES ASSUME ~wrapped, restarts = [node |-> 0, store |-> 0]
               PROVE  missed' = skipped' /\ (last' # 0 => counter = last' + 0)
    BY <1>1 DEF FirstSession
  <2>1. missed = skipped /\ (last # 0 => counter = last + unheard)
    BY DEF IInv, FirstSession
  <2>2. Missed(last, num) = gap
    BY <1>2, <1>3, <2>1, CheckedNumbers
  <2>3. last' # 0 => counter = last' + 0
    BY <1>2, <1>5 DEF PktNum
  <2>4. QED
    BY <1>1, <2>1, <2>2, <2>3
<1>16. AckedIsInDatabase'
  <2> SUFFICES ASSUME ~unsigned, NEW i \in acked' PROVE stored'[i] > 0
    BY <1>1 DEF AckedIsInDatabase
  <2>1. CASE i \in acked
    <3>1. stored[i] > 0 /\ i \in 1 .. MaxItems
      BY <1>2, <2>1 DEF IInv, TypeOK, AckedIsInDatabase
    <3>2. QED
      BY <1>3, <1>6, <3>1
  <2>2. CASE i \notin acked
    BY <1>1, <1>7, <2>2
  <2>3. QED
    BY <2>1, <2>2
<1>17. StoredOnce'
  <2> SUFFICES ASSUME NEW i \in DOMAIN sent, stored'[i] > 1
               PROVE  sent[i] = MaxPktNum \/ i \in exposed
    BY <1>1 DEF StoredOnce
  <2>1. CASE stored'[i] = stored[i]
    BY <2>1 DEF IInv, StoredOnce
  <2>2. CASE stored'[i] # stored[i]
    <3>1. i = item /\ isNew /\ stored[item] # 0
      BY <1>2, <1>3, <1>6, <2>2
    <3>2. last # num
      BY <1>2, <3>1 DEF IsDuplicate, PktNum
    <3>3. QED
      BY <1>2, <3>1, <3>2 DEF IInv, StoredIsKnown
  <2>3. QED
    BY <2>1, <2>2
<1>18. unheard' < MaxPktNum
  BY <1>1
<1>19. QED
  BY <1>9, <1>10, <1>11, <1>12, <1>13, <1>14, <1>15, <1>16, <1>17, <1>18 DEF IInv

LEMMA StoreRestartKeeps ==
  ASSUME IInv, StoreRestart
  PROVE  IInv'
<1>1. /\ last' = 0 /\ missed' = 0
      /\ exposed' = exposed \cup ({pending.item} \ {0})
      /\ restarts.store < MaxStoreRestarts
      /\ restarts' = [restarts EXCEPT !.store = @ + 1]
      /\ UNCHANGED <<counter, pending, sent, acked, unsigned, wrapped, stored,
                     unheard, skipped>>
  BY DEF StoreRestart, node
<1>2. /\ restarts' \in [node : 0 .. MaxNodeRestarts, store : 0 .. MaxStoreRestarts]
      /\ restarts' # [node |-> 0, store |-> 0]
  <2>1. restarts \in [node : 0 .. MaxNodeRestarts, store : 0 .. MaxStoreRestarts]
    BY DEF IInv, TypeOK
  <2>2. restarts.store \in 0 .. MaxStoreRestarts
    BY <2>1
  <2>3. restarts.store + 1 \in 1 .. MaxStoreRestarts
    BY <1>1, <2>2
  <2>4. restarts'.store = restarts.store + 1
    BY <1>1, <2>1
  <2>5. restarts' \in [node : 0 .. MaxNodeRestarts, store : 0 .. MaxStoreRestarts]
    BY <1>1, <2>1, <2>3
  <2>6. restarts'.store # 0
    BY <2>3, <2>4
  <2>7. QED
    BY <2>5, <2>6
<1>3. exposed' \subseteq DOMAIN sent
  <2>1. pending.item \in DOMAIN sent \/ pending.item = 0
    BY PendingCases DEF None
  <2>2. QED
    BY <1>1, <2>1 DEF IInv, TypeOK
<1>4. TypeOK'
  BY <1>1, <1>2, <1>3 DEF IInv, TypeOK, LastSeen
<1>5. StoredIsKnown'
  <2>1. pending.op = "DS" => pending.item \in exposed'
    BY <1>1, PendingCases
  <2>2. QED
    BY <1>1, <2>1 DEF StoredIsKnown
<1>6. PendingIsNewest' /\ UnsentIsUnstored' /\ UnstoredIsUnheard' /\ unheard' < MaxPktNum
  BY <1>1 DEF IInv, PendingIsNewest, UnsentIsUnstored, UnstoredIsUnheard
<1>7. InStep' /\ FirstSession'
  BY <1>1, <1>2 DEF InStep, FirstSession
<1>8. AckedIsInDatabase' /\ StoredOnce'
  BY <1>1 DEF IInv, AckedIsInDatabase, StoredOnce
<1>9. QED
  BY <1>4, <1>5, <1>6, <1>7, <1>8 DEF IInv

----------------------------------------------------------------------------
(* The theorems.                                                           *)

LEMMA InitIInv ==
  ASSUME Init
  PROVE  IInv
<1>1. /\ counter = 0 /\ pending = None
      /\ last = 0 /\ missed = 0 /\ stored = [item \in 1 .. MaxItems |-> 0]
      /\ sent = <<>> /\ acked = {}
      /\ unheard = 0 /\ skipped = 0 /\ exposed = {}
      /\ wrapped = FALSE /\ unsigned = FALSE
      /\ restarts = [node |-> 0, store |-> 0]
  BY DEF Init
<1>2. None.op = "None" /\ Len(sent) = 0 /\ DOMAIN sent = {} /\ sent \in Seq(PktNum)
  BY <1>1 DEF None
<1>3. TypeOK
  <2>1. /\ restarts \in [node : 0 .. MaxNodeRestarts, store : 0 .. MaxStoreRestarts]
        /\ stored \in [1 .. MaxItems -> Nat]
    BY <1>1
  <2>2. acked \subseteq DOMAIN sent /\ exposed \subseteq DOMAIN sent
    BY <1>1
  <2>3. counter \in LastSeen /\ last \in LastSeen
    BY <1>1 DEF LastSeen
  <2>4. pending \in [op : {"RC", "DS"}, num : PktNum, item : 0 .. Len(sent),
                     copies : 0 .. MaxCopies] \cup {None}
    BY <1>1
  <2>5. missed \in Int /\ unheard \in Nat /\ skipped \in Nat
    BY DEF Init
  <2>6. wrapped \in BOOLEAN /\ unsigned \in BOOLEAN
    BY Zenon DEF Init
  <2>7. QED
    BY <1>2, <2>1, <2>2, <2>3, <2>4, <2>5, <2>6 DEF TypeOK
<1>4. PendingIsNewest /\ UnsentIsUnstored /\ unheard < MaxPktNum
  BY <1>1, <1>2 DEF PendingIsNewest, UnsentIsUnstored
<1>5. InStep /\ UnstoredIsUnheard /\ StoredIsKnown /\ FirstSession
  BY <1>1, <1>2 DEF InStep, UnstoredIsUnheard, StoredIsKnown, FirstSession
<1>6. AckedIsInDatabase /\ StoredOnce
  BY <1>1, <1>2 DEF AckedIsInDatabase, StoredOnce
<1>7. QED
  BY <1>3, <1>4, <1>5, <1>6 DEF IInv

LEMMA NextIInv ==
  ASSUME IInv, [Next]_vars
  PROVE  IInv'
<1>1. CASE Next
  BY <1>1, SendSignOnKeeps, SendDataKeeps, GiveUpKeeps, NodeRestartKeeps, DeliverKeeps,
     StoreRestartKeeps DEF Next
<1>2. CASE UNCHANGED vars
  BY <1>2 DEF vars, node, store, ghost, IInv, TypeOK, PendingIsNewest, UnsentIsUnstored,
              InStep, UnstoredIsUnheard, StoredIsKnown, FirstSession, AckedIsInDatabase,
              StoredOnce
<1>3. QED
  BY <1>1, <1>2

LEMMA SpecIInv == Spec => []IInv
  BY InitIInv, NextIInv, PTL DEF Spec

(***************************************************************************)
(* The numbers stay in 16 bits on both sides, and what is stored and       *)
(* acknowledged is what was sent (set_pkt_number, check_duplicate_pkt_num).*)
(***************************************************************************)
THEOREM TypeCorrect == Spec => []TypeOK
<1>1. IInv => TypeOK
  BY DEF IInv
<1>2. QED
  BY <1>1, SpecIInv, PTL

(***************************************************************************)
(* No new data is taken for a repeated packet: what a node has seen        *)
(* acknowledged is in the database, over restarts and past the wrap of the *)
(* numbers, unless it went on without its sign-on having been answered     *)
(* (check_duplicate_pkt_num, store_data).                                  *)
(***************************************************************************)
THEOREM AcknowledgedIsInDatabase == Spec => []AckedIsInDatabase
<1>1. IInv => AckedIsInDatabase
  BY DEF IInv
<1>2. QED
  BY <1>1, SpecIInv, PTL

(***************************************************************************)
(* However often data is repeated, it is in the database once, but for the *)
(* packet at the top of the number space and those that waited while the   *)
(* store restarted (check_duplicate_pkt_num).                              *)
(***************************************************************************)
THEOREM DataIsStoredOnce == Spec => []StoredOnce
<1>1. IInv => StoredOnce
  BY DEF IInv
<1>2. QED
  BY <1>1, SpecIInv, PTL

(***************************************************************************)
(* Before the first wrap and the first restart, packets_missed is the      *)
(* number of packets that never arrived between the first and the last     *)
(* that did (check_duplicate_pkt_num).                                     *)
(***************************************************************************)
THEOREM MissedCountIsExact == Spec => []MissedIsExact
<1>1. IInv => MissedIsExact
  BY DEF IInv, FirstSession, MissedIsExact
<1>2. QED
  BY <1>1, SpecIInv, PTL

=============================================================================
