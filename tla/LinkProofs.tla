----------------------------- MODULE LinkProofs -----------------------------
(***************************************************************************)
(* Proofs about Link: what a Python node and the store may conclude from   *)
(* an answer that does not name what it answers, for every width of the    *)
(* packet numbers, every number of losses, restarts and messages in        *)
(* transit, and every limit of the store.                                  *)
(***************************************************************************)
EXTENDS Link, StoreNodeProofs, ListsProofs

USE LinkAssumption

----------------------------------------------------------------------------
(* The inductive invariant.                                                *)

LinkTyped ==
  /\ SafeInv
  /\ LinkTypeOK
  /\ py.out = <<>> /\ py.taken = {}
  /\ lost \in Nat /\ hasty \in BOOLEAN /\ crossed \in BOOLEAN
  /\ node_session \in Nat \ {0} /\ store_session \in Nat \ {0}
  /\ node_session + store_session <= MaxRestarts + 2

\* No two elements of s are in S.
AtMostOne(s, S) == \A i, j \in DOMAIN s : s[i] \in S /\ s[j] \in S => i = j

UpData   == {m \in Upward : m.op = "DS"}
UpAcks   == {m \in Upward : m.op = "AS"}
DownAcks == {m \in Downward : m.op = "AN"}
DownAsks == {m \in Downward : m.op \in {"DN", "SC"}}

Some(s, S) == \E i \in DOMAIN s : s[i] \in S

(***************************************************************************)
(* An exchange is open on one topic or on the other, once: `asks` of one   *)
(* topic are answered by `answers` on the other.                           *)
(***************************************************************************)
OnceOpen(s, asks, t, answers) ==
  /\ AtMostOne(s, asks) /\ AtMostOne(t, answers)
  /\ ~(Some(s, asks) /\ Some(t, answers))

\* The node's data, and the AN that answers it.
DataIsAnswered ==
  /\ OnceOpen(to_store, UpData, to_node, DownAcks)
  /\ Some(to_store, UpData) \/ Some(to_node, DownAcks) => py.wait.waiting
  /\ sent /\ py.wait.waiting =>
       /\ \A i \in DOMAIN to_store :
            to_store[i] \in UpData => to_store[i].id = <<node_session, py.wait.pkt.num>>
       /\ Some(to_node, DownAcks) =>
            \/ py.wait.pkt.num \in stored
            \/ node_session > 1 /\ py.wait.pkt.num = first

\* The numbers of the node's packets on the way, and what the store has seen.
Later == {m \in Upward \X Upward :
            \/ m[1].id[1] < m[2].id[1]
            \/ m[1].id[1] = m[2].id[1] /\ m[1].id[2] < m[2].id[2]}

NumbersGrow ==
  /\ \A i \in DOMAIN to_store :
       /\ to_store[i].id[1] <= node_session
       /\ to_store[i].id[1] = node_session => to_store[i].id[2] <= py.pkt_num
  /\ InOrder(to_store, Later)
  /\ first # 0 =>
       /\ node[a].last_packet_num <= py.pkt_num
       /\ \A i \in DOMAIN to_store :
            to_store[i].id[1] = node_session /\ node[a].last_packet_num < to_store[i].id[2]
  /\ node_session = 1 /\ first = 0 => node[a].last_packet_num = 0

DataInv ==
  /\ NumbersGrow
  /\ node_session = 1 => ~crossed
  /\ ~crossed => DataIsAnswered

\* The store's data, and the AS that answers it.
Recorded(c) == {c.out[i].num : i \in {j \in DOMAIN c.out : c.out[j].kind = "insert"
                                                            /\ c.out[j].op = "DN"}}

AskIsAnswered ==
  LET wait == node[a].wait
  IN  /\ OnceOpen(to_node, DownAsks, to_store, UpAcks)
      /\ Some(to_node, DownAsks) \/ Some(to_store, UpAcks) => wait.waiting
      /\ \A i \in DOMAIN to_node :
           to_node[i] \in DownAsks =>
             /\ to_node[i].id = <<store_session, wait.pkt.num>>
             /\ to_node[i].op = wait.pkt.op
      /\ Some(to_store, UpAcks) /\ wait.do_insert => wait.pkt.num \in taken
      /\ Recorded(node[a]) \subseteq taken

AskInv == ~hasty => AskIsAnswered

LinkInv == LinkTyped /\ DataInv /\ AskInv

----------------------------------------------------------------------------
(* Topics.                                                                 *)

LEMMA SomeIsElement ==
  ASSUME NEW s, NEW S
  PROVE  Some(s, S) <=> Elements(s) \cap S # {}
  BY DEF Some, Elements

LEMMA ConcatOf ==
  ASSUME NEW K, NEW s \in Seq(K), NEW t \in Seq(K)
  PROVE  /\ s \o t \in Seq(K) /\ Len(s \o t) = Len(s) + Len(t)
         /\ DOMAIN (s \o t) = 1 .. Len(s) + Len(t)
         /\ \A i \in 1 .. Len(s) + Len(t) :
              (s \o t)[i] = IF i <= Len(s) THEN s[i] ELSE t[i - Len(s)]
  OBVIOUS

LEMMA SomeOfConcat ==
  ASSUME NEW K, NEW s \in Seq(K), NEW t \in Seq(K), NEW S
  PROVE  Some(s \o t, S) <=> Some(s, S) \/ Some(t, S)
<1>1. Elements(s \o t) = Elements(s) \cup Elements(t)
  BY ElementsOfConcat
<1>2. QED
  BY <1>1, SomeIsElement

LEMMA AtMostOneOfConcat ==
  ASSUME NEW K, NEW s \in Seq(K), NEW t \in Seq(K), NEW S,
         AtMostOne(s, S), AtMostOne(t, S), ~(Some(s, S) /\ Some(t, S))
  PROVE  AtMostOne(s \o t, S)
<1>1. /\ Len(s) \in Nat /\ Len(t) \in Nat
      /\ DOMAIN s = 1 .. Len(s) /\ DOMAIN t = 1 .. Len(t)
      /\ DOMAIN (s \o t) = 1 .. Len(s) + Len(t)
      /\ \A i \in 1 .. Len(s) + Len(t) :
           (s \o t)[i] = IF i <= Len(s) THEN s[i] ELSE t[i - Len(s)]
  OBVIOUS
<1> DEFINE u == s \o t
<1> HIDE DEF u
<1>2. SUFFICES ASSUME NEW i \in 1 .. Len(s) + Len(t), NEW j \in 1 .. Len(s) + Len(t),
                      u[i] \in S, u[j] \in S
               PROVE  i = j
  BY <1>1 DEF AtMostOne, u
<1>3. \A k \in 1 .. Len(s) + Len(t) :
        IF k <= Len(s) THEN k \in DOMAIN s /\ u[k] = s[k]
        ELSE k - Len(s) \in DOMAIN t /\ u[k] = t[k - Len(s)]
  BY <1>1 DEF u
<1>4. CASE i <= Len(s) /\ j <= Len(s)
  BY <1>2, <1>3, <1>4 DEF AtMostOne
<1>5. CASE ~(i <= Len(s)) /\ ~(j <= Len(s))
  <2>1. i - Len(s) = j - Len(s)
    BY <1>2, <1>3, <1>5 DEF AtMostOne
  <2>2. QED
    BY <1>1, <2>1
<1>6. CASE (i <= Len(s)) # (j <= Len(s))
  BY <1>2, <1>3, <1>6 DEF Some
<1>7. QED
  BY <1>4, <1>5, <1>6

\* Taking the first message from a topic.
LEMMA TailOf ==
  ASSUME NEW K, NEW s \in Seq(K), s # <<>>
  PROVE  /\ Head(s) = s[1] /\ Head(s) \in K /\ Tail(s) \in Seq(K)
         /\ Len(s) \in Nat /\ Len(s) >= 1 /\ Len(Tail(s)) = Len(s) - 1
         /\ DOMAIN s = 1 .. Len(s) /\ DOMAIN Tail(s) = 1 .. Len(s) - 1
         /\ \A i \in 1 .. Len(s) - 1 : Tail(s)[i] = s[i + 1]
<1>1. /\ Len(s) \in Nat /\ Len(s) >= 1 /\ DOMAIN s = 1 .. Len(s)
  OBVIOUS
<1>2. /\ Tail(s) \in Seq(K) /\ Len(Tail(s)) = Len(s) - 1
      /\ \A i \in 1 .. Len(s) - 1 : Tail(s)[i] = s[i + 1]
  BY <1>1
<1>3. Head(s) = s[1] /\ s[1] \in K
  BY <1>1
<1>4. QED
  BY <1>1, <1>2, <1>3

LEMMA SomeOfTail ==
  ASSUME NEW K, NEW s \in Seq(K), s # <<>>, NEW S
  PROVE  Some(s, S) <=> Head(s) \in S \/ Some(Tail(s), S)
<1> DEFINE t == Tail(s)
<1>1. /\ Head(s) = s[1] /\ Len(s) \in Nat /\ Len(s) >= 1
      /\ DOMAIN s = 1 .. Len(s) /\ DOMAIN t = 1 .. Len(s) - 1
      /\ \A i \in 1 .. Len(s) - 1 : t[i] = s[i + 1]
  BY TailOf
<1> HIDE DEF t
<1>2. ASSUME NEW i \in DOMAIN s, s[i] \in S, i # 1 PROVE Some(t, S)
  <2>1. i - 1 \in 1 .. Len(s) - 1 /\ s[i] = t[i - 1]
    BY <1>1, <1>2
  <2>2. QED
    BY <1>1, <1>2, <2>1 DEF Some
<1>3. ASSUME Some(t, S) PROVE Some(s, S)
  <2>1. PICK i \in 1 .. Len(s) - 1 : t[i] \in S
    BY <1>1, <1>3 DEF Some
  <2>2. i + 1 \in DOMAIN s /\ s[i + 1] \in S
    BY <1>1, <2>1
  <2>3. QED
    BY <2>2 DEF Some
<1>4. ASSUME s[1] \in S PROVE Some(s, S)
  BY <1>1, <1>4 DEF Some
<1>5. QED
  BY <1>1, <1>2, <1>3, <1>4 DEF Some, t

LEMMA AtMostOneOfTail ==
  ASSUME NEW K, NEW s \in Seq(K), s # <<>>, NEW S, AtMostOne(s, S)
  PROVE  /\ AtMostOne(Tail(s), S)
         /\ Head(s) \in S => ~Some(Tail(s), S)
<1> DEFINE t == Tail(s)
<1>1. /\ Head(s) = s[1] /\ Len(s) \in Nat /\ Len(s) >= 1
      /\ DOMAIN s = 1 .. Len(s) /\ DOMAIN t = 1 .. Len(s) - 1
      /\ \A i \in 1 .. Len(s) - 1 : t[i] = s[i + 1]
  BY TailOf
<1> HIDE DEF t
<1>2. ASSUME NEW i \in DOMAIN t, NEW j \in DOMAIN t, t[i] \in S, t[j] \in S
      PROVE  i = j
  <2>1. i + 1 \in DOMAIN s /\ j + 1 \in DOMAIN s /\ s[i + 1] \in S /\ s[j + 1] \in S
    BY <1>1, <1>2
  <2>2. i + 1 = j + 1
    BY <2>1 DEF AtMostOne
  <2>3. QED
    BY <1>1, <2>2
<1>3. ASSUME s[1] \in S, NEW i \in DOMAIN t, t[i] \in S
      PROVE  FALSE
  <2>1. i + 1 \in DOMAIN s /\ s[i + 1] \in S /\ 1 \in DOMAIN s
    BY <1>1, <1>3
  <2>2. i + 1 = 1
    BY <1>3, <2>1 DEF AtMostOne
  <2>3. QED
    BY <1>1, <2>2
<1>4. QED
  BY <1>1, <1>2, <1>3 DEF AtMostOne, Some, t

LEMMA InOrderOfTail ==
  ASSUME NEW K, NEW s \in Seq(K), s # <<>>, NEW R, InOrder(s, R)
  PROVE  /\ InOrder(Tail(s), R)
         /\ \A i \in DOMAIN Tail(s) : <<Head(s), Tail(s)[i]>> \in R
<1> DEFINE t == Tail(s)
<1>1. /\ Head(s) = s[1] /\ Len(s) \in Nat /\ Len(s) >= 1
      /\ DOMAIN s = 1 .. Len(s) /\ DOMAIN t = 1 .. Len(s) - 1
      /\ \A i \in 1 .. Len(s) - 1 : t[i] = s[i + 1]
      /\ Len(t) = Len(s) - 1
  BY TailOf
<1> HIDE DEF t
<1>2. ASSUME NEW i \in 1 .. Len(t), NEW j \in 1 .. Len(t), i < j
      PROVE  <<t[i], t[j]>> \in R
  <2>1. /\ i + 1 \in 1 .. Len(s) /\ j + 1 \in 1 .. Len(s) /\ i + 1 < j + 1
        /\ t[i] = s[i + 1] /\ t[j] = s[j + 1]
    BY <1>1, <1>2
  <2>2. QED
    BY <2>1 DEF InOrder
<1>3. ASSUME NEW i \in DOMAIN t PROVE <<s[1], t[i]>> \in R
  <2>1. /\ 1 \in 1 .. Len(s) /\ i + 1 \in 1 .. Len(s) /\ 1 < i + 1
        /\ t[i] = s[i + 1]
    BY <1>1, <1>3
  <2>2. QED
    BY <2>1 DEF InOrder
<1>4. QED
  BY <1>1, <1>2, <1>3 DEF InOrder, t

\* Losing one message.
LEMMA WithoutOf ==
  ASSUME NEW K, NEW s \in Seq(K), NEW i \in DOMAIN s
  PROVE  LET t == Without(s, i)
         IN  /\ t \in Seq(K) /\ Len(s) \in Nat /\ Len(t) = Len(s) - 1
             /\ DOMAIN s = 1 .. Len(s) /\ DOMAIN t = 1 .. Len(s) - 1
             /\ \A j \in 1 .. Len(s) - 1 : t[j] = IF j < i THEN s[j] ELSE s[j + 1]
<1> DEFINE u == SubSeq(s, 1, i - 1)
           v == SubSeq(s, i + 1, Len(s))
<1>1. Len(s) \in Nat /\ DOMAIN s = 1 .. Len(s) /\ i \in 1 .. Len(s)
  OBVIOUS
<1>2. /\ u \in Seq(K) /\ Len(u) = i - 1
      /\ \A j \in 1 .. i - 1 : u[j] = s[j]
  BY <1>1
<1>3. /\ v \in Seq(K) /\ Len(v) = Len(s) - i
      /\ \A j \in 1 .. Len(s) - i : v[j] = s[j + i]
  <2>1. /\ v \in Seq(K) /\ Len(v) = Len(s) - i
        /\ \A j \in 1 .. Len(s) - i : v[j] = s[i + 1 + j - 1]
    BY <1>1
  <2>2. \A j \in 1 .. Len(s) - i : i + 1 + j - 1 = j + i
    BY <1>1
  <2>3. QED
    BY <2>1, <2>2
<1> HIDE DEF u, v
<1>4. /\ u \o v \in Seq(K) /\ Len(u \o v) = Len(u) + Len(v)
      /\ DOMAIN (u \o v) = 1 .. Len(u) + Len(v)
      /\ \A j \in 1 .. Len(u) + Len(v) :
           (u \o v)[j] = IF j <= Len(u) THEN u[j] ELSE v[j - Len(u)]
  BY <1>2, <1>3, ConcatOf
<1>5. ASSUME NEW j \in 1 .. Len(s) - 1
      PROVE  (u \o v)[j] = IF j < i THEN s[j] ELSE s[j + 1]
  <2>1. CASE j < i
    BY <1>1, <1>2, <1>3, <1>4, <2>1
  <2>2. CASE ~(j < i)
    <3>1. j - (i - 1) \in 1 .. Len(s) - i /\ j \in 1 .. Len(u) + Len(v) /\ ~(j <= Len(u))
      BY <1>1, <1>2, <1>3, <2>2
    <3>2. (u \o v)[j] = v[j - (i - 1)]
      BY <1>2, <1>4, <3>1
    <3>3. v[j - (i - 1)] = s[j - (i - 1) + i]
      BY <1>3, <3>1
    <3>4. j - (i - 1) + i = j + 1
      BY <1>1
    <3>5. QED
      BY <2>2, <3>2, <3>3, <3>4
  <2>3. QED
    BY <2>1, <2>2
<1>6. /\ Len(u \o v) = Len(s) - 1 /\ DOMAIN (u \o v) = 1 .. Len(s) - 1
      /\ u \o v \in Seq(K)
  BY <1>1, <1>2, <1>3, <1>4
<1>7. Without(s, i) = u \o v
  BY DEF Without, u, v
<1>8. QED
  BY <1>1, <1>5, <1>6, <1>7

\* A message is lost: fewer remain, in the same order.
Thinner(s, t) ==
  /\ \A S : /\ Some(t, S) => Some(s, S)
            /\ AtMostOne(s, S) => AtMostOne(t, S)
  /\ \A R : InOrder(s, R) => InOrder(t, R)
  /\ \A i \in DOMAIN t : \E j \in DOMAIN s : t[i] = s[j]

LEMMA LossThins ==
  ASSUME NEW K, NEW s \in Seq(K), NEW i \in DOMAIN s
  PROVE  Without(s, i) \in Seq(K) /\ Thinner(s, Without(s, i)) /\ Len(Without(s, i)) <= Len(s)
<1> DEFINE t == Without(s, i)
           Old(j) == IF j < i THEN j ELSE j + 1
<1>1. /\ t \in Seq(K) /\ Len(s) \in Nat /\ Len(t) = Len(s) - 1
      /\ DOMAIN s = 1 .. Len(s) /\ DOMAIN t = 1 .. Len(s) - 1
      /\ \A j \in 1 .. Len(s) - 1 : t[j] = IF j < i THEN s[j] ELSE s[j + 1]
  BY WithoutOf
<1> HIDE DEF t
<1>2. \A j \in DOMAIN t : Old(j) \in DOMAIN s /\ t[j] = s[Old(j)]
  BY <1>1
<1>3. \A j, k \in DOMAIN t : /\ j < k => Old(j) < Old(k)
                             /\ Old(j) = Old(k) => j = k
  BY <1>1
<1> HIDE DEF Old
<1>4. ASSUME NEW S PROVE /\ Some(t, S) => Some(s, S)
                         /\ AtMostOne(s, S) => AtMostOne(t, S)
  <2>1. Some(t, S) => Some(s, S)
    BY <1>2 DEF Some
  <2>2. ASSUME AtMostOne(s, S), NEW j \in DOMAIN t, NEW k \in DOMAIN t, t[j] \in S, t[k] \in S
        PROVE  j = k
    <3>1. Old(j) = Old(k)
      BY <1>2, <2>2 DEF AtMostOne
    <3>2. QED
      BY <1>3, <3>1
  <2>3. QED
    BY <2>1, <2>2 DEF AtMostOne
<1>5. ASSUME NEW R, InOrder(s, R), NEW j \in DOMAIN t, NEW k \in DOMAIN t, j < k
      PROVE  <<t[j], t[k]>> \in R
  BY <1>2, <1>3, <1>5 DEF InOrder
<1>6. QED
  BY <1>1, <1>2, <1>4, <1>5 DEF Thinner, InOrder, t

\* Taking the first message from a topic thins it as well.
LEMMA TailThins ==
  ASSUME NEW K, NEW s \in Seq(K), s # <<>>
  PROVE  Tail(s) \in Seq(K) /\ Thinner(s, Tail(s)) /\ Len(Tail(s)) <= Len(s)
<1>1. /\ Tail(s) \in Seq(K) /\ Len(Tail(s)) = Len(s) - 1 /\ Len(s) \in Nat
      /\ DOMAIN Tail(s) = 1 .. Len(s) - 1 /\ DOMAIN s = 1 .. Len(s)
      /\ \A i \in 1 .. Len(s) - 1 : Tail(s)[i] = s[i + 1]
  BY TailOf
<1>2. \A S : Some(Tail(s), S) => Some(s, S)
  BY SomeOfTail
<1>3. \A S : AtMostOne(s, S) => AtMostOne(Tail(s), S)
  BY AtMostOneOfTail
<1>4. \A R : InOrder(s, R) => InOrder(Tail(s), R)
  BY InOrderOfTail
<1>5. \A i \in DOMAIN Tail(s) : i + 1 \in DOMAIN s /\ Tail(s)[i] = s[i + 1]
  BY <1>1
<1>6. QED
  BY <1>1, <1>2, <1>3, <1>4, <1>5 DEF Thinner

\* What Filter keeps of a sequence with at most one element in S.
LEMMA AtMostOneIsOrder ==
  ASSUME NEW K, NEW s \in Seq(K), NEW S
  PROVE  AtMostOne(s, S) <=> InOrder(s, {p \in K \X K : ~(p[1] \in S /\ p[2] \in S)})
<1> DEFINE R == {p \in K \X K : ~(p[1] \in S /\ p[2] \in S)}
<1>1. \A i \in DOMAIN s : s[i] \in K /\ i \in Int
  OBVIOUS
<1>2. \A i, j \in DOMAIN s : <<s[i], s[j]>> \in R <=> ~(s[i] \in S /\ s[j] \in S)
  BY <1>1
<1> HIDE DEF R
<1>3. ASSUME AtMostOne(s, S) PROVE InOrder(s, R)
  BY <1>1, <1>2, <1>3 DEF AtMostOne, InOrder
<1>4. ASSUME InOrder(s, R), NEW i \in DOMAIN s, NEW j \in DOMAIN s, s[i] \in S, s[j] \in S
      PROVE  i = j
  <2>1. ~(i < j) /\ ~(j < i)
    BY <1>2, <1>4 DEF InOrder
  <2>2. QED
    BY <1>1, <2>1
<1>5. QED
  BY <1>3, <1>4 DEF AtMostOne, R

LEMMA FilterAtMostOne ==
  ASSUME NEW K, NEW s \in Seq(K), NEW S, NEW T, AtMostOne(s, S)
  PROVE  AtMostOne(Filter(s, T), S)
<1> DEFINE R == {p \in K \X K : ~(p[1] \in S /\ p[2] \in S)}
<1>1. InOrder(s, R) /\ Filter(s, T) \in Seq(K)
  BY AtMostOneIsOrder, FilterElements
<1>2. InOrder(Filter(s, T), R)
  BY <1>1, FilterInOrder
<1>3. QED
  BY <1>1, <1>2, AtMostOneIsOrder

----------------------------------------------------------------------------
(* The node.                                                               *)

\* What a method of PyNode may publish: one packet, with a number of its own,
\* unless a packet waits.
Publishes(c, d, ops) ==
  \/ d.out = <<>>
  \/ /\ ~c.wait.waiting
     /\ Len(d.out) = 1
     /\ d.out[1].op \in ops /\ d.out[1].num = d.pkt_num
     /\ d.pkt_num \in PktNum /\ d.pkt_num > c.pkt_num

PyGoesOn(c, d, ops) ==
  /\ d \in Py!PyRec
  /\ d.pkt_num >= c.pkt_num
  /\ Publishes(c, d, ops)

LEMMA PyIdle ==
  ASSUME NEW c \in Py!PyRec
  PROVE  LET d == Py!Idle(c)
         IN  /\ d \in Py!PyRec /\ d.out = <<>> /\ d.taken = {} /\ ~d.raised
             /\ d.wait = c.wait /\ d.pkt_num = c.pkt_num /\ d.subscribed = c.subscribed
<1>1. <<>> \in Seq(Py!PySent) /\ {} \in SUBSET Py!PktNum
  OBVIOUS
<1>2. QED
  BY <1>1 DEF Py!PyRec, Py!Idle

LEMMA PyWaitTypes ==
  /\ \A w \in Py!PyWaits : w.waiting \in BOOLEAN
  /\ \A w \in Py!PyWaits : w.waiting => w.pkt.num \in PktNum
  /\ Py!clear_wait \in Py!PyWaits /\ ~Py!clear_wait.waiting
  /\ \A num \in PktNum, fits \in BOOLEAN :
       LET pkt == [op |-> "DS", num |-> num, fits |-> fits]
       IN  /\ Py!set_wait(pkt, FALSE) \in Py!PyWaits
           /\ Py!set_wait(pkt, FALSE).waiting /\ Py!set_wait(pkt, FALSE).pkt.num = num
<1>1. ASSUME NEW pkt \in Py!PyWaitPkts
      PROVE  LET w == Py!set_wait(pkt, FALSE)
             IN  w \in Py!PyWaits /\ w.waiting /\ w.waiting \in BOOLEAN /\ w.pkt = pkt
  BY DEF Py!PyWaits, Py!set_wait
<1>2. /\ Py!clear_wait \in Py!PyWaits /\ ~Py!clear_wait.waiting
      /\ Py!clear_wait.waiting \in BOOLEAN
  BY DEF Py!PyWaits, Py!clear_wait
<1>3. \A pkt \in Py!PyWaitPkts : pkt.num \in PktNum
  BY DEF Py!PyWaitPkts, Py!PktNum, PktNum
<1>4. ASSUME NEW w \in Py!PyWaits, w # Py!clear_wait
      PROVE  \E pkt \in Py!PyWaitPkts : w = Py!set_wait(pkt, FALSE)
  BY <1>4 DEF Py!PyWaits
<1>5. ASSUME NEW num \in PktNum, NEW fits \in BOOLEAN
      PROVE  [op |-> "DS", num |-> num, fits |-> fits] \in Py!PyWaitPkts
  BY DEF Py!PyWaitPkts, Py!PktNum, PktNum
<1>6. /\ \A w \in Py!PyWaits : w.waiting \in BOOLEAN
      /\ \A w \in Py!PyWaits : w.waiting => w.pkt.num \in PktNum
  BY <1>1, <1>2, <1>3, <1>4
<1>7. ASSUME NEW num \in PktNum, NEW fits \in BOOLEAN
      PROVE  LET pkt == [op |-> "DS", num |-> num, fits |-> fits]
             IN  /\ Py!set_wait(pkt, FALSE) \in Py!PyWaits
                 /\ Py!set_wait(pkt, FALSE).waiting
                 /\ Py!set_wait(pkt, FALSE).pkt.num = num
  <2> DEFINE pkt == [op |-> "DS", num |-> num, fits |-> fits]
  <2>1. pkt \in Py!PyWaitPkts /\ pkt.num = num
    BY <1>5
  <2> HIDE DEF pkt
  <2>2. /\ Py!set_wait(pkt, FALSE) \in Py!PyWaits
        /\ Py!set_wait(pkt, FALSE).waiting
        /\ Py!set_wait(pkt, FALSE).pkt.num = num
    BY <1>1, <2>1
  <2>3. QED
    BY <2>2 DEF pkt
<1>8. QED
  BY <1>2, <1>6, <1>7

LEMMA PyConstruct ==
  ASSUME NEW c \in Py!PyRec, ~c.raised
  PROVE  LET d == Py!Construct(c)
         IN  /\ d \in Py!PyRec /\ d.out = c.out /\ d.wait = c.wait /\ d.taken = c.taken
             /\ d.pkt_num >= c.pkt_num
             /\ ~d.raised => d.pkt_num \in PktNum /\ d.pkt_num > c.pkt_num
<1> DEFINE e == [c EXCEPT !.pkt_num = c.pkt_num + 1]
           f == [[c EXCEPT !.pkt_num = MaxPktNum + 1] EXCEPT !.raised = TRUE]
<1>1. c.pkt_num \in 0 .. MaxPktNum + 1 /\ MaxPktNum \in Nat \ {0}
  BY MaxPktNumAssumption DEF Py!PyRec
<1>2. CASE c.pkt_num >= MaxPktNum
  <2>1. Py!Construct(c) = f
    BY <1>2 DEF Py!Construct
  <2> DEFINE g == [c EXCEPT !.pkt_num = MaxPktNum + 1]
  <2>2. /\ g \in Py!PyRec /\ g.out = c.out /\ g.wait = c.wait /\ g.taken = c.taken
        /\ g.pkt_num = MaxPktNum + 1 /\ f = [g EXCEPT !.raised = TRUE]
    BY <1>1 DEF Py!PyRec
  <2> HIDE DEF g, f
  <2>3. /\ f \in Py!PyRec /\ f.out = c.out /\ f.wait = c.wait /\ f.taken = c.taken
        /\ f.pkt_num = MaxPktNum + 1 /\ f.raised
    BY <2>2 DEF Py!PyRec
  <2>4. QED
    BY <1>1, <2>1, <2>3
<1>3. CASE ~(c.pkt_num >= MaxPktNum)
  <2>1. Py!Construct(c) = e
    BY <1>3 DEF Py!Construct
  <2>2. /\ e \in Py!PyRec /\ e.out = c.out /\ e.wait = c.wait /\ e.taken = c.taken
        /\ e.pkt_num = c.pkt_num + 1
    BY <1>1, <1>3 DEF Py!PyRec
  <2>3. QED
    BY <1>1, <1>3, <2>1, <2>2 DEF PktNum
<1>4. QED
  BY <1>2, <1>3

LEMMA PyPublish ==
  ASSUME NEW c \in Py!PyRec, c.out = <<>>, NEW op \in Py!PyOps, NEW fits \in BOOLEAN,
         ~c.raised => c.pkt_num \in PktNum
  PROVE  LET pkt == Py!PktOf(c, op, fits)
             d == Py!publish_pkt(c, pkt)
         IN  /\ d \in Py!PyRec /\ d.wait = c.wait /\ d.taken = c.taken
             /\ d.raised = c.raised /\ d.pkt_num = c.pkt_num
             /\ IF c.raised \/ c.wait.waiting \/ ~fits THEN d.out = <<>>
                ELSE /\ Len(d.out) = 1 /\ d.out # <<>>
                     /\ d.out[1].op = op /\ d.out[1].num = c.pkt_num
<1> DEFINE pkt == Py!PktOf(c, op, fits)
           d == Py!publish_pkt(c, pkt)
           skipped == c.raised \/ c.wait.waiting \/ ~fits
<1>1. c.wait.waiting \in BOOLEAN
  BY PyWaitTypes DEF Py!PyRec
<1>2. CASE skipped
  <2>1. d = c
    BY <1>2 DEF Py!publish_pkt, Py!PktOf
  <2>2. QED
    BY <1>2, <2>1
<1>3. CASE ~skipped
  <2>1. pkt \in Py!PySent /\ pkt.op = op /\ pkt.num = c.pkt_num
    BY <1>3 DEF Py!PktOf, Py!PySent, Py!PktNum, PktNum
  <2>2. d = [c EXCEPT !.out = Append(c.out, pkt)]
    BY <1>3 DEF Py!publish_pkt, Py!PktOf
  <2> HIDE DEF pkt
  <2>3. /\ Append(<<>>, pkt) \in Seq(Py!PySent)
        /\ Len(Append(<<>>, pkt)) = 1 /\ Append(<<>>, pkt)[1] = pkt
    BY <2>1
  <2> DEFINE out == Append(<<>>, pkt)
  <2>4. out # <<>>
    BY <2>3
  <2> HIDE DEF out, d
  <2>5. /\ d \in Py!PyRec /\ d.out = out /\ d.wait = c.wait /\ d.taken = c.taken
        /\ d.raised = c.raised /\ d.pkt_num = c.pkt_num
    BY <2>2, <2>3 DEF Py!PyRec, out
  <2>6. QED
    BY <1>3, <2>1, <2>3, <2>4, <2>5 DEF out, d, pkt
<1>4. QED
  BY <1>2, <1>3

LEMMA PySends ==
  ASSUME NEW c \in Py!PyRec, c.out = <<>>, ~c.raised, NEW op \in {"SS", "AS"}
  PROVE  LET d == Py!Send(c, op)
         IN  PyGoesOn(c, d, {op}) /\ d.wait = c.wait /\ d.taken = c.taken
<1> DEFINE e == Py!Construct(c)
           fits == TRUE
           pkt == Py!PktOf(e, op, fits)
           d == Py!publish_pkt(e, pkt)
<1>1. /\ e \in Py!PyRec /\ e.out = <<>> /\ e.wait = c.wait /\ e.taken = c.taken
      /\ e.pkt_num >= c.pkt_num
      /\ ~e.raised => e.pkt_num \in PktNum /\ e.pkt_num > c.pkt_num
  BY PyConstruct
<1>2. op \in Py!PyOps /\ fits \in BOOLEAN
  BY DEF Py!PyOps
<1> HIDE DEF e, fits
<1>3. /\ d \in Py!PyRec /\ d.wait = e.wait /\ d.taken = e.taken /\ d.pkt_num = e.pkt_num
      /\ IF e.raised \/ e.wait.waiting \/ ~fits THEN d.out = <<>>
         ELSE Len(d.out) = 1 /\ d.out[1].op = op /\ d.out[1].num = e.pkt_num
  BY <1>1, <1>2, PyPublish
<1>4. Py!Send(c, op) = d
  BY DEF Py!Send, e, fits
<1> HIDE DEF d
<1>5. QED
  BY <1>1, <1>3, <1>4 DEF PyGoesOn, Publishes, fits

\* send(): the node waits with the packet, whether it was published or not.
LEMMA PySendsData ==
  ASSUME NEW c \in Py!PyRec, NEW fits \in BOOLEAN
  PROVE  LET d == Py!send_data_to_store(c, fits)
         IN  /\ PyGoesOn(c, d, {"DS"})
             /\ IF d.raised THEN d.wait = c.wait /\ d.out = <<>>
                ELSE d.wait.waiting /\ d.wait.pkt.num = d.pkt_num
<1> DEFINE i == Py!Idle(c)
           e == Py!Construct(i)
           pkt == Py!PktOf(e, "DS", fits)
           f == Py!publish_pkt(e, pkt)
           g == [f EXCEPT !.wait = Py!set_wait(pkt, FALSE)]
           d == Py!send_data_to_store(c, fits)
<1>1. /\ i \in Py!PyRec /\ i.out = <<>> /\ ~i.raised
      /\ i.wait = c.wait /\ i.pkt_num = c.pkt_num
  BY PyIdle
<1> HIDE DEF i
<1>2. /\ e \in Py!PyRec /\ e.out = <<>> /\ e.wait = c.wait
      /\ e.pkt_num >= c.pkt_num
      /\ ~e.raised => e.pkt_num \in PktNum /\ e.pkt_num > c.pkt_num
  BY <1>1, PyConstruct
<1>3. "DS" \in Py!PyOps
  BY DEF Py!PyOps
<1> HIDE DEF e
<1>4. /\ f \in Py!PyRec /\ f.raised = e.raised /\ f.pkt_num = e.pkt_num
      /\ IF e.raised \/ e.wait.waiting \/ ~fits THEN f.out = <<>>
         ELSE Len(f.out) = 1 /\ f.out[1].op = "DS" /\ f.out[1].num = e.pkt_num
  BY <1>2, <1>3, PyPublish
<1>5. d = IF e.raised THEN e ELSE g
  BY DEF Py!send_data_to_store, e, i
<1>6. CASE e.raised
  BY <1>2, <1>5, <1>6 DEF PyGoesOn, Publishes
<1>7. CASE ~e.raised
  <2>1. pkt = [op |-> "DS", num |-> e.pkt_num, fits |-> fits]
    BY DEF Py!PktOf
  <2>2. /\ Py!set_wait(pkt, FALSE) \in Py!PyWaits
        /\ Py!set_wait(pkt, FALSE).waiting /\ Py!set_wait(pkt, FALSE).pkt.num = e.pkt_num
    <3> DEFINE num == e.pkt_num
    <3>1. num \in PktNum /\ pkt = [op |-> "DS", num |-> num, fits |-> fits]
      BY <1>2, <1>7, <2>1
    <3> HIDE DEF num, pkt
    <3>2. /\ Py!set_wait(pkt, FALSE) \in Py!PyWaits
          /\ Py!set_wait(pkt, FALSE).waiting /\ Py!set_wait(pkt, FALSE).pkt.num = num
      BY <3>1, PyWaitTypes
    <3>3. QED
      BY <3>2 DEF num
  <2> DEFINE w == Py!set_wait(pkt, FALSE)
  <2> HIDE DEF w, f
  <2>3. g = [f EXCEPT !.wait = w]
    BY DEF w
  <2> HIDE DEF g
  <2>4. /\ g \in Py!PyRec /\ g.wait = w /\ g.out = f.out
        /\ g.pkt_num = f.pkt_num /\ g.raised = f.raised
    BY <1>4, <2>2, <2>3 DEF Py!PyRec, w
  <2>5. w.waiting /\ w.pkt.num = e.pkt_num
    BY <2>2 DEF w
  <2> HIDE DEF d
  <2>6. QED
    BY <1>2, <1>4, <1>5, <1>7, <2>4, <2>5 DEF PyGoesOn, Publishes, d
<1>8. QED
  BY <1>6, <1>7

\* on_control_msg: an AN ends the wait; nothing else touches it.
LEMMA PyHandles ==
  ASSUME NEW c \in Py!PyRec, NEW op \in StoreOps, NEW num \in PktNum
  PROVE  LET d == Py!on_control_msg(c, op, num)
         IN  /\ d.wait = IF op = "AN" THEN Py!clear_wait ELSE c.wait
             /\ d.taken = IF op = "DN" THEN {num} ELSE {}
             /\ PyGoesOn(c, d, CASE op = "AN" -> {} [] op = "GS" -> {"SS"}
                                 [] OTHER -> {"AS"})
<1> DEFINE i == Py!Idle(c)
           q == [i EXCEPT !.taken = {num}]
           k == [i EXCEPT !.wait = Py!clear_wait]
<1>1. /\ i \in Py!PyRec /\ i.out = <<>> /\ ~i.raised /\ i.taken = {}
      /\ i.wait = c.wait /\ i.pkt_num = c.pkt_num
  BY PyIdle
<1>2. Py!on_control_msg(c, op, num) = Py!Handle(i, op, num)
  BY DEF Py!on_control_msg
<1> HIDE DEF i
<1>3. /\ q \in Py!PyRec /\ q.out = <<>> /\ ~q.raised /\ q.taken = {num}
      /\ q.wait = c.wait /\ q.pkt_num = c.pkt_num
  BY <1>1 DEF Py!PyRec, Py!PktNum, PktNum
<1>4. /\ k \in Py!PyRec /\ k.out = <<>> /\ k.taken = {}
      /\ k.wait = Py!clear_wait /\ k.pkt_num = c.pkt_num
  BY <1>1, PyWaitTypes DEF Py!PyRec
<1>5. \A d \in Py!PyRec : d.pkt_num \in Int
  BY MaxPktNumAssumption DEF Py!PyRec
<1> HIDE DEF q, k
<1>6. CASE op = "AN"
  <2>1. Py!Handle(i, op, num) = k
    BY <1>6 DEF Py!Handle, k
  <2>2. QED
    BY <1>2, <1>4, <1>5, <1>6, <2>1 DEF PyGoesOn, Publishes
<1>7. CASE op = "SC"
  <2>1. Py!Handle(i, op, num) = Py!Send(i, "AS")
    BY <1>7 DEF Py!Handle, Py!send_ack_to_store
  <2>2. PyGoesOn(i, Py!Send(i, "AS"), {"AS"})
        /\ Py!Send(i, "AS").wait = i.wait /\ Py!Send(i, "AS").taken = i.taken
    BY <1>1, PySends
  <2>3. QED
    BY <1>1, <1>2, <1>7, <2>1, <2>2 DEF PyGoesOn, Publishes
<1>8. CASE op = "DN"
  <2>1. Py!Handle(i, op, num) = Py!Send(q, "AS")
    BY <1>8 DEF Py!Handle, Py!send_ack_to_store, q
  <2>2. PyGoesOn(q, Py!Send(q, "AS"), {"AS"})
        /\ Py!Send(q, "AS").wait = q.wait /\ Py!Send(q, "AS").taken = q.taken
    BY <1>3, PySends
  <2>3. QED
    BY <1>3, <1>2, <1>8, <2>1, <2>2 DEF PyGoesOn, Publishes
<1>9. CASE op = "GS"
  <2>1. Py!Handle(i, op, num) = Py!Send(i, "SS")
    BY <1>9 DEF Py!Handle, Py!send_status_to_store
  <2>2. PyGoesOn(i, Py!Send(i, "SS"), {"SS"})
        /\ Py!Send(i, "SS").wait = i.wait /\ Py!Send(i, "SS").taken = i.taken
    BY <1>1, PySends
  <2>3. QED
    BY <1>1, <1>2, <1>9, <2>1, <2>2 DEF PyGoesOn, Publishes
<1>10. QED
  BY <1>6, <1>7, <1>8, <1>9 DEF StoreOps

----------------------------------------------------------------------------
(* The store: what it publishes to a node that waits for an answer.        *)

LEMMA OutSome ==
  ASSUME NEW d, NEW S, NEW T, Only(d, S), S \cap T = {}, Good(d)
  PROVE  ~Some(d.out, T)
  BY OutType DEF Only, Some

\* An operator that adds effects other than those of T, or one at most.
LEMMA AddsOthers ==
  ASSUME NEW c, NEW d, NEW S, NEW T, Good(c), Good(d), Adds(c, d, S), S \cap T = {}
  PROVE  /\ Some(d.out, T) <=> Some(c.out, T)
         /\ AtMostOne(c.out, T) => AtMostOne(d.out, T)
<1>1. /\ Len(c.out) \in Nat /\ Len(d.out) \in Nat /\ Len(c.out) <= Len(d.out)
      /\ DOMAIN c.out = 1 .. Len(c.out) /\ DOMAIN d.out = 1 .. Len(d.out)
      /\ DOMAIN c.out \subseteq DOMAIN d.out
  BY OutType DEF Adds
<1>2. \A i \in DOMAIN d.out : d.out[i] \in T => i \in DOMAIN c.out
  BY <1>1 DEF Adds
<1>3. \A i \in DOMAIN c.out : d.out[i] = c.out[i]
  BY <1>1 DEF Adds
<1>4. QED
  BY <1>1, <1>2, <1>3 DEF Some, AtMostOne

LEMMA AddsOne ==
  ASSUME NEW c, NEW d, NEW S, NEW T, Good(c), Good(d), Adds(c, d, S),
         Len(d.out) <= Len(c.out) + 1, ~Some(c.out, T)
  PROVE  AtMostOne(d.out, T)
<1>1. /\ Len(c.out) \in Nat /\ Len(d.out) \in Nat
      /\ DOMAIN c.out = 1 .. Len(c.out) /\ DOMAIN d.out = 1 .. Len(d.out)
  BY OutType
<1>2. ASSUME NEW i \in DOMAIN d.out, d.out[i] \in T
      PROVE  i = Len(c.out) + 1
  <2>1. i \notin DOMAIN c.out
    BY <1>1, <1>2 DEF Adds, Some
  <2>2. QED
    BY <1>1, <2>1
<1>3. QED
  BY <1>2 DEF AtMostOne

LEMMA ConstructAddsNothing ==
  ASSUME NEW c, Good(c)
  PROVE  /\ Construct(c).out = c.out
         /\ Construct(c).raised => c.raised \/ Construct(c).pkt_num > MaxPktNum
<1> DEFINE d == Construct(c)
           f == [c EXCEPT !.pkt_num = MaxPktNum + 1]
           g == [c EXCEPT !.pkt_num = c.pkt_num + 1]
<1>1. MaxPktNum + 1 > MaxPktNum
  BY MaxPktNumAssumption
<1>2. CASE c.raised
  BY <1>2 DEF Construct
<1>3. CASE ~c.raised /\ c.pkt_num >= MaxPktNum
  <2>1. d = [f EXCEPT !.raised = TRUE]
    BY <1>3 DEF Construct
  <2>2. f.out = c.out /\ f.pkt_num = MaxPktNum + 1 /\ "out" \in DOMAIN f
    BY DEF Good, NodeRec
  <2> HIDE DEF f, d
  <2>3. d.out = f.out /\ d.pkt_num = f.pkt_num
    BY <2>1
  <2>4. QED
    BY <1>1, <2>2, <2>3 DEF d
<1>4. CASE ~c.raised /\ ~(c.pkt_num >= MaxPktNum)
  <2>1. d = g
    BY <1>4 DEF Construct
  <2>2. g.out = c.out /\ g.raised = c.raised
    BY DEF Good, NodeRec
  <2> HIDE DEF g, d
  <2>3. QED
    BY <1>4, <2>1, <2>2 DEF d
<1>5. QED
  BY <1>2, <1>3, <1>4

LEMMA PublishOnce ==
  ASSUME NEW c, Good(c), NEW pkt, NEW resend \in BOOLEAN,
         pkt.op \in StoreOps, pkt.fits \in BOOLEAN,
         ~c.raised => pkt.num \in PktNum
  PROVE  LET d == publish_pkt(c, pkt, resend)
         IN  /\ Len(d.out) <= Len(c.out) + 1
             /\ d.pkt_num = c.pkt_num
             /\ pkt.op = "AN" /\ pkt.fits /\ ~c.raised => Some(d.out, Acks)
<1> DEFINE skipped == \/ c.raised
                      \/ ~resend /\ is_waiting(c) /\ pkt.op # "AN"
                      \/ ~pkt.fits
           f == Emit(c, "publish", pkt.op, pkt.num, resend)
           t == [f EXCEPT !.tx = 0]
           d == publish_pkt(c, pkt, resend)
           e == [kind |-> "publish", op |-> pkt.op, num |-> pkt.num, resend |-> resend]
<1>1. Len(c.out) \in Nat
  BY OutType
<1>2. CASE skipped
  <2>1. d = c
    BY <1>2 DEF publish_pkt
  <2>2. ~(pkt.op = "AN" /\ pkt.fits /\ ~c.raised)
    BY <1>2
  <2> HIDE DEF d
  <2>3. QED
    BY <1>1, <2>1, <2>2 DEF d
<1>3. CASE ~skipped
  <2>1. d = update(t)
    BY <1>3 DEF publish_pkt
  <2>2. d.out = f.out /\ d.pkt_num = c.pkt_num
    <3>1. t.out = f.out
      BY DEF Emit, Good, NodeRec
    <3>2. update(t).out = t.out
      BY DEF update, Emit, Good, NodeRec
    <3>3. d.pkt_num = c.pkt_num
      BY PublishIsQuiet
    <3>4. QED
      BY <2>1, <3>1, <3>2, <3>3
  <2>3. pkt.op \in {"DN", "GS", "SC", "AN", "DS"} /\ pkt.num \in PktNum
    BY <1>3 DEF StoreOps
  <2>4. e \in Effects /\ Adds(c, f, {e}) /\ Len(f.out) = Len(c.out) + 1
    BY <2>3, EmitAdds
  <2>5. Good(f)
    BY <2>3, EmitIsGood
  <2>6. DOMAIN f.out = 1 .. Len(f.out)
    BY <2>5, OutType
  <2>7. pkt.op = "AN" => e \in Acks
    BY <2>4 DEF Acks
  <2> HIDE DEF d, f, e
  <2>11. f.out[Len(f.out)] = e
    BY <1>1, <2>4 DEF Adds
  <2>8. Len(f.out) \in DOMAIN f.out
    BY <1>1, <2>4, <2>6
  <2>9. pkt.op = "AN" => Some(f.out, Acks)
    BY <2>7, <2>8, <2>11 DEF Some
  <2>10. QED
    BY <1>1, <2>2, <2>4, <2>9 DEF d
<1>4. QED
  BY <1>2, <1>3

LEMMA SendShortOnce ==
  ASSUME NEW c, Good(c), NEW op \in {"GS", "AN"}
  PROVE  LET d == SendShort(c, op)
         IN  /\ Len(d.out) <= Len(c.out) + 1
             /\ op = "AN" /\ ~c.raised => Some(d.out, Acks) \/ d.pkt_num > MaxPktNum
<1> DEFINE d == Construct(c)
           p == PktOf(d, op, TRUE)
           e == publish_pkt(d, p, FALSE)
<1>1. /\ Good(d) /\ d.out = c.out
      /\ ~d.raised => d.pkt_num \in PktNum
      /\ d.raised => c.raised \/ d.pkt_num > MaxPktNum
  BY ConstructIsQuiet, ConstructAddsNothing DEF Quietly
<1>2. p.op \in StoreOps /\ p.fits \in BOOLEAN /\ p.fits /\ p.num = d.pkt_num /\ p.op = op
  BY DEF PktOf, StoreOps
<1>3. SendShort(c, op) = e
  BY DEF SendShort
<1> HIDE DEF d, p
<1>4. /\ Len(e.out) <= Len(d.out) + 1 /\ e.pkt_num = d.pkt_num
      /\ p.op = "AN" /\ p.fits /\ ~d.raised => Some(e.out, Acks)
  BY <1>1, <1>2, PublishOnce
<1> HIDE DEF e
<1>5. QED
  BY <1>1, <1>2, <1>3, <1>4

\* Data that arrives is inserted under its number, and answered with one AN.
LEMMA StoreDataAnswers ==
  ASSUME NEW c, Good(c), NEW num \in PktNum, c.out = <<>>, ~c.raised
  PROVE  LET d == store_data(c, num)
         IN  /\ Good(d) /\ Same(c, d) /\ d.wait = c.wait
             /\ Only(d, Data \cup Acks)
             /\ AtMostOne(d.out, Acks)
             /\ Some(d.out, Acks) \/ d.pkt_num > MaxPktNum
             /\ 1 \in DOMAIN d.out
             /\ d.out[1].kind = "insert" /\ d.out[1].op = "DS" /\ d.out[1].num = num
<1> DEFINE i == Emit(c, "insert", "DS", num, FALSE)
           an == SendShort(i, "AN")
           f == Emit(an, "public", "DS", num, FALSE)
           d == store_data(c, num)
           e == [kind |-> "insert", op |-> "DS", num |-> num, resend |-> FALSE]
           g == [kind |-> "public", op |-> "DS", num |-> num, resend |-> FALSE]
<1>1. d = IF an.raised THEN an ELSE f
  BY DEF store_data, send_ack_to_node
<1>2. Good(d) /\ Same(c, d) /\ Only(d, Data \cup Acks) /\ d.wait = c.wait
  BY StoreDataStores, StoreDataIsQuiet DEF Quietly
<1>3. e \in Effects /\ Adds(c, i, {e}) /\ Len(i.out) = Len(c.out) + 1
      /\ i.out[Len(i.out)] = e
  BY EmitAdds
<1>4. e \notin Acks /\ g \notin Acks /\ e.kind = "insert" /\ e.op = "DS" /\ e.num = num
  BY DEF Acks
<1>5. Good(i) /\ ~i.raised
  <2>1. Good(i)
    BY EmitIsGood
  <2>2. QED
    BY <2>1 DEF Emit, Good, NodeRec
<1>6. Len(c.out) = 0
  BY Zenon, EmptySeq
<1> HIDE DEF i, e
<1>7. Len(i.out) = 1 /\ i.out[1] = e
  BY <1>3, <1>6
<1>8. ~Some(i.out, Acks)
  <2>1. ~Some(c.out, Acks)
    BY DEF Some
  <2>2. {e} \cap Acks = {}
    BY <1>4
  <2>3. QED
    BY <1>3, <1>5, <2>1, <2>2, AddsOthers
<1>9. /\ Good(an) /\ Adds(i, an, Acks)
      /\ Len(an.out) <= Len(i.out) + 1
      /\ Some(an.out, Acks) \/ an.pkt_num > MaxPktNum
  BY <1>5, SendShortSends, SendShortOnce DEF Sends, MaySendShort
<1> HIDE DEF an
<1>10. AtMostOne(an.out, Acks)
  BY <1>5, <1>8, <1>9, AddsOne
<1>11. /\ Good(f) /\ Adds(an, f, {g}) /\ f.pkt_num = an.pkt_num
  <2>1. Good(f) /\ Adds(an, f, {g})
    BY <1>9, EmitIsGood, EmitAdds
  <2>2. f.pkt_num = an.pkt_num
    BY <1>9 DEF Emit, Good, NodeRec
  <2>3. QED
    BY <2>1, <2>2
<1> HIDE DEF g, f
<1>12. AtMostOne(f.out, Acks) /\ (Some(an.out, Acks) => Some(f.out, Acks))
  <2>1. {g} \cap Acks = {}
    BY <1>4
  <2>2. QED
    BY <1>9, <1>10, <1>11, <2>1, AddsOthers
<1>13. Len(an.out) >= 1 /\ an.out[1] = e
  BY <1>7, <1>9 DEF Adds
<1>14. Len(f.out) >= 1 /\ f.out[1] = e
  <2>1. Len(an.out) \in Nat /\ Len(f.out) \in Nat
    BY <1>9, <1>11, OutType
  <2>2. QED
    BY <1>11, <1>13, <2>1 DEF Adds
<1> HIDE DEF d
<1>21. d = an \/ d = f
  BY <1>1
<1>15. Len(d.out) >= 1 /\ d.out[1] = e
  BY <1>21, <1>13, <1>14
<1>16. AtMostOne(d.out, Acks)
  BY <1>21, <1>10, <1>12
<1>17. 1 \in DOMAIN d.out
  <2>1. Len(d.out) \in Nat /\ DOMAIN d.out = 1 .. Len(d.out)
    BY <1>2, OutType
  <2>2. QED
    BY <1>15, <2>1
<1>18. e.kind = "insert" /\ e.op = "DS" /\ e.num = num
  BY <1>4
<1>19. Some(d.out, Acks) \/ d.pkt_num > MaxPktNum
  <2>1. CASE d = an
    BY <1>9, <2>1
  <2>2. CASE d = f
    BY <1>9, <1>11, <1>12, <2>2
  <2>3. QED
    BY <1>21, <2>1, <2>2
<1>20. QED
  BY <1>2, <1>15, <1>16, <1>17, <1>18, <1>19 DEF d

----------------------------------------------------------------------------
(* What the store does with a packet of the node.                          *)

\* What an AS makes of the packet that waits: the data is recorded.
Confirmation(c) ==
  {e \in Effects : /\ e.kind = "insert"
                   /\ e.op = "DN" => c.wait.do_insert /\ e.num = c.wait.pkt.num}

LEMMA AcknowledgedRecords ==
  ASSUME NEW c, Good(c), c.out = <<>>, ~c.raised
  PROVE  LET d == Acknowledged(c)
         IN  /\ Good(d) /\ d.wait = clear_wait /\ ~d.raised
             /\ d.last_packet_num = c.last_packet_num
             /\ Only(d, Confirmation(c))
<1> DEFINE s == [c EXCEPT !.wait = clear_wait]
           pkt == Stopped(c.wait)
           e == Emit(s, "insert", pkt.op, pkt.num, FALSE)
           d == Acknowledged(c)
<1>1. Good(d) /\ d.wait = clear_wait /\ d = IF pkt = NoPkt THEN s ELSE e
  BY AcknowledgedConfirms DEF Confirms, Acknowledged
<1>2. /\ s \in NodeRec /\ s.wait = clear_wait
      /\ s.last_packet_num = c.last_packet_num
      /\ s.out = c.out /\ s.raised = c.raised
  BY ClearWaitType DEF Good, NodeRec
<1> HIDE DEF s, d
<1>3. Good(s)
  BY <1>2 DEF Good, WaitCoherent, clear_wait
<1>4. Only(s, Confirmation(c))
  BY <1>2, <1>3, AddsNothing, AddsAll
<1>5. CASE pkt = NoPkt
  BY <1>1, <1>2, <1>4, <1>5 DEF d
<1>6. CASE pkt # NoPkt
  <2>1. pkt \in WaitPkts /\ c.wait.do_insert /\ pkt = c.wait.pkt
    BY <1>6 DEF Good, WaitCoherent, Stopped, clear_wait
  <2>2. pkt.op \in {"DN", "SC"} /\ pkt.num \in PktNum
    BY <2>1 DEF WaitPkts
  <2> HIDE DEF pkt
  <2> DEFINE f == [kind |-> "insert", op |-> pkt.op, num |-> pkt.num, resend |-> FALSE]
  <2>3. Adds(s, e, {f}) /\ f \in Effects /\ Good(e)
    BY <1>3, <2>2, EmitAdds, EmitIsGood
  <2>4. f \in Confirmation(c)
    BY <2>1, <2>3 DEF Confirmation
  <2>5. e.last_packet_num = s.last_packet_num /\ e.raised = s.raised
    BY <1>2 DEF Emit, NodeRec
  <2> HIDE DEF e, f
  <2>6. Only(e, Confirmation(c))
    BY <1>3, <1>4, <2>3, <2>4, AddsMore, OnlyAdds
  <2>7. QED
    BY <1>1, <1>2, <1>6, <2>5, <2>6 DEF d
<1>7. QED
  BY <1>5, <1>6

\* Noting that a node was heard may poll it, and changes no more.
LEMMA HeardAdds ==
  ASSUME NEW c, Good(c), ~c.raised
  PROVE  LET d == MarkHeard(c)
         IN  /\ Good(d) /\ d.wait = c.wait /\ d.pkt_num >= c.pkt_num
             /\ d.last_packet_num = c.last_packet_num
             /\ Adds(c, d, Polls)
<1> DEFINE s == [c EXCEPT !.rx = 0]
           t == set_state(s, "TRANSMITTING")
           h == IF ~is_offline(s) /\ ~is_state_up(s) THEN t ELSE s
           d == MarkHeard(c)
<1>1. /\ Good(d) /\ d.wait = c.wait /\ d.pkt_num >= c.pkt_num
      /\ Adds(c, d, MayPoll(c, "TRANSMITTING"))
  BY MarkHeardSends, HeardIsQuiet DEF Quietly
<1>2. MayPoll(c, "TRANSMITTING") \subseteq Polls
  BY DEF MayPoll
<1>3. Adds(c, d, Polls)
  BY <1>1, <1>2, AddsMore
<1>4. /\ s \in NodeRec /\ s.wait = c.wait
      /\ s.out = c.out /\ s.last_packet_num = c.last_packet_num
      /\ s.pkt_num = c.pkt_num /\ s.signed = c.signed
  BY AgeTypes DEF Good, NodeRec
<1>5. d = update(h)
  BY DEF MarkHeard
<1> HIDE DEF s, d
<1>6. Good(s)
  BY <1>4, OtherFields DEF Quietly
<1>7. Good(t) /\ t.last_packet_num = s.last_packet_num
  BY <1>6, SetStateSends DEF States, CodeStates
<1>8. Good(h) /\ h.last_packet_num = c.last_packet_num
  BY <1>4, <1>6, <1>7
<1> HIDE DEF h
<1>9. d.last_packet_num = h.last_packet_num
  BY <1>5, <1>8, UpdateIsQuiet
<1>10. QED
  BY <1>1, <1>3, <1>8, <1>9 DEF d

\* A packet of the node: data is inserted and answered, an AS ends the wait.
Answers(c, d, op, num) ==
  /\ AtMostOne(d.out, Acks)
  /\ IF op = "AS" THEN d.wait = clear_wait ELSE d.wait = c.wait
  /\ op = "DS" =>
       /\ Some(d.out, Acks) \/ d.pkt_num > MaxPktNum
       /\ \E i \in DOMAIN d.out : /\ d.out[i].kind = "insert"
                                  /\ d.out[i].op = "DS" /\ d.out[i].num = num

\* All it may send, but for the poll of a node heard again.
MayAnswer(c, op) ==
  CASE op = "DS" -> Data \cup Acks
    [] op = "AS" -> Confirmation(c)
    [] OTHER     -> {}

LEMMA NoAcksAmong ==
  /\ Polls \cap Acks = {}
  /\ \A c : Confirmation(c) \cap Acks = {}
  /\ \A c : Copies(c) \cap Acks = {}
  /\ Orders \cap Acks = {}
  BY DEF Polls, Acks, Confirmation, Copies, Orders

\* With nothing of S among its effects, a record has at most one.
LEMMA NoneIsAtMostOne ==
  ASSUME NEW s, NEW S, ~Some(s, S)
  PROVE  AtMostOne(s, S)
  BY DEF Some, AtMostOne

LEMMA NodePacketTypes ==
  ASSUME NEW op \in Py!PyOps, NEW num \in PktNum
  PROVE  LET p == AsPacket(op, num)
         IN  /\ p \in Inbound
             /\ p.slid = a /\ p.op = op /\ p.num = num /\ p.via = <<>>
             /\ p.arg = IF op = "SS" THEN "OK" ELSE IF op = "AS" THEN "known" ELSE "none"
  BY LinkAssumption DEF AsPacket, ArgOf, NodePackets

LEMMA BranchAnswers ==
  ASSUME NEW c, Good(c), c.out = <<>>, ~c.raised, NEW op \in Py!PyOps, NEW num \in PktNum
  PROVE  LET d == OpBranch(c, AsPacket(op, num))
         IN  /\ Good(d) /\ d.last_packet_num = c.last_packet_num
             /\ Only(d, MayAnswer(c, op))
             /\ Answers(c, d, op, num)
<1> DEFINE p == AsPacket(op, num)
           d == OpBranch(c, p)
<1>1. /\ p.op = op /\ p.num = num
      /\ op = "SS" => p.arg = "OK"
      /\ op = "AS" => p.arg = "known"
  BY NodePacketTypes
<1> HIDE DEF p
<1>2. CASE op = "DS"
  <2>1. d = store_data(c, num)
    BY <1>1, <1>2 DEF OpBranch
  <2> DEFINE e == store_data(c, num)
  <2>2. /\ Good(e) /\ Same(c, e) /\ e.wait = c.wait
        /\ Only(e, Data \cup Acks)
        /\ AtMostOne(e.out, Acks)
        /\ Some(e.out, Acks) \/ e.pkt_num > MaxPktNum
        /\ 1 \in DOMAIN e.out
        /\ e.out[1].kind = "insert" /\ e.out[1].op = "DS" /\ e.out[1].num = num
    BY StoreDataAnswers
  <2> HIDE DEF e
  <2>7. \E i \in DOMAIN e.out : /\ e.out[i].kind = "insert"
                                /\ e.out[i].op = "DS" /\ e.out[i].num = num
    BY <2>2
  <2>3. MayAnswer(c, op) = Data \cup Acks
    BY <1>2 DEF MayAnswer
  <2>4. d = e
    BY <2>1 DEF e
  <2> HIDE DEF d
  <2>5. Answers(c, d, op, num)
    BY <1>2, <2>2, <2>4, <2>7 DEF Answers
  <2>6. QED
    BY <2>2, <2>3, <2>4, <2>5 DEF d, p, Same
<1>3. CASE op = "AS"
  <2>1. d = Acknowledged(c)
    BY <1>1, <1>3 DEF OpBranch
  <2> DEFINE e == Acknowledged(c)
  <2>2. /\ Good(e) /\ e.wait = clear_wait
        /\ e.last_packet_num = c.last_packet_num
        /\ Only(e, Confirmation(c))
    BY AcknowledgedRecords
  <2> HIDE DEF e
  <2>3. MayAnswer(c, op) = Confirmation(c)
    BY <1>3 DEF MayAnswer
  <2>4. d = e
    BY <2>1 DEF e
  <2>5. AtMostOne(e.out, Acks)
    BY <2>2, OutSome, NoAcksAmong, NoneIsAtMostOne
  <2> HIDE DEF d
  <2>6. Answers(c, d, op, num)
    BY <1>3, <2>2, <2>4, <2>5 DEF Answers
  <2>7. QED
    BY <2>2, <2>3, <2>4, <2>6 DEF d, p
<1>4. CASE op = "SS"
  <2> DEFINE new == "OK"
             e == set_state(c, new)
  <2>1. d = e
    BY <1>1, <1>4 DEF OpBranch
  <2>2. new \in States /\ MayPoll(c, new) = {}
    <3>1. p \in Inbound
      BY NodePacketTypes DEF p
    <3>2. p.arg \in States
      BY <1>1, <1>4, <3>1, InboundTypes
    <3>3. QED
      BY <1>1, <1>4, <3>2 DEF MayPoll
  <2> HIDE DEF new
  <2>3. /\ Good(e) /\ e.wait = c.wait /\ e.last_packet_num = c.last_packet_num
        /\ Adds(c, e, MayPoll(c, new))
    BY ONLY Good(c), <2>2, SetStateSends
  <2> HIDE DEF e
  <2>4. Only(e, {})
    BY <2>2, <2>3, AddsAll
  <2>5. AtMostOne(e.out, Acks)
    BY <2>3, <2>4, OutSome, NoneIsAtMostOne
  <2>6. MayAnswer(c, op) = {}
    BY <1>4 DEF MayAnswer
  <2> HIDE DEF d
  <2>7. Answers(c, d, op, num)
    BY <1>4, <2>1, <2>3, <2>5 DEF Answers
  <2>8. QED
    BY <2>1, <2>3, <2>4, <2>6, <2>7 DEF d, p
<1>5. QED
  BY <1>2, <1>3, <1>4 DEF Py!PyOps

\* What a step makes of the record of a node whose packet it handles, or finds
\* to repeat the last one.
Handles(c, d, op, num) ==
  /\ Good(d)
  /\ d.last_packet_num = LastAfter(c.last_packet_num, num)
  /\ Only(d, MayAnswer(c, op) \cup Polls)
  /\ Answers(c, d, op, num)

Ignores(c, d, op, num) ==
  /\ Good(d)
  /\ d.last_packet_num = LastAfter(c.last_packet_num, num)
  /\ Only(d, IF op = "DS" THEN Acks ELSE {})
  /\ d.wait = c.wait
  /\ AtMostOne(d.out, Acks)
  /\ op = "DS" => Some(d.out, Acks) \/ d.pkt_num > MaxPktNum

LEMMA AcceptHandles ==
  ASSUME NEW c, Good(c), c.out = <<>>, ~c.raised, NEW op \in Py!PyOps, NEW num \in PktNum
  PROVE  Handles(c, Accept(c, AsPacket(op, num), FALSE), op, num)
<1> DEFINE p == AsPacket(op, num)
           s == [c EXCEPT !.last_packet_num = LastAfter(c.last_packet_num, num)]
           r == [s EXCEPT !.via = p.via]
           b == OpBranch(r, p)
           e == MarkHeard(b)
           d == Accept(c, p, FALSE)
<1>1. /\ p \in Inbound /\ p.op = op /\ p.num = num
  BY NodePacketTypes
<1>2. ~ReturnsEarly(p)
  BY <1>1 DEF ReturnsEarly, Py!PyOps
<1>3. d = IF b.raised THEN b ELSE e
  BY <1>1, <1>2 DEF Accept
<1>4. Good(s)
  BY LastPacketNumIsQuiet DEF Quietly
<1>5. /\ s.out = <<>> /\ ~s.raised /\ s.wait = c.wait
      /\ s.last_packet_num = LastAfter(c.last_packet_num, num)
  BY DEF Good, NodeRec
<1> HIDE DEF s
<1>6. /\ r \in NodeRec /\ r.wait = s.wait /\ r.pkt_num = s.pkt_num
      /\ r.signed = s.signed /\ r.out = s.out /\ r.raised = s.raised
      /\ r.last_packet_num = s.last_packet_num
  <2>1. p.via \in Seq(Slids)
    BY <1>1, InboundTypes
  <2> HIDE DEF p
  <2>2. QED
    BY <1>4, <2>1 DEF Good, NodeRec
<1> HIDE DEF r
<1>7. Good(r)
  BY <1>4, <1>6, OtherFields DEF Quietly
<1>8. /\ Good(b) /\ b.last_packet_num = r.last_packet_num
      /\ Only(b, MayAnswer(r, op))
      /\ Answers(r, b, op, num)
  BY <1>5, <1>6, <1>7, BranchAnswers
<1>9. /\ MayAnswer(r, op) = MayAnswer(c, op)
      /\ \A f : Answers(r, f, op, num) <=> Answers(c, f, op, num)
  BY <1>5, <1>6 DEF MayAnswer, Confirmation, Answers
<1> HIDE DEF b, d
<1>10. Only(b, MayAnswer(c, op) \cup Polls)
  BY <1>8, <1>9, OnlyMore
<1>11. CASE b.raised
  BY <1>3, <1>5, <1>6, <1>8, <1>9, <1>10, <1>11 DEF Handles, d, p
<1>12. CASE ~b.raised
  <2>1. /\ Good(e) /\ e.wait = b.wait /\ e.pkt_num >= b.pkt_num
        /\ e.last_packet_num = b.last_packet_num
        /\ Adds(b, e, Polls)
    BY <1>8, <1>12, HeardAdds
  <2> HIDE DEF e
  <2>2. Adds(b, e, MayAnswer(c, op) \cup Polls)
    BY <2>1, AddsMore
  <2>3. Only(e, MayAnswer(c, op) \cup Polls)
    BY <1>8, <1>10, <2>1, <2>2, OnlyAdds
  <2>4. /\ Some(e.out, Acks) <=> Some(b.out, Acks)
        /\ AtMostOne(b.out, Acks) => AtMostOne(e.out, Acks)
    BY <1>8, <2>1, NoAcksAmong, AddsOthers
  <2>5. \A i \in DOMAIN b.out : i \in DOMAIN e.out /\ e.out[i] = b.out[i]
    <3>1. /\ Len(b.out) \in Nat /\ DOMAIN b.out = 1 .. Len(b.out)
          /\ Len(e.out) \in Nat /\ DOMAIN e.out = 1 .. Len(e.out)
      BY <1>8, <2>1, OutType
    <3>2. QED
      BY <2>1, <3>1 DEF Adds
  <2>6. b.pkt_num > MaxPktNum => e.pkt_num > MaxPktNum
    BY <1>8, <2>1, MaxPktNumAssumption DEF Good, NodeRec, Issued
  <2>7. Answers(c, e, op, num)
    BY <1>8, <1>9, <2>1, <2>4, <2>5, <2>6 DEF Answers
  <2>8. QED
    BY <1>3, <1>5, <1>6, <1>8, <1>12, <2>1, <2>3, <2>7 DEF Handles, d, p
<1>13. QED
  BY <1>11, <1>12

LEMMA DuplicateIgnores ==
  ASSUME NEW c, Good(c), c.out = <<>>, ~c.raised, NEW op \in Py!PyOps, NEW num \in PktNum
  PROVE  Ignores(c, Duplicate(c, AsPacket(op, num)), op, num)
<1> DEFINE p == AsPacket(op, num)
           s == [c EXCEPT !.last_packet_num = LastAfter(c.last_packet_num, num)]
           e == SendShort(s, "AN")
           d == Duplicate(c, p)
<1>1. p.op = op /\ p.num = num
  BY NodePacketTypes
<1>2. d = IF op = "DS" THEN e ELSE s
  BY <1>1 DEF Duplicate, OPS_need_ack, send_ack_to_node, Py!PyOps
<1>3. Good(s)
  BY LastPacketNumIsQuiet DEF Quietly
<1>4. /\ s.out = <<>> /\ ~s.raised /\ s.wait = c.wait
      /\ s.last_packet_num = LastAfter(c.last_packet_num, num)
  BY DEF Good, NodeRec
<1> HIDE DEF s, d
<1>5. ~Some(s.out, Acks) /\ Only(s, {})
  <2>1. ~Some(s.out, Acks)
    BY <1>4 DEF Some
  <2>2. Only(s, {})
    BY <1>3, <1>4, AddsNothing, AddsAll
  <2>3. QED
    BY <2>1, <2>2
<1>6. CASE op = "DS"
  <2>1. /\ Good(e) /\ Same(s, e) /\ Adds(s, e, Acks) /\ e.wait = s.wait
        /\ Len(e.out) <= Len(s.out) + 1
        /\ Some(e.out, Acks) \/ e.pkt_num > MaxPktNum
    BY <1>3, <1>4, SendShortSends, SendShortOnce, SendShortIsQuiet
    DEF Sends, MaySendShort, Quietly
  <2> HIDE DEF e
  <2>2. AtMostOne(e.out, Acks)
    BY <1>3, <1>5, <2>1, AddsOne
  <2>3. Only(e, Acks)
    BY <1>3, <1>4, <2>1, AddsAll
  <2>4. QED
    BY <1>2, <1>4, <1>6, <2>1, <2>2, <2>3 DEF Ignores, Same, d, p
<1>7. CASE op # "DS"
  <2>1. AtMostOne(s.out, Acks)
    BY <1>5, NoneIsAtMostOne
  <2>2. QED
    BY <1>2, <1>3, <1>4, <1>5, <1>7, <2>1 DEF Ignores, d, p
<1>8. QED
  BY <1>6, <1>7

----------------------------------------------------------------------------
(* What the store sends of its own accord.                                 *)

Sending(pkt) == {e \in Effects : e.kind = "publish" /\ e.op = pkt.op /\ e.num = pkt.num}

\* A packet that is published, for the first time or again, is so once.
LEMMA PublishAsks ==
  ASSUME NEW c, Good(c), c.out = <<>>, NEW pkt, NEW resend \in BOOLEAN,
         pkt.op \in {"DN", "SC"}, pkt.fits \in BOOLEAN,
         ~c.raised => pkt.num \in PktNum
  PROVE  LET d == publish_pkt(c, pkt, resend)
         IN  /\ Good(d) /\ Same(c, d) /\ d.wait = c.wait
             /\ Only(d, {e \in Sending(pkt) : e.resend = resend})
             /\ AtMostOne(d.out, Orders)
<1> DEFINE d == publish_pkt(c, pkt, resend)
           S == {e \in Sending(pkt) : e.resend = resend}
<1>1. pkt.op \in StoreOps
  BY DEF StoreOps
<1>2. /\ Good(d) /\ Same(c, d) /\ d.wait = c.wait
      /\ Adds(c, d, MayPublish(c, pkt, resend))
  BY <1>1, PublishSends, PublishIsQuiet DEF Sends, Quietly
<1>3. Len(d.out) <= Len(c.out) + 1
  BY <1>1, PublishOnce
<1>4. MayPublish(c, pkt, resend) \subseteq S
  BY DEF MayPublish, Sending
<1> HIDE DEF d, S
<1>5. Only(d, S)
  BY <1>2, <1>4, AddsMore, AddsAll
<1>6. ~Some(c.out, Orders)
  BY DEF Some
<1>7. AtMostOne(d.out, Orders)
  BY <1>2, <1>3, <1>6, AddsOne
<1>8. QED
  BY <1>2, <1>5, <1>7 DEF d, S

\* Data of the store: it is sent to a node that nothing waits for, and then
\* that packet waits.
Asks(c, d) ==
  /\ Good(d)
  /\ d.last_packet_num = c.last_packet_num
  /\ \/ d.wait = c.wait /\ Only(d, {})
     \/ /\ ~c.wait.waiting /\ d.wait.waiting
        /\ Only(d, {e \in Sending(d.wait.pkt) : ~e.resend})
        /\ AtMostOne(d.out, Orders)

LEMMA SendDataAsks ==
  ASSUME NEW c, Good(c), c.out = <<>>, ~c.raised, NEW fits \in BOOLEAN
  PROVE  Asks(c, send_data_to_node(c, fits))
<1> DEFINE d == Construct(c)
           p == PktOf(d, "DN", fits)
           e == publish_pkt(d, p, FALSE)
           w == set_wait(p, TRUE)
           f == [e EXCEPT !.wait = w]
           g == send_data_to_node(c, fits)
<1>1. g = IF ~MaySend(c) THEN c ELSE IF d.raised THEN d ELSE f
  BY DEF send_data_to_node, SendAndWait
<1>2. Good(g) /\ g.last_packet_num = c.last_packet_num
  <2>1. Good(g)
    BY SendDataOffers DEF Quietly, Offers
  <2>2. Same(c, g)
    BY SendDataSends DEF Sends
  <2>3. QED
    BY <2>1, <2>2 DEF Same
<1>3. /\ Good(d) /\ d.out = <<>> /\ d.wait = c.wait
      /\ ~d.raised => d.pkt_num \in PktNum
  BY ConstructIsQuiet, ConstructAddsNothing DEF Quietly
<1>4. p.op = "DN" /\ p.fits = fits /\ p.num = d.pkt_num
  BY DEF PktOf
<1> HIDE DEF d, p
<1>5. /\ Good(e) /\ Only(e, {x \in Sending(p) : x.resend = FALSE})
      /\ AtMostOne(e.out, Orders)
  <2>1. p.op \in {"DN", "SC"} /\ p.fits \in BOOLEAN /\ (~d.raised => p.num \in PktNum)
    BY <1>3, <1>4
  <2>2. QED
    BY <1>3, <2>1, PublishAsks
<1> HIDE DEF g, e
<1>6. \A x : Good(x) /\ x.out = <<>> => Only(x, {})
  BY AddsNothing, AddsAll
<1>7. CASE ~MaySend(c) \/ d.raised
  <2>1. g.wait = c.wait /\ g.out = <<>>
    BY <1>1, <1>3, <1>7
  <2>2. QED
    BY <1>2, <1>6, <2>1 DEF Asks, g
<1>8. CASE MaySend(c) /\ ~d.raised
  <2>1. ~c.wait.waiting
    BY <1>8 DEF MaySend, is_waiting
  <2>2. w.waiting /\ w.pkt = p
    BY DEF set_wait
  <2> HIDE DEF w
  <2>3. g = f
    BY <1>1, <1>8
  <2>4. f.wait = w /\ f.out = e.out
    BY <1>5 DEF Good, NodeRec
  <2> HIDE DEF f
  <2>5. Only(g, {x \in Sending(g.wait.pkt) : ~x.resend}) /\ AtMostOne(g.out, Orders)
    BY <1>5, <2>2, <2>3, <2>4 DEF Only
  <2>6. QED
    BY <1>2, <2>1, <2>2, <2>3, <2>4, <2>5 DEF Asks, g
<1>9. QED
  BY <1>7, <1>8

\* The heartbeat: the packet that waits is sent again, or given up; and a node
\* may be polled.
Repeating(c) == {e \in Sending(c.wait.pkt) : e.resend}

AsksAgain(c, d) ==
  /\ Good(d)
  /\ d.last_packet_num = c.last_packet_num
  /\ AtMostOne(d.out, Orders)
  /\ \/ /\ d.wait.waiting = c.wait.waiting /\ d.wait.pkt = c.wait.pkt
        /\ d.wait.do_insert = c.wait.do_insert
        /\ Only(d, Polls \cup Repeating(c))
     \/ /\ c.wait.waiting /\ ~d.wait.waiting
        /\ Only(d, Polls)

\* What does not touch the wait and at most polls the node.
LEMMA PollsAskNothing ==
  ASSUME NEW c, NEW d, NEW e, Good(c), AsksAgain(c, d), Good(e),
         e.last_packet_num = d.last_packet_num, e.wait = d.wait, Adds(d, e, Polls)
  PROVE  AsksAgain(c, e)
<1>1. Good(d)
  BY DEF AsksAgain
<1>2. Polls \cap Orders = {}
  BY DEF Polls, Orders
<1>3. AtMostOne(e.out, Orders)
  BY <1>1, <1>2, AddsOthers DEF AsksAgain
<1>4. ASSUME NEW S, Only(d, Polls \cup S) PROVE Only(e, Polls \cup S)
  <2>1. Adds(d, e, Polls \cup S)
    BY AddsMore
  <2>2. QED
    BY <1>1, <1>4, <2>1, OnlyAdds
<1>5. Only(d, Polls) => Only(e, Polls)
  BY <1>1, OnlyAdds
<1>6. QED
  BY <1>3, <1>4, <1>5 DEF AsksAgain

LEMMA CheckForASAsks ==
  ASSUME NEW c, Good(c), c.out = <<>>, ~c.raised
  PROVE  AsksAgain(c, periodic_check_for_AS(c))
<1> DEFINE d == periodic_check_for_AS(c)
           g == [c EXCEPT !.wait = clear_wait]
           w == restart_wait(c.wait)
           r == [c EXCEPT !.wait = w]
           pkt == c.wait.pkt
           e == publish_pkt(r, pkt, TRUE)
<1>1. d = IF ~Expired(c.wait) THEN c ELSE IF Exhausted(c.wait) THEN g ELSE e
  BY DEF periodic_check_for_AS
<1>2. Good(d) /\ d.last_packet_num = c.last_packet_num
  BY CheckForASSends DEF Sends, Same
<1> HIDE DEF d
<1>3. ASSUME NEW x, Good(x), x.out = <<>>
      PROVE  /\ AtMostOne(x.out, Orders)
             /\ Only(x, Polls) /\ Only(x, Polls \cup Repeating(c))
  <2>1. AtMostOne(x.out, Orders)
    BY <1>3 DEF AtMostOne
  <2>2. \A S : Only(x, S)
    BY <1>3 DEF Only
  <2>3. QED
    BY <2>1, <2>2
<1>4. CASE ~Expired(c.wait)
  BY <1>1, <1>2, <1>3, <1>4 DEF AsksAgain, d
<1>5. CASE Expired(c.wait) /\ Exhausted(c.wait)
  <2>1. g.wait = clear_wait /\ g.out = <<>> /\ ~clear_wait.waiting
    BY DEF Good, NodeRec, clear_wait
  <2>2. d.wait = clear_wait /\ d.out = <<>>
    BY <1>1, <1>5, <2>1
  <2>3. c.wait.waiting
    BY <1>5 DEF Expired
  <2>4. QED
    BY <1>2, <1>3, <2>1, <2>2, <2>3 DEF AsksAgain, d
<1>6. CASE Expired(c.wait) /\ ~Exhausted(c.wait)
  <2>1. c \in NodeRec /\ c.wait \in Waits
    BY DEF Good, NodeRec
  <2>2. c.wait.waiting /\ c.wait.count + 1 <= MAX_RESEND_COUNT
    BY <1>6, <2>1, WaitAssumption DEF Expired, Exhausted, Waits
  <2>3. c.wait.count + 1 \in 0 .. MAX_RESEND_COUNT /\ SL_ACK_WAIT \in 0 .. SL_ACK_WAIT
    BY <2>1, <2>2, WaitAssumption DEF Waits
  <2>4. /\ w \in Waits /\ w.waiting /\ w.pkt = c.wait.pkt
        /\ w.do_insert = c.wait.do_insert
    BY <2>1, <2>2, <2>3 DEF restart_wait, Waits
  <2> HIDE DEF w
  <2>5. /\ r \in NodeRec /\ r.wait = w /\ r.pkt_num = c.pkt_num
        /\ r.out = c.out /\ r.raised = c.raised
    BY <2>1, <2>4 DEF NodeRec
  <2> HIDE DEF r
  <2>6. Good(r)
    BY <2>2, <2>4, <2>5 DEF Good, WaitCoherent
  <2>7. pkt.op \in {"DN", "SC"} /\ pkt.num \in PktNum /\ pkt.fits \in BOOLEAN
    BY <2>2 DEF Good, WaitCoherent, WaitPkts
  <2> HIDE DEF pkt
  <2> DEFINE resend == TRUE
  <2>8. resend \in BOOLEAN
    OBVIOUS
  <2> HIDE DEF resend
  <2> DEFINE f == publish_pkt(r, pkt, resend)
  <2>9. /\ f.wait = r.wait
        /\ Only(f, {x \in Sending(pkt) : x.resend = resend})
        /\ AtMostOne(f.out, Orders)
    BY <2>5, <2>6, <2>7, <2>8, PublishAsks
  <2>10. d = f
    BY <1>1, <1>6 DEF resend
  <2> HIDE DEF f
  <2>11. {x \in Sending(pkt) : x.resend = resend} \subseteq Polls \cup Repeating(c)
    BY DEF Repeating, pkt, resend
  <2>12. Only(d, Polls \cup Repeating(c))
    BY <2>9, <2>10, <2>11, OnlyMore
  <2>13. QED
    BY <1>2, <2>2, <2>4, <2>5, <2>9, <2>10, <2>12 DEF AsksAgain, d
<1>7. QED
  BY <1>4, <1>5, <1>6

LEMMA PeriodicCheckAsks ==
  ASSUME NEW c, Good(c), c.out = <<>>, ~c.raised
  PROVE  AsksAgain(c, periodic_check(c))
<1> DEFINE d == periodic_check_for_AS(c)
           x == [d EXCEPT !.raised = TRUE]
           s == set_state(d, "OVERDUE")
           e == IF is_overdue(d) /\ is_state_up(d) THEN s ELSE d
           p == SendShort(e, "GS")
           f == periodic_check(c)
<1>1. AsksAgain(c, d) /\ Good(d)
  BY CheckForASAsks DEF AsksAgain
<1>2. f = IF overdue_raises(d) THEN x ELSE IF PollDue(e) THEN p ELSE e
  BY DEF periodic_check, OverdueCheck, PollCheck, send_get_status
<1> HIDE DEF d
<1>3. /\ Good(s) /\ s.wait = d.wait /\ s.last_packet_num = d.last_packet_num
      /\ Adds(d, s, {})
  BY <1>1, SetStateSends DEF States, CodeStates, MayPoll
<1> HIDE DEF s, f
<1>4. /\ Good(e) /\ AsksAgain(c, e)
  <2>1. Adds(d, s, Polls)
    BY <1>3, AddsMore
  <2>2. AsksAgain(c, s)
    BY <1>1, <1>3, <2>1, PollsAskNothing
  <2>3. QED
    BY <1>1, <1>3, <2>2
<1> HIDE DEF e
<1>5. /\ Good(p) /\ Same(e, p) /\ p.wait = e.wait /\ Adds(e, p, MaySendShort(e, "GS"))
  BY <1>4, SendShortSends, SendShortIsQuiet DEF Sends, Quietly
<1>6. MaySendShort(e, "GS") \subseteq Polls
  BY DEF MaySendShort
<1> HIDE DEF p
<1>7. Adds(e, p, Polls)
  BY <1>5, <1>6, AddsMore
<1>8. AsksAgain(c, p)
  BY <1>4, <1>5, <1>7, PollsAskNothing DEF Same
<1>9. AsksAgain(c, x)
  <2>1. /\ x \in NodeRec /\ x.wait = d.wait /\ x.pkt_num = d.pkt_num
        /\ x.signed = d.signed /\ x.out = d.out
        /\ x.last_packet_num = d.last_packet_num
    BY <1>1 DEF Good, NodeRec
  <2> HIDE DEF x
  <2>2. Good(x)
    BY <1>1, <2>1, OtherFields DEF Quietly
  <2>3. QED
    BY <1>1, <2>1, <2>2 DEF AsksAgain, Only
<1> HIDE DEF x
<1>10. QED
  BY <1>2, <1>4, <1>8, <1>9 DEF f

----------------------------------------------------------------------------
(* What the store puts on the control topic in a step.                     *)

Message(e, s) == [op |-> e.op, id |-> <<s, e.num>>]

Messages(out, s) ==
  LET ps == Filter(out, {e \in Elements(out) : e.kind = "publish"})
  IN  [i \in DOMAIN ps |-> Message(ps[i], s)]

LEMMA StoreSentIs == StoreSent = Messages(node'[a].out, store_session)
  BY DEF StoreSent, Messages, Message

LEMMA MessagesOf ==
  ASSUME NEW out \in Seq(Effects), NEW s
  PROVE  LET t == Messages(out, s)
             P == {e \in Elements(out) : e.kind = "publish"}
         IN  /\ \A U : (\A e \in P : Message(e, s) \in U) => t \in Seq(U)
             /\ \A T : Some(t, T) <=> \E e \in P : Message(e, s) \in T
             /\ \A S, T : /\ AtMostOne(out, S)
                          /\ \A e \in P : Message(e, s) \in T => e \in S
                          => AtMostOne(t, T)
<1> DEFINE t == Messages(out, s)
           P == {e \in Elements(out) : e.kind = "publish"}
           ps == Filter(out, P)
<1>1. ps \in Seq(Effects) /\ Elements(ps) = P
  <2>1. Elements(ps) = Elements(out) \cap P /\ ps \in Seq(Effects)
    BY FilterElements
  <2>2. QED
    BY <2>1
<1>2. t = [i \in DOMAIN ps |-> Message(ps[i], s)]
  BY DEF Messages
<1>3. \A S : AtMostOne(out, S) => AtMostOne(ps, S)
  BY FilterAtMostOne
<1> HIDE DEF ps, t, P
<1>4. /\ Len(ps) \in Nat /\ DOMAIN ps = 1 .. Len(ps) /\ DOMAIN t = DOMAIN ps
      /\ \A i \in DOMAIN ps : t[i] = Message(ps[i], s) /\ ps[i] \in P
      /\ \A e \in P : \E i \in DOMAIN ps : ps[i] = e
  BY <1>1, <1>2 DEF Elements
<1>5. ASSUME NEW U, \A e \in P : Message(e, s) \in U
      PROVE  t \in Seq(U)
  <2>1. t = [i \in 1 .. Len(ps) |-> t[i]] /\ \A i \in 1 .. Len(ps) : t[i] \in U
    BY <1>2, <1>4, <1>5
  <2>2. QED
    BY <1>4, <2>1
<1>6. ASSUME NEW T
      PROVE  Some(t, T) <=> \E e \in P : Message(e, s) \in T
  <2>1. ASSUME NEW i \in DOMAIN t, t[i] \in T
        PROVE  \E e \in P : Message(e, s) \in T
    BY <1>4, <2>1
  <2>2. ASSUME NEW e \in P, Message(e, s) \in T
        PROVE  Some(t, T)
    <3>1. PICK i \in DOMAIN ps : ps[i] = e
      BY <1>4
    <3>2. i \in DOMAIN t /\ t[i] \in T
      BY <1>4, <2>2, <3>1
    <3>3. QED
      BY <3>2 DEF Some
  <2>3. QED
    BY <2>1, <2>2 DEF Some
<1>7. ASSUME NEW S, NEW T, AtMostOne(out, S), \A e \in P : Message(e, s) \in T => e \in S,
             NEW i \in DOMAIN t, NEW j \in DOMAIN t, t[i] \in T, t[j] \in T
      PROVE  i = j
  <2>1. ps[i] \in S /\ ps[j] \in S
    BY <1>4, <1>7
  <2>2. QED
    BY <1>3, <1>4, <1>7, <2>1 DEF AtMostOne
<1>8. QED
  BY <1>5, <1>6, <1>7 DEF AtMostOne, t, P

Asking    == {e \in Effects : e.kind = "publish" /\ e.op \in {"DN", "SC"}}
ToTheNode == {e \in Effects : e.kind = "publish" => e.op \in StoreOps}

Sessions == 1 .. MaxRestarts + 1

\* The control topic after the store has published what d.out lists.
LEMMA ControlTopic ==
  ASSUME NEW u \in Seq(Downward), NEW d, Good(d), Only(d, ToTheNode), NEW s \in Sessions
  PROVE  LET v == u \o Messages(d.out, s)
         IN  /\ v \in Seq(Downward)
             /\ Some(v, DownAcks) <=> Some(u, DownAcks) \/ Some(d.out, Acks)
             /\ Some(v, DownAsks) <=> Some(u, DownAsks) \/ Some(d.out, Asking)
             /\ AtMostOne(u, DownAcks) /\ AtMostOne(d.out, Acks)
                /\ ~(Some(u, DownAcks) /\ Some(d.out, Acks)) => AtMostOne(v, DownAcks)
             /\ AtMostOne(u, DownAsks) /\ AtMostOne(d.out, Orders)
                /\ ~(Some(u, DownAsks) /\ Some(d.out, Asking)) => AtMostOne(v, DownAsks)
             /\ AtMostOne(u, DownAsks) /\ ~Some(d.out, Asking) => AtMostOne(v, DownAsks)
             /\ \A i \in DOMAIN v :
                  \/ \E j \in DOMAIN u : v[i] = u[j]
                  \/ \E j \in DOMAIN d.out : /\ d.out[j].kind = "publish"
                                             /\ v[i] = Message(d.out[j], s)
<1> DEFINE t == Messages(d.out, s)
           v == u \o t
           P == {e \in Elements(d.out) : e.kind = "publish"}
<1>1. /\ d.out \in Seq(Effects) /\ Len(d.out) \in Nat /\ DOMAIN d.out = 1 .. Len(d.out)
  BY OutType
<1>2. \A e \in P : /\ e \in Effects /\ e.kind = "publish" /\ e.op \in StoreOps
                   /\ e.num \in PktNum
                   /\ \E j \in DOMAIN d.out : e = d.out[j]
  BY <1>1 DEF Elements, Only, ToTheNode, Effects
<1>3. /\ \A U : (\A e \in P : Message(e, s) \in U) => t \in Seq(U)
      /\ \A T : Some(t, T) <=> \E e \in P : Message(e, s) \in T
      /\ \A S, T : /\ AtMostOne(d.out, S)
                   /\ \A e \in P : Message(e, s) \in T => e \in S
                   => AtMostOne(t, T)
  BY <1>1, MessagesOf
<1>4. \A S : Some(d.out, S) <=> \E e \in Elements(d.out) : e \in S
  BY DEF Some, Elements
<1>5. \A e \in P : /\ Message(e, s) \in Downward
                   /\ Message(e, s) \in DownAcks <=> e \in Acks
                   /\ Message(e, s) \in DownAsks <=> e \in Asking
  BY <1>2 DEF Message, Downward, DownAcks, DownAsks, Acks, Asking, Ids, Sessions
<1>6. /\ Acks \cap Elements(d.out) \subseteq P
      /\ Asking \cap Elements(d.out) \subseteq P /\ P \subseteq Elements(d.out)
  BY DEF Acks, Asking
<1> HIDE DEF t, P
<1>7. t \in Seq(Downward) /\ v \in Seq(Downward)
  BY <1>3, <1>5, ConcatOf
<1>8. /\ Some(t, DownAcks) <=> Some(d.out, Acks)
      /\ Some(t, DownAsks) <=> Some(d.out, Asking)
  BY <1>3, <1>4, <1>5, <1>6
<1>9. /\ AtMostOne(d.out, Acks) => AtMostOne(t, DownAcks)
      /\ AtMostOne(d.out, Orders) => AtMostOne(t, DownAsks)
  <2>1. \A e \in P : Message(e, s) \in DownAsks => e \in Orders
    BY <1>2, <1>5 DEF Asking, Orders
  <2>2. QED
    BY <1>3, <1>5, <2>1
<1>10. /\ Some(v, DownAcks) <=> Some(u, DownAcks) \/ Some(t, DownAcks)
       /\ Some(v, DownAsks) <=> Some(u, DownAsks) \/ Some(t, DownAsks)
  BY <1>7, SomeOfConcat
<1>11. \A S : AtMostOne(u, S) /\ AtMostOne(t, S) /\ ~(Some(u, S) /\ Some(t, S))
                => AtMostOne(v, S)
  BY <1>7, AtMostOneOfConcat
<1>12. ASSUME NEW i \in DOMAIN v
       PROVE  \/ \E j \in DOMAIN u : v[i] = u[j]
              \/ \E j \in DOMAIN d.out : /\ d.out[j].kind = "publish"
                                         /\ v[i] = Message(d.out[j], s)
  <2>1. v[i] \in Elements(u) \cup Elements(t)
    <3>1. Elements(v) = Elements(u) \cup Elements(t)
      BY <1>7, ElementsOfConcat
    <3>2. v[i] \in Elements(v)
      BY DEF Elements
    <3>3. QED
      BY <3>1, <3>2
  <2>2. CASE v[i] \in Elements(u)
    BY <2>2 DEF Elements
  <2>3. CASE v[i] \in Elements(t)
    <3>1. Some(t, {v[i]})
      BY <2>3 DEF Some, Elements
    <3>2. PICK e \in P : Message(e, s) = v[i]
      BY <1>3, <3>1
    <3>3. QED
      BY <1>2, <3>2
  <2>4. QED
    BY <2>1, <2>2, <2>3
<1> HIDE DEF v
<1>13. AtMostOne(u, DownAsks) /\ ~Some(d.out, Asking) => AtMostOne(v, DownAsks)
  BY <1>8, <1>11, NoneIsAtMostOne
<1>14. QED
  BY <1>7, <1>8, <1>9, <1>10, <1>11, <1>12, <1>13 DEF v, t

----------------------------------------------------------------------------
(* The steps of the node.                                                  *)

\* A step of the node puts one packet at most on its data topic, with a number
\* that it never used in this session, and none while a packet waits.
Said(t, ops) ==
  /\ t \in Seq(Upward)
  /\ \/ t = <<>>
     \/ /\ ~py.wait.waiting
        /\ Len(t) = 1 /\ t[1].op \in ops
        /\ t[1].id = <<node_session, py'.pkt_num>> /\ py'.pkt_num > py.pkt_num

NodeGoesOn(ops) ==
  /\ py' \in Py!PyRec /\ py'.out = <<>> /\ py'.taken = {}
  /\ py'.pkt_num >= py.pkt_num
  /\ \E t : Said(t, ops) /\ to_store' = to_store \o t

LEMMA PySentOf ==
  ASSUME LinkTyped, NEW ops \in SUBSET Py!PyOps, NEW d, PyGoesOn(py, d, ops),
         py' = Py!Idle(d)
  PROVE  /\ Said(PySent(d), ops)
         /\ d.out = <<>> => PySent(d) = <<>>
         /\ d.out # <<>> => Len(PySent(d)) = 1 /\ ~py.wait.waiting
         /\ py' \in Py!PyRec /\ py'.out = <<>> /\ py'.taken = {}
         /\ py'.pkt_num = d.pkt_num /\ py'.wait = d.wait /\ py'.pkt_num >= py.pkt_num
         /\ py'.subscribed = d.subscribed
<1> DEFINE t == PySent(d)
<1>1. d \in Py!PyRec /\ d.pkt_num >= py.pkt_num /\ Publishes(py, d, ops)
  BY DEF PyGoesOn
<1>2. /\ py' \in Py!PyRec /\ py'.out = <<>> /\ py'.taken = {}
      /\ py'.pkt_num = d.pkt_num /\ py'.wait = d.wait /\ py'.subscribed = d.subscribed
  BY <1>1, PyIdle
<1>3. t = [i \in DOMAIN d.out |->
             [op |-> d.out[i].op, id |-> <<node_session, d.out[i].num>>]]
  BY DEF PySent
<1>4. node_session \in 1 .. MaxRestarts + 1
  BY LinkAssumption DEF LinkTyped
<1> HIDE DEF t
<1>5. CASE d.out = <<>>
  <2>1. t = <<>>
    BY <1>3, <1>5
  <2>2. t \in Seq(Upward)
    BY <2>1
  <2>3. QED
    BY <1>1, <1>2, <1>5, <2>1, <2>2 DEF Said, t
<1>6. CASE d.out # <<>>
  <2>1. /\ ~py.wait.waiting
        /\ Len(d.out) = 1
        /\ d.out[1].op \in ops /\ d.out[1].num = d.pkt_num
        /\ d.pkt_num \in PktNum /\ d.pkt_num > py.pkt_num
    BY <1>1, <1>6 DEF Publishes
  <2>2. DOMAIN d.out = 1 .. 1
    <3>1. d.out \in Seq(Py!PySent)
      BY <1>1 DEF Py!PyRec
    <3>2. QED
      BY <2>1, <3>1
  <2> DEFINE m == [op |-> d.out[1].op, id |-> <<node_session, d.pkt_num>>]
  <2>3. m \in Upward
    BY <1>4, <2>1 DEF Upward, Ids
  <2>4. t = [i \in 1 .. 1 |-> m]
    BY <1>3, <2>1, <2>2
  <2>5. m.op \in ops /\ m.id = <<node_session, d.pkt_num>>
    BY <2>1
  <2> HIDE DEF m
  <2>6. t \in Seq(Upward) /\ Len(t) = 1 /\ t[1] = m
    BY <2>3, <2>4
  <2>7. QED
    BY <1>1, <1>2, <1>6, <2>1, <2>5, <2>6 DEF Said, t
<1>7. QED
  BY <1>5, <1>6

\* A topic with one message more, or none.
LEMMA OneMore ==
  ASSUME NEW K, NEW s \in Seq(K), NEW t \in Seq(K), t = <<>> \/ Len(t) = 1
  PROVE  LET u == s \o t
             last == Len(s) + 1
         IN  /\ u \in Seq(K) /\ Len(s) \in Nat
             /\ DOMAIN s = 1 .. Len(s)
             /\ \A i \in DOMAIN s : i \in DOMAIN u /\ u[i] = s[i] /\ i < last
             /\ t = <<>> => DOMAIN u = DOMAIN s
             /\ t # <<>> => /\ DOMAIN u = DOMAIN s \cup {last}
                            /\ u[last] = t[1] /\ t[1] \in K
<1> DEFINE u == s \o t
<1>1. /\ u \in Seq(K) /\ DOMAIN u = 1 .. Len(s) + Len(t)
      /\ \A i \in 1 .. Len(s) + Len(t) : u[i] = IF i <= Len(s) THEN s[i] ELSE t[i - Len(s)]
  BY ConcatOf
<1>2. /\ Len(s) \in Nat /\ DOMAIN s = 1 .. Len(s) /\ Len(t) \in Nat
      /\ t = <<>> => Len(t) = 0
      /\ t # <<>> => Len(t) = 1 /\ t[1] \in K
  BY EmptySeq
<1> HIDE DEF u
<1>3. \A i \in DOMAIN s : i \in DOMAIN u /\ u[i] = s[i] /\ i < Len(s) + 1
  BY <1>1, <1>2
<1>4. t = <<>> => DOMAIN u = DOMAIN s
  BY <1>1, <1>2
<1>5. ASSUME t # <<>>
      PROVE  DOMAIN u = DOMAIN s \cup {Len(s) + 1} /\ u[Len(s) + 1] = t[1]
  <2>1. DOMAIN u = 1 .. Len(s) + 1 /\ Len(t) = 1
    BY <1>1, <1>2, <1>5
  <2>2. u[Len(s) + 1] = t[Len(s) + 1 - Len(s)]
    BY <1>1, <1>2, <2>1
  <2>3. Len(s) + 1 - Len(s) = 1
    BY <1>2
  <2>4. QED
    BY <1>2, <2>1, <2>2, <2>3
<1>6. QED
  BY <1>1, <1>2, <1>3, <1>4, <1>5 DEF u

LEMMA UpwardTypes ==
  ASSUME NEW m \in Upward
  PROVE  /\ m.op \in Py!PyOps /\ m.id \in Ids
         /\ m.id[1] \in Sessions /\ m.id[2] \in PktNum
         /\ m.id[1] \in Int /\ m.id[2] \in Int /\ m.id[2] > 0
         /\ m.id = <<m.id[1], m.id[2]>>
  BY DEF Upward, Ids, Sessions, PktNum

LEMMA NodeTypes ==
  ASSUME LinkTyped
  PROVE  /\ py.pkt_num \in Int /\ node_session \in Int /\ store_session \in Int
         /\ node[a].last_packet_num \in Int /\ first \in Int /\ Good(node[a])
         /\ py.wait \in Py!PyWaits /\ py.wait.waiting \in BOOLEAN
         /\ node_session \in Sessions /\ store_session \in Sessions
<1>1. Good(node[a])
  BY GoodNodes, LinkAssumption DEF LinkTyped, SafeInv
<1>2. node[a].last_packet_num \in Int
  BY <1>1, MaxPktNumAssumption DEF Good, NodeRec, LastSeen
<1>3. /\ py.pkt_num \in Int /\ py.wait \in Py!PyWaits /\ first \in Int
  BY MaxPktNumAssumption DEF LinkTyped, LinkTypeOK, Py!PyRec, LastSeen
<1>4. py.wait.waiting \in BOOLEAN
  BY <1>3, PyWaitTypes
<1>5. node_session \in Sessions /\ store_session \in Sessions
  BY LinkAssumption DEF LinkTyped, Sessions
<1>6. QED
  BY <1>1, <1>2, <1>3, <1>4, <1>5 DEF Sessions

LEMMA NumbersAfterSaid ==
  ASSUME LinkTyped, NumbersGrow, NEW ops \in SUBSET Py!PyOps, NodeGoesOn(ops),
         UNCHANGED <<node, node_session, first>>
  PROVE  NumbersGrow'
<1>1. PICK t : Said(t, ops) /\ to_store' = to_store \o t
  BY DEF NodeGoesOn
<1> DEFINE u == to_store \o t
           last == Len(to_store) + 1
<1>2. to_store \in Seq(Upward) /\ t \in Seq(Upward) /\ (t = <<>> \/ Len(t) = 1)
  BY <1>1 DEF Said, LinkTyped, LinkTypeOK
<1>3. /\ u \in Seq(Upward)
      /\ \A i \in DOMAIN to_store : i \in DOMAIN u /\ u[i] = to_store[i] /\ i < last
      /\ t = <<>> => DOMAIN u = DOMAIN to_store
      /\ t # <<>> => /\ DOMAIN u = DOMAIN to_store \cup {last}
                     /\ u[last] = t[1]
      /\ \A i \in DOMAIN to_store : i \in Int
      /\ last \in Int
  BY <1>2, OneMore
<1>4. t # <<>> => t[1].id = <<node_session, py'.pkt_num>> /\ py'.pkt_num > py.pkt_num
  BY <1>1 DEF Said
<1>5. /\ py.pkt_num \in Int /\ node_session \in Int /\ first \in Int
      /\ node[a].last_packet_num \in Int
  BY NodeTypes
<1>6. py'.pkt_num >= py.pkt_num /\ py'.pkt_num \in Int
  BY MaxPktNumAssumption DEF NodeGoesOn, Py!PyRec
<1>7. \A i \in DOMAIN u : u[i] \in Upward
  BY <1>3
<1> HIDE DEF u, last
<1>8. \A i \in DOMAIN to_store :
        /\ to_store[i] \in Upward
        /\ to_store[i].id[1] \in Int /\ to_store[i].id[2] \in Int
        /\ to_store[i].id[1] <= node_session
        /\ to_store[i].id[1] = node_session => to_store[i].id[2] <= py.pkt_num
  BY <1>2, UpwardTypes DEF NumbersGrow
<1>9. \A i \in DOMAIN u :
        \/ i \in DOMAIN to_store /\ u[i] = to_store[i]
        \/ t # <<>> /\ i = last /\ u[i].id[1] = node_session /\ u[i].id[2] = py'.pkt_num
  BY <1>3, <1>4
<1>10. \A i \in DOMAIN u :
         /\ u[i].id[1] <= node_session
         /\ u[i].id[1] = node_session => u[i].id[2] <= py'.pkt_num
  BY <1>5, <1>6, <1>8, <1>9
<1>11. ASSUME NEW i \in DOMAIN u, NEW j \in DOMAIN u, i < j
       PROVE  <<u[i], u[j]>> \in Later
  <2>1. CASE j \in DOMAIN to_store
    <3>1. i \in DOMAIN to_store
      BY <1>3, <1>9, <1>11, <2>1
    <3>2. <<to_store[i], to_store[j]>> \in Later
      BY <1>11, <2>1, <3>1 DEF NumbersGrow, InOrder
    <3>3. QED
      BY <1>3, <2>1, <3>1, <3>2
  <2>2. CASE j \notin DOMAIN to_store
    <3>1. /\ t # <<>> /\ j = last /\ u[j].id[1] = node_session
          /\ u[j].id[2] = py'.pkt_num /\ i \in DOMAIN to_store
      BY <1>9, <1>11, <2>2, <1>3
    <3>2. \/ u[i].id[1] < u[j].id[1]
          \/ u[i].id[1] = u[j].id[1] /\ u[i].id[2] < u[j].id[2]
      <4>1. /\ u[i].id[1] \in Int /\ u[i].id[2] \in Int
            /\ u[i].id[1] <= node_session
            /\ u[i].id[1] = node_session => u[i].id[2] <= py.pkt_num
        BY <1>3, <1>8, <3>1
      <4>2. py'.pkt_num > py.pkt_num
        BY <1>4, <3>1
      <4> QED
        BY <1>5, <1>6, <3>1, <4>1, <4>2
    <3>3. QED
      BY <1>7, <1>11, <3>2 DEF Later
  <2>3. QED
    BY <2>1, <2>2
<1>12. ASSUME first # 0
       PROVE  /\ node[a].last_packet_num <= py'.pkt_num
              /\ \A i \in DOMAIN u :
                   u[i].id[1] = node_session /\ node[a].last_packet_num < u[i].id[2]
  <2>1. /\ node[a].last_packet_num <= py.pkt_num
        /\ \A i \in DOMAIN to_store :
             /\ to_store[i].id[1] = node_session
             /\ node[a].last_packet_num < to_store[i].id[2]
    BY <1>12 DEF NumbersGrow
  <2>2. QED
    BY <1>4, <1>5, <1>6, <1>8, <1>9, <2>1
<1>13. to_store' = u
  BY <1>1 DEF u
<1>14. node_session = 1 /\ first = 0 => node[a].last_packet_num = 0
  BY DEF NumbersGrow
<1>15. InOrder(u, Later)
  BY <1>11 DEF InOrder
<1>16. QED
  BY <1>10, <1>12, <1>13, <1>14, <1>15 DEF NumbersGrow, Later

----------------------------------------------------------------------------
(* The steps of the store.                                                 *)

LEMMA FreshIs ==
  ASSUME NEW c, Good(c)
  PROVE  LET s == Fresh(c)
         IN  /\ Good(s) /\ s.out = <<>> /\ ~s.raised
             /\ s.wait = c.wait /\ s.last_packet_num = c.last_packet_num
             /\ s.pkt_num = c.pkt_num
<1>1. Good(Fresh(c)) /\ Fresh(c).out = <<>> /\ ~Fresh(c).raised
  BY FreshBegins DEF Begins
<1>2. /\ Fresh(c).wait = c.wait /\ Fresh(c).last_packet_num = c.last_packet_num
      /\ Fresh(c).pkt_num = c.pkt_num
  BY DEF Fresh, Good, NodeRec
<1>3. QED
  BY <1>1, <1>2

\* A packet of the node that reaches the store.
Received(op, num) ==
  LET c == Fresh(node[a])
      d == node'[a]
  IN  \/ a \notin known /\ d = c
      \/ a \in known /\ IsDuplicate(c.last_packet_num, num) /\ Ignores(c, d, op, num)
      \/ a \in known /\ ~IsDuplicate(c.last_packet_num, num) /\ Handles(c, d, op, num)

LEMMA ReceiveIs ==
  ASSUME LinkTyped, NEW op \in Py!PyOps, NEW num \in PktNum, OnDataMsg(AsPacket(op, num))
  PROVE  Received(op, num)
<1> DEFINE p == AsPacket(op, num)
           s == Fresh(node[a])
<1>1. p.slid = a /\ p.op = op /\ p.num = num /\ p.via = <<>>
  BY NodePacketTypes
<1>2. op # "RC" /\ op # "Control"
  BY DEF Py!PyOps
<1>3. Good(s) /\ s.out = <<>> /\ ~s.raised
  BY NodeTypes, FreshIs
<1>4. Quiet[a] = s /\ Quiet = [n \in Slids |-> Fresh(node[n])] /\ a \in Slids
  BY LinkAssumption DEF Quiet
<1>5. RouteRaises(p) = FALSE
  BY <1>1 DEF RouteRaises, RouteHops
<1>6. Ignores(s, Duplicate(s, p), op, num)
  BY <1>3, DuplicateIgnores
<1>7. Handles(s, Accept(s, p, FALSE), op, num)
  BY <1>3, AcceptHandles
<1> DEFINE dup == Duplicate(s, p)
           acc == Accept(s, p, FALSE)
<1>8. OnDataMsg(p)
  OBVIOUS
<1> HIDE DEF p, s
<1>9. CASE a \notin known
  <2>1. node' = Quiet
    BY <1>1, <1>2, <1>8, <1>9 DEF OnDataMsg
  <2>2. QED
    BY <1>4, <1>9, <2>1 DEF Received, s
<1>10. CASE a \in known /\ IsDuplicate(s.last_packet_num, num)
  <2>1. node' = [Quiet EXCEPT ![a] = dup]
    BY <1>1, <1>2, <1>4, <1>8, <1>10 DEF OnDataMsg
  <2> HIDE DEF dup
  <2>2. node'[a] = dup
    BY <1>4, <2>1
  <2>3. QED
    BY <1>6, <1>10, <2>2 DEF Received, s, dup
<1>11. CASE a \in known /\ ~IsDuplicate(s.last_packet_num, num)
  <2>1. node' = [m \in Slids |->
                   IF m = a THEN Accept(s, p, RouteRaises(p))
                   ELSE IF m \in ReachedHops(p) THEN Bridged(Quiet[m])
                   ELSE Quiet[m]]
    BY <1>1, <1>2, <1>4, <1>8, <1>11 DEF OnDataMsg
  <2>2. node'[a] = Accept(s, p, RouteRaises(p))
    BY <1>4, <2>1
  <2>3. node'[a] = acc
    BY <1>5, <2>2
  <2> HIDE DEF acc
  <2>4. QED
    BY <1>7, <1>11, <2>3 DEF Received, s, acc
<1>12. QED
  BY <1>9, <1>10, <1>11

\* The store's other steps.
LEMMA SendDataIs ==
  ASSUME LinkTyped, NEW fits \in BOOLEAN, SendData(a, fits)
  PROVE  Asks(Fresh(node[a]), node'[a])
<1> DEFINE s == Fresh(node[a])
<1>1. Good(s) /\ s.out = <<>> /\ ~s.raised
  BY NodeTypes, FreshIs
<1>2. Quiet[a] = s /\ Quiet = [n \in Slids |-> Fresh(node[n])] /\ a \in Slids
  BY LinkAssumption DEF Quiet
<1>3. node' = [Quiet EXCEPT ![a] = send_data_to_node(Quiet[a], fits)]
  BY DEF SendData
<1> HIDE DEF s
<1>4. node'[a] = send_data_to_node(s, fits)
  BY <1>2, <1>3
<1>5. QED
  BY <1>1, <1>4, SendDataAsks DEF s

LEMMA AsksAgainRefl ==
  ASSUME NEW c, NEW d, Good(d), d.out = <<>>, d.last_packet_num = c.last_packet_num,
         d.wait.waiting = c.wait.waiting, d.wait.pkt = c.wait.pkt,
         d.wait.do_insert = c.wait.do_insert
  PROVE  AsksAgain(c, d)
<1>1. AtMostOne(d.out, Orders)
  BY DEF AtMostOne
<1>2. \A S : Only(d, S)
  BY DEF Only
<1>3. QED
  BY <1>1, <1>2 DEF AsksAgain

LEMMA HeartbeatIs ==
  ASSUME LinkTyped, Heartbeat
  PROVE  AsksAgain(Fresh(node[a]), node'[a])
<1> DEFINE s == Fresh(node[a])
           checked == [n \in Beating |-> periodic_check(Fresh(node[n]))]
<1>1. Good(s) /\ s.out = <<>> /\ ~s.raised
  BY NodeTypes, FreshIs
<1>2. PICK done \in SUBSET Beating :
        node' = [n \in Slids |-> IF n \in done THEN checked[n] ELSE Fresh(node[n])]
  BY DEF Heartbeat
<1>3. a \in Slids
  BY LinkAssumption
<1>4. node'[a] = IF a \in done THEN periodic_check(s) ELSE s
  BY <1>2, <1>3
<1> HIDE DEF s
<1>5. AsksAgain(s, periodic_check(s)) /\ AsksAgain(s, s)
  BY <1>1, PeriodicCheckAsks, AsksAgainRefl
<1>6. QED
  BY <1>4, <1>5 DEF s

LEMMA TickIs ==
  ASSUME LinkTyped, Tick
  PROVE  AsksAgain(Fresh(node[a]), node'[a])
<1> DEFINE s == Fresh(node[a])
           w == Elapse(s.wait)
           d == [[[s EXCEPT !.rx = Older(@, NodeMaxSilence)]
                     EXCEPT !.tx = Older(@, MAXSILENCE + 1)] EXCEPT !.wait = w]
<1>1. Good(s) /\ s.out = <<>> /\ ~s.raised
  BY NodeTypes, FreshIs
<1>2. Quiet[a] = s /\ a \in Slids
  BY LinkAssumption DEF Quiet
<1>3. node'[a] = d
  BY <1>2 DEF Tick
<1>4. Good(node'[a])
  <2>1. IInv'
    BY TickAdvances, AdvancesKeepsIInv DEF LinkTyped, SafeInv
  <2>2. QED
    BY <1>2, <2>1 DEF IInv, Good, WaitsCoherent, TypeOK
<1>5. w.waiting = s.wait.waiting /\ w.pkt = s.wait.pkt /\ w.do_insert = s.wait.do_insert
  BY <1>1 DEF Elapse, Good, NodeRec, Waits
<1> HIDE DEF w, s
<1>6. d.wait = w /\ d.out = <<>> /\ d.last_packet_num = s.last_packet_num
  BY <1>1 DEF Good, NodeRec
<1> HIDE DEF d
<1>7. QED
  BY <1>3, <1>4, <1>5, <1>6, AsksAgainRefl DEF s

LEMMA RestartIs ==
  ASSUME LinkTyped, Restart
  PROVE  LET d == node'[a]
         IN  /\ Good(d) /\ d.out = <<>> /\ d.wait = clear_wait /\ d.last_packet_num = 0
<1>1. a \in Slids /\ node' = [n \in Slids |-> NewNode(node[n].saved.via, node[n].saved.cfg)]
  BY LinkAssumption DEF Restart
<1>2. node'[a] = NewNode(node[a].saved.via, node[a].saved.cfg)
  BY <1>1
<1>3. /\ node'[a].out = <<>> /\ node'[a].wait = clear_wait
      /\ node'[a].last_packet_num = 0
  BY <1>2 DEF NewNode
<1>4. Good(node'[a])
  <2>1. IInv'
    BY RestartRenews DEF LinkTyped, SafeInv
  <2>2. QED
    BY <1>1, <2>1 DEF IInv, Good, WaitsCoherent, TypeOK
<1>5. QED
  BY <1>3, <1>4

\* The packet the store takes from the data topic.
LEMMA HeadOfData ==
  ASSUME LinkTyped, to_store # <<>>
  PROVE  LET p == Head(to_store)
         IN  /\ p \in Upward
             /\ p.op \in Py!PyOps /\ p.id[1] \in Sessions /\ p.id[2] \in PktNum
             /\ AsPacket(p.op, p.id[2]) \in Inbound
<1>1. to_store \in Seq(Upward)
  BY DEF LinkTyped, LinkTypeOK
<1>2. Head(to_store) \in Upward
  BY <1>1, TailOf
<1>3. QED
  BY <1>2, UpwardTypes, NodePacketTypes

\* The store in Link takes the steps of StoreNode, and no other.
LEMMA LinkStepIsStep ==
  ASSUME LinkTyped, [LinkNext]_linkvars
  PROVE  [Next]_vars
<1>1. a \in Commanded
  BY LinkAssumption
<1>2. CASE UNCHANGED linkvars
  BY <1>2 DEF linkvars, vars
<1>3. CASE NodeStart
  BY <1>3 DEF NodeStart, NodeStep, vars
<1>4. ASSUME NEW fits \in BOOLEAN, NodeSendsData(fits)
      PROVE  UNCHANGED vars
  BY <1>4 DEF NodeSendsData, NodeStep, vars
<1>5. CASE NodeSetsStatus
  BY <1>5 DEF NodeSetsStatus, NodeStep, vars
<1>6. CASE NodeReceives
  BY <1>6 DEF NodeReceives, NodeStep, vars
<1>7. CASE NodeRestart
  BY <1>7 DEF NodeRestart, vars
<1>8. CASE StoreReceives
  <2> DEFINE p == AsPacket(Head(to_store).op, Head(to_store).id[2])
  <2>1. OnDataMsg(p) /\ p \in Inbound
    BY <1>8, HeadOfData DEF StoreReceives
  <2> HIDE DEF p
  <2>2. QED
    BY <2>1 DEF Next
<1>9. ASSUME NEW fits \in BOOLEAN, StoreSendsData(fits)
      PROVE  Next
  BY <1>1, <1>9 DEF StoreSendsData, Next
<1>10. CASE StoreBeats
  BY <1>10 DEF StoreBeats, Next
<1>11. CASE StoreTicks
  BY <1>11 DEF StoreTicks, Next
<1>12. CASE StoreRestarts
  BY <1>12 DEF StoreRestarts, Next
<1>13. CASE Lose
  BY <1>13 DEF Lose, vars
<1>14. QED
  BY <1>2, <1>3, <1>4, <1>5, <1>6, <1>7, <1>8, <1>9, <1>10, <1>11, <1>12, <1>13
  DEF LinkNext

\* What the store publishes in its steps is meant for the node.
LEMMA SentToTheNode ==
  /\ \A c, op : MayAnswer(c, op) \cup Polls \subseteq ToTheNode
  /\ Acks \subseteq ToTheNode /\ Polls \subseteq ToTheNode
  /\ \A pkt \in WaitPkts : Sending(pkt) \subseteq ToTheNode
<1>1. /\ Acks \subseteq ToTheNode /\ Polls \subseteq ToTheNode /\ Data \subseteq ToTheNode
      /\ \A c : Confirmation(c) \subseteq ToTheNode
  BY DEF Acks, Polls, Data, Confirmation, ToTheNode, StoreOps
<1>2. \A pkt \in WaitPkts : Sending(pkt) \subseteq ToTheNode
  BY DEF Sending, WaitPkts, ToTheNode, StoreOps
<1>3. \A c, op : MayAnswer(c, op) \subseteq ToTheNode
  BY <1>1 DEF MayAnswer
<1>4. QED
  BY <1>1, <1>2, <1>3

LEMMA ReceivedIsSent ==
  ASSUME NEW op, NEW num, LinkTyped, Received(op, num)
  PROVE  Good(node'[a]) /\ Only(node'[a], ToTheNode)
<1> DEFINE c == Fresh(node[a])
           d == node'[a]
<1>1. Good(c) /\ c.out = <<>>
  BY NodeTypes, FreshIs
<1>2. Only(c, ToTheNode)
  BY <1>1 DEF Only
<1> HIDE DEF c
<1>3. CASE d = c
  BY <1>1, <1>2, <1>3
<1>4. CASE Ignores(c, d, op, num)
  <2>1. Good(d) /\ Only(d, Acks \cup {})
    BY <1>4, OnlyMore DEF Ignores
  <2>2. QED
    BY <2>1, OnlyMore, SentToTheNode
<1>5. CASE Handles(c, d, op, num)
  BY <1>5, OnlyMore, SentToTheNode DEF Handles
<1>6. QED
  BY <1>3, <1>4, <1>5 DEF Received, c

LEMMA AskedIsSent ==
  ASSUME NEW c, Good(c), NEW d, Asks(c, d) \/ AsksAgain(c, d)
  PROVE  Good(d) /\ Only(d, ToTheNode)
<1>1. ASSUME NEW x, Good(x), x.wait.waiting PROVE Sending(x.wait.pkt) \subseteq ToTheNode
  BY <1>1, SentToTheNode DEF Good, WaitCoherent
<1>2. Good(d)
  BY DEF Asks, AsksAgain
<1>3. CASE Asks(c, d)
  <2>1. CASE Only(d, {})
    BY <1>2, <2>1, OnlyMore
  <2>2. CASE d.wait.waiting /\ Only(d, {e \in Sending(d.wait.pkt) : ~e.resend})
    <3>1. {e \in Sending(d.wait.pkt) : ~e.resend} \subseteq ToTheNode
      BY <1>1, <1>2, <2>2
    <3>2. QED
      BY <1>2, <2>2, <3>1, OnlyMore
  <2>3. QED
    BY <1>3, <2>1, <2>2 DEF Asks
<1>4. CASE AsksAgain(c, d)
  <2>1. CASE Only(d, Polls)
    BY <1>2, <2>1, SentToTheNode, OnlyMore
  <2>2. CASE c.wait.waiting /\ Only(d, Polls \cup Repeating(c))
    <3>1. Polls \cup Repeating(c) \subseteq ToTheNode
      BY <1>1, <2>2, SentToTheNode DEF Repeating
    <3>2. QED
      BY <1>2, <2>2, <3>1, OnlyMore
  <2>3. CASE ~c.wait.waiting /\ Only(d, Polls \cup Repeating(c))
    <3>1. Repeating(c) = {}
      BY <2>3 DEF Repeating, Sending, Good, WaitCoherent, clear_wait, NoPkt, Effects
    <3>2. Only(d, Polls)
      BY <2>3, <3>1
    <3>3. QED
      BY <2>1, <3>2
  <2>4. c.wait.waiting \in BOOLEAN
    BY DEF Good, NodeRec, Waits
  <2>5. QED
    BY <1>4, <2>1, <2>2, <2>3, <2>4 DEF AsksAgain
<1>5. QED
  BY <1>3, <1>4

----------------------------------------------------------------------------
(* Types.                                                                  *)

\* start() sends nothing; set_status() a status, and waits for no answer.
LEMMA PyStarts ==
  ASSUME NEW c \in Py!PyRec
  PROVE  LET d == Py!start(c)
         IN  PyGoesOn(c, d, {}) /\ d.out = <<>> /\ d.wait = c.wait
<1> DEFINE i == Py!Idle(c)
           j == [i EXCEPT !.subscribed = TRUE]
           d == Py!start(c)
<1>1. i \in Py!PyRec /\ i.out = <<>> /\ i.wait = c.wait /\ i.pkt_num = c.pkt_num
  BY PyIdle
<1>2. d = [j EXCEPT !.raised = TRUE]
  BY <1>1 DEF Py!start, Py!PyRec
<1> HIDE DEF i
<1>3. j \in Py!PyRec /\ j.out = <<>> /\ j.wait = c.wait /\ j.pkt_num = c.pkt_num
  BY <1>1 DEF Py!PyRec
<1> HIDE DEF j, d
<1>4. d \in Py!PyRec /\ d.out = <<>> /\ d.wait = c.wait /\ d.pkt_num = c.pkt_num
  BY <1>2, <1>3 DEF Py!PyRec
<1>5. c.pkt_num \in Int
  BY MaxPktNumAssumption DEF Py!PyRec
<1>6. QED
  BY <1>4, <1>5 DEF PyGoesOn, Publishes, d

LEMMA PySetsStatus ==
  ASSUME NEW c \in Py!PyRec
  PROVE  LET d == Py!set_status(c)
         IN  PyGoesOn(c, d, {"SS"}) /\ d.wait = c.wait
<1> DEFINE i == Py!Idle(c)
           d == Py!Send(i, "SS")
<1>1. /\ i \in Py!PyRec /\ i.out = <<>> /\ ~i.raised
      /\ i.wait = c.wait /\ i.pkt_num = c.pkt_num
  BY PyIdle
<1>2. Py!set_status(c) = d
  BY DEF Py!set_status, Py!send_status_to_store
<1> HIDE DEF i
<1>3. PyGoesOn(i, d, {"SS"}) /\ d.wait = i.wait
  BY <1>1, PySends
<1> HIDE DEF d
<1>4. PyGoesOn(c, d, {"SS"})
  BY <1>1, <1>3 DEF PyGoesOn, Publishes
<1>5. QED
  BY <1>1, <1>2, <1>3, <1>4

\* The packet that reaches the node, and what on_control_msg makes of it.
HeadOps(op) == CASE op = "AN" -> {} [] op = "GS" -> {"SS"} [] OTHER -> {"AS"}

LEMMA HeadOfControl ==
  ASSUME LinkTyped, to_node # <<>>
  PROVE  LET p == Head(to_node)
             d == IF py.subscribed THEN Py!on_control_msg(py, p.op, p.id[2]) ELSE py
         IN  /\ p \in Downward /\ p.op \in StoreOps
             /\ p.id[1] \in Sessions /\ p.id[2] \in PktNum /\ p.id = <<p.id[1], p.id[2]>>
             /\ PyGoesOn(py, d, HeadOps(p.op)) /\ HeadOps(p.op) \in SUBSET Py!PyOps
             /\ ~py.subscribed => d = py
             /\ py.subscribed =>
                  /\ d.wait = IF p.op = "AN" THEN Py!clear_wait ELSE py.wait
                  /\ d.taken = IF p.op = "DN" THEN {p.id[2]} ELSE {}
             /\ Tail(to_node) \in Seq(Downward)
<1> DEFINE p == Head(to_node)
           num == p.id[2]
           h == Py!on_control_msg(py, p.op, num)
           d == IF py.subscribed THEN h ELSE py
<1>1. to_node \in Seq(Downward) /\ py \in Py!PyRec /\ py.out = <<>>
  BY DEF LinkTyped, LinkTypeOK
<1>2. p \in Downward /\ Tail(to_node) \in Seq(Downward)
  BY <1>1, TailOf
<1> HIDE DEF p
<1>3. p.op \in StoreOps /\ p.id[1] \in Sessions /\ num \in PktNum /\ p.id = <<p.id[1], num>>
  BY <1>2 DEF Downward, Ids, Sessions
<1> HIDE DEF num
<1>4. /\ h.wait = IF p.op = "AN" THEN Py!clear_wait ELSE py.wait
      /\ h.taken = IF p.op = "DN" THEN {num} ELSE {}
      /\ PyGoesOn(py, h, HeadOps(p.op))
  BY <1>1, <1>3, PyHandles DEF HeadOps
<1> HIDE DEF h
<1>5. py.pkt_num \in Int /\ py.subscribed \in BOOLEAN
  BY <1>1, MaxPktNumAssumption DEF Py!PyRec
<1>6. PyGoesOn(py, py, HeadOps(p.op))
  BY <1>1, <1>5 DEF PyGoesOn, Publishes
<1>7. HeadOps(p.op) \in SUBSET Py!PyOps
  BY <1>3 DEF HeadOps, StoreOps, Py!PyOps
<1>8. PyGoesOn(py, d, HeadOps(p.op))
  BY <1>4, <1>5, <1>6
<1>9. /\ ~py.subscribed => d = py
      /\ py.subscribed => d = h
  OBVIOUS
<1> HIDE DEF d
<1>10. /\ ~py.subscribed => d = py
       /\ py.subscribed =>
            /\ d.wait = IF p.op = "AN" THEN Py!clear_wait ELSE py.wait
            /\ d.taken = IF p.op = "DN" THEN {num} ELSE {}
  BY <1>4, <1>9
<1>11. QED
  BY <1>2, <1>3, <1>7, <1>8, <1>10 DEF d, h, num, p

\* What LinkTyped says of the topics, the node, and the ghosts.
Wires ==
  /\ py \in Py!PyRec /\ py.out = <<>> /\ py.taken = {}
  /\ to_store \in Seq(Upward) /\ to_node \in Seq(Downward)
  /\ sent \in BOOLEAN /\ first \in LastSeen
  /\ stored \subseteq PktNum /\ taken \subseteq PktNum
  /\ lost \in Nat /\ hasty \in BOOLEAN /\ crossed \in BOOLEAN
  /\ node_session \in Nat \ {0} /\ store_session \in Nat \ {0}
  /\ node_session + store_session <= MaxRestarts + 2

LEMMA TypedIsWired == LinkTyped <=> SafeInv /\ Wires
  BY DEF LinkTyped, LinkTypeOK, Wires, SafeInv, IInv

\* A step of the node.
LEMMA NodeStepWires ==
  ASSUME LinkTyped, NEW ops \in SUBSET Py!PyOps, NEW d, PyGoesOn(py, d, ops),
         py' = Py!Idle(d), to_store' = to_store \o PySent(d)
  PROVE  /\ py' \in Py!PyRec /\ py'.out = <<>> /\ py'.taken = {}
         /\ to_store' \in Seq(Upward)
         /\ NodeGoesOn(ops)
<1>1. Said(PySent(d), ops)
  BY PySentOf
<1>2. to_store \in Seq(Upward) /\ PySent(d) \in Seq(Upward)
  BY <1>1 DEF LinkTyped, LinkTypeOK, Said
<1>3. to_store' \in Seq(Upward)
  BY <1>2, ConcatOf
<1>4. /\ py' \in Py!PyRec /\ py'.out = <<>> /\ py'.taken = {} /\ py'.pkt_num >= py.pkt_num
  BY PySentOf
<1>5. QED
  BY <1>1, <1>3, <1>4 DEF NodeGoesOn

\* A step of the store.
LEMMA StoreSendsWires ==
  ASSUME LinkTyped, Good(node'[a]), Only(node'[a], ToTheNode), StoreSends
  PROVE  /\ to_node' = to_node \o Messages(node'[a].out, store_session)
         /\ to_node' \in Seq(Downward)
<1>1. to_node' = to_node \o Messages(node'[a].out, store_session)
  BY StoreSentIs DEF StoreSends
<1>2. to_node \in Seq(Downward) /\ store_session \in Sessions
  BY NodeTypes DEF LinkTyped, LinkTypeOK
<1>3. to_node \o Messages(node'[a].out, store_session) \in Seq(Downward)
  BY <1>2, ControlTopic
<1>4. QED
  BY <1>1, <1>3

LEMMA InsertsType ==
  ASSUME Good(node'[a]), NEW op
  PROVE  Inserts(op) \subseteq PktNum
<1> DEFINE d == node'[a]
<1>1. /\ d.out \in Seq(Effects) /\ DOMAIN d.out = 1 .. Len(d.out)
      /\ \A i \in 1 .. Len(d.out) : d.out[i] \in Effects
  BY OutType
<1>2. \A e \in Effects : e.num \in PktNum
  BY DEF Effects
<1>3. Inserts(op) = {d.out[i].num : i \in {j \in DOMAIN d.out :
                       d.out[j].kind = "insert" /\ d.out[j].op = op}}
  BY DEF Inserts
<1> HIDE DEF d
<1>4. QED
  BY <1>1, <1>2, <1>3

LEMMA NodeNextWires ==
  ASSUME LinkTyped,
         \/ NodeStart
         \/ \E fits \in BOOLEAN : NodeSendsData(fits)
         \/ NodeSetsStatus
         \/ NodeReceives
         \/ NodeRestart
  PROVE  Wires'
<1>1. Wires /\ py \in Py!PyRec
  BY TypedIsWired DEF Wires
<1>2. CASE NodeStart
  <2> DEFINE d == Py!start(py)
  <2>1. PyGoesOn(py, d, {}) /\ {} \in SUBSET Py!PyOps
    BY <1>1, PyStarts
  <2>2. py' = Py!Idle(d) /\ to_store' = to_store \o PySent(d)
    BY <1>2 DEF NodeStart, NodeStep
  <2> HIDE DEF d
  <2>3. /\ py' \in Py!PyRec /\ py'.out = <<>> /\ py'.taken = {}
        /\ to_store' \in Seq(Upward)
    BY <2>1, <2>2, NodeStepWires
  <2>4. QED
    BY <1>1, <1>2, <2>3 DEF NodeStart, NodeStep, sessions, Wires
<1>3. ASSUME NEW fits \in BOOLEAN, NodeSendsData(fits)
      PROVE  Wires'
  <2> DEFINE d == Py!send_data_to_store(py, fits)
  <2>1. PyGoesOn(py, d, {"DS"}) /\ {"DS"} \in SUBSET Py!PyOps
    BY <1>1, PySendsData DEF Py!PyOps
  <2>2. /\ py' = Py!Idle(d) /\ to_store' = to_store \o PySent(d)
        /\ sent' = IF d.raised THEN sent ELSE d.out # <<>>
    BY <1>3 DEF NodeSendsData, NodeStep
  <2> HIDE DEF d
  <2>3. /\ py' \in Py!PyRec /\ py'.out = <<>> /\ py'.taken = {}
        /\ to_store' \in Seq(Upward)
    BY <2>1, <2>2, NodeStepWires
  <2>4. sent' \in BOOLEAN
    BY <1>1, <2>2 DEF Wires
  <2>5. QED
    BY <1>1, <1>3, <2>3, <2>4 DEF NodeSendsData, NodeStep, sessions, Wires
<1>4. CASE NodeSetsStatus
  <2> DEFINE d == Py!set_status(py)
  <2>1. PyGoesOn(py, d, {"SS"}) /\ {"SS"} \in SUBSET Py!PyOps
    BY <1>1, PySetsStatus DEF Py!PyOps
  <2>2. py' = Py!Idle(d) /\ to_store' = to_store \o PySent(d)
    BY <1>4 DEF NodeSetsStatus, NodeStep
  <2> HIDE DEF d
  <2>3. /\ py' \in Py!PyRec /\ py'.out = <<>> /\ py'.taken = {}
        /\ to_store' \in Seq(Upward)
    BY <2>1, <2>2, NodeStepWires
  <2>4. QED
    BY <1>1, <1>4, <2>3 DEF NodeSetsStatus, NodeStep, sessions, Wires
<1>5. CASE NodeReceives
  <2> DEFINE p == Head(to_node)
             d == IF py.subscribed THEN Py!on_control_msg(py, p.op, p.id[2]) ELSE py
  <2>1. /\ PyGoesOn(py, d, HeadOps(p.op)) /\ HeadOps(p.op) \in SUBSET Py!PyOps
        /\ Tail(to_node) \in Seq(Downward)
    BY <1>5, HeadOfControl DEF NodeReceives
  <2>2. /\ py' = Py!Idle(d) /\ to_store' = to_store \o PySent(d)
        /\ taken' = IF p.id[1] = store_session THEN taken \cup d.taken ELSE taken
        /\ to_node' = Tail(to_node)
    BY <1>5 DEF NodeReceives, NodeStep
  <2> HIDE DEF d, p
  <2>3. /\ py' \in Py!PyRec /\ py'.out = <<>> /\ py'.taken = {}
        /\ to_store' \in Seq(Upward)
    BY <2>1, <2>2, NodeStepWires
  <2>4. taken' \subseteq PktNum
    <3>1. d.taken \subseteq PktNum
      BY <2>1 DEF PyGoesOn, Py!PyRec, Py!PktNum, PktNum
    <3>2. QED
      BY <1>1, <2>2, <3>1 DEF Wires
  <2>5. QED
    BY <1>1, <1>5, <2>1, <2>2, <2>3, <2>4 DEF NodeReceives, NodeStep, sessions, Wires
<1>6. CASE NodeRestart
  <2>1. /\ Py!NewPyNode \in Py!PyRec
        /\ Py!NewPyNode.out = <<>> /\ Py!NewPyNode.taken = {}
    <3>1. <<>> \in Seq(Py!PySent) /\ 0 \in 0 .. MaxPktNum + 1
      BY MaxPktNumAssumption
    <3>2. QED
      BY <3>1, PyWaitTypes DEF Py!NewPyNode, Py!PyRec
  <2>2. /\ node_session' = node_session + 1 /\ store_session' = store_session
        /\ node_session + store_session < MaxRestarts + 2
        /\ MaxRestarts \in Nat
    BY <1>6, LinkAssumption DEF NodeRestart, MayRestart
  <2>3. /\ node_session' \in Nat \ {0}
        /\ node_session' + store_session' <= MaxRestarts + 2
    BY <1>1, <2>2 DEF Wires
  <2>4. /\ py' = Py!NewPyNode /\ sent' = FALSE /\ stored' = {} /\ first' = 0
        /\ UNCHANGED <<to_store, to_node, lost, taken, hasty, store_session>>
    BY <1>6 DEF NodeRestart, broker
  <2>5. crossed' \in BOOLEAN
    BY <1>6 DEF NodeRestart, OnTopic
  <2>6. first' \in LastSeen /\ stored' \subseteq PktNum /\ sent' \in BOOLEAN
    <3>1. 0 \in LastSeen
      BY MaxPktNumAssumption DEF LastSeen
    <3>2. QED
      BY ONLY <2>4, <3>1
  <2>7. QED
    BY <1>1, <2>1, <2>2, <2>3, <2>4, <2>5, <2>6 DEF Wires
<1>7. QED
  BY <1>2, <1>3, <1>4, <1>5, <1>6

LEMMA StoreNextWires ==
  ASSUME LinkTyped,
         \/ StoreReceives
         \/ \E fits \in BOOLEAN : StoreSendsData(fits)
         \/ StoreBeats
         \/ StoreTicks
         \/ StoreRestarts
         \/ Lose
  PROVE  Wires'
<1>1. Wires /\ Good(Fresh(node[a]))
  BY TypedIsWired, NodeTypes, FreshIs
<1>2. CASE StoreReceives
  <2> DEFINE p == Head(to_store)
  <2>1. /\ p.op \in Py!PyOps /\ p.id[2] \in PktNum
        /\ OnDataMsg(AsPacket(p.op, p.id[2]))
    BY <1>2, HeadOfData DEF StoreReceives
  <2>2. /\ IF p.id[1] = node_session /\ a \in known
           THEN /\ stored' = stored \cup Inserts("DS")
                /\ first' = IF first = 0 THEN p.id[2] ELSE first
           ELSE UNCHANGED <<stored, first>>
        /\ to_store' = Tail(to_store) /\ to_store # <<>>
    BY <1>2 DEF StoreReceives
  <2> HIDE DEF p
  <2>3. Good(node'[a]) /\ Only(node'[a], ToTheNode)
    BY <2>1, ReceiveIs, ReceivedIsSent
  <2>4. to_node' \in Seq(Downward)
    BY <1>2, <2>3, StoreSendsWires DEF StoreReceives
  <2>5. to_store' \in Seq(Upward)
    BY <1>1, <2>2, TailOf DEF Wires
  <2>6. stored' \subseteq PktNum /\ first' \in LastSeen
    <3>1. Inserts("DS") \subseteq PktNum
      BY <2>3, InsertsType
    <3>2. PktNum \subseteq LastSeen
      BY MaxPktNumAssumption DEF PktNum, LastSeen
    <3>3. QED
      BY <1>1, <2>1, <2>2, <3>1, <3>2 DEF Wires
  <2>7. QED
    BY <1>1, <1>2, <2>4, <2>5, <2>6 DEF StoreReceives, StoreSends, Wires
<1>3. ASSUME StoreActs, Asks(Fresh(node[a]), node'[a]) \/ AsksAgain(Fresh(node[a]), node'[a])
      PROVE  Wires'
  <2>1. Good(node'[a]) /\ Only(node'[a], ToTheNode)
    BY <1>1, <1>3, AskedIsSent
  <2>2. to_node' \in Seq(Downward)
    BY <1>3, <2>1, StoreSendsWires DEF StoreActs
  <2>3. hasty' \in BOOLEAN
    BY <1>1, <1>3 DEF StoreActs, Wires
  <2>4. QED
    BY <1>1, <1>3, <2>2, <2>3 DEF StoreActs, StoreSends, Wires
<1>4. ASSUME NEW fits \in BOOLEAN, StoreSendsData(fits)
      PROVE  Wires'
  BY <1>3, <1>4, SendDataIs DEF StoreSendsData
<1>5. CASE StoreBeats
  BY <1>3, <1>5, HeartbeatIs DEF StoreBeats
<1>6. CASE StoreTicks
  BY <1>3, <1>6, TickIs DEF StoreTicks
<1>7. CASE StoreRestarts
  <2>1. /\ store_session' = store_session + 1 /\ node_session' = node_session
        /\ node_session + store_session < MaxRestarts + 2
        /\ MaxRestarts \in Nat /\ hasty' \in BOOLEAN
    BY <1>1, <1>7, LinkAssumption DEF StoreRestarts, MayRestart, Wires
  <2>2. /\ store_session' \in Nat \ {0}
        /\ node_session' + store_session' <= MaxRestarts + 2
    BY <1>1, <2>1 DEF Wires
  <2>3. QED
    BY <1>1, <1>7, <2>1, <2>2 DEF StoreRestarts, broker, Wires
<1>8. CASE Lose
  <2>1. to_store' \in Seq(Upward) /\ to_node' \in Seq(Downward)
    BY <1>1, <1>8, LossThins DEF Lose, Wires
  <2>2. lost' \in Nat
    BY <1>1, <1>8 DEF Lose, Wires
  <2>3. QED
    BY <1>1, <1>8, <2>1, <2>2 DEF Lose, sessions, ghosts, Wires
<1>9. QED
  BY <1>2, <1>4, <1>5, <1>6, <1>7, <1>8

LEMMA LinkTypedNext ==
  ASSUME LinkTyped, [LinkNext]_linkvars
  PROVE  LinkTyped'
<1>1. SafeInv'
  BY LinkStepIsStep, NextSafeInv DEF LinkTyped
<1>2. ASSUME UNCHANGED linkvars
      PROVE  Wires'
  <2>1. Wires
    BY TypedIsWired
  <2>2. QED
    BY <1>2, <2>1 DEF linkvars, broker, sessions, ghosts, Wires
<1>3. Wires'
  BY <1>2, NodeNextWires, StoreNextWires DEF LinkNext
<1>4. SafeInv' /\ Wires' => LinkTyped'
  BY DEF LinkTyped, LinkTypeOK, Wires, SafeInv, IInv
<1>5. QED
  BY <1>1, <1>3, <1>4

\* Link begins in such a state.
LEMMA LinkTypedInit ==
  ASSUME LinkInit
  PROVE  Init /\ LinkTyped
<1>1. Init /\ SafeInv
  BY InitSafeInv DEF LinkInit
<1>2. /\ Py!NewPyNode \in Py!PyRec
      /\ Py!NewPyNode.out = <<>> /\ Py!NewPyNode.taken = {}
  <2>1. <<>> \in Seq(Py!PySent) /\ 0 \in 0 .. MaxPktNum + 1
    BY MaxPktNumAssumption
  <2>2. QED
    BY <2>1, PyWaitTypes DEF Py!NewPyNode, Py!PyRec
<1>3. 0 \in LastSeen /\ MaxRestarts \in Nat
  BY MaxPktNumAssumption, LinkAssumption DEF LastSeen
<1>4. /\ py = Py!NewPyNode
      /\ to_store = <<>> /\ to_node = <<>> /\ lost = 0
      /\ node_session = 1 /\ store_session = 1
      /\ sent = FALSE /\ stored = {} /\ first = 0 /\ taken = {}
      /\ hasty = FALSE /\ crossed = FALSE
  BY DEF LinkInit
<1>5. /\ to_store \in Seq(Upward) /\ to_node \in Seq(Downward)
      /\ sent \in BOOLEAN /\ hasty \in BOOLEAN /\ crossed \in BOOLEAN
      /\ stored \subseteq PktNum /\ taken \subseteq PktNum /\ first \in LastSeen
  <2>1. to_store \in Seq(Upward) /\ to_node \in Seq(Downward)
    BY ONLY <1>4
  <2>2. sent \in BOOLEAN /\ hasty \in BOOLEAN /\ crossed \in BOOLEAN
    BY ONLY <1>4
  <2>3. stored \subseteq PktNum /\ taken \subseteq PktNum /\ first \in LastSeen
    BY ONLY <1>3, <1>4
  <2>4. QED
    BY <2>1, <2>2, <2>3
<1>6. /\ lost \in Nat /\ node_session \in Nat \ {0} /\ store_session \in Nat \ {0}
      /\ node_session + store_session <= MaxRestarts + 2
  BY ONLY <1>3, <1>4
<1>7. Wires
  BY <1>2, <1>4, <1>5, <1>6 DEF Wires
<1>8. QED
  BY <1>1, <1>7, TypedIsWired

(***************************************************************************)
(* Both objects, the two topics and the history of the sessions keep their *)
(* types, whatever is lost and whoever restarts.                           *)
(***************************************************************************)
THEOREM LinkTypeCorrect == LinkSpec => []LinkTypeOK
<1>1. LinkInit => LinkTyped
  BY LinkTypedInit
<1>2. LinkTyped /\ [LinkNext]_linkvars => LinkTyped'
  BY LinkTypedNext
<1>3. LinkTyped => LinkTypeOK
  BY DEF LinkTyped
<1>4. QED
  BY <1>1, <1>2, <1>3, PTL DEF LinkSpec

(***************************************************************************)
(* The store of Link is the store of StoreNode: what holds of a store that *)
(* may receive any packet at any time holds of one that is joined to a     *)
(* PyNode.                                                                 *)
(***************************************************************************)
THEOREM LinkImplementsStoreNode == LinkSpec => Spec
<1>1. LinkInit => Init /\ LinkTyped
  BY LinkTypedInit
<1>2. LinkTyped /\ [LinkNext]_linkvars => LinkTyped' /\ [Next]_vars
  BY LinkTypedNext, LinkStepIsStep
<1>3. QED
  BY <1>1, <1>2, PTL DEF LinkSpec, Spec

----------------------------------------------------------------------------
(* A topic after a step that puts no message of S on it.                   *)

NoMore(s, t, S) ==
  /\ Some(t, S) => Some(s, S)
  /\ AtMostOne(s, S) => AtMostOne(t, S)
  /\ \A i \in DOMAIN t : t[i] \in S => \E j \in DOMAIN s : t[i] = s[j]

LEMMA ThinnerIsNoMore ==
  ASSUME NEW s, NEW t, NEW S, s = t \/ Thinner(s, t)
  PROVE  NoMore(s, t, S)
  BY DEF NoMore, Thinner

\* The node's data topic: a packet with another op.
LEMMA SaysNoMore ==
  ASSUME LinkTyped, NEW ops, NEW t, Said(t, ops), to_store' = to_store \o t,
         NEW S \in SUBSET Upward, \A m \in S : m.op \notin ops
  PROVE  NoMore(to_store, to_store', S)
<1> DEFINE u == to_store \o t
           last == Len(to_store) + 1
<1>1. to_store \in Seq(Upward) /\ t \in Seq(Upward) /\ (t = <<>> \/ Len(t) = 1)
  BY DEF Said, LinkTyped, LinkTypeOK
<1>2. /\ u \in Seq(Upward)
      /\ \A i \in DOMAIN to_store : i \in DOMAIN u /\ u[i] = to_store[i] /\ i < last
      /\ t = <<>> => DOMAIN u = DOMAIN to_store
      /\ t # <<>> => /\ DOMAIN u = DOMAIN to_store \cup {last}
                     /\ u[last] = t[1]
  BY <1>1, OneMore
<1>3. t # <<>> => t[1].op \in ops
  BY DEF Said
<1> HIDE DEF u, last
<1>4. \A i \in DOMAIN u : u[i] \in S => i \in DOMAIN to_store /\ u[i] = to_store[i]
  BY <1>2, <1>3
<1>5. NoMore(to_store, u, S)
  BY <1>2, <1>4 DEF NoMore, Some, AtMostOne
<1>6. QED
  BY <1>5 DEF u

\* Its control topic: what the store sends is neither an AN nor asks for an AS.
LEMMA SendsNoMore ==
  ASSUME NEW u \in Seq(Downward), NEW d, Good(d), Only(d, ToTheNode),
         NEW s \in Sessions
  PROVE  LET v == u \o Messages(d.out, s)
         IN  /\ ~Some(d.out, Acks) => NoMore(u, v, DownAcks)
             /\ ~Some(d.out, Asking) => NoMore(u, v, DownAsks)
<1> DEFINE v == u \o Messages(d.out, s)
<1>1. /\ Some(v, DownAcks) <=> Some(u, DownAcks) \/ Some(d.out, Acks)
      /\ Some(v, DownAsks) <=> Some(u, DownAsks) \/ Some(d.out, Asking)
      /\ AtMostOne(u, DownAcks) /\ ~Some(d.out, Acks) => AtMostOne(v, DownAcks)
      /\ AtMostOne(u, DownAsks) /\ ~Some(d.out, Asking) => AtMostOne(v, DownAsks)
      /\ \A i \in DOMAIN v :
           \/ \E j \in DOMAIN u : v[i] = u[j]
           \/ \E j \in DOMAIN d.out : /\ d.out[j].kind = "publish"
                                      /\ v[i] = Message(d.out[j], s)
  BY ControlTopic, NoneIsAtMostOne
<1>2. \A i \in DOMAIN d.out : d.out[i] \in Effects
  BY OutType
<1> HIDE DEF v
<1>3. ASSUME NEW i \in DOMAIN v, NEW j \in DOMAIN d.out, d.out[j].kind = "publish",
             v[i] = Message(d.out[j], s)
      PROVE  /\ v[i] \in DownAcks => d.out[j] \in Acks
             /\ v[i] \in DownAsks => d.out[j] \in Asking
  BY <1>2, <1>3 DEF Message, DownAcks, DownAsks, Acks, Asking
<1>4. ~Some(d.out, Acks) => NoMore(u, v, DownAcks)
  BY <1>1, <1>3 DEF NoMore, Some
<1>5. ~Some(d.out, Asking) => NoMore(u, v, DownAsks)
  BY <1>1, <1>3 DEF NoMore, Some
<1>6. QED
  BY <1>4, <1>5 DEF v

----------------------------------------------------------------------------
(* The node's data and its answer: DataInv is inductive.                   *)

\* Nothing of the exchange is put on a topic.
LEMMA DataStaysAnswered ==
  ASSUME LinkTyped, DataIsAnswered,
         NoMore(to_store, to_store', UpData), NoMore(to_node, to_node', DownAcks),
         py'.wait = py.wait, sent' = sent, node_session' = node_session,
         stored \subseteq stored', first # 0 => first' = first
  PROVE  DataIsAnswered'
<1>1. OnceOpen(to_store', UpData, to_node', DownAcks)
  BY DEF DataIsAnswered, OnceOpen, NoMore
<1>2. Some(to_store', UpData) \/ Some(to_node', DownAcks) => py'.wait.waiting
  BY DEF DataIsAnswered, NoMore
<1>3. ASSUME sent', py'.wait.waiting
      PROVE  /\ \A i \in DOMAIN to_store' :
                  to_store'[i] \in UpData =>
                    to_store'[i].id = <<node_session', py'.wait.pkt.num>>
             /\ Some(to_node', DownAcks) =>
                  \/ py'.wait.pkt.num \in stored'
                  \/ node_session' > 1 /\ py'.wait.pkt.num = first'
  <2>1. /\ \A i \in DOMAIN to_store :
             to_store[i] \in UpData => to_store[i].id = <<node_session, py.wait.pkt.num>>
        /\ Some(to_node, DownAcks) =>
             \/ py.wait.pkt.num \in stored
             \/ node_session > 1 /\ py.wait.pkt.num = first
    BY <1>3 DEF DataIsAnswered
  <2>2. py.wait.pkt.num \in PktNum /\ 0 \notin PktNum
    BY <1>3, NodeTypes, PyWaitTypes, MaxPktNumAssumption DEF PktNum
  <2>3. QED
    BY <2>1, <2>2 DEF NoMore
<1>4. QED
  BY <1>1, <1>2, <1>3 DEF DataIsAnswered

\* Nothing of it is on the way.
LEMMA DataClosed ==
  ASSUME ~Some(to_store', UpData), ~Some(to_node', DownAcks)
  PROVE  DataIsAnswered'
<1>1. \A i \in DOMAIN to_store' : to_store'[i] \notin UpData
  BY DEF Some
<1>2. AtMostOne(to_store', UpData) /\ AtMostOne(to_node', DownAcks)
  BY NoneIsAtMostOne
<1>3. QED
  BY <1>1, <1>2 DEF DataIsAnswered, OnceOpen

\* The steps of the node but for a restart.
LEMMA NodeStartsOrSets ==
  ASSUME LinkTyped, DataIsAnswered, NodeStart \/ NodeSetsStatus
  PROVE  DataIsAnswered'
<1>1. py \in Py!PyRec
  BY DEF LinkTyped, LinkTypeOK
<1> DEFINE d == IF NodeStart THEN Py!start(py) ELSE Py!set_status(py)
<1>2. PyGoesOn(py, d, {"SS"}) /\ d.wait = py.wait /\ {"SS"} \in SUBSET Py!PyOps
  BY <1>1, PyStarts, PySetsStatus DEF PyGoesOn, Publishes, Py!PyOps
<1>3. /\ py' = Py!Idle(d) /\ to_store' = to_store \o PySent(d)
      /\ UNCHANGED <<to_node, sent, stored, first, node_session>>
  BY DEF NodeStart, NodeSetsStatus, NodeStep, sessions
<1> HIDE DEF d
<1>4. Said(PySent(d), {"SS"}) /\ py'.wait = py.wait
  BY <1>2, <1>3, PySentOf
<1>5. NoMore(to_store, to_store', UpData)
  BY <1>3, <1>4, SaysNoMore DEF UpData
<1>6. NoMore(to_node, to_node', DownAcks)
  BY <1>3, ThinnerIsNoMore
<1>7. QED
  BY <1>3, <1>4, <1>5, <1>6, DataStaysAnswered

LEMMA NodeSendsAnswered ==
  ASSUME LinkTyped, DataIsAnswered, NEW fits \in BOOLEAN, NodeSendsData(fits)
  PROVE  DataIsAnswered'
<1> DEFINE d == Py!send_data_to_store(py, fits)
           t == PySent(d)
<1>1. py \in Py!PyRec /\ to_store \in Seq(Upward) /\ sent \in BOOLEAN
  BY DEF LinkTyped, LinkTypeOK
<1>2. /\ PyGoesOn(py, d, {"DS"}) /\ {"DS"} \in SUBSET Py!PyOps
      /\ IF d.raised THEN d.wait = py.wait /\ d.out = <<>>
         ELSE d.wait.waiting /\ d.wait.pkt.num = d.pkt_num
  BY <1>1, PySendsData DEF Py!PyOps
<1>3. /\ py' = Py!Idle(d) /\ to_store' = to_store \o t
      /\ sent' = IF d.raised THEN sent ELSE d.out # <<>>
      /\ UNCHANGED <<to_node, stored, first, node_session>>
  BY DEF NodeSendsData, NodeStep, sessions
<1> HIDE DEF d
<1>4. /\ Said(t, {"DS"}) /\ (d.out = <<>> => t = <<>>)
      /\ (d.out # <<>> => Len(t) = 1 /\ ~py.wait.waiting)
      /\ py'.pkt_num = d.pkt_num /\ py'.wait = d.wait
  BY <1>2, <1>3, PySentOf
<1> HIDE DEF t
<1>5. CASE t = <<>>
  <2>1. to_store' = to_store
    BY <1>1, <1>3, <1>5
  <2>2. NoMore(to_store, to_store', UpData) /\ NoMore(to_node, to_node', DownAcks)
    BY <1>3, <2>1, ThinnerIsNoMore
  <2>3. CASE d.raised
    BY <1>2, <1>3, <1>4, <2>2, <2>3, DataStaysAnswered
  <2>4. CASE ~d.raised
    <3>1. ~sent' /\ py'.wait.waiting
      <4>1. Len(t) = 0
        BY <1>5
      <4>2. d.out = <<>>
        BY <1>4, <4>1
      <4>3. sent' = (d.out # <<>>)
        BY <1>3, <2>4
      <4>4. QED
        BY <1>2, <1>4, <2>4, <4>2, <4>3
    <3>2. OnceOpen(to_store', UpData, to_node', DownAcks)
      BY <1>3, <2>1 DEF DataIsAnswered, OnceOpen
    <3>3. QED
      BY <3>1, <3>2 DEF DataIsAnswered
  <2>5. QED
    BY <2>3, <2>4
<1>6. CASE t # <<>>
  <2>1. /\ d.out # <<>> /\ ~d.raised /\ ~py.wait.waiting
        /\ Len(t) = 1 /\ t \in Seq(Upward) /\ t[1].id = <<node_session, py'.pkt_num>>
    BY <1>2, <1>4, <1>6 DEF Said
  <2>2. ~Some(to_store, UpData) /\ ~Some(to_node, DownAcks)
    BY <2>1 DEF DataIsAnswered
  <2>3. AtMostOne(to_store, UpData) /\ AtMostOne(t, UpData)
    <3>1. AtMostOne(to_store, UpData)
      BY <2>2, NoneIsAtMostOne
    <3>2. \A i \in DOMAIN t : i = 1
      BY <2>1
    <3>3. QED
      BY <3>1, <3>2 DEF AtMostOne
  <2>4. AtMostOne(to_store', UpData)
    BY <1>1, <1>3, <2>1, <2>2, <2>3, AtMostOneOfConcat
  <2>5. AtMostOne(to_node', DownAcks) /\ ~Some(to_node', DownAcks)
    BY <1>3, <2>2, NoneIsAtMostOne
  <2>6. py'.wait.waiting /\ py'.wait.pkt.num = py'.pkt_num
    BY <1>2, <1>4, <2>1
  <2>7. ASSUME NEW i \in DOMAIN to_store', to_store'[i] \in UpData
        PROVE  to_store'[i].id = <<node_session', py'.wait.pkt.num>>
    <3> DEFINE last == Len(to_store) + 1
    <3>1. /\ \A j \in DOMAIN to_store : to_store'[j] = to_store[j]
          /\ DOMAIN to_store' = DOMAIN to_store \cup {last} /\ to_store'[last] = t[1]
      BY <1>1, <1>3, <2>1, <1>6, OneMore
    <3>2. i = last
      BY <2>2, <2>7, <3>1 DEF Some
    <3>3. QED
      BY <1>3, <2>1, <2>6, <3>1, <3>2
  <2>8. QED
    BY <2>4, <2>5, <2>6, <2>7 DEF DataIsAnswered, OnceOpen
<1>7. QED
  BY <1>5, <1>6

LEMMA NodeReceivesAnswered ==
  ASSUME LinkTyped, DataIsAnswered, NodeReceives
  PROVE  DataIsAnswered'
<1> DEFINE p == Head(to_node)
           d == IF py.subscribed THEN Py!on_control_msg(py, p.op, p.id[2]) ELSE py
           t == PySent(d)
<1>1. to_node # <<>> /\ to_node \in Seq(Downward) /\ to_store \in Seq(Upward)
  BY DEF NodeReceives, LinkTyped, LinkTypeOK
<1>2. /\ p \in Downward
      /\ PyGoesOn(py, d, HeadOps(p.op)) /\ HeadOps(p.op) \in SUBSET Py!PyOps
      /\ ~py.subscribed => d = py
      /\ py.subscribed => d.wait = IF p.op = "AN" THEN Py!clear_wait ELSE py.wait
  BY <1>1, HeadOfControl
<1>3. /\ py' = Py!Idle(d) /\ to_store' = to_store \o t /\ to_node' = Tail(to_node)
      /\ UNCHANGED <<sent, stored, first, node_session>>
  BY DEF NodeReceives, NodeStep, sessions
<1>4. "DS" \notin HeadOps(p.op)
  BY DEF HeadOps
<1> HIDE DEF d, p
<1>5. Said(t, HeadOps(p.op)) /\ py'.wait = d.wait
  BY <1>2, <1>3, PySentOf
<1> HIDE DEF t
<1>6. NoMore(to_store, to_store', UpData)
  BY <1>3, <1>4, <1>5, SaysNoMore DEF UpData
<1>7. NoMore(to_node, to_node', DownAcks)
  BY <1>1, <1>3, TailThins, ThinnerIsNoMore
<1>8. CASE d.wait = py.wait
  BY <1>3, <1>5, <1>6, <1>7, <1>8, DataStaysAnswered
<1>9. CASE d.wait # py.wait
  <2>1. p \in DownAcks
    BY <1>2, <1>9 DEF DownAcks
  <2>2. Some(to_node, DownAcks) /\ ~Some(Tail(to_node), DownAcks)
    BY <1>1, <2>1, SomeOfTail, AtMostOneOfTail DEF p, DataIsAnswered, OnceOpen
  <2>3. ~Some(to_store, UpData)
    BY <2>2 DEF DataIsAnswered, OnceOpen
  <2>4. QED
    BY <1>3, <1>6, <2>2, <2>3, DataClosed DEF NoMore
<1>10. QED
  BY <1>8, <1>9

\* A restart.
LEMMA NodeRestartAnswered ==
  ASSUME LinkTyped, NodeRestart, ~crossed'
  PROVE  DataIsAnswered'
<1>1. /\ ~OnTopic(to_store, {"DS"}) /\ ~OnTopic(to_node, {"AN"})
      /\ to_store' = to_store /\ to_node' = to_node
  BY DEF NodeRestart, broker
<1>2. ~Some(to_store, UpData) /\ ~Some(to_node, DownAcks)
  BY <1>1 DEF OnTopic, Some, UpData, DownAcks
<1>3. QED
  BY <1>1, <1>2, DataClosed

\* The store takes a packet from the topic.
Taken(p) ==
  /\ p \in Upward /\ p = Head(to_store) /\ to_store # <<>>
  /\ p.op \in Py!PyOps /\ p.id[1] \in Sessions /\ p.id[2] \in PktNum
  /\ Received(p.op, p.id[2])
  /\ Good(node'[a]) /\ Only(node'[a], ToTheNode)
  /\ to_store' = Tail(to_store)
  /\ to_node' = to_node \o Messages(node'[a].out, store_session)
  /\ IF p.id[1] = node_session /\ a \in known
     THEN /\ stored' = stored \cup Inserts("DS")
          /\ first' = IF first = 0 THEN p.id[2] ELSE first
     ELSE stored' = stored /\ first' = first
  /\ UNCHANGED <<py, lost, node_session, store_session, sent, taken, crossed, hasty>>

LEMMA StoreTakes ==
  ASSUME LinkTyped, StoreReceives
  PROVE  Taken(Head(to_store))
<1> DEFINE p == Head(to_store)
<1>1. to_store # <<>> /\ OnDataMsg(AsPacket(p.op, p.id[2]))
  BY DEF StoreReceives
<1>2. /\ p \in Upward /\ p.op \in Py!PyOps
      /\ p.id[1] \in Sessions /\ p.id[2] \in PktNum
  BY <1>1, HeadOfData
<1>3. /\ IF p.id[1] = node_session /\ a \in known
         THEN /\ stored' = stored \cup Inserts("DS")
              /\ first' = IF first = 0 THEN p.id[2] ELSE first
         ELSE stored' = stored /\ first' = first
      /\ to_store' = Tail(to_store)
      /\ UNCHANGED <<py, lost, node_session, store_session, sent, taken, crossed, hasty>>
  BY DEF StoreReceives, StoreSends
<1> HIDE DEF p
<1>4. Received(p.op, p.id[2])
  BY <1>1, <1>2, ReceiveIs
<1>5. Good(node'[a]) /\ Only(node'[a], ToTheNode)
  BY <1>4, ReceivedIsSent
<1>6. to_node' = to_node \o Messages(node'[a].out, store_session)
  BY <1>5, StoreSendsWires DEF StoreReceives
<1>7. Taken(p)
  BY <1>1, <1>2, <1>3, <1>4, <1>5, <1>6 DEF Taken, p
<1>8. QED
  BY <1>7 DEF p

\* What its record becomes, whichever case applies.
LEMMA ReceivedRecord ==
  ASSUME LinkTyped, NEW op \in Py!PyOps, NEW num \in PktNum, Received(op, num)
  PROVE  LET c == Fresh(node[a])
             d == node'[a]
         IN  /\ Good(c) /\ c.wait = node[a].wait /\ c.out = <<>>
             /\ c.last_packet_num = node[a].last_packet_num
             /\ AtMostOne(d.out, Acks)
             /\ op # "DS" \/ a \notin known => ~Some(d.out, Acks)
             /\ d.last_packet_num = IF a \in known THEN LastAfter(c.last_packet_num, num)
                                    ELSE c.last_packet_num
<1> DEFINE c == Fresh(node[a])
           d == node'[a]
<1>1. /\ Good(c) /\ c.wait = node[a].wait /\ c.out = <<>>
      /\ c.last_packet_num = node[a].last_packet_num
  BY NodeTypes, FreshIs
<1> HIDE DEF c
<1>2. CASE a \notin known
  <2>1. d = c
    BY <1>2 DEF Received, c
  <2>2. ~Some(d.out, Acks)
    BY <1>1, <2>1 DEF Some
  <2>3. QED
    BY <1>1, <1>2, <2>1, <2>2, NoneIsAtMostOne DEF c
<1>3. CASE a \in known /\ Ignores(c, d, op, num)
  <2>1. op # "DS" => ~Some(d.out, Acks)
    <3>1. op # "DS" => Only(d, {}) /\ Good(d) /\ {} \cap Acks = {}
      BY <1>3 DEF Ignores
    <3>2. QED
      BY <3>1, OutSome
  <2>2. QED
    BY <1>1, <1>3, <2>1 DEF Ignores, c
<1>4. CASE a \in known /\ Handles(c, d, op, num)
  <2>1. op # "DS" => ~Some(d.out, Acks)
    <3>1. op # "DS" => (MayAnswer(c, op) \cup Polls) \cap Acks = {}
      BY NoAcksAmong DEF MayAnswer
    <3>2. Only(d, MayAnswer(c, op) \cup Polls) /\ Good(d)
      BY <1>4 DEF Handles
    <3>3. QED
      BY <3>1, <3>2, OutSome
  <2>2. QED
    BY <1>1, <1>4, <2>1 DEF Handles, Answers, c
<1>5. QED
  BY <1>2, <1>3, <1>4 DEF Received, c

LEMMA LastAfterIs ==
  ASSUME NEW last \in LastSeen, NEW num \in PktNum
  PROVE  LastAfter(last, num) \in LastSeen /\ LastAfter(last, num) <= num
  BY MaxPktNumAssumption DEF LastAfter, LastSeen, PktNum

LEMMA StoreReceivesGrow ==
  ASSUME LinkTyped, NumbersGrow, StoreReceives
  PROVE  NumbersGrow'
<1> DEFINE p == Head(to_store)
           t == Tail(to_store)
           last == node[a].last_packet_num
           last2 == node'[a].last_packet_num
<1>1. Taken(p)
  BY StoreTakes
<1>2. /\ to_store \in Seq(Upward) /\ to_store # <<>> /\ t \in Seq(Upward)
      /\ p \in Upward /\ p.id[2] \in PktNum
  BY <1>1, TailOf DEF Taken, LinkTyped, LinkTypeOK
<1>3. /\ InOrder(t, Later) /\ \A i \in DOMAIN t : <<p, t[i]>> \in Later
      /\ \A i \in DOMAIN t : \E j \in DOMAIN to_store : t[i] = to_store[j]
      /\ \E j \in DOMAIN to_store : p = to_store[j]
  <2>1. InOrder(t, Later) /\ \A i \in DOMAIN t : <<p, t[i]>> \in Later
    BY <1>2, InOrderOfTail DEF NumbersGrow
  <2>2. \A i \in DOMAIN t : \E j \in DOMAIN to_store : t[i] = to_store[j]
    BY <1>2, TailThins DEF Thinner
  <2>3. p = to_store[1] /\ 1 \in DOMAIN to_store
    BY <1>2, TailOf
  <2>4. QED
    BY <2>1, <2>2, <2>3
<1>4. /\ to_store' = t /\ py' = py /\ node_session' = node_session
      /\ first' = IF p.id[1] = node_session /\ a \in known
                  THEN IF first = 0 THEN p.id[2] ELSE first ELSE first
  BY <1>1 DEF Taken
<1>5. last2 = IF a \in known THEN LastAfter(last, p.id[2]) ELSE last
  BY <1>1, ReceivedRecord DEF Taken
<1>6. /\ py.pkt_num \in Int /\ node_session \in Int /\ first \in Int
      /\ last \in LastSeen /\ node_session \in Sessions
  BY NodeTypes DEF Good, NodeRec
<1>7. LastAfter(last, p.id[2]) \in LastSeen /\ LastAfter(last, p.id[2]) <= p.id[2]
  BY <1>2, <1>6, LastAfterIs
<1>8. LastSeen \subseteq Int /\ PktNum \subseteq Int /\ 0 \notin PktNum
  BY MaxPktNumAssumption DEF LastSeen, PktNum
<1>9. \A m \in Upward : m.id[1] \in Int /\ m.id[2] \in Int /\ m.id[1] >= 1
  BY UpwardTypes DEF Sessions
<1>10. \A i \in DOMAIN t : t[i] \in Upward
  BY <1>2
<1> HIDE DEF p, t, last, last2
<1>11. /\ p.id[1] <= node_session
       /\ p.id[1] = node_session => p.id[2] <= py.pkt_num
       /\ first # 0 => p.id[1] = node_session
  BY <1>3 DEF NumbersGrow
<1>12. \A i \in DOMAIN t :
         /\ t[i].id[1] <= node_session
         /\ t[i].id[1] = node_session => t[i].id[2] <= py.pkt_num
  BY <1>3 DEF NumbersGrow
<1>13. ASSUME first' # 0
       PROVE  /\ last2 <= py.pkt_num
              /\ \A i \in DOMAIN t : t[i].id[1] = node_session /\ last2 < t[i].id[2]
  <2>1. p.id[1] = node_session
    BY <1>4, <1>11, <1>13
  <2>2. CASE a \in known
    <3>1. last2 <= p.id[2] /\ last2 \in Int /\ p.id[2] \in Int
      BY <1>2, <1>5, <1>7, <1>8, <2>2
    <3>2. ASSUME NEW i \in DOMAIN t
          PROVE  t[i].id[1] = node_session /\ last2 < t[i].id[2]
      <4>1. \/ p.id[1] < t[i].id[1]
            \/ p.id[1] = t[i].id[1] /\ p.id[2] < t[i].id[2]
        BY <1>3, <3>2 DEF Later
      <4>2. t[i].id[1] \in Int /\ t[i].id[2] \in Int /\ t[i].id[1] <= node_session
        BY <1>9, <1>10, <1>12, <3>2
      <4>3. QED
        BY <1>6, <2>1, <3>1, <4>1, <4>2
    <3>3. last2 <= py.pkt_num
      BY <1>6, <1>11, <2>1, <3>1
    <3>4. QED
      BY <3>2, <3>3
  <2>3. CASE a \notin known
    <3>1. first # 0 /\ last2 = last
      BY <1>4, <1>5, <1>13, <2>3
    <3>2. /\ last <= py.pkt_num
          /\ \A j \in DOMAIN to_store :
               to_store[j].id[1] = node_session /\ last < to_store[j].id[2]
      BY <3>1 DEF NumbersGrow, last
    <3>3. QED
      BY <1>3, <3>1, <3>2
  <2>4. QED
    BY <2>2, <2>3
<1>14. ASSUME node_session = 1, first' = 0
       PROVE  last2 = 0
  <2>1. p.id[1] = node_session
    BY <1>2, <1>9, <1>11, <1>14, <1>6
  <2>2. a \notin known /\ first = 0
    BY <1>2, <1>4, <1>8, <1>14, <2>1
  <2>3. last = 0
    BY <1>14, <2>2 DEF NumbersGrow, last
  <2>4. QED
    BY <1>5, <2>2, <2>3
<1>15. QED
  BY <1>3, <1>4, <1>12, <1>13, <1>14 DEF NumbersGrow, last2, Later

\* The store has not seen the number in this session, or it is the first.
LEMMA DuplicateIsFirst ==
  ASSUME LinkTyped, NumbersGrow, NEW p, Taken(p), a \in known,
         p.id[1] = node_session, IsDuplicate(node[a].last_packet_num, p.id[2])
  PROVE  node_session > 1 /\ p.id[2] = first'
<1> DEFINE last == node[a].last_packet_num
<1>1. last # 0 /\ p.id[2] = last
  BY DEF IsDuplicate
<1>2. last \in Int /\ node_session \in Int /\ node_session >= 1
  BY NodeTypes DEF Sessions
<1>3. \E j \in DOMAIN to_store : p = to_store[j]
  <2>1. to_store \in Seq(Upward) /\ to_store # <<>> /\ p = Head(to_store)
    BY DEF Taken, LinkTyped, LinkTypeOK
  <2>2. QED
    BY <2>1, TailOf
<1>4. first = 0
  BY <1>1, <1>2, <1>3 DEF NumbersGrow
<1>5. node_session # 1
  BY <1>1, <1>4 DEF NumbersGrow
<1>6. first' = p.id[2]
  BY <1>4 DEF Taken
<1>7. QED
  BY <1>2, <1>5, <1>6

LEMMA StoreReceivesAnswered ==
  ASSUME LinkTyped, NumbersGrow, DataIsAnswered, StoreReceives
  PROVE  DataIsAnswered'
<1> DEFINE p == Head(to_store)
           d == node'[a]
           w == py.wait.pkt.num
<1>1. Taken(p)
  BY StoreTakes
<1>2. /\ to_store \in Seq(Upward) /\ to_store # <<>> /\ to_node \in Seq(Downward)
      /\ store_session \in Sessions /\ p.op \in Py!PyOps /\ p.id[2] \in PktNum
  BY <1>1, NodeTypes DEF Taken, LinkTyped, LinkTypeOK
<1>3. /\ AtMostOne(d.out, Acks)
      /\ p.op # "DS" \/ a \notin known => ~Some(d.out, Acks)
  BY <1>1, ReceivedRecord DEF Taken
<1>4. /\ to_store' = Tail(to_store)
      /\ to_node' = to_node \o Messages(d.out, store_session)
      /\ UNCHANGED <<py, node_session, sent>>
      /\ Good(d) /\ Only(d, ToTheNode)
  BY <1>1 DEF Taken
<1>5. stored \subseteq stored' /\ (first # 0 => first' = first)
  BY <1>1 DEF Taken
<1>6. NoMore(to_store, to_store', UpData)
  BY <1>2, <1>4, TailThins, ThinnerIsNoMore
<1>7. CASE ~Some(d.out, Acks)
  <2>1. NoMore(to_node, to_node', DownAcks)
    BY <1>2, <1>4, <1>7, SendsNoMore
  <2>2. py'.wait = py.wait
    BY <1>4
  <2>3. QED
    BY <1>4, <1>5, <1>6, <2>1, <2>2, DataStaysAnswered
<1>8. CASE Some(d.out, Acks)
  <2>1. p.op = "DS" /\ a \in known /\ p \in UpData
    BY <1>1, <1>3, <1>8 DEF Taken, UpData
  <2>2. /\ Some(to_store, UpData) /\ ~Some(Tail(to_store), UpData)
    BY <1>2, <2>1, SomeOfTail, AtMostOneOfTail DEF DataIsAnswered, OnceOpen
  <2>3. ~Some(to_node, DownAcks) /\ py.wait.waiting
    BY <2>2 DEF DataIsAnswered, OnceOpen
  <2>4. AtMostOne(to_node, DownAcks)
    BY <2>3, NoneIsAtMostOne
  <2>5. AtMostOne(to_node', DownAcks)
    BY <1>2, <1>3, <1>4, <2>3, <2>4, ControlTopic
  <2>6. ~Some(to_store', UpData) /\ AtMostOne(to_store', UpData)
    BY <1>4, <2>2, NoneIsAtMostOne
  <2>7. ASSUME sent
        PROVE  w \in stored' \/ (node_session > 1 /\ w = first')
    <3>1. p.id = <<node_session, w>>
      <4>1. p = to_store[1] /\ 1 \in DOMAIN to_store
        BY <1>2, TailOf
      <4>2. QED
        BY <2>1, <2>3, <2>7, <4>1 DEF DataIsAnswered
    <3>2. p.id[1] = node_session /\ p.id[2] = w
      BY <3>1
    <3> DEFINE c == Fresh(node[a])
               last == node[a].last_packet_num
    <3>3. c.last_packet_num = last
      BY NodeTypes, FreshIs
    <3> HIDE DEF c
    <3>4. CASE IsDuplicate(last, p.id[2])
      BY <1>1, <2>1, <3>2, <3>4, DuplicateIsFirst
    <3>5. CASE ~IsDuplicate(last, p.id[2])
      <4>1. Handles(c, d, "DS", w)
        BY <1>1, <2>1, <3>2, <3>3, <3>5 DEF Taken, Received, c
      <4>2. \E i \in DOMAIN d.out : /\ d.out[i].kind = "insert"
                                    /\ d.out[i].op = "DS" /\ d.out[i].num = w
        BY <4>1 DEF Handles, Answers
      <4>3. w \in Inserts("DS")
        BY <4>2 DEF Inserts
      <4>4. QED
        BY <1>1, <2>1, <3>2, <4>3 DEF Taken
    <3>6. QED
      BY <3>4, <3>5
  <2> HIDE DEF p, d
  <2>8. \A i \in DOMAIN to_store' : to_store'[i] \notin UpData
    BY <2>6 DEF Some
  <2>9. QED
    BY <1>4, <2>3, <2>5, <2>6, <2>7, <2>8 DEF DataIsAnswered, OnceOpen
<1>9. QED
  BY <1>7, <1>8

\* What the store does of its own accord leaves the node's data alone.
LEMMA AskedHasNoAcks ==
  ASSUME NEW c, Good(c), NEW d, Asks(c, d) \/ AsksAgain(c, d)
  PROVE  ~Some(d.out, Acks)
<1>1. Good(d)
  BY DEF Asks, AsksAgain
<1>2. ASSUME NEW x, x.wait.pkt.op # "AN" PROVE Sending(x.wait.pkt) \cap Acks = {}
  BY <1>2 DEF Sending, Acks
<1>3. \A x : Good(x) => x.wait.pkt.op # "AN"
  BY DEF Good, NodeRec, Waits, WaitPkts, NoPkt
<1>4. CASE Asks(c, d)
  <2>1. CASE Only(d, {})
    BY <1>1, <2>1, OutSome
  <2>2. CASE Only(d, {e \in Sending(d.wait.pkt) : ~e.resend})
    <3>1. {e \in Sending(d.wait.pkt) : ~e.resend} \cap Acks = {}
      BY <1>1, <1>2, <1>3
    <3>2. QED
      BY <1>1, <2>2, <3>1, OutSome
  <2>3. QED
    BY <1>4, <2>1, <2>2 DEF Asks
<1>5. CASE AsksAgain(c, d)
  <2>1. Polls \cap Acks = {} /\ Repeating(c) \cap Acks = {}
    BY <1>2, <1>3, NoAcksAmong DEF Repeating
  <2>2. Only(d, Polls \cup Repeating(c)) \/ Only(d, Polls)
    BY <1>5 DEF AsksAgain
  <2>3. QED
    BY <1>1, <2>1, <2>2, OutSome
<1>6. QED
  BY <1>4, <1>5

\* Such a step.
Acts ==
  LET c == Fresh(node[a])
      d == node'[a]
  IN  /\ Good(c) /\ c.wait = node[a].wait /\ c.out = <<>>
      /\ c.last_packet_num = node[a].last_packet_num
      /\ Asks(c, d) \/ AsksAgain(c, d)
      /\ Good(d) /\ Only(d, ToTheNode)
      /\ d.last_packet_num = node[a].last_packet_num
      /\ to_node' = to_node \o Messages(d.out, store_session)
      /\ hasty' = (hasty \/ (ExchangeOpen /\ (Resends \/ Abandons)))
      /\ UNCHANGED <<py, to_store, lost, node_session, store_session,
                     sent, stored, first, taken, crossed>>

LEMMA StoreActsIs ==
  ASSUME LinkTyped,
         (\E fits \in BOOLEAN : StoreSendsData(fits)) \/ StoreBeats \/ StoreTicks
  PROVE  Acts
<1> DEFINE c == Fresh(node[a])
           d == node'[a]
<1>1. /\ Good(c) /\ c.wait = node[a].wait /\ c.out = <<>>
      /\ c.last_packet_num = node[a].last_packet_num
  BY NodeTypes, FreshIs
<1>2. StoreActs /\ (Asks(c, d) \/ AsksAgain(c, d))
  BY SendDataIs, HeartbeatIs, TickIs DEF StoreSendsData, StoreBeats, StoreTicks
<1> HIDE DEF c
<1>3. Good(d) /\ Only(d, ToTheNode)
  BY <1>1, <1>2, AskedIsSent
<1>4. d.last_packet_num = node[a].last_packet_num
  BY <1>1, <1>2 DEF Asks, AsksAgain
<1>5. to_node' = to_node \o Messages(d.out, store_session)
  BY <1>2, <1>3, StoreSendsWires DEF StoreActs
<1>6. /\ hasty' = (hasty \/ (ExchangeOpen /\ (Resends \/ Abandons)))
      /\ UNCHANGED <<py, to_store, lost, node_session, store_session,
                     sent, stored, first, taken, crossed>>
  BY <1>2 DEF StoreActs, StoreSends
<1>7. QED
  BY <1>1, <1>2, <1>3, <1>4, <1>5, <1>6 DEF Acts, c

LEMMA StoreActsData ==
  ASSUME LinkTyped, NumbersGrow, Acts
  PROVE  NumbersGrow' /\ (DataIsAnswered => DataIsAnswered')
<1>1. /\ to_node \in Seq(Downward) /\ store_session \in Sessions
      /\ Good(node'[a]) /\ Only(node'[a], ToTheNode)
      /\ to_node' = to_node \o Messages(node'[a].out, store_session)
      /\ UNCHANGED <<py, to_store, node_session, sent, stored, first>>
      /\ node'[a].last_packet_num = node[a].last_packet_num
  BY NodeTypes DEF Acts, LinkTyped, LinkTypeOK
<1>2. ~Some(node'[a].out, Acks)
  BY AskedHasNoAcks DEF Acts
<1>3. NoMore(to_node, to_node', DownAcks) /\ NoMore(to_store, to_store', UpData)
  BY <1>1, <1>2, SendsNoMore, ThinnerIsNoMore
<1>4. DataIsAnswered => DataIsAnswered'
  BY <1>1, <1>3, DataStaysAnswered
<1>5. NumbersGrow'
  BY <1>1 DEF NumbersGrow, Later
<1>6. QED
  BY <1>4, <1>5

LEMMA StoreRestartsData ==
  ASSUME LinkTyped, NumbersGrow, StoreRestarts
  PROVE  NumbersGrow' /\ (DataIsAnswered => DataIsAnswered')
<1>1. /\ UNCHANGED <<py, to_store, to_node, node_session, sent, stored, first>>
      /\ Restart
  BY DEF StoreRestarts, broker
<1>2. node'[a].last_packet_num = 0
  BY <1>1, RestartIs
<1>3. NoMore(to_node, to_node', DownAcks) /\ NoMore(to_store, to_store', UpData)
  BY <1>1, ThinnerIsNoMore
<1>4. DataIsAnswered => DataIsAnswered'
  BY <1>1, <1>3, DataStaysAnswered
<1>5. ASSUME first # 0
      PROVE  /\ 0 <= py.pkt_num
             /\ \A i \in DOMAIN to_store :
                  to_store[i].id[1] = node_session /\ 0 < to_store[i].id[2]
  <2>1. \A i \in DOMAIN to_store : to_store[i].id[2] \in Int /\ to_store[i].id[2] > 0
    BY UpwardTypes DEF LinkTyped, LinkTypeOK
  <2>2. 0 <= py.pkt_num
    BY MaxPktNumAssumption DEF LinkTyped, LinkTypeOK, Py!PyRec
  <2>3. QED
    BY <1>5, <2>1, <2>2 DEF NumbersGrow
<1>6. NumbersGrow'
  BY <1>1, <1>2, <1>5 DEF NumbersGrow, Later
<1>7. QED
  BY <1>4, <1>6

LEMMA LossData ==
  ASSUME LinkTyped, NumbersGrow, Lose
  PROVE  NumbersGrow' /\ (DataIsAnswered => DataIsAnswered')
<1>1. to_store \in Seq(Upward) /\ to_node \in Seq(Downward)
  BY DEF LinkTyped, LinkTypeOK
<1>2. UNCHANGED <<node, py, node_session, sent, stored, first>>
  BY DEF Lose, sessions, ghosts
<1>3. \/ to_store' = to_store \/ Thinner(to_store, to_store')
  BY <1>1, LossThins DEF Lose
<1>4. \/ to_node' = to_node \/ Thinner(to_node, to_node')
  BY <1>1, LossThins DEF Lose
<1>5. NoMore(to_node, to_node', DownAcks) /\ NoMore(to_store, to_store', UpData)
  BY <1>3, <1>4, ThinnerIsNoMore
<1>6. DataIsAnswered => DataIsAnswered'
  BY <1>2, <1>5, DataStaysAnswered
<1>7. /\ InOrder(to_store', Later)
      /\ \A i \in DOMAIN to_store' : \E j \in DOMAIN to_store : to_store'[i] = to_store[j]
  BY <1>3 DEF Thinner, NumbersGrow
<1>8. NumbersGrow'
  BY <1>2, <1>7 DEF NumbersGrow, Later
<1>9. QED
  BY <1>6, <1>8

LEMMA NodeStepsGrow ==
  ASSUME LinkTyped, NumbersGrow,
         \/ NodeStart
         \/ \E fits \in BOOLEAN : NodeSendsData(fits)
         \/ NodeSetsStatus
         \/ NodeReceives
  PROVE  NumbersGrow'
<1>1. py \in Py!PyRec
  BY DEF LinkTyped, LinkTypeOK
<1>2. ASSUME NEW ops \in SUBSET Py!PyOps, NEW d, PyGoesOn(py, d, ops), NodeStep(d)
      PROVE  NumbersGrow'
  <2>1. /\ py' = Py!Idle(d) /\ to_store' = to_store \o PySent(d)
        /\ UNCHANGED <<node, node_session, first>>
    BY <1>2 DEF NodeStep, sessions
  <2>2. NodeGoesOn(ops)
    BY <1>2, <2>1, NodeStepWires
  <2>3. QED
    BY <2>1, <2>2, NumbersAfterSaid
<1>3. CASE NodeStart
  <2>1. PyGoesOn(py, Py!start(py), {}) /\ {} \in SUBSET Py!PyOps
    BY <1>1, PyStarts
  <2>2. QED
    BY <1>2, <1>3, <2>1 DEF NodeStart
<1>4. CASE \E fits \in BOOLEAN : NodeSendsData(fits)
  <2>1. PICK fits \in BOOLEAN : NodeSendsData(fits)
    BY <1>4
  <2>2. PyGoesOn(py, Py!send_data_to_store(py, fits), {"DS"}) /\ {"DS"} \in SUBSET Py!PyOps
    BY <1>1, PySendsData DEF Py!PyOps
  <2>3. QED
    BY <1>2, <2>1, <2>2 DEF NodeSendsData
<1>5. CASE NodeSetsStatus
  <2>1. PyGoesOn(py, Py!set_status(py), {"SS"}) /\ {"SS"} \in SUBSET Py!PyOps
    BY <1>1, PySetsStatus DEF Py!PyOps
  <2>2. QED
    BY <1>2, <1>5, <2>1 DEF NodeSetsStatus
<1>6. CASE NodeReceives
  <2> DEFINE p == Head(to_node)
             d == IF py.subscribed THEN Py!on_control_msg(py, p.op, p.id[2]) ELSE py
  <2>1. PyGoesOn(py, d, HeadOps(p.op)) /\ HeadOps(p.op) \in SUBSET Py!PyOps
    BY <1>6, HeadOfControl DEF NodeReceives
  <2>2. NodeStep(d)
    BY <1>6 DEF NodeReceives
  <2> HIDE DEF d, p
  <2>3. QED
    BY <1>2, <2>1, <2>2
<1>7. QED
  BY <1>3, <1>4, <1>5, <1>6

LEMMA NodeRestartGrows ==
  ASSUME LinkTyped, NumbersGrow, NodeRestart
  PROVE  NumbersGrow'
<1>1. /\ py' = Py!NewPyNode /\ node_session' = node_session + 1 /\ first' = 0
      /\ UNCHANGED <<node, to_store>>
  BY DEF NodeRestart, broker
<1>2. node_session \in Int /\ node_session >= 1
  BY NodeTypes DEF Sessions
<1>3. \A i \in DOMAIN to_store :
        to_store[i].id[1] \in Int /\ to_store[i].id[1] <= node_session
  BY UpwardTypes DEF NumbersGrow, LinkTyped, LinkTypeOK
<1>4. \A i \in DOMAIN to_store :
        to_store[i].id[1] <= node_session' /\ to_store[i].id[1] # node_session'
  BY <1>1, <1>2, <1>3
<1>5. node_session' # 1
  BY <1>1, <1>2
<1>6. QED
  BY <1>1, <1>4, <1>5 DEF NumbersGrow, Later

LEMMA NextDataInv ==
  ASSUME LinkTyped, DataInv, [LinkNext]_linkvars
  PROVE  DataInv'
<1>1. NumbersGrow /\ (node_session = 1 => ~crossed) /\ (~crossed => DataIsAnswered)
  BY DEF DataInv
<1>2. ASSUME NumbersGrow', DataIsAnswered => DataIsAnswered',
             node_session' = node_session, crossed' = crossed
      PROVE  DataInv'
  BY <1>1, <1>2 DEF DataInv
<1>3. CASE UNCHANGED linkvars
  <2>1. UNCHANGED <<node, py, to_store, to_node, node_session, sent, stored, first, crossed>>
    BY <1>3 DEF linkvars, broker, sessions, ghosts
  <2>2. NumbersGrow'
    BY <1>1, <2>1 DEF NumbersGrow, Later
  <2>3. NoMore(to_node, to_node', DownAcks) /\ NoMore(to_store, to_store', UpData)
    BY <2>1, ThinnerIsNoMore
  <2>4. DataIsAnswered => DataIsAnswered'
    BY <2>1, <2>3, DataStaysAnswered
  <2>5. QED
    BY <1>2, <2>1, <2>2, <2>4
<1>4. CASE NodeStart \/ (\E fits \in BOOLEAN : NodeSendsData(fits)) \/ NodeSetsStatus
           \/ NodeReceives
  <2>1. NumbersGrow'
    BY <1>1, <1>4, NodeStepsGrow
  <2>2. DataIsAnswered => DataIsAnswered'
    BY <1>4, NodeStartsOrSets, NodeSendsAnswered, NodeReceivesAnswered
  <2>3. node_session' = node_session /\ crossed' = crossed
    BY <1>4 DEF NodeStart, NodeSendsData, NodeSetsStatus, NodeReceives, NodeStep, sessions
  <2>4. QED
    BY <1>2, <2>1, <2>2, <2>3
<1>5. CASE NodeRestart
  <2>1. NumbersGrow' /\ (~crossed' => DataIsAnswered')
    BY <1>1, <1>5, NodeRestartGrows, NodeRestartAnswered
  <2>2. node_session' # 1
    BY <1>5, NodeTypes DEF NodeRestart, Sessions
  <2>3. QED
    BY <2>1, <2>2 DEF DataInv
<1>6. CASE StoreReceives
  <2>1. NumbersGrow' /\ (DataIsAnswered => DataIsAnswered')
    BY <1>1, <1>6, StoreReceivesGrow, StoreReceivesAnswered
  <2>2. node_session' = node_session /\ crossed' = crossed
    BY <1>6, StoreTakes DEF Taken
  <2>3. QED
    BY <1>2, <2>1, <2>2
<1>7. CASE (\E fits \in BOOLEAN : StoreSendsData(fits)) \/ StoreBeats \/ StoreTicks
  <2>1. Acts
    BY <1>7, StoreActsIs
  <2>2. NumbersGrow' /\ (DataIsAnswered => DataIsAnswered')
    BY <1>1, <2>1, StoreActsData
  <2>3. node_session' = node_session /\ crossed' = crossed
    BY <2>1 DEF Acts
  <2>4. QED
    BY <1>2, <2>2, <2>3
<1>8. CASE StoreRestarts \/ Lose
  <2>1. NumbersGrow' /\ (DataIsAnswered => DataIsAnswered')
    BY <1>1, <1>8, StoreRestartsData, LossData
  <2>2. node_session' = node_session /\ crossed' = crossed
    BY <1>8 DEF StoreRestarts, Lose, sessions, ghosts
  <2>3. QED
    BY <1>2, <2>1, <2>2
<1>9. QED
  BY <1>3, <1>4, <1>5, <1>6, <1>7, <1>8 DEF LinkNext

LEMMA DataInvInit ==
  ASSUME LinkInit
  PROVE  DataInv
<1>1. /\ to_store = <<>> /\ to_node = <<>> /\ node_session = 1 /\ first = 0
      /\ ~crossed /\ node \in [Slids -> NodeRec] /\ Init
  BY LinkTypedInit DEF LinkInit, LinkTyped, LinkTypeOK, TypeOK
<1>2. node[a].last_packet_num = 0
  BY <1>1, LinkAssumption DEF Init, NewNode
<1>3. NumbersGrow
  BY <1>1, <1>2 DEF NumbersGrow, InOrder
<1>4. DataIsAnswered
  BY <1>1 DEF DataIsAnswered, OnceOpen, AtMostOne, Some
<1>5. QED
  BY <1>1, <1>3, <1>4 DEF DataInv

\* Only an AN ends the wait of a node that goes on.
LEMMA OnlyAcksConfirm ==
  ASSUME LinkTyped, [LinkNext]_linkvars, Confirmed
  PROVE  NodeReceives /\ to_node # <<>> /\ Head(to_node) \in DownAcks
<1>1. py \in Py!PyRec /\ node_session \in Int
  BY NodeTypes DEF LinkTyped, LinkTypeOK
<1>2. ASSUME NEW ops \in SUBSET Py!PyOps, NEW d, PyGoesOn(py, d, ops), NodeStep(d)
      PROVE  py'.wait = d.wait
  BY <1>2, PySentOf DEF NodeStep
<1>3. CASE NodeStart
  <2>1. PyGoesOn(py, Py!start(py), {}) /\ {} \in SUBSET Py!PyOps /\ Py!start(py).wait = py.wait
    BY <1>1, PyStarts
  <2>2. QED
    BY <1>2, <1>3, <2>1 DEF NodeStart, Confirmed
<1>4. CASE \E fits \in BOOLEAN : NodeSendsData(fits)
  <2>1. PICK fits \in BOOLEAN : NodeSendsData(fits)
    BY <1>4
  <2> DEFINE d == Py!send_data_to_store(py, fits)
  <2>2. /\ PyGoesOn(py, d, {"DS"}) /\ {"DS"} \in SUBSET Py!PyOps
        /\ d.wait = py.wait \/ d.wait.waiting
    BY <1>1, PySendsData DEF Py!PyOps
  <2>3. NodeStep(d)
    BY <2>1 DEF NodeSendsData
  <2> HIDE DEF d
  <2>4. py'.wait = d.wait
    BY <1>2, <2>2, <2>3
  <2>5. QED
    BY <2>2, <2>4 DEF Confirmed
<1>5. CASE NodeSetsStatus
  <2>1. /\ PyGoesOn(py, Py!set_status(py), {"SS"}) /\ {"SS"} \in SUBSET Py!PyOps
        /\ Py!set_status(py).wait = py.wait
    BY <1>1, PySetsStatus DEF Py!PyOps
  <2>2. QED
    BY <1>2, <1>5, <2>1 DEF NodeSetsStatus, Confirmed
<1>6. CASE NodeReceives
  <2> DEFINE p == Head(to_node)
             d == IF py.subscribed THEN Py!on_control_msg(py, p.op, p.id[2]) ELSE py
  <2>1. /\ p \in Downward
        /\ PyGoesOn(py, d, HeadOps(p.op)) /\ HeadOps(p.op) \in SUBSET Py!PyOps
        /\ ~py.subscribed => d = py
        /\ py.subscribed => d.wait = IF p.op = "AN" THEN Py!clear_wait ELSE py.wait
    BY <1>6, HeadOfControl DEF NodeReceives
  <2>2. NodeStep(d)
    BY <1>6 DEF NodeReceives
  <2> HIDE DEF d, p
  <2>3. py'.wait = d.wait
    BY <1>2, <2>1, <2>2
  <2>4. p.op = "AN"
    BY <2>1, <2>3 DEF Confirmed
  <2>5. QED
    BY <1>6, <2>1, <2>4 DEF DownAcks, NodeReceives, p
<1>7. CASE NodeRestart
  BY <1>1, <1>7 DEF NodeRestart, Confirmed
<1>8. CASE UNCHANGED py
  BY <1>8 DEF Confirmed
<1>9. UNCHANGED linkvars \/ StoreReceives \/ StoreRestarts \/ Lose => UNCHANGED py
  BY DEF linkvars, StoreReceives, StoreSends, StoreRestarts, Lose
<1>10. (\E fits \in BOOLEAN : StoreSendsData(fits)) \/ StoreBeats \/ StoreTicks => UNCHANGED py
  BY StoreActsIs DEF Acts
<1>11. QED
  BY <1>3, <1>4, <1>5, <1>6, <1>7, <1>8, <1>9, <1>10 DEF LinkNext

LEMMA ConfirmedDataIsStored ==
  ASSUME LinkTyped, DataInv, [LinkNext]_linkvars, Confirmed, sent
  PROVE  \/ py.wait.pkt.num \in stored
         \/ node_session > 1 /\ (crossed \/ py.wait.pkt.num = first)
<1>1. to_node # <<>> /\ Head(to_node) \in DownAcks /\ to_node \in Seq(Downward)
  BY OnlyAcksConfirm DEF LinkTyped, LinkTypeOK
<1>2. Some(to_node, DownAcks)
  BY <1>1, SomeOfTail
<1>3. CASE crossed
  <2>1. node_session # 1 /\ node_session \in Int /\ node_session >= 1
    BY <1>3, NodeTypes DEF DataInv, Sessions
  <2>2. QED
    BY <1>3, <2>1
<1>4. CASE ~crossed
  <2>1. py.wait.waiting /\ DataIsAnswered
    BY <1>4 DEF DataInv, Confirmed
  <2>2. QED
    BY <1>2, <2>1 DEF DataIsAnswered
<1>5. QED
  BY <1>3, <1>4

(***************************************************************************)
(* Data that a node published and saw confirmed is in the database: an AN  *)
(* does not say what it answers, but while one is on the way, or the data, *)
(* the node sends no other.  The two exceptions are those of a restart of  *)
(* the node (PyNode.on_control_msg, Node.check_duplicate_pkt_num).         *)
(***************************************************************************)
THEOREM ConfirmedIsStoredAlways == LinkSpec => ConfirmedIsStored
<1> DEFINE A == Confirmed /\ sent =>
                  \/ py.wait.pkt.num \in stored
                  \/ node_session > 1 /\ (crossed \/ py.wait.pkt.num = first)
           Inv == LinkTyped /\ DataInv
<1>1. LinkInit => Inv
  BY LinkTypedInit, DataInvInit
<1>2. Inv /\ [LinkNext]_linkvars => Inv' /\ [A]_linkvars
  BY LinkTypedNext, NextDataInv, ConfirmedDataIsStored
<1> HIDE DEF A, Inv
<1>3. LinkSpec => [][A]_linkvars
  BY <1>1, <1>2, PTL DEF LinkSpec
<1>4. QED
  BY <1>3 DEF ConfirmedIsStored, A

----------------------------------------------------------------------------
(* The store's data and its answer: AskInv is inductive.                   *)

\* Nothing of the exchange is put on a topic, and the wait goes on.
LEMMA AskStaysAnswered ==
  ASSUME LinkTyped, AskIsAnswered,
         NoMore(to_node, to_node', DownAsks), NoMore(to_store, to_store', UpAcks),
         node'[a].wait.waiting = node[a].wait.waiting,
         node'[a].wait.pkt = node[a].wait.pkt,
         node'[a].wait.do_insert = node[a].wait.do_insert,
         store_session' = store_session, taken \subseteq taken',
         Recorded(node'[a]) \subseteq taken'
  PROVE  AskIsAnswered'
<1>1. OnceOpen(to_node', DownAsks, to_store', UpAcks)
  BY DEF AskIsAnswered, OnceOpen, NoMore
<1>2. Some(to_node', DownAsks) \/ Some(to_store', UpAcks) => node'[a].wait.waiting
  BY DEF AskIsAnswered, NoMore
<1>3. \A i \in DOMAIN to_node' :
        to_node'[i] \in DownAsks =>
          /\ to_node'[i].id = <<store_session', node'[a].wait.pkt.num>>
          /\ to_node'[i].op = node'[a].wait.pkt.op
  BY DEF AskIsAnswered, NoMore
<1>4. Some(to_store', UpAcks) /\ node'[a].wait.do_insert => node'[a].wait.pkt.num \in taken'
  BY DEF AskIsAnswered, NoMore
<1>5. QED
  BY <1>1, <1>2, <1>3, <1>4 DEF AskIsAnswered, Recorded, DownAsks, UpAcks, Upward, Downward

\* Nothing of it is on the way.
LEMMA AskClosed ==
  ASSUME ~Some(to_node', DownAsks), ~Some(to_store', UpAcks),
         Recorded(node'[a]) \subseteq taken'
  PROVE  AskIsAnswered'
<1>1. \A i \in DOMAIN to_node' : to_node'[i] \notin DownAsks
  BY DEF Some
<1>2. AtMostOne(to_store', UpAcks) /\ AtMostOne(to_node', DownAsks)
  BY NoneIsAtMostOne
<1>3. QED
  BY <1>1, <1>2 DEF AskIsAnswered, OnceOpen, Recorded, DownAsks, Downward, UpAcks, Upward

LEMMA ExchangeIsOpen ==
  ASSUME LinkTyped
  PROVE  ExchangeOpen <=> Some(to_node, DownAsks) \/ Some(to_store, UpAcks)
<1>1. to_node \in Seq(Downward) /\ to_store \in Seq(Upward)
  BY DEF LinkTyped, LinkTypeOK
<1>2. /\ \A i \in DOMAIN to_node : to_node[i] \in Downward
      /\ \A i \in DOMAIN to_store : to_store[i] \in Upward
  BY <1>1
<1>3. OnTopic(to_node, {"DN", "SC"}) <=> Some(to_node, DownAsks)
  BY <1>2 DEF OnTopic, Some, DownAsks
<1>4. OnTopic(to_store, {"AS"}) <=> Some(to_store, UpAcks)
  BY <1>2 DEF OnTopic, Some, UpAcks
<1>5. QED
  BY <1>3, <1>4 DEF ExchangeOpen

\* What it records as delivered in a step.
LEMMA RecordedIs ==
  ASSUME NEW d, Good(d), NEW S, Only(d, S), NEW T,
         \A e \in Effects : e \in S /\ e.kind = "insert" /\ e.op = "DN" => e.num \in T
  PROVE  Recorded(d) \subseteq T
<1>1. \A i \in DOMAIN d.out : d.out[i] \in Effects /\ d.out[i] \in S
  BY OutType DEF Only
<1>2. QED
  BY <1>1 DEF Recorded

\* The steps of the node.
LEMMA NodeSaysAsk ==
  ASSUME LinkTyped, AskIsAnswered,
         \/ NodeStart
         \/ \E fits \in BOOLEAN : NodeSendsData(fits)
         \/ NodeSetsStatus
  PROVE  AskIsAnswered'
<1>1. py \in Py!PyRec
  BY DEF LinkTyped, LinkTypeOK
<1>2. ASSUME NEW ops \in SUBSET Py!PyOps, NEW d, PyGoesOn(py, d, ops), NodeStep(d),
             "AS" \notin ops
      PROVE  NoMore(to_store, to_store', UpAcks)
  <2>1. Said(PySent(d), ops) /\ to_store' = to_store \o PySent(d)
    BY <1>2, PySentOf DEF NodeStep
  <2>2. \A m \in UpAcks : m.op \notin ops
    BY <1>2 DEF UpAcks
  <2>3. QED
    BY <2>1, <2>2, SaysNoMore DEF UpAcks
<1>3. CASE NodeStart
  <2>1. PyGoesOn(py, Py!start(py), {}) /\ {} \in SUBSET Py!PyOps
    BY <1>1, PyStarts
  <2>2. NoMore(to_store, to_store', UpAcks)
    BY <1>2, <1>3, <2>1 DEF NodeStart
  <2>3. UNCHANGED <<node, to_node, store_session, taken>>
    BY <1>3 DEF NodeStart, NodeStep, sessions
  <2>4. QED
    BY <2>2, <2>3, ThinnerIsNoMore, AskStaysAnswered DEF AskIsAnswered
<1>4. CASE \E fits \in BOOLEAN : NodeSendsData(fits)
  <2>1. PICK fits \in BOOLEAN : NodeSendsData(fits)
    BY <1>4
  <2> DEFINE d == Py!send_data_to_store(py, fits)
  <2>2. PyGoesOn(py, d, {"DS"}) /\ {"DS"} \in SUBSET Py!PyOps
    BY <1>1, PySendsData DEF Py!PyOps
  <2>3. NodeStep(d) /\ UNCHANGED <<node, to_node, store_session, taken>>
    BY <2>1 DEF NodeSendsData, NodeStep, sessions
  <2> HIDE DEF d
  <2>4. NoMore(to_store, to_store', UpAcks)
    BY <1>2, <2>2, <2>3
  <2>5. QED
    BY <2>3, <2>4, ThinnerIsNoMore, AskStaysAnswered DEF AskIsAnswered
<1>5. CASE NodeSetsStatus
  <2>1. PyGoesOn(py, Py!set_status(py), {"SS"}) /\ {"SS"} \in SUBSET Py!PyOps
    BY <1>1, PySetsStatus DEF Py!PyOps
  <2>2. NoMore(to_store, to_store', UpAcks)
    BY <1>2, <1>5, <2>1 DEF NodeSetsStatus
  <2>3. UNCHANGED <<node, to_node, store_session, taken>>
    BY <1>5 DEF NodeSetsStatus, NodeStep, sessions
  <2>4. QED
    BY <2>2, <2>3, ThinnerIsNoMore, AskStaysAnswered DEF AskIsAnswered
<1>6. QED
  BY <1>3, <1>4, <1>5

LEMMA NodeReceivesAsk ==
  ASSUME LinkTyped, AskIsAnswered, NodeReceives
  PROVE  AskIsAnswered'
<1> DEFINE p == Head(to_node)
           d == IF py.subscribed THEN Py!on_control_msg(py, p.op, p.id[2]) ELSE py
           t == PySent(d)
           w == node[a].wait
<1>1. to_node # <<>> /\ to_node \in Seq(Downward) /\ to_store \in Seq(Upward)
  BY DEF NodeReceives, LinkTyped, LinkTypeOK
<1>2. /\ p \in Downward /\ p.op \in StoreOps
      /\ PyGoesOn(py, d, HeadOps(p.op)) /\ HeadOps(p.op) \in SUBSET Py!PyOps
      /\ ~py.subscribed => d = py
      /\ py.subscribed => d.taken = IF p.op = "DN" THEN {p.id[2]} ELSE {}
  BY <1>1, HeadOfControl
<1>3. /\ py' = Py!Idle(d) /\ to_store' = to_store \o t /\ to_node' = Tail(to_node)
      /\ taken' = IF p.id[1] = store_session THEN taken \cup d.taken ELSE taken
      /\ UNCHANGED <<node, store_session>>
  BY DEF NodeReceives, NodeStep, sessions
<1>4. Recorded(node'[a]) \subseteq taken' /\ taken \subseteq taken'
  BY <1>3 DEF AskIsAnswered
<1> HIDE DEF d, p
<1>5. Said(t, HeadOps(p.op))
  BY <1>2, <1>3, PySentOf
<1>6. ~py.subscribed => t = <<>>
  <2>1. ~py.subscribed => d.out = <<>>
    BY <1>2 DEF LinkTyped
  <2>2. QED
    BY <1>2, <1>3, <2>1, PySentOf
<1> HIDE DEF t
<1>7. NoMore(to_node, to_node', DownAsks)
  BY <1>1, <1>3, TailThins, ThinnerIsNoMore
<1>8. CASE t = <<>> \/ "AS" \notin HeadOps(p.op)
  <2>1. NoMore(to_store, to_store', UpAcks)
    <3>1. CASE t = <<>>
      <4>1. to_store' = to_store
        BY <1>1, <1>3, <3>1
      <4>2. QED
        BY <4>1, ThinnerIsNoMore
    <3>2. CASE "AS" \notin HeadOps(p.op)
      BY <1>3, <1>5, <3>2, SaysNoMore DEF UpAcks
    <3>3. QED
      BY <1>8, <3>1, <3>2
  <2>2. QED
    BY <1>3, <1>4, <1>7, <2>1, AskStaysAnswered
<1>9. CASE t # <<>> /\ "AS" \in HeadOps(p.op)
  <2>1. p \in DownAsks /\ py.subscribed
    BY <1>2, <1>6, <1>9 DEF HeadOps, DownAsks, StoreOps
  <2>2. Some(to_node, DownAsks) /\ ~Some(Tail(to_node), DownAsks)
    BY <1>1, <2>1, SomeOfTail, AtMostOneOfTail DEF p, AskIsAnswered, OnceOpen
  <2>3. ~Some(to_store, UpAcks) /\ w.waiting
    BY <2>2 DEF AskIsAnswered, OnceOpen
  <2>4. p.id = <<store_session, w.pkt.num>> /\ p.op = w.pkt.op
    <3>1. p = to_node[1] /\ 1 \in DOMAIN to_node
      BY <1>1, TailOf DEF p
    <3>2. QED
      BY <2>1, <3>1 DEF AskIsAnswered
  <2>5. w.do_insert => w.pkt.num \in taken'
    <3>1. w.do_insert => p.op = "DN"
      BY <2>3, <2>4, NodeTypes DEF Good, WaitCoherent
    <3>2. p.id[1] = store_session /\ p.id[2] = w.pkt.num
      BY <2>4
    <3>3. QED
      BY <1>2, <1>3, <2>1, <3>1, <3>2
  <2>6. AtMostOne(to_store', UpAcks)
    <3>1. AtMostOne(to_store, UpAcks)
      BY <2>3, NoneIsAtMostOne
    <3>2. t \in Seq(Upward) /\ \A i \in DOMAIN t : i = 1
      BY <1>5 DEF Said
    <3>3. AtMostOne(t, UpAcks)
      BY <3>2 DEF AtMostOne
    <3>4. QED
      BY <1>1, <1>3, <2>3, <3>1, <3>2, <3>3, AtMostOneOfConcat
  <2>7. ~Some(to_node', DownAsks) /\ AtMostOne(to_node', DownAsks)
    BY <1>3, <2>2, NoneIsAtMostOne
  <2>8. \A i \in DOMAIN to_node' : to_node'[i] \notin DownAsks
    BY <2>7 DEF Some
  <2>9. node' = node
    BY <1>3
  <2> HIDE DEF w
  <2>10. OnceOpen(to_node', DownAsks, to_store', UpAcks)
    BY <2>6, <2>7 DEF OnceOpen
  <2>11. QED
    BY <1>4, <2>3, <2>5, <2>8, <2>9, <2>10
    DEF AskIsAnswered, w, Recorded, DownAsks, Downward, UpAcks, Upward
<1>10. QED
  BY <1>8, <1>9

\* The steps of the store.
LEMMA NoneAsked ==
  ASSUME NEW op, NEW c
  PROVE  /\ MayAnswer(c, op) \cap Asking = {}
         /\ Polls \cap Asking = {} /\ Acks \cap Asking = {}
  BY DEF MayAnswer, Confirmation, Asking, Polls, Acks, Data

LEMMA StoreReceivesAsk ==
  ASSUME LinkTyped, AskIsAnswered, StoreReceives
  PROVE  AskIsAnswered'
<1> DEFINE p == Head(to_store)
           c == Fresh(node[a])
           d == node'[a]
<1>1. Taken(p)
  BY StoreTakes
<1>2. /\ to_store \in Seq(Upward) /\ to_store # <<>> /\ to_node \in Seq(Downward)
      /\ store_session \in Sessions /\ p.op \in Py!PyOps /\ p.id[2] \in PktNum
      /\ p \in Upward
  BY <1>1, NodeTypes DEF Taken, LinkTyped, LinkTypeOK
<1>3. /\ to_store' = Tail(to_store)
      /\ to_node' = to_node \o Messages(d.out, store_session)
      /\ UNCHANGED <<store_session, taken>>
      /\ Good(d) /\ Only(d, ToTheNode) /\ Received(p.op, p.id[2])
  BY <1>1 DEF Taken
<1>4. Good(c) /\ c.wait = node[a].wait /\ c.out = <<>>
  BY <1>1, <1>2, ReceivedRecord DEF Taken
<1>5. NoMore(to_store, to_store', UpAcks)
  BY <1>2, <1>3, TailThins, ThinnerIsNoMore
<1> HIDE DEF c
<1>6. \/ d.out = <<>> /\ d.wait = c.wait
      \/ Only(d, Acks) /\ d.wait = c.wait
      \/ /\ Only(d, MayAnswer(c, p.op) \cup Polls)
         /\ IF p.op = "AS" THEN d.wait = clear_wait ELSE d.wait = c.wait
  <2>1. CASE d = c
    BY <1>4, <2>1
  <2>2. CASE Ignores(c, d, p.op, p.id[2])
    <3>1. Only(d, Acks) /\ d.wait = c.wait
      BY <2>2 DEF Ignores, Only
    <3>2. QED
      BY <3>1
  <2>3. CASE Handles(c, d, p.op, p.id[2])
    BY <2>3 DEF Handles, Answers
  <2>4. QED
    BY <1>3, <2>1, <2>2, <2>3 DEF Received, c
<1>7. ~Some(d.out, Asking)
  <2>1. CASE d.out = <<>>
    BY <2>1 DEF Some
  <2>2. CASE Only(d, Acks)
    BY <1>3, <2>2, NoneAsked, OutSome
  <2>3. CASE Only(d, MayAnswer(c, p.op) \cup Polls)
    <3>1. (MayAnswer(c, p.op) \cup Polls) \cap Asking = {}
      BY NoneAsked
    <3>2. QED
      BY <1>3, <2>3, <3>1, OutSome
  <2>4. QED
    BY <1>6, <2>1, <2>2, <2>3
<1>8. NoMore(to_node, to_node', DownAsks)
  BY <1>2, <1>3, <1>7, SendsNoMore
<1>9. CASE p.op = "AS" /\ Only(d, MayAnswer(c, p.op) \cup Polls)
  <2>1. p \in UpAcks
    BY <1>2, <1>9 DEF UpAcks
  <2>2. Some(to_store, UpAcks) /\ ~Some(Tail(to_store), UpAcks)
    BY <1>2, <2>1, SomeOfTail, AtMostOneOfTail DEF AskIsAnswered, OnceOpen
  <2>3. ~Some(to_node, DownAsks) /\ (c.wait.do_insert => c.wait.pkt.num \in taken)
    BY <1>4, <2>2 DEF AskIsAnswered, OnceOpen
  <2>4. ~Some(to_node', DownAsks) /\ ~Some(to_store', UpAcks)
    BY <1>3, <1>8, <2>2, <2>3 DEF NoMore
  <2>5. Recorded(d) \subseteq taken'
    <3>1. \A e \in Effects :
            e \in MayAnswer(c, p.op) \cup Polls /\ e.kind = "insert" /\ e.op = "DN"
              => e.num \in taken'
      BY <1>3, <1>9, <2>3 DEF MayAnswer, Confirmation, Polls
    <3>2. QED
      BY <1>3, <1>9, <3>1, RecordedIs
  <2>6. QED
    BY <2>4, <2>5, AskClosed
<1>10. CASE ~(p.op = "AS" /\ Only(d, MayAnswer(c, p.op) \cup Polls))
  <2>1. d.wait = node[a].wait
    BY <1>4, <1>6, <1>10
  <2>2. Recorded(d) \subseteq taken'
    <3>1. CASE d.out = <<>>
      BY <3>1 DEF Recorded
    <3>2. CASE Only(d, Acks)
      <4>1. \A e \in Effects :
              e \in Acks /\ e.kind = "insert" /\ e.op = "DN" => e.num \in taken'
        BY DEF Acks
      <4>2. QED
        BY <1>3, <3>2, <4>1, RecordedIs
    <3>3. CASE p.op # "AS" /\ Only(d, MayAnswer(c, p.op) \cup Polls)
      <4>1. \A e \in Effects :
              e \in MayAnswer(c, p.op) \cup Polls /\ e.kind = "insert" /\ e.op = "DN"
                => e.num \in taken'
        BY <3>3 DEF MayAnswer, Data, Acks, Polls
      <4>2. QED
        BY <1>3, <3>3, <4>1, RecordedIs
    <3>4. QED
      BY <1>6, <1>10, <3>1, <3>2, <3>3
  <2>3. QED
    BY <1>3, <1>5, <1>8, <2>1, <2>2, AskStaysAnswered
<1>11. QED
  BY <1>9, <1>10

\* It records nothing as delivered when it acts of its own accord.
LEMMA ActsRecordNothing ==
  ASSUME Acts
  PROVE  Recorded(node'[a]) = {}
<1> DEFINE c == Fresh(node[a])
           d == node'[a]
<1>1. Good(c) /\ Good(d) /\ (Asks(c, d) \/ AsksAgain(c, d))
  BY DEF Acts
<1> HIDE DEF c
<1>2. ASSUME NEW S, Only(d, S), \A e \in S : e.kind = "publish"
      PROVE  Recorded(d) = {}
  <2> DEFINE T == {}
  <2>1. \A e \in Effects : e \in S /\ e.kind = "insert" /\ e.op = "DN" => e.num \in T
    BY <1>2
  <2>2. Good(d) /\ Only(d, S)
    BY <1>1, <1>2
  <2> HIDE DEF d, T
  <2>3. Recorded(d) \subseteq T
    BY <2>1, <2>2, RecordedIs
  <2>4. QED
    BY <2>3 DEF T
<1>3. CASE Asks(c, d)
  <2>1. Only(d, {}) \/ Only(d, {e \in Sending(d.wait.pkt) : ~e.resend})
    BY <1>3 DEF Asks
  <2>2. /\ \A e \in {} : e.kind = "publish"
        /\ \A e \in {x \in Sending(d.wait.pkt) : ~x.resend} : e.kind = "publish"
    BY DEF Sending
  <2>3. QED
    BY <1>2, <2>1, <2>2
<1>4. CASE AsksAgain(c, d)
  <2>1. Only(d, Polls) \/ Only(d, Polls \cup Repeating(c))
    BY <1>4 DEF AsksAgain
  <2>2. /\ \A e \in Polls : e.kind = "publish"
        /\ \A e \in Polls \cup Repeating(c) : e.kind = "publish"
    BY DEF Polls, Repeating, Sending
  <2>3. QED
    BY <1>2, <2>1, <2>2
<1>5. QED
  BY <1>1, <1>3, <1>4

\* What asks for an answer, on a topic where nothing does.
LEMMA AsksOnce ==
  ASSUME NEW u \in Seq(Downward), NEW d, Good(d), Only(d, ToTheNode), NEW s \in Sessions,
         ~Some(u, DownAsks), AtMostOne(d.out, Orders)
  PROVE  LET v == u \o Messages(d.out, s)
         IN  /\ AtMostOne(v, DownAsks)
             /\ Some(v, DownAsks) => Some(d.out, Asking)
             /\ \A i \in DOMAIN v :
                  \/ \E j \in DOMAIN u : v[i] = u[j]
                  \/ \E j \in DOMAIN d.out : /\ d.out[j].kind = "publish"
                                             /\ v[i] = Message(d.out[j], s)
<1>1. AtMostOne(u, DownAsks)
  BY NoneIsAtMostOne
<1>2. QED
  BY <1>1, ControlTopic

\* It sends data, or sends it again, or gives it up.
LEMMA ActsAsk ==
  ASSUME LinkTyped, AskIsAnswered, Acts, ~hasty'
  PROVE  AskIsAnswered'
<1> DEFINE c == Fresh(node[a])
           d == node'[a]
           w == node[a].wait
<1>1. /\ to_node \in Seq(Downward) /\ store_session \in Sessions
      /\ Good(c) /\ c.wait = w /\ Good(d) /\ Only(d, ToTheNode)
      /\ Asks(c, d) \/ AsksAgain(c, d)
      /\ to_node' = to_node \o Messages(d.out, store_session)
      /\ UNCHANGED <<to_store, store_session, taken>>
      /\ ~(ExchangeOpen /\ (Resends \/ Abandons))
  BY NodeTypes DEF Acts, LinkTyped, LinkTypeOK
<1> HIDE DEF c
<1>2. NoMore(to_store, to_store', UpAcks)
  BY <1>1, ThinnerIsNoMore
<1>3. Recorded(d) \subseteq taken'
  BY ActsRecordNothing
\* Nothing asked for: the wait goes on.
<1>4. ASSUME ~Some(d.out, Asking),
             d.wait.waiting = w.waiting, d.wait.pkt = w.pkt, d.wait.do_insert = w.do_insert
      PROVE  AskIsAnswered'
  <2>1. NoMore(to_node, to_node', DownAsks)
    BY <1>1, <1>4, SendsNoMore
  <2>2. QED
    BY <1>1, <1>2, <1>3, <1>4, <2>1, AskStaysAnswered
\* The one packet of the exchange, where none was open.
<1>5. ASSUME ~Some(to_node, DownAsks), ~Some(to_store, UpAcks),
             AtMostOne(d.out, Orders),
             \A i \in DOMAIN d.out :
               d.out[i] \in Asking => d.wait.waiting /\ d.out[i] \in Sending(d.wait.pkt)
      PROVE  AskIsAnswered'
  <2>1. AtMostOne(to_node, DownAsks) /\ ~Some(to_store', UpAcks)
    BY <1>1, <1>5, NoneIsAtMostOne
  <2>2. /\ AtMostOne(to_node', DownAsks)
        /\ Some(to_node', DownAsks) => Some(d.out, Asking)
        /\ \A i \in DOMAIN to_node' :
             \/ \E j \in DOMAIN to_node : to_node'[i] = to_node[j]
             \/ \E j \in DOMAIN d.out : /\ d.out[j].kind = "publish"
                                        /\ to_node'[i] = Message(d.out[j], store_session)
    <3> DEFINE v == to_node \o Messages(d.out, store_session)
    <3>1. /\ to_node \in Seq(Downward) /\ Good(d) /\ Only(d, ToTheNode)
          /\ store_session \in Sessions /\ ~Some(to_node, DownAsks)
          /\ AtMostOne(d.out, Orders)
      BY <1>1, <1>5
    <3>2. to_node' = v
      BY <1>1
    <3> HIDE DEF d
    <3>3. /\ AtMostOne(v, DownAsks)
          /\ Some(v, DownAsks) => Some(d.out, Asking)
          /\ \A i \in DOMAIN v :
               \/ \E j \in DOMAIN to_node : v[i] = to_node[j]
               \/ \E j \in DOMAIN d.out : /\ d.out[j].kind = "publish"
                                          /\ v[i] = Message(d.out[j], store_session)
      BY ONLY <3>1, AsksOnce
    <3> HIDE DEF v
    <3>4. QED
      BY <3>2, <3>3
  <2>3. OnceOpen(to_node', DownAsks, to_store', UpAcks)
    BY <2>1, <2>2, NoneIsAtMostOne DEF OnceOpen
  <2>4. Some(to_node', DownAsks) => d.wait.waiting
    BY <1>5, <2>2 DEF Some
  <2>5. ASSUME NEW i \in DOMAIN to_node', to_node'[i] \in DownAsks
        PROVE  /\ to_node'[i].id = <<store_session', d.wait.pkt.num>>
               /\ to_node'[i].op = d.wait.pkt.op
    <3>1. PICK j \in DOMAIN d.out : /\ d.out[j].kind = "publish"
                                    /\ to_node'[i] = Message(d.out[j], store_session)
      BY <1>5, <2>2, <2>5 DEF Some
    <3>2. d.out[j] \in Effects
      BY <1>1, OutType
    <3>3. d.out[j] \in Asking
      BY <2>5, <3>1, <3>2 DEF Message, DownAsks, Asking
    <3>4. d.out[j].op = d.wait.pkt.op /\ d.out[j].num = d.wait.pkt.num
      BY <1>5, <3>3 DEF Sending
    <3>5. QED
      BY <1>1, <3>1, <3>4 DEF Message
  <2>6. QED
    BY <1>3, <2>1, <2>3, <2>4, <2>5 DEF AskIsAnswered, Recorded, DownAsks, Downward, UpAcks, Upward
<1>6. ExchangeOpen <=> Some(to_node, DownAsks) \/ Some(to_store, UpAcks)
  BY ExchangeIsOpen
<1>7. {} \cap Asking = {}
  OBVIOUS
<1>8. CASE Asks(c, d)
  <2>1. CASE d.wait = c.wait /\ Only(d, {})
    <3>1. ~Some(d.out, Asking)
      BY <1>1, <1>7, <2>1, OutSome
    <3>2. QED
      BY <1>1, <1>4, <2>1, <3>1
  <2>2. CASE /\ ~c.wait.waiting /\ d.wait.waiting
             /\ Only(d, {e \in Sending(d.wait.pkt) : ~e.resend})
             /\ AtMostOne(d.out, Orders)
    <3>1. ~Some(to_node, DownAsks) /\ ~Some(to_store, UpAcks)
      BY <1>1, <2>2 DEF AskIsAnswered
    <3>2. \A i \in DOMAIN d.out : d.out[i] \in Sending(d.wait.pkt)
      BY <1>1, <2>2, OutType DEF Only
    <3>3. QED
      BY <1>5, <2>2, <3>1, <3>2
  <2>3. QED
    BY <1>8, <2>1, <2>2 DEF Asks
<1>9. CASE AsksAgain(c, d)
  <2>1. CASE /\ d.wait.waiting = c.wait.waiting /\ d.wait.pkt = c.wait.pkt
             /\ d.wait.do_insert = c.wait.do_insert
             /\ Only(d, Polls \cup Repeating(c))
    <3>1. \A i \in DOMAIN d.out : d.out[i] \in Polls \cup Repeating(c)
      BY <1>1, <2>1, OutType DEF Only
    <3>2. \A i \in DOMAIN d.out : d.out[i] \in Asking => d.out[i] \in Repeating(c)
      BY <3>1 DEF Polls, Asking
    <3>3. CASE ~Some(d.out, Asking)
      BY <1>1, <1>4, <2>1, <3>3
    <3>4. CASE Some(d.out, Asking)
      <4>1. Resends
        BY <3>2, <3>4 DEF Some, Resends, Repeating
      <4>2. ~Some(to_node, DownAsks) /\ ~Some(to_store, UpAcks)
        BY <1>1, <1>6, <4>1
      <4>3. AtMostOne(d.out, Orders)
        BY <1>9 DEF AsksAgain
      <4>4. ASSUME NEW i \in DOMAIN d.out, d.out[i] \in Asking
            PROVE  d.wait.waiting /\ d.out[i] \in Sending(d.wait.pkt)
        <5>1. d.out[i] \in Sending(c.wait.pkt) /\ d.out[i].op = c.wait.pkt.op
          BY <3>2, <4>4 DEF Repeating, Sending
        <5>2. c.wait.pkt.op \in {"DN", "SC"}
          BY <4>4, <5>1 DEF Asking
        <5>3. c.wait.waiting
          BY <1>1, <5>2 DEF Good, WaitCoherent, clear_wait, NoPkt
        <5>4. QED
          BY <2>1, <5>1, <5>3
      <4>5. QED
        BY <1>5, <4>2, <4>3, <4>4
    <3>5. QED
      BY <3>3, <3>4
  <2>2. CASE c.wait.waiting /\ ~d.wait.waiting /\ Only(d, Polls)
    <3>1. Abandons
      BY <1>1, <2>2 DEF Abandons, is_waiting
    <3>2. ~Some(to_node, DownAsks) /\ ~Some(to_store, UpAcks)
      BY <1>1, <1>6, <3>1
    <3>3. ~Some(d.out, Asking)
      BY <1>1, <2>2, NoneAsked, OutSome
    <3>4. NoMore(to_node, to_node', DownAsks)
      BY <1>1, <3>3, SendsNoMore
    <3>5. QED
      BY <1>1, <1>3, <3>2, <3>4, AskClosed DEF NoMore
  <2>3. QED
    BY <1>9, <2>1, <2>2 DEF AsksAgain
<1>10. QED
  BY <1>1, <1>8, <1>9

LEMMA NextAskInv ==
  ASSUME LinkTyped, AskInv, [LinkNext]_linkvars
  PROVE  AskInv'
<1>1. SUFFICES ASSUME ~hasty'
               PROVE  AskIsAnswered'
  BY DEF AskInv, AskIsAnswered, Recorded, DownAsks, Downward, UpAcks, Upward
<1>2. ASSUME ~hasty PROVE AskIsAnswered
  BY <1>2 DEF AskInv
<1>3. ASSUME hasty' = hasty, NoMore(to_node, to_node', DownAsks),
             NoMore(to_store, to_store', UpAcks),
             UNCHANGED <<node, store_session, taken>>
      PROVE  AskIsAnswered'
  <2>1. AskIsAnswered
    BY <1>1, <1>2, <1>3
  <2>2. QED
    BY <1>3, <2>1, AskStaysAnswered DEF AskIsAnswered
<1>4. CASE UNCHANGED linkvars \/ NodeRestart
  <2>1. UNCHANGED <<node, to_store, to_node, store_session, taken, hasty>>
    BY <1>4 DEF linkvars, broker, sessions, ghosts, NodeRestart
  <2>2. QED
    BY <1>3, <2>1, ThinnerIsNoMore
<1>5. CASE NodeStart \/ (\E fits \in BOOLEAN : NodeSendsData(fits)) \/ NodeSetsStatus
           \/ NodeReceives
  <2>1. hasty' = hasty
    BY <1>5 DEF NodeStart, NodeSendsData, NodeSetsStatus, NodeReceives, NodeStep
  <2>2. QED
    BY <1>1, <1>2, <1>5, <2>1, NodeSaysAsk, NodeReceivesAsk
<1>6. CASE StoreReceives
  BY <1>1, <1>2, <1>6, StoreReceivesAsk DEF StoreReceives
<1>7. CASE (\E fits \in BOOLEAN : StoreSendsData(fits)) \/ StoreBeats \/ StoreTicks
  <2>1. Acts
    BY <1>7, StoreActsIs
  <2>2. ~hasty
    BY <1>1, <2>1 DEF Acts
  <2>3. QED
    BY <1>1, <1>2, <2>1, <2>2, ActsAsk
<1>8. CASE StoreRestarts
  <2>1. ~ExchangeOpen /\ Restart /\ UNCHANGED <<to_store, to_node>>
    BY <1>1, <1>8 DEF StoreRestarts, broker
  <2>2. ~Some(to_node', DownAsks) /\ ~Some(to_store', UpAcks)
    BY <2>1, ExchangeIsOpen
  <2>3. Recorded(node'[a]) \subseteq taken'
    <3>1. node'[a].out = <<>>
      BY <2>1, RestartIs
    <3>2. QED
      BY <3>1 DEF Recorded
  <2>4. QED
    BY <2>2, <2>3, AskClosed
<1>9. CASE Lose
  <2>1. to_store \in Seq(Upward) /\ to_node \in Seq(Downward)
    BY DEF LinkTyped, LinkTypeOK
  <2>2. /\ to_store' = to_store \/ Thinner(to_store, to_store')
        /\ to_node' = to_node \/ Thinner(to_node, to_node')
    BY <1>9, <2>1, LossThins DEF Lose
  <2>3. hasty' = hasty /\ UNCHANGED <<node, store_session, taken>>
    BY <1>9 DEF Lose, sessions, ghosts
  <2>4. QED
    BY <1>3, <2>2, <2>3, ThinnerIsNoMore
<1>10. QED
  BY <1>4, <1>5, <1>6, <1>7, <1>8, <1>9 DEF LinkNext

LEMMA AskInvInit ==
  ASSUME LinkInit
  PROVE  AskInv
<1>1. /\ to_store = <<>> /\ to_node = <<>> /\ Init
  BY DEF LinkInit
<1>2. node[a].out = <<>>
  BY <1>1, LinkAssumption DEF Init, NewNode
<1>3. AskIsAnswered
  BY <1>1, <1>2 DEF AskIsAnswered, OnceOpen, AtMostOne, Some, Recorded
<1>4. QED
  BY <1>3 DEF AskInv

LEMMA LinkInvInit == LinkInit => LinkInv
  BY LinkTypedInit, DataInvInit, AskInvInit DEF LinkInv

LEMMA LinkInvNext == LinkInv /\ [LinkNext]_linkvars => LinkInv'
  BY LinkTypedNext, NextDataInv, NextAskInv DEF LinkInv

(***************************************************************************)
(* The invariant of the link: one exchange at most is open in either       *)
(* direction, and what an answer confirms is in the database, or in the    *)
(* receive queue, before the answer is on the way.                         *)
(***************************************************************************)
THEOREM LinkIsInvariant == LinkSpec => []LinkInv
<1>1. QED
  BY LinkInvInit, LinkInvNext, PTL DEF LinkSpec

(***************************************************************************)
(* Data the store recorded as delivered is in the node's receive queue,    *)
(* unless the store lost patience (Node.post_data, AS;                     *)
(* Node.periodic_check_for_AS).                                            *)
(***************************************************************************)
THEOREM RecordedWasTakenAlways == LinkSpec => RecordedWasTaken
<1> DEFINE A == store_session' = store_session => hasty \/ Inserts("DN") \subseteq taken
<1>1. LinkInv /\ [LinkNext]_linkvars => [A]_linkvars
  <2> SUFFICES ASSUME LinkInv, [LinkNext]_linkvars,
                      store_session' = store_session, ~hasty
               PROVE  Inserts("DN") \subseteq taken
    OBVIOUS
  <2>1. LinkTyped /\ AskIsAnswered
    BY DEF LinkInv, AskInv
  <2>2. Inserts("DN") = Recorded(node'[a])
    BY DEF Inserts, Recorded
  <2>3. CASE node' = node
    BY <2>1, <2>2, <2>3 DEF AskIsAnswered
  <2>4. CASE StoreReceives
    <3>1. AskIsAnswered' /\ taken' = taken
      BY <2>1, <2>4, StoreReceivesAsk, StoreTakes DEF Taken
    <3>2. QED
      BY <2>2, <3>1 DEF AskIsAnswered
  <2>5. CASE (\E fits \in BOOLEAN : StoreSendsData(fits)) \/ StoreBeats \/ StoreTicks
    BY <2>1, <2>2, <2>5, StoreActsIs, ActsRecordNothing
  <2>6. CASE StoreRestarts
    <3>1. store_session' = store_session + 1 /\ store_session \in Int
      BY <2>1, <2>6, NodeTypes DEF StoreRestarts
    <3>2. QED
      BY <3>1
  <2>7. UNCHANGED linkvars \/ NodeRestart \/ Lose \/ NodeStart \/ NodeSetsStatus
          \/ NodeReceives \/ (\E fits \in BOOLEAN : NodeSendsData(fits)) => node' = node
    BY DEF linkvars, NodeRestart, Lose, NodeStart, NodeSetsStatus, NodeReceives,
           NodeSendsData, NodeStep
  <2>8. QED
    BY <2>3, <2>4, <2>5, <2>6, <2>7 DEF LinkNext
<1> HIDE DEF A
<1>2. LinkSpec => [][A]_linkvars
  BY <1>1, LinkInvInit, LinkInvNext, PTL DEF LinkSpec
<1>3. QED
  BY <1>2 DEF RecordedWasTaken, A

----------------------------------------------------------------------------
(* A node that waits for nothing.                                          *)

\* Only a node that has subscribed sends data, and it stays subscribed.
WaitsSubscribed == py.wait.waiting => py.subscribed

LEMMA PyStaysSubscribed ==
  ASSUME NEW c \in Py!PyRec
  PROVE  /\ Py!start(c).subscribed
         /\ \A fits \in BOOLEAN : Py!send_data_to_store(c, fits).subscribed = c.subscribed
         /\ Py!set_status(c).subscribed = c.subscribed
         /\ \A op \in StoreOps, num \in PktNum :
              Py!on_control_msg(c, op, num).subscribed = c.subscribed
<1> DEFINE i == Py!Idle(c)
<1>1. i \in Py!PyRec /\ i.subscribed = c.subscribed /\ i.out = <<>> /\ ~i.raised
  BY PyIdle
<1>2. ASSUME NEW x \in Py!PyRec
      PROVE  Py!Construct(x) \in Py!PyRec => Py!Construct(x).subscribed = x.subscribed
  BY <1>2 DEF Py!Construct, Py!PyRec
<1>3. ASSUME NEW x \in Py!PyRec, NEW pkt
      PROVE  Py!publish_pkt(x, pkt).subscribed = x.subscribed
  BY <1>3 DEF Py!publish_pkt, Py!PyRec
<1>4. ASSUME NEW x \in Py!PyRec, ~x.raised, NEW op
      PROVE  Py!Send(x, op).subscribed = x.subscribed
  BY <1>2, <1>3, <1>4, PyConstruct DEF Py!Send
<1>5. Py!start(c).subscribed
  BY <1>1 DEF Py!start, Py!PyRec
<1>6. ASSUME NEW fits \in BOOLEAN
      PROVE  Py!send_data_to_store(c, fits).subscribed = c.subscribed
  <2> DEFINE d == Py!Construct(i)
             pkt == Py!PktOf(d, "DS", fits)
             e == Py!publish_pkt(d, pkt)
  <2>1. d \in Py!PyRec /\ d.subscribed = c.subscribed /\ d.out = <<>>
    BY <1>1, <1>2, PyConstruct
  <2>2. e.subscribed = c.subscribed
    BY <1>3, <2>1
  <2>3. ~d.raised => e \in Py!PyRec
    <3>1. "DS" \in Py!PyOps /\ (~d.raised => d.pkt_num \in PktNum)
      BY <1>1, PyConstruct DEF Py!PyOps
    <3>2. QED
      BY <2>1, <3>1, PyPublish
  <2>4. Py!send_data_to_store(c, fits) =
          IF d.raised THEN d ELSE [e EXCEPT !.wait = Py!set_wait(pkt, FALSE)]
    BY DEF Py!send_data_to_store
  <2> HIDE DEF d, pkt, e
  <2>5. ~d.raised => [e EXCEPT !.wait = Py!set_wait(pkt, FALSE)].subscribed = e.subscribed
    BY <2>3 DEF Py!PyRec
  <2>6. QED
    BY <2>1, <2>2, <2>4, <2>5
<1>7. Py!set_status(c).subscribed = c.subscribed
  BY <1>1, <1>4 DEF Py!set_status, Py!send_status_to_store
<1>8. ASSUME NEW op \in StoreOps, NEW num \in PktNum
      PROVE  Py!on_control_msg(c, op, num).subscribed = c.subscribed
  <2> DEFINE j == [i EXCEPT !.taken = {num}]
             k == [i EXCEPT !.wait = Py!clear_wait]
  <2>1. j \in Py!PyRec /\ j.subscribed = i.subscribed /\ ~j.raised
    BY <1>1, <1>8 DEF Py!PyRec, Py!PktNum, PktNum
  <2>2. k.subscribed = i.subscribed
    BY <1>1 DEF Py!PyRec
  <2>3. Py!on_control_msg(c, op, num) =
          CASE op = "AN" -> k [] op = "SC" -> Py!Send(i, "AS")
            [] op = "DN" -> Py!Send(j, "AS") [] op = "GS" -> Py!Send(i, "SS")
    BY DEF Py!on_control_msg, Py!Handle, Py!send_ack_to_store, Py!send_status_to_store
  <2> HIDE DEF i, j, k
  <2>4. QED
    BY <1>1, <1>4, <1>8, <2>1, <2>2, <2>3 DEF StoreOps
<1>9. QED
  BY <1>5, <1>6, <1>7, <1>8

LEMMA NextWaitsSubscribed ==
  ASSUME LinkTyped, WaitsSubscribed, [LinkNext]_linkvars
  PROVE  WaitsSubscribed'
<1>1. py \in Py!PyRec
  BY DEF LinkTyped, LinkTypeOK
<1>2. ASSUME NEW d \in Py!PyRec, NodeStep(d)
      PROVE  py'.subscribed = d.subscribed /\ py'.wait = d.wait
  BY <1>2, PyIdle DEF NodeStep
<1>3. CASE NodeStart
  <2>1. Py!start(py) \in Py!PyRec /\ Py!start(py).subscribed
    BY <1>1, PyStarts, PyStaysSubscribed DEF PyGoesOn
  <2>2. QED
    BY <1>2, <1>3, <2>1 DEF NodeStart, WaitsSubscribed
<1>4. CASE \E fits \in BOOLEAN : NodeSendsData(fits)
  <2>1. PICK fits \in BOOLEAN : NodeSendsData(fits)
    BY <1>4
  <2> DEFINE d == Py!send_data_to_store(py, fits)
  <2>2. d \in Py!PyRec /\ d.subscribed = py.subscribed
    BY <1>1, PySendsData, PyStaysSubscribed DEF PyGoesOn
  <2>3. NodeStep(d) /\ py.subscribed
    BY <2>1 DEF NodeSendsData
  <2> HIDE DEF d
  <2>4. QED
    BY <1>2, <2>2, <2>3 DEF WaitsSubscribed
<1>5. CASE NodeSetsStatus
  <2>1. Py!set_status(py) \in Py!PyRec /\ Py!set_status(py).subscribed = py.subscribed
    BY <1>1, PySetsStatus, PyStaysSubscribed DEF PyGoesOn
  <2>2. NodeStep(Py!set_status(py)) /\ py.subscribed
    BY <1>5 DEF NodeSetsStatus
  <2>3. QED
    BY <1>2, <2>1, <2>2 DEF WaitsSubscribed
<1>6. CASE NodeReceives
  <2> DEFINE p == Head(to_node)
             d == IF py.subscribed THEN Py!on_control_msg(py, p.op, p.id[2]) ELSE py
  <2>1. PyGoesOn(py, d, HeadOps(p.op)) /\ p.op \in StoreOps /\ p.id[2] \in PktNum
    BY <1>6, HeadOfControl DEF NodeReceives
  <2>2. d.subscribed = py.subscribed
    BY <1>1, <2>1, PyStaysSubscribed
  <2>3. ~py.subscribed => d = py
    OBVIOUS
  <2>4. NodeStep(d)
    BY <1>6 DEF NodeReceives
  <2> HIDE DEF d, p
  <2>5. QED
    BY <1>2, <2>1, <2>2, <2>3, <2>4 DEF WaitsSubscribed, PyGoesOn
<1>7. CASE NodeRestart
  BY <1>7, PyWaitTypes DEF NodeRestart, WaitsSubscribed, Py!NewPyNode
<1>8. UNCHANGED linkvars \/ StoreReceives \/ StoreRestarts \/ Lose => UNCHANGED py
  BY DEF linkvars, StoreReceives, StoreSends, StoreRestarts, Lose
<1>9. (\E fits \in BOOLEAN : StoreSendsData(fits)) \/ StoreBeats \/ StoreTicks => UNCHANGED py
  BY StoreActsIs DEF Acts
<1>10. UNCHANGED py => WaitsSubscribed'
  BY DEF WaitsSubscribed
<1>11. QED
  BY <1>3, <1>4, <1>5, <1>6, <1>7, <1>8, <1>9, <1>10 DEF LinkNext

LEMMA WaitsSubscribedInit ==
  ASSUME LinkInit
  PROVE  WaitsSubscribed
  BY PyWaitTypes DEF LinkInit, WaitsSubscribed, Py!NewPyNode

\* Mute, in the terms of the other lemmas.
LEMMA MuteIs ==
  ASSUME LinkTyped
  PROVE  Mute <=> /\ py.wait.waiting
                  /\ ~Some(to_store, UpData) /\ ~Some(to_node, DownAcks)
<1>1. /\ \A i \in DOMAIN to_node : to_node[i] \in Downward
      /\ \A i \in DOMAIN to_store : to_store[i] \in Upward
  BY DEF LinkTyped, LinkTypeOK
<1>2. OnTopic(to_node, {"AN"}) <=> Some(to_node, DownAcks)
  BY <1>1 DEF OnTopic, Some, DownAcks
<1>3. OnTopic(to_store, {"DS"}) <=> Some(to_store, UpData)
  BY <1>1 DEF OnTopic, Some, UpData
<1>4. QED
  BY <1>2, <1>3 DEF Mute

LEMMA MuteIsNext ==
  ASSUME LinkTyped'
  PROVE  Mute' <=> /\ py'.wait.waiting
                   /\ ~Some(to_store', UpData) /\ ~Some(to_node', DownAcks)
<1>1. /\ \A i \in DOMAIN to_node' : to_node'[i] \in Downward
      /\ \A i \in DOMAIN to_store' : to_store'[i] \in Upward
  <2>1. to_node' \in Seq(Downward) /\ to_store' \in Seq(Upward)
    BY DEF LinkTyped, LinkTypeOK
  <2>2. QED
    BY <2>1
<1>2. OnTopic(to_node', {"AN"}) <=> Some(to_node', DownAcks)
  BY <1>1 DEF OnTopic, Some, DownAcks
<1>3. OnTopic(to_store', {"DS"}) <=> Some(to_store', UpData)
  BY <1>1 DEF OnTopic, Some, UpData
<1>4. Mute' <=> /\ py'.wait.waiting
                /\ ~OnTopic(to_store', {"DS"}) /\ ~OnTopic(to_node', {"AN"})
  BY DEF Mute, OnTopic
<1>5. QED
  BY <1>2, <1>3, <1>4

\* A node that waits says nothing, whatever it is asked.
LEMMA WaitingSaysNothing ==
  ASSUME LinkTyped, py.wait.waiting,
         \/ NodeStart
         \/ \E fits \in BOOLEAN : NodeSendsData(fits)
         \/ NodeSetsStatus
         \/ NodeReceives
  PROVE  to_store' = to_store
<1>1. py \in Py!PyRec /\ to_store \in Seq(Upward)
  BY DEF LinkTyped, LinkTypeOK
<1>2. ASSUME NEW ops \in SUBSET Py!PyOps, NEW d, PyGoesOn(py, d, ops), NodeStep(d)
      PROVE  to_store' = to_store
  <2>1. to_store' = to_store \o PySent(d) /\ Said(PySent(d), ops)
    BY <1>2, PySentOf DEF NodeStep
  <2>2. PySent(d) = <<>>
    BY <2>1 DEF Said
  <2>3. QED
    BY <1>1, <2>1, <2>2
<1>3. CASE NodeStart
  <2>1. PyGoesOn(py, Py!start(py), {}) /\ {} \in SUBSET Py!PyOps
    BY <1>1, PyStarts
  <2>2. QED
    BY <1>2, <1>3, <2>1 DEF NodeStart
<1>4. CASE \E fits \in BOOLEAN : NodeSendsData(fits)
  <2>1. PICK fits \in BOOLEAN : NodeSendsData(fits)
    BY <1>4
  <2>2. PyGoesOn(py, Py!send_data_to_store(py, fits), {"DS"}) /\ {"DS"} \in SUBSET Py!PyOps
    BY <1>1, PySendsData DEF Py!PyOps
  <2>3. QED
    BY <1>2, <2>1, <2>2 DEF NodeSendsData
<1>5. CASE NodeSetsStatus
  <2>1. PyGoesOn(py, Py!set_status(py), {"SS"}) /\ {"SS"} \in SUBSET Py!PyOps
    BY <1>1, PySetsStatus DEF Py!PyOps
  <2>2. QED
    BY <1>2, <1>5, <2>1 DEF NodeSetsStatus
<1>6. CASE NodeReceives
  <2> DEFINE p == Head(to_node)
             d == IF py.subscribed THEN Py!on_control_msg(py, p.op, p.id[2]) ELSE py
  <2>1. PyGoesOn(py, d, HeadOps(p.op)) /\ HeadOps(p.op) \in SUBSET Py!PyOps
    BY <1>6, HeadOfControl DEF NodeReceives
  <2>2. NodeStep(d)
    BY <1>6 DEF NodeReceives
  <2> HIDE DEF d, p
  <2>3. QED
    BY <1>2, <2>1, <2>2
<1>7. QED
  BY <1>3, <1>4, <1>5, <1>6

LEMMA MuteStays ==
  ASSUME LinkTyped, LinkTyped', [LinkNext]_linkvars, Mute, node_session' = node_session
  PROVE  Mute' /\ Len(to_store') <= Len(to_store)
<1>1. /\ to_store \in Seq(Upward) /\ to_node \in Seq(Downward)
      /\ Len(to_store) \in Nat /\ Len(to_store) <= Len(to_store)
  <2>1. to_store \in Seq(Upward) /\ to_node \in Seq(Downward)
    BY DEF LinkTyped, LinkTypeOK
  <2>2. QED
    BY <2>1
<1>2. py.wait.waiting /\ ~Some(to_store, UpData) /\ ~Some(to_node, DownAcks)
  BY MuteIs
\* The wait goes on: only an AN ends it.
<1>3. py'.wait.waiting
  <2>1. ~Confirmed
    <3>1. Confirmed => Some(to_node, DownAcks)
      BY <1>1, OnlyAcksConfirm, SomeOfTail
    <3>2. QED
      BY <1>2, <3>1
  <2>2. QED
    BY <1>2, <2>1 DEF Confirmed
<1>4. ASSUME NoMore(to_store, to_store', UpData), NoMore(to_node, to_node', DownAcks)
      PROVE  Mute'
  BY <1>2, <1>3, <1>4, MuteIsNext DEF NoMore
<1>5. CASE UNCHANGED linkvars \/ StoreRestarts
  <2>1. to_store' = to_store /\ to_node' = to_node
    BY <1>5 DEF linkvars, broker, StoreRestarts
  <2>2. QED
    BY <1>1, <1>4, <2>1, ThinnerIsNoMore
<1>6. CASE NodeStart \/ (\E fits \in BOOLEAN : NodeSendsData(fits)) \/ NodeSetsStatus
           \/ NodeReceives
  <2>1. to_store' = to_store
    BY <1>2, <1>6, WaitingSaysNothing
  <2>2. NoMore(to_node, to_node', DownAcks)
    <3>1. NodeReceives => Thinner(to_node, to_node')
      BY <1>1, TailThins DEF NodeReceives
    <3>2. NodeReceives \/ to_node' = to_node
      BY <1>6 DEF NodeStart, NodeSendsData, NodeSetsStatus
    <3>3. QED
      BY <3>1, <3>2, ThinnerIsNoMore
  <2>3. QED
    BY <1>1, <1>4, <2>1, <2>2, ThinnerIsNoMore
<1>7. CASE NodeRestart
  <2>1. node_session' = node_session + 1 /\ node_session \in Int
    BY <1>7, NodeTypes DEF NodeRestart
  <2>2. QED
    BY <2>1
<1>8. CASE StoreReceives
  <2> DEFINE p == Head(to_store)
             d == node'[a]
  <2>1. Taken(p)
    BY <1>8, StoreTakes
  <2>2. /\ to_store # <<>> /\ p \in Upward /\ p.op \in Py!PyOps /\ p.id[2] \in PktNum
        /\ Received(p.op, p.id[2]) /\ to_store' = Tail(to_store)
        /\ to_node' = to_node \o Messages(d.out, store_session)
        /\ Good(d) /\ Only(d, ToTheNode) /\ store_session \in Sessions
    BY <2>1, NodeTypes DEF Taken
  <2>3. p.op # "DS"
    BY <1>1, <1>2, <2>2, SomeOfTail DEF UpData
  <2>4. ~Some(d.out, Acks)
    BY <2>2, <2>3, ReceivedRecord
  <2>5. NoMore(to_node, to_node', DownAcks)
    BY <1>1, <2>2, <2>4, SendsNoMore
  <2>6. Thinner(to_store, to_store') /\ Len(to_store') <= Len(to_store)
    BY <1>1, <2>2, TailThins
  <2>7. QED
    BY <1>4, <2>5, <2>6, ThinnerIsNoMore
<1>9. CASE (\E fits \in BOOLEAN : StoreSendsData(fits)) \/ StoreBeats \/ StoreTicks
  <2>1. Acts
    BY <1>9, StoreActsIs
  <2>2. ~Some(node'[a].out, Acks)
    BY <2>1, AskedHasNoAcks DEF Acts
  <2>3. /\ to_node' = to_node \o Messages(node'[a].out, store_session)
        /\ Good(node'[a]) /\ Only(node'[a], ToTheNode) /\ store_session \in Sessions
        /\ to_store' = to_store
    BY <2>1, NodeTypes DEF Acts
  <2>4. NoMore(to_node, to_node', DownAcks)
    BY <1>1, <2>2, <2>3, SendsNoMore
  <2>5. QED
    BY <1>1, <1>4, <2>3, <2>4, ThinnerIsNoMore
<1>10. CASE Lose
  <2>1. /\ to_store' = to_store \/ (Thinner(to_store, to_store') /\ Len(to_store') <= Len(to_store))
        /\ to_node' = to_node \/ Thinner(to_node, to_node')
    BY <1>1, <1>10, LossThins DEF Lose
  <2>2. QED
    BY <1>1, <1>4, <2>1, ThinnerIsNoMore
<1>11. QED
  BY <1>5, <1>6, <1>7, <1>8, <1>9, <1>10 DEF LinkNext

LEMMA MuteHasReason ==
  ASSUME LinkTyped, LinkTyped', WaitsSubscribed, [LinkNext]_linkvars, ~Mute, Mute',
         sent', a \in known, node'[a].pkt_num <= MaxPktNum, ~(lost' > lost)
  PROVE  FALSE
<1>1. /\ to_store \in Seq(Upward) /\ to_node \in Seq(Downward)
      /\ py \in Py!PyRec /\ node_session \in Int /\ lost \in Int
  BY NodeTypes DEF LinkTyped, LinkTypeOK
<1>2. py'.wait.waiting /\ ~Some(to_store', UpData) /\ ~Some(to_node', DownAcks)
  BY MuteIsNext
<1>3. ~py.wait.waiting \/ Some(to_store, UpData) \/ Some(to_node, DownAcks)
  BY MuteIs
<1>4. ASSUME NEW ops \in SUBSET Py!PyOps, NEW d, PyGoesOn(py, d, ops), NodeStep(d)
      PROVE  /\ py'.wait = d.wait
             /\ Some(to_store', UpData) <=> Some(to_store, UpData) \/ Some(PySent(d), UpData)
  <2>1. /\ py'.wait = d.wait /\ Said(PySent(d), ops)
        /\ to_store' = to_store \o PySent(d)
    BY <1>4, PySentOf DEF NodeStep
  <2>2. PySent(d) \in Seq(Upward)
    BY <2>1 DEF Said
  <2>3. QED
    BY <1>1, <2>1, <2>2, SomeOfConcat
<1>5. CASE UNCHANGED linkvars \/ StoreRestarts
  <2>1. to_store' = to_store /\ to_node' = to_node /\ py' = py
    BY <1>5 DEF linkvars, broker, StoreRestarts
  <2>2. QED
    BY <1>2, <1>3, <2>1
<1>6. CASE NodeStart
  <2>1. PyGoesOn(py, Py!start(py), {}) /\ {} \in SUBSET Py!PyOps /\ Py!start(py).wait = py.wait
    BY <1>1, PyStarts
  <2>2. QED
    BY <1>2, <1>3, <1>4, <1>6, <2>1 DEF NodeStart
<1>7. CASE NodeSetsStatus
  <2>1. /\ PyGoesOn(py, Py!set_status(py), {"SS"}) /\ {"SS"} \in SUBSET Py!PyOps
        /\ Py!set_status(py).wait = py.wait
    BY <1>1, PySetsStatus DEF Py!PyOps
  <2>2. QED
    BY <1>2, <1>3, <1>4, <1>7, <2>1 DEF NodeSetsStatus
<1>8. CASE \E fits \in BOOLEAN : NodeSendsData(fits)
  <2>1. PICK fits \in BOOLEAN : NodeSendsData(fits)
    BY <1>8
  <2> DEFINE d == Py!send_data_to_store(py, fits)
  <2>2. /\ PyGoesOn(py, d, {"DS"}) /\ {"DS"} \in SUBSET Py!PyOps
        /\ IF d.raised THEN d.wait = py.wait /\ d.out = <<>> ELSE d.wait.waiting
    BY <1>1, PySendsData DEF Py!PyOps
  <2>3. /\ NodeStep(d) /\ to_node' = to_node
        /\ sent' = IF d.raised THEN sent ELSE d.out # <<>>
    BY <2>1 DEF NodeSendsData
  <2> HIDE DEF d
  <2>4. CASE d.raised
    BY <1>2, <1>3, <1>4, <2>2, <2>3, <2>4
  <2>5. CASE ~d.raised
    <3>1. sent' = (d.out # <<>>)
      BY <2>3, <2>5
    <3>2. d.out # <<>>
      BY <3>1
    <3>3. Said(PySent(d), {"DS"}) /\ Len(PySent(d)) = 1
      BY <2>2, <2>3, <3>2, PySentOf DEF NodeStep
    <3>4. PySent(d) \in Seq(Upward) /\ PySent(d)[1].op = "DS" /\ 1 \in DOMAIN PySent(d)
      BY <3>3 DEF Said
    <3>5. Some(PySent(d), UpData)
      BY <3>4 DEF Some, UpData
    <3>6. QED
      BY <1>2, <1>4, <2>2, <2>3, <3>5
  <2>6. QED
    BY <2>4, <2>5
<1>9. CASE NodeReceives
  <2> DEFINE p == Head(to_node)
             d == IF py.subscribed THEN Py!on_control_msg(py, p.op, p.id[2]) ELSE py
  <2>1. /\ p \in Downward /\ to_node # <<>>
        /\ PyGoesOn(py, d, HeadOps(p.op)) /\ HeadOps(p.op) \in SUBSET Py!PyOps
        /\ ~py.subscribed => d = py
        /\ py.subscribed => d.wait = IF p.op = "AN" THEN Py!clear_wait ELSE py.wait
    BY <1>9, HeadOfControl DEF NodeReceives
  <2>2. NodeStep(d) /\ to_node' = Tail(to_node)
    BY <1>9 DEF NodeReceives
  <2> HIDE DEF d
  <2>3. py'.wait = d.wait /\ (Some(to_store, UpData) => Some(to_store', UpData))
    BY <1>4, <2>1, <2>2
  <2>4. d.wait = py.wait /\ (py.subscribed => p.op # "AN")
    BY <1>2, <2>1, <2>3, PyWaitTypes
  <2>5. Some(to_node, DownAcks)
    BY <1>2, <1>3, <2>3, <2>4
  <2>6. p.op # "AN"
    BY <1>2, <2>3, <2>4 DEF WaitsSubscribed
  <2>7. Some(Tail(to_node), DownAcks)
    BY <1>1, <2>1, <2>5, <2>6, SomeOfTail DEF DownAcks
  <2>8. QED
    BY <1>2, <2>2, <2>7
<1>10. CASE NodeRestart
  BY <1>2, <1>10, PyWaitTypes DEF NodeRestart, Py!NewPyNode
<1>11. CASE StoreReceives
  <2> DEFINE p == Head(to_store)
             c == Fresh(node[a])
             d == node'[a]
  <2>1. Taken(p)
    BY <1>11, StoreTakes
  <2>2. /\ to_store # <<>> /\ p \in Upward /\ p.op \in Py!PyOps /\ p.id[2] \in PktNum
        /\ Received(p.op, p.id[2]) /\ to_store' = Tail(to_store) /\ py' = py
        /\ to_node' = to_node \o Messages(d.out, store_session)
        /\ Good(d) /\ Only(d, ToTheNode) /\ store_session \in Sessions
    BY <2>1, NodeTypes DEF Taken
  <2>3. Some(to_node', DownAcks) <=> Some(to_node, DownAcks) \/ Some(d.out, Acks)
    BY <1>1, <2>2, ControlTopic
  <2>4. Some(to_store, UpData) /\ ~Some(Tail(to_store), UpData)
    BY <1>2, <1>3, <2>2, <2>3
  <2>5. p.op = "DS"
    BY <1>1, <2>2, <2>4, SomeOfTail DEF UpData
  <2>6. d.pkt_num \in Int
    BY <2>2, MaxPktNumAssumption DEF Good, NodeRec, Issued
  <2>7. Ignores(c, d, "DS", p.id[2]) \/ Handles(c, d, "DS", p.id[2])
    BY <2>2, <2>5 DEF Received
  <2>8. Some(d.out, Acks) \/ d.pkt_num > MaxPktNum
    BY <2>7 DEF Ignores, Handles, Answers
  <2>9. Some(d.out, Acks)
    BY <2>6, <2>8, MaxPktNumAssumption
  <2>10. QED
    BY <1>2, <2>3, <2>9
<1>12. CASE (\E fits \in BOOLEAN : StoreSendsData(fits)) \/ StoreBeats \/ StoreTicks
  <2> DEFINE d == node'[a]
  <2>1. Acts
    BY <1>12, StoreActsIs
  <2>2. /\ to_node' = to_node \o Messages(d.out, store_session)
        /\ Good(d) /\ Only(d, ToTheNode) /\ store_session \in Sessions
        /\ to_store' = to_store /\ py' = py
    BY <2>1, NodeTypes DEF Acts
  <2>3. Some(to_node', DownAcks) <=> Some(to_node, DownAcks) \/ Some(d.out, Acks)
    BY <1>1, <2>2, ControlTopic
  <2>4. QED
    BY <1>2, <1>3, <2>2, <2>3
<1>13. CASE Lose
  <2>1. lost' = lost + 1
    BY <1>13 DEF Lose
  <2>2. QED
    BY <1>1, <2>1
<1>14. QED
  BY <1>5, <1>6, <1>7, <1>8, <1>9, <1>10, <1>11, <1>12, <1>13 DEF LinkNext

(***************************************************************************)
(* A mute node stays mute until it is restarted, and says no more          *)
(* (PyNode.publish_pkt, send_data_to_store).                               *)
(***************************************************************************)
THEOREM MuteUntilRestartAlways == LinkSpec => MuteUntilRestart
<1> DEFINE A == Mute /\ node_session' = node_session =>
                  Mute' /\ Len(to_store') <= Len(to_store)
<1>1. LinkInit => LinkTyped
  BY LinkTypedInit
<1>2. LinkTyped /\ [LinkNext]_linkvars => LinkTyped' /\ [A]_linkvars
  BY LinkTypedNext, MuteStays
<1> HIDE DEF A
<1>3. LinkSpec => [][A]_linkvars
  BY <1>1, <1>2, PTL DEF LinkSpec
<1>4. QED
  BY <1>3 DEF MuteUntilRestart, A

(***************************************************************************)
(* A node becomes mute for one of four reasons: the store forgets no       *)
(* answer, and lets no other packet use it up (Node.store_data, the        *)
(* duplicate check of Node.post_data).                                     *)
(***************************************************************************)
THEOREM BecomesMuteForAReasonAlways == LinkSpec => BecomesMuteForAReason
<1> DEFINE A == ~Mute /\ Mute' =>
                  \/ ~sent'
                  \/ lost' > lost
                  \/ a \notin known
                  \/ node'[a].pkt_num > MaxPktNum
           Inv == LinkTyped /\ WaitsSubscribed
<1>1. LinkInit => Inv
  BY LinkTypedInit, WaitsSubscribedInit
<1>2. Inv /\ [LinkNext]_linkvars => Inv'
  BY LinkTypedNext, NextWaitsSubscribed
<1>3. Inv /\ [LinkNext]_linkvars => [A]_linkvars
  <2> SUFFICES ASSUME Inv, [LinkNext]_linkvars, ~Mute, Mute',
                      sent', ~(lost' > lost), a \in known, ~(node'[a].pkt_num > MaxPktNum)
               PROVE  FALSE
    OBVIOUS
  <2>1. LinkTyped' /\ node'[a].pkt_num <= MaxPktNum
    <3>1. LinkTyped'
      BY LinkTypedNext
    <3>2. node'[a].pkt_num \in Int
      BY <3>1, LinkAssumption, MaxPktNumAssumption
      DEF LinkTyped, LinkTypeOK, TypeOK, NodeRec, Issued
    <3>3. QED
      BY <3>1, <3>2, MaxPktNumAssumption
  <2>2. QED
    BY <2>1, MuteHasReason
<1> HIDE DEF A, Inv
<1>4. LinkSpec => [][A]_linkvars
  BY <1>1, <1>2, <1>3, PTL DEF LinkSpec
<1>5. QED
  BY <1>4 DEF BecomesMuteForAReason, A

=============================================================================
