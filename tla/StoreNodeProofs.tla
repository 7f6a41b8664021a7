--------------------------- MODULE StoreNodeProofs ---------------------------
(***************************************************************************)
(* Proofs about StoreNode, for every set of nodes, every set of packets    *)
(* that may arrive and every value of the limits.                          *)
(***************************************************************************)
EXTENDS StoreNode, SequenceTheorems, TLAPS

USE MaxPktNumAssumption, WaitAssumption

(***************************************************************************)
(* The inductive invariant, per node: its record is well typed and its     *)
(* wait is coherent.                                                       *)
(***************************************************************************)
Good(c) == c \in NodeRec /\ WaitCoherent(c)

(***************************************************************************)
(* What most operators do to a record: they send this and that, but leave  *)
(* the wait alone, confirm no data packet, and never take a number back.   *)
(***************************************************************************)
Quietly(c, d) ==
  /\ Good(d)
  /\ d.wait = c.wait
  /\ d.pkt_num >= c.pkt_num
  /\ d.signed = c.signed
  /\ Delivered(d) = Delivered(c)

(***************************************************************************)
(* What the others do: they put a new packet in an empty window, repeat    *)
(* the one in it, empty it upon an acknowledgement or at the resend limit, *)
(* or handle a sign-on.                                                    *)
(***************************************************************************)
NewPacket(c, d, op) ==
  /\ d.wait.pkt \in WaitPkts
  /\ d.wait.pkt.op = op
  /\ d.wait.pkt.num > c.pkt_num
  /\ d.wait.pkt.num <= d.pkt_num
  /\ d.wait.count = 0

Offers(c, d, op) ==
  /\ Good(d)
  /\ NewPacket(c, d, op)
  /\ d.signed = c.signed
  /\ Delivered(d) = Delivered(c)

Retries(c, d) ==
  /\ Good(d)
  /\ c.wait.waiting
  /\ c.wait.count < MAX_RESEND_COUNT
  /\ d.wait.pkt = c.wait.pkt
  /\ d.wait.count = c.wait.count + 1
  /\ d.pkt_num >= c.pkt_num
  /\ d.signed = c.signed
  /\ Delivered(d) = Delivered(c)

Confirms(c, d) ==
  /\ Good(d)
  /\ d.wait = clear_wait
  /\ d.pkt_num >= c.pkt_num
  /\ d.signed = c.signed
  /\ Delivered(d) = Delivered(c) \cup
                      IF c.wait.pkt.op = "DN" THEN {c.wait.pkt.num} ELSE {}

GivesUp(c, d) ==
  /\ Good(d)
  /\ c.wait.waiting
  /\ c.wait.count = MAX_RESEND_COUNT
  /\ d.wait = clear_wait
  /\ d.pkt_num >= c.pkt_num
  /\ d.signed = c.signed
  /\ Delivered(d) = Delivered(c)

SignsOn(c, d) ==
  /\ Good(d)
  /\ d.wait = clear_wait \/ NewPacket(c, d, "SC")
  /\ d.pkt_num >= c.pkt_num
  /\ d.signed
  /\ Delivered(d) = Delivered(c)

LEMMA QuietlyIsReflexive ==
  ASSUME NEW c, Good(c)
  PROVE  Quietly(c, c)
  BY DEF Quietly, Good, NodeRec, Issued

LEMMA QuietlyIsTransitive ==
  ASSUME NEW c, NEW d, NEW e, Good(c), Quietly(c, d), Quietly(d, e)
  PROVE  Quietly(c, e)
  BY DEF Quietly, Good, NodeRec, Issued

\* No operator sets the packet that waits to NoPkt's record and back.
LEMMA NoPktIsNotWaited == NoPkt \notin WaitPkts
  BY DEF NoPkt, WaitPkts

LEMMA ClearWaitType == clear_wait \in Waits
  BY DEF clear_wait, Waits, NoPkt, WaitPkts

\* Nothing elapses while nothing waits.
LEMMA ElapseClear == Elapse(clear_wait) = clear_wait
<1>1. clear_wait.remaining = 0
  BY DEF clear_wait
<1>2. Elapse(clear_wait) = [clear_wait EXCEPT !.remaining = 0]
  BY <1>1 DEF Elapse
<1>3. QED
  BY <1>2 DEF clear_wait

LEMMA AgeTypes ==
  /\ 0 \in TxAges /\ -1 \in TxAges
  /\ 0 \in Ages /\ NodeMaxSilence \in Ages
  BY StoreNodeAssumption DEF Ages, TxAges

----------------------------------------------------------------------------
(* Sending.                                                                *)

LEMMA EmitIsGood ==
  ASSUME NEW c, Good(c),
         NEW kind \in {"publish", "insert", "public"},
         NEW op \in {"DN", "GS", "SC", "AN", "DS"},
         NEW num \in PktNum, NEW resend \in BOOLEAN
  PROVE  Good(Emit(c, kind, op, num, resend))
<1> DEFINE e == [kind |-> kind, op |-> op, num |-> num, resend |-> resend]
           d == [c EXCEPT !.out = Append(c.out, e)]
<1>1. c \in NodeRec
  BY DEF Good
<1>2. e \in Effects
  BY DEF Effects
<1>3. Append(c.out, e) \in Seq(Effects)
  BY <1>1, <1>2 DEF NodeRec
<1>4. d \in NodeRec /\ d.wait = c.wait /\ d.pkt_num = c.pkt_num
  <2> HIDE DEF e
  <2> QED BY <1>1, <1>3 DEF NodeRec
<1>5. WaitCoherent(d)
  BY <1>4 DEF Good, WaitCoherent
<1>6. QED
  BY <1>4, <1>5 DEF Emit, Good

LEMMA EmitDelivers ==
  ASSUME NEW c, Good(c),
         NEW kind \in {"publish", "insert", "public"},
         NEW op \in {"DN", "GS", "SC", "AN", "DS"},
         NEW num \in PktNum, NEW resend \in BOOLEAN
  PROVE  Delivered(Emit(c, kind, op, num, resend)) =
           Delivered(c) \cup IF kind = "insert" /\ op = "DN" THEN {num} ELSE {}
<1> DEFINE d == Emit(c, kind, op, num, resend)
           e == [kind |-> kind, op |-> op, num |-> num, resend |-> resend]
<1>1. c.out \in Seq(Effects) /\ e \in Effects
  BY DEF Good, NodeRec, Effects
<1>2. d.out = Append(c.out, e)
  BY DEF Emit, Good, NodeRec
<1>3. /\ Len(d.out) = Len(c.out) + 1
      /\ d.out[Len(c.out) + 1] = e
      /\ \A i \in 1 .. Len(c.out) : d.out[i] = c.out[i]
      /\ Len(c.out) \in Nat
  BY <1>1, <1>2
<1>4. DOMAIN d.out = 1 .. Len(c.out) + 1 /\ DOMAIN c.out = 1 .. Len(c.out)
  BY <1>1, <1>2, <1>3
<1>5. QED
  BY <1>3, <1>4 DEF Delivered

LEMMA EmitIsQuiet ==
  ASSUME NEW c, Good(c),
         NEW kind \in {"publish", "insert", "public"},
         NEW op \in {"DN", "GS", "SC", "AN", "DS"},
         NEW num \in PktNum, NEW resend \in BOOLEAN,
         ~(kind = "insert" /\ op = "DN")
  PROVE  Quietly(c, Emit(c, kind, op, num, resend))
<1> DEFINE d == Emit(c, kind, op, num, resend)
<1>1. Good(d)
  BY EmitIsGood
<1>2. Delivered(d) = Delivered(c)
  BY EmitDelivers
<1>3. /\ d.wait = c.wait /\ d.signed = c.signed
      /\ d.pkt_num = c.pkt_num /\ c.pkt_num \in Int
  BY DEF Emit, Good, NodeRec, Issued
<1>4. QED
  BY <1>1, <1>2, <1>3 DEF Quietly

LEMMA ConstructIsQuiet ==
  ASSUME NEW c, Good(c)
  PROVE  /\ Quietly(c, Construct(c))
         /\ ~Construct(c).raised => /\ Construct(c).pkt_num \in PktNum
                                   /\ Construct(c).pkt_num > c.pkt_num
         /\ c.raised => Construct(c).raised
<1>1. CASE c.raised
  BY <1>1, QuietlyIsReflexive DEF Construct
<1>2. CASE ~c.raised /\ c.pkt_num >= MaxPktNum
  <2> DEFINE d == [c EXCEPT !.pkt_num = MaxPktNum + 1, !.raised = TRUE]
  <2>1. c \in NodeRec /\ Construct(c) = d
    BY <1>2 DEF Construct, Good
  <2>2. MaxPktNum + 1 \in Issued /\ c.pkt_num \in Issued
    BY <2>1 DEF NodeRec, Issued
  <2>3. /\ d \in NodeRec /\ d.wait = c.wait /\ d.pkt_num = MaxPktNum + 1
        /\ d.signed = c.signed /\ d.out = c.out /\ d.raised
    BY <2>1, <2>2 DEF NodeRec
  <2>4. d.pkt_num >= c.pkt_num
    BY <2>2, <2>3 DEF Issued
  <2>5. WaitCoherent(d)
    BY <2>2, <2>3, <2>4 DEF Good, WaitCoherent, Issued, WaitPkts, PktNum
  <2>6. QED
    BY <1>2, <2>1, <2>3, <2>4, <2>5 DEF Quietly, Good, Delivered
<1>3. CASE ~c.raised /\ ~(c.pkt_num >= MaxPktNum)
  <2> DEFINE d == [c EXCEPT !.pkt_num = c.pkt_num + 1]
  <2>1. c \in NodeRec /\ Construct(c) = d
    BY <1>3 DEF Construct, Good
  <2>2. c.pkt_num \in Issued
    BY <2>1 DEF NodeRec
  <2>3. c.pkt_num + 1 \in Issued /\ c.pkt_num + 1 \in PktNum
    BY <1>3, <2>2 DEF Issued, PktNum
  <2>4. /\ d \in NodeRec /\ d.wait = c.wait /\ d.pkt_num = c.pkt_num + 1
        /\ d.signed = c.signed /\ d.out = c.out
    BY <2>1, <2>3 DEF NodeRec
  <2>5. WaitCoherent(d)
    BY <2>2, <2>4 DEF Good, WaitCoherent, Issued, WaitPkts, PktNum
  <2>6. QED
    BY <1>3, <2>1, <2>2, <2>3, <2>4, <2>5 DEF Quietly, Good, Delivered, Issued
<1>4. QED
  BY <1>1, <1>2, <1>3

\* Changing fields the window is not about keeps a record good.
LEMMA OtherFields ==
  ASSUME NEW c, NEW d, Good(c), d \in NodeRec,
         d.wait = c.wait, d.pkt_num = c.pkt_num, d.signed = c.signed, d.out = c.out
  PROVE  Quietly(c, d)
  BY DEF Quietly, Good, WaitCoherent, Delivered, NodeRec, Issued

LEMMA SavedType ==
  ASSUME NEW via \in Seq(Slids), NEW cfg \in SUBSET Defects
  PROVE  Saved(via, cfg) \in [via : Seq(Slids), cfg : SUBSET Defects]
<1>1. cfg \ {"version"} \in SUBSET Defects
  OBVIOUS
<1>2. QED
  BY <1>1 DEF Saved

\* Writing the database record changes nothing else.
LEMMA UpdateIsQuiet ==
  ASSUME NEW c, Good(c)
  PROVE  LET d == update(c)
         IN  /\ Quietly(c, d) /\ Good(d)
             /\ d.state = c.state /\ d.via = c.via /\ d.rx = c.rx /\ d.tx = c.tx
             /\ d.wait = c.wait /\ d.cfg = c.cfg /\ d.pkt_num = c.pkt_num
             /\ d.last_packet_num = c.last_packet_num
             /\ d.out = c.out /\ d.raised = c.raised /\ d.signed = c.signed
<1> DEFINE s == Saved(c.via, c.cfg)
           d == [c EXCEPT !.saved = s]
<1>1. c \in NodeRec /\ s \in [via : Seq(Slids), cfg : SUBSET Defects]
  BY SavedType DEF Good, NodeRec
<1> HIDE DEF s
<1>2. /\ d \in NodeRec
      /\ d.state = c.state /\ d.via = c.via /\ d.rx = c.rx /\ d.tx = c.tx
      /\ d.wait = c.wait /\ d.cfg = c.cfg /\ d.pkt_num = c.pkt_num
      /\ d.last_packet_num = c.last_packet_num
      /\ d.out = c.out /\ d.raised = c.raised /\ d.signed = c.signed
  BY <1>1 DEF NodeRec
<1>3. update(c) = IF c.raised THEN c ELSE d
  BY DEF update, s
<1> HIDE DEF d
<1>4. Quietly(c, d) /\ Quietly(c, c)
  BY <1>2, OtherFields, QuietlyIsReflexive
<1>5. QED
  BY <1>2, <1>3, <1>4 DEF Quietly

LEMMA PublishIsQuiet ==
  ASSUME NEW c, Good(c), NEW pkt, NEW resend \in BOOLEAN,
         pkt.op \in StoreOps, pkt.fits \in BOOLEAN,
         ~c.raised => pkt.num \in PktNum
  PROVE  /\ Quietly(c, publish_pkt(c, pkt, resend))
         /\ publish_pkt(c, pkt, resend).pkt_num = c.pkt_num
         /\ publish_pkt(c, pkt, resend).raised = c.raised
<1> DEFINE skipped == \/ c.raised
                      \/ ~resend /\ is_waiting(c) /\ pkt.op # "AN"
                      \/ ~pkt.fits
           e == Emit(c, "publish", pkt.op, pkt.num, resend)
           d == [e EXCEPT !.tx = 0]
           u == update(d)
<1>1. CASE skipped
  BY <1>1, QuietlyIsReflexive DEF publish_pkt
<1>2. CASE ~skipped
  <2>1. publish_pkt(c, pkt, resend) = u
    BY <1>2 DEF publish_pkt
  <2>2. Quietly(c, e) /\ Good(e)
    <3>1. pkt.op \in {"DN", "GS", "SC", "AN", "DS"} /\ pkt.num \in PktNum
      BY <1>2 DEF StoreOps
    <3>2. Quietly(c, Emit(c, "publish", pkt.op, pkt.num, resend))
      BY <3>1, EmitIsQuiet
    <3>3. QED
      BY <3>2 DEF Quietly
  <2>5. e.raised = c.raised /\ e.pkt_num = c.pkt_num
    BY DEF Emit, Good, NodeRec
  <2>6. /\ d \in NodeRec /\ d.wait = e.wait /\ d.pkt_num = e.pkt_num
        /\ d.signed = e.signed /\ d.out = e.out /\ d.raised = e.raised
    <3>1. e \in NodeRec
      BY <2>2 DEF Good
    <3> HIDE DEF e
    <3>2. QED
      BY <3>1, AgeTypes DEF NodeRec
  <2>7. Quietly(e, d)
    <3> HIDE DEF d
    <3> QED BY <2>2, <2>6, OtherFields
  <2>8. Quietly(c, d) /\ Good(d)
    <3> HIDE DEF d, e
    <3> QED BY <2>2, <2>7, QuietlyIsTransitive DEF Quietly
  <2>9. Quietly(d, u) /\ u.pkt_num = d.pkt_num /\ u.raised = d.raised
    <3> HIDE DEF d
    <3> QED BY <2>8, UpdateIsQuiet
  <2>10. Quietly(c, u)
    <3> HIDE DEF d, u
    <3> QED BY <2>8, <2>9, QuietlyIsTransitive
  <2>11. QED
    BY <2>1, <2>2, <2>5, <2>6, <2>9, <2>10
<1>3. QED
  BY <1>1, <1>2

LEMMA SendShortIsQuiet ==
  ASSUME NEW c, Good(c), NEW op \in {"GS", "AN"}
  PROVE  Quietly(c, SendShort(c, op))
<1> DEFINE d == Construct(c)
           p == PktOf(d, op, TRUE)
<1>1. Quietly(c, d) /\ Good(d) /\ (~d.raised => d.pkt_num \in PktNum)
  BY ConstructIsQuiet DEF Quietly
<1>2. p.op \in StoreOps /\ p.fits \in BOOLEAN /\ p.num = d.pkt_num
  BY DEF PktOf, StoreOps
<1>3. Quietly(d, publish_pkt(d, p, FALSE))
  <2> HIDE DEF d, p
  <2> QED BY <1>1, <1>2, PublishIsQuiet
<1>4. QED
  <2>1. SendShort(c, op) = publish_pkt(d, p, FALSE)
    BY DEF SendShort
  <2> HIDE DEF d, p
  <2> QED BY <1>1, <1>3, <2>1, QuietlyIsTransitive

LEMMA SetStateIsQuiet ==
  ASSUME NEW c, Good(c), NEW new \in States
  PROVE  Quietly(c, set_state(c, new))
<1> DEFINE d == [c EXCEPT !.state = new]
<1>1. CASE c.raised
  BY <1>1, QuietlyIsReflexive DEF set_state
<1>2. CASE ~c.raised
  <2>1. /\ d \in NodeRec /\ d.wait = c.wait /\ d.pkt_num = c.pkt_num
        /\ d.signed = c.signed /\ d.out = c.out
    BY DEF Good, NodeRec
  <2>2. Quietly(c, d) /\ Good(d)
    <3> HIDE DEF d
    <3> QED BY <2>1, OtherFields DEF Quietly
  <2>3. Quietly(d, SendShort(d, "GS"))
    <3> HIDE DEF d
    <3> QED BY <2>2, SendShortIsQuiet
  <2> DEFINE e == IF new = "TRANSMITTING" THEN SendShort(d, "GS") ELSE d
  <2>4. set_state(c, new) = update(e)
    BY <1>2 DEF set_state, send_get_status
  <2>5. Quietly(c, e) /\ Good(e)
    <3> HIDE DEF d
    <3> QED BY <2>2, <2>3, QuietlyIsTransitive DEF Quietly
  <2>6. Quietly(e, update(e))
    <3> HIDE DEF e
    <3> QED BY <2>5, UpdateIsQuiet
  <2>7. QED
    <3> HIDE DEF e
    <3> QED BY <2>4, <2>5, <2>6, QuietlyIsTransitive
<1>3. QED
  BY <1>1, <1>2

----------------------------------------------------------------------------
(* The window.                                                             *)

\* A quiet operation before or after does not change what was done.
LEMMA ThenQuietly ==
  ASSUME NEW c, NEW d, NEW e, Good(c), Good(d), Quietly(d, e)
  PROVE  /\ \A op : Offers(c, d, op) => Offers(c, e, op)
         /\ Retries(c, d) => Retries(c, e)
         /\ Confirms(c, d) => Confirms(c, e)
         /\ GivesUp(c, d) => GivesUp(c, e)
         /\ SignsOn(c, d) => SignsOn(c, e)
<1>1. /\ c.pkt_num \in Int /\ d.pkt_num \in Int /\ e.pkt_num \in Int
      /\ d.wait.pkt \in WaitPkts => d.wait.pkt.num \in Int
  BY DEF Good, Quietly, NodeRec, Issued, WaitPkts, PktNum
<1>2. \A op : NewPacket(c, d, op) => NewPacket(c, e, op)
  BY <1>1 DEF Quietly, NewPacket
<1>3. \A op : Offers(c, d, op) => Offers(c, e, op)
  BY <1>2 DEF Quietly, Offers
<1>4. Retries(c, d) => Retries(c, e)
  BY <1>1 DEF Quietly, Retries
<1>5. Confirms(c, d) => Confirms(c, e)
  BY <1>1 DEF Quietly, Confirms
<1>6. GivesUp(c, d) => GivesUp(c, e)
  BY <1>1 DEF Quietly, GivesUp
<1>7. SignsOn(c, d) => SignsOn(c, e)
  BY <1>1, <1>2 DEF Quietly, SignsOn
<1>8. QED
  BY <1>3, <1>4, <1>5, <1>6, <1>7

LEMMA SetWaitType ==
  ASSUME NEW pkt \in WaitPkts, NEW b \in BOOLEAN
  PROVE  set_wait(pkt, b) \in Waits
  BY DEF set_wait, Waits

LEMMA SendAndWaitOffers ==
  ASSUME NEW c, Good(c), NEW op \in {"DN", "SC"}, NEW fits \in BOOLEAN
  PROVE  \/ Quietly(c, SendAndWait(c, op, fits))
         \/ Offers(c, SendAndWait(c, op, fits), op)
<1> DEFINE d == Construct(c)
           p == PktOf(d, op, fits)
           e == publish_pkt(d, p, FALSE)
           w == set_wait(p, op = "DN")
           f == [e EXCEPT !.wait = w]
<1>1. /\ Quietly(c, d) /\ Good(d)
      /\ ~d.raised => d.pkt_num \in PktNum /\ d.pkt_num > c.pkt_num
  BY ConstructIsQuiet DEF Quietly
<1>2. SendAndWait(c, op, fits) = IF d.raised THEN d ELSE f
  BY DEF SendAndWait
<1>3. CASE d.raised
  BY <1>1, <1>2, <1>3
<1>4. CASE ~d.raised
  <2>1. p \in WaitPkts /\ p.num = d.pkt_num /\ p.op = op /\ p.fits \in BOOLEAN
    BY <1>1, <1>4 DEF PktOf, WaitPkts
  <2>2. p.op \in StoreOps /\ p.num \in PktNum
    BY <1>1, <1>4, <2>1 DEF StoreOps
  <2> HIDE DEF d, p
  <2>3. Quietly(d, e) /\ e.pkt_num = d.pkt_num
    BY <1>1, <2>1, <2>2, PublishIsQuiet
  <2>4. Quietly(c, e) /\ e \in NodeRec
    BY <1>1, <2>3, QuietlyIsTransitive DEF Quietly, Good
  <2>5. w \in Waits
    BY <2>1, SetWaitType
  <2>6. /\ w.waiting /\ w.pkt = p /\ w.count = 0 /\ w.do_insert = (op = "DN")
    BY DEF set_wait
  <2> HIDE DEF e, w
  <2>7. /\ f \in NodeRec /\ f.wait = w /\ f.pkt_num = e.pkt_num
        /\ f.signed = e.signed /\ f.out = e.out
    BY <2>4, <2>5 DEF NodeRec
  <2>8. d.pkt_num \in Int
    BY <1>1, <1>4 DEF PktNum
  <2>9. WaitCoherent(f)
    <3>1. f.wait.pkt = p /\ f.wait.waiting /\ f.pkt_num = d.pkt_num
      BY <2>3, <2>6, <2>7
    <3>2. f.wait.do_insert <=> p.op = "DN"
      BY <2>1, <2>6, <2>7
    <3>3. f.wait.pkt.num <= f.pkt_num
      BY <2>1, <2>8, <3>1
    <3>4. QED
      BY <2>1, <3>1, <3>2, <3>3 DEF WaitCoherent
  <2>10. NewPacket(c, f, op)
    BY <1>1, <1>4, <2>1, <2>3, <2>6, <2>7, <2>8 DEF NewPacket
  <2>11. Delivered(f) = Delivered(c) /\ f.signed = c.signed
    <3>1. Delivered(f) = Delivered(e)
      BY <2>7 DEF Delivered
    <3>2. QED
      BY <2>4, <2>7, <3>1 DEF Quietly
  <2>12. Offers(c, f, op)
    BY <2>7, <2>9, <2>10, <2>11 DEF Offers, Good
  <2>13. QED
    BY <1>2, <1>4, <2>12
<1>5. QED
  BY <1>3, <1>4

LEMMA SendDataOffers ==
  ASSUME NEW c, Good(c), NEW fits \in BOOLEAN
  PROVE  \/ Quietly(c, send_data_to_node(c, fits))
         \/ ~c.wait.waiting /\ Offers(c, send_data_to_node(c, fits), "DN")
<1>1. CASE MaySend(c)
  BY <1>1, SendAndWaitOffers DEF send_data_to_node, MaySend, is_waiting
<1>2. CASE ~MaySend(c)
  BY <1>2, QuietlyIsReflexive DEF send_data_to_node
<1>3. QED
  BY <1>1, <1>2

LEMMA SendSetConfigOffers ==
  ASSUME NEW c, Good(c)
  PROVE  \/ Quietly(c, send_set_config(c))
         \/ ~c.wait.waiting /\ Offers(c, send_set_config(c), "SC")
<1> DEFINE d == [c EXCEPT !.raised = TRUE]
<1>1. CASE MaySend(c) /\ c.cfg = {}
  BY <1>1, SendAndWaitOffers DEF send_set_config, MaySend, is_waiting
<1>2. CASE MaySend(c) /\ c.cfg # {}
  <2>1. /\ d \in NodeRec /\ d.wait = c.wait /\ d.pkt_num = c.pkt_num
        /\ d.signed = c.signed /\ d.out = c.out
    BY DEF Good, NodeRec
  <2>2. send_set_config(c) = d
    BY <1>2 DEF send_set_config
  <2> HIDE DEF d
  <2>3. QED
    BY <2>1, <2>2, OtherFields
<1>3. CASE ~MaySend(c)
  BY <1>3, QuietlyIsReflexive DEF send_set_config
<1>4. QED
  BY <1>1, <1>2, <1>3

LEMMA SignOnSignsOn ==
  ASSUME NEW c, Good(c)
  PROVE  SignsOn(c, SignOn(c))
<1> DEFINE d == [c EXCEPT !.wait = clear_wait, !.cfg = @ \ {"max_silence", "slid"}, !.signed = TRUE]
           e == send_set_config(d)
           f == set_state(e, "ONLINE")
<1>1. c \in NodeRec /\ c.pkt_num \in Int
  BY DEF Good, NodeRec, Issued
<1>2. /\ d \in NodeRec /\ d.wait = clear_wait /\ d.pkt_num = c.pkt_num
      /\ d.signed /\ d.out = c.out
  BY <1>1, ClearWaitType DEF NodeRec
<1>3. SignOn(c) = f
  BY DEF SignOn
<1> HIDE DEF d
<1>4. Good(d)
  BY <1>2 DEF Good, WaitCoherent, clear_wait
<1>5. Delivered(d) = Delivered(c)
  BY <1>2 DEF Delivered
<1>6. SignsOn(c, d)
  BY <1>1, <1>2, <1>4, <1>5 DEF SignsOn
<1>7. Good(e) /\ SignsOn(c, e)
  <2>1. CASE Quietly(d, e)
    BY <1>4, <1>6, <2>1, ThenQuietly DEF Quietly
  <2>2. CASE Offers(d, e, "SC")
    <3>1. NewPacket(c, e, "SC")
      BY <1>2, <2>2 DEF Offers, NewPacket
    <3>2. e.pkt_num >= c.pkt_num
      BY <1>1, <1>2, <2>2, <3>1 DEF Offers, NewPacket, Good, NodeRec, Issued, WaitPkts, PktNum
    <3>3. QED
      BY <1>2, <1>5, <2>2, <3>1, <3>2 DEF Offers, SignsOn
  <2>3. QED
    BY <1>4, <2>1, <2>2, SendSetConfigOffers
<1> HIDE DEF e
<1>8. "ONLINE" \in States
  BY DEF States, CodeStates
<1>9. Quietly(e, f)
  BY <1>7, <1>8, SetStateIsQuiet
<1>10. QED
  BY <1>3, <1>7, <1>9, ThenQuietly

LEMMA AcknowledgedConfirms ==
  ASSUME NEW c, Good(c)
  PROVE  Confirms(c, Acknowledged(c))
<1> DEFINE d == [c EXCEPT !.wait = clear_wait]
           pkt == Stopped(c.wait)
           e == Emit(d, "insert", pkt.op, pkt.num, FALSE)
<1>1. c \in NodeRec /\ c.pkt_num \in Int
  BY DEF Good, NodeRec, Issued
<1>2. /\ d \in NodeRec /\ d.wait = clear_wait /\ d.pkt_num = c.pkt_num
      /\ d.signed = c.signed /\ d.out = c.out
  BY <1>1, ClearWaitType DEF NodeRec
<1>3. Acknowledged(c) = IF pkt = NoPkt THEN d ELSE e
  BY DEF Acknowledged
<1> HIDE DEF d
<1>4. Good(d)
  BY <1>2 DEF Good, WaitCoherent, clear_wait
<1>5. Delivered(d) = Delivered(c)
  BY <1>2 DEF Delivered
<1>6. CASE c.wait.waiting /\ c.wait.do_insert
  <2>1. /\ pkt = c.wait.pkt /\ pkt \in WaitPkts /\ pkt.op = "DN"
        /\ pkt.num \in PktNum /\ pkt # NoPkt
    BY <1>6, NoPktIsNotWaited DEF Good, WaitCoherent, Stopped, WaitPkts
  <2> HIDE DEF pkt
  <2>2. Good(e)
    BY <1>4, <2>1, EmitIsGood
  <2>3. Delivered(e) = Delivered(d) \cup {pkt.num}
    <3>1. Delivered(Emit(d, "insert", "DN", pkt.num, FALSE)) = Delivered(d) \cup {pkt.num}
      BY <1>4, <2>1, EmitDelivers
    <3>2. QED
      BY <2>1, <3>1
  <2>4. /\ e.wait = d.wait /\ e.pkt_num = d.pkt_num /\ e.signed = d.signed
    BY <1>2 DEF Emit, NodeRec
  <2> HIDE DEF e
  <2>5. Confirms(c, e)
    <3>1. e.wait = clear_wait /\ e.pkt_num >= c.pkt_num /\ e.signed = c.signed
      BY <1>1, <1>2, <2>4
    <3>2. Delivered(e) = Delivered(c) \cup
                           IF c.wait.pkt.op = "DN" THEN {c.wait.pkt.num} ELSE {}
      BY <1>5, <2>1, <2>3
    <3>3. QED
      BY <2>2, <3>1, <3>2 DEF Confirms
  <2>6. QED
    BY <1>3, <2>1, <2>5
<1>7. CASE ~(c.wait.waiting /\ c.wait.do_insert)
  <2>1. c.wait.pkt.op # "DN" /\ ~c.wait.do_insert
    BY <1>7 DEF Good, WaitCoherent, clear_wait, NoPkt
  <2>2. pkt = NoPkt
    BY <2>1 DEF Stopped
  <2>3. Confirms(c, d)
    BY <1>1, <1>2, <1>4, <1>5, <2>1 DEF Confirms
  <2>4. QED
    BY <1>3, <2>2, <2>3
<1>8. QED
  BY <1>6, <1>7

----------------------------------------------------------------------------
(* Receiving.                                                              *)

LEMMA StoreDataIsQuiet ==
  ASSUME NEW c, Good(c), NEW num \in PktNum
  PROVE  Quietly(c, store_data(c, num))
<1> DEFINE d == Emit(c, "insert", "DS", num, FALSE)
           e == SendShort(d, "AN")
           f == Emit(e, "public", "DS", num, FALSE)
<1>1. store_data(c, num) = IF e.raised THEN e ELSE f
  BY DEF store_data, send_ack_to_node
<1>2. Quietly(c, d) /\ Good(d)
  BY EmitIsQuiet DEF Quietly
<1> HIDE DEF d
<1>3. Quietly(d, e) /\ Good(e)
  BY <1>2, SendShortIsQuiet DEF Quietly
<1> HIDE DEF e
<1>4. Quietly(e, f)
  BY <1>3, EmitIsQuiet
<1> HIDE DEF f
<1>5. QED
  BY <1>1, <1>2, <1>3, <1>4, QuietlyIsTransitive

\* The packets that may arrive are as StoreNodeAssumption says.
LEMMA InboundTypes ==
  ASSUME NEW p \in Inbound
  PROVE  /\ p.slid \in Slids /\ p.op \in NodeOps /\ p.num \in PktNum
         /\ p.via \in Seq(Slids)
         /\ p.op = "SS" => p.arg \in States
  BY StoreNodeAssumption DEF Packets, States

Settles(c, d) == Quietly(c, d) \/ Confirms(c, d) \/ SignsOn(c, d)

LEMMA OpBranchSettles ==
  ASSUME NEW c, Good(c), NEW p \in Inbound
  PROVE  Settles(c, OpBranch(c, p))
<1> DEFINE d == [c EXCEPT !.raised = TRUE]
<1>1. /\ p.op \in NodeOps /\ p.num \in PktNum
      /\ p.op = "SS" => p.arg \in States
  BY InboundTypes
<1>2. Quietly(c, d)
  <2>1. /\ d \in NodeRec /\ d.wait = c.wait /\ d.pkt_num = c.pkt_num
        /\ d.signed = c.signed /\ d.out = c.out
    BY DEF Good, NodeRec
  <2> HIDE DEF d
  <2>2. QED
    BY <2>1, OtherFields
<1> HIDE DEF d
<1>3. CASE p.op = "RC"
  <2>1. OpBranch(c, p) = SignOn(c)
    BY <1>3 DEF OpBranch
  <2>2. QED
    BY <2>1, SignOnSignsOn DEF Settles
<1>4. CASE p.op = "OF"
  <2>1. OpBranch(c, p) = set_state(c, "OFFLINE") /\ "OFFLINE" \in States
    BY <1>4 DEF OpBranch, States, CodeStates
  <2>2. QED
    BY <2>1, SetStateIsQuiet DEF Settles
<1>5. CASE p.op = "DS"
  <2>1. OpBranch(c, p) = store_data(c, p.num)
    BY <1>5 DEF OpBranch
  <2>2. QED
    BY <1>1, <2>1, StoreDataIsQuiet DEF Settles
<1>6. CASE p.op = "SS"
  <2>1. OpBranch(c, p) = set_state(c, p.arg) /\ p.arg \in States
    BY <1>1, <1>6 DEF OpBranch
  <2>2. QED
    BY <2>1, SetStateIsQuiet DEF Settles
<1>7. CASE p.op = "AS"
  <2>1. OpBranch(c, p) = IF p.arg = "known" THEN Acknowledged(c) ELSE d
    BY <1>7 DEF OpBranch, d
  <2>2. QED
    BY <1>2, <2>1, AcknowledgedConfirms DEF Settles
<1>8. CASE p.op = "TR"
  <2>1. OpBranch(c, p) = IF p.arg = "raises" THEN d ELSE c
    BY <1>8 DEF OpBranch, d
  <2>2. QED
    BY <1>2, <2>1, QuietlyIsReflexive DEF Settles
<1>9. CASE p.op \in {"Other", "Control"}
  <2>1. OpBranch(c, p) = c
    BY <1>9 DEF OpBranch
  <2>2. QED
    BY <2>1, QuietlyIsReflexive DEF Settles
<1>10. QED
  BY <1>1, <1>3, <1>4, <1>5, <1>6, <1>7, <1>8, <1>9 DEF NodeOps

LEMMA HeardIsQuiet ==
  ASSUME NEW c, Good(c)
  PROVE  /\ Quietly(c, MarkHeard(c))
         /\ Quietly(c, Bridged(c))
<1> DEFINE d == [c EXCEPT !.rx = 0]
           e == set_state(d, "TRANSMITTING")
<1>1. Quietly(c, d) /\ Good(d)
  <2>1. /\ d \in NodeRec /\ d.wait = c.wait /\ d.pkt_num = c.pkt_num
        /\ d.signed = c.signed /\ d.out = c.out
    BY AgeTypes DEF Good, NodeRec
  <2> HIDE DEF d
  <2>2. QED
    BY <2>1, OtherFields DEF Quietly
<1> DEFINE f == IF ~is_offline(d) /\ ~is_state_up(d) THEN e ELSE d
<1>2. /\ MarkHeard(c) = update(f)
      /\ Bridged(c) = IF is_state_up(d) THEN update(d) ELSE e
  BY DEF MarkHeard, Bridged
<1> HIDE DEF d
<1>3. Quietly(d, e)
  <2>1. "TRANSMITTING" \in States
    BY DEF States, CodeStates
  <2>2. QED
    BY <1>1, <2>1, SetStateIsQuiet
<1> HIDE DEF e
<1>4. Quietly(c, e) /\ Quietly(c, f) /\ Good(f)
  BY <1>1, <1>3, QuietlyIsTransitive DEF Quietly
<1>5. Quietly(d, update(d)) /\ Quietly(f, update(f))
  <2> HIDE DEF f
  <2> QED BY <1>1, <1>4, UpdateIsQuiet
<1>6. Quietly(c, update(d)) /\ Quietly(c, update(f))
  <2> HIDE DEF f
  <2> QED BY <1>1, <1>4, <1>5, QuietlyIsTransitive
<1>7. QED
  <2> HIDE DEF f
  <2> QED BY <1>2, <1>4, <1>6

\* Whatever happens to the number seen last, it stays in its range.
LEMMA LastPacketNumIsQuiet ==
  ASSUME NEW c, Good(c), NEW num \in PktNum
  PROVE  Quietly(c, [c EXCEPT !.last_packet_num = LastAfter(c.last_packet_num, num)])
<1> DEFINE l == LastAfter(c.last_packet_num, num)
           d == [c EXCEPT !.last_packet_num = l]
<1>1. l \in LastSeen
  BY DEF LastAfter, LastSeen, PktNum
<1> HIDE DEF l
<1>2. /\ d \in NodeRec /\ d.wait = c.wait /\ d.pkt_num = c.pkt_num
      /\ d.signed = c.signed /\ d.out = c.out
  BY <1>1 DEF Good, NodeRec
<1>3. Quietly(c, d)
  <2> HIDE DEF d
  <2> QED BY <1>2, OtherFields
<1>4. QED
  BY <1>3 DEF l

LEMMA AfterQuietly ==
  ASSUME NEW c, NEW d, NEW e, Good(c), Quietly(c, d), Settles(d, e)
  PROVE  Settles(c, e)
<1>1. Good(d) /\ c.pkt_num \in Int /\ d.pkt_num \in Int
  BY DEF Good, Quietly, NodeRec, Issued
<1>2. CASE Quietly(d, e)
  BY <1>1, <1>2, QuietlyIsTransitive DEF Settles
<1>3. CASE Confirms(d, e)
  <2>1. e.pkt_num \in Int
    BY <1>3 DEF Confirms, Good, NodeRec, Issued
  <2>2. Confirms(c, e)
    BY <1>1, <1>3, <2>1 DEF Quietly, Confirms
  <2>3. QED
    BY <2>2 DEF Settles
<1>4. CASE SignsOn(d, e)
  <2>1. e.pkt_num \in Int
    BY <1>4 DEF SignsOn, Good, NodeRec, Issued
  <2>2. NewPacket(d, e, "SC") => NewPacket(c, e, "SC")
    BY <1>1 DEF Quietly, NewPacket, WaitPkts, PktNum
  <2>3. SignsOn(c, e)
    BY <1>1, <1>4, <2>1, <2>2 DEF Quietly, SignsOn
  <2>4. QED
    BY <2>3 DEF Settles
<1>5. QED
  BY <1>2, <1>3, <1>4 DEF Settles

LEMMA AcceptSettles ==
  ASSUME NEW c, Good(c), NEW p \in Inbound, NEW lost \in BOOLEAN
  PROVE  Settles(c, Accept(c, p, lost))
<1> DEFINE num == [c EXCEPT !.last_packet_num = LastAfter(c.last_packet_num, p.num)]
           r == [num EXCEPT !.via = p.via]
           d == OpBranch(r, p)
           e == MarkHeard(d)
<1>1. Accept(c, p, lost) = IF lost THEN num
                           ELSE IF d.raised \/ ReturnsEarly(p) THEN d ELSE e
  BY DEF Accept
<1>2. Quietly(c, num) /\ Good(num)
  BY InboundTypes, LastPacketNumIsQuiet DEF Quietly
<1> HIDE DEF num
<1>3. Quietly(num, r)
  <2>1. /\ r \in NodeRec /\ r.wait = num.wait /\ r.pkt_num = num.pkt_num
        /\ r.signed = num.signed /\ r.out = num.out
    BY <1>2, InboundTypes DEF Good, NodeRec
  <2> HIDE DEF r
  <2>2. QED
    BY <1>2, <2>1, OtherFields
<1> HIDE DEF r
<1>4. Quietly(c, r) /\ Good(r)
  BY <1>2, <1>3, QuietlyIsTransitive DEF Quietly
<1>5. Settles(c, d)
  BY <1>4, OpBranchSettles, AfterQuietly
<1>6. Good(d)
  BY <1>5 DEF Settles, Quietly, Confirms, SignsOn
<1> HIDE DEF d
<1>7. Quietly(d, e)
  BY <1>6, HeardIsQuiet
<1> HIDE DEF e
<1>8. Settles(c, e)
  BY <1>5, <1>6, <1>7, ThenQuietly, QuietlyIsTransitive DEF Settles
<1>9. QED
  BY <1>1, <1>2, <1>5, <1>8 DEF Settles

LEMMA DuplicateIsQuiet ==
  ASSUME NEW c, Good(c), NEW p \in Inbound
  PROVE  Quietly(c, Duplicate(c, p))
<1> DEFINE d == [c EXCEPT !.last_packet_num = LastAfter(c.last_packet_num, p.num)]
           e == SendShort(d, "AN")
<1>1. Duplicate(c, p) = IF p.op \in OPS_need_ack THEN e ELSE d
  BY DEF Duplicate, send_ack_to_node
<1>2. Quietly(c, d) /\ Good(d)
  BY InboundTypes, LastPacketNumIsQuiet DEF Quietly
<1> HIDE DEF d
<1>3. Quietly(d, e)
  BY <1>2, SendShortIsQuiet
<1> HIDE DEF e
<1>4. QED
  BY <1>1, <1>2, <1>3, QuietlyIsTransitive

----------------------------------------------------------------------------
(* The heartbeat.                                                          *)

Beats(c, d) == Quietly(c, d) \/ Retries(c, d) \/ GivesUp(c, d)

LEMMA CheckForASBeats ==
  ASSUME NEW c, Good(c)
  PROVE  Beats(c, periodic_check_for_AS(c))
<1>1. c \in NodeRec /\ c.wait \in Waits /\ c.wait.count \in 0 .. MAX_RESEND_COUNT
      /\ c.pkt_num \in Int
  BY DEF Good, NodeRec, Waits, Issued
<1>2. CASE ~Expired(c.wait)
  BY <1>2, QuietlyIsReflexive DEF periodic_check_for_AS, Beats
<1>3. CASE Expired(c.wait) /\ Exhausted(c.wait)
  <2> DEFINE d == [c EXCEPT !.wait = clear_wait]
  <2>1. periodic_check_for_AS(c) = d
    BY <1>3 DEF periodic_check_for_AS
  <2>2. /\ d \in NodeRec /\ d.wait = clear_wait /\ d.pkt_num = c.pkt_num
        /\ d.signed = c.signed /\ d.out = c.out
    BY <1>1, ClearWaitType DEF NodeRec
  <2> HIDE DEF d
  <2>3. Good(d)
    BY <2>2 DEF Good, WaitCoherent, clear_wait
  <2>4. Delivered(d) = Delivered(c)
    BY <2>2 DEF Delivered
  <2>5. c.wait.waiting /\ c.wait.count = MAX_RESEND_COUNT
    BY <1>1, <1>3 DEF Expired, Exhausted
  <2>6. GivesUp(c, d)
    BY <1>1, <2>2, <2>3, <2>4, <2>5 DEF GivesUp
  <2>7. QED
    BY <2>1, <2>6 DEF Beats
<1>4. CASE Expired(c.wait) /\ ~Exhausted(c.wait)
  <2> DEFINE w == restart_wait(c.wait)
             d == [c EXCEPT !.wait = w]
             e == publish_pkt(d, c.wait.pkt, TRUE)
  <2>1. periodic_check_for_AS(c) = e
    BY <1>4 DEF periodic_check_for_AS
  <2>2. c.wait.waiting /\ c.wait.count < MAX_RESEND_COUNT
    BY <1>1, <1>4 DEF Expired, Exhausted
  <2>3. c.wait.count + 1 \in 0 .. MAX_RESEND_COUNT /\ SL_ACK_WAIT \in 0 .. SL_ACK_WAIT
    BY <1>1, <2>2
  <2>4. /\ w \in Waits /\ w.waiting /\ w.pkt = c.wait.pkt
        /\ w.count = c.wait.count + 1 /\ w.do_insert = c.wait.do_insert
    BY <1>1, <2>2, <2>3 DEF restart_wait, Waits
  <2> HIDE DEF w
  <2>5. /\ d \in NodeRec /\ d.wait = w /\ d.pkt_num = c.pkt_num
        /\ d.signed = c.signed /\ d.out = c.out
    BY <1>1, <2>4 DEF NodeRec
  <2> HIDE DEF d
  <2>6. Good(d)
    BY <2>2, <2>4, <2>5 DEF Good, WaitCoherent
  <2>7. Delivered(d) = Delivered(c)
    BY <2>5 DEF Delivered
  <2>8. Retries(c, d)
    BY <1>1, <2>2, <2>4, <2>5, <2>6, <2>7 DEF Retries
  <2>9. Quietly(d, e)
    <3>1. c.wait.pkt.op \in StoreOps /\ c.wait.pkt.num \in PktNum /\ c.wait.pkt.fits \in BOOLEAN
      BY <2>2 DEF Good, WaitCoherent, WaitPkts, StoreOps
    <3>2. QED
      BY <2>6, <3>1, PublishIsQuiet
  <2> HIDE DEF e
  <2>10. QED
    BY <2>1, <2>6, <2>8, <2>9, ThenQuietly DEF Beats
<1>5. QED
  BY <1>2, <1>3, <1>4

LEMMA PeriodicCheckBeats ==
  ASSUME NEW c, Good(c)
  PROVE  Beats(c, periodic_check(c))
<1> DEFINE d == periodic_check_for_AS(c)
           x == [d EXCEPT !.raised = TRUE]
           s == set_state(d, "OVERDUE")
           e == IF is_overdue(d) /\ is_state_up(d) THEN s ELSE d
           g == SendShort(e, "GS")
<1>1. periodic_check(c) = IF overdue_raises(d) THEN x ELSE IF PollDue(e) THEN g ELSE e
  BY DEF periodic_check, OverdueCheck, PollCheck, send_get_status
<1>2. Beats(c, d) /\ Good(d)
  BY CheckForASBeats DEF Beats, Quietly, Retries, GivesUp
<1> HIDE DEF d
<1>3. Quietly(d, s)
  BY <1>2, SetStateIsQuiet DEF States, CodeStates
<1> HIDE DEF s
<1>4. Quietly(d, e) /\ Good(e)
  BY <1>2, <1>3, QuietlyIsReflexive DEF Quietly
<1> HIDE DEF e
<1>5. Quietly(e, g)
  BY <1>4, SendShortIsQuiet
<1> HIDE DEF g
<1>6. Quietly(d, g)
  BY <1>2, <1>4, <1>5, QuietlyIsTransitive
<1>7. Quietly(d, x)
  <2>1. /\ x \in NodeRec /\ x.wait = d.wait /\ x.pkt_num = d.pkt_num
        /\ x.signed = d.signed /\ x.out = d.out
    BY <1>2 DEF Good, NodeRec
  <2> HIDE DEF x
  <2>2. QED
    BY <1>2, <2>1, OtherFields
<1> HIDE DEF x
<1>8. Beats(c, e) /\ Beats(c, g) /\ Beats(c, x)
  BY <1>2, <1>4, <1>6, <1>7, ThenQuietly, QuietlyIsTransitive DEF Beats
<1>9. QED
  BY <1>1, <1>8

----------------------------------------------------------------------------
(* The steps.                                                              *)

(***************************************************************************)
(* A step begins with a record that has the window of the last one, and    *)
(* nothing sent; time may have passed in it.                               *)
(***************************************************************************)
Starts(c, s) ==
  /\ Good(s)
  /\ s.wait.pkt = c.wait.pkt
  /\ s.wait.count = c.wait.count
  /\ s.wait.waiting = c.wait.waiting
  /\ s.pkt_num = c.pkt_num
  /\ s.signed = FALSE
  /\ Delivered(s) = {}

Moves(s, d) ==
  \/ Settles(s, d)
  \/ Beats(s, d)
  \/ ~s.wait.waiting /\ \E op \in {"DN", "SC"} : Offers(s, d, op)

Moved(n) == \E s : Starts(node[n], s) /\ Moves(s, node'[n])

\* The record of a node that is not in the table is as Node.__init__ leaves it.
Pristine ==
  \A n \in Slids \ known : node[n].wait = clear_wait /\ node[n].pkt_num = 0

IInv == TypeOK /\ WaitsCoherent /\ Pristine

LEMMA GoodNodes ==
  ASSUME IInv, NEW n \in Slids
  PROVE  Good(node[n])
  BY DEF IInv, TypeOK, WaitsCoherent, Good

LEMMA FreshStarts ==
  ASSUME NEW c, Good(c)
  PROVE  Starts(c, Fresh(c)) /\ Fresh(c).wait = c.wait
<1> DEFINE d == Fresh(c)
<1>1. c \in NodeRec /\ <<>> \in Seq(Effects)
  BY DEF Good
<1>2. /\ d \in NodeRec /\ d.wait = c.wait /\ d.pkt_num = c.pkt_num
      /\ d.signed = FALSE /\ d.out = <<>>
  BY <1>1 DEF Fresh, NodeRec
<1> HIDE DEF d
<1>3. Good(d)
  BY <1>2 DEF Good, WaitCoherent
<1>4. Delivered(d) = {}
  BY <1>2 DEF Delivered
<1>5. QED
  BY <1>2, <1>3, <1>4 DEF Starts, d

LEMMA NewNodeIsGood ==
  ASSUME NEW via \in Seq(Slids), NEW cfg \in SUBSET Defects
  PROVE  /\ Good(NewNode(via, cfg))
         /\ NewNode(via, cfg).wait = clear_wait
         /\ NewNode(via, cfg).pkt_num = 0
         /\ NewNode(via, cfg).signed = FALSE
         /\ Delivered(NewNode(via, cfg)) = {}
<1> DEFINE d == NewNode(via, cfg)
<1>1. /\ 0 \in Issued /\ 0 \in LastSeen /\ "INITIAL" \in States
  BY DEF Issued, LastSeen, States, CodeStates
<1>2. <<>> \in Seq(Effects) /\ clear_wait \in Waits
  BY ClearWaitType
<1> DEFINE v == Saved(via, cfg)
<1>7. v \in [via : Seq(Slids), cfg : SUBSET Defects]
  BY SavedType
<1> HIDE DEF v
<1>3. /\ d \in NodeRec /\ d.wait = clear_wait /\ d.pkt_num = 0
      /\ d.signed = FALSE /\ d.out = <<>>
  BY <1>1, <1>2, <1>7, AgeTypes DEF NewNode, NodeRec, v
<1> HIDE DEF d
<1>4. Good(d)
  BY <1>3 DEF Good, WaitCoherent, clear_wait
<1>5. Delivered(d) = {}
  BY <1>3 DEF Delivered
<1>6. QED
  BY <1>3, <1>4, <1>5 DEF d

LEMMA MovesAreGood ==
  ASSUME NEW s, NEW d, Moves(s, d)
  PROVE  Good(d)
  BY DEF Moves, Settles, Beats, Quietly, Confirms, SignsOn, Retries, GivesUp, Offers

(***************************************************************************)
(* What every action but Restart does: each record moves, and the nodes    *)
(* that are not in the table stay as they are.                             *)
(***************************************************************************)
Advances ==
  /\ node' = [n \in Slids |-> node'[n]]
  /\ \A n \in Slids : Moved(n)
  /\ known' \subseteq Slids
  /\ running' \in BOOLEAN
  /\ Pristine'

LEMMA AdvancesKeepsIInv ==
  ASSUME Advances
  PROVE  IInv'
<1>1. \A n \in Slids : Good(node'[n])
  BY MovesAreGood DEF Advances, Moved
<1>2. node' \in [Slids -> NodeRec]
  BY <1>1 DEF Advances, Good
<1>3. QED
  BY <1>1, <1>2 DEF Advances, IInv, TypeOK, WaitsCoherent, Good

LEMMA QuietMoves ==
  ASSUME IInv, NEW n \in Slids, node'[n] = Fresh(node[n])
  PROVE  Moved(n)
<1>1. Good(node[n]) /\ Starts(node[n], Fresh(node[n]))
  BY GoodNodes, FreshStarts
<1>2. Quietly(Fresh(node[n]), Fresh(node[n]))
  BY <1>1, QuietlyIsReflexive DEF Starts
<1>3. QED
  BY <1>1, <1>2 DEF Moved, Moves, Settles

\* A step that leaves the nodes outside the table alone keeps them pristine.
LEMMA PristineStays ==
  ASSUME IInv, known \subseteq known', known' \subseteq Slids,
         \A n \in Slids \ known' : node'[n] = Fresh(node[n])
  PROVE  Pristine'
<1> SUFFICES ASSUME NEW n \in Slids, n \notin known'
             PROVE  node'[n].wait = clear_wait /\ node'[n].pkt_num = 0
  BY DEF Pristine
<1>1. node'[n] = Fresh(node[n]) /\ n \notin known
  OBVIOUS
<1>2. Good(node[n]) /\ Starts(node[n], Fresh(node[n])) /\ Fresh(node[n]).wait = node[n].wait
  BY GoodNodes, FreshStarts
<1>3. QED
  BY <1>1, <1>2 DEF IInv, Pristine, Starts

LEMMA HopsAreKnown ==
  ASSUME IInv, NEW p \in Inbound
  PROVE  ReachedHops(p) \subseteq known
  BY DEF ReachedHops, RouteHops

LEMMA OnDataMsgAdvances ==
  ASSUME IInv, NEW p \in Inbound, OnDataMsg(p)
  PROVE  Advances
<1> DEFINE n == p.slid
           created == n \notin known /\ autocreate /\ p.op = "RC"
           c == IF created THEN NewNode(<<>>, {}) ELSE Fresh(node[n])
           lost == RouteRaises(p)
<1>1. n \in Slids /\ known \subseteq Slids /\ running \in BOOLEAN
  BY InboundTypes DEF IInv, TypeOK
<1>2. \A m \in Slids : Quiet[m] = Fresh(node[m])
  BY DEF Quiet
<1>3. Starts(node[n], c) /\ Good(c)
  <2>1. CASE created
    <3>1. c = NewNode(<<>>, {}) /\ <<>> \in Seq(Slids)
      BY <2>1
    <3>2. node[n].wait = clear_wait /\ node[n].pkt_num = 0
      BY <1>1, <2>1 DEF IInv, Pristine
    <3> HIDE DEF c
    <3>3. QED
      BY <3>1, <3>2, NewNodeIsGood DEF Starts
  <2>2. CASE ~created
    BY <1>1, <2>2, GoodNodes, FreshStarts DEF Starts
  <2>3. QED
    BY <2>1, <2>2
<1>4. running' = running
  BY DEF OnDataMsg
<1>5. CASE (n \notin known /\ ~created) \/ p.op = "Control"
  <2>1. node' = Quiet /\ known' = known
    BY <1>5 DEF OnDataMsg
  <2>2. \A m \in Slids : node'[m] = Fresh(node[m])
    BY <1>2, <2>1
  <2>3. \A m \in Slids : Moved(m)
    BY <2>2, QuietMoves
  <2>4. Pristine'
    BY <1>1, <2>1, <2>2, PristineStays
  <2>5. node' = [m \in Slids |-> node'[m]]
    BY <2>1 DEF Quiet
  <2>6. QED
    BY <1>1, <1>4, <2>1, <2>3, <2>4, <2>5 DEF Advances
<1>6. CASE /\ ~((n \notin known /\ ~created) \/ p.op = "Control")
           /\ IsDuplicate(c.last_packet_num, p.num)
  <2>1. node' = [Quiet EXCEPT ![n] = Duplicate(c, p)] /\ known' = known
    BY <1>2, <1>1, <1>6 DEF OnDataMsg
  <2>2. ~created
    BY <1>6 DEF NewNode, IsDuplicate
  <2>3. /\ node' = [m \in Slids |-> node'[m]]
        /\ node'[n] = Duplicate(c, p)
        /\ \A m \in Slids \ {n} : node'[m] = Fresh(node[m])
    <3> HIDE DEF c
    <3> QED BY <1>1, <1>2, <2>1 DEF Quiet
  <2> HIDE DEF c
  <2>4. Quietly(c, Duplicate(c, p))
    BY <1>3, DuplicateIsQuiet
  <2>5. Moved(n)
    BY <1>3, <2>3, <2>4 DEF Moved, Moves, Settles
  <2>6. \A m \in Slids : Moved(m)
    BY <2>3, <2>5, QuietMoves
  <2>7. Pristine'
    BY <1>1, <1>6, <2>1, <2>2, <2>3, PristineStays
  <2>8. QED
    BY <1>1, <1>4, <2>1, <2>3, <2>6, <2>7 DEF Advances
<1>7. CASE /\ ~((n \notin known /\ ~created) \/ p.op = "Control")
           /\ ~IsDuplicate(c.last_packet_num, p.num)
  <2>1. /\ node' = [m \in Slids |->
                      IF m = n THEN Accept(c, p, lost)
                      ELSE IF m \in ReachedHops(p) THEN Bridged(Quiet[m])
                      ELSE Quiet[m]]
        /\ known' = known \cup {n}
    BY <1>2, <1>1, <1>7 DEF OnDataMsg
  <2>2. /\ node'[n] = Accept(c, p, lost)
        /\ \A m \in Slids \ {n} : node'[m] = IF m \in ReachedHops(p) THEN Bridged(Fresh(node[m]))
                                             ELSE Fresh(node[m])
        /\ node' = [m \in Slids |-> node'[m]]
    <3> HIDE DEF c, lost
    <3> QED BY <1>1, <1>2, <2>1
  <2>3. lost \in BOOLEAN
    BY DEF RouteRaises
  <2> HIDE DEF c, lost
  <2>4. Moved(n)
    <3>1. Settles(c, Accept(c, p, lost))
      BY <1>3, <2>3, AcceptSettles
    <3>2. QED
      BY <1>3, <2>2, <3>1 DEF Moved, Moves
  <2>5. ASSUME NEW m \in Slids \ {n} PROVE Moved(m)
    <3>1. CASE m \in ReachedHops(p)
      <4>1. Starts(node[m], Fresh(node[m])) /\ Good(Fresh(node[m]))
        BY GoodNodes, FreshStarts DEF Starts
      <4>2. Quietly(Fresh(node[m]), node'[m])
        BY <2>2, <3>1, <4>1, HeardIsQuiet
      <4>3. QED
        BY <4>1, <4>2 DEF Moved, Moves, Settles
    <3>2. CASE m \notin ReachedHops(p)
      BY <2>2, <3>2, QuietMoves
    <3>3. QED
      BY <3>1, <3>2
  <2>6. Pristine'
    <3>1. \A m \in Slids \ known' : node'[m] = Fresh(node[m])
      BY <2>1, <2>2, HopsAreKnown
    <3>2. QED
      BY <1>1, <2>1, <3>1, PristineStays
  <2>7. QED
    BY <1>1, <1>4, <2>1, <2>2, <2>4, <2>5, <2>6 DEF Advances
<1>8. QED
  BY <1>5, <1>6, <1>7

\* A command to a node in the table changes the record of that node only.
LEMMA CommandAdvances ==
  ASSUME IInv, NEW n \in known, NEW d,
         node' = [Quiet EXCEPT ![n] = d],
         Moves(Fresh(node[n]), d),
         UNCHANGED <<known, running>>
  PROVE  Advances
<1>1. n \in Slids /\ known \subseteq Slids /\ running \in BOOLEAN
  BY DEF IInv, TypeOK
<1>2. /\ node' = [m \in Slids |-> node'[m]]
      /\ node'[n] = d
      /\ \A m \in Slids \ {n} : node'[m] = Fresh(node[m])
  BY <1>1 DEF Quiet
<1>3. Moved(n)
  BY <1>1, <1>2, GoodNodes, FreshStarts DEF Moved
<1>4. \A m \in Slids : Moved(m)
  BY <1>2, <1>3, QuietMoves
<1>5. Pristine'
  BY <1>1, <1>2, PristineStays
<1>6. QED
  BY <1>1, <1>2, <1>4, <1>5 DEF Advances

LEMMA SendDataAdvances ==
  ASSUME IInv, NEW n \in Commanded, NEW fits \in BOOLEAN, SendData(n, fits)
  PROVE  Advances
<1> DEFINE c == Fresh(node[n])
           d == send_data_to_node(c, fits)
<1>1. n \in Slids /\ n \in known
  BY DEF SendData, IInv, TypeOK
<1>2. Good(c)
  BY <1>1, GoodNodes, FreshStarts DEF Starts
<1>3. Quiet[n] = c
  BY <1>1 DEF Quiet
<1>4. node' = [Quiet EXCEPT ![n] = d] /\ UNCHANGED <<known, running>>
  <2> HIDE DEF c
  <2> QED BY <1>1, <1>3 DEF SendData
<1> HIDE DEF c
<1>5. Moves(c, d)
  BY <1>2, SendDataOffers DEF Moves, Settles
<1> HIDE DEF d
<1>6. QED
  BY <1>1, <1>4, <1>5, CommandAdvances DEF c

LEMMA WebSetConfigAdvances ==
  ASSUME IInv, NEW n \in Commanded, NEW defects \in Configs, WebSetConfig(n, defects)
  PROVE  Advances
<1> DEFINE c == Fresh(node[n])
           cfg == IF MeshOf[n] = 0 THEN defects ELSE defects \cup {"version"}
           s == [c EXCEPT !.cfg = cfg]
           d == send_set_config(s)
<1>1. n \in Slids /\ n \in known
  BY DEF WebSetConfig, IInv, TypeOK
<1>2. Good(c)
  BY <1>1, GoodNodes, FreshStarts DEF Starts
<1>3. Quiet[n] = c
  BY <1>1 DEF Quiet
<1>10. cfg \in SUBSET Defects
  BY StoreNodeAssumption DEF Defects
<1>5. node' = [Quiet EXCEPT ![n] = d] /\ UNCHANGED <<known, running>>
  BY <1>1, <1>3 DEF WebSetConfig
<1> HIDE DEF c, cfg
<1>4. Quietly(c, s) /\ Good(s) /\ s.wait = c.wait
  <2>1. /\ s \in NodeRec /\ s.wait = c.wait /\ s.pkt_num = c.pkt_num
        /\ s.signed = c.signed /\ s.out = c.out
    BY <1>2, <1>10 DEF Good, NodeRec
  <2> HIDE DEF s
  <2>2. QED
    BY <1>2, <2>1, OtherFields DEF Quietly
<1> HIDE DEF s
<1>6. Quietly(s, d) \/ (~s.wait.waiting /\ Offers(s, d, "SC"))
  BY <1>4, SendSetConfigOffers
<1> HIDE DEF d
<1>7. Offers(s, d, "SC") => Offers(c, d, "SC")
  <2>1. /\ c.pkt_num \in Int /\ s.pkt_num \in Int
        /\ d.wait.pkt \in WaitPkts => d.wait.pkt.num \in Int
    BY <1>2, <1>4 DEF Good, NodeRec, Issued, WaitPkts, PktNum
  <2>2. NewPacket(s, d, "SC") => NewPacket(c, d, "SC")
    BY <1>4, <2>1 DEF Quietly, NewPacket
  <2>3. QED
    BY <1>4, <2>2 DEF Quietly, Offers
<1>8. Moves(c, d)
  BY <1>2, <1>4, <1>6, <1>7, QuietlyIsTransitive DEF Moves, Settles
<1>9. QED
  BY <1>1, <1>5, <1>8, CommandAdvances DEF c

LEMMA CommandRaisesAdvances ==
  ASSUME IInv, NEW n \in Commanded, CommandRaises(n)
  PROVE  Advances
<1> DEFINE c == Fresh(node[n])
           d == [c EXCEPT !.raised = TRUE]
<1>1. n \in Slids /\ n \in known
  BY DEF CommandRaises, IInv, TypeOK
<1>2. Good(c)
  BY <1>1, GoodNodes, FreshStarts DEF Starts
<1>3. Quiet[n] = c
  BY <1>1 DEF Quiet
<1> HIDE DEF c
<1>4. node' = [Quiet EXCEPT ![n] = d] /\ UNCHANGED <<known, running>>
  BY <1>1, <1>3 DEF CommandRaises
<1>5. Quietly(c, d)
  <2>1. /\ d \in NodeRec /\ d.wait = c.wait /\ d.pkt_num = c.pkt_num
        /\ d.signed = c.signed /\ d.out = c.out
    BY <1>2 DEF Good, NodeRec
  <2> HIDE DEF d
  <2>2. QED
    BY <1>2, <2>1, OtherFields
<1> HIDE DEF d
<1>6. QED
  BY <1>1, <1>4, <1>5, CommandAdvances DEF c, Moves, Settles

LEMMA HeartbeatAdvances ==
  ASSUME IInv, Heartbeat
  PROVE  Advances
<1> DEFINE checked == [n \in Beating |-> periodic_check(Fresh(node[n]))]
           failing == {n \in Beating : checked[n].raised}
<1>1. known' = known /\ running' \in BOOLEAN /\ known \subseteq Slids
  BY DEF Heartbeat, IInv, TypeOK
<1>2. PICK done \in SUBSET Beating :
        node' = [n \in Slids |-> IF n \in done THEN checked[n] ELSE Fresh(node[n])]
  BY DEF Heartbeat
<1>3. ASSUME NEW n \in Slids PROVE Moved(n)
  <2>1. CASE n \in done
    <3>1. node'[n] = periodic_check(Fresh(node[n]))
      BY <1>2, <2>1
    <3>2. Starts(node[n], Fresh(node[n])) /\ Good(Fresh(node[n]))
      BY GoodNodes, FreshStarts DEF Starts
    <3>3. QED
      BY <3>1, <3>2, PeriodicCheckBeats DEF Moved, Moves
  <2>2. CASE n \notin done
    BY <1>2, <2>2, QuietMoves
  <2>3. QED
    BY <2>1, <2>2
<1>4. Pristine'
  <2>1. \A n \in Slids \ known' : node'[n] = Fresh(node[n])
    BY <1>1, <1>2 DEF Beating
  <2>2. QED
    BY <1>1, <2>1, PristineStays
<1>5. node' = [n \in Slids |-> node'[n]]
  BY <1>2
<1>6. QED
  BY <1>1, <1>3, <1>4, <1>5 DEF Advances

LEMMA TickAdvances ==
  ASSUME IInv, Tick
  PROVE  Advances
<1> DEFINE d(n) == [Fresh(node[n]) EXCEPT !.rx = Older(@, NodeMaxSilence),
                                          !.tx = Older(@, MAXSILENCE + 1),
                                          !.wait = Elapse(@)]
<1>1. known' = known /\ running' \in BOOLEAN /\ known \subseteq Slids
  BY DEF Tick, IInv, TypeOK
<1>2. node' = [n \in Slids |-> d(n)]
  BY DEF Tick, Quiet
<1>3. ASSUME NEW n \in Slids
      PROVE  /\ Starts(node[n], d(n))
             /\ node[n].wait = clear_wait => d(n).wait = clear_wait
  <2> DEFINE c == Fresh(node[n])
             w == Elapse(c.wait)
             rx == Older(c.rx, NodeMaxSilence)
             tx == Older(c.tx, MAXSILENCE + 1)
             e == [c EXCEPT !.rx = rx, !.tx = tx, !.wait = w]
  <2>1. /\ Starts(node[n], c) /\ Good(c) /\ c \in NodeRec
        /\ c.wait = node[n].wait
    BY GoodNodes, FreshStarts DEF Starts, Good
  <2> HIDE DEF c
  <2>2. rx \in Ages /\ tx \in TxAges
    <3>1. c.rx \in Ages /\ c.tx \in TxAges
      BY <2>1 DEF NodeRec
    <3>2. QED
      BY <3>1, StoreNodeAssumption DEF Older, Ages, TxAges
  <2>3. /\ w \in Waits /\ w.waiting = c.wait.waiting /\ w.pkt = c.wait.pkt
        /\ w.count = c.wait.count /\ w.do_insert = c.wait.do_insert
    <3>1. c.wait \in Waits /\ c.wait.remaining \in 0 .. SL_ACK_WAIT
      BY <2>1 DEF NodeRec, Waits
    <3>2. (IF c.wait.remaining > 0 THEN c.wait.remaining - 1 ELSE 0) \in 0 .. SL_ACK_WAIT
      BY <3>1
    <3>3. QED
      BY <3>1, <3>2 DEF Elapse, Waits
  <2>4. c.wait = clear_wait => w = clear_wait
    BY ElapseClear
  <2> HIDE DEF w, rx, tx
  <2>5. /\ e \in NodeRec /\ e.wait = w /\ e.pkt_num = c.pkt_num
        /\ e.signed = c.signed /\ e.out = c.out
    BY <2>1, <2>2, <2>3 DEF NodeRec
  <2>6. d(n) = e
    BY <2>1 DEF c, w, rx, tx, NodeRec
  <2> HIDE DEF e, d
  <2>7. Good(e)
    BY <2>1, <2>3, <2>4, <2>5 DEF Good, WaitCoherent
  <2>8. Delivered(e) = Delivered(c)
    BY <2>5 DEF Delivered
  <2>9. QED
    BY <2>1, <2>3, <2>4, <2>5, <2>6, <2>7, <2>8 DEF Starts
<1> HIDE DEF d
<1>4. ASSUME NEW n \in Slids PROVE Moved(n)
  <2>1. Quietly(d(n), d(n))
    BY <1>3, QuietlyIsReflexive DEF Starts
  <2>2. QED
    BY <1>2, <1>3, <2>1 DEF Moved, Moves, Settles
<1>5. Pristine'
  <2> SUFFICES ASSUME NEW n \in Slids, n \notin known
               PROVE  node'[n].wait = clear_wait /\ node'[n].pkt_num = 0
    BY <1>1 DEF Pristine
  <2>1. node[n].wait = clear_wait /\ node[n].pkt_num = 0
    BY DEF IInv, Pristine
  <2>2. QED
    BY <1>2, <1>3, <2>1 DEF Starts
<1>6. node' = [n \in Slids |-> node'[n]]
  BY <1>2
<1>7. QED
  BY <1>1, <1>4, <1>5, <1>6 DEF Advances

LEMMA RestartRenews ==
  ASSUME IInv, Restart
  PROVE  /\ IInv'
         /\ \A n \in Slids : /\ node'[n].wait = clear_wait
                             /\ node'[n].pkt_num = 0
                             /\ node'[n].signed = FALSE
                             /\ Delivered(node'[n]) = {}
<1> DEFINE d(n) == NewNode(node[n].saved.via, node[n].saved.cfg)
<1>1. known' = known /\ running' = running /\ node' = [n \in Slids |-> d(n)]
  BY DEF Restart
<1>2. ASSUME NEW n \in Slids
      PROVE  /\ Good(d(n))
             /\ d(n).wait = clear_wait /\ d(n).pkt_num = 0
             /\ d(n).signed = FALSE /\ Delivered(d(n)) = {}
  <2>1. node[n].saved.via \in Seq(Slids) /\ node[n].saved.cfg \in SUBSET Defects
    BY DEF IInv, TypeOK, NodeRec
  <2>2. QED
    BY <2>1, NewNodeIsGood
<1> HIDE DEF d
<1>3. node' \in [Slids -> NodeRec] /\ WaitsCoherent'
  BY <1>1, <1>2 DEF Good, WaitsCoherent
<1>4. QED
  BY <1>1, <1>2, <1>3 DEF IInv, TypeOK, Pristine

LEMMA NextAdvances ==
  ASSUME IInv, Next
  PROVE  Advances \/ Restart
<1>1. CASE \E p \in Inbound : OnDataMsg(p)
  BY <1>1, OnDataMsgAdvances
<1>2. CASE \E n \in Commanded, fits \in BOOLEAN : SendData(n, fits)
  BY <1>2, SendDataAdvances
<1>3. CASE \E n \in Commanded, defects \in Configs : WebSetConfig(n, defects)
  BY <1>3, WebSetConfigAdvances
<1>4. CASE \E n \in Commanded : CommandRaises(n)
  BY <1>4, CommandRaisesAdvances
<1>5. CASE Heartbeat
  BY <1>5, HeartbeatAdvances
<1>6. CASE Tick
  BY <1>6, TickAdvances
<1>7. QED
  BY <1>1, <1>2, <1>3, <1>4, <1>5, <1>6 DEF Next

----------------------------------------------------------------------------
(* The theorems.                                                           *)

LEMMA InitIInv ==
  ASSUME Init
  PROVE  /\ IInv
         /\ \A n \in Slids : node[n].signed = FALSE /\ Delivered(node[n]) = {}
<1> DEFINE d == NewNode(<<>>, {})
<1>1. /\ Good(d) /\ d.wait = clear_wait /\ d.pkt_num = 0
      /\ d.signed = FALSE /\ Delivered(d) = {}
  <2>1. <<>> \in Seq(Slids) /\ TRUE \in BOOLEAN
    OBVIOUS
  <2>2. QED
    BY <2>1, NewNodeIsGood
<1>2. node = [n \in Slids |-> d] /\ known \subseteq Slids /\ running = TRUE
  BY DEF Init
<1> HIDE DEF d
<1>3. QED
  BY <1>1, <1>2 DEF IInv, TypeOK, WaitsCoherent, Pristine, Good

LEMMA NextIInv ==
  ASSUME IInv, [Next]_vars
  PROVE  IInv'
<1>1. CASE Next
  BY <1>1, NextAdvances, AdvancesKeepsIInv, RestartRenews
<1>2. CASE UNCHANGED vars
  BY <1>2 DEF vars, IInv, TypeOK, WaitsCoherent, Pristine
<1>3. QED
  BY <1>1, <1>2

(***************************************************************************)
(* Whatever packets arrive and whatever the users command, the records     *)
(* stay well formed and the waits coherent, also when a method raises      *)
(* half way (wait_for_AS).                                                 *)
(***************************************************************************)
THEOREM TypeCorrect == Spec => []TypeOK
<1>1. Spec => []IInv
  BY InitIInv, NextIInv, PTL DEF Spec
<1>2. IInv => TypeOK
  BY DEF IInv
<1>3. QED
  BY <1>1, <1>2, PTL

(***************************************************************************)
(* The wait of every node is all set, for a packet numbered in this        *)
(* session, or all clear (set_wait, stop_wait, clear_wait and their        *)
(* callers).                                                               *)
(***************************************************************************)
THEOREM WaitsAreCoherent == Spec => []WaitsCoherent
<1>1. Spec => []IInv
  BY InitIInv, NextIInv, PTL DEF Spec
<1>2. IInv => WaitsCoherent
  BY DEF IInv
<1>3. QED
  BY <1>1, <1>2, PTL

LEMMA MovedIsWindowStep ==
  ASSUME IInv, NEW n \in Slids, Moved(n)
  PROVE  Window!Step(n)
<1> DEFINE c == node[n]
           d == node'[n]
<1>1. PICK s : Starts(c, s) /\ Moves(s, d)
  BY DEF Moved
<1>2. Good(c) /\ Good(s) /\ Good(d)
  BY <1>1, GoodNodes, MovesAreGood DEF Starts
<1>3. ASSUME NEW r, Good(r)
      PROVE  /\ r.wait.pkt = NoPkt <=> r.wait = clear_wait
             /\ r.wait.waiting <=> r.wait # clear_wait
             /\ r.pkt_num \in Int
             /\ r.wait.pkt # NoPkt => r.wait.pkt.num \in Int
             /\ r.wait.count \in 0 .. MAX_RESEND_COUNT
  <2>1. r.pkt_num \in Int /\ r.wait \in Waits
    BY <1>3 DEF Good, NodeRec, Issued
  <2>2. r.wait.count \in 0 .. MAX_RESEND_COUNT
    BY <2>1 DEF Waits
  <2>3. CASE r.wait.waiting
    BY <1>3, <2>1, <2>2, <2>3, NoPktIsNotWaited DEF Good, WaitCoherent, clear_wait, WaitPkts, PktNum
  <2>4. CASE ~r.wait.waiting
    BY <1>3, <2>1, <2>2, <2>4 DEF Good, WaitCoherent, clear_wait
  <2>5. QED
    BY <2>3, <2>4
<1>4. clear_wait.pkt = NoPkt /\ clear_wait.count = 0 /\ NoPkt.op = "None"
  BY DEF clear_wait, NoPkt
<1> HIDE DEF c, d
<1>5. /\ s.wait.pkt = c.wait.pkt /\ s.wait.count = c.wait.count
      /\ s.pkt_num = c.pkt_num /\ s.signed = FALSE /\ Delivered(s) = {}
      /\ s.wait.waiting = c.wait.waiting
  BY <1>1 DEF Starts
<1>6. CASE Quietly(s, d)
  <2>1. /\ d.wait.pkt = c.wait.pkt /\ d.wait.count = c.wait.count
        /\ d.pkt_num >= c.pkt_num /\ d.signed = FALSE /\ Delivered(d) = {}
    BY <1>5, <1>6 DEF Quietly
  <2>2. QED
    BY <2>1 DEF c, d, Window!Step, Window!Keep
<1>7. CASE Confirms(s, d)
  <2>1. /\ d.wait.pkt = NoPkt /\ d.wait.count = 0
        /\ d.pkt_num >= c.pkt_num /\ d.signed = FALSE
        /\ Delivered(d) = IF c.wait.pkt.op = "DN" THEN {c.wait.pkt.num} ELSE {}
    BY <1>4, <1>5, <1>7 DEF Confirms
  <2>2. CASE c.wait.pkt = NoPkt
    <3>1. c.wait.count = 0 /\ Delivered(d) = {}
      BY <1>2, <1>3, <1>4, <2>1, <2>2
    <3>2. QED
      BY <2>1, <2>2, <3>1 DEF c, d, Window!Step, Window!Keep
  <2>3. CASE c.wait.pkt # NoPkt
    BY <2>1, <2>3 DEF c, d, Window!Step, Window!Confirm, Window!Empty
  <2>4. QED
    BY <2>2, <2>3
<1>8. CASE SignsOn(s, d)
  <2>1. d.pkt_num >= c.pkt_num /\ d.signed = TRUE /\ Delivered(d) = {}
    BY <1>2, <1>5, <1>8 DEF SignsOn, Good, NodeRec
  <2>2. \/ d.wait.pkt = NoPkt /\ d.wait.count = 0
        \/ /\ d.wait.pkt.op = "SC" /\ d.wait.count = 0
           /\ d.wait.pkt.num > c.pkt_num /\ d.wait.pkt.num <= d.pkt_num
    BY <1>4, <1>5, <1>8 DEF SignsOn, NewPacket
  <2>3. QED
    BY <2>1, <2>2 DEF c, d, Window!Step, Window!SignOn, Window!Empty, Window!IsNew
<1>9. CASE Retries(s, d)
  <2>1. /\ c.wait.pkt # NoPkt /\ c.wait.count < MAX_RESEND_COUNT
        /\ d.wait.pkt = c.wait.pkt /\ d.wait.count = c.wait.count + 1
        /\ d.pkt_num >= c.pkt_num /\ d.signed = FALSE /\ Delivered(d) = {}
    BY <1>2, <1>3, <1>5, <1>9 DEF Retries
  <2>2. QED
    BY <2>1 DEF c, d, Window!Step, Window!Retry, Window!Empty
<1>10. CASE GivesUp(s, d)
  <2>1. /\ c.wait.pkt # NoPkt /\ c.wait.count = MAX_RESEND_COUNT
        /\ d.wait.pkt = NoPkt /\ d.wait.count = 0
        /\ d.pkt_num >= c.pkt_num /\ d.signed = FALSE /\ Delivered(d) = {}
    BY <1>2, <1>3, <1>4, <1>5, <1>10 DEF GivesUp
  <2>2. QED
    BY <2>1 DEF c, d, Window!Step, Window!GiveUp, Window!Empty
<1>11. ASSUME NEW op \in {"DN", "SC"}, ~s.wait.waiting, Offers(s, d, op)
       PROVE  Window!Step(n)
  <2>1. /\ c.wait.pkt = NoPkt /\ d.wait.pkt # NoPkt /\ d.wait.count = 0
        /\ d.wait.pkt.num > c.pkt_num /\ d.wait.pkt.num <= d.pkt_num
        /\ d.signed = FALSE /\ Delivered(d) = {}
    BY <1>2, <1>3, <1>5, <1>11, NoPktIsNotWaited DEF Offers, NewPacket
  <2>2. QED
    BY <2>1 DEF c, d, Window!Step, Window!Offer, Window!Empty, Window!IsNew
<1>12. QED
  BY <1>1, <1>6, <1>7, <1>8, <1>9, <1>10, <1>11 DEF Moves, Settles, Beats

(***************************************************************************)
(* The store's handling of the packets it sends to a node (post_data, the  *)
(* send methods, periodic_check_for_AS) implements a window of one packet: *)
(* every step of the program is a step of AckWindow for each node.         *)
(***************************************************************************)
THEOREM StoreImplementsWindow == Spec => ImplementsWindow
<1>1. Init => Window!Init
  <2> SUFFICES ASSUME Init PROVE Window!Init
    OBVIOUS
  <2>1. \A n \in Slids : /\ node[n].wait.pkt = NoPkt /\ node[n].wait.count = 0
                         /\ node[n].pkt_num = 0 /\ node[n].signed = FALSE
                         /\ Delivered(node[n]) = {}
    BY InitIInv DEF Init, NewNode, clear_wait
  <2>2. QED
    BY <2>1 DEF Window!Init, Window!Empty
<1>2. IInv /\ [Next]_vars => [Window!Next]_(Window!vars)
  <2> SUFFICES ASSUME IInv, [Next]_vars PROVE [Window!Next]_(Window!vars)
    OBVIOUS
  <2>1. CASE Advances
    BY <2>1, MovedIsWindowStep DEF Advances, Window!Next
  <2>2. CASE Restart
    <3>1. \A n \in Slids : /\ node'[n].wait.pkt = NoPkt /\ node'[n].wait.count = 0
                           /\ node'[n].pkt_num = 0 /\ node'[n].signed = FALSE
                           /\ Delivered(node'[n]) = {}
      <4>1. clear_wait.pkt = NoPkt /\ clear_wait.count = 0
        BY DEF clear_wait
      <4>2. QED
        BY <2>2, <4>1, RestartRenews
    <3>2. Window!Reset
      BY <3>1 DEF Window!Reset, Window!Empty
    <3>3. QED
      BY <3>2 DEF Window!Next
  <2>3. CASE UNCHANGED vars
    BY <2>3 DEF vars, Window!vars, Delivered
  <2>4. QED
    BY <2>1, <2>2, <2>3, NextAdvances
<1>3. Spec => []IInv
  BY InitIInv, NextIInv, PTL DEF Spec
<1>4. QED
  BY <1>1, <1>2, <1>3, PTL DEF Spec, ImplementsWindow, Window!Spec

----------------------------------------------------------------------------
(***************************************************************************)
(* So far the packet that waits.  The rest is about the state of a node    *)
(* and the effects of a step: what the store may publish to a node, and    *)
(* when; which nodes count as up; and what ends the program.               *)
(***************************************************************************)

(* Effects.                                                                *)

Polls  == {e \in Effects : e.kind = "publish" /\ e.op = "GS"}
Acks   == {e \in Effects : e.kind = "publish" /\ e.op = "AN"}
Orders == {e \in Effects : e.op \in {"DN", "SC"}}
Data   == {e \in Effects : e.kind # "publish" /\ e.op = "DS"}

\* The packet that waits, sent again.
Copies(c) == {e \in Effects : /\ e.kind = "publish" /\ e.op \in {"DN", "SC"}
                              /\ e.resend /\ e.num = c.wait.pkt.num}

\* All effects of a step so far are in S; those that d has and c has not are.
Only(d, S) == \A i \in 1 .. Len(d.out) : d.out[i] \in S

Adds(c, d, S) ==
  /\ Len(c.out) <= Len(d.out)
  /\ \A i \in 1 .. Len(c.out) : d.out[i] = c.out[i]
  /\ \A i \in Len(c.out) + 1 .. Len(d.out) : d.out[i] \in S

LEMMA OutType ==
  ASSUME NEW c, Good(c)
  PROVE  /\ c.out \in Seq(Effects)
         /\ Len(c.out) \in Nat
         /\ DOMAIN c.out = 1 .. Len(c.out)
  BY DEF Good, NodeRec

LEMMA AddsNothing ==
  ASSUME NEW c, NEW d, NEW S, Good(c), d.out = c.out
  PROVE  Adds(c, d, S)
  BY OutType DEF Adds

LEMMA AddsMore ==
  ASSUME NEW c, NEW d, NEW S, NEW T, Adds(c, d, S), S \subseteq T
  PROVE  Adds(c, d, T)
  BY DEF Adds

LEMMA AddsTwice ==
  ASSUME NEW c, NEW d, NEW e, NEW S, Good(c), Good(d), Good(e),
         Adds(c, d, S), Adds(d, e, S)
  PROVE  Adds(c, e, S)
<1>1. Len(c.out) \in Nat /\ Len(d.out) \in Nat /\ Len(e.out) \in Nat
  BY OutType
<1>2. Len(c.out) <= Len(e.out)
  BY <1>1 DEF Adds
<1>3. \A i \in 1 .. Len(c.out) : e.out[i] = c.out[i]
  BY <1>1 DEF Adds
<1>4. ASSUME NEW i \in Len(c.out) + 1 .. Len(e.out)
      PROVE  e.out[i] \in S
  <2>1. CASE i <= Len(d.out)
    <3>1. e.out[i] = d.out[i] /\ d.out[i] \in S
      BY <1>1, <2>1 DEF Adds
    <3>2. QED
      BY <3>1
  <2>2. CASE i > Len(d.out)
    BY <1>1, <2>2 DEF Adds
  <2>3. QED
    BY <1>1, <2>1, <2>2
<1>5. QED
  BY <1>2, <1>3, <1>4 DEF Adds

LEMMA OnlyMore ==
  ASSUME NEW d, NEW S, NEW T, Only(d, S), S \subseteq T
  PROVE  Only(d, T)
  BY DEF Only

LEMMA OnlyAdds ==
  ASSUME NEW c, NEW d, NEW S, Good(c), Good(d), Only(c, S), Adds(c, d, S)
  PROVE  Only(d, S)
<1>1. Len(c.out) \in Nat /\ Len(d.out) \in Nat
  BY OutType
<1>2. ASSUME NEW i \in 1 .. Len(d.out) PROVE d.out[i] \in S
  BY <1>1 DEF Only, Adds
<1>3. QED
  BY <1>2 DEF Only

LEMMA EmitAdds ==
  ASSUME NEW c, Good(c),
         NEW kind \in {"publish", "insert", "public"},
         NEW op \in {"DN", "GS", "SC", "AN", "DS"},
         NEW num \in PktNum, NEW resend \in BOOLEAN
  PROVE  LET e == [kind |-> kind, op |-> op, num |-> num, resend |-> resend]
             d == Emit(c, kind, op, num, resend)
         IN  /\ e \in Effects
             /\ Adds(c, d, {e})
             /\ Len(d.out) = Len(c.out) + 1 /\ d.out[Len(d.out)] = e
<1> DEFINE d == Emit(c, kind, op, num, resend)
           e == [kind |-> kind, op |-> op, num |-> num, resend |-> resend]
<1>1. c.out \in Seq(Effects) /\ e \in Effects
  BY DEF Good, NodeRec, Effects
<1>2. d.out = Append(c.out, e)
  BY DEF Emit, Good, NodeRec
<1> HIDE DEF d, e
<1>3. /\ Len(d.out) = Len(c.out) + 1
      /\ d.out[Len(c.out) + 1] = e
      /\ \A i \in 1 .. Len(c.out) : d.out[i] = c.out[i]
      /\ Len(c.out) \in Nat
  BY <1>1, <1>2
<1>4. Adds(c, d, {e})
  BY <1>3 DEF Adds
<1>5. QED
  BY <1>1, <1>3, <1>4 DEF d, e

----------------------------------------------------------------------------
(* Sending.                                                                *)

\* What sending leaves alone.
Same(c, d) ==
  /\ d.state = c.state
  /\ d.rx = c.rx
  /\ d.via = c.via
  /\ d.last_packet_num = c.last_packet_num
  /\ d.cfg = c.cfg

Sends(c, d, S) == Good(d) /\ Same(c, d) /\ Adds(c, d, S)

\* The only exception is that of a number that does not fit 16 bits.
RaisesIfFull(c, d) ==
  /\ d.pkt_num >= c.pkt_num
  /\ d.raised => c.raised \/ d.pkt_num > MaxPktNum

LEMMA SendsNothing ==
  ASSUME NEW c, NEW S, Good(c)
  PROVE  Sends(c, c, S) /\ RaisesIfFull(c, c)
  BY AddsNothing DEF Sends, Same, RaisesIfFull, Good, NodeRec, Issued

LEMMA SendsTwice ==
  ASSUME NEW c, NEW d, NEW e, NEW S, Good(c), Sends(c, d, S), Sends(d, e, S)
  PROVE  Sends(c, e, S)
  BY AddsTwice DEF Sends, Same

LEMMA SendsMore ==
  ASSUME NEW c, NEW d, NEW S, NEW T, Sends(c, d, S), S \subseteq T
  PROVE  Sends(c, d, T)
  BY AddsMore DEF Sends

LEMMA RaisesTwice ==
  ASSUME NEW c, NEW d, NEW e, Good(c), Good(d), Good(e),
         RaisesIfFull(c, d), RaisesIfFull(d, e)
  PROVE  RaisesIfFull(c, e)
  BY DEF RaisesIfFull, Good, NodeRec, Issued

LEMMA ConstructSends ==
  ASSUME NEW c, Good(c)
  PROVE  /\ Sends(c, Construct(c), {})
         /\ RaisesIfFull(c, Construct(c))
<1> DEFINE d == Construct(c)
<1>1. Good(d) /\ d.pkt_num >= c.pkt_num
  BY ConstructIsQuiet DEF Quietly
<1>2. /\ Same(c, d) /\ d.out = c.out
      /\ d.raised => c.raised \/ d.pkt_num > MaxPktNum
  BY DEF Construct, Good, NodeRec, Same, Issued
<1> HIDE DEF d
<1>3. QED
  BY <1>1, <1>2, AddsNothing DEF Sends, RaisesIfFull, d

\* What publish_pkt may publish: nothing but an AN or a repeated packet while
\* one waits.
MayPublish(c, pkt, resend) ==
  {e \in Effects : /\ e.kind = "publish" /\ e.op = pkt.op /\ e.num = pkt.num
                   /\ e.resend = resend
                   /\ c.wait.waiting => e.resend \/ e.op = "AN"}

LEMMA PublishSends ==
  ASSUME NEW c, Good(c), NEW pkt, NEW resend \in BOOLEAN,
         pkt.op \in StoreOps, pkt.fits \in BOOLEAN,
         ~c.raised => pkt.num \in PktNum
  PROVE  /\ Sends(c, publish_pkt(c, pkt, resend), MayPublish(c, pkt, resend))
         /\ RaisesIfFull(c, publish_pkt(c, pkt, resend))
<1> DEFINE skipped == \/ c.raised
                      \/ ~resend /\ is_waiting(c) /\ pkt.op # "AN"
                      \/ ~pkt.fits
           f == Emit(c, "publish", pkt.op, pkt.num, resend)
           t == [f EXCEPT !.tx = 0]
           d == publish_pkt(c, pkt, resend)
           e == [kind |-> "publish", op |-> pkt.op, num |-> pkt.num, resend |-> resend]
<1>1. CASE skipped
  BY <1>1, SendsNothing DEF publish_pkt
<1>2. CASE ~skipped
  <2>1. d = update(t)
    BY <1>2 DEF publish_pkt
  <2>2. Good(d) /\ d.pkt_num = c.pkt_num /\ d.raised = c.raised
    BY PublishIsQuiet DEF Quietly
  <2>3. /\ e \in Effects /\ Adds(c, f, {e})
    <3>1. pkt.op \in {"DN", "GS", "SC", "AN", "DS"} /\ pkt.num \in PktNum
      BY <1>2 DEF StoreOps
    <3>2. QED
      BY <3>1, EmitAdds
  <2>10. Good(f)
    BY <1>2, EmitIsGood DEF StoreOps
  <2>4. e \in MayPublish(c, pkt, resend)
    BY <1>2, <2>3 DEF MayPublish, is_waiting
  <2>11. Same(c, f)
    BY DEF Emit, Good, NodeRec, Same
  <2>12. Same(f, t) /\ t.out = f.out /\ Good(t)
    <3>1. /\ t \in NodeRec /\ t.wait = f.wait /\ t.pkt_num = f.pkt_num
          /\ t.signed = f.signed /\ t.out = f.out /\ Same(f, t)
      <4> HIDE DEF f
      <4> QED BY <2>10, AgeTypes DEF Good, NodeRec, Same
    <3> HIDE DEF t, f
    <3>2. QED
      BY <2>10, <3>1, OtherFields DEF Quietly
  <2>5. Same(c, d) /\ d.out = f.out
    <3> HIDE DEF t, f, d
    <3> QED BY <2>1, <2>11, <2>12, UpdateIsQuiet DEF Same
  <2>6. c.pkt_num \in Int
    BY DEF Good, NodeRec, Issued
  <2> HIDE DEF d, e, f
  <2>7. Adds(c, d, {e})
    BY <2>3, <2>5 DEF Adds
  <2>8. Adds(c, d, MayPublish(c, pkt, resend))
    BY <2>4, <2>7, AddsMore
  <2>9. QED
    BY <2>2, <2>5, <2>6, <2>8 DEF Sends, RaisesIfFull, d
<1>3. QED
  BY <1>1, <1>2

\* A status request is held back while a packet waits, an AN is not.
MaySendShort(c, op) == IF op = "AN" THEN Acks ELSE IF c.wait.waiting THEN {} ELSE Polls

LEMMA SendShortSends ==
  ASSUME NEW c, Good(c), NEW op \in {"GS", "AN"}
  PROVE  /\ Sends(c, SendShort(c, op), MaySendShort(c, op))
         /\ RaisesIfFull(c, SendShort(c, op))
<1> DEFINE d == Construct(c)
           p == PktOf(d, op, TRUE)
           e == publish_pkt(d, p, FALSE)
<1>1. /\ Sends(c, d, {}) /\ RaisesIfFull(c, d) /\ Good(d)
      /\ ~d.raised => d.pkt_num \in PktNum
      /\ d.wait = c.wait
  BY ConstructSends, ConstructIsQuiet DEF Quietly
<1>2. p.op \in StoreOps /\ p.fits \in BOOLEAN /\ p.num = d.pkt_num /\ p.op = op
  BY DEF PktOf, StoreOps
<1>3. SendShort(c, op) = e
  BY DEF SendShort
<1> HIDE DEF d, p
<1>4. Sends(d, e, MayPublish(d, p, FALSE)) /\ RaisesIfFull(d, e)
  BY <1>1, <1>2, PublishSends
<1>5. MayPublish(d, p, FALSE) \subseteq MaySendShort(c, op)
  BY <1>1, <1>2 DEF MayPublish, MaySendShort, Polls, Acks
<1> HIDE DEF e
<1>6. Good(e)
  BY <1>4 DEF Sends
<1>7. Sends(c, d, MaySendShort(c, op)) /\ Sends(d, e, MaySendShort(c, op))
  BY <1>1, <1>4, <1>5, SendsMore
<1>8. QED
  BY <1>1, <1>3, <1>4, <1>6, <1>7, SendsTwice, RaisesTwice

\* With nothing sent before, an operator that sends one short packet sends one.
LEMMA SendShortSendsOne ==
  ASSUME NEW c, Good(c), NEW op \in {"GS", "AN"}, c.out = <<>>
  PROVE  Len(SendShort(c, op).out) \in {0, 1}
<1> DEFINE d == Construct(c)
           p == PktOf(d, op, TRUE)
           f == Emit(d, "publish", p.op, p.num, FALSE)
           e == publish_pkt(d, p, FALSE)
<1>1. Good(d) /\ (~d.raised => d.pkt_num \in PktNum) /\ d.out = <<>>
  BY ConstructIsQuiet DEF Quietly, Construct, Good, NodeRec
<1>2. p.fits /\ p.num = d.pkt_num /\ p.op = op
  BY DEF PktOf
<1>3. SendShort(c, op) = e
  BY DEF SendShort
<1> HIDE DEF d, p
<1>4. CASE d.raised
  BY <1>1, <1>3, <1>4 DEF publish_pkt
<1>5. CASE ~d.raised
  <2>1. p.op \in {"DN", "GS", "SC", "AN", "DS"} /\ p.num \in PktNum
    BY <1>1, <1>2, <1>5
  <2>2. Len(f.out) = Len(d.out) + 1
    BY <1>1, <2>1, EmitAdds
  <2>3. e.out = d.out \/ e.out = f.out
    <3> DEFINE t == [f EXCEPT !.tx = 0]
    <3>1. e = d \/ e = update(t)
      BY DEF publish_pkt
    <3>2. t.out = f.out
      BY <1>1 DEF Emit, Good, NodeRec
    <3>3. update(t).out = t.out
      BY <1>1 DEF update, Emit, Good, NodeRec
    <3>4. QED
      BY <3>1, <3>2, <3>3
  <2>4. Len(d.out) = 0
    BY <1>1
  <2> HIDE DEF e, f
  <2>5. Len(e.out) \in {0, 1}
    <3>1. Len(f.out) = 1
      BY <2>2, <2>4
    <3>2. QED
      BY <2>3, <2>4, <3>1, Zenon
  <2>6. QED
    BY <1>3, <2>5
<1>6. QED
  BY <1>4, <1>5

LEMMA SendAndWaitSends ==
  ASSUME NEW c, Good(c), NEW op \in {"DN", "SC"}, NEW fits \in BOOLEAN
  PROVE  /\ Sends(c, SendAndWait(c, op, fits), Orders)
         /\ RaisesIfFull(c, SendAndWait(c, op, fits))
<1> DEFINE d == Construct(c)
           p == PktOf(d, op, fits)
           e == publish_pkt(d, p, FALSE)
           f == [e EXCEPT !.wait = set_wait(p, op = "DN")]
           g == SendAndWait(c, op, fits)
<1>1. Sends(c, d, {}) /\ RaisesIfFull(c, d) /\ Good(d)
      /\ (~d.raised => d.pkt_num \in PktNum)
  BY ConstructSends, ConstructIsQuiet DEF Quietly
<1>2. p.op \in StoreOps /\ p.fits \in BOOLEAN /\ p.num = d.pkt_num /\ p.op = op
  BY DEF PktOf, StoreOps
<1>3. g = IF d.raised THEN d ELSE f
  BY DEF SendAndWait
<1>4. Good(g)
  BY SendAndWaitOffers DEF Quietly, Offers
<1> HIDE DEF d, p, g
<1>5. Sends(d, e, MayPublish(d, p, FALSE)) /\ RaisesIfFull(d, e) /\ Good(e)
  BY <1>1, <1>2, PublishSends DEF Sends
<1>6. MayPublish(d, p, FALSE) \subseteq Orders
  BY <1>2 DEF MayPublish, Orders
<1> HIDE DEF e
<1>7. Sends(c, d, Orders) /\ Sends(d, e, Orders)
  BY <1>1, <1>5, <1>6, SendsMore
<1>8. Sends(c, e, Orders) /\ RaisesIfFull(c, e)
  BY <1>1, <1>5, <1>7, SendsTwice, RaisesTwice
<1>9. Same(e, f) /\ f.out = e.out /\ f.pkt_num = e.pkt_num /\ f.raised = e.raised
  BY <1>5 DEF Good, NodeRec, Same
<1> HIDE DEF f
<1>10. CASE d.raised
  BY <1>1, <1>3, <1>7, <1>10 DEF g
<1>11. CASE ~d.raised
  <2>1. Same(c, g) /\ Adds(c, g, Orders) /\ RaisesIfFull(c, g)
    BY <1>3, <1>8, <1>9, <1>11 DEF Sends, Same, Adds, RaisesIfFull
  <2>2. QED
    BY <1>4, <2>1 DEF Sends, g
<1>12. QED
  BY <1>10, <1>11

\* Data and configurations are held back for a node that is down, too.
MaySendOrder(c) == IF c.wait.waiting \/ ~is_state_up(c) THEN {} ELSE Orders

LEMMA SendDataSends ==
  ASSUME NEW c, Good(c), NEW fits \in BOOLEAN
  PROVE  Sends(c, send_data_to_node(c, fits), MaySendOrder(c))
<1>1. CASE MaySend(c)
  BY <1>1, SendAndWaitSends DEF send_data_to_node, MaySend, is_waiting, MaySendOrder
<1>2. CASE ~MaySend(c)
  BY <1>2, SendsNothing DEF send_data_to_node
<1>3. QED
  BY <1>1, <1>2

LEMMA SendSetConfigSends ==
  ASSUME NEW c, Good(c)
  PROVE  /\ Sends(c, send_set_config(c), MaySendOrder(c))
         /\ ~is_state_up(c) => send_set_config(c) = c
<1> DEFINE d == [c EXCEPT !.raised = TRUE]
<1>1. CASE MaySend(c) /\ c.cfg = {}
  BY <1>1, SendAndWaitSends DEF send_set_config, MaySend, is_waiting, MaySendOrder
<1>2. CASE MaySend(c) /\ c.cfg # {}
  <2>1. /\ d \in NodeRec /\ d.wait = c.wait /\ d.pkt_num = c.pkt_num
        /\ d.signed = c.signed /\ d.out = c.out /\ Same(c, d)
    BY DEF Good, NodeRec, Same
  <2>2. send_set_config(c) = d
    BY <1>2 DEF send_set_config
  <2> HIDE DEF d
  <2>3. Good(d) /\ Adds(c, d, MaySendOrder(c))
    BY <2>1, OtherFields, AddsNothing DEF Quietly
  <2>4. QED
    BY <1>2, <2>1, <2>2, <2>3 DEF Sends, MaySend
<1>3. CASE ~MaySend(c)
  BY <1>3, SendsNothing DEF send_set_config, MaySend
<1>4. QED
  BY <1>1, <1>2, <1>3

\* set_state changes the state unless an exception came before, and asks for
\* the status of a node that is TRANSMITTING.
MayPoll(c, new) == IF new = "TRANSMITTING" /\ ~c.wait.waiting THEN Polls ELSE {}

LEMMA SetStateSends ==
  ASSUME NEW c, Good(c), NEW new \in States
  PROVE  LET d == set_state(c, new)
         IN  /\ Good(d) /\ d.wait = c.wait
             /\ d.rx = c.rx /\ d.via = c.via /\ d.cfg = c.cfg
             /\ d.last_packet_num = c.last_packet_num
             /\ Adds(c, d, MayPoll(c, new))
             /\ RaisesIfFull(c, d)
             /\ c.raised => d = c
             /\ ~c.raised => d.state = new
             /\ new # "TRANSMITTING" => d.raised = c.raised
<1> DEFINE s == [c EXCEPT !.state = new]
           g == SendShort(s, "GS")
           h == IF new = "TRANSMITTING" THEN g ELSE s
           d == set_state(c, new)
<1>1. CASE c.raised
  BY <1>1, SendsNothing DEF set_state, Sends, Same
<1>2. CASE ~c.raised
  <2>1. /\ s \in NodeRec /\ s.wait = c.wait /\ s.pkt_num = c.pkt_num
        /\ s.signed = c.signed /\ s.out = c.out /\ s.state = new
        /\ s.rx = c.rx /\ s.via = c.via /\ s.cfg = c.cfg
        /\ s.last_packet_num = c.last_packet_num /\ s.raised = c.raised
    BY DEF Good, NodeRec
  <2>2. d = update(h)
    BY <1>2 DEF set_state, send_get_status
  <2> HIDE DEF s
  <2>3. Good(s)
    BY <2>1, OtherFields DEF Quietly
  <2>4. Sends(s, g, MaySendShort(s, "GS")) /\ RaisesIfFull(s, g) /\ g.wait = s.wait
    BY <2>3, SendShortSends, SendShortIsQuiet DEF Quietly
  <2>5. Adds(c, s, MayPoll(c, new)) /\ RaisesIfFull(c, s)
    BY <2>1, <2>3, AddsNothing DEF RaisesIfFull, Good, NodeRec, Issued
  <2>9. Good(h)
    BY <2>3, <2>4 DEF Sends
  <2> HIDE DEF g, h, d
  <2>10. /\ Good(d) /\ d.wait = h.wait /\ d.rx = h.rx /\ d.via = h.via /\ d.cfg = h.cfg
         /\ d.last_packet_num = h.last_packet_num /\ d.out = h.out
         /\ d.pkt_num = h.pkt_num /\ d.raised = h.raised /\ d.state = h.state
    BY <2>2, <2>9, UpdateIsQuiet
  <2>6. CASE new = "TRANSMITTING"
    <3>1. MaySendShort(s, "GS") = MayPoll(c, new)
      BY <2>1, <2>6 DEF MaySendShort, MayPoll
    <3>2. Adds(c, g, MayPoll(c, new))
      BY <2>1, <2>4, <3>1 DEF Sends, Adds
    <3>3. Good(g) /\ RaisesIfFull(c, g)
      BY <2>1, <2>4 DEF Sends, RaisesIfFull
    <3>4. h = g
      BY <2>6 DEF h
    <3>5. Adds(c, d, MayPoll(c, new)) /\ RaisesIfFull(c, d)
      BY <2>10, <3>2, <3>3, <3>4 DEF Adds, RaisesIfFull
    <3>6. QED
      BY <1>2, <2>1, <2>4, <2>6, <2>10, <3>4, <3>5 DEF Sends, Same, d
  <2>7. CASE new # "TRANSMITTING"
    <3>1. h = s
      BY <2>7 DEF h
    <3>2. Adds(c, d, MayPoll(c, new)) /\ RaisesIfFull(c, d)
      BY <2>5, <2>10, <3>1 DEF Adds, RaisesIfFull
    <3>3. QED
      BY <1>2, <2>1, <2>7, <2>10, <3>1, <3>2 DEF d
  <2>8. QED
    BY <2>6, <2>7
<1>3. QED
  BY <1>1, <1>2

----------------------------------------------------------------------------
(* Receiving.                                                              *)

\* The data behind an AN is in the database already.
AcksStored(d) ==
  \A i \in 1 .. Len(d.out) :
    d.out[i].op = "AN" =>
      \E j \in 1 .. i - 1 : d.out[j].kind = "insert" /\ d.out[j].op = "DS"

\* A node heard within the present second is up, unless it is OFFLINE.
UpIfHeard(c) == c.rx = 0 => is_state_up(c) \/ is_offline(c)

LEMMA NoAckIsStored ==
  ASSUME NEW d, NEW S, Only(d, S), \A e \in S : e.op # "AN"
  PROVE  AcksStored(d)
  BY DEF Only, AcksStored

LEMMA AcksStayStored ==
  ASSUME NEW c, NEW d, NEW S, Good(c), Good(d), AcksStored(c), Adds(c, d, S),
         \A e \in S : e.op # "AN"
  PROVE  AcksStored(d)
<1>1. Len(c.out) \in Nat /\ Len(d.out) \in Nat
  BY OutType
<1>2. ASSUME NEW i \in 1 .. Len(d.out), d.out[i].op = "AN"
      PROVE  \E j \in 1 .. i - 1 : d.out[j].kind = "insert" /\ d.out[j].op = "DS"
  <2>1. i \in 1 .. Len(c.out) /\ d.out[i] = c.out[i]
    BY <1>1, <1>2 DEF Adds
  <2>2. PICK j \in 1 .. i - 1 : c.out[j].kind = "insert" /\ c.out[j].op = "DS"
    BY <1>2, <2>1 DEF AcksStored
  <2>3. d.out[j] = c.out[j]
    BY <1>1, <2>1 DEF Adds
  <2>4. QED
    BY <2>2, <2>3
<1>3. QED
  BY <1>2 DEF AcksStored

\* With nothing sent before, what a step adds is all it sends.
LEMMA AddsAll ==
  ASSUME NEW c, NEW d, NEW S, Good(c), Good(d), c.out = <<>>, Adds(c, d, S)
  PROVE  Only(d, S)
<1>1. Len(c.out) = 0 /\ Len(d.out) \in Nat
  BY OutType
<1>2. QED
  BY <1>1 DEF Adds, Only

LEMMA StoreDataStores ==
  ASSUME NEW c, Good(c), NEW num \in PktNum, c.out = <<>>, ~c.raised
  PROVE  LET d == store_data(c, num)
         IN  /\ Good(d) /\ Same(c, d)
             /\ AcksStored(d) /\ Only(d, Data \cup Acks)
             /\ RaisesIfFull(c, d)
<1> DEFINE i == Emit(c, "insert", "DS", num, FALSE)
           a == SendShort(i, "AN")
           f == Emit(a, "public", "DS", num, FALSE)
           d == store_data(c, num)
<1>1. d = IF a.raised THEN a ELSE f
  BY DEF store_data, send_ack_to_node
<1>2. /\ Adds(c, i, Data) /\ Len(i.out) = 1
      /\ i.out[1].kind = "insert" /\ i.out[1].op = "DS"
  <2> DEFINE e == [kind |-> "insert", op |-> "DS", num |-> num, resend |-> FALSE]
  <2>1. e \in Data /\ e.kind = "insert" /\ e.op = "DS"
    BY DEF Data, Effects
  <2>2. Adds(c, i, {e}) /\ Len(i.out) = Len(c.out) + 1 /\ i.out[Len(i.out)] = e
    BY EmitAdds
  <2>3. Len(c.out) = 0
    BY Zenon, EmptySeq
  <2> HIDE DEF i, e
  <2>4. QED
    BY <2>1, <2>2, <2>3, AddsMore
<1>3. /\ Good(i) /\ Same(c, i) /\ RaisesIfFull(c, i)
  <2>1. Good(i)
    BY EmitIsGood
  <2>2. c \in NodeRec /\ c.pkt_num \in Int
    BY DEF Good, NodeRec, Issued
  <2>3. Same(c, i) /\ i.pkt_num = c.pkt_num /\ i.raised = c.raised
    BY <2>2 DEF Emit, NodeRec, Same
  <2> HIDE DEF i
  <2>4. QED
    BY <2>1, <2>2, <2>3 DEF RaisesIfFull
<1> HIDE DEF i
<1>4. Sends(i, a, Acks) /\ RaisesIfFull(i, a) /\ Good(a)
  BY <1>3, SendShortSends DEF MaySendShort, Sends
<1> HIDE DEF a
<1>5. /\ Good(f) /\ Same(a, f) /\ RaisesIfFull(a, f) /\ Adds(a, f, Data)
  <2> DEFINE e == [kind |-> "public", op |-> "DS", num |-> num, resend |-> FALSE]
  <2>1. Good(f)
    BY <1>4, EmitIsGood
  <2>2. e \in Data
    BY DEF Data, Effects
  <2>3. Adds(a, f, {e})
    BY <1>4, EmitAdds
  <2>4. Adds(a, f, Data)
    <3> HIDE DEF f, e
    <3> QED BY <2>2, <2>3, AddsMore
  <2>5. Same(a, f) /\ RaisesIfFull(a, f)
    BY <1>4 DEF Emit, Good, NodeRec, Same, RaisesIfFull, Issued
  <2>6. QED
    BY <2>1, <2>4, <2>5
<1> HIDE DEF f
<1>6. Adds(i, a, Data \cup Acks) /\ Adds(a, f, Data \cup Acks)
  BY <1>4, <1>5, AddsMore DEF Sends
<1>7. Adds(i, d, Data \cup Acks) /\ Good(d) /\ Same(c, d) /\ RaisesIfFull(c, d)
  BY <1>1, <1>3, <1>4, <1>5, <1>6, AddsTwice, RaisesTwice DEF Sends, Same
<1> HIDE DEF d
<1>8. Only(i, Data \cup Acks)
  BY <1>2, <1>3, AddsAll, OnlyMore
<1>9. Only(d, Data \cup Acks)
  BY <1>3, <1>7, <1>8, OnlyAdds
<1>10. Len(d.out) \in Nat /\ d.out[1] = i.out[1]
  BY <1>2, <1>7, OutType DEF Adds
<1>11. ASSUME NEW k \in 1 .. Len(d.out), d.out[k].op = "AN"
       PROVE  \E j \in 1 .. k - 1 : d.out[j].kind = "insert" /\ d.out[j].op = "DS"
  <2>1. k # 1
    BY <1>2, <1>10, <1>11
  <2>2. 1 \in 1 .. k - 1
    BY <1>10, <2>1
  <2>3. QED
    BY <1>2, <1>10, <2>2
<1>12. AcksStored(d)
  BY <1>11 DEF AcksStored
<1>13. QED
  BY <1>7, <1>9, <1>12 DEF d

\* A sign-on of a node that is down raises nothing and sends nothing.
LEMMA SignOnSends ==
  ASSUME NEW c, Good(c), c.out = <<>>, ~c.raised
  PROVE  LET d == SignOn(c)
         IN  /\ Good(d) /\ d.rx = c.rx
             /\ Only(d, Orders)
             /\ IF d.raised THEN d.state = c.state ELSE d.state = "ONLINE"
             /\ ~is_state_up(c) => ~d.raised /\ Only(d, {})
<1> DEFINE s == [c EXCEPT !.wait = clear_wait, !.cfg = @ \ {"max_silence", "slid"}, !.signed = TRUE]
           e == send_set_config(s)
           d == SignOn(c)
<1>1. d = set_state(e, "ONLINE") /\ Good(d)
  BY SignOnSignsOn DEF SignOn, SignsOn
<1>2. /\ s \in NodeRec /\ s.wait = clear_wait /\ s.state = c.state
      /\ s.rx = c.rx /\ s.out = c.out /\ ~s.raised
  BY ClearWaitType DEF Good, NodeRec
<1> HIDE DEF s, d
<1>3. Good(s)
  BY <1>2 DEF Good, WaitCoherent, clear_wait
<1>4. Sends(s, e, MaySendOrder(s)) /\ (~is_state_up(s) => e = s) /\ Good(e)
  BY <1>3, SendSetConfigSends DEF Sends
<1> HIDE DEF e
<1>5. /\ d.rx = e.rx /\ Adds(e, d, MayPoll(e, "ONLINE"))
      /\ d.raised = e.raised
      /\ e.raised => d = e
      /\ ~e.raised => d.state = "ONLINE"
  BY <1>1, <1>4, SetStateSends DEF States, CodeStates
<1>6. MayPoll(e, "ONLINE") = {}
  BY DEF MayPoll
<1>7. ASSUME NEW S, Adds(s, e, S) PROVE Only(d, S)
  <2>1. Only(e, S)
    BY <1>2, <1>3, <1>4, <1>7, AddsAll
  <2>2. Adds(e, d, S)
    BY <1>5, <1>6, AddsMore
  <2>3. QED
    BY <1>1, <1>4, <2>1, <2>2, OnlyAdds
<1>8. Only(d, Orders)
  <2>1. MaySendOrder(s) \subseteq Orders
    BY DEF MaySendOrder
  <2>2. QED
    BY <1>4, <1>7, <2>1, AddsMore DEF Sends
<1>9. ~is_state_up(c) => ~d.raised /\ Only(d, {})
  <2>1. ~is_state_up(c) => MaySendOrder(s) = {} /\ e = s
    BY <1>2, <1>4 DEF is_state_up, MaySendOrder
  <2>2. QED
    BY <1>2, <1>4, <1>5, <1>7, <2>1 DEF Sends
<1>10. QED
  BY <1>1, <1>2, <1>4, <1>5, <1>8, <1>9 DEF Sends, Same, d

LEMMA AcknowledgedSends ==
  ASSUME NEW c, Good(c), c.out = <<>>
  PROVE  LET d == Acknowledged(c)
         IN  Good(d) /\ d.wait = clear_wait /\ Only(d, Orders)
             /\ d.rx = c.rx /\ d.state = c.state /\ d.raised = c.raised
<1> DEFINE s == [c EXCEPT !.wait = clear_wait]
           pkt == Stopped(c.wait)
           e == Emit(s, "insert", pkt.op, pkt.num, FALSE)
           d == Acknowledged(c)
<1>1. Good(d) /\ d.wait = clear_wait /\ d = IF pkt = NoPkt THEN s ELSE e
  BY AcknowledgedConfirms DEF Confirms, Acknowledged
<1>2. /\ s \in NodeRec /\ s.wait = clear_wait /\ s.state = c.state
      /\ s.rx = c.rx /\ s.out = c.out /\ s.raised = c.raised
  BY ClearWaitType DEF Good, NodeRec
<1> HIDE DEF s, d
<1>3. Good(s)
  BY <1>2 DEF Good, WaitCoherent, clear_wait
<1>4. Only(s, Orders)
  BY <1>2, <1>3, AddsNothing, AddsAll
<1>5. CASE pkt = NoPkt
  BY <1>1, <1>2, <1>4, <1>5 DEF d
<1>6. CASE pkt # NoPkt
  <2>1. pkt \in WaitPkts
    BY <1>6 DEF Good, WaitCoherent, Stopped, clear_wait
  <2>2. pkt.op \in {"DN", "SC"} /\ pkt.num \in PktNum
    BY <2>1 DEF WaitPkts
  <2> HIDE DEF pkt
  <2> DEFINE f == [kind |-> "insert", op |-> pkt.op, num |-> pkt.num, resend |-> FALSE]
  <2>3. Adds(s, e, {f}) /\ f \in Effects /\ Good(e)
    BY <1>3, <2>2, EmitAdds, EmitIsGood
  <2>4. f \in Orders
    BY <2>2, <2>3 DEF Orders
  <2>5. /\ e.state = s.state /\ e.rx = s.rx /\ e.raised = s.raised
    BY <1>2 DEF Emit, NodeRec
  <2> HIDE DEF e, f
  <2>6. Only(e, Orders)
    BY <1>3, <1>4, <2>3, <2>4, AddsMore, OnlyAdds
  <2>7. QED
    BY <1>1, <1>2, <1>6, <2>5, <2>6 DEF d
<1>7. QED
  BY <1>5, <1>6

\* A node heard of is up, or was OFFLINE and signs nothing; one that bridged a
\* packet is up in any case.
LEMMA MarkHeardSends ==
  ASSUME NEW c, Good(c), ~c.raised
  PROVE  LET d == MarkHeard(c)
         IN  /\ Good(d) /\ d.wait = c.wait /\ UpIfHeard(d)
             /\ d.rx = 0
             /\ Adds(c, d, MayPoll(c, "TRANSMITTING"))
             /\ is_offline(c) => is_offline(d) /\ Adds(c, d, {})
             /\ ~is_offline(c) => ~is_offline(d)
<1> DEFINE s == [c EXCEPT !.rx = 0]
           t == set_state(s, "TRANSMITTING")
           h == IF ~is_offline(s) /\ ~is_state_up(s) THEN t ELSE s
           d == MarkHeard(c)
<1>1. /\ s \in NodeRec /\ s.wait = c.wait /\ s.state = c.state
      /\ s.rx = 0 /\ s.out = c.out /\ ~s.raised
      /\ s.pkt_num = c.pkt_num /\ s.signed = c.signed
  BY AgeTypes DEF Good, NodeRec
<1>2. d = update(h)
  BY DEF MarkHeard
<1> HIDE DEF s, d
<1>3. Good(s)
  BY <1>1, OtherFields DEF Quietly
<1>4. /\ Good(t) /\ t.wait = s.wait /\ t.rx = s.rx
      /\ Adds(s, t, MayPoll(s, "TRANSMITTING"))
      /\ t.state = "TRANSMITTING"
  BY <1>1, <1>3, SetStateSends DEF States, CodeStates
<1> HIDE DEF t
<1>8. Good(h)
  BY <1>3, <1>4
<1>9. /\ Good(d) /\ d.wait = h.wait /\ d.rx = h.rx /\ d.state = h.state /\ d.out = h.out
  <2> HIDE DEF h
  <2> QED BY <1>2, <1>8, UpdateIsQuiet
<1>10. \A S : Adds(c, h, S) => Adds(c, d, S)
  BY <1>9 DEF Adds
<1>5. CASE ~is_offline(s) /\ ~is_state_up(s)
  <2>1. h = t
    BY <1>5
  <2> HIDE DEF h
  <2>2. Adds(c, t, MayPoll(c, "TRANSMITTING"))
    BY <1>1, <1>4 DEF Adds, MayPoll
  <2>3. is_state_up(d) /\ ~is_offline(d)
    BY <1>4, <1>9, <2>1 DEF is_state_up, is_offline, UPSTATES
  <2>4. ~is_offline(c)
    BY <1>1, <1>5 DEF is_offline
  <2>5. Adds(c, d, MayPoll(c, "TRANSMITTING"))
    BY <1>10, <2>1, <2>2
  <2>6. QED
    BY <1>1, <1>4, <1>9, <2>1, <2>3, <2>4, <2>5 DEF d, UpIfHeard
<1>6. CASE is_offline(s) \/ is_state_up(s)
  <2>1. h = s
    BY <1>6
  <2> HIDE DEF h
  <2>2. \A S : Adds(c, d, S)
    BY <1>1, <1>10, <2>1, AddsNothing
  <2>3. d.state = c.state /\ d.rx = 0 /\ d.wait = c.wait
    BY <1>1, <1>9, <2>1
  <2>4. is_offline(d) \/ is_state_up(d)
    BY <1>1, <1>6, <2>3 DEF is_offline, is_state_up
  <2>5. is_offline(c) <=> is_offline(d)
    BY <2>3 DEF is_offline
  <2>6. QED
    BY <1>9, <2>2, <2>3, <2>4, <2>5 DEF d, UpIfHeard
<1>7. QED
  BY <1>5, <1>6

LEMMA BridgedSends ==
  ASSUME NEW c, Good(c), ~c.raised
  PROVE  LET d == Bridged(c)
         IN  /\ Good(d) /\ d.wait = c.wait /\ is_state_up(d)
             /\ d.rx = 0
             /\ Adds(c, d, MayPoll(c, "TRANSMITTING"))
             /\ d.raised => d.pkt_num > MaxPktNum /\ d.state = "TRANSMITTING"
<1> DEFINE s == [c EXCEPT !.rx = 0]
           t == set_state(s, "TRANSMITTING")
           d == Bridged(c)
<1>1. /\ s \in NodeRec /\ s.wait = c.wait /\ s.state = c.state
      /\ s.rx = 0 /\ s.out = c.out /\ ~s.raised
      /\ s.pkt_num = c.pkt_num /\ s.signed = c.signed
  BY AgeTypes DEF Good, NodeRec
<1>2. d = IF is_state_up(s) THEN update(s) ELSE t
  BY DEF Bridged
<1> HIDE DEF s, d
<1>3. Good(s)
  BY <1>1, OtherFields DEF Quietly
<1>4. /\ Good(t) /\ t.wait = s.wait /\ t.rx = s.rx
      /\ Adds(s, t, MayPoll(s, "TRANSMITTING"))
      /\ t.state = "TRANSMITTING" /\ RaisesIfFull(s, t)
  BY <1>1, <1>3, SetStateSends DEF States, CodeStates
<1> HIDE DEF t
<1>5. CASE ~is_state_up(s)
  <2>1. Adds(c, t, MayPoll(c, "TRANSMITTING"))
    BY <1>1, <1>4 DEF Adds, MayPoll
  <2>2. is_state_up(t)
    BY <1>4 DEF is_state_up, UPSTATES
  <2>3. QED
    BY <1>1, <1>2, <1>4, <1>5, <2>1, <2>2 DEF d, RaisesIfFull
<1>6. CASE is_state_up(s)
  <2>1. /\ Good(d) /\ d.wait = s.wait /\ d.rx = s.rx /\ d.state = s.state
        /\ d.out = s.out /\ d.raised = s.raised
    BY <1>2, <1>3, <1>6, UpdateIsQuiet
  <2>2. \A S : Adds(c, d, S)
    BY <1>1, <2>1, AddsNothing
  <2>3. is_state_up(d)
    BY <1>6, <2>1 DEF is_state_up
  <2>4. QED
    BY <1>1, <2>1, <2>2, <2>3 DEF d
<1>7. QED
  BY <1>5, <1>6

----------------------------------------------------------------------------
(* What a step does.                                                       *)

InTurn(c) == {e \in Effects : e.kind = "publish" =>
                                 e.op = "AN" \/ (e.resend /\ e.num = c.wait.pkt.num)}
NoPolls    == {e \in Effects : ~(e.kind = "publish" /\ e.op = "GS")}
NoData     == {e \in Effects : e.op # "DS"}

LEMMA EffectSets ==
  /\ \A c : Data \cup Acks \subseteq InTurn(c) /\ Copies(c) \subseteq InTurn(c)
  /\ Data \cup Acks \subseteq NoPolls /\ Orders \subseteq NoPolls
  /\ \A c : Copies(c) \subseteq NoPolls
  /\ Polls \subseteq NoData
  /\ \A e \in Polls \cup Orders : e.op # "AN"
  /\ \A c : \A e \in Copies(c) : e.op # "AN"
  BY DEF InTurn, NoPolls, NoData, Polls, Acks, Orders, Data, Copies

\* A packet that waits is not the one a sign-on leaves waiting.
LEMMA WaitEndsOr ==
  ASSUME NEW c, NEW d, Good(c), c.wait.waiting,
         d.wait = clear_wait \/ NewPacket(c, d, "SC")
  PROVE  d.wait.pkt # c.wait.pkt
<1>1. c.wait.pkt \in WaitPkts /\ c.wait.pkt.num <= c.pkt_num /\ c.pkt_num \in Int
      /\ c.wait.pkt.num \in Int
  BY DEF Good, WaitCoherent, NodeRec, Issued, WaitPkts, PktNum
<1>2. CASE d.wait = clear_wait
  BY <1>1, <1>2, NoPktIsNotWaited DEF clear_wait
<1>3. CASE NewPacket(c, d, "SC")
  <2>1. d.wait.pkt.num > c.pkt_num
    BY <1>3 DEF NewPacket
  <2>2. QED
    BY <1>1, <2>1
<1>4. QED
  BY <1>2, <1>3

\* What the branch of post_data leaves for the lines after it.
Branches(c, b, p) ==
  /\ Good(b)
  /\ b.rx = c.rx
  /\ b.raised \/ ReturnsEarly(p) => b.state \in {c.state, "TRANSMITTING"}
  /\ AcksStored(b)
  /\ c.wait.waiting /\ b.wait.pkt = c.wait.pkt => b.wait.waiting /\ Only(b, InTurn(c))
  /\ is_offline(c) =>
       IF is_offline(b) THEN Only(b, NoPolls)
       ELSE Only(b, NoData) /\ (b.raised => RanOut(b)) /\ ~ReturnsEarly(p)

\* A branch that changes no more than `raised` and what it adds to the effects.
LEMMA TameBranch ==
  ASSUME NEW c, Good(c), NEW b, NEW p, Good(b), b.rx = c.rx, b.state = c.state,
         AcksStored(b), Only(b, NoPolls),
         c.wait.waiting /\ b.wait.pkt = c.wait.pkt => Only(b, InTurn(c))
  PROVE  Branches(c, b, p)
<1>1. c.wait.waiting /\ b.wait.pkt = c.wait.pkt => b.wait.waiting
  BY NoPktIsNotWaited DEF Good, WaitCoherent, clear_wait
<1>2. QED
  BY <1>1 DEF Branches, is_offline

LEMMA SetStateBranches ==
  ASSUME NEW c, Good(c), NEW p, p.op # "TR", NEW new \in States, c.out = <<>>, ~c.raised
  PROVE  Branches(c, set_state(c, new), p)
<1> DEFINE b == set_state(c, new)
<1>1. /\ Good(b) /\ b.wait = c.wait /\ b.rx = c.rx
      /\ Adds(c, b, MayPoll(c, new))
      /\ RaisesIfFull(c, b) /\ b.state = new
      /\ new # "TRANSMITTING" => ~b.raised
  BY SetStateSends
<1> HIDE DEF b
<1>2. Only(b, MayPoll(c, new))
  BY <1>1, AddsAll
<1>3. /\ MayPoll(c, new) \subseteq Polls
      /\ c.wait.waiting \/ new # "TRANSMITTING" => MayPoll(c, new) = {}
  BY DEF MayPoll
<1>4. AcksStored(b)
  BY <1>2, <1>3, NoAckIsStored, EffectSets
<1>5. c.wait.waiting => Only(b, InTurn(c))
  BY <1>2, <1>3, OnlyMore
<1>6. is_offline(b) => Only(b, NoPolls)
  BY <1>1, <1>2, <1>3, OnlyMore DEF is_offline
<1>7. Only(b, NoData)
  BY <1>2, <1>3, OnlyMore, EffectSets
<1>8. b.raised => RanOut(b)
  BY <1>1 DEF RaisesIfFull, RanOut
<1>9. QED
  BY <1>1, <1>4, <1>5, <1>6, <1>7, <1>8 DEF Branches, ReturnsEarly, RanOut, b

LEMMA OpBranchBranches ==
  ASSUME NEW c, Good(c), NEW p \in Inbound, c.out = <<>>, ~c.raised
  PROVE  Branches(c, OpBranch(c, p), p)
<1> DEFINE b == OpBranch(c, p)
           r == [c EXCEPT !.raised = TRUE]
<1>1. /\ p.op \in NodeOps /\ p.num \in PktNum
      /\ p.op = "SS" => p.arg \in States
  BY InboundTypes
<1>2. \A d, S : d.out = <<>> => Only(d, S) /\ AcksStored(d)
  BY DEF Only, AcksStored
<1>3. Branches(c, r, p)
  <2>1. /\ r \in NodeRec /\ r.wait = c.wait /\ r.pkt_num = c.pkt_num
        /\ r.signed = c.signed /\ r.out = c.out /\ r.rx = c.rx /\ r.state = c.state
    BY DEF Good, NodeRec
  <2> HIDE DEF r
  <2>2. Good(r)
    BY <2>1, OtherFields DEF Quietly
  <2>3. QED
    BY <1>2, <2>1, <2>2, TameBranch
<1>4. Branches(c, c, p)
  BY <1>2, TameBranch
<1> HIDE DEF r
<1>5. CASE p.op = "RC"
  <2>1. b = SignOn(c)
    BY <1>5 DEF OpBranch
  <2>2. /\ Good(b) /\ b.rx = c.rx
        /\ Only(b, Orders)
        /\ IF b.raised THEN b.state = c.state ELSE b.state = "ONLINE"
        /\ ~is_state_up(c) => ~b.raised /\ Only(b, {})
    BY <2>1, SignOnSends
  <2>3. c.wait.waiting => b.wait.pkt # c.wait.pkt
    BY <2>1, SignOnSignsOn, WaitEndsOr DEF SignsOn
  <2> HIDE DEF b
  <2>4. AcksStored(b)
    BY <2>2, NoAckIsStored, EffectSets
  <2>5. is_offline(c) => ~is_offline(b) /\ ~b.raised /\ Only(b, NoData)
    BY <2>2, OnlyMore DEF is_offline, is_state_up, UPSTATES
  <2>6. QED
    BY <1>5, <2>2, <2>3, <2>4, <2>5 DEF Branches, ReturnsEarly, b
<1>6. CASE p.op = "OF"
  <2>1. b = set_state(c, "OFFLINE") /\ "OFFLINE" \in States
    BY <1>6 DEF OpBranch, States, CodeStates
  <2>2. QED
    BY <1>6, <2>1, SetStateBranches
<1>7. CASE p.op = "DS"
  <2>1. b = store_data(c, p.num)
    BY <1>7 DEF OpBranch
  <2>2. /\ Good(b) /\ Same(c, b) /\ AcksStored(b) /\ Only(b, Data \cup Acks)
    BY <1>1, <2>1, StoreDataStores
  <2> HIDE DEF b
  <2>3. Only(b, NoPolls) /\ Only(b, InTurn(c))
    BY <2>2, OnlyMore, EffectSets
  <2>4. QED
    BY <2>2, <2>3, TameBranch DEF Same, b
<1>8. CASE p.op = "SS"
  <2>1. b = set_state(c, p.arg)
    BY <1>8 DEF OpBranch
  <2>2. QED
    BY <1>1, <1>8, <2>1, SetStateBranches
<1>9. CASE p.op = "AS"
  <2>1. CASE p.arg = "known"
    <3>1. b = Acknowledged(c)
      BY <1>9, <2>1 DEF OpBranch
    <3>2. /\ Good(b) /\ b.wait = clear_wait /\ Only(b, Orders)
          /\ b.rx = c.rx /\ b.state = c.state
      BY <3>1, AcknowledgedSends
    <3> HIDE DEF b
    <3>3. AcksStored(b) /\ Only(b, NoPolls)
      BY <3>2, NoAckIsStored, OnlyMore, EffectSets
    <3>4. c.wait.waiting => b.wait.pkt # c.wait.pkt
      BY <3>2, WaitEndsOr
    <3>5. QED
      BY <3>2, <3>3, <3>4, TameBranch DEF b
  <2>2. CASE p.arg # "known"
    BY <1>3, <1>9, <2>2 DEF OpBranch, r
  <2>3. QED
    BY <2>1, <2>2
<1>10. CASE p.op \in {"TR", "Other", "Control"}
  <2>1. b = c \/ b = r
    BY <1>10 DEF OpBranch, r
  <2>2. QED
    BY <1>3, <1>4, <2>1
<1>11. QED
  BY <1>1, <1>5, <1>6, <1>7, <1>8, <1>9, <1>10 DEF NodeOps

(***************************************************************************)
(* What every step but Restart and a repeated packet does to the record it *)
(* starts with: the four properties that are proved below, at once.        *)
(***************************************************************************)
LeftAlone(d) ==
  IF is_offline(d) THEN Only(d, NoPolls)
  ELSE (d.rx = 0 /\ Only(d, NoData)) \/ RanOut(d)

Behaves(c, d) ==
  /\ Good(d)
  /\ NodeMaxSilence > 0 /\ UpIfHeard(c) => UpIfHeard(d)
  /\ c.wait.waiting /\ d.wait.pkt = c.wait.pkt => Only(d, InTurn(c))
  /\ AcksStored(d)
  /\ is_offline(c) => LeftAlone(d)

LEMMA SilentBehaves ==
  ASSUME NEW c, NEW d, Good(d), d.out = <<>>, d.state = c.state,
         NodeMaxSilence > 0 /\ UpIfHeard(c) => UpIfHeard(d)
  PROVE  Behaves(c, d)
<1>1. \A S : Only(d, S) /\ AcksStored(d)
  BY DEF Only, AcksStored
<1>2. QED
  BY <1>1 DEF Behaves, LeftAlone, is_offline

LEMMA AcceptBehaves ==
  ASSUME NEW c, Good(c), NEW p \in Inbound, NEW lost \in BOOLEAN,
         c.out = <<>>, ~c.raised
  PROVE  Behaves(c, Accept(c, p, lost))
<1> DEFINE num == [c EXCEPT !.last_packet_num = LastAfter(c.last_packet_num, p.num)]
           r == [num EXCEPT !.via = p.via]
           b == OpBranch(r, p)
           e == MarkHeard(b)
           d == Accept(c, p, lost)
<1>1. d = IF lost THEN num ELSE IF b.raised \/ ReturnsEarly(p) THEN b ELSE e
  BY DEF Accept
<1>2. Good(num)
  BY InboundTypes, LastPacketNumIsQuiet DEF Quietly
<1>3. /\ num.out = <<>> /\ ~num.raised /\ num.state = c.state /\ num.rx = c.rx
      /\ num.wait = c.wait
  BY DEF Good, NodeRec
<1> HIDE DEF num
<1>4. /\ r \in NodeRec /\ r.wait = num.wait /\ r.pkt_num = num.pkt_num
      /\ r.signed = num.signed /\ r.out = num.out /\ r.raised = num.raised
      /\ r.state = num.state /\ r.rx = num.rx
  BY <1>2, InboundTypes DEF Good, NodeRec
<1> HIDE DEF r
<1>5. Good(r)
  BY <1>2, <1>4, OtherFields DEF Quietly
<1>6. Branches(r, b, p)
  BY <1>3, <1>4, <1>5, OpBranchBranches
<1> HIDE DEF b, d
<1>7. CASE lost
  <2>1. UpIfHeard(c) => UpIfHeard(num)
    BY <1>3 DEF UpIfHeard, is_state_up, is_offline
  <2>2. QED
    BY <1>1, <1>2, <1>3, <1>7, <2>1, SilentBehaves DEF d
<1>8. InTurn(r) = InTurn(c)
  BY <1>3, <1>4 DEF InTurn
<1>9. CASE ~lost /\ (b.raised \/ ReturnsEarly(p))
  <2>1. UpIfHeard(c) => UpIfHeard(b)
    BY <1>3, <1>4, <1>6, <1>9 DEF Branches, UpIfHeard, is_state_up, is_offline, UPSTATES
  <2>2. is_offline(c) => LeftAlone(b)
    BY <1>3, <1>4, <1>6, <1>9 DEF Branches, LeftAlone, is_offline
  <2>3. Behaves(c, b)
    BY <1>3, <1>4, <1>6, <1>8, <2>1, <2>2 DEF Branches, Behaves
  <2>4. QED
    BY <1>1, <1>9, <2>3 DEF d
<1>10. CASE ~lost /\ ~(b.raised \/ ReturnsEarly(p))
  <2>1. Good(b)
    BY <1>6 DEF Branches
  <2>2. /\ Good(e) /\ e.wait = b.wait /\ UpIfHeard(e)
        /\ e.rx = 0
        /\ Adds(b, e, MayPoll(b, "TRANSMITTING"))
        /\ is_offline(b) => is_offline(e) /\ Adds(b, e, {})
        /\ ~is_offline(b) => ~is_offline(e)
    BY <1>10, <2>1, MarkHeardSends
  <2> HIDE DEF e
  <2>3. /\ MayPoll(b, "TRANSMITTING") \subseteq Polls
        /\ b.wait.waiting => MayPoll(b, "TRANSMITTING") = {}
    BY DEF MayPoll
  <2>4. Adds(b, e, Polls)
    BY <2>2, <2>3, AddsMore
  <2>5. AcksStored(e)
    BY <1>6, <2>1, <2>2, <2>4, AcksStayStored, EffectSets DEF Branches
  <2>6. ASSUME c.wait.waiting, e.wait.pkt = c.wait.pkt
        PROVE  Only(e, InTurn(c))
    <3>1. b.wait.waiting /\ Only(b, InTurn(c))
      BY <1>3, <1>4, <1>6, <1>8, <2>2, <2>6 DEF Branches
    <3>2. Adds(b, e, InTurn(c))
      BY <2>2, <2>3, <3>1, AddsMore
    <3>3. QED
      BY <2>1, <2>2, <3>1, <3>2, OnlyAdds
  <2>7. ASSUME is_offline(c) PROVE LeftAlone(e)
    <3>1. is_offline(r)
      BY <1>3, <1>4, <2>7 DEF is_offline
    <3>2. CASE is_offline(b)
      <4>1. Only(b, NoPolls) /\ Adds(b, e, NoPolls)
        BY <1>6, <2>2, <3>1, <3>2, AddsMore DEF Branches
      <4>2. QED
        BY <2>1, <2>2, <3>2, <4>1, OnlyAdds DEF LeftAlone
    <3>3. CASE ~is_offline(b)
      <4>1. Only(b, NoData) /\ Adds(b, e, NoData)
        BY <1>6, <2>4, <3>1, <3>3, AddsMore, EffectSets DEF Branches
      <4>2. QED
        BY <2>1, <2>2, <3>3, <4>1, OnlyAdds DEF LeftAlone
    <3>4. QED
      BY <3>2, <3>3
  <2>8. Behaves(c, e)
    BY <2>2, <2>5, <2>6, <2>7 DEF Behaves
  <2>9. QED
    BY <1>1, <1>10, <2>8 DEF d
<1>11. QED
  BY <1>7, <1>9, <1>10

LEMMA BridgedBehaves ==
  ASSUME NEW c, Good(c), c.out = <<>>, ~c.raised
  PROVE  Behaves(c, Bridged(c))
<1> DEFINE d == Bridged(c)
<1>1. /\ Good(d) /\ d.wait = c.wait /\ is_state_up(d)
      /\ d.rx = 0
      /\ Adds(c, d, MayPoll(c, "TRANSMITTING"))
  BY BridgedSends
<1> HIDE DEF d
<1>2. Only(d, MayPoll(c, "TRANSMITTING"))
  BY <1>1, AddsAll
<1>3. /\ MayPoll(c, "TRANSMITTING") \subseteq Polls
      /\ c.wait.waiting => MayPoll(c, "TRANSMITTING") = {}
  BY DEF MayPoll
<1>4. AcksStored(d) /\ Only(d, NoData)
  BY <1>2, <1>3, NoAckIsStored, OnlyMore, EffectSets
<1>5. c.wait.waiting => Only(d, InTurn(c))
  BY <1>2, <1>3, OnlyMore
<1>6. ~is_offline(d) /\ UpIfHeard(d)
  BY <1>1 DEF is_state_up, is_offline, UPSTATES, UpIfHeard
<1>7. QED
  BY <1>1, <1>4, <1>5, <1>6 DEF Behaves, LeftAlone, d

\* Data and configurations are sent to nodes that are up and wait for nothing.
LEMMA OrderBehaves ==
  ASSUME NEW c, Good(c), NEW d, c.out = <<>>, Sends(c, d, MaySendOrder(c))
  PROVE  Behaves(c, d)
<1>1. Good(d) /\ Only(d, MaySendOrder(c)) /\ d.state = c.state /\ d.rx = c.rx
  BY AddsAll DEF Sends, Same
<1>2. /\ MaySendOrder(c) \subseteq Orders
      /\ c.wait.waiting => MaySendOrder(c) = {}
  BY DEF MaySendOrder
<1>3. AcksStored(d) /\ Only(d, NoPolls)
  BY <1>1, <1>2, NoAckIsStored, OnlyMore, EffectSets
<1>4. c.wait.waiting => Only(d, InTurn(c))
  BY <1>1, <1>2, OnlyMore
<1>5. UpIfHeard(c) => UpIfHeard(d)
  BY <1>1 DEF UpIfHeard, is_state_up, is_offline
<1>6. QED
  BY <1>1, <1>3, <1>4, <1>5 DEF Behaves, LeftAlone, is_offline

LEMMA CheckForASSends ==
  ASSUME NEW c, Good(c)
  PROVE  LET d == periodic_check_for_AS(c)
         IN  Sends(c, d, Copies(c)) /\ RaisesIfFull(c, d)
<1>1. c \in NodeRec /\ c.wait \in Waits
  BY DEF Good, NodeRec
<1>2. CASE ~Expired(c.wait)
  BY <1>2, SendsNothing DEF periodic_check_for_AS
<1>3. Good(periodic_check_for_AS(c))
  BY CheckForASBeats DEF Beats, Quietly, Retries, GivesUp
<1>4. CASE Expired(c.wait) /\ Exhausted(c.wait)
  <2> DEFINE d == [c EXCEPT !.wait = clear_wait]
  <2>1. periodic_check_for_AS(c) = d
    BY <1>4 DEF periodic_check_for_AS
  <2>2. Same(c, d) /\ d.out = c.out /\ d.raised = c.raised /\ d.pkt_num = c.pkt_num
    BY <1>1 DEF NodeRec, Same
  <2>4. c.pkt_num \in Int
    BY <1>1 DEF NodeRec, Issued
  <2> HIDE DEF d
  <2>3. QED
    BY <1>3, <2>1, <2>2, <2>4, AddsNothing DEF Sends, RaisesIfFull
<1>5. CASE Expired(c.wait) /\ ~Exhausted(c.wait)
  <2> DEFINE w == restart_wait(c.wait)
             d == [c EXCEPT !.wait = w]
             pkt == c.wait.pkt
             e == publish_pkt(d, pkt, TRUE)
  <2>1. periodic_check_for_AS(c) = e
    BY <1>5 DEF periodic_check_for_AS
  <2>2. c.wait.waiting /\ c.wait.count + 1 <= MAX_RESEND_COUNT
    BY <1>1, <1>5 DEF Expired, Exhausted, Waits
  <2>3. c.wait.count + 1 \in 0 .. MAX_RESEND_COUNT /\ SL_ACK_WAIT \in 0 .. SL_ACK_WAIT
    BY <1>1, <2>2 DEF Waits
  <2>4. /\ w \in Waits /\ w.waiting /\ w.pkt = c.wait.pkt
        /\ w.do_insert = c.wait.do_insert
    BY <1>1, <2>2, <2>3 DEF restart_wait, Waits
  <2> HIDE DEF w
  <2>5. /\ d \in NodeRec /\ d.wait = w /\ d.pkt_num = c.pkt_num
        /\ d.out = c.out /\ d.raised = c.raised /\ Same(c, d)
    BY <1>1, <2>4 DEF NodeRec, Same
  <2>14. c.pkt_num \in Int
    BY <1>1 DEF NodeRec, Issued
  <2> HIDE DEF d
  <2>6. Good(d)
    BY <2>2, <2>4, <2>5 DEF Good, WaitCoherent
  <2>7. pkt.op \in {"DN", "SC"} /\ pkt.num \in PktNum /\ pkt.fits \in BOOLEAN
    BY <2>2 DEF Good, WaitCoherent, WaitPkts
  <2>8. Sends(d, e, MayPublish(d, pkt, TRUE)) /\ RaisesIfFull(d, e)
    BY <2>6, <2>7, PublishSends DEF StoreOps
  <2>9. MayPublish(d, pkt, TRUE) \subseteq Copies(c)
    BY <2>7 DEF MayPublish, Copies
  <2> HIDE DEF e
  <2>10. Sends(d, e, Copies(c))
    BY <2>8, <2>9, SendsMore
  <2>11. Sends(c, d, Copies(c)) /\ RaisesIfFull(c, d)
    BY <2>5, <2>6, <2>14, AddsNothing DEF Sends, RaisesIfFull
  <2>12. Good(e)
    BY <2>10 DEF Sends
  <2>13. QED
    BY <2>1, <2>6, <2>8, <2>10, <2>11, <2>12, SendsTwice, RaisesTwice
<1>6. QED
  BY <1>2, <1>4, <1>5

\* The check of a node raises for want of a number, or for its max_silence.
Fails(c) == c.pkt_num > MaxPktNum \/ ("max_silence" \in c.cfg /\ ~is_offline(c))

LEMMA PeriodicCheckBehaves ==
  ASSUME NEW c, Good(c), c.out = <<>>, ~c.raised
  PROVE  LET d == periodic_check(c)
         IN  Behaves(c, d) /\ (d.raised => Fails(d))
<1> DEFINE d == periodic_check_for_AS(c)
           x == [d EXCEPT !.raised = TRUE]
           s == set_state(d, "OVERDUE")
           e == IF is_overdue(d) /\ is_state_up(d) THEN s ELSE d
           g == SendShort(e, "GS")
           f == IF PollDue(e) THEN g ELSE e
<1>1. periodic_check(c) = IF overdue_raises(d) THEN x ELSE f
  BY DEF periodic_check, OverdueCheck, PollCheck, send_get_status
<1>2. Sends(c, d, Copies(c)) /\ RaisesIfFull(c, d) /\ Good(d)
  BY CheckForASSends DEF Sends
<1> HIDE DEF d
<1>3. /\ Good(s) /\ s.wait = d.wait /\ s.rx = d.rx
      /\ Adds(d, s, {}) /\ RaisesIfFull(d, s)
      /\ s.state = d.state \/ s.state = "OVERDUE"
  BY <1>2, SetStateSends DEF States, CodeStates, MayPoll
<1> HIDE DEF s
<1>4. /\ Good(e) /\ e.wait = d.wait /\ e.rx = d.rx
      /\ Adds(d, e, {}) /\ RaisesIfFull(d, e)
      /\ e.state = d.state \/ (is_overdue(d) /\ is_state_up(d) /\ e.state = "OVERDUE")
  BY <1>2, <1>3, AddsNothing, SendsNothing DEF Sends
<1> HIDE DEF e
<1>5. /\ Sends(e, g, MaySendShort(e, "GS")) /\ RaisesIfFull(e, g) /\ Good(g)
      /\ g.wait = e.wait
  BY <1>4, SendShortSends, SendShortIsQuiet DEF Sends, Quietly
<1>6. PollDue(e) => ~is_offline(e)
  BY DEF PollDue
<1> DEFINE S == IF PollDue(e) THEN MaySendShort(e, "GS") ELSE {}
<1>7. /\ Good(f) /\ f.wait = e.wait /\ f.rx = e.rx /\ f.state = e.state
      /\ Adds(e, f, S) /\ RaisesIfFull(e, f)
  <2>1. CASE PollDue(e)
    BY <1>5, <2>1 DEF Sends, Same
  <2>2. CASE ~PollDue(e)
    BY <1>4, <2>2, SendsNothing DEF Sends
  <2>3. QED
    BY <2>1, <2>2
<1> HIDE DEF f, g
<1>8. /\ S \subseteq Polls /\ (e.wait.waiting => S = {})
      /\ is_offline(e) => S = {}
  BY <1>6 DEF MaySendShort
<1> HIDE DEF S
<1>9. Only(d, Copies(c))
  BY <1>2, AddsAll DEF Sends
<1>10. Only(e, Copies(c))
  BY <1>2, <1>4, <1>9, AddsMore, OnlyAdds
<1>11. Only(f, Copies(c) \cup S)
  <2>1. Only(e, Copies(c) \cup S)
    BY <1>10, OnlyMore
  <2>2. Adds(e, f, Copies(c) \cup S)
    BY <1>7, AddsMore
  <2>3. QED
    BY <1>4, <1>7, <2>1, <2>2, OnlyAdds
<1>12. RaisesIfFull(c, f)
  BY <1>2, <1>4, <1>7, RaisesTwice
<1>13. AcksStored(f)
  BY <1>8, <1>11, NoAckIsStored, EffectSets
<1>14. ASSUME c.wait.waiting, f.wait.pkt = c.wait.pkt
       PROVE  Only(f, InTurn(c))
  <2>1. f.wait.waiting
    BY <1>7, <1>14, NoPktIsNotWaited DEF Good, WaitCoherent, clear_wait
  <2>2. S = {}
    BY <1>7, <1>8, <2>1
  <2>3. Copies(c) \cup S \subseteq InTurn(c)
    BY <2>2, EffectSets
  <2>4. QED
    BY <1>11, <2>3, OnlyMore
<1>15. is_offline(c) => LeftAlone(f)
  <2> SUFFICES ASSUME is_offline(c) PROVE LeftAlone(f)
    OBVIOUS
  <2>1. is_offline(d) /\ is_offline(e) /\ is_offline(f)
    BY <1>2, <1>4, <1>7 DEF Sends, Same, is_offline, is_overdue
  <2>2. Copies(c) \cup S \subseteq NoPolls
    BY <1>8, <2>1, EffectSets
  <2>3. QED
    BY <1>11, <2>1, <2>2, OnlyMore DEF LeftAlone
<1>16. NodeMaxSilence > 0 /\ UpIfHeard(c) => UpIfHeard(f)
  <2> SUFFICES ASSUME NodeMaxSilence > 0, UpIfHeard(c), f.rx = 0
               PROVE  is_state_up(f) \/ is_offline(f)
    BY DEF UpIfHeard
  <2>1. c.rx = 0 /\ d.rx = 0 /\ d.state = c.state
    BY <1>2, <1>4, <1>7 DEF Sends, Same
  <2>2. ~is_overdue(d)
    BY <2>1 DEF is_overdue
  <2>3. QED
    BY <1>4, <1>7, <2>1, <2>2 DEF UpIfHeard, is_state_up, is_offline
<1>17. Behaves(c, f)
  BY <1>7, <1>13, <1>14, <1>15, <1>16 DEF Behaves
<1>18. CASE overdue_raises(d)
  <2>1. /\ x \in NodeRec /\ x.out = d.out /\ x.state = d.state /\ x.rx = d.rx
        /\ x.wait = d.wait /\ x.cfg = d.cfg /\ x.pkt_num = d.pkt_num
        /\ x.signed = d.signed
    BY <1>2 DEF Good, NodeRec
  <2> HIDE DEF x
  <2>2. Good(x) /\ Only(x, Copies(c))
    BY <1>2, <1>9, <2>1, OtherFields DEF Quietly, Only
  <2>3. AcksStored(x) /\ Only(x, InTurn(c)) /\ Only(x, NoPolls)
    BY <2>2, NoAckIsStored, OnlyMore, EffectSets
  <2>4. ~is_offline(c) /\ Fails(x)
    BY <1>2, <1>18, <2>1 DEF overdue_raises, is_offline, Sends, Same, Fails
  <2>5. UpIfHeard(c) => UpIfHeard(x)
    BY <1>2, <2>1 DEF UpIfHeard, is_state_up, is_offline, Sends, Same
  <2>6. QED
    BY <1>1, <1>18, <2>2, <2>3, <2>4, <2>5 DEF Behaves
<1>19. CASE ~overdue_raises(d)
  BY <1>1, <1>12, <1>17, <1>19 DEF RaisesIfFull, Fails
<1>20. QED
  BY <1>18, <1>19

----------------------------------------------------------------------------
(* The steps.                                                              *)

\* A step begins with the record of the node, nothing sent and nothing raised.
Begins(c, s) ==
  /\ Good(s)
  /\ s.out = <<>> /\ ~s.raised
  /\ s.state = c.state
  /\ s.wait.waiting = c.wait.waiting /\ s.wait.pkt = c.wait.pkt
  /\ NodeMaxSilence > 0 /\ UpIfHeard(c) => UpIfHeard(s)

\* A packet that repeats the last one is at most acknowledged.
Repeats(c, d) ==
  /\ Good(d)
  /\ d.state = c.state /\ d.rx = c.rx
  /\ Only(d, Acks)
  /\ Len(d.out) \in {0, 1}
  /\ Len(d.out) = 1 => Repeated(c, d)

Stepped(n) ==
  \/ \E s : Begins(node[n], s) /\ Behaves(s, node'[n])
  \/ Repeats(node[n], node'[n])

\* A node that is not in the table has not been given a state.
Strangers == \A n \in Slids \ known : node[n].state = "INITIAL"

SafeInv == IInv /\ Strangers /\ HeardIsUp /\ OnlyTwoReasonsEnd

LEMMA FreshBegins ==
  ASSUME NEW c, Good(c)
  PROVE  /\ Begins(c, Fresh(c))
         /\ \A f \in {"state", "via", "rx", "wait", "cfg", "last_packet_num"} :
              Fresh(c)[f] = c[f]
<1> DEFINE s == Fresh(c)
<1>1. Good(s)
  BY FreshStarts DEF Starts
<1>2. /\ s.out = <<>> /\ ~s.raised /\ s.state = c.state /\ s.wait = c.wait
      /\ s.rx = c.rx /\ s.via = c.via /\ s.cfg = c.cfg
      /\ s.last_packet_num = c.last_packet_num
  BY DEF Fresh, Good, NodeRec
<1> HIDE DEF s
<1>3. QED
  BY <1>1, <1>2 DEF Begins, UpIfHeard, is_state_up, is_offline, s

LEMMA NewNodeBegins ==
  ASSUME NEW c, Good(c), c.state = "INITIAL", c.wait = clear_wait
  PROVE  Begins(c, NewNode(<<>>, {}))
<1> DEFINE s == NewNode(<<>>, {})
<1>1. Good(s) /\ s.wait = clear_wait
  <2>1. <<>> \in Seq(Slids)
    OBVIOUS
  <2>2. QED
    BY <2>1, NewNodeIsGood
<1>2. /\ s.out = <<>> /\ ~s.raised /\ s.state = "INITIAL" /\ s.rx = NodeMaxSilence
  BY DEF NewNode
<1> HIDE DEF s
<1>3. NodeMaxSilence > 0 => UpIfHeard(s)
  BY <1>2, StoreNodeAssumption DEF UpIfHeard
<1>4. QED
  BY <1>1, <1>2, <1>3 DEF Begins, s

LEMMA QuietSteps ==
  ASSUME IInv, NEW n \in Slids, node'[n] = Fresh(node[n])
  PROVE  Stepped(n) /\ node'[n].state = node[n].state
<1>1. Good(node[n])
  BY GoodNodes
<1>2. Begins(node[n], node'[n])
  BY <1>1, FreshBegins
<1>3. Behaves(node'[n], node'[n])
  BY <1>2, SilentBehaves DEF Begins
<1>4. QED
  BY <1>2, <1>3 DEF Stepped, Begins

LEMMA DuplicateRepeats ==
  ASSUME NEW c, Good(c), NEW p \in Inbound, IsDuplicate(c.last_packet_num, p.num)
  PROVE  Repeats(c, Duplicate(Fresh(c), p))
<1> DEFINE s == Fresh(c)
           num == LastAfter(s.last_packet_num, p.num)
           r == [s EXCEPT !.last_packet_num = num]
           e == SendShort(r, "AN")
           d == Duplicate(s, p)
<1>1. /\ Good(s) /\ s.out = <<>>
      /\ s.state = c.state /\ s.via = c.via /\ s.rx = c.rx /\ s.wait = c.wait
      /\ s.cfg = c.cfg /\ s.last_packet_num = c.last_packet_num
  <2>1. Begins(c, s)
    BY FreshBegins
  <2>2. \A f \in {"state", "via", "rx", "wait", "cfg", "last_packet_num"} : s[f] = c[f]
    BY FreshBegins
  <2> HIDE DEF s
  <2>3. QED
    BY <2>1, <2>2 DEF Begins
<1>2. d = IF p.op \in OPS_need_ack THEN e ELSE r
  BY DEF Duplicate, send_ack_to_node
<1> HIDE DEF s
<1>3. Good(r)
  BY <1>1, InboundTypes, LastPacketNumIsQuiet DEF Quietly
<1>4. /\ r.out = s.out /\ r.state = s.state /\ r.via = s.via /\ r.rx = s.rx
      /\ r.wait = s.wait /\ r.cfg = s.cfg /\ r.last_packet_num = num
  BY <1>1 DEF Good, NodeRec
<1>5. c.last_packet_num # 0 /\ num = LastAfter(c.last_packet_num, c.last_packet_num)
  BY <1>1 DEF IsDuplicate
<1> HIDE DEF r, num, d
<1>6. Sends(r, e, Acks) /\ e.wait = r.wait /\ Len(e.out) \in {0, 1}
  BY <1>1, <1>3, <1>4, SendShortSends, SendShortIsQuiet, SendShortSendsOne
  DEF Quietly, MaySendShort
<1> HIDE DEF e
<1>7. /\ Good(d) /\ Adds(r, d, Acks) /\ d.wait = r.wait /\ Same(r, d)
      /\ Len(d.out) \in {0, 1}
  <2>1. CASE p.op \in OPS_need_ack
    BY <1>2, <1>6, <2>1 DEF Sends
  <2>2. CASE p.op \notin OPS_need_ack
    <3>1. Len(r.out) = 0
      BY <1>1, <1>4
    <3>2. Sends(r, r, Acks)
      BY <1>3, SendsNothing
    <3>3. QED
      BY <1>2, <2>2, <3>1, <3>2, Zenon DEF Sends
  <2>3. QED
    BY <2>1, <2>2
<1>8. Only(d, Acks)
  BY <1>1, <1>3, <1>4, <1>7, AddsAll
<1>9. /\ d.state = c.state /\ d.via = c.via /\ d.rx = c.rx /\ d.wait = c.wait
      /\ d.cfg = c.cfg /\ d.last_packet_num = num
  BY <1>1, <1>4, <1>7 DEF Same
<1>10. Len(d.out) = 1 => Repeated(c, d)
  BY <1>5, <1>9 DEF Repeated
<1>11. QED
  BY <1>7, <1>8, <1>9, <1>10 DEF Repeats, d, s

(***************************************************************************)
(* What every action but Restart does to the nodes, and to those outside   *)
(* the table.                                                              *)
(***************************************************************************)
Steps ==
  /\ \A n \in Slids : Stepped(n)
  /\ Strangers'
  /\ OnlyTwoReasonsEnd'

\* A step that changes the nodes in the table only.
LEMMA StrangersStay ==
  ASSUME SafeInv, known \subseteq known', known' \subseteq Slids,
         \A n \in Slids \ known' : node'[n] = Fresh(node[n])
  PROVE  Strangers'
<1> SUFFICES ASSUME NEW n \in Slids, n \notin known'
             PROVE  node'[n].state = "INITIAL"
  BY DEF Strangers
<1>1. node'[n] = Fresh(node[n]) /\ n \notin known
  OBVIOUS
<1>2. node'[n].state = node[n].state
  BY <1>1, QuietSteps DEF SafeInv
<1>3. QED
  BY <1>1, <1>2 DEF SafeInv, Strangers

LEMMA OnDataMsgSteps ==
  ASSUME SafeInv, NEW p \in Inbound, OnDataMsg(p)
  PROVE  Steps
<1> DEFINE n == p.slid
           created == n \notin known /\ autocreate /\ p.op = "RC"
           c == IF created THEN NewNode(<<>>, {}) ELSE Fresh(node[n])
           lost == RouteRaises(p)
<1>1. IInv /\ n \in Slids /\ known \subseteq Slids /\ Good(node[n])
  BY InboundTypes, GoodNodes DEF SafeInv, IInv, TypeOK
<1>2. \A m \in Slids : Quiet[m] = Fresh(node[m])
  BY DEF Quiet
<1>3. Begins(node[n], c)
  <2>1. CASE created
    <3>1. node[n].state = "INITIAL" /\ node[n].wait = clear_wait
      BY <1>1, <2>1 DEF SafeInv, IInv, Strangers, Pristine
    <3>2. QED
      BY <1>1, <2>1, <3>1, NewNodeBegins
  <2>2. CASE ~created
    BY <1>1, <2>2, FreshBegins
  <2>3. QED
    BY <2>1, <2>2
<1>4. OnlyTwoReasonsEnd'
  BY DEF OnDataMsg, OnlyTwoReasonsEnd
<1>5. CASE (n \notin known /\ ~created) \/ p.op = "Control"
  <2>1. node' = Quiet /\ known' = known
    BY <1>5 DEF OnDataMsg
  <2>2. \A m \in Slids : node'[m] = Fresh(node[m])
    BY <1>2, <2>1
  <2>3. QED
    BY <1>1, <1>4, <2>1, <2>2, QuietSteps, StrangersStay DEF Steps
<1>6. CASE /\ ~((n \notin known /\ ~created) \/ p.op = "Control")
           /\ IsDuplicate(c.last_packet_num, p.num)
  <2>1. node' = [Quiet EXCEPT ![n] = Duplicate(c, p)] /\ known' = known
    BY <1>2, <1>1, <1>6 DEF OnDataMsg
  <2>2. ~created
    BY <1>6 DEF NewNode, IsDuplicate
  <2>3. /\ node'[n] = Duplicate(Fresh(node[n]), p)
        /\ \A m \in Slids \ {n} : node'[m] = Fresh(node[m])
    BY <1>1, <1>2, <2>1, <2>2 DEF Quiet
  <2>4. IsDuplicate(node[n].last_packet_num, p.num)
    BY <1>1, <1>6, <2>2, FreshBegins
  <2>5. Stepped(n)
    BY <1>1, <2>3, <2>4, DuplicateRepeats DEF Stepped
  <2>6. Strangers'
    BY <1>1, <1>6, <2>1, <2>2, <2>3, StrangersStay
  <2>7. QED
    BY <1>1, <1>4, <2>3, <2>5, <2>6, QuietSteps DEF Steps
<1>7. CASE /\ ~((n \notin known /\ ~created) \/ p.op = "Control")
           /\ ~IsDuplicate(c.last_packet_num, p.num)
  <2>1. /\ node' = [m \in Slids |->
                      IF m = n THEN Accept(c, p, lost)
                      ELSE IF m \in ReachedHops(p) THEN Bridged(Quiet[m])
                      ELSE Quiet[m]]
        /\ known' = known \cup {n}
    BY <1>2, <1>1, <1>7 DEF OnDataMsg
  <2>2. /\ node'[n] = Accept(c, p, lost)
        /\ \A m \in Slids \ {n} : node'[m] = IF m \in ReachedHops(p) THEN Bridged(Fresh(node[m]))
                                             ELSE Fresh(node[m])
    <3> HIDE DEF c, lost
    <3> QED BY <1>1, <1>2, <2>1
  <2>3. lost \in BOOLEAN
    BY DEF RouteRaises
  <2> HIDE DEF c, lost
  <2>4. Behaves(c, node'[n])
    BY <1>3, <2>2, <2>3, AcceptBehaves DEF Begins
  <2>5. ASSUME NEW m \in Slids \ {n} PROVE Stepped(m)
    <3>1. CASE m \in ReachedHops(p)
      <4>1. Begins(node[m], Fresh(node[m]))
        BY <1>1, GoodNodes, FreshBegins
      <4>2. Behaves(Fresh(node[m]), node'[m])
        BY <2>2, <3>1, <4>1, BridgedBehaves DEF Begins
      <4>3. QED
        BY <4>1, <4>2 DEF Stepped
    <3>2. CASE m \notin ReachedHops(p)
      BY <1>1, <2>2, <3>2, QuietSteps
    <3>3. QED
      BY <3>1, <3>2
  <2>6. Strangers'
    <3>1. \A m \in Slids \ known' : node'[m] = Fresh(node[m])
      BY <1>1, <2>1, <2>2, HopsAreKnown
    <3>2. QED
      BY <1>1, <2>1, <3>1, StrangersStay
  <2>7. QED
    BY <1>3, <1>4, <2>4, <2>5, <2>6 DEF Steps, Stepped
<1>8. QED
  BY <1>5, <1>6, <1>7

\* A command to a node in the table changes the record of that node only.
LEMMA CommandSteps ==
  ASSUME SafeInv, running, NEW n \in known, NEW s, NEW d,
         node' = [Quiet EXCEPT ![n] = d],
         Begins(node[n], s), Behaves(s, d),
         UNCHANGED <<known, running>>
  PROVE  Steps
<1>1. IInv /\ n \in Slids /\ known \subseteq Slids
  BY DEF SafeInv, IInv, TypeOK
<1>2. /\ node'[n] = d
      /\ \A m \in Slids \ {n} : node'[m] = Fresh(node[m])
  BY <1>1 DEF Quiet
<1>3. Stepped(n)
  BY <1>2 DEF Stepped
<1>4. Strangers'
  BY <1>1, <1>2, StrangersStay
<1>5. QED
  BY <1>1, <1>2, <1>3, <1>4, QuietSteps DEF Steps, OnlyTwoReasonsEnd

LEMMA SendDataSteps ==
  ASSUME SafeInv, NEW n \in Commanded, NEW fits \in BOOLEAN, SendData(n, fits)
  PROVE  Steps
<1> DEFINE c == Fresh(node[n])
           d == send_data_to_node(c, fits)
<1>1. IInv /\ n \in Slids /\ n \in known /\ running
  BY DEF SendData, SafeInv, IInv, TypeOK
<1>2. Begins(node[n], c)
  BY <1>1, GoodNodes, FreshBegins
<1>3. Quiet[n] = c
  BY <1>1 DEF Quiet
<1> HIDE DEF c
<1>4. node' = [Quiet EXCEPT ![n] = d] /\ UNCHANGED <<known, running>>
  BY <1>1, <1>3 DEF SendData
<1>5. Behaves(c, d)
  BY <1>2, SendDataSends, OrderBehaves DEF Begins
<1> HIDE DEF d
<1>6. QED
  BY <1>1, <1>2, <1>4, <1>5, CommandSteps

LEMMA WebSetConfigSteps ==
  ASSUME SafeInv, NEW n \in Commanded, NEW defects \in Configs, WebSetConfig(n, defects)
  PROVE  Steps
<1> DEFINE c == Fresh(node[n])
           cfg == IF MeshOf[n] = 0 THEN defects ELSE defects \cup {"version"}
           s == [c EXCEPT !.cfg = cfg]
           d == send_set_config(s)
<1>1. IInv /\ n \in Slids /\ n \in known /\ running
  BY DEF WebSetConfig, SafeInv, IInv, TypeOK
<1>2. Begins(node[n], c) /\ Good(c)
  BY <1>1, GoodNodes, FreshBegins DEF Begins
<1>3. Quiet[n] = c
  BY <1>1 DEF Quiet
<1>10. cfg \in SUBSET Defects
  BY StoreNodeAssumption DEF Defects
<1>5. node' = [Quiet EXCEPT ![n] = d] /\ UNCHANGED <<known, running>>
  BY <1>1, <1>3 DEF WebSetConfig
<1> HIDE DEF c, cfg
<1>4. Begins(node[n], s)
  <2>1. /\ s \in NodeRec /\ s.wait = c.wait /\ s.pkt_num = c.pkt_num
        /\ s.signed = c.signed /\ s.out = c.out /\ s.raised = c.raised
        /\ s.state = c.state /\ s.rx = c.rx
    BY <1>2, <1>10 DEF Good, NodeRec
  <2> HIDE DEF s
  <2>2. Good(s)
    BY <1>2, <2>1, OtherFields DEF Quietly
  <2>3. QED
    BY <1>2, <2>1, <2>2 DEF Begins, UpIfHeard, is_state_up, is_offline
<1> HIDE DEF s
<1>6. Behaves(s, d)
  BY <1>4, SendSetConfigSends, OrderBehaves DEF Begins
<1> HIDE DEF d
<1>7. QED
  BY <1>1, <1>4, <1>5, <1>6, CommandSteps

LEMMA CommandRaisesSteps ==
  ASSUME SafeInv, NEW n \in Commanded, CommandRaises(n)
  PROVE  Steps
<1> DEFINE c == Fresh(node[n])
           d == [c EXCEPT !.raised = TRUE]
<1>1. IInv /\ n \in Slids /\ n \in known /\ running
  BY DEF CommandRaises, SafeInv, IInv, TypeOK
<1>2. Begins(node[n], c) /\ Good(c)
  BY <1>1, GoodNodes, FreshBegins DEF Begins
<1>3. Quiet[n] = c
  BY <1>1 DEF Quiet
<1> HIDE DEF c
<1>4. node' = [Quiet EXCEPT ![n] = d] /\ UNCHANGED <<known, running>>
  BY <1>1, <1>3 DEF CommandRaises
<1>5. Behaves(c, d)
  <2>1. /\ d \in NodeRec /\ d.wait = c.wait /\ d.pkt_num = c.pkt_num
        /\ d.signed = c.signed /\ d.out = c.out /\ d.state = c.state /\ d.rx = c.rx
    BY <1>2 DEF Good, NodeRec
  <2> HIDE DEF d
  <2>2. Good(d)
    BY <1>2, <2>1, OtherFields DEF Quietly
  <2>3. QED
    BY <1>2, <2>1, <2>2, SilentBehaves DEF Begins, UpIfHeard, is_state_up, is_offline
<1> HIDE DEF d
<1>6. QED
  BY <1>1, <1>2, <1>4, <1>5, CommandSteps

LEMMA HeartbeatSteps ==
  ASSUME SafeInv, Heartbeat
  PROVE  Steps
<1> DEFINE checked == [n \in Beating |-> periodic_check(Fresh(node[n]))]
           failing == {n \in Beating : checked[n].raised}
<1>1. IInv /\ known' = known /\ known \subseteq Slids
  BY DEF Heartbeat, SafeInv, IInv, TypeOK
<1>2. PICK done \in SUBSET Beating :
        /\ \/ failing = {} /\ done = Beating
           \/ \E last \in failing : done \cap failing = {last}
        /\ node' = [n \in Slids |-> IF n \in done THEN checked[n] ELSE Fresh(node[n])]
        /\ running' = (failing = {})
  BY DEF Heartbeat
<1>3. ASSUME NEW n \in done
      PROVE  /\ Stepped(n)
             /\ node'[n].raised => Fails(node'[n])
             /\ node'[n] = checked[n]
  <2>1. n \in Slids /\ node'[n] = periodic_check(Fresh(node[n])) /\ node'[n] = checked[n]
    BY <1>1, <1>2 DEF Beating
  <2>2. Begins(node[n], Fresh(node[n]))
    BY <1>1, <2>1, GoodNodes, FreshBegins
  <2>3. /\ Behaves(Fresh(node[n]), node'[n])
        /\ node'[n].raised => Fails(node'[n])
    BY <2>1, <2>2, PeriodicCheckBehaves DEF Begins
  <2>4. QED
    BY <2>1, <2>2, <2>3 DEF Stepped
<1>4. \A n \in Slids \ done : node'[n] = Fresh(node[n])
  BY <1>2
<1>5. \A n \in Slids : Stepped(n)
  BY <1>1, <1>3, <1>4, QuietSteps
<1>6. Strangers'
  <2>1. \A n \in Slids \ known' : node'[n] = Fresh(node[n])
    BY <1>1, <1>4 DEF Beating
  <2>2. QED
    BY <1>1, <2>1, StrangersStay
<1>7. OnlyTwoReasonsEnd'
  <2> SUFFICES ASSUME ~running'
               PROVE  \E n \in known' :
                        MeshOf[n] = 1 /\ node'[n].raised /\ Fails(node'[n])
    BY DEF OnlyTwoReasonsEnd, Fails, is_offline
  <2>1. PICK last \in failing : done \cap failing = {last}
    BY <1>2
  <2>2. last \in done /\ last \in known /\ MeshOf[last] = 1 /\ checked[last].raised
    BY <2>1 DEF Beating
  <2>3. node'[last].raised /\ Fails(node'[last])
    <3> HIDE DEF checked
    <3> QED BY <1>3, <2>2
  <2>4. QED
    BY <1>1, <2>2, <2>3
<1>8. QED
  BY <1>5, <1>6, <1>7 DEF Steps

LEMMA TickSteps ==
  ASSUME SafeInv, Tick
  PROVE  Steps
<1>1. IInv /\ known' = known /\ known \subseteq Slids /\ running' = running /\ running
  BY DEF Tick, SafeInv, IInv, TypeOK
<1>2. ASSUME NEW n \in Slids
      PROVE  Begins(node[n], node'[n])
  <2> DEFINE c == Fresh(node[n])
             d == [c EXCEPT !.rx = Older(c.rx, NodeMaxSilence),
                            !.tx = Older(c.tx, MAXSILENCE + 1),
                            !.wait = Elapse(c.wait)]
  <2>1. Good(node'[n])
    BY <1>1, TickAdvances, MovesAreGood DEF Advances, Moved
  <2>2. Begins(node[n], c) /\ c \in NodeRec
    BY <1>1, GoodNodes, FreshBegins DEF Begins, Good
  <2>3. node'[n] = [Fresh(node[n]) EXCEPT !.rx = Older(@, NodeMaxSilence),
                                          !.tx = Older(@, MAXSILENCE + 1),
                                          !.wait = Elapse(@)]
    BY DEF Tick, Quiet
  <2>4. node'[n] = d
    <3> HIDE DEF c
    <3> QED BY <2>2, <2>3 DEF NodeRec, c
  <2> HIDE DEF c
  <2>5. /\ d.out = c.out /\ d.raised = c.raised /\ d.state = c.state
        /\ d.rx = Older(c.rx, NodeMaxSilence) /\ d.wait = Elapse(c.wait)
        /\ c.rx \in Ages /\ c.wait \in Waits
    BY <2>2 DEF NodeRec
  <2>6. d.wait.waiting = c.wait.waiting /\ d.wait.pkt = c.wait.pkt
    BY <2>5 DEF Elapse, Waits
  <2> HIDE DEF d
  <2>7. NodeMaxSilence > 0 => d.rx # 0
    BY <2>5, StoreNodeAssumption DEF Older, Ages
  <2>8. QED
    BY <2>1, <2>2, <2>4, <2>5, <2>6, <2>7 DEF Begins, UpIfHeard
<1>3. ASSUME NEW n \in Slids PROVE Stepped(n)
  <2>1. Behaves(node'[n], node'[n])
    BY <1>2, SilentBehaves DEF Begins
  <2>2. QED
    BY <1>2, <2>1 DEF Stepped
<1>4. Strangers'
  BY <1>1, <1>2 DEF Strangers, SafeInv, Begins
<1>5. QED
  BY <1>1, <1>3, <1>4 DEF Steps, OnlyTwoReasonsEnd

LEMMA NextSteps ==
  ASSUME SafeInv, Next
  PROVE  Steps \/ Restart
<1>1. CASE \E p \in Inbound : OnDataMsg(p)
  BY <1>1, OnDataMsgSteps
<1>2. CASE \E n \in Commanded, fits \in BOOLEAN : SendData(n, fits)
  BY <1>2, SendDataSteps
<1>3. CASE \E n \in Commanded, defects \in Configs : WebSetConfig(n, defects)
  BY <1>3, WebSetConfigSteps
<1>4. CASE \E n \in Commanded : CommandRaises(n)
  BY <1>4, CommandRaisesSteps
<1>5. CASE Heartbeat
  BY <1>5, HeartbeatSteps
<1>6. CASE Tick
  BY <1>6, TickSteps
<1>7. QED
  BY <1>1, <1>2, <1>3, <1>4, <1>5, <1>6 DEF Next

\* A start gives every node a new record.
LEMMA RestartClears ==
  ASSUME Restart, NEW n \in Slids
  PROVE  /\ node'[n].out = <<>> /\ node'[n].state = "INITIAL"
         /\ node'[n].rx = NodeMaxSilence
  BY DEF Restart, NewNode

----------------------------------------------------------------------------
(* The theorems.                                                           *)

LEMMA InitSafeInv ==
  ASSUME Init
  PROVE  SafeInv
<1>1. IInv
  BY InitIInv
<1>2. \A n \in Slids : node[n].state = "INITIAL" /\ node[n].rx = NodeMaxSilence
  BY DEF Init, NewNode
<1>3. running
  BY DEF Init
<1>4. QED
  BY <1>1, <1>2, <1>3, StoreNodeAssumption
  DEF SafeInv, Strangers, HeardIsUp, OnlyTwoReasonsEnd

LEMMA NextSafeInv ==
  ASSUME SafeInv, [Next]_vars
  PROVE  SafeInv'
<1>1. IInv'
  BY NextIInv DEF SafeInv
<1>2. CASE Steps
  <2>1. HeardIsUp'
    <3> SUFFICES ASSUME NodeMaxSilence > 0, NEW n \in Slids
                 PROVE  UpIfHeard(node'[n])
      BY DEF HeardIsUp, UpIfHeard, is_state_up, is_offline
    <3>1. UpIfHeard(node[n])
      BY DEF SafeInv, HeardIsUp, UpIfHeard, is_state_up, is_offline
    <3>2. Stepped(n)
      BY <1>2 DEF Steps
    <3>3. QED
      BY <3>1, <3>2 DEF Stepped, Begins, Behaves, Repeats, UpIfHeard, is_state_up, is_offline
  <2>2. QED
    BY <1>1, <1>2, <2>1 DEF SafeInv, Steps
<1>3. CASE Restart
  <2>1. known' = known /\ running'
    BY <1>3 DEF Restart
  <2>2. Strangers' /\ HeardIsUp'
    BY <1>3, RestartClears, StoreNodeAssumption DEF Strangers, HeardIsUp
  <2>3. QED
    BY <1>1, <2>1, <2>2 DEF SafeInv, OnlyTwoReasonsEnd
<1>4. CASE UNCHANGED vars
  BY <1>1, <1>4 DEF vars, SafeInv, Strangers, HeardIsUp, OnlyTwoReasonsEnd,
                    is_state_up, is_offline
<1>5. QED
  BY <1>2, <1>3, <1>4, NextSteps

LEMMA SpecSafeInv == Spec => []SafeInv
  BY InitSafeInv, NextSafeInv, PTL DEF Spec

(***************************************************************************)
(* A node heard within the present second is up, unless it is OFFLINE,     *)
(* however the packet came and whatever raised in handling it (post_data,  *)
(* its loop over the via route, periodic_check).                           *)
(***************************************************************************)
THEOREM HeardNodesAreUp == Spec => []HeardIsUp
<1>1. SafeInv => HeardIsUp
  BY DEF SafeInv
<1>2. QED
  BY <1>1, SpecSafeInv, PTL

(***************************************************************************)
(* The checks of the heartbeat end the program for want of a packet number *)
(* or for a max_silence that is not a number, of a node in its own mesh,   *)
(* and for no other reason (periodic_check, heartbeat).                    *)
(***************************************************************************)
THEOREM OnlyTwoReasonsEndIt == Spec => []OnlyTwoReasonsEnd
<1>1. SafeInv => OnlyTwoReasonsEnd
  BY DEF SafeInv
<1>2. QED
  BY <1>1, SpecSafeInv, PTL

\* The effects of a step, as the properties name them.
LEMMA PublishedIsOut ==
  ASSUME NEW d, Good(d), NEW S, Only(d, S), NEW e \in Published(d)
  PROVE  e \in S /\ e.kind = "publish"
<1>1. PICK i \in DOMAIN d.out : d.out[i].kind = "publish" /\ e = d.out[i]
  BY DEF Published
<1>2. QED
  BY <1>1, OutType DEF Only

(***************************************************************************)
(* While a packet waits for its AS, nothing but an AN or that packet again *)
(* is published to the node (publish_pkt and all that send).               *)
(***************************************************************************)
THEOREM NothingElseOvertakes == Spec => OnlyAcksOvertake
<1> DEFINE A == \A n \in Slids :
                  is_waiting(node[n]) /\ node'[n].wait.pkt = node[n].wait.pkt =>
                    \A e \in Published(node'[n]) :
                      e.op = "AN" \/ (e.resend /\ e.num = node[n].wait.pkt.num)
<1>1. ASSUME SafeInv, [Next]_vars PROVE [A]_vars
  <2>1. CASE Steps
    <3> SUFFICES ASSUME NEW n \in Slids, is_waiting(node[n]),
                        node'[n].wait.pkt = node[n].wait.pkt,
                        NEW e \in Published(node'[n])
                 PROVE  e.op = "AN" \/ (e.resend /\ e.num = node[n].wait.pkt.num)
      BY DEF A
    <3>1. CASE Repeats(node[n], node'[n])
      <4>1. e \in Acks
        BY <3>1, PublishedIsOut DEF Repeats
      <4>2. QED
        BY <4>1 DEF Acks
    <3>2. CASE \E s : Begins(node[n], s) /\ Behaves(s, node'[n])
      <4>1. PICK s : Begins(node[n], s) /\ Behaves(s, node'[n])
        BY <3>2
      <4>2. Good(node'[n]) /\ Only(node'[n], InTurn(s)) /\ s.wait.pkt = node[n].wait.pkt
        BY <4>1 DEF Begins, Behaves, is_waiting
      <4>3. e \in InTurn(s) /\ e.kind = "publish"
        BY <4>2, PublishedIsOut
      <4>4. QED
        BY <4>2, <4>3 DEF InTurn
    <3>3. QED
      BY <2>1, <3>1, <3>2 DEF Steps, Stepped
  <2>2. CASE Restart
    <3>1. \A n \in Slids : Published(node'[n]) = {}
      BY <2>2, RestartClears DEF Published
    <3>2. QED
      BY <3>1 DEF A
  <2>3. QED
    BY <1>1, <2>1, <2>2, NextSteps
<1>2. QED
  BY <1>1, SpecSafeInv, PTL DEF Spec, OnlyAcksOvertake, A

(***************************************************************************)
(* The store sends an AN for data that it has put in the database before,  *)
(* or for the packet it saw last, and then does nothing else (store_data,  *)
(* check_duplicate_pkt_num and the lines after its call in post_data).     *)
(***************************************************************************)
THEOREM AcknowledgedIsStored == Spec => AckedIsStored
<1> DEFINE A == \A n \in Slids :
                  \A i \in DOMAIN node'[n].out :
                    node'[n].out[i].op = "AN" =>
                      \/ \E j \in 1 .. i - 1 : /\ node'[n].out[j].kind = "insert"
                                              /\ node'[n].out[j].op = "DS"
                      \/ Repeated(node[n], node'[n])
<1>1. ASSUME SafeInv, [Next]_vars PROVE [A]_vars
  <2>1. CASE Steps
    <3> SUFFICES ASSUME NEW n \in Slids, NEW i \in DOMAIN node'[n].out,
                        node'[n].out[i].op = "AN"
                 PROVE  \/ \E j \in 1 .. i - 1 : /\ node'[n].out[j].kind = "insert"
                                                /\ node'[n].out[j].op = "DS"
                        \/ Repeated(node[n], node'[n])
      BY DEF A
    <3>1. CASE Repeats(node[n], node'[n])
      <4>1. DOMAIN node'[n].out = 1 .. Len(node'[n].out) /\ Len(node'[n].out) \in {0, 1}
        BY <3>1, OutType DEF Repeats
      <4>2. Len(node'[n].out) = 1
        BY <4>1
      <4>3. QED
        BY <3>1, <4>2 DEF Repeats
    <3>2. CASE \E s : Begins(node[n], s) /\ Behaves(s, node'[n])
      <4>1. Good(node'[n]) /\ AcksStored(node'[n])
        BY <3>2 DEF Behaves
      <4>2. i \in 1 .. Len(node'[n].out)
        BY <4>1, OutType
      <4>3. QED
        BY <4>1, <4>2 DEF AcksStored
    <3>3. QED
      BY <2>1, <3>1, <3>2 DEF Steps, Stepped
  <2>2. CASE Restart
    <3>1. \A n \in Slids : DOMAIN node'[n].out = {}
      BY <2>2, RestartClears
    <3>2. QED
      BY <3>1 DEF A
  <2>3. QED
    BY <1>1, <2>1, <2>2, NextSteps
<1>2. QED
  BY <1>1, SpecSafeInv, PTL DEF Spec, AckedIsStored, A

(***************************************************************************)
(* A node that went OFFLINE is not asked for its status, and only comes    *)
(* back when it is heard to be back, when the store lacks a number to ask  *)
(* for its status, or with a restart (set_state, is_overdue,               *)
(* periodic_check, post_data).                                             *)
(***************************************************************************)
THEOREM OfflineNodesAreLeftAlone == Spec => OfflineIsLeftAlone
<1> DEFINE A == \A n \in Slids :
                  is_offline(node[n]) =>
                    IF is_offline(node'[n])
                    THEN \A e \in Published(node'[n]) : e.op # "GS"
                    ELSE \/ node'[n].state = "INITIAL"
                         \/ node'[n].rx = 0 /\ \A i \in DOMAIN node'[n].out : node'[n].out[i].op # "DS"
                         \/ RanOut(node'[n])
<1>1. ASSUME SafeInv, [Next]_vars PROVE [A]_vars
  <2>1. CASE Steps
    <3>1. ASSUME NEW n \in Slids, is_offline(node[n]), is_offline(node'[n]),
                 NEW e \in Published(node'[n])
          PROVE  e.op # "GS"
      <4>1. CASE Repeats(node[n], node'[n])
        <5>1. e \in Acks
          BY <3>1, <4>1, PublishedIsOut DEF Repeats
        <5>2. QED
          BY <5>1 DEF Acks
      <4>2. CASE \E s : Begins(node[n], s) /\ Behaves(s, node'[n])
        <5>1. Good(node'[n]) /\ LeftAlone(node'[n])
          BY <3>1, <4>2 DEF Begins, Behaves, is_offline
        <5>2. e \in NoPolls /\ e.kind = "publish"
          BY <3>1, <5>1, PublishedIsOut DEF LeftAlone
        <5>3. QED
          BY <5>2 DEF NoPolls
      <4>3. QED
        BY <2>1, <4>1, <4>2 DEF Steps, Stepped
    <3>2. ASSUME NEW n \in Slids, is_offline(node[n]), ~is_offline(node'[n])
          PROVE  \/ /\ node'[n].rx = 0
                    /\ \A i \in DOMAIN node'[n].out : node'[n].out[i].op # "DS"
                 \/ RanOut(node'[n])
      <4>1. ~Repeats(node[n], node'[n])
        BY <3>2 DEF Repeats, is_offline
      <4>2. PICK s : Begins(node[n], s) /\ Behaves(s, node'[n])
        BY <2>1, <4>1 DEF Steps, Stepped
      <4>3. Good(node'[n]) /\ LeftAlone(node'[n])
        BY <3>2, <4>2 DEF Begins, Behaves, is_offline
      <4>4. Only(node'[n], NoData) => \A i \in DOMAIN node'[n].out : node'[n].out[i].op # "DS"
        BY <4>3, OutType DEF Only, NoData
      <4>5. QED
        BY <3>2, <4>3, <4>4 DEF LeftAlone
    <3>3. QED
      BY <3>1, <3>2 DEF A
  <2>2. CASE Restart
    <3>1. \A n \in Slids : node'[n].state = "INITIAL"
      BY <2>2, RestartClears
    <3>2. QED
      BY <3>1 DEF A, is_offline
  <2>3. QED
    BY <1>1, <2>1, <2>2, NextSteps
<1>2. QED
  BY <1>1, SpecSafeInv, PTL DEF Spec, OfflineIsLeftAlone, A

=============================================================================
