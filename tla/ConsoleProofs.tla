--------------------------- MODULE ConsoleProofs ---------------------------
(***************************************************************************)
(* Console: its invariants hold for every set of browsers, keys and        *)
(* requests, and for all values of the bounds.                             *)
(***************************************************************************)
EXTENDS Console, DBTableProofs, FiniteSetTheorems

----------------------------------------------------------------------------
(* Ranges, by rank.                                                        *)

\* If the first p elements of a list in order are those below v, there are p.
LEMMA CountBelow ==
  ASSUME NEW s \in Seq(Int), Increasing(s), NEW p \in 0 .. Len(s), NEW T,
         T = {s[i] : i \in 1 .. p}
  PROVE  Cardinality(T) = p
<1> DEFINE f == [i \in 1 .. p |-> s[i]]
<1>1. f \in [1 .. p -> T]
  OBVIOUS
<1>2. ASSUME NEW i \in 1 .. p, NEW j \in 1 .. p, f[i] = f[j] PROVE i = j
  <2>1. i \in DOMAIN s /\ j \in DOMAIN s /\ s[i] = s[j] /\ s[i] \in Int /\ s[j] \in Int
    BY <1>2
  <2>2. ~ (i < j) /\ ~ (j < i)
    BY <2>1 DEF Increasing
  <2> QED BY <2>2
<1>3. \A y \in T : \E i \in 1 .. p : f[i] = y
  OBVIOUS
<1>4. f \in Bijection(1 .. p, T)
  <2> HIDE DEF f
  <2>1. DOMAIN f = 1 .. p
    BY <1>1
  <2>2. IsInjective(f)
    BY <1>2, <2>1 DEF IsInjective
  <2> QED BY <1>1, <1>3, <2>1, <2>2 DEF Bijection, Injection, Surjection, IsInjective
<1>5. ExistsBijection(1 .. p, T)
  BY <1>4 DEF ExistsBijection
<1> QED BY <1>5, FS_CountingElements

LEMMA RankOfPosition ==
  ASSUME NEW s \in Seq(Int), Increasing(s), NEW v \in Int, NEW p \in 0 .. Len(s),
         \A i \in 1 .. Len(s) : i <= p <=> s[i] < v
  PROVE  Cardinality({j \in Elements(s) : j < v}) = p
<1> DEFINE T == {j \in Elements(s) : j < v}
<1>1. T = {s[i] : i \in 1 .. p}
  <2>1. DOMAIN s = 1 .. Len(s)
    OBVIOUS
  <2>2. \A i \in 1 .. p : i \in DOMAIN s /\ s[i] < v
    BY <2>1
  <2>3. \A i \in DOMAIN s : s[i] < v => i \in 1 .. p
    BY <2>1
  <2> QED BY <2>2, <2>3 DEF Elements
<1> HIDE DEF T
<1> QED BY <1>1, CountBelow DEF T

LEMMA InTheRange ==
  ASSUME NEW L \in Nat, NEW i \in 1 .. L, NEW x \in 0 .. L, NEW y \in -1 .. L - 1
  PROVE  (x # L /\ ~ (y < 0) /\ i \in x + 1 .. y + 1) <=> i - 1 >= x /\ i <= y + 1
<1>1. i \in x + 1 .. y + 1 <=> i - 1 >= x /\ i <= y + 1
  OBVIOUS
<1>2. i - 1 >= x => x # L
  OBVIOUS
<1>3. i <= y + 1 => ~ (y < 0)
  OBVIOUS
<1> QED BY <1>1, <1>2, <1>3

(***************************************************************************)
(* As long as the records are in order, the ranges that RangeIsByRank      *)
(* speaks of are those of get_range, also for requests that no instance    *)
(* of the model lists.                                                     *)
(***************************************************************************)
LEMMA RangeByRank ==
  ASSUME table.docs \in Seq(Keys), Increasing(table.docs),
         NEW csk, IsKey(csk), csk.restrict \in Restrictions
  PROVE  Elements(get_range(DBIndex(table, csk.restrict), csk).keys) =
           {k \in Satisfying(csk.restrict) :
              /\ Rank(csk.restrict, k) >= FirstRank(csk)
              /\ IF csk.end # None THEN k <= csk.end
                 ELSE Rank(csk.restrict, k) < FirstRank(csk) + csk.count}
<1> DEFINE r    == csk.restrict
           s    == DBIndex(table, r)
           L    == Len(s)
           sidx == first_position(s, csk)
           eidx == last_position(s, csk, sidx)
           g    == get_range(s, csk)
<1>1. /\ s \in Seq(Keys) /\ s \in Seq(Int) /\ Increasing(s)
      /\ Satisfying(r) = Elements(s)
  BY IndexFacts, KeysAreNumbers DEF Satisfying
<1> HIDE DEF s
<1>2. L \in Nat /\ DOMAIN s = 1 .. L /\ \A i \in 1 .. L : s[i] \in Int
  BY <1>1
<1>3. /\ csk.start \in Int /\ csk.end \in Int /\ csk.item \in Int /\ csk.count \in Nat \ {0}
  <2>1. Keys \cup {None} \subseteq Int
    BY KeysAreNumbers DEF None
  <2> QED BY <2>1 DEF IsKey
<1>4. ASSUME NEW v \in Int, NEW p \in 0 .. L, \A i \in 1 .. L : i <= p <=> s[i] < v
      PROVE  Rank(r, v) = p
  BY <1>1, <1>4, RankOfPosition DEF Rank
<1>5. ASSUME NEW i \in 1 .. L PROVE Rank(r, s[i]) = i - 1
  <2>1. \A j \in 1 .. L : j <= i - 1 <=> s[j] < s[i]
    <3> SUFFICES ASSUME NEW j \in 1 .. L PROVE j <= i - 1 <=> s[j] < s[i]
      OBVIOUS
    <3>1. s[j] \in Int /\ s[i] \in Int /\ (j < i => s[j] < s[i]) /\ (i < j => s[i] < s[j])
      BY <1>1, <1>2 DEF Increasing
    <3> QED BY <1>2, <3>1
  <2>2. s[i] \in Int /\ i - 1 \in 0 .. L
    BY <1>2
  <2> QED BY <1>4, <2>1, <2>2
<1>6. Cardinality(Elements(s)) = L
  <2>1. Elements(s) = {s[i] : i \in 1 .. L}
    BY <1>2 DEF Elements
  <2> QED BY <1>1, <1>2, <2>1, CountBelow
<1>7. CASE s = <<>>
  <2>1. Elements(s) = {} /\ g = NoRange /\ Elements(<<>>) = {}
    BY <1>7 DEF Elements, get_range
  <2> QED BY <1>1, <2>1 DEF NoRange, s
<1>8. CASE s # <<>>
  <2>1. /\ sidx \in 0 .. L /\ eidx \in -1 .. L - 1
    BY <1>1, <1>8, FirstPosition
  <2>2. L # 0
    BY <1>1, <1>8
  <2>3. FirstRank(csk) = sidx
    <3>1. csk.start # None => Rank(r, csk.start) = bisect_left(s, csk.start)
      <4>1. /\ bisect_left(s, csk.start) \in 0 .. L
            /\ \A i \in 1 .. L : i <= bisect_left(s, csk.start) <=> s[i] < csk.start
        BY <1>1, <1>3, BisectLeftFinds
      <4> QED BY <1>3, <1>4, <4>1
    <3> DEFINE n == Cardinality(Satisfying(r))
    <3>2. n = L
      BY <1>1, <1>6
    <3>3. FirstRank(csk) =
            IF csk.start # None THEN Rank(r, csk.start)
            ELSE IF csk.item < 0 THEN (IF L + csk.item < 0 THEN 0 ELSE L + csk.item)
            ELSE IF csk.item < L THEN csk.item ELSE L - 1
      BY <3>2 DEF FirstRank
    <3>4. sidx = IF csk.start # None THEN bisect_left(s, csk.start)
                 ELSE IF csk.item < 0 THEN Greatest(0, L + csk.item)
                 ELSE Least(csk.item, L - 1)
      BY DEF first_position
    <3>5. /\ Greatest(0, L + csk.item) = IF L + csk.item < 0 THEN 0 ELSE L + csk.item
          /\ Least(csk.item, L - 1) = IF csk.item < L THEN csk.item ELSE L - 1
      BY <1>2, <1>3 DEF Greatest, Least
    <3> QED BY <3>1, <3>3, <3>4, <3>5
  <2>4. ASSUME NEW i \in 1 .. L
        PROVE  (sidx # L /\ ~ (eidx < 0) /\ i \in sidx + 1 .. eidx + 1) <=>
                 /\ Rank(r, s[i]) >= sidx
                 /\ IF csk.end # None THEN s[i] <= csk.end ELSE Rank(r, s[i]) < sidx + csk.count
    <3>1. Rank(r, s[i]) = i - 1
      BY <1>5
    <3>0. (sidx # L /\ ~ (eidx < 0) /\ i \in sidx + 1 .. eidx + 1) <=>
            i - 1 >= sidx /\ i <= eidx + 1
      <4> HIDE DEF sidx, eidx, L
      <4> QED BY <1>2, <2>1, InTheRange
    <3>2. CASE csk.end = None
      <4>1. eidx = Least(sidx + csk.count - 1, L - 1)
        BY <3>2 DEF last_position
      <4> HIDE DEF sidx, eidx
      <4>2. eidx = IF sidx + csk.count - 1 < L - 1 THEN sidx + csk.count - 1 ELSE L - 1
        BY <4>1 DEF Least
      <4>3. i <= eidx + 1 <=> i - 1 < sidx + csk.count
        <5> HIDE DEF L
        <5> QED BY <1>2, <1>3, <2>1, <4>2
      <4> QED BY <3>0, <3>1, <3>2, <4>3
    <3>3. CASE csk.end # None
      <4>1. eidx = bisect_right(s, csk.end, sidx) - 1
        BY <3>3 DEF last_position
      <4> HIDE DEF sidx, eidx
      <4>2. /\ bisect_right(s, csk.end, sidx) \in sidx .. L
            /\ \A j \in sidx + 1 .. L :
                 j <= bisect_right(s, csk.end, sidx) <=> s[j] <= csk.end
        BY <1>1, <1>3, <2>1, BisectRightFinds
      <4>3. i \in sidx + 1 .. L => (i <= eidx + 1 <=> s[i] <= csk.end)
        BY <2>1, <4>1, <4>2
      <4>4. i \in sidx + 1 .. L <=> i - 1 >= sidx
        BY <1>2, <2>1
      <4> QED BY <3>0, <3>1, <3>3, <4>3, <4>4
    <3> QED BY <3>2, <3>3
  <2>5. Elements(g.keys) = {s[i] : i \in {j \in 1 .. L :
                               sidx # L /\ ~ (eidx < 0) /\ j \in sidx + 1 .. eidx + 1}}
    <3>1. CASE sidx # L /\ ~ (eidx < 0)
      <4>1. g.keys = SubSeq(s, sidx + 1, eidx + 1)
        BY <1>8, <3>1 DEF get_range
      <4> HIDE DEF sidx, eidx
      <4>2. /\ sidx + 1 \in Int /\ eidx + 1 \in Int
            /\ 1 <= sidx + 1 /\ eidx + 1 <= L
        BY <1>2, <2>1
      <4>3. Elements(g.keys) = {s[i] : i \in sidx + 1 .. eidx + 1}
        BY <1>1, <4>1, <4>2, ElementsOfSubSeq
      <4>4. sidx + 1 .. eidx + 1 = {j \in 1 .. L :
                               sidx # L /\ ~ (eidx < 0) /\ j \in sidx + 1 .. eidx + 1}
        <5>1. \A j \in sidx + 1 .. eidx + 1 : j \in 1 .. L
          BY <1>2, <2>1
        <5> QED BY <3>1, <5>1
      <4> QED BY <4>3, <4>4
    <3>2. CASE ~ (sidx # L /\ ~ (eidx < 0))
      <4>1. g = NoRange
        BY <3>2 DEF get_range
      <4>2. Elements(g.keys) = {}
        BY <4>1, ElementsOfEmpty DEF NoRange
      <4> QED BY <3>2, <4>2
    <3> QED BY <3>1, <3>2
  <2> HIDE DEF sidx, eidx, g
  <2>6. Elements(g.keys) = {k \in Elements(s) :
              /\ Rank(r, k) >= sidx
              /\ IF csk.end # None THEN k <= csk.end ELSE Rank(r, k) < sidx + csk.count}
    <3>1. Elements(s) = {s[i] : i \in 1 .. L}
      BY <1>2 DEF Elements
    <3> QED BY <2>4, <2>5, <3>1
  <2> QED BY <1>1, <2>3, <2>6 DEF g, s
<1> QED BY <1>7, <1>8

----------------------------------------------------------------------------
(* The queue.                                                              *)

\* Updates that are queued in some order are all in the queue.
LEMMA SomeOrderFacts ==
  ASSUME NEW K, NEW U, U \subseteq K, IsFiniteSet(U)
  PROVE  InSomeOrder(U) \in Seq(K) /\ Elements(InSomeOrder(U)) = U
<1> DEFINE n == Cardinality(U)
           f == InSomeOrder(U)
<1>1. n \in Nat /\ ExistsBijection(1 .. n, U)
  BY FS_CardinalityType
<1>2. \E h \in [1 .. n -> U] : IsInjective(h)
  BY <1>1 DEF ExistsBijection, Bijection, Injection
<1>3. f \in [1 .. n -> U] /\ IsInjective(f)
  BY <1>2 DEF InSomeOrder, SetToSeq
<1> HIDE DEF f
<1>4. f \in Surjection(1 .. n, U)
  <2>1. IsFiniteSet(1 .. n) /\ Cardinality(1 .. n) = n
    <3>1. Cardinality(1 .. n) = IF 1 > n THEN 0 ELSE n - 1 + 1
      BY <1>1, FS_Interval
    <3> QED BY <1>1, <3>1, FS_Interval
  <2>2. f \in Injection(1 .. n, U)
    BY <1>3 DEF Injection
  <2> QED BY <2>1, <2>2, FS_Injection
<1>5. f \in Seq(U) /\ DOMAIN f = 1 .. n
  BY <1>1, <1>3
<1>6. f \in Seq(K)
  BY <1>5, SeqMonotonic
<1>7. Elements(f) = U
  BY <1>3, <1>4, <1>5 DEF Elements, Surjection
<1> QED BY <1>6, <1>7 DEF f

\* The image of a finite set.
LEMMA UpdatesAreFinite ==
  ASSUME NEW D, IsFiniteSet(D), NEW f, DOMAIN f = D
  PROVE  IsFiniteSet({f[s] : s \in D})
<1> DEFINE T == {f[s] : s \in D}
           g == [s \in D |-> f[s]]
<1>1. g \in Surjection(D, T)
  BY DEF Surjection
<1> HIDE DEF g
<1> QED BY <1>1, FS_Surjection

LEMMA ElementsOfHeadTail ==
  ASSUME NEW K, NEW s \in Seq(K), s # <<>>
  PROVE  /\ Head(s) \in K /\ Tail(s) \in Seq(K)
         /\ Elements(s) = {Head(s)} \cup Elements(Tail(s))
<1>1. /\ Head(s) \in K /\ Tail(s) \in Seq(K) /\ Len(Tail(s)) = Len(s) - 1
      /\ \A i \in 1 .. Len(Tail(s)) : Tail(s)[i] = s[i + 1]
      /\ Head(s) = s[1] /\ Len(s) \in Nat /\ Len(s) # 0
  BY HeadTailProperties
<1> DEFINE t == Tail(s)
<1>2. DOMAIN t = 1 .. Len(s) - 1 /\ DOMAIN s = 1 .. Len(s)
  BY <1>1
<1> HIDE DEF t
<1>3. \A i \in DOMAIN s : s[i] = Head(s) \/ (i - 1 \in DOMAIN t /\ t[i - 1] = s[i])
  <2> SUFFICES ASSUME NEW i \in DOMAIN s, i # 1
               PROVE  i - 1 \in DOMAIN t /\ t[i - 1] = s[i]
    BY <1>1
  <2>1. i - 1 \in 1 .. Len(s) - 1 /\ (i - 1) + 1 = i
    BY <1>2
  <2> QED BY <1>1, <1>2, <2>1 DEF t
<1>4. \A i \in DOMAIN t : i + 1 \in DOMAIN s /\ t[i] = s[i + 1]
  BY <1>1, <1>2 DEF t
<1>5. 1 \in DOMAIN s /\ s[1] = Head(s)
  BY <1>1, <1>2
<1>6. Elements(s) = {Head(s)} \cup Elements(t)
  BY <1>3, <1>4, <1>5 DEF Elements
<1> QED BY <1>1, <1>6 DEF t

\* What is pending, and what is under way, in terms of the updates there are.
UnderWay(s, k) ==
  \E u \in Elements(queue) \cup {emitting} :
    u.of = s /\ u.keys # <<>> /\ Head(u.keys) = k

PendingIn(Q, s, k)     == \E u \in Q : u.of = s /\ k \in Elements(u.keys)
UnderWayIn(Q, e, s, k) ==
  \E u \in Q \cup {e} : u.of = s /\ u.keys # <<>> /\ Head(u.keys) = k

LEMMA InTheQueue ==
  ASSUME NEW s, NEW k
  PROVE  /\ Pending(s, k) <=> PendingIn(Elements(queue), s, k)
         /\ Pending(s, k)' <=> PendingIn(Elements(queue'), s, k)
         /\ UnderWay(s, k) <=> UnderWayIn(Elements(queue), emitting, s, k)
         /\ UnderWay(s, k)' <=> UnderWayIn(Elements(queue'), emitting', s, k)
  BY DEF Pending, PendingIn, UnderWay, UnderWayIn, Elements

----------------------------------------------------------------------------
(* The inductive invariant.                                                *)

\* The table and its indexes; as long as no record came late, in order.
RecordsAreSound ==
  /\ Sound(table) /\ used \subseteq Keys /\ late \in 0 .. MaxLate
  /\ Elements(table.docs) \subseteq used
  /\ late = 0 => Increasing(table.docs)

IsSearch(cs) ==
  /\ cs = [start |-> cs.start, end |-> cs.end, at_end |-> cs.at_end,
           clients |-> cs.clients, order |-> cs.order, items |-> cs.items]
  /\ cs.start \in Keys \cup {None} /\ cs.end \in Keys \cup {None}
  /\ cs.at_end \in BOOLEAN /\ cs.clients \subseteq Sids
  /\ cs.order \in Seq(Keys) /\ cs.items \in [Elements(cs.order) -> Item]

SearchesAreSound ==
  /\ IsFiniteSet(InUse) /\ InUse \subseteq Requests
  /\ searches = [s \in InUse |-> searches[s]]
  /\ \A s \in InUse : IsSearch(searches[s])

QueueIsSound ==
  /\ rooms \in [Sids -> SUBSET Requests]
  /\ queue \in Seq(Updates) /\ emitting \in Updates \cup {NoUpdate}

(***************************************************************************)
(* What is right of the search cs for s, over the records with keys D, of  *)
(* all that were inserted (U): the edges of its window are keys of records *)
(* there were, a search that found nothing stays empty; and while no       *)
(* record came late, it shows its window, and nothing in the table follows *)
(* a window that reaches the end.                                          *)
(***************************************************************************)
Shows(s, cs, U, D, inorder) ==
  LET M == Matching[Ask[s].restrict]
  IN  /\ DOMAIN cs.items \subseteq U \cap M
      /\ cs.start = None => DOMAIN cs.items = {} /\ ~ cs.at_end
      /\ cs.start # None => cs.start \in U /\ cs.end \in U
      /\ inorder /\ cs.start # None =>
           /\ {k \in DOMAIN cs.items : ~ cs.items[k].deleted} =
                {k \in D \cap M : InWindow(cs, k)}
           /\ cs.at_end => \A k \in D \cap M : k <= cs.end

WindowsAreShown ==
  \A s \in InUse : Shows(s, searches[s], used, Elements(table.docs), late = 0)

(***************************************************************************)
(* An item that is busy has an update of its own in the queue or under     *)
(* way, which will end that; one with news is in an update of the queue,   *)
(* or free and has a timer.  (An item that was busy for good would be      *)
(* passed over by its timer.)                                              *)
(***************************************************************************)
Told(s, cs, Q, e) ==
  \A k \in DOMAIN cs.items :
    /\ cs.items[k].busy => UnderWayIn(Q, e, s, k)
    /\ cs.items[k].news = "due" =>
         \/ PendingIn(Q, s, k)
         \/ cs.items[k].future /\ ~ cs.items[k].busy

NewsAreTold == \A s \in InUse : Told(s, searches[s], Elements(queue), emitting)

IInv ==
  /\ RecordsAreSound
  /\ SearchesAreSound
  /\ QueueIsSound
  /\ WindowsAreShown
  /\ NewsAreTold
  /\ ClientsAreServed

LEMMA InitIInv == ASSUME Init PROVE IInv
<1>1. InUse = {} /\ <<>> \in Seq(Updates) /\ Elements(<<>>) = {} /\ <<>> \in Seq(Keys)
  BY ElementsOfEmpty DEF Init, InUse
<1>2. RecordsAreSound
  <2>1. 0 \in 0 .. MaxLate
    BY ConsoleAssumption
  <2>2. EmptyTable.docs = <<>> /\ Increasing(<<>>)
    BY DEF EmptyTable, Increasing
  <2> QED BY <1>1, <2>1, <2>2, EmptyTableIsSound DEF Init, RecordsAreSound
<1>3. SearchesAreSound
  <2>1. IsFiniteSet({})
    BY FS_EmptySet
  <2>2. searches = [s \in InUse |-> searches[s]]
    BY DEF Init, InUse
  <2> QED BY <1>1, <2>1, <2>2 DEF SearchesAreSound
<1>4. QueueIsSound
  BY <1>1 DEF Init, QueueIsSound
<1> QED BY <1>1, <1>2, <1>3, <1>4 DEF IInv, WindowsAreShown, NewsAreTold, ClientsAreServed

----------------------------------------------------------------------------
(* What the invariant implies.                                             *)

LEMMA IInvTypeOK == ASSUME IInv PROVE TypeOK
<1>1. IsTable(table) /\ used \subseteq Keys /\ late \in 0 .. MaxLate
  BY DEF IInv, RecordsAreSound, Sound
<1>2. InUse \subseteq Requests
  BY DEF IInv, SearchesAreSound
<1>3. ASSUME NEW s \in InUse
      PROVE  /\ {searches[s].start, searches[s].end} \subseteq Keys \cup {None}
             /\ searches[s].at_end \in BOOLEAN
             /\ searches[s].clients \subseteq Sids
             /\ searches[s].items \in [Elements(searches[s].order) -> Item]
  BY DEF IInv, SearchesAreSound, IsSearch
<1>4. /\ rooms \in [Sids -> SUBSET Requests]
      /\ queue \in Seq(Updates) /\ emitting \in Updates \cup {NoUpdate}
  BY DEF IInv, QueueIsSound
<1> QED BY <1>1, <1>2, <1>3, <1>4 DEF TypeOK

LEMMA IInvIndexIsCurrent == ASSUME IInv PROVE IndexIsCurrent
  BY DEF IInv, RecordsAreSound, Sound, IndexIsCurrent

LEMMA IInvRangeIsByRank == ASSUME IInv PROVE RangeIsByRank
<1> SUFFICES ASSUME late = 0, NEW csk \in Probes
             PROVE  Elements(get_range(DBIndex(table, csk.restrict), csk).keys) =
                      {k \in Satisfying(csk.restrict) :
                         /\ Rank(csk.restrict, k) >= FirstRank(csk)
                         /\ IF csk.end # None THEN k <= csk.end
                            ELSE Rank(csk.restrict, k) < FirstRank(csk) + csk.count}
  BY DEF RangeIsByRank
<1>1. /\ csk.restrict \in Restrictions /\ csk.start \in Keys \cup {None}
      /\ csk.end \in Keys \cup {None} /\ csk.item \in -2 .. 1 /\ csk.count \in 1 .. 2
  BY DEF Probes
<1>2. IsKey(csk)
  BY <1>1 DEF IsKey
<1>3. table.docs \in Seq(Keys) /\ Increasing(table.docs)
  BY DEF IInv, RecordsAreSound, Sound, IsTable
<1> QED BY <1>1, <1>2, <1>3, RangeByRank

LEMMA IInvWindowIsRange == ASSUME IInv PROVE WindowIsRange
<1> SUFFICES ASSUME late = 0, NEW s \in InUse, searches[s].start # None
             PROVE  {k \in DOMAIN searches[s].items : ~ searches[s].items[k].deleted} =
                      {k \in Satisfying(Ask[s].restrict) : InWindow(searches[s], k)}
  BY DEF WindowIsRange
<1>1. Shows(s, searches[s], used, Elements(table.docs), late = 0)
  BY DEF IInv, WindowsAreShown
<1> QED BY <1>1 DEF Shows, Satisfying

LEMMA IInvNothingForgotten == ASSUME IInv PROVE NothingForgotten
<1> SUFFICES ASSUME NEW s \in InUse, NEW k \in DOMAIN searches[s].items,
                    searches[s].items[k].news = "due"
             PROVE  Pending(s, k) \/ searches[s].items[k].future
  BY DEF NothingForgotten
<1>1. Told(s, searches[s], Elements(queue), emitting)
  BY DEF IInv, NewsAreTold
<1> QED BY <1>1, InTheQueue DEF Told

----------------------------------------------------------------------------
(* What carries over from one search to the next.                          *)

LEMMA ShowsSame ==
  ASSUME NEW s, NEW cs, NEW ds, NEW U, NEW D, NEW inorder \in BOOLEAN,
         Shows(s, cs, U, D, inorder),
         ds.start = cs.start, ds.end = cs.end, ds.at_end = cs.at_end,
         DOMAIN ds.items = DOMAIN cs.items,
         \A k \in DOMAIN cs.items : ds.items[k].deleted = cs.items[k].deleted
  PROVE  Shows(s, ds, U, D, inorder)
  BY DEF Shows, InWindow

LEMMA ToldStill ==
  ASSUME NEW s, NEW cs, NEW ds, NEW Q, NEW e, NEW R, NEW f,
         Told(s, cs, Q, e), ds.items = cs.items,
         \A u \in Q : u.of = s => u \in R,
         e.of = s => f = e
  PROVE  Told(s, ds, R, f)
<1> SUFFICES ASSUME NEW k \in DOMAIN cs.items
             PROVE  /\ cs.items[k].busy => UnderWayIn(R, f, s, k)
                    /\ cs.items[k].news = "due" =>
                         \/ PendingIn(R, s, k)
                         \/ cs.items[k].future /\ ~ cs.items[k].busy
  BY DEF Told
<1>1. UnderWayIn(Q, e, s, k) => UnderWayIn(R, f, s, k)
  BY DEF UnderWayIn
<1>2. PendingIn(Q, s, k) => PendingIn(R, s, k)
  BY DEF PendingIn
<1> QED BY <1>1, <1>2 DEF Told

----------------------------------------------------------------------------
(* Leaving.                                                                *)

\* What is so of the searches `left` that remain when sid leaves those in S.
Remain(sid, S, left) ==
  /\ DOMAIN left \subseteq InUse /\ IsFiniteSet(DOMAIN left)
  /\ left = [s \in DOMAIN left |-> left[s]]
  /\ \A s \in DOMAIN left :
       /\ IsSearch(left[s])
       /\ left[s].start = searches[s].start /\ left[s].end = searches[s].end
       /\ left[s].at_end = searches[s].at_end /\ left[s].items = searches[s].items
       /\ left[s].clients = IF s \in S THEN searches[s].clients \ {sid}
                            ELSE searches[s].clients
       /\ searches[s].clients # {} => left[s].clients # {}

LEMMA LeavingFacts ==
  ASSUME SearchesAreSound, NEW sid, NEW S
  PROVE  Remain(sid, S, Leaving(sid, S))
<1> DEFINE D    == {s \in InUse : s \notin S \/ searches[s].clients # {sid}}
           left == Leaving(sid, S)
<1>1. left = [s \in D |-> IF s \in S THEN [searches[s] EXCEPT !.clients = @ \ {sid}]
                          ELSE searches[s]]
  BY DEF Leaving
<1> HIDE DEF left
<1>2. DOMAIN left = D /\ left = [s \in D |-> left[s]]
  BY <1>1
<1>3. D \subseteq InUse /\ IsFiniteSet(D)
  <2>1. D \in SUBSET InUse
    OBVIOUS
  <2> QED BY <2>1, FS_Subset DEF SearchesAreSound
<1>4. ASSUME NEW s \in D
      PROVE  /\ IsSearch(left[s])
             /\ left[s].start = searches[s].start /\ left[s].end = searches[s].end
             /\ left[s].at_end = searches[s].at_end /\ left[s].items = searches[s].items
             /\ left[s].clients = IF s \in S THEN searches[s].clients \ {sid}
                                  ELSE searches[s].clients
             /\ searches[s].clients # {} => left[s].clients # {}
  <2>1. IsSearch(searches[s])
    BY DEF SearchesAreSound
  <2>2. CASE s \notin S
    <3>1. left[s] = searches[s]
      BY <1>1, <2>2
    <3> QED BY <2>1, <2>2, <3>1
  <2>3. CASE s \in S
    <3> DEFINE cs == searches[s]
    <3>1. left[s] = [cs EXCEPT !.clients = @ \ {sid}]
      BY <1>1, <2>3
    <3>2. left[s] = [start |-> cs.start, end |-> cs.end, at_end |-> cs.at_end,
                     clients |-> cs.clients \ {sid}, order |-> cs.order, items |-> cs.items]
      BY <2>1, <3>1 DEF IsSearch
    <3>3. IsSearch(left[s])
      BY <2>1, <3>2 DEF IsSearch
    <3>4. searches[s].clients # {} => cs.clients \ {sid} # {}
      BY <2>3
    <3> QED BY <2>3, <3>2, <3>3, <3>4
  <2> QED BY <2>2, <2>3
<1>5. Remain(sid, S, left)
  BY <1>2, <1>3, <1>4 DEF Remain
<1> QED BY <1>5 DEF left

\* The updates of the searches that remain.
LEMMA UpdatesOfRemaining ==
  ASSUME QueueIsSound, NEW S
  PROVE  /\ QueueOf(S) \in Seq(Updates)
         /\ Elements(QueueOf(S)) = {u \in Elements(queue) : u.of \in S}
         /\ EmittingOf(S) \in Updates \cup {NoUpdate}
         /\ emitting.of \in S => EmittingOf(S) = emitting
<1> DEFINE T == {u \in Elements(queue) : u.of \in S}
<1>1. queue \in Seq(Updates) /\ emitting \in Updates \cup {NoUpdate}
  BY DEF QueueIsSound
<1>2. Filter(queue, T) \in Seq(Updates) /\ Elements(Filter(queue, T)) = Elements(queue) \cap T
  <2> HIDE DEF T
  <2> QED BY <1>1, FilterElements
<1>3. Elements(queue) \cap T = T
  OBVIOUS
<1>4. QueueOf(S) = Filter(queue, T)
  BY DEF QueueOf
<1>5. EmittingOf(S) \in Updates \cup {NoUpdate} /\ (emitting.of \in S => EmittingOf(S) = emitting)
  BY <1>1 DEF EmittingOf
<1> HIDE DEF T
<1> QED BY <1>2, <1>3, <1>4, <1>5 DEF T

LEMMA DropSidIInv ==
  ASSUME IInv, NEW sid \in Sids, NEW remaining \in SUBSET Requests, DropSid(sid, remaining)
  PROVE  IInv'
<1> DEFINE S    == SearchesOf(sid)
           left == Leaving(sid, S)
<1>1. /\ searches' = left /\ rooms' = [rooms EXCEPT ![sid] = remaining]
      /\ queue' = QueueOf(DOMAIN left) /\ emitting' = EmittingOf(DOMAIN left)
      /\ UNCHANGED <<table, used, late>>
  BY DEF DropSid, db
<1>2. SearchesAreSound /\ QueueIsSound
  BY DEF IInv
<1>3. /\ DOMAIN left \subseteq InUse /\ IsFiniteSet(DOMAIN left)
      /\ left = [s \in DOMAIN left |-> left[s]]
      /\ \A s \in DOMAIN left :
           /\ IsSearch(left[s])
           /\ left[s].start = searches[s].start /\ left[s].end = searches[s].end
           /\ left[s].at_end = searches[s].at_end /\ left[s].items = searches[s].items
           /\ left[s].clients = IF s \in S THEN searches[s].clients \ {sid}
                                ELSE searches[s].clients
           /\ searches[s].clients # {} => left[s].clients # {}
  <2>1. Remain(sid, S, left)
    <3> HIDE DEF S
    <3> QED BY <1>2, LeavingFacts
  <2> HIDE DEF S, left
  <2> QED BY <2>1 DEF Remain
<1> HIDE DEF left
<1>4. InUse' = DOMAIN left /\ \A s \in InUse' : searches'[s] = left[s] /\ s \in InUse
  BY <1>1, <1>3 DEF InUse
<1>5. /\ queue' \in Seq(Updates) /\ emitting' \in Updates \cup {NoUpdate}
      /\ Elements(queue') = {u \in Elements(queue) : u.of \in DOMAIN left}
      /\ emitting.of \in DOMAIN left => emitting' = emitting
  BY <1>1, <1>2, UpdatesOfRemaining
<1>6. RecordsAreSound'
  BY <1>1 DEF IInv, RecordsAreSound
<1>7. SearchesAreSound'
  BY <1>1, <1>2, <1>3, <1>4 DEF SearchesAreSound
<1>8. QueueIsSound'
  BY <1>1, <1>2, <1>5 DEF QueueIsSound
<1>9. WindowsAreShown'
  <2> SUFFICES ASSUME NEW s \in DOMAIN left
               PROVE  Shows(s, left[s], used, Elements(table.docs), late = 0)
    BY <1>1, <1>4 DEF WindowsAreShown
  <2>1. Shows(s, searches[s], used, Elements(table.docs), late = 0)
    BY <1>3 DEF IInv, WindowsAreShown
  <2> QED BY <1>3, <2>1, ShowsSame
<1>10. NewsAreTold'
  <2> SUFFICES ASSUME NEW s \in DOMAIN left
               PROVE  Told(s, left[s], Elements(queue'), emitting')
    BY <1>4 DEF NewsAreTold
  <2>1. Told(s, searches[s], Elements(queue), emitting)
    BY <1>3 DEF IInv, NewsAreTold
  <2>2. \A u \in Elements(queue) : u.of = s => u \in Elements(queue')
    BY <1>5
  <2>3. emitting.of = s => emitting' = emitting
    BY <1>5
  <2> QED BY <1>3, <2>1, <2>2, <2>3, ToldStill
<1>11. ClientsAreServed'
  <2> SUFFICES ASSUME NEW s \in DOMAIN left
               PROVE  left[s].clients # {} /\ \A c \in left[s].clients : s \in rooms'[c]
    BY <1>4 DEF ClientsAreServed
  <2>1. /\ searches[s].clients # {} /\ searches[s].clients \subseteq Sids
        /\ \A c \in searches[s].clients : s \in rooms[c]
    BY <1>2, <1>3 DEF IInv, ClientsAreServed, SearchesAreSound, IsSearch
  <2>2. left[s].clients \subseteq searches[s].clients /\ sid \notin left[s].clients
    BY <1>3 DEF SearchesOf
  <2>3. \A c \in left[s].clients : rooms'[c] = rooms[c]
    BY <1>1, <1>2, <2>1, <2>2 DEF QueueIsSound
  <2> QED BY <1>3, <2>1, <2>2, <2>3
<1> QED BY <1>6, <1>7, <1>8, <1>9, <1>10, <1>11 DEF IInv

----------------------------------------------------------------------------
(* A new search.                                                           *)

\* A search that was just made shows its window, and has no news.
LEMMA NewSearchFacts ==
  ASSUME RecordsAreSound, NEW q \in Requests
  PROVE  /\ IsSearch(CSearch(DBIndex(table, Ask[q].restrict), q))
         /\ Shows(q, CSearch(DBIndex(table, Ask[q].restrict), q),
                  used, Elements(table.docs), late = 0)
         /\ \A Q, e : Told(q, CSearch(DBIndex(table, Ask[q].restrict), q), Q, e)
<1> DEFINE r  == Ask[q].restrict
           s  == DBIndex(table, r)
           g  == get_range(s, Ask[q])
           cs == CSearch(s, q)
           D  == Elements(table.docs)
<1>1. /\ r \in Restrictions /\ IsKey(Ask[q])
  BY ConsoleAssumption DEF IsKey
<1>2. /\ table.docs \in Seq(Keys) /\ D \subseteq used /\ used \subseteq Keys
      /\ late = 0 => Increasing(table.docs)
  BY DEF RecordsAreSound, Sound, IsTable
<1>3. s \in Seq(Keys) /\ Elements(s) = D \cap Matching[r] /\ (late = 0 => Increasing(s))
  <2> HIDE DEF r
  <2> QED BY <1>1, <1>2, IndexFacts
<1>4. cs = [start |-> g.start, end |-> g.end, at_end |-> g.at_end, clients |-> {},
            order |-> g.keys, items |-> [k \in Elements(g.keys) |-> NewItem("shown")]]
  BY DEF CSearch
<1>5. g = NoRange \/ Found(s, g)
  <2> HIDE DEF s
  <2> QED BY <1>1, <1>3, RangeFacts
<1> HIDE DEF s, g, cs, D
<1>6. /\ g.keys \in Seq(Keys) /\ g.start \in Keys \cup {None} /\ g.end \in Keys \cup {None}
      /\ g.at_end \in BOOLEAN
  <2>1. <<>> \in Seq(Keys)
    OBVIOUS
  <2>2. Elements(s) \subseteq Keys
    BY <1>2, <1>3
  <2>3. CASE g = NoRange
    <3>1. g.keys = <<>> /\ g.start = None /\ g.end = None /\ g.at_end = FALSE
      BY <2>3 DEF NoRange
    <3> QED BY <2>1, <3>1
  <2>4. CASE Found(s, g)
    BY <2>2, <2>4 DEF Found
  <2> QED BY <1>5, <2>3, <2>4
<1>7. NewItem("shown") \in Item /\ NewItem("shown").deleted = FALSE
      /\ NewItem("shown").busy = FALSE /\ NewItem("shown").news = "shown"
  BY DEF NewItem, Item
<1>8. IsSearch(cs)
  BY <1>4, <1>6, <1>7 DEF IsSearch
<1>9. DOMAIN cs.items = Elements(g.keys) /\ \A k \in DOMAIN cs.items : cs.items[k] = NewItem("shown")
  BY <1>4
<1>10. ASSUME NEW Q, NEW e PROVE Told(q, cs, Q, e)
  BY <1>7, <1>9 DEF Told
<1>11. Shows(q, cs, used, D, late = 0)
  <2> DEFINE M == Matching[r]
  <2>1. cs.start = g.start /\ cs.end = g.end /\ cs.at_end = g.at_end
    BY <1>4
  <2>2. CASE g = NoRange
    <3>1. Elements(g.keys) = {} /\ g.start = None /\ g.at_end = FALSE
      BY <2>2, ElementsOfEmpty DEF NoRange
    <3> QED BY <1>9, <2>1, <3>1 DEF Shows
  <2>3. CASE Found(s, g)
    <3>1. /\ g.start \in D \cap M /\ g.end \in D \cap M /\ Elements(g.keys) \subseteq D \cap M
          /\ late = 0 => /\ Elements(g.keys) = {k \in D \cap M : g.start <= k /\ k <= g.end}
                         /\ g.at_end => \A k \in D \cap M : k <= g.end
      BY <1>3, <2>3 DEF Found
    <3>2. g.start # None
      <4>1. g.start \in Keys
        BY <1>2, <3>1
      <4> QED BY <4>1, KeysAreNumbers DEF None
    <3>3. {k \in DOMAIN cs.items : ~ cs.items[k].deleted} = Elements(g.keys)
      BY <1>7, <1>9
    <3>4. {k \in D \cap M : InWindow(cs, k)} = {k \in D \cap M : g.start <= k /\ k <= g.end}
      BY <2>1 DEF InWindow
    <3> HIDE DEF M
    <3>5. DOMAIN cs.items \subseteq used \cap M /\ cs.start # None /\ cs.start \in used /\ cs.end \in used
      BY <1>2, <1>9, <2>1, <3>1, <3>2
    <3>6. late = 0 => /\ {k \in DOMAIN cs.items : ~ cs.items[k].deleted} =
                           {k \in D \cap M : InWindow(cs, k)}
                      /\ cs.at_end => \A k \in D \cap M : k <= cs.end
      BY <2>1, <3>1, <3>3, <3>4
    <3> QED BY <3>5, <3>6 DEF Shows, M
  <2> QED BY <1>5, <2>2, <2>3
<1> QED BY <1>8, <1>10, <1>11 DEF cs, s, D

LEMMA StartStreamIInv ==
  ASSUME IInv, NEW sid \in Sids, NEW q \in Requests, StartStream(sid, q)
  PROVE  IInv'
<1> DEFINE S     == {s \in SearchesOf(sid) : Ask[s].tag = Ask[q].tag}
           left  == Leaving(sid, S)
           r     == Ask[q].restrict
           t     == IF q \in DOMAIN left THEN table ELSE get_idx(table, r)
           found == IF q \in DOMAIN left THEN left[q] ELSE CSearch(get_idx(table, r).idx[r], q)
           joined == [s \in DOMAIN left \cup {q} |->
                        IF s = q THEN [found EXCEPT !.clients = @ \cup {sid}] ELSE left[s]]
           whole == {s \in DOMAIN joined : sid \in joined[s].clients /\ joined[s].order # <<>>}
           new   == {[of |-> s, keys |-> joined[s].order] : s \in whole}
<1>1. /\ table' = t /\ searches' = joined /\ queue' = QueueOf(DOMAIN left) \o InSomeOrder(new)
      /\ emitting' = EmittingOf(DOMAIN left)
      /\ rooms' = [rooms EXCEPT ![sid] = @ \cup {q}] /\ used' = used /\ late' = late
  BY DEF StartStream, EnterRoom
<1>2. SearchesAreSound /\ QueueIsSound /\ RecordsAreSound
  BY DEF IInv
<1>3. Remain(sid, S, left)
  <2> HIDE DEF S
  <2> QED BY <1>2, LeavingFacts
<1>4. r \in Restrictions
  BY ConsoleAssumption
<1> HIDE DEF left, S
<1>5. /\ Sound(get_idx(table, r)) /\ get_idx(table, r).docs = table.docs
      /\ get_idx(table, r).idx[r] = DBIndex(table, r)
  <2> HIDE DEF r
  <2> QED BY <1>2, <1>4, GetIdxIsSound DEF RecordsAreSound
<1>6. Sound(table') /\ table'.docs = table.docs
  BY <1>1, <1>2, <1>5 DEF RecordsAreSound
<1>7. \A s \in DOMAIN left :
        /\ IsSearch(left[s]) /\ s \in InUse
        /\ Shows(s, left[s], used, Elements(table.docs), late = 0)
        /\ Told(s, left[s], Elements(queue), emitting)
        /\ left[s].clients # {} /\ left[s].clients \subseteq Sids
        /\ \A c \in left[s].clients : s \in rooms[c]
  <2> SUFFICES ASSUME NEW s \in DOMAIN left
               PROVE  /\ IsSearch(left[s]) /\ s \in InUse
                      /\ Shows(s, left[s], used, Elements(table.docs), late = 0)
                      /\ Told(s, left[s], Elements(queue), emitting)
                      /\ left[s].clients # {} /\ left[s].clients \subseteq Sids
                      /\ \A c \in left[s].clients : s \in rooms[c]
    OBVIOUS
  <2>1. /\ s \in InUse /\ IsSearch(left[s])
        /\ left[s].start = searches[s].start /\ left[s].end = searches[s].end
        /\ left[s].at_end = searches[s].at_end /\ left[s].items = searches[s].items
        /\ left[s].clients \subseteq searches[s].clients
        /\ searches[s].clients # {} => left[s].clients # {}
    BY <1>3 DEF Remain
  <2>2. /\ Shows(s, searches[s], used, Elements(table.docs), late = 0)
        /\ Told(s, searches[s], Elements(queue), emitting)
        /\ searches[s].clients # {} /\ \A c \in searches[s].clients : s \in rooms[c]
    BY <2>1 DEF IInv, WindowsAreShown, NewsAreTold, ClientsAreServed
  <2>3. Shows(s, left[s], used, Elements(table.docs), late = 0)
    BY <2>1, <2>2, ShowsSame
  <2>4. Told(s, left[s], Elements(queue), emitting)
    BY <2>1, <2>2, ToldStill
  <2>5. left[s].clients \subseteq Sids
    BY <2>1 DEF IsSearch
  <2> QED BY <2>1, <2>2, <2>3, <2>4, <2>5
<1>8. /\ IsSearch(found) /\ Shows(q, found, used, Elements(table.docs), late = 0)
      /\ q \notin DOMAIN left => \A Q, e : Told(q, found, Q, e)
      /\ q \notin DOMAIN left => found.clients = {}
  <2>1. CASE q \in DOMAIN left
    BY <1>7, <2>1
  <2>2. CASE q \notin DOMAIN left
    <3>1. found = CSearch(DBIndex(table, r), q)
      BY <1>5, <2>2
    <3>2. CSearch(DBIndex(table, r), q).clients = {}
      BY DEF CSearch
    <3> QED BY <1>2, <2>2, <3>1, <3>2, NewSearchFacts
  <2> QED BY <2>1, <2>2
<1> DEFINE ds == [found EXCEPT !.clients = @ \cup {sid}]
<1>9. /\ IsSearch(ds) /\ Shows(q, ds, used, Elements(table.docs), late = 0)
      /\ ds.clients = found.clients \cup {sid} /\ ds.items = found.items
  <2> HIDE DEF found
  <2>1. ds = [start |-> found.start, end |-> found.end, at_end |-> found.at_end,
              clients |-> found.clients \cup {sid}, order |-> found.order, items |-> found.items]
    <3>1. IsSearch(found)
      BY <1>8
    <3>2. found = [start |-> found.start, end |-> found.end, at_end |-> found.at_end,
                   clients |-> found.clients, order |-> found.order, items |-> found.items]
      BY <3>1 DEF IsSearch
    <3> QED BY <3>2
  <2> HIDE DEF ds
  <2>2. /\ ds.start = found.start /\ ds.end = found.end /\ ds.at_end = found.at_end
        /\ ds.clients = found.clients \cup {sid} /\ ds.items = found.items
    BY <2>1
  <2>3. IsSearch(ds)
    BY <1>8, <2>1 DEF IsSearch
  <2>4. Shows(q, ds, used, Elements(table.docs), late = 0)
    BY <1>8, <2>2, ShowsSame
  <2> QED BY <2>2, <2>3, <2>4
<1>10. /\ DOMAIN joined = DOMAIN left \cup {q} /\ joined = [s \in DOMAIN joined |-> joined[s]]
       /\ joined[q] = ds /\ \A s \in DOMAIN left : s # q => joined[s] = left[s]
  OBVIOUS
<1> HIDE DEF joined, ds
<1>11. \A s \in DOMAIN joined : IsSearch(joined[s]) /\ s \in Requests
  BY <1>2, <1>7, <1>9, <1>10 DEF SearchesAreSound
<1>12. /\ InSomeOrder(new) \in Seq(Updates) /\ IsFiniteSet(DOMAIN joined)
  <2>1. IsFiniteSet(DOMAIN left)
    BY <1>3 DEF Remain
  <2>2. IsFiniteSet(DOMAIN joined)
    BY <1>10, <2>1, FS_AddElement
  <2>3. whole \in SUBSET (DOMAIN joined)
    OBVIOUS
  <2>4. IsFiniteSet(whole)
    BY <2>2, <2>3, FS_Subset
  <2> DEFINE f == [s \in whole |-> [of |-> s, keys |-> joined[s].order]]
  <2>5. new = {f[s] : s \in whole} /\ DOMAIN f = whole
    OBVIOUS
  <2>6. IsFiniteSet(new)
    <3> HIDE DEF f, new, whole
    <3> QED BY <2>4, <2>5, UpdatesAreFinite
  <2>7. new \subseteq Updates
    BY <1>11 DEF Updates, IsSearch
  <2> HIDE DEF new
  <2> QED BY <2>2, <2>6, <2>7, SomeOrderFacts
<1> HIDE DEF new, whole
<1>13. /\ queue' \in Seq(Updates) /\ emitting' \in Updates \cup {NoUpdate}
       /\ \A u \in Elements(queue) : u.of \in DOMAIN left => u \in Elements(queue')
       /\ emitting.of \in DOMAIN left => emitting' = emitting
  <2>1. /\ QueueOf(DOMAIN left) \in Seq(Updates)
        /\ Elements(QueueOf(DOMAIN left)) = {u \in Elements(queue) : u.of \in DOMAIN left}
        /\ emitting' \in Updates \cup {NoUpdate}
        /\ emitting.of \in DOMAIN left => emitting' = emitting
    BY <1>1, <1>2, UpdatesOfRemaining
  <2>2. /\ Elements(queue') = Elements(QueueOf(DOMAIN left)) \cup Elements(InSomeOrder(new))
        /\ queue' \in Seq(Updates)
    BY <1>1, <1>12, <2>1, ElementsOfConcat
  <2> QED BY <2>1, <2>2
<1>14. InUse' = DOMAIN joined /\ \A s \in InUse' : searches'[s] = joined[s]
  BY <1>1 DEF InUse
<1>15. RecordsAreSound'
  BY <1>1, <1>2, <1>6 DEF RecordsAreSound
<1>16. SearchesAreSound'
  <2>1. searches' = [s \in InUse' |-> searches'[s]]
    BY <1>1, <1>10, <1>14
  <2> QED BY <1>11, <1>12, <1>14, <2>1 DEF SearchesAreSound
<1>17. QueueIsSound'
  BY <1>1, <1>2, <1>13 DEF QueueIsSound
<1>18. WindowsAreShown'
  <2> SUFFICES ASSUME NEW s \in DOMAIN joined
               PROVE  Shows(s, joined[s], used, Elements(table.docs), late = 0)
    BY <1>1, <1>6, <1>14 DEF WindowsAreShown
  <2> QED BY <1>7, <1>9, <1>10
<1>19. NewsAreTold'
  <2> SUFFICES ASSUME NEW s \in DOMAIN joined
               PROVE  Told(s, joined[s], Elements(queue'), emitting')
    BY <1>14 DEF NewsAreTold
  <2>1. CASE s \in DOMAIN left
    <3>1. joined[s].items = left[s].items
      BY <1>9, <1>10, <2>1
    <3>2. Told(s, left[s], Elements(queue), emitting)
      BY <1>7, <2>1
    <3>3. \A u \in Elements(queue) : u.of = s => u \in Elements(queue')
      BY <1>13, <2>1
    <3>4. emitting.of = s => emitting' = emitting
      BY <1>13, <2>1
    <3> QED BY <3>1, <3>2, <3>3, <3>4, ToldStill
  <2>2. CASE s \notin DOMAIN left
    <3>1. s = q /\ joined[s].items = found.items
      BY <1>9, <1>10, <2>2
    <3>2. Told(q, found, Elements(queue'), emitting')
      BY <1>8, <2>2, <3>1
    <3> QED BY <3>1, <3>2 DEF Told
  <2> QED BY <2>1, <2>2
<1>20. ClientsAreServed'
  <2> SUFFICES ASSUME NEW s \in DOMAIN joined
               PROVE  joined[s].clients # {} /\ \A c \in joined[s].clients : s \in rooms'[c]
    BY <1>14 DEF ClientsAreServed
  <2>1. \A c \in Sids : rooms[c] \subseteq rooms'[c]
    BY <1>1, <1>2 DEF QueueIsSound
  <2>2. q \in rooms'[sid]
    BY <1>1, <1>2 DEF QueueIsSound
  <2>3. CASE s # q
    BY <1>7, <1>10, <2>1, <2>3
  <2>4. CASE s = q
    <3>1. joined[s].clients = found.clients \cup {sid}
      BY <1>9, <1>10, <2>4
    <3>2. \A c \in found.clients : s \in rooms'[c]
      BY <1>7, <1>8, <2>1, <2>4
    <3> QED BY <2>2, <2>4, <3>1, <3>2
  <2> QED BY <2>3, <2>4
<1> QED BY <1>15, <1>16, <1>17, <1>18, <1>19, <1>20 DEF IInv

----------------------------------------------------------------------------
(* A change of a record.                                                   *)

Operations == {"ins", "upd", "del"}

\* What check_csearch makes of the search cs before it pushes: its clients, and all
\* items but that of k, are as they were; k may join them.
IsChecked(cs, c, k) ==
  /\ IsSearch(c) /\ c.clients = cs.clients
  /\ DOMAIN c.items = DOMAIN cs.items \/ DOMAIN c.items = DOMAIN cs.items \cup {k}
  /\ \A j \in DOMAIN cs.items :
       /\ j # k => c.items[j] = cs.items[j]
       /\ c.items[j].busy = cs.items[j].busy /\ c.items[j].future = cs.items[j].future
  /\ k \in DOMAIN c.items /\ k \notin DOMAIN cs.items => c.items[k] = NewItem("due")
  /\ k \in DOMAIN c.items \/ c = cs

LEMMA NewItemFacts ==
  ASSUME NEW news \in {"shown", "due"}
  PROVE  /\ NewItem(news) \in Item /\ NewItem(news).news = news
         /\ NewItem(news).deleted = FALSE /\ NewItem(news).busy = FALSE
         /\ NewItem(news).future = FALSE
BY DEF NewItem, Item

LEMMA AddItemFacts ==
  ASSUME NEW cs, IsSearch(cs), NEW k \in Keys, k \notin DOMAIN cs.items
  PROVE  LET c == add_item(cs, k)
         IN  /\ c = [start |-> cs.start, end |-> cs.end, at_end |-> cs.at_end,
                     clients |-> cs.clients, order |-> Append(cs.order, k), items |-> c.items]
             /\ Append(cs.order, k) \in Seq(Keys)
             /\ c.items \in [Elements(Append(cs.order, k)) -> Item]
             /\ DOMAIN c.items = DOMAIN cs.items \cup {k}
             /\ c.items[k] = NewItem("due")
             /\ \A j \in DOMAIN cs.items : j # k /\ c.items[j] = cs.items[j]
<1> DEFINE c == add_item(cs, k)
           x == [j \in DOMAIN cs.items \cup {k} |-> IF j = k THEN NewItem("due") ELSE cs.items[j]]
<1>1. /\ cs = [start |-> cs.start, end |-> cs.end, at_end |-> cs.at_end,
               clients |-> cs.clients, order |-> cs.order, items |-> cs.items]
      /\ cs.order \in Seq(Keys) /\ cs.items \in [Elements(cs.order) -> Item]
  BY DEF IsSearch
<1>2. c = [start |-> cs.start, end |-> cs.end, at_end |-> cs.at_end,
           clients |-> cs.clients, order |-> Append(cs.order, k), items |-> x]
  <2> DEFINE w == Append(cs.order, k)
             b == [cs EXCEPT !.items = x]
  <2>1. c = [cs EXCEPT !.items = x, !.order = w]
    BY DEF add_item
  <2> HIDE DEF x, w
  <2>2. c = [b EXCEPT !.order = w]
    BY <2>1
  <2>3. b = [start |-> cs.start, end |-> cs.end, at_end |-> cs.at_end,
             clients |-> cs.clients, order |-> cs.order, items |-> x]
    BY <1>1
  <2> HIDE DEF b, c
  <2>4. c = [start |-> cs.start, end |-> cs.end, at_end |-> cs.at_end,
             clients |-> cs.clients, order |-> w, items |-> x]
    BY <2>2, <2>3
  <2> QED BY <2>4 DEF w, x, c
<1>3. /\ Append(cs.order, k) \in Seq(Keys)
      /\ Elements(Append(cs.order, k)) = DOMAIN cs.items \cup {k}
  BY <1>1, ElementsOfAppend
<1>4. x \in [DOMAIN cs.items \cup {k} -> Item]
  BY <1>1, NewItemFacts
<1>5. /\ DOMAIN x = DOMAIN cs.items \cup {k} /\ x[k] = NewItem("due")
      /\ \A j \in DOMAIN cs.items : j # k /\ x[j] = cs.items[j]
  OBVIOUS
<1> HIDE DEF c, x
<1>6. c.items = x
  BY <1>2
<1> QED BY <1>2, <1>3, <1>4, <1>5, <1>6 DEF c

LEMMA InsFacts ==
  ASSUME NEW cs, IsSearch(cs), NEW k \in Keys, k \notin DOMAIN cs.items
  PROVE  IsChecked(cs, ins(cs, k), k)
<1> DEFINE a == add_item(cs, k)
           c == ins(cs, k)
<1> SUFFICES IsChecked(cs, c, k)
  OBVIOUS
<1>1. /\ a = [start |-> cs.start, end |-> cs.end, at_end |-> cs.at_end,
              clients |-> cs.clients, order |-> Append(cs.order, k), items |-> a.items]
      /\ Append(cs.order, k) \in Seq(Keys)
      /\ a.items \in [Elements(Append(cs.order, k)) -> Item]
      /\ DOMAIN a.items = DOMAIN cs.items \cup {k}
      /\ a.items[k] = NewItem("due")
      /\ \A j \in DOMAIN cs.items : j # k /\ a.items[j] = cs.items[j]
  BY AddItemFacts
<1>2. \/ c = cs \/ c = [a EXCEPT !.end = k] \/ c = [a EXCEPT !.start = k]
  BY DEF ins
<1> HIDE DEF a, c
<1>3. CASE c = cs
  <2>1. DOMAIN c.items = DOMAIN cs.items /\ k \notin DOMAIN c.items
    BY <1>3
  <2>2. IsChecked(cs, cs, k)
    BY <1>3, <2>1 DEF IsChecked
  <2> QED BY <1>3, <2>2
<1>4. ASSUME c # cs
      PROVE  \E from \in {cs.start, k}, to \in {cs.end, k} :
               c = [start |-> from, end |-> to, at_end |-> cs.at_end,
                    clients |-> cs.clients, order |-> Append(cs.order, k), items |-> a.items]
  <2> DEFINE w == Append(cs.order, k)
             x == a.items
  <2>1. a = [start |-> cs.start, end |-> cs.end, at_end |-> cs.at_end,
             clients |-> cs.clients, order |-> w, items |-> x]
    BY <1>1
  <2> HIDE DEF w, x
  <2>2. CASE c = [a EXCEPT !.end = k]
    <3>1. c = [start |-> cs.start, end |-> k, at_end |-> cs.at_end,
               clients |-> cs.clients, order |-> w, items |-> x]
      BY <2>1, <2>2
    <3> QED BY <3>1 DEF w, x
  <2>3. CASE c = [a EXCEPT !.start = k]
    <3>1. c = [start |-> k, end |-> cs.end, at_end |-> cs.at_end,
               clients |-> cs.clients, order |-> w, items |-> x]
      BY <2>1, <2>3
    <3> QED BY <3>1 DEF w, x
  <2> QED BY <1>2, <1>4, <2>2, <2>3
<1>5. CASE c # cs
  <2>0. PICK from \in {cs.start, k}, to \in {cs.end, k} :
               c = [start |-> from, end |-> to, at_end |-> cs.at_end,
                    clients |-> cs.clients, order |-> Append(cs.order, k), items |-> a.items]
    BY <1>4, <1>5
  <2>1. /\ c.clients = cs.clients /\ c.order = Append(cs.order, k) /\ c.items = a.items
        /\ c.at_end = cs.at_end /\ c.start = from /\ c.end = to
        /\ c = [start |-> c.start, end |-> c.end, at_end |-> c.at_end,
                clients |-> c.clients, order |-> c.order, items |-> c.items]
    BY <2>0
  <2>2. /\ cs.start \in Keys \cup {None} /\ cs.end \in Keys \cup {None}
        /\ cs.at_end \in BOOLEAN /\ cs.clients \subseteq Sids
    BY DEF IsSearch
  <2>3. /\ c.start \in Keys \cup {None} /\ c.end \in Keys \cup {None}
        /\ c.at_end \in BOOLEAN /\ c.clients \subseteq Sids
        /\ c.order \in Seq(Keys) /\ c.items \in [Elements(c.order) -> Item]
    BY <1>1, <2>1, <2>2
  <2>4. IsSearch(c)
    BY <2>1, <2>3 DEF IsSearch
  <2> QED BY <1>1, <2>1, <2>4 DEF IsChecked
<1> QED BY <1>3, <1>5

LEMMA CheckedFacts ==
  ASSUME NEW cs, IsSearch(cs), NEW op \in Operations, NEW k \in Keys,
         op = "ins" => k \notin DOMAIN cs.items
  PROVE  IsChecked(cs, Checked(cs, op, k), k)
<1> DEFINE c == Checked(cs, op, k)
<1>1. CASE op = "ins"
  BY <1>1, InsFacts DEF Checked
<1>2. CASE op # "ins" /\ c = cs
  BY <1>2 DEF IsChecked
<1>3. CASE op # "ins" /\ c # cs
  <2> DEFINE x == [cs.items EXCEPT ![k].deleted = TRUE]
  <2>1. k \in DOMAIN cs.items /\ c = [cs EXCEPT !.items[k].deleted = TRUE]
    BY <1>3 DEF Checked
  <2>2. /\ cs = [start |-> cs.start, end |-> cs.end, at_end |-> cs.at_end,
                 clients |-> cs.clients, order |-> cs.order, items |-> cs.items]
        /\ cs.order \in Seq(Keys) /\ cs.items \in [Elements(cs.order) -> Item]
    BY DEF IsSearch
  <2>3. c = [start |-> cs.start, end |-> cs.end, at_end |-> cs.at_end,
             clients |-> cs.clients, order |-> cs.order, items |-> x]
    BY <2>1, <2>2
  <2>4. /\ x \in [Elements(cs.order) -> Item]
        /\ \A j \in DOMAIN cs.items :
             /\ j # k => x[j] = cs.items[j]
             /\ x[j].busy = cs.items[j].busy /\ x[j].future = cs.items[j].future
    <3> DEFINE y == [cs.items[k] EXCEPT !.deleted = TRUE]
    <3>1. cs.items[k] \in Item
      BY <2>1, <2>2
    <3>2. y \in Item /\ y.busy = cs.items[k].busy /\ y.future = cs.items[k].future
      BY <3>1 DEF Item
    <3>3. x = [cs.items EXCEPT ![k] = y]
      OBVIOUS
    <3> HIDE DEF x, y
    <3> QED BY <2>1, <2>2, <3>2, <3>3
  <2>5. DOMAIN x = DOMAIN cs.items
    OBVIOUS
  <2> HIDE DEF c, x
  <2>6. c.items = x /\ c.clients = cs.clients
    BY <2>3
  <2>7. IsSearch(c)
    BY <2>2, <2>3, <2>4 DEF IsSearch
  <2> QED BY <2>1, <2>4, <2>5, <2>6, <2>7 DEF IsChecked, c
<1> QED BY <1>1, <1>2, <1>3

\* An item that has changed, and is pushed.
LEMMA PushFacts ==
  ASSUME NEW item \in Item, NEW recent \in BOOLEAN
  PROVE  LET pushed == push_update(item, recent)
         IN  /\ pushed \in Item /\ pushed.deleted = item.deleted /\ pushed.news = item.news
             /\ item.busy => pushed.busy
             /\ ~ item.busy => pushed.busy \/ (pushed.future /\ ~ pushed.busy)
BY DEF push_update, Item

LEMMA NotedFacts ==
  ASSUME NEW s, NEW k, NEW item \in Item
  PROVE  /\ Noted(s, k, item) \in Item /\ Noted(s, k, item).deleted = item.deleted
         /\ Noted(s, k, item).busy = item.busy
         /\ Noted(s, k, item).news = "due" => ~ (item.busy /\ Emitting(s, k) /\ ~ Pending(s, k))
BY DEF Noted, Item

\* A record that does not meet the restriction of a search is not in its window.
LEMMA OthersShowIns ==
  ASSUME NEW s, NEW cs, NEW U, NEW D, NEW inorder \in BOOLEAN, NEW still \in BOOLEAN,
         Shows(s, cs, U, D, inorder), NEW k, k \notin Matching[Ask[s].restrict],
         still => inorder
  PROVE  Shows(s, cs, U \cup {k}, D \cup {k}, still)
<1> DEFINE M == Matching[Ask[s].restrict]
<1>1. (D \cup {k}) \cap M = D \cap M
  OBVIOUS
<1> QED BY <1>1 DEF Shows

LEMMA OthersShowDel ==
  ASSUME NEW s, NEW cs, NEW U, NEW D, NEW inorder \in BOOLEAN,
         Shows(s, cs, U, D, inorder), NEW k, k \notin Matching[Ask[s].restrict]
  PROVE  Shows(s, cs, U, D \ {k}, inorder)
<1> DEFINE M == Matching[Ask[s].restrict]
<1>1. (D \ {k}) \cap M = D \cap M
  OBVIOUS
<1> QED BY <1>1 DEF Shows

\* A new record: it came late, or its key is above all others.
LEMMA InsShows ==
  ASSUME NEW s, NEW cs, IsSearch(cs), NEW U \in SUBSET Keys, NEW D \in SUBSET U,
         NEW inorder \in BOOLEAN, NEW still \in BOOLEAN, Shows(s, cs, U, D, inorder),
         NEW k \in Keys, k \notin U, k \in Matching[Ask[s].restrict],
         still => inorder /\ \A j \in U : j < k
  PROVE  Shows(s, ins(cs, k), U \cup {k}, D \cup {k}, still)
<1> DEFINE M == Matching[Ask[s].restrict]
           a == add_item(cs, k)
           c == ins(cs, k)
<1>1. /\ DOMAIN cs.items \subseteq U \cap M
      /\ cs.start = None => DOMAIN cs.items = {} /\ ~ cs.at_end
      /\ cs.start # None => cs.start \in U /\ cs.end \in U
      /\ inorder /\ cs.start # None =>
           /\ {j \in DOMAIN cs.items : ~ cs.items[j].deleted} = {j \in D \cap M : InWindow(cs, j)}
           /\ cs.at_end => \A j \in D \cap M : j <= cs.end
  BY DEF Shows
<1>2. k \notin DOMAIN cs.items
  BY <1>1
<1>3. CASE c = cs
  <2>1. ASSUME still, cs.start # None
        PROVE  /\ {j \in DOMAIN cs.items : ~ cs.items[j].deleted} =
                    {j \in (D \cup {k}) \cap M : InWindow(cs, j)}
               /\ cs.at_end => \A j \in (D \cup {k}) \cap M : j <= cs.end
    <3>1. cs.end < k /\ cs.end \in Int /\ k \in Int
      BY <1>1, <2>1, KeysAreNumbers
    <3>2. ~ InWindow(cs, k)
      BY <3>1 DEF InWindow
    <3>3. ~ cs.at_end
      <4>1. SUFFICES ASSUME cs.at_end PROVE FALSE
        OBVIOUS
      <4>2. c = [a EXCEPT !.end = k]
        BY <3>1, <4>1 DEF ins
      <4>3. k \in DOMAIN c.items
        <5> HIDE DEF a, c
        <5>1. /\ a = [start |-> cs.start, end |-> cs.end, at_end |-> cs.at_end,
                      clients |-> cs.clients, order |-> Append(cs.order, k), items |-> a.items]
              /\ DOMAIN a.items = DOMAIN cs.items \cup {k}
          BY <1>2, AddItemFacts DEF a
        <5>2. c.items = a.items
          BY <4>2, <5>1
        <5> QED BY <5>1, <5>2
      <4> HIDE DEF c
      <4> QED BY <1>2, <1>3, <4>3
    <3> QED BY <1>1, <2>1, <3>2, <3>3
  <2>2. Shows(s, cs, U \cup {k}, D \cup {k}, still)
    BY <1>1, <2>1 DEF Shows
  <2> HIDE DEF c
  <2>3. Shows(s, c, U \cup {k}, D \cup {k}, still)
    BY <1>3, <2>2
  <2> QED BY <2>3 DEF c
<1>4. CASE c # cs
  <2>1. /\ a = [start |-> cs.start, end |-> cs.end, at_end |-> cs.at_end,
                clients |-> cs.clients, order |-> Append(cs.order, k), items |-> a.items]
        /\ DOMAIN a.items = DOMAIN cs.items \cup {k}
        /\ a.items[k] = NewItem("due")
        /\ \A j \in DOMAIN cs.items : j # k /\ a.items[j] = cs.items[j]
    BY <1>2, AddItemFacts
  <2>2. /\ cs.at_end
        /\ \/ cs.end < k /\ c = [a EXCEPT !.end = k]
           \/ ~ (cs.end < k) /\ c = [a EXCEPT !.start = k]
    BY <1>4 DEF ins
  <2> HIDE DEF a, c
  <2>3. /\ c.items = a.items /\ c.at_end = cs.at_end
        /\ \/ cs.end < k /\ c.start = cs.start /\ c.end = k
           \/ ~ (cs.end < k) /\ c.start = k /\ c.end = cs.end
    <3> DEFINE x == a.items
               w == Append(cs.order, k)
    <3>1. a = [start |-> cs.start, end |-> cs.end, at_end |-> cs.at_end,
               clients |-> cs.clients, order |-> w, items |-> x]
      BY <2>1
    <3> HIDE DEF x, w
    <3>2. CASE cs.end < k /\ c = [a EXCEPT !.end = k]
      <4>1. c.items = x /\ c.at_end = cs.at_end /\ c.start = cs.start /\ c.end = k
        BY <3>1, <3>2
      <4> QED BY <3>2, <4>1 DEF x
    <3>3. CASE ~ (cs.end < k) /\ c = [a EXCEPT !.start = k]
      <4>1. c.items = x /\ c.at_end = cs.at_end /\ c.start = k /\ c.end = cs.end
        BY <3>1, <3>3
      <4> QED BY <3>3, <4>1 DEF x
    <3> QED BY <2>2, <3>2, <3>3
  <2>4. cs.start # None /\ cs.start \in U /\ cs.end \in U /\ k # None
    BY <1>1, <2>2, KeysAreNumbers DEF None
  <2>5. /\ DOMAIN c.items \subseteq (U \cup {k}) \cap M
        /\ c.start # None /\ c.start \in U \cup {k} /\ c.end \in U \cup {k}
    BY <1>1, <2>1, <2>3, <2>4
  <2>6. ASSUME still
        PROVE  /\ {j \in DOMAIN c.items : ~ c.items[j].deleted} =
                    {j \in (D \cup {k}) \cap M : InWindow(c, j)}
               /\ \A j \in (D \cup {k}) \cap M : j <= c.end
    <3>1. /\ cs.end < k /\ cs.start < k /\ c.start = cs.start /\ c.end = k
          /\ \A j \in D : j < k
      BY <2>3, <2>4, <2>6
    <3>2. /\ D \subseteq Int /\ k \in Int /\ cs.start \in Int /\ cs.end \in Int
      BY <2>4, KeysAreNumbers
    <3>3. \A j \in D \cap M : j <= cs.end
      BY <1>1, <2>2, <2>4, <2>6
    <3>4. \A j \in D \cap M : InWindow(c, j) <=> InWindow(cs, j)
      BY <3>1, <3>2, <3>3 DEF InWindow
    <3>5. InWindow(c, k)
      BY <3>1, <3>2 DEF InWindow
    <3>6. {j \in DOMAIN c.items : ~ c.items[j].deleted} =
            {j \in DOMAIN cs.items : ~ cs.items[j].deleted} \cup {k}
      <4>1. NewItem("due").deleted = FALSE
        BY NewItemFacts
      <4> QED BY <2>1, <2>3, <4>1
    <3>7. {j \in DOMAIN cs.items : ~ cs.items[j].deleted} = {j \in D \cap M : InWindow(cs, j)}
      BY <1>1, <2>4, <2>6
    <3>8. {j \in (D \cup {k}) \cap M : InWindow(c, j)} =
            {j \in D \cap M : InWindow(cs, j)} \cup {k}
      BY <3>4, <3>5
    <3>9. \A j \in (D \cup {k}) \cap M : j <= c.end
      <4> SUFFICES ASSUME NEW j \in D \cup {k} PROVE j <= k
        BY <3>1
      <4>1. j \in Int /\ (j < k \/ j = k)
        BY <3>1, <3>2
      <4> QED BY <3>2, <4>1
    <3> QED BY <3>6, <3>7, <3>8, <3>9
  <2>7. Shows(s, c, U \cup {k}, D \cup {k}, still)
    BY <2>5, <2>6 DEF Shows
  <2> QED BY <2>7 DEF c
<1> QED BY <1>3, <1>4

\* A record that is deleted is marked, if it is in the window.
LEMMA DelShows ==
  ASSUME NEW s, NEW cs, IsSearch(cs), NEW U, NEW D,
         NEW inorder \in BOOLEAN, Shows(s, cs, U, D, inorder), NEW k \in Keys
  PROVE  Shows(s, Checked(cs, "del", k), U, D \ {k}, inorder)
<1> DEFINE M == Matching[Ask[s].restrict]
           c == Checked(cs, "del", k)
           gone == k \in DOMAIN cs.items /\ InWindow(cs, k)
<1> SUFFICES Shows(s, c, U, D \ {k}, inorder)
  OBVIOUS
<1>1. /\ DOMAIN cs.items \subseteq U \cap M
      /\ cs.start = None => DOMAIN cs.items = {} /\ ~ cs.at_end
      /\ cs.start # None => cs.start \in U /\ cs.end \in U
      /\ inorder /\ cs.start # None =>
           /\ {j \in DOMAIN cs.items : ~ cs.items[j].deleted} = {j \in D \cap M : InWindow(cs, j)}
           /\ cs.at_end => \A j \in D \cap M : j <= cs.end
  BY DEF Shows
<1>2. /\ cs = [start |-> cs.start, end |-> cs.end, at_end |-> cs.at_end,
               clients |-> cs.clients, order |-> cs.order, items |-> cs.items]
      /\ cs.items \in [Elements(cs.order) -> Item]
  BY DEF IsSearch
<1>3. IF gone THEN c = [cs EXCEPT !.items[k].deleted = TRUE] ELSE c = cs
  BY DEF Checked
<1> DEFINE x == [cs.items EXCEPT ![k].deleted = TRUE]
<1>4. IF gone THEN c = [start |-> cs.start, end |-> cs.end, at_end |-> cs.at_end,
                        clients |-> cs.clients, order |-> cs.order, items |-> x]
              ELSE c = cs
  BY <1>2, <1>3
<1>5. gone => /\ DOMAIN x = DOMAIN cs.items /\ x[k].deleted
              /\ \A j \in DOMAIN cs.items : j # k => x[j] = cs.items[j]
  BY <1>2 DEF Item
<1> HIDE DEF c, x
<1>6. /\ c.start = cs.start /\ c.end = cs.end /\ c.at_end = cs.at_end
      /\ DOMAIN c.items = DOMAIN cs.items
      /\ \A j \in DOMAIN cs.items : j # k => c.items[j] = cs.items[j]
      /\ gone => c.items[k].deleted
  BY <1>4, <1>5
<1>7. \A j : InWindow(c, j) <=> InWindow(cs, j)
  BY <1>6 DEF InWindow
<1>8. ASSUME inorder, cs.start # None
      PROVE  {j \in DOMAIN c.items : ~ c.items[j].deleted} =
               {j \in (D \ {k}) \cap M : InWindow(c, j)}
  <2>1. {j \in DOMAIN cs.items : ~ cs.items[j].deleted} = {j \in D \cap M : InWindow(cs, j)}
    BY <1>1, <1>8
  <2>2. ~ (k \in DOMAIN c.items /\ ~ c.items[k].deleted)
    <3>1. CASE gone
      BY <1>6, <3>1
    <3>2. CASE ~ gone
      <4>1. c = cs
        BY <1>4, <3>2
      <4>2. SUFFICES ASSUME k \in DOMAIN cs.items, ~ cs.items[k].deleted PROVE FALSE
        BY <4>1
      <4>3. InWindow(cs, k)
        BY <2>1, <4>2
      <4> QED BY <3>2, <4>2, <4>3
    <3> QED BY <3>1, <3>2
  <2> QED BY <1>6, <1>7, <2>1, <2>2
<1> QED BY <1>1, <1>6, <1>8 DEF Shows

\* An item that is not pushed was not touched.
LEMMA UntouchedUnlessPushed ==
  ASSUME NEW cs, IsSearch(cs), NEW op \in Operations, NEW k \in Keys, NEW force,
         op = "ins" => k \notin DOMAIN cs.items,
         ~ Pushes(cs, Checked(cs, op, k), k, force)
  PROVE  Checked(cs, op, k) = cs
<1> DEFINE c == Checked(cs, op, k)
<1> SUFFICES c = cs
  OBVIOUS
<1>1. k \in DOMAIN c.items \/ c = cs
  BY CheckedFacts DEF IsChecked
<1>2. CASE op = "ins"
  BY <1>1, <1>2 DEF Pushes
<1>3. CASE op # "ins" /\ c # cs
  <2>1. InWindow(cs, k) /\ c = [cs EXCEPT !.items[k].deleted = TRUE]
    BY <1>3 DEF Checked
  <2>2. ~ Pushes(cs, c, k, force)
    OBVIOUS
  <2> HIDE DEF c
  <2> QED BY <1>1, <1>3, <2>1, <2>2 DEF Pushes
<1> QED BY <1>2, <1>3

\* d is the search after check_csearch, which made c of cs, pushed the item of k; an
\* update of it, if that made one necessary, is in R.
IsPushed(s, cs, c, d, k, recent, p, R) ==
  /\ IsSearch(cs) /\ Told(s, cs, Elements(queue), emitting)
  /\ IsChecked(cs, c, k) /\ k \in DOMAIN c.items
  /\ p = push_update(Noted(s, k, c.items[k]), recent)
  /\ d = [c EXCEPT !.items[k] = p]
  /\ Elements(queue) \subseteq R
  /\ p.busy /\ ~ c.items[k].busy => [of |-> s, keys |-> <<k>>] \in R

LEMMA PushedFacts ==
  ASSUME QueueIsSound, NEW s, NEW cs, NEW c, NEW d, NEW k \in Keys, NEW recent \in BOOLEAN,
         NEW p, NEW R, IsPushed(s, cs, c, d, k, recent, p, R)
  PROVE  /\ IsSearch(d) /\ d.clients = cs.clients
         /\ d.start = c.start /\ d.end = c.end /\ d.at_end = c.at_end
         /\ DOMAIN d.items = DOMAIN c.items
         /\ \A j \in DOMAIN c.items : d.items[j].deleted = c.items[j].deleted
         /\ Told(s, d, R, emitting)
<1> DEFINE x == [c.items EXCEPT ![k] = p]
           i == c.items[k]
<1>0. /\ IsSearch(cs) /\ Told(s, cs, Elements(queue), emitting)
      /\ IsChecked(cs, c, k) /\ k \in DOMAIN c.items
      /\ p = push_update(Noted(s, k, i), recent)
      /\ Elements(queue) \subseteq R
      /\ p.busy /\ ~ i.busy => [of |-> s, keys |-> <<k>>] \in R
  BY DEF IsPushed
<1>00. d = [c EXCEPT !.items[k] = p]
  BY DEF IsPushed
<1>1. /\ c = [start |-> c.start, end |-> c.end, at_end |-> c.at_end,
              clients |-> c.clients, order |-> c.order, items |-> c.items]
      /\ c.items \in [Elements(c.order) -> Item] /\ IsSearch(c)
      /\ c.start \in Keys \cup {None} /\ c.end \in Keys \cup {None}
      /\ c.at_end \in BOOLEAN /\ c.clients \subseteq Sids /\ c.order \in Seq(Keys)
  BY <1>0 DEF IsChecked, IsSearch
<1>2. i \in Item
  BY <1>0, <1>1
<1>3. /\ Noted(s, k, i) \in Item /\ Noted(s, k, i).deleted = i.deleted
      /\ Noted(s, k, i).busy = i.busy
      /\ Noted(s, k, i).news = "due" => ~ (i.busy /\ Emitting(s, k) /\ ~ Pending(s, k))
  BY <1>2, NotedFacts
<1>4. /\ p \in Item /\ p.deleted = i.deleted /\ p.news = Noted(s, k, i).news
      /\ i.busy => p.busy
      /\ ~ i.busy => p.busy \/ (p.future /\ ~ p.busy)
  BY <1>0, <1>3, PushFacts
<1>5. d = [start |-> c.start, end |-> c.end, at_end |-> c.at_end,
           clients |-> c.clients, order |-> c.order, items |-> x]
  BY <1>00, <1>1
<1>6. /\ x \in [Elements(c.order) -> Item] /\ x[k] = p /\ DOMAIN x = DOMAIN c.items
      /\ \A j \in DOMAIN c.items : j # k => x[j] = c.items[j]
  BY <1>0, <1>1, <1>4
<1> HIDE DEF x
<1>7. /\ d.items = x /\ d.clients = c.clients /\ d.start = c.start /\ d.end = c.end
      /\ d.at_end = c.at_end /\ d.order = c.order
      /\ d = [start |-> d.start, end |-> d.end, at_end |-> d.at_end,
              clients |-> d.clients, order |-> d.order, items |-> d.items]
  <2>1. /\ d.items = x /\ d.clients = c.clients /\ d.start = c.start /\ d.end = c.end
        /\ d.at_end = c.at_end /\ d.order = c.order
    BY <1>5
  <2> QED BY <1>5, <2>1, Zenon
<1>8. IsSearch(d)
  BY <1>1, <1>6, <1>7 DEF IsSearch
<1>9. \A j \in DOMAIN c.items : d.items[j].deleted = c.items[j].deleted
  BY <1>4, <1>6, <1>7
<1>10. \A j : /\ UnderWayIn(Elements(queue), emitting, s, j) => UnderWayIn(R, emitting, s, j)
              /\ PendingIn(Elements(queue), s, j) => PendingIn(R, s, j)
  BY <1>0 DEF UnderWayIn, PendingIn
<1>11. ASSUME i.busy PROVE UnderWayIn(Elements(queue), emitting, s, k)
  <2>1. k \in DOMAIN cs.items /\ cs.items[k].busy
    <3>1. k \notin DOMAIN cs.items => i = NewItem("due") /\ ~ NewItem("due").busy
      BY <1>0, NewItemFacts DEF IsChecked
    <3> QED BY <1>0, <1>11, <3>1 DEF IsChecked
  <2> QED BY <1>0, <2>1 DEF Told
<1>12. ASSUME p.busy PROVE UnderWayIn(R, emitting, s, k)
  <2>1. CASE i.busy
    BY <1>10, <1>11, <2>1
  <2>2. CASE ~ i.busy
    <3> DEFINE u == [of |-> s, keys |-> <<k>>]
    <3>1. u \in R /\ u.of = s /\ u.keys # <<>> /\ Head(u.keys) = k
      BY <1>0, <1>12, <2>2
    <3> QED BY <3>1 DEF UnderWayIn
  <2> QED BY <2>1, <2>2
<1>13. ASSUME p.news = "due" PROVE PendingIn(R, s, k) \/ (p.future /\ ~ p.busy)
  <2>1. CASE i.busy
    <3>1. Pending(s, k) \/ ~ Emitting(s, k)
      BY <1>3, <1>4, <1>13, <2>1
    <3>2. PICK u \in Elements(queue) \cup {emitting} :
            u.of = s /\ u.keys # <<>> /\ Head(u.keys) = k
      BY <1>11, <2>1 DEF UnderWayIn
    <3>3. u.keys \in Seq(Keys)
      <4>1. queue \in Seq(Updates) /\ emitting \in Updates \cup {NoUpdate} /\ <<>> \in Seq(Keys)
        BY DEF QueueIsSound
      <4>2. u \in Updates \cup {NoUpdate}
        BY <4>1, ElementsAreInK
      <4>3. CASE u \in Updates
        BY <4>3 DEF Updates
      <4>4. CASE u = NoUpdate
        BY <4>1, <4>4 DEF NoUpdate
      <4> QED BY <4>2, <4>3, <4>4
    <3>4. k \in Elements(u.keys)
      BY <3>2, <3>3, ElementsOfHeadTail
    <3>5. PendingIn(Elements(queue), s, k)
      <4>1. CASE u \in Elements(queue)
        BY <3>2, <3>4, <4>1 DEF PendingIn
      <4>2. CASE u = emitting
        <5>1. Emitting(s, k)
          BY <3>2, <3>4, <4>2 DEF Emitting
        <5> QED BY <3>1, <5>1, InTheQueue
      <4> QED BY <4>1, <4>2
    <3> QED BY <1>10, <3>5
  <2>2. CASE ~ i.busy /\ p.busy
    <3> DEFINE u == [of |-> s, keys |-> <<k>>]
    <3>1. u \in R /\ u.of = s /\ Elements(u.keys) = {k}
      <4>1. Elements(<<k>>) = {k}
        BY DEF Elements
      <4> QED BY <1>0, <2>2, <4>1
    <3> QED BY <3>1 DEF PendingIn
  <2>3. CASE ~ i.busy /\ ~ p.busy
    BY <1>4, <2>3
  <2> QED BY <2>1, <2>2, <2>3
<1>14. Told(s, d, R, emitting)
  <2> SUFFICES ASSUME NEW j \in DOMAIN c.items
               PROVE  /\ x[j].busy => UnderWayIn(R, emitting, s, j)
                      /\ x[j].news = "due" =>
                           PendingIn(R, s, j) \/ (x[j].future /\ ~ x[j].busy)
    BY <1>6, <1>7 DEF Told
  <2>1. CASE j = k
    BY <1>6, <1>12, <1>13, <2>1
  <2>2. CASE j # k
    <3>1. j \in DOMAIN cs.items /\ x[j] = cs.items[j]
      BY <1>0, <1>6, <2>2 DEF IsChecked
    <3> QED BY <1>0, <1>10, <3>1 DEF Told
  <2> QED BY <2>1, <2>2
<1>15. d.clients = cs.clients
  BY <1>0, <1>7 DEF IsChecked
<1> QED BY <1>6, <1>7, <1>8, <1>9, <1>14, <1>15

\* Whatever the operation, of which the searches' windows have yet to be shown:
\* U are the keys used afterwards, D those in the table, `still` if none came late.
LEMMA CheckCSearchFacts ==
  ASSUME IInv, NEW op \in Operations, NEW k \in Keys, NEW force \in BOOLEAN,
         op = "ins" => k \notin used, CheckCSearch(op, k, force),
         NEW U, NEW D, NEW still \in BOOLEAN,
         \A s \in InUse :
           /\ k \in Matching[Ask[s].restrict] => Shows(s, Checked(searches[s], op, k), U, D, still)
           /\ k \notin Matching[Ask[s].restrict] => Shows(s, searches[s], U, D, still)
  PROVE  /\ SearchesAreSound' /\ QueueIsSound' /\ NewsAreTold' /\ ClientsAreServed'
         /\ \A s \in InUse' : Shows(s, searches'[s], U, D, still)
<1>1. PICK recent \in SUBSET InUse :
        LET concerned == {s \in InUse : check_restrictions(Ask[s].restrict, k)}
            checked   == [s \in concerned |-> Checked(searches[s], op, k)]
            pushing   == {s \in concerned : Pushes(searches[s], checked[s], k, force)}
            pushed    == [s \in pushing |->
                            push_update(Noted(s, k, checked[s].items[k]),
                                        s \in recent /\ ~force)]
            queued    == {s \in pushing : pushed[s].busy /\ ~checked[s].items[k].busy}
        IN  /\ searches' = [s \in InUse |->
                 IF s \in pushing THEN [checked[s] EXCEPT !.items[k] = pushed[s]]
                 ELSE IF s \in concerned THEN checked[s] ELSE searches[s]]
            /\ queue' = queue \o InSomeOrder({[of |-> s, keys |-> <<k>>] : s \in queued})
            /\ UNCHANGED <<rooms, emitting>>
  BY DEF CheckCSearch
<1> DEFINE concerned == {s \in InUse : check_restrictions(Ask[s].restrict, k)}
           checked   == [s \in concerned |-> Checked(searches[s], op, k)]
           pushing   == {s \in concerned : Pushes(searches[s], checked[s], k, force)}
           pushed    == [s \in pushing |->
                           push_update(Noted(s, k, checked[s].items[k]),
                                       s \in recent /\ ~force)]
           queued    == {s \in pushing : pushed[s].busy /\ ~checked[s].items[k].busy}
           new       == {[of |-> s, keys |-> <<k>>] : s \in queued}
<1>2. /\ searches' = [s \in InUse |->
           IF s \in pushing THEN [checked[s] EXCEPT !.items[k] = pushed[s]]
           ELSE IF s \in concerned THEN checked[s] ELSE searches[s]]
      /\ queue' = queue \o InSomeOrder(new)
      /\ rooms' = rooms /\ emitting' = emitting
  BY <1>1
<1>3. /\ IsFiniteSet(InUse) /\ InUse \subseteq Requests /\ \A s \in InUse : IsSearch(searches[s])
      /\ QueueIsSound /\ queue \in Seq(Updates)
      /\ \A s \in InUse : /\ Told(s, searches[s], Elements(queue), emitting)
                          /\ DOMAIN searches[s].items \subseteq used
      /\ ClientsAreServed
  BY DEF IInv, SearchesAreSound, QueueIsSound, NewsAreTold, WindowsAreShown, Shows
<1>4. /\ concerned = {s \in InUse : k \in Matching[Ask[s].restrict]}
      /\ pushing \subseteq concerned /\ queued \subseteq pushing
      /\ \A s \in concerned : checked[s] = Checked(searches[s], op, k)
      /\ \A s \in concerned : s \in pushing <=> Pushes(searches[s], checked[s], k, force)
      /\ \A s \in pushing :
           pushed[s] = push_update(Noted(s, k, checked[s].items[k]), s \in recent /\ ~force)
      /\ \A s \in pushing : pushed[s].busy /\ ~checked[s].items[k].busy => s \in queued
      /\ new = {[of |-> s, keys |-> <<k>>] : s \in queued}
  BY DEF check_restrictions
<1> HIDE DEF concerned, checked, pushing, pushed, queued, new
<1>5. /\ InSomeOrder(new) \in Seq(Updates) /\ Elements(InSomeOrder(new)) = new
  <2>1. queued \in SUBSET InUse
    BY <1>4
  <2>2. IsFiniteSet(queued)
    BY <1>3, <2>1, FS_Subset
  <2> DEFINE f == [s \in queued |-> [of |-> s, keys |-> <<k>>]]
  <2>3. new = {f[s] : s \in queued} /\ DOMAIN f = queued
    BY <1>4
  <2>4. IsFiniteSet(new)
    <3> HIDE DEF f
    <3> QED BY <2>2, <2>3, UpdatesAreFinite
  <2>5. new \subseteq Updates
    <3> SUFFICES ASSUME NEW s \in queued PROVE [of |-> s, keys |-> <<k>>] \in Updates
      BY <1>4
    <3>1. <<k>> \in Seq(Keys) /\ s \in Requests
      BY <1>3, <2>1
    <3> QED BY <3>1 DEF Updates
  <2> QED BY <2>4, <2>5, SomeOrderFacts
<1>6. queue' \in Seq(Updates) /\ Elements(queue') = Elements(queue) \cup new
  BY <1>2, <1>3, <1>5, ElementsOfConcat
<1>7. QueueIsSound'
  BY <1>2, <1>3, <1>6 DEF QueueIsSound
<1>8. InUse' = InUse /\ searches' = [s \in InUse' |-> searches'[s]]
  BY <1>2 DEF InUse
<1>9. ASSUME NEW s \in InUse
      PROVE  /\ IsSearch(searches'[s]) /\ searches'[s].clients = searches[s].clients
             /\ Shows(s, searches'[s], U, D, still)
             /\ Told(s, searches'[s], Elements(queue'), emitting)
  <2> DEFINE cs == searches[s]
             c  == Checked(cs, op, k)
  <2>1. IsSearch(cs) /\ Told(s, cs, Elements(queue), emitting)
        /\ (op = "ins" => k \notin DOMAIN cs.items)
    BY <1>3
  <2>2. Told(s, cs, Elements(queue'), emitting)
    BY <1>6, <2>1, ToldStill
  <2>3. CASE s \notin concerned
    <3>1. searches'[s] = cs /\ Shows(s, cs, U, D, still)
      BY <1>2, <1>4, <2>3
    <3> QED BY <2>1, <2>2, <3>1
  <2>4. CASE s \in concerned /\ s \notin pushing
    <3>1. searches'[s] = c /\ Shows(s, c, U, D, still)
      BY <1>2, <1>4, <2>4
    <3>2. c = cs
      BY <1>4, <2>1, <2>4, UntouchedUnlessPushed
    <3> QED BY <2>1, <2>2, <3>1, <3>2
  <2>5. CASE s \in pushing
    <3> DEFINE p == pushed[s]
               d == [c EXCEPT !.items[k] = p]
               b == s \in recent /\ ~force
    <3>1. searches'[s] = d /\ Shows(s, c, U, D, still) /\ checked[s] = c
      BY <1>2, <1>4, <2>5
    <3>2. IsChecked(cs, c, k)
      BY <2>1, CheckedFacts
    <3>3. k \in DOMAIN c.items
      BY <1>4, <2>5, <3>1 DEF Pushes
    <3>4. p = push_update(Noted(s, k, c.items[k]), b) /\ b \in BOOLEAN
      BY <1>4, <2>5, <3>1
    <3>5. p.busy /\ ~ c.items[k].busy => [of |-> s, keys |-> <<k>>] \in Elements(queue')
      BY <1>4, <1>6, <2>5, <3>1
    <3>6. Elements(queue) \subseteq Elements(queue')
      BY <1>6
    <3>0. d = [c EXCEPT !.items[k] = p]
      OBVIOUS
    <3>9. QueueIsSound /\ IsSearch(cs) /\ Told(s, cs, Elements(queue), emitting)
      BY <1>3, <2>1
    <3> HIDE DEF cs, c, p, b, d
    <3>11. PICK R : R = Elements(queue')
      OBVIOUS
    <3>10. IsPushed(s, cs, c, d, k, b, p, R)
      BY <3>11, <3>0, <3>2, <3>3, <3>4, <3>5, <3>6, <3>9 DEF IsPushed
    <3>7. /\ IsSearch(d) /\ d.clients = cs.clients
          /\ d.start = c.start /\ d.end = c.end /\ d.at_end = c.at_end
          /\ DOMAIN d.items = DOMAIN c.items
          /\ \A j \in DOMAIN c.items : d.items[j].deleted = c.items[j].deleted
          /\ Told(s, d, Elements(queue'), emitting)
      BY <3>4, <3>9, <3>10, <3>11, PushedFacts
    <3>8. Shows(s, d, U, D, still)
      BY <3>1, <3>7, ShowsSame
    <3> QED BY <3>1, <3>7, <3>8 DEF cs
  <2> QED BY <1>4, <2>3, <2>4, <2>5
<1>10. SearchesAreSound'
  BY <1>3, <1>8, <1>9 DEF SearchesAreSound
<1>11. NewsAreTold'
  BY <1>2, <1>8, <1>9 DEF NewsAreTold
<1>12. ClientsAreServed'
  BY <1>2, <1>3, <1>8, <1>9 DEF ClientsAreServed
<1> QED BY <1>7, <1>8, <1>9, <1>10, <1>11, <1>12

LEMMA InsertIInv == ASSUME IInv, NEW k \in Keys, Insert(k) PROVE IInv'
<1> DEFINE D     == Elements(table.docs)
           still == late = 0 /\ ~ IsLate(k)
<1>1. /\ k \notin used /\ (IsLate(k) => late < MaxLate)
      /\ table' = db_insert(table, k) /\ used' = used \cup {k}
      /\ late' = IF IsLate(k) THEN late + 1 ELSE late
      /\ CheckCSearch("ins", k, FALSE)
  BY DEF Insert
<1>2. /\ Sound(table) /\ used \subseteq Keys /\ late \in 0 .. MaxLate /\ D \subseteq used
      /\ late = 0 => Increasing(table.docs)
      /\ MaxLate \in Nat
  BY ConsoleAssumption DEF IInv, RecordsAreSound
<1>3. table.docs \in Seq(Keys) /\ ~ has(table, k)
  BY <1>1, <1>2 DEF Sound, IsTable, has
<1>4. Sound(table') /\ table'.docs = Append(table.docs, k)
  BY <1>1, <1>2, <1>3, InsertIsSound
<1>5. Elements(table'.docs) = D \cup {k}
  BY <1>3, <1>4, ElementsOfAppend
<1>6. still => \A j \in used : j < k
  <2> SUFFICES ASSUME NEW j \in used, ~ (j > k) PROVE j < k
    BY DEF IsLate
  <2>1. j \in Int /\ k \in Int /\ j # k
    BY <1>1, <1>2, KeysAreNumbers
  <2> QED BY <2>1
<1>7. late' \in 0 .. MaxLate /\ (late' = 0 <=> still)
  BY <1>1, <1>2
<1>8. late' = 0 => Increasing(table'.docs)
  <2> SUFFICES ASSUME still PROVE Increasing(Append(table.docs, k))
    BY <1>4, <1>7
  <2>1. \A j \in D : j < k
    BY <1>2, <1>6
  <2>2. table.docs \in Seq(Int) /\ k \in Int /\ Increasing(table.docs)
    BY <1>2, <1>3, KeysAreNumbers
  <2> QED BY <2>1, <2>2, AppendIncreasing
<1>9. RecordsAreSound'
  BY <1>1, <1>2, <1>4, <1>5, <1>7, <1>8 DEF RecordsAreSound
<1>10. ASSUME NEW s \in InUse
       PROVE  /\ k \in Matching[Ask[s].restrict] =>
                   Shows(s, Checked(searches[s], "ins", k), used \cup {k}, D \cup {k}, still)
              /\ k \notin Matching[Ask[s].restrict] =>
                   Shows(s, searches[s], used \cup {k}, D \cup {k}, still)
  <2> DEFINE inorder == late = 0
             cs == searches[s]
  <2>1. IsSearch(cs) /\ Shows(s, cs, used, D, inorder)
    BY DEF IInv, SearchesAreSound, WindowsAreShown
  <2>2. Checked(cs, "ins", k) = ins(cs, k)
    BY DEF Checked
  <2>3. still \in BOOLEAN /\ inorder \in BOOLEAN /\ (still => inorder)
    OBVIOUS
  <2>7. still => inorder /\ \A j \in used : j < k
    BY <1>6
  <2>4. used \in SUBSET Keys /\ D \in SUBSET used
    BY <1>2
  <2> HIDE DEF still, D, inorder, cs
  <2>5. CASE k \in Matching[Ask[s].restrict]
    <3>1. Shows(s, ins(cs, k), used \cup {k}, D \cup {k}, still)
      BY <1>1, <2>1, <2>3, <2>4, <2>5, <2>7, InsShows
    <3> QED BY <2>2, <2>5, <3>1 DEF cs
  <2>6. CASE k \notin Matching[Ask[s].restrict]
    <3>1. Shows(s, cs, used \cup {k}, D \cup {k}, still)
      BY <2>1, <2>3, <2>6, OthersShowIns
    <3> QED BY <2>6, <3>1 DEF cs
  <2> QED BY <2>5, <2>6
<1>11. still \in BOOLEAN /\ "ins" \in Operations /\ FALSE \in BOOLEAN
  BY DEF Operations
<1> HIDE DEF still, D
<1>12. /\ SearchesAreSound' /\ QueueIsSound' /\ NewsAreTold' /\ ClientsAreServed'
       /\ \A s \in InUse' : Shows(s, searches'[s], used \cup {k}, D \cup {k}, still)
  BY <1>1, <1>10, <1>11, CheckCSearchFacts
<1>13. WindowsAreShown'
  <2> SUFFICES ASSUME NEW s \in InUse'
               PROVE  Shows(s, searches'[s], used', Elements(table'.docs), late' = 0)
    BY DEF WindowsAreShown
  <2>1. (late' = 0) = still
    BY <1>7, <1>11
  <2> QED BY <1>1, <1>5, <1>12, <2>1
<1> QED BY <1>9, <1>12, <1>13 DEF IInv

LEMMA UpdateIInv ==
  ASSUME IInv, NEW k \in Keys, NEW force \in BOOLEAN, Update(k, force) PROVE IInv'
<1> DEFINE D       == Elements(table.docs)
           inorder == late = 0
<1>1. CheckCSearch("upd", k, force) /\ UNCHANGED <<table, used, late>>
  BY DEF Update, db
<1>2. RecordsAreSound'
  BY <1>1 DEF IInv, RecordsAreSound
<1>3. ASSUME NEW s \in InUse
      PROVE  /\ k \in Matching[Ask[s].restrict] =>
                  Shows(s, Checked(searches[s], "upd", k), used, D, inorder)
             /\ k \notin Matching[Ask[s].restrict] =>
                  Shows(s, searches[s], used, D, inorder)
  <2>1. Checked(searches[s], "upd", k) = searches[s]
    BY DEF Checked
  <2> QED BY <2>1 DEF IInv, WindowsAreShown
<1>4. inorder \in BOOLEAN /\ "upd" \in Operations
  BY DEF Operations
<1> HIDE DEF inorder, D
<1>5. /\ SearchesAreSound' /\ QueueIsSound' /\ NewsAreTold' /\ ClientsAreServed'
      /\ \A s \in InUse' : Shows(s, searches'[s], used, D, inorder)
  BY <1>1, <1>3, <1>4, CheckCSearchFacts
<1>6. WindowsAreShown'
  BY <1>1, <1>5 DEF WindowsAreShown, D, inorder
<1> QED BY <1>2, <1>5, <1>6 DEF IInv

LEMMA DeleteIInv == ASSUME IInv, NEW k \in Keys, Delete(k) PROVE IInv'
<1> DEFINE D       == Elements(table.docs)
           inorder == late = 0
<1>1. /\ table' = db_delete(table, k) /\ used' = used /\ late' = late
      /\ CheckCSearch("del", k, FALSE)
  BY DEF Delete
<1>2. /\ Sound(table) /\ used \subseteq Keys /\ late \in 0 .. MaxLate /\ D \subseteq used
      /\ late = 0 => Increasing(table.docs)
      /\ table.docs \in Seq(Keys)
  BY DEF IInv, RecordsAreSound, Sound, IsTable
<1>3. Sound(table') /\ table'.docs = Without(table.docs, k)
  BY <1>1, <1>2, DeleteIsSound
<1>4. Elements(table'.docs) = D \ {k} /\ (late = 0 => Increasing(table'.docs))
  BY <1>2, <1>3, WithoutFacts
<1>5. RecordsAreSound'
  BY <1>1, <1>2, <1>3, <1>4 DEF RecordsAreSound
<1>6. ASSUME NEW s \in InUse
      PROVE  /\ k \in Matching[Ask[s].restrict] =>
                  Shows(s, Checked(searches[s], "del", k), used, D \ {k}, inorder)
             /\ k \notin Matching[Ask[s].restrict] =>
                  Shows(s, searches[s], used, D \ {k}, inorder)
  <2> DEFINE cs == searches[s]
  <2>1. IsSearch(cs) /\ Shows(s, cs, used, D, inorder)
    BY DEF IInv, SearchesAreSound, WindowsAreShown
  <2>2. inorder \in BOOLEAN
    OBVIOUS
  <2> HIDE DEF inorder, D, cs
  <2>3. Shows(s, Checked(cs, "del", k), used, D \ {k}, inorder)
    BY <2>1, <2>2, DelShows
  <2>4. k \notin Matching[Ask[s].restrict] => Shows(s, cs, used, D \ {k}, inorder)
    BY <2>1, <2>2, OthersShowDel
  <2> QED BY <2>3, <2>4 DEF cs
<1>7. inorder \in BOOLEAN /\ "del" \in Operations /\ FALSE \in BOOLEAN
  BY DEF Operations
<1> HIDE DEF inorder, D
<1>8. /\ SearchesAreSound' /\ QueueIsSound' /\ NewsAreTold' /\ ClientsAreServed'
      /\ \A s \in InUse' : Shows(s, searches'[s], used, D \ {k}, inorder)
  BY <1>1, <1>6, <1>7, CheckCSearchFacts
<1>9. WindowsAreShown'
  <2> SUFFICES ASSUME NEW s \in InUse'
               PROVE  Shows(s, searches'[s], used', Elements(table'.docs), late' = 0)
    BY DEF WindowsAreShown
  <2> QED BY <1>1, <1>4, <1>8 DEF inorder
<1> QED BY <1>5, <1>8, <1>9 DEF IInv

----------------------------------------------------------------------------
(* The timer and the loop.                                                 *)

\* A step that changes no more than the flags and the news of the items of s.
LEMMA ChangeOfItemsIInv ==
  ASSUME IInv, NEW s \in InUse, NEW x \in [DOMAIN searches[s].items -> Item],
         \A k \in DOMAIN searches[s].items : x[k].deleted = searches[s].items[k].deleted,
         searches' = [searches EXCEPT ![s] = [searches[s] EXCEPT !.items = x]],
         UNCHANGED <<table, used, late, rooms>>,
         queue' \in Seq(Updates), emitting' \in Updates \cup {NoUpdate},
         \A t \in InUse : t # s => Told(t, searches[t], Elements(queue'), emitting'),
         \A k \in DOMAIN x :
           /\ x[k].busy => UnderWayIn(Elements(queue'), emitting', s, k)
           /\ x[k].news = "due" =>
                PendingIn(Elements(queue'), s, k) \/ (x[k].future /\ ~ x[k].busy)
  PROVE  IInv'
<1> DEFINE cs == searches[s]
           d  == [cs EXCEPT !.items = x]
<1>1. /\ cs = [start |-> cs.start, end |-> cs.end, at_end |-> cs.at_end,
               clients |-> cs.clients, order |-> cs.order, items |-> cs.items]
      /\ cs.start \in Keys \cup {None} /\ cs.end \in Keys \cup {None}
      /\ cs.at_end \in BOOLEAN /\ cs.clients \subseteq Sids
      /\ cs.order \in Seq(Keys) /\ cs.items \in [Elements(cs.order) -> Item]
  BY DEF IInv, SearchesAreSound, IsSearch
<1>2. d = [start |-> cs.start, end |-> cs.end, at_end |-> cs.at_end,
           clients |-> cs.clients, order |-> cs.order, items |-> x]
  BY <1>1
<1>3. x \in [Elements(cs.order) -> Item] /\ DOMAIN x = DOMAIN cs.items
  BY <1>1
<1>4. searches' = [searches EXCEPT ![s] = d]
  OBVIOUS
<1>5. InUse' = InUse /\ searches'[s] = d /\ \A t \in InUse : t # s => searches'[t] = searches[t]
  BY <1>4 DEF InUse
<1>6. searches' = [t \in InUse' |-> searches'[t]]
  BY <1>4 DEF InUse
<1>7. Shows(s, cs, used, Elements(table.docs), late = 0)
  BY DEF IInv, WindowsAreShown
<1>8. \A k \in DOMAIN cs.items : x[k].deleted = cs.items[k].deleted
  OBVIOUS
<1> HIDE DEF d
<1>9. /\ d.start = cs.start /\ d.end = cs.end /\ d.at_end = cs.at_end
      /\ d.clients = cs.clients /\ d.order = cs.order /\ d.items = x
      /\ d = [start |-> d.start, end |-> d.end, at_end |-> d.at_end,
              clients |-> d.clients, order |-> d.order, items |-> d.items]
  BY <1>2
<1>10. IsSearch(d)
  BY <1>1, <1>3, <1>9 DEF IsSearch
<1>11. Shows(s, d, used, Elements(table.docs), late = 0)
  <2> DEFINE D       == Elements(table.docs)
             inorder == late = 0
  <2>1. inorder \in BOOLEAN /\ Shows(s, cs, used, D, inorder)
    BY <1>7
  <2>2. /\ DOMAIN d.items = DOMAIN cs.items
        /\ \A k \in DOMAIN cs.items : d.items[k].deleted = cs.items[k].deleted
    BY <1>3, <1>8, <1>9
  <2> HIDE DEF cs, D, inorder
  <2>3. Shows(s, d, used, D, inorder)
    BY <1>9, <2>1, <2>2, ShowsSame
  <2> QED BY <2>3 DEF D, inorder
<1>12. Told(s, d, Elements(queue'), emitting')
  BY <1>9 DEF Told
<1> HIDE DEF cs
<1>13. RecordsAreSound'
  BY DEF IInv, RecordsAreSound
<1>14. SearchesAreSound'
  BY <1>5, <1>6, <1>10 DEF IInv, SearchesAreSound
<1>15. QueueIsSound'
  BY DEF IInv, QueueIsSound
<1>16. WindowsAreShown'
  BY <1>5, <1>11 DEF IInv, WindowsAreShown
<1>17. NewsAreTold'
  BY <1>5, <1>12 DEF NewsAreTold
<1>18. ClientsAreServed'
  BY <1>5, <1>9 DEF IInv, ClientsAreServed, cs
<1> QED BY <1>13, <1>14, <1>15, <1>16, <1>17, <1>18 DEF IInv

LEMMA FutureUpdateIInv ==
  ASSUME IInv, NEW s, NEW k, FutureUpdate(s, k) PROVE IInv'
<1> DEFINE i    == searches[s].items[k]
           item == [i EXCEPT !.future = FALSE]
           p    == push_update(item, FALSE)
           x    == [searches[s].items EXCEPT ![k] = p]
           u    == [of |-> s, keys |-> <<k>>]
           R    == Elements(queue')
<1>1. /\ s \in InUse /\ k \in DOMAIN searches[s].items /\ i.future
      /\ searches' = [searches EXCEPT ![s].items[k] = p]
      /\ queue' = IF p.busy /\ ~ item.busy THEN Append(queue, u) ELSE queue
      /\ UNCHANGED <<table, used, late, rooms, emitting>>
  BY DEF FutureUpdate, db
<1>2. /\ IsSearch(searches[s]) /\ s \in Requests /\ queue \in Seq(Updates)
      /\ emitting \in Updates \cup {NoUpdate}
      /\ \A t \in InUse : Told(t, searches[t], Elements(queue), emitting)
  BY <1>1 DEF IInv, SearchesAreSound, QueueIsSound, NewsAreTold
<1>3. searches[s].items \in [DOMAIN searches[s].items -> Item] /\ i \in Item /\ k \in Keys
  <2>1. Elements(searches[s].order) \subseteq Keys
    BY <1>2, ElementsAreInK DEF IsSearch
  <2> QED BY <1>1, <1>2, <2>1 DEF IsSearch
<1>4. /\ p \in Item /\ p.deleted = i.deleted /\ p.busy /\ p.news = i.news /\ item.busy = i.busy
  BY <1>3 DEF push_update, Item
<1>5. searches' = [searches EXCEPT ![s] = [searches[s] EXCEPT !.items = x]]
  BY <1>1
<1>6. queue' = IF ~ i.busy THEN Append(queue, u) ELSE queue
  BY <1>1, <1>4
<1> HIDE DEF p, item
<1>7. /\ x \in [DOMAIN searches[s].items -> Item] /\ x[k] = p
      /\ DOMAIN x = DOMAIN searches[s].items
      /\ \A j \in DOMAIN searches[s].items : j # k => x[j] = searches[s].items[j]
  BY <1>1, <1>3, <1>4
<1>8. \A j \in DOMAIN searches[s].items : x[j].deleted = searches[s].items[j].deleted
  BY <1>4, <1>7
<1>9. queue' \in Seq(Updates) /\ Elements(queue) \subseteq R /\ (~ i.busy => u \in R)
  <2>1. u \in Updates
    BY <1>2, <1>3 DEF Updates
  <2>2. /\ Append(queue, u) \in Seq(Updates)
        /\ Elements(Append(queue, u)) = Elements(queue) \cup {u}
    BY <1>2, <2>1, ElementsOfAppend
  <2> QED BY <1>2, <1>6, <2>2
<1>10. \A t \in InUse : Told(t, searches[t], R, emitting)
  BY <1>2, <1>9, ToldStill
<1>11. u.of = s /\ u.keys # <<>> /\ Head(u.keys) = k /\ k \in Elements(u.keys)
  <2>1. Elements(<<k>>) = {k}
    BY DEF Elements
  <2> QED BY <2>1
<1> HIDE DEF x, u, i
<1>12. ASSUME NEW j \in DOMAIN x
       PROVE  /\ x[j].busy => UnderWayIn(R, emitting, s, j)
              /\ x[j].news = "due" => PendingIn(R, s, j) \/ (x[j].future /\ ~ x[j].busy)
  <2>0. /\ searches[s].items[j].busy => UnderWayIn(R, emitting, s, j)
        /\ searches[s].items[j].news = "due" =>
             \/ PendingIn(R, s, j)
             \/ searches[s].items[j].future /\ ~ searches[s].items[j].busy
    BY <1>1, <1>7, <1>10 DEF Told
  <2>1. CASE j # k
    BY <1>7, <2>0, <2>1
  <2>2. CASE j = k /\ i.busy
    BY <1>4, <1>7, <2>0, <2>2 DEF i
  <2>3. CASE j = k /\ ~ i.busy
    <3>1. u \in R
      BY <1>9, <2>3
    <3>2. UnderWayIn(R, emitting, s, k)
      BY <1>11, <3>1 DEF UnderWayIn
    <3>3. PendingIn(R, s, k)
      BY <1>11, <3>1 DEF PendingIn
    <3> QED BY <2>3, <3>2, <3>3
  <2> QED BY <2>1, <2>2, <2>3
<1> QED BY <1>1, <1>2, <1>5, <1>7, <1>8, <1>9, <1>10, <1>12, ChangeOfItemsIInv

\* The update that is taken moves from the queue to what is being emitted.
LEMMA TakeUpdateIInv == ASSUME IInv, TakeUpdate PROVE IInv'
<1> DEFINE u == Head(queue)
           s == u.of
           x == [k \in DOMAIN searches[s].items |->
                   IF k \in Elements(u.keys) THEN [searches[s].items[k] EXCEPT !.news = "shown"]
                   ELSE searches[s].items[k]]
           R == Elements(queue')
<1>1. /\ emitting = NoUpdate /\ queue # <<>> /\ emitting' = u /\ queue' = Tail(queue)
      /\ searches' = [searches EXCEPT ![s].items = x]
      /\ UNCHANGED <<table, used, late, rooms>>
  BY DEF TakeUpdate, db
<1>2. /\ queue \in Seq(Updates) /\ searches = [t \in InUse |-> searches[t]]
      /\ \A t \in InUse : IsSearch(searches[t]) /\ Told(t, searches[t], Elements(queue), emitting)
  BY DEF IInv, SearchesAreSound, QueueIsSound, NewsAreTold
<1>3. u \in Updates /\ queue' \in Seq(Updates) /\ Elements(queue) = {u} \cup R
  BY <1>1, <1>2, ElementsOfHeadTail
<1>4. ASSUME NEW t, NEW k
      PROVE  /\ UnderWayIn(Elements(queue), emitting, t, k) => UnderWayIn(R, u, t, k)
             /\ PendingIn(Elements(queue), t, k) =>
                  PendingIn(R, t, k) \/ (t = s /\ k \in Elements(u.keys))
  <2> HIDE DEF u, R
  <2>1. UnderWayIn(Elements(queue), emitting, t, k) => UnderWayIn(R, u, t, k)
    <3>1. NoUpdate.keys = <<>>
      BY DEF NoUpdate
    <3> QED BY <1>1, <1>3, <3>1 DEF UnderWayIn
  <2>2. PendingIn(Elements(queue), t, k) => PendingIn(R, t, k) \/ (t = u.of /\ k \in Elements(u.keys))
    BY <1>3 DEF PendingIn
  <2> QED BY <2>1, <2>2
<1>5. ASSUME NEW t \in InUse, t # s PROVE Told(t, searches[t], R, u)
  <2> HIDE DEF s, u, R
  <2> QED BY <1>2, <1>4, <1>5 DEF Told
<1>6. CASE s \notin InUse
  <2>1. searches' = searches
    BY <1>1, <1>2, <1>6 DEF InUse
  <2>2. RecordsAreSound' /\ SearchesAreSound' /\ WindowsAreShown' /\ ClientsAreServed'
    BY <1>1, <2>1 DEF IInv, RecordsAreSound, SearchesAreSound, InUse, WindowsAreShown,
                      ClientsAreServed
  <2>3. QueueIsSound'
    BY <1>1, <1>3 DEF IInv, QueueIsSound
  <2>4. NewsAreTold'
    <3> HIDE DEF s, u, R
    <3> QED BY <1>1, <1>5, <1>6, <2>1 DEF NewsAreTold, InUse, R
  <2> QED BY <2>2, <2>3, <2>4 DEF IInv
<1>7. CASE s \in InUse
  <2>1. searches[s].items \in [DOMAIN searches[s].items -> Item]
    BY <1>2, <1>7 DEF IsSearch
  <2>2. searches' = [searches EXCEPT ![s] = [searches[s] EXCEPT !.items = x]]
    BY <1>1
  <2>3. ASSUME NEW k \in DOMAIN searches[s].items
        PROVE  /\ x[k] \in Item /\ x[k].deleted = searches[s].items[k].deleted
               /\ x[k].busy = searches[s].items[k].busy
               /\ x[k].future = searches[s].items[k].future
               /\ k \in Elements(u.keys) => x[k].news = "shown"
               /\ k \notin Elements(u.keys) => x[k] = searches[s].items[k]
    <3>1. searches[s].items[k] \in Item
      BY <2>1
    <3> DEFINE i == searches[s].items[k]
               y == [i EXCEPT !.news = "shown"]
    <3>2. /\ y \in Item /\ y.deleted = i.deleted /\ y.busy = i.busy /\ y.future = i.future
          /\ y.news = "shown"
      BY <3>1 DEF Item
    <3>3. x[k] = IF k \in Elements(u.keys) THEN y ELSE i
      OBVIOUS
    <3> HIDE DEF x, y, u
    <3> QED BY <3>1, <3>2, <3>3
  <2>4. x \in [DOMAIN searches[s].items -> Item] /\ DOMAIN x = DOMAIN searches[s].items
    <3>1. DOMAIN x = DOMAIN searches[s].items /\ x = [k \in DOMAIN x |-> x[k]]
      OBVIOUS
    <3> HIDE DEF x
    <3> QED BY <2>3, <3>1
  <2> HIDE DEF x
  <2>5. ASSUME NEW k \in DOMAIN x
        PROVE  /\ x[k].busy => UnderWayIn(R, u, s, k)
               /\ x[k].news = "due" => PendingIn(R, s, k) \/ (x[k].future /\ ~ x[k].busy)
    <3>1. /\ searches[s].items[k].busy => UnderWayIn(Elements(queue), emitting, s, k)
          /\ searches[s].items[k].news = "due" =>
               \/ PendingIn(Elements(queue), s, k)
               \/ searches[s].items[k].future /\ ~ searches[s].items[k].busy
      BY <1>2, <1>7, <2>4 DEF Told
    <3>2. k \in DOMAIN searches[s].items
      BY <2>4
    <3> HIDE DEF u, R, s
    <3>3. x[k].busy => UnderWayIn(R, u, s, k)
      BY <1>4, <2>3, <3>1, <3>2
    <3>4. ASSUME x[k].news = "due"
          PROVE  PendingIn(R, s, k) \/ (x[k].future /\ ~ x[k].busy)
      <4>1. k \notin Elements(u.keys) /\ x[k] = searches[s].items[k]
        BY <2>3, <3>2, <3>4
      <4> QED BY <1>4, <3>1, <3>4, <4>1
    <3> QED BY <3>3, <3>4
  <2>6. emitting' \in Updates \cup {NoUpdate} /\ emitting' = u
    BY <1>1, <1>3
  <2>7. /\ \A t \in InUse : t # s => Told(t, searches[t], Elements(queue'), emitting')
        /\ \A k \in DOMAIN x :
             /\ x[k].busy => UnderWayIn(Elements(queue'), emitting', s, k)
             /\ x[k].news = "due" =>
                  PendingIn(Elements(queue'), s, k) \/ (x[k].future /\ ~ x[k].busy)
    BY <1>5, <2>5, <2>6
  <2> HIDE DEF u, s, R
  <2> QED BY <1>1, <1>3, <1>7, <2>2, <2>3, <2>4, <2>6, <2>7, ChangeOfItemsIInv
<1> QED BY <1>6, <1>7

\* The item of the update that was sent is busy no more.
LEMMA UpdateSentIInv == ASSUME IInv, UpdateSent PROVE IInv'
<1> DEFINE e == emitting
           s == e.of
           h == Head(e.keys)
           x == [searches[s].items EXCEPT ![h].busy = FALSE]
           Q == Elements(queue)
<1>1. /\ emitting' = NoUpdate /\ searches' = [searches EXCEPT ![s].items[h].busy = FALSE]
      /\ UNCHANGED <<table, used, late, rooms, queue>>
  BY DEF UpdateSent, db
<1>2. /\ queue \in Seq(Updates) /\ searches = [t \in InUse |-> searches[t]]
      /\ \A t \in InUse : IsSearch(searches[t]) /\ Told(t, searches[t], Q, e)
  BY DEF IInv, SearchesAreSound, QueueIsSound, NewsAreTold
<1>3. ASSUME NEW t, NEW k
      PROVE  UnderWayIn(Q, e, t, k) => UnderWayIn(Q, NoUpdate, t, k) \/ (t = s /\ k = h)
  BY DEF UnderWayIn
<1>4. ASSUME NEW t \in InUse, t # s PROVE Told(t, searches[t], Q, NoUpdate)
  <2> HIDE DEF e, s, h, Q
  <2> QED BY <1>2, <1>3, <1>4 DEF Told
<1>5. CASE s \notin InUse
  <2>1. searches' = searches
    BY <1>1, <1>2, <1>5 DEF InUse
  <2>2. RecordsAreSound' /\ SearchesAreSound' /\ WindowsAreShown' /\ ClientsAreServed'
    BY <1>1, <2>1 DEF IInv, RecordsAreSound, SearchesAreSound, InUse, WindowsAreShown,
                      ClientsAreServed
  <2>3. QueueIsSound'
    BY <1>1 DEF IInv, QueueIsSound
  <2>4. NewsAreTold'
    <3> HIDE DEF s, e
    <3> QED BY <1>1, <1>4, <1>5, <2>1 DEF NewsAreTold, InUse
  <2> QED BY <2>2, <2>3, <2>4 DEF IInv
<1>6. CASE s \in InUse
  <2>1. searches[s].items \in [DOMAIN searches[s].items -> Item]
    BY <1>2, <1>6 DEF IsSearch
  <2>2. searches' = [searches EXCEPT ![s] = [searches[s] EXCEPT !.items = x]]
    BY <1>1
  <2>3. ASSUME NEW k \in DOMAIN searches[s].items
        PROVE  /\ x[k] \in Item /\ x[k].deleted = searches[s].items[k].deleted
               /\ x[k].news = searches[s].items[k].news
               /\ x[k].future = searches[s].items[k].future
               /\ x[k].busy => searches[s].items[k].busy /\ k # h
    <3>1. searches[s].items[k] \in Item
      BY <2>1
    <3> DEFINE i == searches[s].items[k]
               y == [i EXCEPT !.busy = FALSE]
    <3>2. /\ y \in Item /\ y.deleted = i.deleted /\ y.busy = FALSE /\ y.future = i.future
          /\ y.news = i.news
      BY <3>1 DEF Item
    <3>3. x[k] = IF k = h THEN y ELSE i
      OBVIOUS
    <3> HIDE DEF x, y, h
    <3> QED BY <3>1, <3>2, <3>3
  <2>4. x \in [DOMAIN searches[s].items -> Item] /\ DOMAIN x = DOMAIN searches[s].items
    <3>1. DOMAIN x = DOMAIN searches[s].items /\ x = [k \in DOMAIN x |-> x[k]]
      OBVIOUS
    <3> HIDE DEF x
    <3> QED BY <2>3, <3>1
  <2> HIDE DEF x
  <2>5. ASSUME NEW k \in DOMAIN x
        PROVE  /\ x[k].busy => UnderWayIn(Q, NoUpdate, s, k)
               /\ x[k].news = "due" => PendingIn(Q, s, k) \/ (x[k].future /\ ~ x[k].busy)
    <3>1. /\ searches[s].items[k].busy => UnderWayIn(Q, e, s, k)
          /\ searches[s].items[k].news = "due" =>
               \/ PendingIn(Q, s, k)
               \/ searches[s].items[k].future /\ ~ searches[s].items[k].busy
      BY <1>2, <1>6, <2>4 DEF Told
    <3>2. k \in DOMAIN searches[s].items
      BY <2>4
    <3> HIDE DEF Q, s, e, h
    <3> QED BY <1>3, <2>3, <3>1, <3>2
  <2>6. emitting' \in Updates \cup {NoUpdate} /\ queue' = queue
    BY <1>1
  <2> HIDE DEF s, e, h
  <2> QED BY <1>1, <1>2, <1>4, <1>6, <2>2, <2>3, <2>4, <2>5, <2>6, ChangeOfItemsIInv
<1> QED BY <1>5, <1>6

----------------------------------------------------------------------------
(* The theorems.                                                           *)

LEMMA NextIInv == ASSUME IInv, [Next]_vars PROVE IInv'
<1>1. ASSUME NEW sid \in Sids, NEW q \in Requests, StartStream(sid, q) PROVE IInv'
  BY <1>1, StartStreamIInv
<1>2. ASSUME NEW sid \in Sids, Leave(sid) PROVE IInv'
  <2>1. rooms[sid] \ SearchesOf(sid) \in SUBSET Requests
    BY DEF IInv, QueueIsSound
  <2> QED BY <1>2, <2>1, DropSidIInv DEF Leave
<1>3. ASSUME NEW sid \in Sids, Disconnect(sid) PROVE IInv'
  <2>1. {} \in SUBSET Requests
    OBVIOUS
  <2> QED BY <1>3, <2>1, DropSidIInv DEF Disconnect
<1>4. ASSUME NEW k \in Keys, Insert(k) PROVE IInv'
  BY <1>4, InsertIInv
<1>5. ASSUME NEW k \in Keys, NEW force \in BOOLEAN, Update(k, force) PROVE IInv'
  BY <1>5, UpdateIInv
<1>6. ASSUME NEW k \in Keys, Delete(k) PROVE IInv'
  BY <1>6, DeleteIInv
<1>7. ASSUME NEW s \in Requests, NEW k \in Keys, FutureUpdate(s, k) PROVE IInv'
  BY <1>7, FutureUpdateIInv
<1>8. CASE TakeUpdate
  BY <1>8, TakeUpdateIInv
<1>9. CASE UpdateSent
  BY <1>9, UpdateSentIInv
<1>10. CASE UNCHANGED vars
  BY <1>10 DEF vars, db, IInv, RecordsAreSound, SearchesAreSound, QueueIsSound, InUse,
               WindowsAreShown, NewsAreTold, ClientsAreServed
<1> QED BY <1>1, <1>2, <1>3, <1>4, <1>5, <1>6, <1>7, <1>8, <1>9, <1>10 DEF Next

LEMMA IInvAlways == Spec => []IInv
<1>1. Init => IInv
  BY InitIInv
<1>2. IInv /\ [Next]_vars => IInv'
  BY NextIInv
<1> QED BY <1>1, <1>2, PTL DEF Spec

\* The table, the searches, the rooms and the queue are well formed.
THEOREM TypeCorrect == Spec => []TypeOK
<1>1. IInv => TypeOK
  BY IInvTypeOK
<1> QED BY <1>1, IInvAlways, PTL

\* DBIndexFarm: every index has the records of the table that satisfy its
\* restriction, in the table's order, whenever it was built.
THEOREM IndexesAreCurrent == Spec => []IndexIsCurrent
<1>1. IInv => IndexIsCurrent
  BY IInvIndexIsCurrent
<1> QED BY <1>1, IInvAlways, PTL

\* DBTable.get_range: bisecting and slicing the index returns the records a
\* search asks for, by key or by rank, while no record was inserted late.
THEOREM RangesAreByRank == Spec => []RangeIsByRank
<1>1. IInv => RangeIsByRank
  BY IInvRangeIsByRank
<1> QED BY <1>1, IInvAlways, PTL

\* CSearch.check_csearch: while no record was inserted late, a search shows the
\* records of the table between the edges of its window, however these moved.
THEOREM WindowsAreRanges == Spec => []WindowIsRange
<1>1. IInv => WindowIsRange
  BY IInvWindowIsRange
<1> QED BY <1>1, IInvAlways, PTL

\* push_update, schedule_future_update and the update loop: a change that was not
\* sent is in the queue or has a timer.
THEOREM NoChangeIsForgotten == Spec => []NothingForgotten
<1>1. IInv => NothingForgotten
  BY IInvNothingForgotten
<1> QED BY <1>1, IInvAlways, PTL

\* CSearch.add_sid and Table.drop_stream_tag_from_csearch: each search in use has a
\* client, and each of its clients is in its room.
THEOREM EveryClientIsServed == Spec => []ClientsAreServed
<1>1. IInv => ClientsAreServed
  BY DEF IInv
<1> QED BY <1>1, IInvAlways, PTL

=============================================================================
