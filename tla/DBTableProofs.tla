--------------------------- MODULE DBTableProofs ---------------------------
(***************************************************************************)
(* Facts about the tables of the database, whatever their records: what    *)
(* inserts and deletions do to the indexes, what a range contains, and     *)
(* how long lists without repetitions are.                                 *)
(***************************************************************************)
EXTENDS DBTable, ListsProofs

----------------------------------------------------------------------------
(* The table.                                                              *)

\* A table and its indexes, which are current.
Sound(t) ==
  /\ IsTable(t)
  /\ t = [docs |-> t.docs, idx |-> t.idx]
  /\ t.idx = [r \in DOMAIN t.idx |-> t.idx[r]]
  /\ \A r \in DOMAIN t.idx : t.idx[r] = DBIndex(t, r)

LEMMA KeysAreNumbers == Keys \subseteq Nat \ {0} /\ Keys \subseteq Int /\ Seq(Keys) \subseteq Seq(Int)
<1>1. Keys \subseteq Nat \ {0} /\ Keys \subseteq Int
  BY DBTableAssumption
<1> QED BY <1>1, SeqMonotonic

\* An index has the records that satisfy its restriction.
LEMMA IndexFacts ==
  ASSUME NEW t, t.docs \in Seq(Keys), NEW r \in Restrictions
  PROVE  /\ DBIndex(t, r) \in Seq(Keys)
         /\ Elements(DBIndex(t, r)) = Elements(t.docs) \cap Matching[r]
         /\ Increasing(t.docs) => Increasing(DBIndex(t, r))
<1>1. {k \in Keys : check_restrictions(r, k)} = Matching[r]
  BY DBTableAssumption DEF check_restrictions
<1>2. DBIndex(t, r) = Filter(t.docs, Matching[r])
  BY <1>1 DEF DBIndex
<1>3. t.docs \in Seq(Int)
  BY KeysAreNumbers
<1> QED BY <1>2, <1>3, FilterElements, FilterIncreasing

LEMMA EmptyTableIsSound == Sound(EmptyTable)
<1>1. <<>> \in Seq(Keys)
  OBVIOUS
<1> QED BY <1>1 DEF Sound, EmptyTable, IsTable

LEMMA GetIdxIsSound ==
  ASSUME NEW t, Sound(t), NEW r \in Restrictions
  PROVE  /\ Sound(get_idx(t, r)) /\ get_idx(t, r).docs = t.docs
         /\ get_idx(t, r).idx[r] = DBIndex(t, r)
<1>1. CASE r \in DOMAIN t.idx
  BY <1>1 DEF get_idx, Sound
<1>2. CASE r \notin DOMAIN t.idx
  <2> DEFINE x == [q \in DOMAIN t.idx \cup {r} |-> IF q = r THEN DBIndex(t, r) ELSE t.idx[q]]
             u == get_idx(t, r)
  <2>1. u = [docs |-> t.docs, idx |-> x]
    BY <1>2 DEF get_idx, Sound
  <2>2. /\ x = [q \in DOMAIN x |-> x[q]] /\ DOMAIN x = DOMAIN t.idx \cup {r}
        /\ \A q \in DOMAIN x : x[q] = DBIndex(t, q)
    BY DEF Sound
  <2> HIDE DEF x, u
  <2>3. u.docs = t.docs /\ u.idx = x
    BY <2>1
  <2>4. \A q : DBIndex(u, q) = DBIndex(t, q)
    BY <2>3 DEF DBIndex
  <2>5. t.docs \in Seq(Keys) /\ DOMAIN t.idx \subseteq Restrictions
    BY DEF Sound, IsTable
  <2>6. \A q \in DOMAIN x : q \in Restrictions /\ x[q] \in Seq(Keys)
    BY <2>2, <2>5, IndexFacts
  <2>7. IsTable(u)
    BY <2>3, <2>5, <2>6 DEF IsTable
  <2> QED BY <2>1, <2>2, <2>3, <2>4, <2>7 DEF Sound, u
<1> QED BY <1>1, <1>2

LEMMA InsertIsSound ==
  ASSUME NEW t, Sound(t), NEW k \in Keys, ~ has(t, k)
  PROVE  /\ Sound(db_insert(t, k)) /\ db_insert(t, k).docs = Append(t.docs, k)
<1> DEFINE x == [r \in DOMAIN t.idx |->
                   IF check_restrictions(r, k) THEN Append(t.idx[r], k) ELSE t.idx[r]]
           u == db_insert(t, k)
<1>1. u = [docs |-> Append(t.docs, k), idx |-> x]
  BY DEF db_insert
<1>2. x = [r \in DOMAIN x |-> x[r]] /\ DOMAIN x = DOMAIN t.idx
  OBVIOUS
<1>3. ASSUME NEW r \in DOMAIN t.idx
      PROVE  /\ r \in Restrictions /\ x[r] \in Seq(Keys)
             /\ x[r] = Filter(Append(t.docs, k), {j \in Keys : check_restrictions(r, j)})
  <2> DEFINE S == {j \in Keys : check_restrictions(r, j)}
  <2>1. r \in Restrictions /\ t.docs \in Seq(Keys) /\ t.idx[r] \in Seq(Keys)
    BY DEF Sound, IsTable
  <2>2. t.idx[r] = Filter(t.docs, S)
    BY DEF Sound, DBIndex
  <2>3. x[r] = IF k \in S THEN Append(t.idx[r], k) ELSE t.idx[r]
    OBVIOUS
  <2> HIDE DEF S, x
  <2>4. x[r] = Filter(Append(t.docs, k), S)
    <3>1. Filter(Append(t.docs, k), S) =
            IF k \in S THEN Append(Filter(t.docs, S), k) ELSE Filter(t.docs, S)
      BY <2>1, FilterAppend
    <3> QED BY <2>2, <2>3, <3>1
  <2>5. x[r] \in Seq(Keys)
    BY <2>1, <2>3, ElementsOfAppend
  <2> QED BY <2>1, <2>4, <2>5 DEF S
<1> HIDE DEF x, u
<1>4. u.docs = Append(t.docs, k) /\ u.idx = x
  BY <1>1
<1>5. u.docs \in Seq(Keys)
  <2>1. t.docs \in Seq(Keys)
    BY DEF Sound, IsTable
  <2> QED BY <1>4, <2>1, ElementsOfAppend
<1>6. \A r \in DOMAIN x : x[r] = DBIndex(u, r)
  BY <1>2, <1>3, <1>4 DEF DBIndex
<1>7. IsTable(u)
  BY <1>2, <1>3, <1>4, <1>5 DEF IsTable
<1> QED BY <1>1, <1>2, <1>4, <1>6, <1>7 DEF Sound, u

LEMMA WithoutFacts ==
  ASSUME NEW s \in Seq(Keys), NEW k
  PROVE  /\ Without(s, k) \in Seq(Keys)
         /\ Elements(Without(s, k)) = Elements(s) \ {k}
         /\ Increasing(s) => Increasing(Without(s, k))
<1>1. s \in Seq(Int)
  BY KeysAreNumbers
<1>2. /\ Filter(s, Elements(s) \ {k}) \in Seq(Keys)
      /\ Elements(Filter(s, Elements(s) \ {k})) = Elements(s) \cap (Elements(s) \ {k})
  BY FilterElements
<1> QED BY <1>1, <1>2, FilterIncreasing DEF Without

LEMMA DeleteIsSound ==
  ASSUME NEW t, Sound(t), NEW k \in Keys
  PROVE  /\ Sound(db_delete(t, k)) /\ db_delete(t, k).docs = Without(t.docs, k)
<1> DEFINE x == [r \in DOMAIN t.idx |-> Without(t.idx[r], k)]
           u == db_delete(t, k)
<1>1. u = [docs |-> Without(t.docs, k), idx |-> x]
  BY DEF db_delete
<1>2. x = [r \in DOMAIN x |-> x[r]] /\ DOMAIN x = DOMAIN t.idx
  OBVIOUS
<1>3. ASSUME NEW r \in DOMAIN t.idx
      PROVE  /\ r \in Restrictions /\ x[r] \in Seq(Keys)
             /\ x[r] = Filter(Without(t.docs, k), {j \in Keys : check_restrictions(r, j)})
  <2> DEFINE S == {j \in Keys : check_restrictions(r, j)}
             D == Elements(t.docs)
  <2>1. r \in Restrictions /\ t.docs \in Seq(Keys) /\ t.idx[r] \in Seq(Keys)
    BY DEF Sound, IsTable
  <2>2. t.idx[r] = Filter(t.docs, S)
    BY DEF Sound, DBIndex
  <2>3. x[r] = Filter(Filter(t.docs, S), Elements(t.idx[r]) \ {k})
    BY <2>2 DEF Without
  <2>4. Elements(t.idx[r]) = D \cap S
    <3> HIDE DEF S
    <3> QED BY <2>1, <2>2, FilterElements
  <2>5. Filter(Without(t.docs, k), S) = Filter(Filter(t.docs, D \ {k}), S)
    BY DEF Without
  <2> HIDE DEF S, x, D
  <2>6. x[r] = Filter(t.docs, S \cap (Elements(t.idx[r]) \ {k}))
    BY <2>1, <2>3, FilterFilter
  <2>7. Filter(Without(t.docs, k), S) = Filter(t.docs, (D \ {k}) \cap S)
    BY <2>1, <2>5, FilterFilter
  <2>8. S \cap (Elements(t.idx[r]) \ {k}) = (D \ {k}) \cap S
    BY <2>4
  <2>9. x[r] \in Seq(Keys)
    BY <2>1, <2>6, FilterElements
  <2> QED BY <2>1, <2>6, <2>7, <2>8, <2>9 DEF S
<1> HIDE DEF x, u
<1>4. u.docs = Without(t.docs, k) /\ u.idx = x
  BY <1>1
<1>5. u.docs \in Seq(Keys)
  <2>1. t.docs \in Seq(Keys)
    BY DEF Sound, IsTable
  <2> QED BY <1>4, <2>1, WithoutFacts
<1>6. \A r \in DOMAIN x : x[r] = DBIndex(u, r)
  BY <1>2, <1>3, <1>4 DEF DBIndex
<1>7. IsTable(u)
  BY <1>2, <1>3, <1>4, <1>5 DEF IsTable
<1> QED BY <1>1, <1>2, <1>4, <1>6, <1>7 DEF Sound, u

----------------------------------------------------------------------------
(* Ranges.                                                                 *)

IsKey(csk) ==
  /\ csk.start \in Keys \cup {None} /\ csk.end \in Keys \cup {None}
  /\ csk.item \in Int /\ csk.count \in Nat \ {0}

\* The first position is one of the list, or just behind it.
LEMMA FirstPosition ==
  ASSUME NEW s \in Seq(Keys), s # <<>>, NEW csk, IsKey(csk)
  PROVE  /\ first_position(s, csk) \in 0 .. Len(s)
         /\ last_position(s, csk, first_position(s, csk)) \in -1 .. Len(s) - 1
<1> DEFINE sidx == first_position(s, csk)
<1>1. s \in Seq(Int) /\ Len(s) \in Nat /\ Len(s) # 0
  BY KeysAreNumbers
<1>2. csk.start \in Int /\ csk.end \in Int /\ csk.item \in Int /\ csk.count \in Nat \ {0}
  <2>1. Keys \cup {None} \subseteq Int
    BY KeysAreNumbers DEF None
  <2> QED BY <2>1 DEF IsKey
<1>3. sidx \in 0 .. Len(s)
  <2>1. bisect_left(s, csk.start) \in 0 .. Len(s)
    BY <1>1, <1>2, BisectLeftFinds
  <2>2. Greatest(0, Len(s) + csk.item) \in 0 .. Len(s) \/ csk.item >= 0
    BY <1>1, <1>2 DEF Greatest
  <2>3. Least(csk.item, Len(s) - 1) \in 0 .. Len(s) \/ csk.item < 0
    BY <1>1, <1>2 DEF Least
  <2> QED BY <1>2, <2>1, <2>2, <2>3 DEF first_position
<1> HIDE DEF sidx
<1>4. last_position(s, csk, sidx) \in -1 .. Len(s) - 1
  <2>1. bisect_right(s, csk.end, sidx) \in sidx .. Len(s)
    BY <1>1, <1>2, <1>3, BisectRightFinds
  <2>2. bisect_right(s, csk.end, sidx) - 1 \in -1 .. Len(s) - 1
    BY <1>1, <1>3, <2>1
  <2>3. Least(sidx + csk.count - 1, Len(s) - 1) \in -1 .. Len(s) - 1
    BY <1>1, <1>2, <1>3 DEF Least
  <2> QED BY <2>2, <2>3 DEF last_position
<1> QED BY <1>3, <1>4 DEF sidx

\* What get_range returns, if it finds something: records of the index, among
\* them the first and the last; and if the index is in order, all from the one to
\* the other.
Found(s, g) ==
  /\ g.found = TRUE
  /\ g.start \in Elements(s) /\ g.end \in Elements(s) /\ g.at_end \in BOOLEAN
  /\ g.keys \in Seq(Keys) /\ Elements(g.keys) \subseteq Elements(s)
  /\ Increasing(s) =>
       /\ Elements(g.keys) = {k \in Elements(s) : g.start <= k /\ k <= g.end}
       /\ g.at_end => \A k \in Elements(s) : k <= g.end

LEMMA RangeFacts ==
  ASSUME NEW s \in Seq(Keys), NEW csk, IsKey(csk)
  PROVE  \/ get_range(s, csk) = NoRange
         \/ Found(s, get_range(s, csk))
<1> DEFINE sidx == first_position(s, csk)
           eidx == last_position(s, csk, sidx)
           g    == get_range(s, csk)
<1> SUFFICES ASSUME g # NoRange PROVE Found(s, g)
  OBVIOUS
<1>1. /\ s # <<>> /\ sidx # Len(s) /\ ~ (eidx < 0)
      /\ g = [found |-> TRUE, start |-> At(s, sidx), end |-> At(s, eidx),
              at_end |-> At(s, eidx) = At(s, Len(s) - 1),
              keys |-> SubSeq(s, sidx + 1, eidx + 1)]
  BY DEF get_range
<1> HIDE DEF g
<1>2. sidx \in 0 .. Len(s) /\ eidx \in -1 .. Len(s) - 1
  BY <1>1, FirstPosition
<1> HIDE DEF sidx, eidx
<1>3. /\ sidx + 1 \in 1 .. Len(s) /\ eidx + 1 \in 1 .. Len(s) /\ Len(s) \in 1 .. Len(s)
      /\ DOMAIN s = 1 .. Len(s)
  BY <1>1, <1>2
<1>4. /\ g.found = TRUE /\ g.start = s[sidx + 1] /\ g.end = s[eidx + 1]
      /\ g.at_end = (s[eidx + 1] = s[Len(s)])
      /\ g.keys = SubSeq(s, sidx + 1, eidx + 1)
  <2>1. (Len(s) - 1) + 1 = Len(s)
    BY <1>3
  <2> QED BY <1>1, <2>1 DEF At
<1>5. /\ g.keys \in Seq(Keys)
      /\ Elements(g.keys) = {s[i] : i \in sidx + 1 .. eidx + 1}
  <2>1. /\ sidx + 1 \in Int /\ eidx + 1 \in Int
        /\ 1 <= sidx + 1 /\ eidx + 1 <= Len(s)
    BY <1>3
  <2>2. /\ SubSeq(s, sidx + 1, eidx + 1) \in Seq(Keys)
        /\ Elements(SubSeq(s, sidx + 1, eidx + 1)) = {s[i] : i \in sidx + 1 .. eidx + 1}
    BY <2>1, ElementsOfSubSeq
  <2> QED BY <1>4, <2>2
<1>6. g.start \in Elements(s) /\ g.end \in Elements(s) /\ g.at_end \in BOOLEAN
  BY <1>3, <1>4 DEF Elements
<1>7. Elements(g.keys) \subseteq Elements(s)
  <2>1. \A i \in sidx + 1 .. eidx + 1 : i \in DOMAIN s
    BY <1>3
  <2> QED BY <1>5, <2>1 DEF Elements
<1>8. ASSUME Increasing(s)
      PROVE  /\ Elements(g.keys) = {k \in Elements(s) : g.start <= k /\ k <= g.end}
             /\ g.at_end => \A k \in Elements(s) : k <= g.end
  <2>1. \A i, j \in DOMAIN s : s[i] \in Int /\ (s[i] <= s[j] <=> i <= j)
    <3> SUFFICES ASSUME NEW i \in DOMAIN s, NEW j \in DOMAIN s
                 PROVE  s[i] \in Int /\ (s[i] <= s[j] <=> i <= j)
      OBVIOUS
    <3>1. s[i] \in Int /\ s[j] \in Int /\ i \in Int /\ j \in Int
      BY <1>3, KeysAreNumbers
    <3>2. (i < j => s[i] < s[j]) /\ (j < i => s[j] < s[i])
      BY <1>8 DEF Increasing
    <3>3. i = j => s[i] = s[j]
      OBVIOUS
    <3> QED BY <3>1, <3>2, <3>3
  <2>2. \A i \in DOMAIN s : i \in sidx + 1 .. eidx + 1 <=> g.start <= s[i] /\ s[i] <= g.end
    BY <1>3, <1>4, <2>1
  <2>3. Elements(g.keys) = {k \in Elements(s) : g.start <= k /\ k <= g.end}
    <3>1. \A i \in sidx + 1 .. eidx + 1 : i \in DOMAIN s
      BY <1>3
    <3> QED BY <1>5, <2>2, <3>1 DEF Elements
  <2>4. ASSUME g.at_end, NEW i \in DOMAIN s PROVE s[i] <= g.end
    <3>1. s[i] <= s[Len(s)]
      BY <1>3, <2>1
    <3> QED BY <1>4, <2>4, <3>1
  <2> QED BY <2>3, <2>4 DEF Elements
<1> QED BY <1>4, <1>5, <1>6, <1>7, <1>8 DEF Found

----------------------------------------------------------------------------
(* Lists without repetitions.                                              *)

\* A list has no element twice if any two of its places have different ones.
Unlike(K) == {p \in K \X K : p[1] # p[2]}

LEMMA InjectiveIsOrder ==
  ASSUME NEW K, NEW s \in Seq(K)
  PROVE  IsInjective(s) <=> InOrder(s, Unlike(K))
<1>1. DOMAIN s = 1 .. Len(s) /\ \A i \in DOMAIN s : s[i] \in K
  OBVIOUS
<1>2. \A i, j \in DOMAIN s : <<s[i], s[j]>> \in Unlike(K) <=> s[i] # s[j]
  BY <1>1 DEF Unlike
<1>3. \A i, j \in DOMAIN s : i = j \/ i < j \/ j < i
  BY <1>1
<1>4. \A i \in DOMAIN s : ~ (i < i)
  BY <1>1
<1> QED BY <1>2, <1>3, <1>4 DEF IsInjective, InOrder

LEMMA FilterInjective ==
  ASSUME NEW K, NEW s \in Seq(K), NEW S, IsInjective(s)
  PROVE  IsInjective(Filter(s, S))
<1>1. InOrder(s, Unlike(K))
  BY InjectiveIsOrder
<1>2. Filter(s, S) \in Seq(K) /\ InOrder(Filter(s, S), Unlike(K))
  BY <1>1, FilterElements, FilterInOrder
<1> QED BY <1>2, InjectiveIsOrder

LEMMA AppendIsInjective ==
  ASSUME NEW K, NEW s \in Seq(K), NEW e \in K
  PROVE  IsInjective(Append(s, e)) <=> IsInjective(s) /\ e \notin Elements(s)
<1>1. Append(s, e) \in Seq(K) /\ Elements(s) \subseteq K
  BY ElementsOfAppend, ElementsAreInK
<1>2. InOrder(Append(s, e), Unlike(K)) <=>
        InOrder(s, Unlike(K)) /\ \A d \in Elements(s) : <<d, e>> \in Unlike(K)
  BY InOrderOfAppend
<1>3. (\A d \in Elements(s) : <<d, e>> \in Unlike(K)) <=> e \notin Elements(s)
  BY <1>1 DEF Unlike
<1> QED BY <1>1, <1>2, <1>3, InjectiveIsOrder

\* A list in order has no element twice.
LEMMA IncreasingIsInjective ==
  ASSUME NEW s \in Seq(Int), Increasing(s) PROVE IsInjective(s)
<1> SUFFICES ASSUME NEW i \in DOMAIN s, NEW j \in DOMAIN s, s[i] = s[j] PROVE i = j
  BY DEF IsInjective
<1>1. i \in Int /\ j \in Int /\ s[i] \in Int
  OBVIOUS
<1> QED BY <1>1 DEF Increasing

\* Without one element a list is shorter by one.
LEMMA FilterOneLess ==
  ASSUME NEW K, NEW k
  PROVE  \A s \in Seq(K) : IsInjective(s) /\ k \in Elements(s) =>
           Len(Filter(s, K \ {k})) = Len(s) - 1
<1> DEFINE Q == {s \in Seq(K) : IsInjective(s) /\ k \in Elements(s) =>
                   Len(Filter(s, K \ {k})) = Len(s) - 1}
<1>1. <<>> \in Q
  BY ElementsOfEmpty
<1>2. ASSUME NEW s \in Seq(K), NEW e \in K, s \in Q PROVE Append(s, e) \in Q
  <2>1. /\ Append(s, e) \in Seq(K) /\ Len(Append(s, e)) = Len(s) + 1 /\ Len(s) \in Nat
        /\ Elements(Append(s, e)) = Elements(s) \cup {e} /\ Elements(s) \subseteq K
    BY ElementsOfAppend, ElementsAreInK
  <2> SUFFICES ASSUME IsInjective(Append(s, e)), k \in Elements(Append(s, e))
               PROVE  Len(Filter(Append(s, e), K \ {k})) = Len(Append(s, e)) - 1
    BY <2>1
  <2>2. IsInjective(s) /\ e \notin Elements(s)
    BY AppendIsInjective
  <2>3. Filter(Append(s, e), K \ {k}) =
          IF e \in K \ {k} THEN Append(Filter(s, K \ {k}), e) ELSE Filter(s, K \ {k})
    BY FilterAppend
  <2>4. CASE e = k
    <3>1. Elements(s) \subseteq K \ {k}
      BY <2>1, <2>2, <2>4
    <3>2. Filter(s, K \ {k}) = s
      BY <3>1, FilterAll
    <3> QED BY <2>1, <2>3, <2>4, <3>2
  <2>5. CASE e # k
    <3>1. Len(Filter(s, K \ {k})) = Len(s) - 1
      BY <1>2, <2>1, <2>2, <2>5
    <3>2. Filter(s, K \ {k}) \in Seq(K)
      BY FilterElements
    <3>3. Len(Append(Filter(s, K \ {k}), e)) = Len(Filter(s, K \ {k})) + 1
      BY <3>2
    <3> QED BY <2>1, <2>3, <2>5, <3>1, <3>3
  <2> QED BY <2>4, <2>5
<1>3. Seq(K) \subseteq Q
  <2>1. \A s \in Seq(K), e \in K : s \in Q => Append(s, e) \in Q
    BY <1>2
  <2> HIDE DEF Q
  <2> QED BY <1>1, <2>1, SeqInductionOnSet
<1> QED BY <1>3

LEMMA WithoutLen ==
  ASSUME NEW s \in Seq(Keys), NEW k, IsInjective(s)
  PROVE  /\ IsInjective(Without(s, k))
         /\ k \in Elements(s) => Len(Without(s, k)) = Len(s) - 1
         /\ k \notin Elements(s) => Without(s, k) = s
<1>1. Elements(s) \subseteq Keys
  BY ElementsAreInK
<1>2. Elements(s) \cap (Elements(s) \ {k}) = Elements(s) \cap (Keys \ {k})
  BY <1>1
<1>3. Without(s, k) = Filter(s, Keys \ {k})
  BY <1>2, FilterSame DEF Without
<1>4. k \notin Elements(s) => Elements(s) \subseteq Keys \ {k}
  BY <1>1
<1> QED BY <1>3, <1>4, FilterInjective, FilterOneLess, FilterAll

=============================================================================
