--------------------------- MODULE LogTableProofs ---------------------------
(***************************************************************************)
(* LogTable: its invariants and action properties hold for every limit of  *)
(* the table, of the cache and of the queue, and for all requests.         *)
(***************************************************************************)
EXTENDS LogTable, DBTableProofs

----------------------------------------------------------------------------
(* The inductive invariant.                                                *)

Fields == {"table", "cache", "held", "doubled", "garbage", "last"}

(***************************************************************************)
(* The objects of the cache and of the search.  Records come in the order  *)
(* of their keys; each object in the cache is of a record, and of each one *)
(* there is one.                                                           *)
(***************************************************************************)
Caching(s) ==
  /\ Fields \subseteq DOMAIN s
  /\ Sound(s.table) /\ Increasing(s.table.docs)
  /\ s.cache \in Seq(Keys) /\ IsInjective(s.cache)
  /\ Elements(s.cache) \subseteq Elements(s.table.docs)
  /\ s.held \subseteq Keys /\ s.doubled \subseteq s.held
  /\ s.garbage \subseteq Elements(s.cache)
  /\ s.last \in Elements(s.cache) \cup {None}

\* What the search shows of the records D is in the cache.
Showing(s, D) == s.held \cap D \subseteq Elements(s.cache) \cup s.doubled

ObjectsAreSound(s) == Caching(s) /\ Showing(s, Elements(s.table.docs))

(***************************************************************************)
(* A prune that is scheduled was counted when the table was smaller, by no *)
(* more than the lines that were in the queue then.                        *)
(***************************************************************************)
PruneIsCounted ==
  scheduled > 0 =>
    /\ prune_in_progress
    /\ scheduled + max_log_records - Extra <= Size(table)
    /\ Size(table) + (IF draining THEN q ELSE 0)
         < scheduled + max_log_records - Extra + MaxWaiting

IInv ==
  /\ ObjectsAreSound(Now)
  /\ now \in Keys \cup {0} /\ \A k \in Elements(table.docs) : k <= now
  /\ at_end \in BOOLEAN /\ draining \in BOOLEAN /\ prune_in_progress \in BOOLEAN
  /\ q \in 0 .. MaxWaiting /\ (draining => q > 0)
  /\ scheduled \in Nat /\ peak \in Nat /\ Size(table) <= peak
  /\ PruneIsCounted
  /\ StuckOnlyIfLarge

----------------------------------------------------------------------------
(* The cache.                                                              *)

LEMMA UsedFacts ==
  ASSUME NEW c \in Seq(Keys), IsInjective(c), NEW k \in Keys
  PROVE  /\ Used(c, k) \in Seq(Keys) /\ IsInjective(Used(c, k))
         /\ Elements(Used(c, k)) = Elements(c) \cup {k}
         /\ Len(Used(c, k)) = IF k \in Elements(c) THEN Len(c) ELSE Len(c) + 1
         /\ Elements(Front(Used(c, k))) = Elements(c) \ {k}
<1> DEFINE w == Without(c, k)
<1>1. w \in Seq(Keys) /\ Elements(w) = Elements(c) \ {k}
  BY WithoutFacts
<1>2. /\ IsInjective(w)
      /\ k \in Elements(c) => Len(w) = Len(c) - 1
      /\ k \notin Elements(c) => w = c
  BY WithoutLen
<1> HIDE DEF w
<1>3. Used(c, k) = Append(w, k)
  BY DEF Used, w
<1>4. /\ Append(w, k) \in Seq(Keys) /\ Len(Append(w, k)) = Len(w) + 1
      /\ Len(w) \in Nat /\ Len(c) \in Nat
      /\ Elements(Append(w, k)) = Elements(w) \cup {k}
  BY <1>1, ElementsOfAppend
<1>5. IsInjective(Append(w, k))
  BY <1>1, <1>2, AppendIsInjective
<1>6. Front(Append(w, k)) = w
  <2>1. Front(Append(w, k)) = [i \in 1 .. Len(w) |-> Append(w, k)[i]]
    BY <1>4 DEF Front, SubSeq
  <2>2. \A i \in 1 .. Len(w) : Append(w, k)[i] = w[i]
    BY <1>1
  <2>3. w = [i \in 1 .. Len(w) |-> w[i]]
    BY <1>1
  <2> QED BY <2>1, <2>2, <2>3
<1>7. Len(Used(c, k)) = IF k \in Elements(c) THEN Len(c) ELSE Len(c) + 1
  BY <1>2, <1>3, <1>4
<1> QED BY <1>1, <1>3, <1>4, <1>5, <1>6, <1>7

\* A clean leaves what is referred to, and evicts something else if it can.
LEMMA CleanFacts ==
  ASSUME NEW c \in Seq(Keys), IsInjective(c), NEW referenced
  PROVE  /\ clean(c, referenced) \in Seq(Keys) /\ IsInjective(clean(c, referenced))
         /\ Elements(clean(c, referenced)) \subseteq Elements(c)
         /\ Elements(c) \cap referenced \subseteq Elements(clean(c, referenced))
         /\ Elements(c) \subseteq referenced => clean(c, referenced) = c
         /\ ~ (Elements(c) \subseteq referenced) => Len(clean(c, referenced)) < Len(c)
<1> DEFINE free == Filter(c, Elements(c) \ referenced)
           n    == Least(to_prune, Len(free))
           gone == Elements(SubSeq(free, 1, n))
           left == clean(c, referenced)
<1>1. left = Filter(c, Elements(c) \ gone)
  BY DEF clean
<1>2. free \in Seq(Keys) /\ Elements(free) = Elements(c) \ referenced
  BY FilterElements
<1>3. Len(free) \in Nat /\ to_prune \in Nat \ {0}
  BY <1>2, LogTableAssumption
<1> HIDE DEF free
<1>4. n \in Nat /\ n <= Len(free) /\ (n = 0 <=> Len(free) = 0)
  BY <1>3 DEF Least
<1> HIDE DEF n
<1>5. gone = {free[i] : i \in 1 .. n}
  BY <1>2, <1>4, ElementsOfSubSeq
<1> HIDE DEF gone
<1>6. gone \subseteq Elements(c) \ referenced
  <2>1. DOMAIN free = 1 .. Len(free)
    BY <1>2
  <2>2. \A i \in 1 .. n : i \in DOMAIN free
    BY <1>3, <1>4, <2>1
  <2> QED BY <1>2, <1>5, <2>2 DEF Elements
<1>7. left \in Seq(Keys) /\ Elements(left) = Elements(c) \ gone /\ IsInjective(left)
  BY <1>1, FilterElements, FilterInjective
<1>8. ASSUME Elements(c) \subseteq referenced PROVE left = c
  <2>1. Elements(c) \subseteq Elements(c) \ gone
    BY <1>6, <1>8
  <2> QED BY <1>1, <2>1, FilterAll
<1>9. ASSUME ~ (Elements(c) \subseteq referenced) PROVE Len(left) < Len(c)
  <2>1. Elements(free) # {}
    BY <1>2, <1>9
  <2>2. Len(free) # 0
    BY <1>2, <2>1 DEF Elements
  <2>3. free[1] \in gone
    BY <1>3, <1>4, <1>5, <2>2
  <2>4. ~ (Elements(c) \subseteq Elements(c) \ gone)
    BY <1>6, <2>3
  <2> QED BY <1>1, <2>4, FilterLen
<1> HIDE DEF left
<1>10. /\ Elements(left) \subseteq Elements(c)
       /\ Elements(c) \cap referenced \subseteq Elements(left)
  BY <1>6, <1>7
<1> QED BY <1>7, <1>8, <1>9, <1>10 DEF left

\* An object is put in the cache: it is in it then, and so is what is referred
\* to; if the cache grows beyond its limit, nothing else is.
LEMMA CacheSetFacts ==
  ASSUME NEW s, Fields \subseteq DOMAIN s, s.cache \in Seq(Keys), IsInjective(s.cache),
         NEW k \in Keys
  PROVE  LET t == cache_set(s, k)
         IN  /\ DOMAIN t = DOMAIN s /\ \A f \in DOMAIN s \ {"cache"} : t[f] = s[f]
             /\ t.cache \in Seq(Keys) /\ IsInjective(t.cache)
             /\ k \in Elements(t.cache)
             /\ Elements(t.cache) \subseteq Elements(s.cache) \cup {k}
             /\ Elements(s.cache) \cap Referenced(s) \subseteq Elements(t.cache)
             /\ Len(t.cache) > max_entries /\ Len(t.cache) > Len(s.cache) =>
                  /\ t.cache = Used(s.cache, k) /\ k \notin Elements(s.cache)
                  /\ Elements(s.cache) \subseteq Referenced(s)
             /\ Len(t.cache) <= Len(s.cache) + 1
<1> DEFINE t == cache_set(s, k)
           c == Used(s.cache, k)
           R == Referenced(s) \cup {k}
           d == IF Len(c) > max_entries THEN clean(c, R) ELSE c
<1>1. t = [s EXCEPT !.cache = d]
  BY DEF cache_set
<1>2. /\ c \in Seq(Keys) /\ IsInjective(c)
      /\ Elements(c) = Elements(s.cache) \cup {k}
      /\ Len(c) = IF k \in Elements(s.cache) THEN Len(s.cache) ELSE Len(s.cache) + 1
  BY UsedFacts
<1>3. /\ clean(c, R) \in Seq(Keys) /\ IsInjective(clean(c, R))
      /\ Elements(clean(c, R)) \subseteq Elements(c)
      /\ Elements(c) \cap R \subseteq Elements(clean(c, R))
      /\ Elements(c) \subseteq R => clean(c, R) = c
      /\ ~ (Elements(c) \subseteq R) => Len(clean(c, R)) < Len(c)
  <2> HIDE DEF c, R
  <2> QED BY <1>2, CleanFacts
<1>4. DOMAIN t = DOMAIN s /\ t.cache = d /\ \A f \in DOMAIN s \ {"cache"} : t[f] = s[f]
  <2>1. "cache" \in DOMAIN s
    BY DEF Fields
  <2> HIDE DEF d
  <2> QED BY <1>1, <2>1
<1>5. Len(c) \in Nat /\ Len(s.cache) \in Nat /\ Len(clean(c, R)) \in Nat /\ max_entries \in Nat
  BY <1>2, <1>3, LogTableAssumption
<1>6. k \in R /\ R = Referenced(s) \cup {k}
  OBVIOUS
<1> HIDE DEF t, c, R
<1>7. /\ d \in Seq(Keys) /\ IsInjective(d) /\ k \in Elements(d)
      /\ Elements(d) \subseteq Elements(s.cache) \cup {k}
      /\ Elements(s.cache) \cap Referenced(s) \subseteq Elements(d)
  BY <1>2, <1>3, <1>6
<1>8. ASSUME Len(d) > max_entries, Len(d) > Len(s.cache)
      PROVE  /\ d = c /\ k \notin Elements(s.cache)
             /\ Elements(s.cache) \subseteq Referenced(s)
  <2>1. k \notin Elements(s.cache) /\ Len(c) = Len(s.cache) + 1
    BY <1>2, <1>3, <1>5, <1>8
  <2>2. Len(c) > max_entries
    BY <1>3, <1>5, <1>8
  <2>3. Elements(c) \subseteq R
    BY <1>3, <1>5, <1>8, <2>1, <2>2
  <2> QED BY <1>2, <1>3, <1>6, <2>1, <2>2, <2>3
<1>9. Len(d) <= Len(s.cache) + 1
  BY <1>2, <1>3, <1>5
<1> HIDE DEF d
<1> QED BY <1>4, <1>7, <1>8, <1>9 DEF t, c

----------------------------------------------------------------------------
(* The objects.                                                            *)

LEMMA CachingTypes ==
  ASSUME NEW s, Caching(s)
  PROVE  /\ s.table.docs \in Seq(Keys) /\ Elements(s.table.docs) \subseteq Keys
         /\ s.cache \in Seq(Keys) /\ Elements(s.cache) \subseteq Keys
         /\ Len(s.cache) \in Nat
<1>1. s.table.docs \in Seq(Keys) /\ s.cache \in Seq(Keys)
  BY DEF Caching, Sound, IsTable
<1> QED BY <1>1, ElementsAreInK

(***************************************************************************)
(* The record k has its object in the cache now.  What else was referred   *)
(* to still is; and if the cache has grown beyond its limit, then all the  *)
(* objects that were in it are.                                            *)
(***************************************************************************)
Takes(s, t, k) ==
  /\ ObjectsAreSound(t) /\ k \in Elements(t.cache)
  /\ DOMAIN t = DOMAIN s /\ \A f \in DOMAIN s \ Fields : t[f] = s[f]
  /\ t.table = s.table /\ t.held = s.held /\ t.last = s.last
  /\ Elements(t.cache) \subseteq Elements(s.cache) \cup {k}
  /\ Referenced(s) \ {k} \subseteq Referenced(t)
  /\ Len(t.cache) <= Len(s.cache) + 1
  /\ Len(t.cache) > max_entries /\ Len(t.cache) > Len(s.cache) =>
       /\ Elements(s.cache) \subseteq Referenced(t)
       /\ Elements(Front(t.cache)) \subseteq Referenced(t)

LEMMA NewObjectFacts ==
  ASSUME NEW s, Caching(s), NEW k \in Elements(s.table.docs),
         Showing(s, Elements(s.table.docs) \ {k})
  PROVE  Takes(s, NewObject(s, k), k)
<1> DEFINE u == [s EXCEPT !.doubled = @ \cup ({k} \cap s.held), !.garbage = @ \ {k}]
           t == cache_set(u, k)
<1>1. NewObject(s, k) = t
  BY DEF NewObject
<1>2. /\ DOMAIN u = DOMAIN s /\ Fields \subseteq DOMAIN s
      /\ u.doubled = s.doubled \cup ({k} \cap s.held) /\ u.garbage = s.garbage \ {k}
      /\ \A f \in DOMAIN s \ {"doubled", "garbage"} : u[f] = s[f]
      /\ u.table = s.table /\ u.held = s.held /\ u.cache = s.cache /\ u.last = s.last
  BY DEF Caching, Fields
<1> HIDE DEF u
<1>3. k \in Keys /\ s.cache \in Seq(Keys) /\ IsInjective(s.cache) /\ Len(s.cache) \in Nat
  BY CachingTypes DEF Caching
<1>4. /\ DOMAIN t = DOMAIN u /\ \A f \in DOMAIN u \ {"cache"} : t[f] = u[f]
      /\ t.cache \in Seq(Keys) /\ IsInjective(t.cache)
      /\ k \in Elements(t.cache)
      /\ Elements(t.cache) \subseteq Elements(u.cache) \cup {k}
      /\ Elements(u.cache) \cap Referenced(u) \subseteq Elements(t.cache)
      /\ Len(t.cache) > max_entries /\ Len(t.cache) > Len(u.cache) =>
           /\ t.cache = Used(u.cache, k) /\ k \notin Elements(u.cache)
           /\ Elements(u.cache) \subseteq Referenced(u)
      /\ Len(t.cache) <= Len(u.cache) + 1
  BY <1>2, <1>3, CacheSetFacts
<1> HIDE DEF t
<1>5. /\ t.table = s.table /\ t.held = s.held /\ t.last = s.last
      /\ t.doubled = s.doubled \cup ({k} \cap s.held) /\ t.garbage = s.garbage \ {k}
      /\ \A f \in DOMAIN s \ Fields : t[f] = s[f]
  BY <1>2, <1>4 DEF Fields
<1>6. Referenced(t) = Referenced(u) /\ Referenced(s) \ {k} \subseteq Referenced(u)
  BY <1>2, <1>5 DEF Referenced
<1>7. Caching(t)
  <2>1. Sound(t.table) /\ Increasing(t.table.docs) /\ Fields \subseteq DOMAIN t
    BY <1>2, <1>4, <1>5 DEF Caching
  <2>2. Elements(t.cache) \subseteq Elements(t.table.docs)
    BY <1>2, <1>4, <1>5 DEF Caching
  <2>3. t.held \subseteq Keys /\ t.doubled \subseteq t.held
    BY <1>5 DEF Caching
  <2>4. t.garbage \subseteq Elements(t.cache)
    <3>1. s.garbage \subseteq Elements(s.cache)
      BY DEF Caching
    <3>2. t.garbage \subseteq Referenced(u)
      BY <1>2, <1>5 DEF Referenced
    <3> QED BY <1>2, <1>4, <1>5, <3>1, <3>2
  <2>5. t.last \in Elements(t.cache) \cup {None}
    <3>1. t.last = s.last /\ s.last \in Elements(s.cache) \cup {None}
      BY <1>5 DEF Caching
    <3>2. s.last \in Referenced(u)
      BY <1>2 DEF Referenced
    <3> QED BY <1>2, <1>4, <3>1, <3>2
  <2> QED BY <1>4, <2>1, <2>2, <2>3, <2>4, <2>5 DEF Caching
<1>8. Showing(t, Elements(t.table.docs))
  <2> SUFFICES ASSUME NEW h \in s.held, h \in Elements(s.table.docs), h \notin t.doubled
               PROVE  h \in Elements(t.cache)
    BY <1>5 DEF Showing
  <2>1. CASE h = k
    BY <1>4, <2>1
  <2>2. CASE h # k
    <3>1. h \in Elements(s.cache)
      BY <1>5, <2>2 DEF Showing
    <3>2. h \in Referenced(u)
      BY <1>2, <1>5 DEF Referenced
    <3> QED BY <1>2, <1>4, <3>1, <3>2
  <2> QED BY <2>1, <2>2
<1>9. ASSUME Len(t.cache) > max_entries, Len(t.cache) > Len(s.cache)
      PROVE  /\ Elements(s.cache) \subseteq Referenced(t)
             /\ Elements(Front(t.cache)) \subseteq Referenced(t)
  <2>1. t.cache = Used(s.cache, k) /\ Elements(s.cache) \subseteq Referenced(t)
    BY <1>2, <1>4, <1>6, <1>9
  <2>2. Elements(Front(t.cache)) = Elements(s.cache) \ {k}
    BY <1>3, <2>1, UsedFacts
  <2> QED BY <2>1, <2>2
<1>10. Takes(s, t, k)
  BY <1>2, <1>4, <1>5, <1>6, <1>7, <1>8, <1>9 DEF Takes, ObjectsAreSound
<1> QED BY <1>1, <1>10

LEMMA MakeItemFacts ==
  ASSUME NEW s, ObjectsAreSound(s), NEW k \in Elements(s.table.docs)
  PROVE  Takes(s, make_item_from_dict(s, k), k)
<1>1. Caching(s) /\ Showing(s, Elements(s.table.docs))
  BY DEF ObjectsAreSound
<1>2. CASE ~ Cached(s, k)
  <2>1. Showing(s, Elements(s.table.docs) \ {k})
    BY <1>1 DEF Showing
  <2> QED BY <1>1, <1>2, <2>1, NewObjectFacts DEF make_item_from_dict
<1>3. CASE Cached(s, k)
  <2> DEFINE t == [s EXCEPT !.cache = Used(@, k)]
  <2>1. make_item_from_dict(s, k) = t
    BY <1>3 DEF make_item_from_dict
  <2>2. k \in Keys /\ s.cache \in Seq(Keys) /\ IsInjective(s.cache) /\ Len(s.cache) \in Nat
    BY <1>1, CachingTypes DEF Caching
  <2>3. k \in Elements(s.cache)
    BY <1>3 DEF Cached
  <2>4. /\ Used(s.cache, k) \in Seq(Keys) /\ IsInjective(Used(s.cache, k))
        /\ Elements(Used(s.cache, k)) = Elements(s.cache)
        /\ Len(Used(s.cache, k)) = Len(s.cache)
    <3>1. /\ Used(s.cache, k) \in Seq(Keys) /\ IsInjective(Used(s.cache, k))
          /\ Elements(Used(s.cache, k)) = Elements(s.cache) \cup {k}
          /\ Len(Used(s.cache, k)) = IF k \in Elements(s.cache) THEN Len(s.cache)
                                     ELSE Len(s.cache) + 1
      BY <2>2, UsedFacts
    <3> QED BY <2>3, <3>1
  <2>5. /\ DOMAIN t = DOMAIN s /\ t.cache = Used(s.cache, k)
        /\ \A f \in DOMAIN s \ Fields : t[f] = s[f]
        /\ t.table = s.table /\ t.held = s.held /\ t.doubled = s.doubled
        /\ t.garbage = s.garbage /\ t.last = s.last
    BY <1>1 DEF Caching, Fields
  <2> HIDE DEF t
  <2>6. Referenced(t) = Referenced(s)
    BY <2>5 DEF Referenced
  <2>7. Caching(t)
    BY <1>1, <2>4, <2>5 DEF Caching
  <2>8. Showing(t, Elements(t.table.docs))
    BY <1>1, <2>4, <2>5 DEF Showing
  <2>9. Takes(s, t, k)
    BY <2>2, <2>3, <2>4, <2>5, <2>6, <2>7, <2>8 DEF Takes, ObjectsAreSound
  <2> QED BY <2>1, <2>9
<1> QED BY <1>2, <1>3

\* A search has the object of the cache.
LEMMA AddItemFacts ==
  ASSUME NEW s, ObjectsAreSound(s), NEW k \in Elements(s.cache)
  PROVE  LET t == add_item(s, k)
         IN  /\ ObjectsAreSound(t)
             /\ DOMAIN t = DOMAIN s /\ t.table = s.table /\ t.cache = s.cache
             /\ t.last = s.last
             /\ Referenced(t) = Referenced(s) \cup {k}
<1> DEFINE t == add_item(s, k)
<1>1. Caching(s) /\ Showing(s, Elements(s.table.docs))
  BY DEF ObjectsAreSound
<1>2. /\ DOMAIN t = DOMAIN s /\ t.table = s.table /\ t.cache = s.cache
      /\ t.held = s.held \cup {k} /\ t.doubled = s.doubled \ {k} /\ t.garbage = s.garbage
      /\ t.last = s.last
  BY <1>1 DEF Caching, Fields, add_item
<1> HIDE DEF t
<1>3. k \in Keys
  BY <1>1, CachingTypes
<1>4. Caching(t)
  BY <1>1, <1>2, <1>3 DEF Caching
<1>5. Showing(t, Elements(t.table.docs))
  BY <1>1, <1>2 DEF Showing
<1>6. Referenced(t) = Referenced(s) \cup {k}
  BY <1>2 DEF Referenced
<1> QED BY <1>2, <1>4, <1>5, <1>6 DEF t, ObjectsAreSound

\* A record is deleted, and its object leaves the cache.
LEMMA DeleteFacts ==
  ASSUME NEW s, ObjectsAreSound(s), NEW k \in Elements(s.table.docs)
  PROVE  LET t == delete(s, k)
         IN  /\ ObjectsAreSound(t)
             /\ DOMAIN t = DOMAIN s /\ \A f \in DOMAIN s \ Fields : t[f] = s[f]
             /\ t.table = db_delete(s.table, k) /\ t.cache = Without(s.cache, k)
             /\ Len(t.table.docs) = Len(s.table.docs) - 1
             /\ Elements(t.table.docs) = Elements(s.table.docs) \ {k}
<1> DEFINE t == delete(s, k)
<1>1. Caching(s) /\ Showing(s, Elements(s.table.docs))
  BY DEF ObjectsAreSound
<1>2. /\ DOMAIN t = DOMAIN s /\ \A f \in DOMAIN s \ Fields : t[f] = s[f]
      /\ t.table = db_delete(s.table, k) /\ t.cache = Without(s.cache, k)
      /\ t.held = s.held /\ t.doubled = s.doubled /\ t.garbage = s.garbage \ {k}
      /\ t.last = IF s.last = k THEN None ELSE s.last
  BY <1>1 DEF Caching, Fields, delete
<1> HIDE DEF t
<1>3. /\ k \in Keys /\ s.cache \in Seq(Keys) /\ IsInjective(s.cache)
      /\ s.table.docs \in Seq(Keys) /\ s.table.docs \in Seq(Int)
      /\ Sound(s.table) /\ Increasing(s.table.docs)
  BY <1>1, CachingTypes, KeysAreNumbers DEF Caching
<1>4. /\ Sound(t.table) /\ t.table.docs = Without(s.table.docs, k)
      /\ Increasing(t.table.docs) /\ Elements(t.table.docs) = Elements(s.table.docs) \ {k}
  BY <1>2, <1>3, DeleteIsSound, WithoutFacts
<1>5. IsInjective(s.table.docs)
  BY <1>3, IncreasingIsInjective
<1>6. Len(t.table.docs) = Len(s.table.docs) - 1
  BY <1>3, <1>4, <1>5, WithoutLen
<1>7. /\ t.cache \in Seq(Keys) /\ IsInjective(t.cache)
      /\ Elements(t.cache) = Elements(s.cache) \ {k}
  BY <1>2, <1>3, WithoutFacts, WithoutLen
<1>8. Caching(t)
  BY <1>1, <1>2, <1>4, <1>7 DEF Caching
<1>9. Showing(t, Elements(t.table.docs))
  BY <1>1, <1>2, <1>4, <1>7 DEF Showing
<1> QED BY <1>2, <1>4, <1>6, <1>8, <1>9 DEF t, ObjectsAreSound

\* A line becomes a record.
LEMMA RegisterFacts ==
  ASSUME NEW s, ObjectsAreSound(s), NEW k \in Keys, \A j \in Elements(s.table.docs) : j <= k
  PROVE  LET t == register(s, k)
         IN  /\ ObjectsAreSound(t)
             /\ Len(t.table.docs) \in {Len(s.table.docs), Len(s.table.docs) + 1}
             /\ \A j \in Elements(t.table.docs) : j <= k
             /\ k \in Elements(t.cache) /\ t.last = s.last
             /\ Len(t.cache) > max_entries /\ Len(t.cache) > Len(s.cache) =>
                  Elements(Front(t.cache)) \subseteq Referenced(t)
<1> DEFINE t == register(s, k)
<1>1. /\ Caching(s) /\ Showing(s, Elements(s.table.docs))
      /\ Sound(s.table) /\ Increasing(s.table.docs)
      /\ s.table.docs \in Seq(Keys) /\ Elements(s.table.docs) \subseteq Keys
  BY CachingTypes DEF ObjectsAreSound, Caching
<1>2. CASE has(s.table, k)
  <2>1. t = NewObject(s, k)
    BY <1>2 DEF register
  <2>2. k \in Elements(s.table.docs) /\ Showing(s, Elements(s.table.docs) \ {k})
    BY <1>1, <1>2 DEF has, Showing
  <2>3. Takes(s, t, k)
    BY <1>1, <2>1, <2>2, NewObjectFacts
  <2> QED BY <2>3 DEF Takes
<1>3. CASE ~ has(s.table, k)
  <2> DEFINE u == [s EXCEPT !.table = db_insert(@, k)]
             v == NewObject(u, k)
  <2>1. t = IF at_end \/ k \in s.held THEN add_item(v, k) ELSE v
    BY <1>3 DEF register
  <2>2. /\ DOMAIN u = DOMAIN s /\ u.table = db_insert(s.table, k)
        /\ u.cache = s.cache /\ u.held = s.held /\ u.doubled = s.doubled
        /\ u.garbage = s.garbage /\ u.last = s.last
    BY <1>1 DEF Caching, Fields
  <2> HIDE DEF u
  <2>3. Sound(u.table) /\ u.table.docs = Append(s.table.docs, k)
    BY <1>1, <1>3, <2>2, InsertIsSound
  <2>4. Elements(u.table.docs) = Elements(s.table.docs) \cup {k}
    BY <1>1, <2>3, ElementsOfAppend
  <2>5. Increasing(u.table.docs)
    <3>1. k \in Int /\ s.table.docs \in Seq(Int) /\ Elements(s.table.docs) \subseteq Int
      BY <1>1, KeysAreNumbers
    <3>2. ASSUME NEW j \in Elements(s.table.docs) PROVE j < k
      <4>1. j \in Int /\ j # k /\ j <= k
        BY <1>3, <3>1 DEF has
      <4> QED BY <3>1, <4>1
    <3> QED BY <1>1, <2>3, <3>1, <3>2, AppendIncreasing
  <2>6. Caching(u)
    BY <1>1, <2>2, <2>3, <2>4, <2>5 DEF Caching
  <2>7. Showing(u, Elements(u.table.docs) \ {k})
    BY <1>1, <2>2, <2>4 DEF Showing
  <2>8. Takes(u, v, k)
    BY <2>4, <2>6, <2>7, NewObjectFacts
  <2> HIDE DEF v
  <2>9. /\ ObjectsAreSound(v) /\ k \in Elements(v.cache) /\ v.table = u.table
        /\ v.last = s.last
        /\ Len(v.cache) > max_entries /\ Len(v.cache) > Len(s.cache) =>
             Elements(Front(v.cache)) \subseteq Referenced(v)
    BY <2>2, <2>8 DEF Takes
  <2>10. /\ ObjectsAreSound(t) /\ t.table = v.table /\ t.cache = v.cache
         /\ t.last = v.last
         /\ Referenced(v) \subseteq Referenced(t)
    BY <2>1, <2>9, AddItemFacts
  <2> HIDE DEF t
  <2>11. Len(t.table.docs) = Len(s.table.docs) + 1
    BY <1>1, <2>3, <2>9, <2>10
  <2>12. \A j \in Elements(t.table.docs) : j <= k
    <3>1. k <= k
      BY KeysAreNumbers
    <3> QED BY <2>4, <2>9, <2>10, <3>1
  <2> QED BY <2>9, <2>10, <2>11, <2>12 DEF t
<1> QED BY <1>2, <1>3

----------------------------------------------------------------------------
(* The prune.                                                              *)

\* The index that a prune walks through has all records.
LEMMA WholeIndex ==
  ASSUME NEW t, Sound(t), AnyRestriction \in DOMAIN t.idx
  PROVE  t.idx[AnyRestriction] = t.docs
<1>1. AnyRestriction \in Restrictions
  BY DEF Sound, IsTable
<1>2. Matching[AnyRestriction] = Keys
  BY <1>1, LogTableAssumption
<1>3. {k \in Keys : check_restrictions(AnyRestriction, k)} = Keys
  BY <1>2 DEF check_restrictions
<1>4. t.idx[AnyRestriction] = Filter(t.docs, Keys) /\ t.docs \in Seq(Keys)
  BY <1>3 DEF Sound, IsTable, DBIndex
<1> QED BY <1>4, FilterAll, ElementsAreInK

\* The state of a walk.
Walking(s) ==
  /\ ObjectsAreSound(s)
  /\ "failed" \in DOMAIN s /\ s.failed \in BOOLEAN
  /\ AnyRestriction \in DOMAIN s.table.idx

LEMMA StepFacts ==
  ASSUME NEW s, Walking(s), NEW i \in Nat
  PROVE  LET t == Step(s, i)
         IN  /\ Walking(t)
             /\ Elements(t.table.docs) \subseteq Elements(s.table.docs)
             /\ Len(t.cache) <= Len(s.cache)
             /\ Len(t.table.docs) <= Len(s.table.docs)
             /\ IF s.failed \/ i >= Len(s.table.docs) THEN t.failed
                ELSE ~ t.failed /\ Len(t.table.docs) = Len(s.table.docs) - 1
<1> DEFINE t   == Step(s, i)
           idx == s.table.idx[AnyRestriction]
           k   == At(idx, i)
<1>1. /\ ObjectsAreSound(s) /\ Caching(s) /\ Sound(s.table)
      /\ "failed" \in DOMAIN s /\ s.failed \in BOOLEAN
      /\ AnyRestriction \in DOMAIN s.table.idx
      /\ s.table.docs \in Seq(Keys) /\ Len(s.cache) \in Nat /\ Len(s.table.docs) \in Nat
  BY CachingTypes DEF Walking, ObjectsAreSound, Caching
<1>2. idx = s.table.docs
  BY <1>1, WholeIndex
<1>3. CASE s.failed \/ i >= Len(s.table.docs)
  <2>1. t = [s EXCEPT !.failed = TRUE]
    BY <1>2, <1>3 DEF Step
  <2>2. /\ DOMAIN t = DOMAIN s /\ t.failed = TRUE /\ t.table = s.table /\ t.cache = s.cache
        /\ t.held = s.held /\ t.doubled = s.doubled /\ t.garbage = s.garbage
        /\ t.last = s.last
    BY <1>1, <2>1 DEF Caching, Fields
  <2> HIDE DEF t
  <2>3. ObjectsAreSound(t)
    BY <1>1, <2>2 DEF ObjectsAreSound, Caching, Showing
  <2>4. Walking(t)
    BY <1>1, <2>2, <2>3 DEF Walking
  <2> QED BY <1>1, <1>3, <2>2, <2>4 DEF t
<1>4. CASE ~ (s.failed \/ i >= Len(s.table.docs))
  <2> DEFINE m == make_item_from_dict(s, k)
  <2>1. t = delete(m, k)
    BY <1>2, <1>4 DEF Step
  <2>2. k \in Elements(s.table.docs)
    <3>1. i + 1 \in DOMAIN s.table.docs
      BY <1>1, <1>4
    <3> QED BY <1>2, <3>1 DEF Elements, At
  <2> HIDE DEF k
  <2>3. Takes(s, m, k)
    BY <1>1, <2>2, MakeItemFacts
  <2> HIDE DEF m
  <2>4. /\ ObjectsAreSound(m) /\ m.table = s.table /\ k \in Elements(m.cache)
        /\ Len(m.cache) <= Len(s.cache) + 1
        /\ DOMAIN m = DOMAIN s /\ \A f \in DOMAIN s \ Fields : m[f] = s[f]
    BY <2>3 DEF Takes
  <2>5. /\ ObjectsAreSound(t)
        /\ DOMAIN t = DOMAIN m /\ \A f \in DOMAIN m \ Fields : t[f] = m[f]
        /\ t.table = db_delete(m.table, k) /\ t.cache = Without(m.cache, k)
        /\ Len(t.table.docs) = Len(m.table.docs) - 1
        /\ Elements(t.table.docs) = Elements(m.table.docs) \ {k}
    BY <2>1, <2>2, <2>4, DeleteFacts
  <2> HIDE DEF t
  <2>6. "failed" \in DOMAIN s \ Fields
    BY <1>1 DEF Fields
  <2>7. t.failed = s.failed /\ "failed" \in DOMAIN t
    BY <2>4, <2>5, <2>6
  <2>8. AnyRestriction \in DOMAIN t.table.idx
    BY <1>1, <2>4, <2>5 DEF db_delete
  <2>9. Len(t.cache) <= Len(s.cache)
    <3>1. m.cache \in Seq(Keys) /\ IsInjective(m.cache) /\ Len(m.cache) \in Nat
      BY <2>4, CachingTypes DEF ObjectsAreSound, Caching
    <3>2. Len(t.cache) = Len(m.cache) - 1
      BY <2>4, <2>5, <3>1, WithoutLen
    <3> QED BY <1>1, <2>4, <3>1, <3>2
  <2>10. Walking(t)
    BY <1>1, <2>5, <2>7, <2>8 DEF Walking
  <2>11. Len(t.table.docs) <= Len(s.table.docs)
    BY <1>1, <2>4, <2>5
  <2> QED BY <1>4, <2>4, <2>5, <2>7, <2>9, <2>10, <2>11 DEF t
<1> QED BY <1>3, <1>4

\* The function that pruned looks up.
Walk(s, n) == CHOOSE f : f = [i \in 0 .. n |-> IF i = 0 THEN s ELSE Step(f[i - 1], i - 1)]

LEMMA WalkIsDefined ==
  ASSUME NEW s, NEW n \in Nat
  PROVE  /\ Walk(s, n)[0] = s
         /\ \A i \in 1 .. n : Walk(s, n)[i] = Step(Walk(s, n)[i - 1], i - 1)
<1> DEFINE Body(f, i) == IF i = 0 THEN s ELSE Step(f[i - 1], i - 1)
           G == {m \in Nat : \E f : f = [i \in 0 .. m |-> Body(f, i)]}
<1>1. 0 \in G
  <2> DEFINE f == [i \in 0 .. 0 |-> s]
  <2>1. f = [i \in 0 .. 0 |-> Body(f, i)]
    OBVIOUS
  <2> QED BY <2>1
<1>2. ASSUME NEW m \in Nat, m \in G PROVE m + 1 \in G
  <2>1. PICK f : f = [i \in 0 .. m |-> Body(f, i)]
    BY <1>2
  <2> DEFINE g == [i \in 0 .. m + 1 |-> IF i = m + 1 THEN Body(f, i) ELSE f[i]]
  <2>2. ASSUME NEW i \in 0 .. m + 1 PROVE g[i] = Body(g, i)
    <3>1. CASE i = 0
      <4>1. g[i] = f[0]
        BY <3>1
      <4> QED BY <2>1, <3>1, <4>1
    <3>2. CASE i # 0
      <4>1. i - 1 \in 0 .. m + 1 /\ i - 1 # m + 1
        BY <3>2
      <4>2. g[i - 1] = f[i - 1]
        BY <4>1
      <4> DEFINE e == g[i - 1]
      <4>3. Body(g, i) = Body(f, i)
        BY <3>2, <4>2
      <4>4. CASE i = m + 1
        BY <4>3, <4>4
      <4>5. CASE i # m + 1
        <5>1. i \in 0 .. m /\ g[i] = f[i]
          BY <4>5
        <5>2. f[i] = Body(f, i)
          BY <2>1, <5>1
        <5> QED BY <4>3, <5>1, <5>2
      <4> QED BY <4>4, <4>5
    <3> QED BY <3>1, <3>2
  <2>3. g = [i \in 0 .. m + 1 |-> g[i]]
    OBVIOUS
  <2> HIDE DEF g, Body
  <2>4. g = [i \in 0 .. m + 1 |-> Body(g, i)]
    BY <2>2, <2>3
  <2> QED BY <2>4
<1>3. n \in G
  <2>1. \A m \in Nat : m \in G => m + 1 \in G
    BY <1>2
  <2> HIDE DEF G
  <2> QED BY <1>1, <2>1, NatInductionOnSet
<1>4. Walk(s, n) = [i \in 0 .. n |-> Body(Walk(s, n), i)]
  <2>1. \E f : f = [i \in 0 .. n |-> Body(f, i)]
    BY <1>3
  <2> QED BY <2>1 DEF Walk
<1> QED
  <2>1. \A i \in 0 .. n : Walk(s, n)[i] = Body(Walk(s, n), i)
    <3> HIDE DEF Body
    <3> QED BY <1>4
  <2> QED BY <2>1

(***************************************************************************)
(* A walk of n steps through N records deletes one with each step, as long *)
(* as it finds one: the step i looks for the position i among N - i that   *)
(* are left.                                                               *)
(***************************************************************************)
LEMMA PrunedFacts ==
  ASSUME NEW s, Walking(s), ~ s.failed, NEW count \in Nat, count <= Len(s.table.docs)
  PROVE  LET t == pruned(s, count)
         IN  /\ Walking(t)
             /\ Elements(t.table.docs) \subseteq Elements(s.table.docs)
             /\ Len(t.cache) <= Len(s.cache)
             /\ Len(t.table.docs) \in Nat /\ Len(t.table.docs) <= Len(s.table.docs)
             /\ ~ t.failed => Len(t.table.docs) = Len(s.table.docs) - count
             /\ t.failed => 2 * (count - 1) >= Len(s.table.docs)
<1> DEFINE N == Len(s.table.docs)
           w == Walk(s, count)
           Reached(i) == /\ Walking(w[i])
                         /\ Elements(w[i].table.docs) \subseteq Elements(s.table.docs)
                         /\ Len(w[i].cache) <= Len(s.cache)
                         /\ Len(w[i].table.docs) <= N
                         /\ ~ w[i].failed => Len(w[i].table.docs) = N - i
                         /\ w[i].failed => 2 * (i - 1) >= N
           G == {i \in Nat : i <= count => Reached(i)}
<1>1. /\ s.table.docs \in Seq(Keys) /\ N \in Nat /\ Sound(s.table) /\ Len(s.cache) \in Nat
      /\ AnyRestriction \in DOMAIN s.table.idx
  BY CachingTypes DEF Walking, ObjectsAreSound, Caching
<1>2. pruned(s, count) = w[count]
  <2>1. s.table.idx[AnyRestriction] = s.table.docs
    BY <1>1, WholeIndex
  <2>2. Least(count, Len(s.table.idx[AnyRestriction])) = count
    BY <1>1, <2>1 DEF Least
  <2> QED BY <2>2 DEF pruned, Walk
<1>3. /\ w[0] = s
      /\ \A i \in 1 .. count : w[i] = Step(w[i - 1], i - 1)
  BY WalkIsDefined
<1> HIDE DEF w
<1>4. 0 \in G
  BY <1>1, <1>3
<1>5. ASSUME NEW i \in Nat, i \in G PROVE i + 1 \in G
  <2> SUFFICES ASSUME i + 1 <= count PROVE Reached(i + 1)
    OBVIOUS
  <2>1. Reached(i)
    BY <1>5
  <2> DEFINE x == w[i]
             t == w[i + 1]
  <2>2. t = Step(x, i)
    <3>1. i + 1 \in 1 .. count /\ (i + 1) - 1 = i
      OBVIOUS
    <3> QED BY <1>3, <3>1
  <2>3. /\ Walking(x) /\ Elements(x.table.docs) \subseteq Elements(s.table.docs)
        /\ Len(x.cache) <= Len(s.cache) /\ Len(x.table.docs) <= N
        /\ ~ x.failed => Len(x.table.docs) = N - i
        /\ x.failed => 2 * (i - 1) >= N
    BY <2>1
  <2>4. x.failed \in BOOLEAN /\ Len(x.cache) \in Nat /\ Len(x.table.docs) \in Nat
    BY <2>3, CachingTypes DEF Walking, ObjectsAreSound
  <2> HIDE DEF t
  <2> HIDE DEF x
  <2>5. /\ Walking(t)
        /\ Elements(t.table.docs) \subseteq Elements(x.table.docs)
        /\ Len(t.cache) <= Len(x.cache) /\ Len(t.table.docs) <= Len(x.table.docs)
        /\ IF x.failed \/ i >= Len(x.table.docs) THEN t.failed
           ELSE ~ t.failed /\ Len(t.table.docs) = Len(x.table.docs) - 1
    <3>1. Walking(x) /\ i \in Nat
      BY <2>3
    <3> QED BY <2>2, <3>1, StepFacts
  <2>6. Len(t.cache) \in Nat /\ Len(t.table.docs) \in Nat
    BY <2>5, CachingTypes DEF Walking, ObjectsAreSound
  <2>7. /\ Walking(t) /\ Elements(t.table.docs) \subseteq Elements(s.table.docs)
        /\ Len(t.cache) <= Len(s.cache) /\ Len(t.table.docs) <= N
    <3>1. Len(t.cache) <= Len(s.cache)
      BY <1>1, <2>3, <2>4, <2>5, <2>6
    <3>2. Len(t.table.docs) <= N
      BY <1>1, <2>3, <2>4, <2>5, <2>6
    <3> QED BY <2>3, <2>5, <3>1, <3>2
  <2>8. /\ ~ t.failed => Len(t.table.docs) = N - (i + 1)
        /\ t.failed => 2 * ((i + 1) - 1) >= N
    <3>1. CASE x.failed
      <4>1. t.failed /\ 2 * (i - 1) >= N
        BY <2>3, <2>5, <3>1
      <4> QED BY <1>1, <4>1
    <3>2. CASE ~ x.failed /\ i >= Len(x.table.docs)
      <4>1. t.failed /\ Len(x.table.docs) = N - i
        BY <2>3, <2>5, <3>2
      <4> QED BY <1>1, <3>2, <4>1
    <3>3. CASE ~ x.failed /\ ~ (i >= Len(x.table.docs))
      <4>1. /\ ~ t.failed /\ Len(x.table.docs) = N - i
            /\ Len(t.table.docs) = Len(x.table.docs) - 1
        BY <2>3, <2>5, <3>3
      <4> QED BY <1>1, <4>1
    <3> QED BY <3>1, <3>2, <3>3
  <2> QED BY <2>7, <2>8 DEF t
<1>6. Reached(count)
  <2>1. \A i \in Nat : i \in G => i + 1 \in G
    BY <1>5
  <2>2. count \in G
    <3> HIDE DEF G
    <3> QED BY <1>4, <2>1, NatInductionOnSet
  <2> QED BY <2>2
<1>7. Len(w[count].table.docs) \in Nat
  BY <1>6, CachingTypes DEF Walking, ObjectsAreSound
<1> QED BY <1>2, <1>6, <1>7

----------------------------------------------------------------------------
(* The search of the browser.                                              *)

\* If the cache is larger than it was, L, and than its limit, all of it is in use.
GrowsInUse(s, L) ==
  Len(s.cache) > max_entries /\ Len(s.cache) > L => Elements(s.cache) \subseteq Referenced(s)

LEMMA ShowFacts ==
  ASSUME NEW s, ObjectsAreSound(s), NEW k \in Elements(s.table.docs),
         NEW L \in Nat, GrowsInUse(s, L)
  PROVE  LET t == Show(s, k)
         IN  /\ ObjectsAreSound(t) /\ t.table = s.table /\ t.last = s.last
             /\ GrowsInUse(t, L)
<1> DEFINE m == make_item_from_dict(s, k)
           t == add_item(m, k)
<1>1. Takes(s, m, k)
  BY MakeItemFacts
<1> HIDE DEF m
<1>2. /\ ObjectsAreSound(m) /\ m.table = s.table /\ m.last = s.last /\ k \in Elements(m.cache)
      /\ Elements(m.cache) \subseteq Elements(s.cache) \cup {k}
      /\ Referenced(s) \ {k} \subseteq Referenced(m)
      /\ Len(m.cache) > max_entries /\ Len(m.cache) > Len(s.cache) =>
           Elements(s.cache) \subseteq Referenced(m)
  BY <1>1 DEF Takes
<1>3. /\ ObjectsAreSound(t) /\ t.table = m.table /\ t.cache = m.cache /\ t.last = m.last
      /\ Referenced(t) = Referenced(m) \cup {k}
  BY <1>2, AddItemFacts
<1> HIDE DEF t
<1>4. Len(m.cache) \in Nat /\ Len(s.cache) \in Nat /\ max_entries \in Nat
  BY <1>2, CachingTypes, LogTableAssumption DEF ObjectsAreSound
<1>5. ASSUME Len(t.cache) > max_entries, Len(t.cache) > L
      PROVE  Elements(t.cache) \subseteq Referenced(t)
  <2>1. CASE Len(m.cache) > Len(s.cache)
    BY <1>2, <1>3, <1>5, <2>1
  <2>2. CASE ~ (Len(m.cache) > Len(s.cache))
    <3>1. Len(s.cache) > max_entries /\ Len(s.cache) > L
      BY <1>3, <1>4, <1>5, <2>2
    <3>2. Elements(s.cache) \subseteq Referenced(s)
      BY <3>1 DEF GrowsInUse
    <3> QED BY <1>2, <1>3, <3>2
  <2> QED BY <2>1, <2>2
<1>6. Show(s, k) = t
  BY DEF Show, m, t
<1> QED BY <1>2, <1>3, <1>5, <1>6 DEF GrowsInUse

\* The function that shown looks up.
ShownUpTo(s, keys) ==
  CHOOSE f : f = [i \in 0 .. Len(keys) |-> IF i = 0 THEN s ELSE Show(f[i - 1], keys[i])]

LEMMA ShownIsDefined ==
  ASSUME NEW s, NEW keys \in Seq(Keys)
  PROVE  /\ ShownUpTo(s, keys)[0] = s
         /\ \A i \in 1 .. Len(keys) :
              ShownUpTo(s, keys)[i] = Show(ShownUpTo(s, keys)[i - 1], keys[i])
<1> DEFINE Body(f, i) == IF i = 0 THEN s ELSE Show(f[i - 1], keys[i])
           G == {m \in Nat : \E f : f = [i \in 0 .. m |-> Body(f, i)]}
<1>1. 0 \in G
  <2> DEFINE f == [i \in 0 .. 0 |-> s]
  <2>1. f = [i \in 0 .. 0 |-> Body(f, i)]
    OBVIOUS
  <2> QED BY <2>1
<1>2. ASSUME NEW m \in Nat, m \in G PROVE m + 1 \in G
  <2>1. PICK f : f = [i \in 0 .. m |-> Body(f, i)]
    BY <1>2
  <2> DEFINE g == [i \in 0 .. m + 1 |-> IF i = m + 1 THEN Body(f, i) ELSE f[i]]
  <2>2. ASSUME NEW i \in 0 .. m + 1 PROVE g[i] = Body(g, i)
    <3>1. CASE i = 0
      <4>1. g[i] = f[0]
        BY <3>1
      <4> QED BY <2>1, <3>1, <4>1
    <3>2. CASE i # 0
      <4>1. i - 1 \in 0 .. m + 1 /\ i - 1 # m + 1
        BY <3>2
      <4>2. g[i - 1] = f[i - 1]
        BY <4>1
      <4> DEFINE e == g[i - 1]
      <4>3. Body(g, i) = Body(f, i)
        BY <3>2, <4>2
      <4>4. CASE i = m + 1
        BY <4>3, <4>4
      <4>5. CASE i # m + 1
        <5>1. i \in 0 .. m /\ g[i] = f[i]
          BY <4>5
        <5>2. f[i] = Body(f, i)
          BY <2>1, <5>1
        <5> QED BY <4>3, <5>1, <5>2
      <4> QED BY <4>4, <4>5
    <3> QED BY <3>1, <3>2
  <2>3. g = [i \in 0 .. m + 1 |-> g[i]]
    OBVIOUS
  <2> HIDE DEF g, Body
  <2>4. g = [i \in 0 .. m + 1 |-> Body(g, i)]
    BY <2>2, <2>3
  <2> QED BY <2>4
<1>3. Len(keys) \in G
  <2>1. \A m \in Nat : m \in G => m + 1 \in G
    BY <1>2
  <2> HIDE DEF G
  <2> QED BY <1>1, <2>1, NatInductionOnSet
<1>4. ShownUpTo(s, keys) = [i \in 0 .. Len(keys) |-> Body(ShownUpTo(s, keys), i)]
  <2>1. \E f : f = [i \in 0 .. Len(keys) |-> Body(f, i)]
    BY <1>3
  <2> QED BY <2>1 DEF ShownUpTo
<1> QED
  <2>1. \A i \in 0 .. Len(keys) : ShownUpTo(s, keys)[i] = Body(ShownUpTo(s, keys), i)
    <3> HIDE DEF Body
    <3> QED BY <1>4
  <2>2. Len(keys) \in Nat
    OBVIOUS
  <2> QED BY <2>1, <2>2

LEMMA ShownFacts ==
  ASSUME NEW s, ObjectsAreSound(s), NEW keys \in Seq(Keys),
         Elements(keys) \subseteq Elements(s.table.docs)
  PROVE  LET t == shown(s, keys)
         IN  /\ ObjectsAreSound(t) /\ t.table = s.table /\ t.last = s.last
             /\ GrowsInUse(t, Len(s.cache))
<1> DEFINE L == Len(s.cache)
           w == ShownUpTo(s, keys)
           Reached(i) == /\ ObjectsAreSound(w[i]) /\ w[i].table = s.table
                         /\ w[i].last = s.last
                         /\ GrowsInUse(w[i], L)
           G == {i \in Nat : i <= Len(keys) => Reached(i)}
<1>1. L \in Nat /\ Len(keys) \in Nat
  BY CachingTypes DEF ObjectsAreSound
<1>2. shown(s, keys) = w[Len(keys)]
  BY DEF shown, ShownUpTo
<1>3. /\ w[0] = s
      /\ \A i \in 1 .. Len(keys) : w[i] = Show(w[i - 1], keys[i])
  BY ShownIsDefined
<1> HIDE DEF w
<1>4. 0 \in G
  BY <1>1, <1>3 DEF GrowsInUse
<1>5. ASSUME NEW i \in Nat, i \in G PROVE i + 1 \in G
  <2> SUFFICES ASSUME i + 1 <= Len(keys) PROVE Reached(i + 1)
    OBVIOUS
  <2>1. Reached(i)
    BY <1>1, <1>5
  <2>2. i + 1 \in 1 .. Len(keys) /\ (i + 1) - 1 = i /\ i + 1 \in DOMAIN keys
    BY <1>1
  <2>3. w[i + 1] = Show(w[i], keys[i + 1])
    BY <1>3, <2>2
  <2>4. keys[i + 1] \in Elements(s.table.docs)
    BY <2>2 DEF Elements
  <2> HIDE DEF L
  <2> QED BY <1>1, <2>1, <2>3, <2>4, ShowFacts
<1>6. Reached(Len(keys))
  <2>1. \A i \in Nat : i \in G => i + 1 \in G
    BY <1>5
  <2>2. Len(keys) \in G
    <3> HIDE DEF G
    <3> QED BY <1>1, <1>4, <2>1, NatInductionOnSet
  <2> QED BY <2>2
<1> QED BY <1>2, <1>6

----------------------------------------------------------------------------
(* The steps.                                                              *)

LEMMA NowFields ==
  /\ Now.table = table /\ Now.cache = cache /\ Now.held = held
  /\ Now.doubled = doubled /\ Now.garbage = garbage /\ Now.last = last
  BY DEF Now

\* The objects are sound after a step that makes them those of s.
LEMMA BecomesSound ==
  ASSUME NEW s, ObjectsAreSound(s), Becomes(s)
  PROVE  ObjectsAreSound(Now)'
<1>1. /\ table' = s.table /\ cache' = s.cache
      /\ held' = s.held /\ doubled' = s.doubled /\ garbage' = s.garbage
      /\ last' = s.last
  BY DEF Becomes
<1>2. Now' = [table |-> s.table, cache |-> s.cache, held |-> s.held,
              doubled |-> s.doubled, garbage |-> s.garbage, last |-> s.last]
  BY <1>1 DEF Now
<1> DEFINE n == [table |-> s.table, cache |-> s.cache, held |-> s.held,
                 doubled |-> s.doubled, garbage |-> s.garbage, last |-> s.last]
<1>3. /\ DOMAIN n = Fields /\ n.table = s.table /\ n.cache = s.cache /\ n.held = s.held
      /\ n.doubled = s.doubled /\ n.garbage = s.garbage /\ n.last = s.last
  BY DEF Fields
<1> HIDE DEF n
<1>4. ObjectsAreSound(n)
  BY <1>3 DEF ObjectsAreSound, Caching, Showing
<1> QED BY <1>2, <1>4 DEF n, ObjectsAreSound, Caching, Showing, Referenced

LEMMA InitIInv == ASSUME Init PROVE IInv
<1>1. /\ table = [EmptyTable EXCEPT !.docs = <<>>]
      /\ cache = <<>> /\ held = {} /\ doubled = {} /\ garbage = {} /\ last = None
      /\ at_end = FALSE
      /\ q = 0 /\ draining = FALSE /\ prune_in_progress = FALSE /\ scheduled = 0
      /\ peak = Len(<<>>) /\ now = 0
  BY DEF Init, Started
<1>2. table = EmptyTable
  BY <1>1 DEF EmptyTable
<1>3. /\ <<>> \in Seq(Keys) /\ <<>> \in Seq(Int) /\ Len(<<>>) = 0
      /\ Elements(<<>>) = {} /\ DOMAIN <<>> = {}
  BY ElementsOfEmpty
<1>4. Sound(table) /\ table.docs = <<>>
  BY <1>2, EmptyTableIsSound DEF EmptyTable
<1>5. Increasing(<<>>) /\ IsInjective(<<>>)
  BY <1>3 DEF Increasing, IsInjective
<1>6. ObjectsAreSound(Now)
  <2>1. Fields \subseteq DOMAIN Now
    BY DEF Now, Fields
  <2>2. Caching(Now)
    BY <1>1, <1>3, <1>4, <1>5, <2>1, NowFields DEF Caching
  <2>3. Showing(Now, Elements(Now.table.docs))
    BY <1>1, NowFields DEF Showing
  <2> QED BY <2>2, <2>3 DEF ObjectsAreSound
<1>7. MaxWaiting \in Nat
  BY LogTableAssumption
<1>8. Size(table) = 0 /\ Elements(table.docs) = {} /\ peak = 0
  BY <1>1, <1>3, <1>4 DEF Size
<1>9. PruneIsCounted /\ StuckOnlyIfLarge
  BY <1>1 DEF PruneIsCounted, StuckOnlyIfLarge, Stuck
<1>10. 0 \in 0 .. MaxWaiting /\ 0 \in Nat /\ 0 <= 0
  BY <1>7
<1>11. /\ now \in Keys \cup {0} /\ \A k \in Elements(table.docs) : k <= now
       /\ q \in 0 .. MaxWaiting /\ scheduled \in Nat /\ peak \in Nat /\ Size(table) <= peak
  BY <1>1, <1>8, <1>10
<1>12. /\ at_end \in BOOLEAN /\ draining \in BOOLEAN /\ prune_in_progress \in BOOLEAN
       /\ (draining => q > 0)
  BY <1>1
<1> QED BY <1>6, <1>9, <1>11, <1>12 DEF IInv

\* Of a cache that has grown beyond its limit all but the last object are in use.
InUseIfGrown ==
  Len(cache') > max_entries /\ Len(cache') > Len(cache) =>
    Elements(Front(cache')) \subseteq (held' \ doubled') \cup garbage' \cup {last}

LEMMA NothingGrows ==
  ASSUME Len(cache) \in Nat, Len(cache') \in Nat, Len(cache') <= Len(cache)
  PROVE  InUseIfGrown
BY DEF InUseIfGrown

LEMMA IInvFacts ==
  ASSUME IInv
  PROVE  /\ Sound(table) /\ Increasing(table.docs)
         /\ table.docs \in Seq(Keys) /\ Size(table) \in Nat
         /\ cache \in Seq(Keys) /\ Len(cache) \in Nat
         /\ max_log_records \in Nat /\ Extra \in Nat /\ 1 <= Extra /\ Extra <= max_log_records
         /\ MaxWaiting \in Nat
<1>1. ObjectsAreSound(Now)
  BY DEF IInv
<1>2. Sound(table) /\ Increasing(table.docs)
  BY <1>1, NowFields DEF ObjectsAreSound, Caching
<1>3. table.docs \in Seq(Keys) /\ cache \in Seq(Keys) /\ Len(cache) \in Nat
  BY <1>1, NowFields, CachingTypes DEF ObjectsAreSound
<1>4. Size(table) \in Nat
  BY <1>3 DEF Size
<1> QED BY <1>2, <1>3, <1>4, LogTableAssumption

\* A step that leaves the table and the objects alone.
LEMMA SameObjects ==
  ASSUME IInv, UNCHANGED <<table, objects>>
  PROVE  ObjectsAreSound(Now)' /\ InUseIfGrown
<1>1. UNCHANGED <<table, cache, held, doubled, garbage, last>>
  BY DEF objects
<1>2. Now' = Now
  BY <1>1 DEF Now
<1>3. ObjectsAreSound(Now)
  BY DEF IInv
<1>4. ObjectsAreSound(Now)'
  BY <1>2, <1>3 DEF ObjectsAreSound, Caching, Showing
<1> QED BY <1>1, <1>4, IInvFacts, NothingGrows

LEMMA WriteIInv == ASSUME IInv, Write PROVE IInv' /\ InUseIfGrown
<1>1. /\ ~ draining /\ q < MaxWaiting /\ q' = q + 1
      /\ UNCHANGED <<table, objects, draining, now, prune_in_progress, scheduled, peak>>
  BY DEF Write
<1>2. ObjectsAreSound(Now)' /\ InUseIfGrown
  BY <1>1, SameObjects
<1>3. /\ now \in Keys \cup {0} /\ (\A k \in Elements(table.docs) : k <= now)
      /\ at_end \in BOOLEAN /\ draining \in BOOLEAN /\ prune_in_progress \in BOOLEAN
      /\ q \in 0 .. MaxWaiting /\ scheduled \in Nat /\ peak \in Nat /\ Size(table) <= peak
      /\ PruneIsCounted /\ StuckOnlyIfLarge
  BY DEF IInv
<1>4. q' \in 0 .. MaxWaiting
  BY <1>1, <1>3, IInvFacts
<1>5. at_end' = at_end
  BY <1>1 DEF objects
<1>6. PruneIsCounted' /\ StuckOnlyIfLarge'
  BY <1>1, <1>3 DEF PruneIsCounted, StuckOnlyIfLarge, Stuck, Size
<1>7. Size(table)' <= peak'
  BY <1>1, <1>3 DEF Size
<1> QED BY <1>1, <1>2, <1>3, <1>4, <1>5, <1>6, <1>7 DEF IInv

LEMMA WakeIInv == ASSUME IInv, Wake PROVE IInv' /\ InUseIfGrown
<1>1. /\ ~ draining /\ q > 0 /\ scheduled = 0 /\ draining' = TRUE
      /\ UNCHANGED <<table, objects, q, now, prune_in_progress, scheduled, peak>>
  BY DEF Wake
<1>2. ObjectsAreSound(Now)' /\ InUseIfGrown
  BY <1>1, SameObjects
<1>3. /\ now \in Keys \cup {0} /\ (\A k \in Elements(table.docs) : k <= now)
      /\ at_end \in BOOLEAN /\ draining \in BOOLEAN /\ prune_in_progress \in BOOLEAN
      /\ q \in 0 .. MaxWaiting /\ scheduled \in Nat /\ peak \in Nat /\ Size(table) <= peak
      /\ PruneIsCounted /\ StuckOnlyIfLarge
  BY DEF IInv
<1>4. at_end' = at_end
  BY <1>1 DEF objects
<1>5. PruneIsCounted' /\ StuckOnlyIfLarge'
  BY <1>1, <1>3 DEF PruneIsCounted, StuckOnlyIfLarge, Stuck, Size
<1>6. Size(table)' <= peak'
  BY <1>1, <1>3 DEF Size
<1> QED BY <1>1, <1>2, <1>3, <1>4, <1>5, <1>6 DEF IInv

LEMMA TakeLineIInv == ASSUME IInv, TakeLine PROVE IInv' /\ InUseIfGrown
<1>1. PICK ts \in {now, now + 1} \cap Keys :
        now' = ts /\ Becomes([register(Now, ts) EXCEPT !.last = ts])
  BY DEF TakeLine
<1> DEFINE t    == register(Now, ts)
           u    == [t EXCEPT !.last = ts]
           n    == Size(table')
           over == n > max_log_records /\ ~ prune_in_progress
<1>2. /\ draining
      /\ prune_in_progress' = (prune_in_progress \/ over)
      /\ scheduled' = IF over THEN prune_count(n) ELSE scheduled
      /\ peak' = Greatest(peak, n)
      /\ q' = q - 1 /\ draining' = (q' > 0) /\ at_end' = at_end
  BY DEF TakeLine
<1>3. /\ now \in Keys \cup {0} /\ (\A k \in Elements(table.docs) : k <= now)
      /\ at_end \in BOOLEAN /\ draining \in BOOLEAN /\ prune_in_progress \in BOOLEAN
      /\ q \in 0 .. MaxWaiting /\ q > 0
      /\ scheduled \in Nat /\ peak \in Nat /\ Size(table) <= peak
      /\ PruneIsCounted /\ StuckOnlyIfLarge /\ ObjectsAreSound(Now)
  BY <1>2 DEF IInv
<1>4. /\ Size(table) \in Nat /\ max_log_records \in Nat /\ Extra \in Nat /\ 1 <= Extra
      /\ Extra <= max_log_records /\ MaxWaiting \in Nat
  BY IInvFacts
<1>5. ts \in Keys /\ \A j \in Elements(Now.table.docs) : j <= ts
  <2>1. ts \in Keys /\ ts \in Nat /\ now \in Nat /\ now <= ts
    BY <1>3, KeysAreNumbers
  <2>2. Elements(table.docs) \subseteq Nat
    <3>1. Elements(table.docs) \subseteq Keys
      BY <1>3, NowFields, CachingTypes DEF ObjectsAreSound
    <3> QED BY <3>1, KeysAreNumbers
  <2>3. ASSUME NEW j \in Elements(table.docs) PROVE j <= ts
    BY <1>3, <2>1, <2>2
  <2> QED BY <2>1, <2>3, NowFields
<1>6. /\ ObjectsAreSound(t)
      /\ Len(t.table.docs) \in {Len(table.docs), Len(table.docs) + 1}
      /\ \A j \in Elements(t.table.docs) : j <= ts
      /\ ts \in Elements(t.cache) /\ t.last = last
      /\ Len(t.cache) > max_entries /\ Len(t.cache) > Len(cache) =>
           Elements(Front(t.cache)) \subseteq Referenced(t)
  <2>1. /\ ObjectsAreSound(t)
        /\ Len(t.table.docs) \in {Len(Now.table.docs), Len(Now.table.docs) + 1}
        /\ \A j \in Elements(t.table.docs) : j <= ts
        /\ ts \in Elements(t.cache) /\ t.last = Now.last
        /\ Len(t.cache) > max_entries /\ Len(t.cache) > Len(Now.cache) =>
             Elements(Front(t.cache)) \subseteq Referenced(t)
    BY <1>3, <1>5, RegisterFacts
  <2> QED BY <2>1, NowFields
<1> HIDE DEF t
<1>7. /\ table' = t.table /\ cache' = t.cache
      /\ held' = t.held /\ doubled' = t.doubled /\ garbage' = t.garbage
  <2>1. /\ u.table = t.table /\ u.cache = t.cache /\ u.held = t.held
        /\ u.doubled = t.doubled /\ u.garbage = t.garbage
    OBVIOUS
  <2> QED BY <1>1, <2>1 DEF Becomes, t
<1>8. ObjectsAreSound(Now)'
  <2>1. ObjectsAreSound(t) /\ "last" \in DOMAIN t
    BY <1>6 DEF ObjectsAreSound, Caching, Fields
  <2>2. /\ DOMAIN u = DOMAIN t /\ u.last = ts /\ u.table = t.table /\ u.cache = t.cache
        /\ u.held = t.held /\ u.doubled = t.doubled /\ u.garbage = t.garbage
    BY <2>1
  <2>3. Becomes(u)
    BY <1>1 DEF t
  <2> HIDE DEF u
  <2>4. ObjectsAreSound(u)
    BY <1>6, <2>1, <2>2 DEF ObjectsAreSound, Caching, Showing
  <2> QED BY <2>3, <2>4, BecomesSound
<1>9. InUseIfGrown
  BY <1>6, <1>7 DEF InUseIfGrown, Referenced
<1>10. n \in Nat /\ n \in {Size(table), Size(table) + 1}
  BY <1>4, <1>6, <1>7 DEF Size
<1> HIDE DEF n
<1>11. peak' \in Nat /\ n <= peak' /\ peak <= peak'
  BY <1>2, <1>3, <1>10 DEF Greatest
<1>12. q' \in 0 .. MaxWaiting /\ (draining' <=> q' > 0) /\ draining' \in BOOLEAN
  <2>1. q' = q - 1
    BY <1>2
  <2>2. q' \in 0 .. MaxWaiting
    BY <1>3, <1>4, <2>1
  <2>3. draining' = (q' > 0)
    BY <1>2
  <2>4. (q' > 0) \in BOOLEAN
    OBVIOUS
  <2>5. draining' \in BOOLEAN
    BY <2>3, <2>4, Zenon
  <2>6. draining' <=> q' > 0
    BY <2>3, Zenon
  <2> QED BY <2>2, <2>5, <2>6
<1>13. PruneIsCounted' /\ scheduled' \in Nat
  <2>1. CASE over
    <3>1. /\ scheduled' = n - max_log_records + Extra
          /\ scheduled' \in Nat /\ prune_in_progress'
      <4>1. n > max_log_records /\ prune_in_progress' = TRUE
        BY <1>2, <2>1
      <4>2. scheduled' = n - max_log_records + Extra
        BY <1>2, <2>1 DEF prune_count
      <4>3. scheduled' \in Nat
        BY <1>4, <1>10, <4>1, <4>2
      <4> QED BY <4>1, <4>2, <4>3
    <3>2. (IF draining' THEN q' ELSE 0) < MaxWaiting
      BY <1>2, <1>3, <1>4
    <3> QED BY <1>4, <1>10, <1>12, <3>1, <3>2 DEF PruneIsCounted, n
  <2>2. CASE ~ over
    <3>1. scheduled' = scheduled /\ prune_in_progress' = prune_in_progress
      BY <1>2, <1>3, <2>2
    <3> SUFFICES ASSUME scheduled > 0
                 PROVE  /\ prune_in_progress
                        /\ scheduled + max_log_records - Extra <= n
                        /\ n + (IF draining' THEN q' ELSE 0)
                             < scheduled + max_log_records - Extra + MaxWaiting
      BY <1>3, <3>1 DEF PruneIsCounted, n
    <3>2. /\ prune_in_progress
          /\ scheduled + max_log_records - Extra <= Size(table)
          /\ Size(table) + q < scheduled + max_log_records - Extra + MaxWaiting
      BY <1>2, <1>3 DEF PruneIsCounted
    <3>3. (IF draining' THEN q' ELSE 0) <= q - 1
      BY <1>2, <1>3
    <3>4. (IF draining' THEN q' ELSE 0) \in Nat
      BY <1>12
    <3> QED BY <1>3, <1>4, <1>10, <3>2, <3>3, <3>4
  <2> QED BY <2>1, <2>2
<1>14. StuckOnlyIfLarge'
  <2> SUFFICES ASSUME prune_in_progress', scheduled' = 0
               PROVE  peak' >= 2 * (max_log_records - Extra + 1)
    BY DEF StuckOnlyIfLarge, Stuck
  <2>1. ~ over
    BY <1>2, <1>4, <1>10 DEF prune_count
  <2>2. prune_in_progress /\ scheduled = 0
    BY <1>2, <1>3, <2>1
  <2> QED BY <1>3, <1>4, <1>11, <2>2 DEF StuckOnlyIfLarge, Stuck
<1>15. /\ now' \in Keys \cup {0} /\ \A k \in Elements(table.docs)' : k <= now'
  BY <1>1, <1>5, <1>6, <1>7
<1>16. prune_in_progress' \in BOOLEAN /\ at_end' \in BOOLEAN
  BY <1>2, <1>3
<1> QED BY <1>8, <1>9, <1>11, <1>12, <1>13, <1>14, <1>15, <1>16 DEF IInv, n

\* What a step that is neither Write, Wake nor TakeLine leaves alone.
LEMMA RestOfIInv ==
  ASSUME IInv, ObjectsAreSound(Now)', Elements(table.docs)' \subseteq Elements(table.docs),
         at_end' \in BOOLEAN, now' = now, ~ draining', draining' = draining,
         q' \in 0 .. MaxWaiting, scheduled' \in Nat, prune_in_progress' \in BOOLEAN,
         peak' \in Nat, Size(table)' <= peak', PruneIsCounted', StuckOnlyIfLarge'
  PROVE  IInv'
<1>1. /\ now \in Keys \cup {0} /\ \A k \in Elements(table.docs) : k <= now
      /\ draining \in BOOLEAN
  BY DEF IInv
<1> QED BY <1>1 DEF IInv

\* The same, if also the table and the prune stay.
LEMMA RestOfPrune ==
  ASSUME IInv, ObjectsAreSound(Now)', at_end' \in BOOLEAN, ~ draining, table'.docs = table.docs,
         UNCHANGED <<q, draining, now, prune_in_progress, scheduled, peak>>
  PROVE  IInv'
<1>1. /\ q \in 0 .. MaxWaiting /\ scheduled \in Nat /\ prune_in_progress \in BOOLEAN
      /\ peak \in Nat /\ Size(table) <= peak /\ PruneIsCounted /\ StuckOnlyIfLarge
  BY DEF IInv
<1>2. Size(table)' = Size(table) /\ Elements(table.docs)' = Elements(table.docs)
  BY DEF Size
<1>3. PruneIsCounted'
  BY <1>1, <1>2 DEF PruneIsCounted
<1>4. StuckOnlyIfLarge'
  BY <1>1 DEF StuckOnlyIfLarge, Stuck
<1>5. /\ ~ draining' /\ q' \in 0 .. MaxWaiting /\ scheduled' \in Nat
      /\ prune_in_progress' \in BOOLEAN /\ peak' \in Nat /\ Size(table)' <= peak'
  BY <1>1, <1>2
<1> QED BY <1>2, <1>3, <1>4, <1>5, RestOfIInv

LEMMA AnyIsRestriction == AnyRestriction \in Restrictions
BY LogTableAssumption DEF AnyRestriction

\* What PruneRestoresLimit says of a step.
RestoresLimit ==
  Prune /\ ~ prune_in_progress' => Size(table') < max_log_records - Extra + MaxWaiting

LEMMA PruneIInv == ASSUME IInv, Prune PROVE IInv' /\ InUseIfGrown /\ RestoresLimit
<1> DEFINE indexed == get_idx(table, AnyRestriction)
           s == [table |-> indexed, cache |-> cache, held |-> held,
                 doubled |-> doubled, garbage |-> garbage, last |-> last,
                 failed |-> FALSE]
           t == pruned(s, scheduled)
           N == Size(table)
<1>1. /\ ~ draining /\ scheduled > 0 /\ Becomes(t) /\ prune_in_progress' = t.failed
      /\ scheduled' = 0
      /\ UNCHANGED <<at_end, q, draining, now, peak>>
  BY DEF Prune
<1>2. /\ q \in 0 .. MaxWaiting /\ at_end \in BOOLEAN
      /\ scheduled \in Nat /\ peak \in Nat /\ N <= peak
      /\ scheduled + max_log_records - Extra <= N
      /\ N < scheduled + max_log_records - Extra + MaxWaiting
      /\ ObjectsAreSound(Now)
  <2>1. /\ scheduled + max_log_records - Extra <= N
        /\ N + (IF draining THEN q ELSE 0) < scheduled + max_log_records - Extra + MaxWaiting
    BY <1>1 DEF IInv, PruneIsCounted
  <2>2. (IF draining THEN q ELSE 0) = 0 /\ N \in Nat
    BY <1>1, IInvFacts
  <2>3. N + 0 < scheduled + max_log_records - Extra + MaxWaiting
    BY <2>1, <2>2
  <2>4. N < scheduled + max_log_records - Extra + MaxWaiting
    <3> HIDE DEF N
    <3> QED BY <2>2, <2>3
  <2> QED BY <2>1, <2>4 DEF IInv
<1>3. /\ N \in Nat /\ max_log_records \in Nat /\ Extra \in Nat /\ 1 <= Extra
      /\ Extra <= max_log_records /\ MaxWaiting \in Nat /\ Sound(table)
      /\ Len(cache) \in Nat
  BY IInvFacts
<1>4. Sound(indexed) /\ indexed.docs = table.docs /\ AnyRestriction \in DOMAIN indexed.idx
  <2>1. Sound(indexed) /\ indexed.docs = table.docs
    BY <1>3, AnyIsRestriction, GetIdxIsSound
  <2>2. AnyRestriction \in DOMAIN indexed.idx
    BY <1>3 DEF get_idx, Sound
  <2> QED BY <2>1, <2>2
<1> HIDE DEF indexed
<1>5. /\ DOMAIN s = Fields \cup {"failed"} /\ s.failed = FALSE /\ s.table = indexed
      /\ s.cache = cache /\ s.held = held /\ s.doubled = doubled /\ s.garbage = garbage
      /\ s.last = last
  BY DEF Fields
<1> HIDE DEF s
<1>6. Walking(s)
  <2>1. ObjectsAreSound(s)
    BY <1>2, <1>4, <1>5, NowFields DEF ObjectsAreSound, Caching, Showing
  <2>2. s.failed \in BOOLEAN /\ "failed" \in DOMAIN s
    BY <1>5
  <2> QED BY <1>4, <1>5, <2>1, <2>2 DEF Walking
<1>7. /\ Len(s.table.docs) = N /\ Len(s.cache) = Len(cache)
      /\ Elements(s.table.docs) = Elements(table.docs)
  BY <1>4, <1>5 DEF Size
<1>8. scheduled <= N
  <2> HIDE DEF N
  <2> QED BY <1>2, <1>3
<1> HIDE DEF N
<1>9. /\ Walking(t) /\ Elements(t.table.docs) \subseteq Elements(table.docs)
      /\ Len(t.cache) <= Len(cache) /\ Len(t.table.docs) \in Nat /\ Len(t.table.docs) <= N
      /\ ~ t.failed => Len(t.table.docs) = N - scheduled
      /\ t.failed => 2 * (scheduled - 1) >= N
  <2>1. ~ s.failed
    BY <1>5
  <2>2. scheduled \in Nat /\ scheduled <= Len(s.table.docs)
    BY <1>2, <1>7, <1>8
  <2>3. /\ Walking(t) /\ Elements(t.table.docs) \subseteq Elements(s.table.docs)
        /\ Len(t.cache) <= Len(s.cache) /\ Len(t.table.docs) \in Nat
        /\ Len(t.table.docs) <= Len(s.table.docs)
        /\ ~ t.failed => Len(t.table.docs) = Len(s.table.docs) - scheduled
        /\ t.failed => 2 * (scheduled - 1) >= Len(s.table.docs)
    BY <1>6, <2>1, <2>2, PrunedFacts
  <2> QED BY <1>7, <2>3
<1> HIDE DEF t
<1>10. /\ ObjectsAreSound(t) /\ t.failed \in BOOLEAN /\ Len(t.cache) \in Nat
  BY <1>9, CachingTypes DEF Walking, ObjectsAreSound
<1>11. ObjectsAreSound(Now)'
  BY <1>1, <1>10, BecomesSound
<1>12. table' = t.table /\ cache' = t.cache
  BY <1>1 DEF Becomes
<1>13. InUseIfGrown
  BY <1>3, <1>9, <1>10, <1>12, NothingGrows
<1>14. Size(table)' = Len(t.table.docs) /\ Size(table') = Len(t.table.docs)
  BY <1>12 DEF Size
<1>15. PruneIsCounted'
  BY <1>1 DEF PruneIsCounted
<1>16. StuckOnlyIfLarge'
  <2> SUFFICES ASSUME t.failed PROVE peak >= 2 * (max_log_records - Extra + 1)
    BY <1>1 DEF StuckOnlyIfLarge, Stuck
  <2>1. 2 * (scheduled - 1) >= N
    BY <1>9
  <2> QED BY <1>2, <1>3, <2>1
<1>17. RestoresLimit
  <2> SUFFICES ASSUME ~ t.failed
               PROVE  Len(t.table.docs) < max_log_records - Extra + MaxWaiting
    BY <1>1, <1>14 DEF RestoresLimit
  <2>1. Len(t.table.docs) = N - scheduled
    BY <1>9
  <2> QED BY <1>2, <1>3, <2>1
<1>18. Size(table)' <= peak' /\ peak' \in Nat
  BY <1>1, <1>2, <1>3, <1>9, <1>14
<1>19. Elements(table.docs)' \subseteq Elements(table.docs)
  BY <1>9, <1>12
<1>20. /\ at_end' \in BOOLEAN /\ q' \in 0 .. MaxWaiting /\ scheduled' \in Nat
       /\ prune_in_progress' \in BOOLEAN /\ ~ draining' /\ draining' = draining
  BY <1>1, <1>2, <1>10
<1>21. IInv'
  BY <1>1, <1>11, <1>15, <1>16, <1>18, <1>19, <1>20, RestOfIInv
<1> QED BY <1>13, <1>17, <1>21

\* A search was dropped, and the objects it had are garbage.
LEMMA DroppedFacts ==
  ASSUME IInv, NEW t, Sound(t), t.docs = table.docs
  PROVE  LET s == [Dropped EXCEPT !.table = t]
         IN  ObjectsAreSound(s) /\ s.table = t /\ s.cache = cache /\ s.last = last
<1> DEFINE s == [Dropped EXCEPT !.table = t]
<1>1. /\ DOMAIN s = Fields /\ s.table = t /\ s.cache = cache /\ s.held = {}
      /\ s.doubled = {} /\ s.last = last
      /\ s.garbage = garbage \cup (Elements(cache) \cap (held \ doubled))
  BY DEF Dropped, Fields
<1> HIDE DEF s
<1>2. Caching(Now)
  BY DEF IInv, ObjectsAreSound
<1>3. Caching(s)
  BY <1>1, <1>2, NowFields DEF Caching
<1>4. Showing(s, Elements(s.table.docs))
  BY <1>1 DEF Showing
<1> QED BY <1>1, <1>3, <1>4 DEF s, ObjectsAreSound

LEMMA FrontElements ==
  ASSUME NEW c \in Seq(Keys), Len(c) > 0
  PROVE  Elements(Front(c)) \subseteq Elements(c)
<1>1. 1 \in Int /\ Len(c) - 1 \in Int /\ Len(c) - 1 <= Len(c)
  OBVIOUS
<1>2. Elements(SubSeq(c, 1, Len(c) - 1)) = {c[i] : i \in 1 .. Len(c) - 1}
  BY <1>1, ElementsOfSubSeq
<1>3. \A i \in 1 .. Len(c) - 1 : i \in DOMAIN c
  OBVIOUS
<1> QED BY <1>2, <1>3 DEF Front, Elements

LEMMA LookIInv == ASSUME IInv, NEW csk \in Shows, Look(csk) PROVE IInv' /\ InUseIfGrown
<1> DEFINE indexed == get_idx(table, csk.restrict)
           range   == get_range(indexed.idx[csk.restrict], csk)
           s       == [Dropped EXCEPT !.table = indexed]
           t       == shown(s, range.keys)
<1>1. /\ ~ draining /\ Becomes(t) /\ at_end' = range.at_end
      /\ UNCHANGED <<q, draining, now, prune_in_progress, scheduled, peak>>
  BY DEF Look
<1>2. csk.restrict \in Restrictions /\ IsKey(csk)
  BY LogTableAssumption DEF IsKey
<1>3. Sound(table) /\ table.docs \in Seq(Keys) /\ Len(cache) \in Nat
  BY IInvFacts
<1>4. /\ Sound(indexed) /\ indexed.docs = table.docs
      /\ indexed.idx[csk.restrict] = DBIndex(table, csk.restrict)
  BY <1>2, <1>3, GetIdxIsSound
<1>5. /\ DBIndex(table, csk.restrict) \in Seq(Keys)
      /\ Elements(DBIndex(table, csk.restrict)) \subseteq Elements(table.docs)
  BY <1>2, <1>3, IndexFacts
<1> HIDE DEF indexed
<1>6. /\ range.keys \in Seq(Keys) /\ range.at_end \in BOOLEAN
      /\ Elements(range.keys) \subseteq Elements(table.docs)
  <2>1. CASE range = NoRange
    <3>1. range.keys = <<>> /\ range.at_end = FALSE
      BY <2>1 DEF NoRange
    <3> HIDE DEF range
    <3> QED BY <3>1, ElementsOfEmpty
  <2>2. CASE Found(DBIndex(table, csk.restrict), range)
    <3> HIDE DEF range
    <3> QED BY <1>5, <2>2 DEF Found
  <2> QED BY <1>2, <1>4, <1>5, <2>1, <2>2, RangeFacts
<1> HIDE DEF range
<1>7. ObjectsAreSound(s) /\ s.table = indexed /\ s.cache = cache /\ s.last = last
  BY <1>4, DroppedFacts
<1> HIDE DEF s
<1>8. /\ ObjectsAreSound(t) /\ t.table = s.table /\ t.last = s.last
      /\ GrowsInUse(t, Len(s.cache))
  BY <1>4, <1>6, <1>7, ShownFacts
<1> HIDE DEF t
<1>9. ObjectsAreSound(Now)'
  BY <1>1, <1>8, BecomesSound
<1>10. /\ table'.docs = table.docs /\ cache' = t.cache
       /\ (held' \ doubled') \cup garbage' \cup {last} = Referenced(t)
  BY <1>1, <1>4, <1>7, <1>8 DEF Becomes, Referenced
<1>11. InUseIfGrown
  <2> SUFFICES ASSUME Len(cache') > max_entries, Len(cache') > Len(cache)
               PROVE  Elements(Front(cache')) \subseteq Referenced(t)
    BY <1>10 DEF InUseIfGrown
  <2>1. Elements(t.cache) \subseteq Referenced(t)
    BY <1>7, <1>8, <1>10 DEF GrowsInUse
  <2>2. t.cache \in Seq(Keys) /\ Len(t.cache) > 0
    <3>1. t.cache \in Seq(Keys) /\ Len(t.cache) \in Nat
      BY <1>8, CachingTypes DEF ObjectsAreSound
    <3> QED BY <1>3, <1>10, <3>1
  <2> QED BY <1>10, <2>1, <2>2, FrontElements
<1>12. at_end' \in BOOLEAN
  BY <1>1, <1>6
<1>13. IInv'
  BY <1>1, <1>9, <1>10, <1>12, RestOfPrune
<1> QED BY <1>11, <1>13

LEMMA LookAwayIInv == ASSUME IInv, LookAway PROVE IInv' /\ InUseIfGrown
<1> DEFINE s == [Dropped EXCEPT !.table = table]
<1>1. /\ ~ draining /\ Becomes(Dropped) /\ at_end' = FALSE
      /\ UNCHANGED <<q, draining, now, prune_in_progress, scheduled, peak>>
  BY DEF LookAway
<1>2. ObjectsAreSound(s) /\ s.table = table /\ s.cache = cache
  BY IInvFacts, DroppedFacts
<1>3. s = Dropped
  <2>1. "table" \in DOMAIN Dropped /\ Dropped.table = table
    BY DEF Dropped
  <2>2. Dropped = [f \in DOMAIN Dropped |-> Dropped[f]]
    BY DEF Dropped
  <2>3. s = [f \in DOMAIN Dropped |-> IF f = "table" THEN table ELSE Dropped[f]]
    BY <2>1
  <2> QED BY <2>1, <2>2, <2>3
<1> HIDE DEF s
<1>4. ObjectsAreSound(Now)'
  BY <1>1, <1>2, <1>3, BecomesSound
<1>5. table' = table /\ cache' = cache
  BY <1>1, <1>2, <1>3 DEF Becomes
<1>6. InUseIfGrown
  BY <1>5, IInvFacts, NothingGrows
<1>7. IInv'
  BY <1>1, <1>4, <1>5, RestOfPrune
<1> QED BY <1>6, <1>7

LEMMA CollectIInv == ASSUME IInv, Collect PROVE IInv' /\ InUseIfGrown
<1>1. /\ garbage' \subseteq garbage
      /\ UNCHANGED <<table, cache, held, doubled, last, at_end, q, draining, now,
                     prune_in_progress, scheduled, peak>>
  BY DEF Collect
<1> DEFINE s == [table |-> table, cache |-> cache, held |-> held,
                 doubled |-> doubled, garbage |-> garbage', last |-> last]
<1>2. /\ DOMAIN s = Fields /\ s.table = table /\ s.cache = cache /\ s.held = held
      /\ s.doubled = doubled /\ s.garbage = garbage' /\ s.last = last
  BY DEF Fields
<1> HIDE DEF s
<1>3. ObjectsAreSound(Now) /\ at_end \in BOOLEAN
  BY DEF IInv
<1>4. ObjectsAreSound(s)
  BY <1>1, <1>2, <1>3, NowFields DEF ObjectsAreSound, Caching, Showing
<1>5. Becomes(s)
  BY <1>1, <1>2 DEF Becomes
<1>6. ObjectsAreSound(Now)'
  BY <1>4, <1>5, BecomesSound
<1>7. InUseIfGrown
  BY <1>1, IInvFacts, NothingGrows
<1>8. PruneIsCounted' /\ StuckOnlyIfLarge'
  BY <1>1 DEF IInv, PruneIsCounted, StuckOnlyIfLarge, Stuck, Size
<1>9. IInv'
  BY <1>1, <1>6, <1>8 DEF IInv, Size
<1> QED BY <1>7, <1>9

LEMMA RestartIInv == ASSUME IInv, Restart PROVE IInv' /\ InUseIfGrown
<1> DEFINE t == [EmptyTable EXCEPT !.docs = table.docs]
           s == [table |-> t, cache |-> <<>>, held |-> {}, doubled |-> {}, garbage |-> {},
                 last |-> None]
<1>1. /\ ~ draining /\ table' = t /\ cache' = <<>> /\ held' = {} /\ doubled' = {}
      /\ garbage' = {} /\ last' = None /\ at_end' = FALSE
      /\ q' = 0 /\ prune_in_progress' = FALSE /\ scheduled' = 0 /\ peak' = Size(table)
      /\ UNCHANGED <<draining, now>>
  BY DEF Restart
<1>2. t = [docs |-> table.docs, idx |-> [r \in {} |-> <<>>]]
  BY DEF EmptyTable
<1>3. t.docs = table.docs /\ DOMAIN t.idx = {} /\ t.idx = [r \in DOMAIN t.idx |-> t.idx[r]]
      /\ t = [docs |-> t.docs, idx |-> t.idx]
  BY <1>2
<1>4. table.docs \in Seq(Keys) /\ Increasing(table.docs) /\ Size(table) \in Nat /\ MaxWaiting \in Nat
  BY IInvFacts
<1>5. /\ DOMAIN s = Fields /\ s.table = t /\ s.cache = <<>> /\ s.held = {}
      /\ s.doubled = {} /\ s.garbage = {} /\ s.last = None
  BY DEF Fields
<1> HIDE DEF t, s
<1>6. Sound(t)
  BY <1>3, <1>4 DEF Sound, IsTable
<1>7. <<>> \in Seq(Keys) /\ Elements(<<>>) = {} /\ DOMAIN <<>> = {} /\ Len(<<>>) = 0
  BY ElementsOfEmpty
<1>8. IsInjective(<<>>)
  BY <1>7 DEF IsInjective
<1>9. ObjectsAreSound(s)
  BY <1>3, <1>4, <1>5, <1>6, <1>7, <1>8 DEF ObjectsAreSound, Caching, Showing
<1>10. ObjectsAreSound(Now)'
  BY <1>1, <1>5, <1>9, BecomesSound DEF Becomes
<1>11. InUseIfGrown
  BY <1>1, <1>7, IInvFacts, NothingGrows
<1>12. Size(table)' = Size(table) /\ Elements(table.docs)' = Elements(table.docs)
  BY <1>1, <1>3 DEF Size
<1>13. PruneIsCounted' /\ StuckOnlyIfLarge'
  BY <1>1 DEF PruneIsCounted, StuckOnlyIfLarge, Stuck
<1>14. /\ 0 \in 0 .. MaxWaiting /\ Size(table)' <= peak' /\ peak' \in Nat
  BY <1>1, <1>4, <1>12
<1>15. IInv'
  BY <1>1, <1>10, <1>12, <1>13, <1>14, RestOfIInv
<1> QED BY <1>11, <1>15

LEMMA NextIInv ==
  ASSUME IInv, [Next]_vars
  PROVE  IInv' /\ InUseIfGrown /\ RestoresLimit
<1>1. CASE Prune
  BY <1>1, PruneIInv
<1>2. ASSUME ~ Prune PROVE RestoresLimit
  BY <1>2 DEF RestoresLimit
<1>3. ASSUME ~ Prune PROVE IInv' /\ InUseIfGrown
  <2>1. CASE UNCHANGED vars
    <3>1. /\ UNCHANGED <<table, objects>>
          /\ UNCHANGED <<at_end, q, draining, now, prune_in_progress, scheduled, peak>>
      BY <2>1 DEF vars, objects
    <3>2. ObjectsAreSound(Now)' /\ InUseIfGrown
      BY <3>1, SameObjects
    <3>3. IInv'
      BY <3>1, <3>2 DEF IInv, PruneIsCounted, StuckOnlyIfLarge, Stuck, Size
    <3> QED BY <3>2, <3>3
  <2> QED BY <1>3, <2>1, WriteIInv, WakeIInv, TakeLineIInv, LookIInv, LookAwayIInv,
             CollectIInv, RestartIInv DEF Next
<1> QED BY <1>1, <1>2, <1>3

LEMMA IInvAlways == Spec => []IInv
<1>1. Init => IInv
  BY InitIInv
<1>2. IInv /\ [Next]_vars => IInv'
  BY NextIInv
<1> QED BY <1>1, <1>2, PTL DEF Spec

----------------------------------------------------------------------------
(* The theorems.                                                           *)

(***************************************************************************)
(* The state has its types; an object in the cache is of a record that is  *)
(* in the table, and there is one for each (DbBackedTable.delete,          *)
(* OCache.__setitem__).                                                    *)
(***************************************************************************)
THEOREM TypeCorrect == Spec => []TypeOK
<1>1. ASSUME IInv PROVE TypeOK
  <2>1. ObjectsAreSound(Now) /\ Sound(table)
    BY <1>1, IInvFacts DEF IInv
  <2>2. /\ cache \in Seq(Keys) /\ IsInjective(cache)
        /\ Elements(cache) \subseteq Elements(table.docs)
        /\ held \subseteq Keys /\ doubled \subseteq held /\ garbage \subseteq Elements(cache)
        /\ last \in Elements(cache) \cup {None}
    BY <2>1, NowFields DEF ObjectsAreSound, Caching
  <2>3. cache \in Seq(Elements(table.docs))
    <3>1. \A i \in 1 .. Len(cache) : cache[i] \in Elements(cache)
      <4>1. DOMAIN cache = 1 .. Len(cache)
        BY <2>2
      <4> QED BY <4>1 DEF Elements
    <3>2. \A i \in 1 .. Len(cache) : cache[i] \in Elements(table.docs)
      BY <2>2, <3>1
    <3>3. cache = [i \in 1 .. Len(cache) |-> cache[i]] /\ Len(cache) \in Nat
      BY <2>2
    <3> QED BY <3>2, <3>3
  <2>4. IsTable(table)
    BY <2>1 DEF Sound
  <2> QED BY <1>1, <2>2, <2>3, <2>4 DEF IInv, TypeOK
<1> QED BY <1>1, IInvAlways, PTL

(***************************************************************************)
(* What the browser looks at is the object of the cache, for all limits    *)
(* and whatever comes meanwhile (OCache.clean, CSearch.add_item).          *)
(***************************************************************************)
THEOREM WhatIsShownIsCached == Spec => []ShownIsCached
<1>1. ASSUME IInv PROVE ShownIsCached
  <2>1. Showing(Now, Elements(Now.table.docs))
    BY <1>1 DEF IInv, ObjectsAreSound
  <2> QED BY <2>1, NowFields DEF Showing, ShownIsCached
<1> QED BY <1>1, IInvAlways, PTL

(***************************************************************************)
(* A cache beyond its limit does not grow as long as it has an object that *)
(* no search refers to, nor the task of LogQ (OCache.__setitem__, clean,   *)
(* LogQ.start).                                                            *)
(***************************************************************************)
THEOREM CacheStaysBounded == Spec => CacheIsBounded
<1>1. ASSUME IInv, [Next]_vars
      PROVE  [Len(cache') > max_entries /\ Len(cache') > Len(cache) =>
                Elements(Front(cache'))
                  \subseteq (held' \ doubled') \cup garbage' \cup {last}]_vars
  BY <1>1, NextIInv DEF InUseIfGrown
<1> QED BY <1>1, IInvAlways, PTL DEF Spec, CacheIsBounded

(***************************************************************************)
(* Pruning stops for good only after the table had nearly twice its limit  *)
(* of records, for every limit (LogQ.prune_logitem_table, LogQ.start).     *)
(***************************************************************************)
THEOREM OnlyLargeTablesStick == Spec => []StuckOnlyIfLarge
<1>1. IInv => StuckOnlyIfLarge
  BY DEF IInv
<1> QED BY <1>1, IInvAlways, PTL

(***************************************************************************)
(* A prune that comes to its end leaves a table that is below its limit,   *)
(* but for the lines of one full queue (LogQ.prune_logitem_table).         *)
(***************************************************************************)
THEOREM PrunesRestoreLimit == Spec => PruneRestoresLimit
<1>1. ASSUME IInv, [Next]_vars
      PROVE  [Prune /\ ~ prune_in_progress' =>
                Size(table') < max_log_records - Extra + MaxWaiting]_vars
  BY <1>1, NextIInv DEF RestoresLimit
<1> QED BY <1>1, IInvAlways, PTL DEF Spec, PruneRestoresLimit

=============================================================================
