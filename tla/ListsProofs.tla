---------------------------- MODULE ListsProofs ----------------------------
(***************************************************************************)
(* Facts about Filter and bisection, for lists of any length.              *)
(*                                                                         *)
(* They are proved by induction.  The induction theorems of the library    *)
(* take a predicate as a parameter, which the provers cannot instantiate;  *)
(* the induction here is on sets: a set of numbers that has 0, and with    *)
(* each number the next, has all of them, because otherwise there were a   *)
(* least number that it has not (WFMin).  The same induction shows that    *)
(* the recursive functions exist.                                          *)
(***************************************************************************)
EXTENDS Lists, SequenceTheorems, WellFoundedInduction, TLAPS

\* Induction on the natural numbers, for a set.
LEMMA NatInductionOnSet ==
  ASSUME NEW G, 0 \in G, \A n \in Nat : n \in G => n + 1 \in G
  PROVE  Nat \subseteq G
<1> DEFINE R == OpToRel(<, Nat)
           T == Nat \ G
<1>1. SUFFICES ASSUME T # {} PROVE FALSE
  OBVIOUS
<1>2. IsWellFoundedOn(R, Nat)
  BY NatLessThanWellFounded
<1>3. \A x, y \in Nat : x < y => <<x, y>> \in R
  BY DEF OpToRel
<1> HIDE DEF R
<1>4. PICK x \in T : \A y \in T : ~ (<<y, x>> \in R)
  <2> T \subseteq Nat
    OBVIOUS
  <2> HIDE DEF T
  <2> QED BY <1>1, <1>2, WFMin
<1>5. x \in Nat /\ x # 0 /\ x - 1 \in Nat
  BY <1>4
<1>6. x - 1 \in T
  <2>1. (x - 1) + 1 = x
    BY <1>5
  <2> QED BY <1>4, <1>5, <2>1
<1>7. x - 1 < x
  BY <1>5
<1> QED BY <1>3, <1>4, <1>5, <1>6, <1>7

----------------------------------------------------------------------------
\* The function that Filter looks up: the filtered beginnings of s.
Kept(s, S) ==
  CHOOSE f : f = [n \in 0 .. Len(s) |->
    IF n = 0 THEN <<>>
    ELSE IF s[n] \in S THEN Append(f[n - 1], s[n])
    ELSE f[n - 1]]

LEMMA FilterIsKept == ASSUME NEW s, NEW S PROVE Filter(s, S) = Kept(s, S)[Len(s)]
  BY DEF Filter, Kept

\* There is such a function, by induction on the length of the beginnings.
LEMMA KeptIsDefined ==
  ASSUME NEW K, NEW s \in Seq(K), NEW S
  PROVE  /\ Kept(s, S)[0] = <<>>
         /\ \A n \in 1 .. Len(s) :
              Kept(s, S)[n] = IF s[n] \in S THEN Append(Kept(s, S)[n - 1], s[n])
                              ELSE Kept(s, S)[n - 1]
<1> DEFINE Body(f, n) == IF n = 0 THEN <<>>
                         ELSE IF s[n] \in S THEN Append(f[n - 1], s[n])
                         ELSE f[n - 1]
           G == {m \in Nat : \E f : f = [n \in 0 .. m |-> Body(f, n)]}
<1>1. 0 \in G
  <2> DEFINE f == [n \in 0 .. 0 |-> <<>>]
  <2>1. f = [n \in 0 .. 0 |-> Body(f, n)]
    OBVIOUS
  <2> QED BY <2>1
<1>2. ASSUME NEW m \in Nat, m \in G PROVE m + 1 \in G
  <2>1. PICK f : f = [n \in 0 .. m |-> Body(f, n)]
    BY <1>2
  <2> DEFINE g == [n \in 0 .. m + 1 |-> IF n = m + 1 THEN Body(f, n) ELSE f[n]]
  <2>2. ASSUME NEW n \in 0 .. m + 1 PROVE g[n] = Body(g, n)
    <3>1. CASE n = 0
      <4>1. g[n] = f[0]
        BY <3>1
      <4> QED BY <2>1, <3>1, <4>1
    <3>2. CASE n # 0
      <4>1. n - 1 \in 0 .. m + 1 /\ n - 1 # m + 1
        BY <3>2
      <4>2. g[n - 1] = f[n - 1]
        BY <4>1
      <4> DEFINE e == g[n - 1]
      <4>3. Body(g, n) = Body(f, n)
        BY <3>2, <4>2
      <4>4. CASE n = m + 1
        BY <4>3, <4>4
      <4>5. CASE n # m + 1
        <5>1. n \in 0 .. m /\ g[n] = f[n]
          BY <4>5
        <5>2. f[n] = Body(f, n)
          BY <2>1, <5>1
        <5> QED BY <4>3, <5>1, <5>2
      <4> QED BY <4>4, <4>5
    <3> QED BY <3>1, <3>2
  <2>3. g = [n \in 0 .. m + 1 |-> g[n]]
    OBVIOUS
  <2> HIDE DEF g, Body
  <2>4. g = [n \in 0 .. m + 1 |-> Body(g, n)]
    BY <2>2, <2>3
  <2> QED BY <2>4
<1>3. Len(s) \in G
  <2>1. \A n \in Nat : n \in G => n + 1 \in G
    BY <1>2
  <2> HIDE DEF G
  <2> QED BY <1>1, <2>1, NatInductionOnSet
<1>4. Kept(s, S) = [n \in 0 .. Len(s) |-> Body(Kept(s, S), n)]
  <2>1. \E f : f = [n \in 0 .. Len(s) |-> Body(f, n)]
    BY <1>3
  <2> QED BY <2>1 DEF Kept
<1> QED
  <2>1. \A n \in 0 .. Len(s) : Kept(s, S)[n] = Body(Kept(s, S), n)
    <3> HIDE DEF Body
    <3> QED BY <1>4
  <2>2. Len(s) \in Nat
    OBVIOUS
  <2> QED BY <2>1, <2>2

----------------------------------------------------------------------------
\* Induction on sequences, for a set of them.
LEMMA SeqInductionOnSet ==
  ASSUME NEW K, NEW Q, <<>> \in Q,
         \A s \in Seq(K), e \in K : s \in Q => Append(s, e) \in Q
  PROVE  Seq(K) \subseteq Q
<1> DEFINE G == {n \in Nat : \A s \in Seq(K) : Len(s) = n => s \in Q}
<1>1. 0 \in G
  OBVIOUS
<1>2. ASSUME NEW n \in Nat, n \in G PROVE n + 1 \in G
  <2> SUFFICES ASSUME NEW s \in Seq(K), Len(s) = n + 1 PROVE s \in Q
    OBVIOUS
  <2>1. PICK t \in Seq(K), e \in K : s = Append(t, e)
    <3>1. s # <<>>
      OBVIOUS
    <3> QED BY <3>1, SequenceEmptyOrAppend
  <2>2. Len(t) = n
    BY <2>1
  <2> QED BY <1>2, <2>1, <2>2
<1>3. Nat \subseteq G
  <2> HIDE DEF G
  <2> QED BY <1>1, <1>2, NatInductionOnSet
<1> QED BY <1>3

LEMMA ElementsOfEmpty ==
  ASSUME NEW K PROVE <<>> \in Seq(K) /\ Elements(<<>>) = {}
<1>1. <<>> \in Seq(K) /\ DOMAIN <<>> = {}
  OBVIOUS
<1> QED BY <1>1 DEF Elements

\* What is in a sequence that was made by Append or \o.
LEMMA ElementsOfAppend ==
  ASSUME NEW K, NEW s \in Seq(K), NEW e \in K
  PROVE  /\ Append(s, e) \in Seq(K)
         /\ Elements(Append(s, e)) = Elements(s) \cup {e}
<1>1. /\ Append(s, e) \in Seq(K) /\ Len(Append(s, e)) = Len(s) + 1
      /\ \A i \in 1 .. Len(s) : Append(s, e)[i] = s[i]
      /\ Append(s, e)[Len(s) + 1] = e
  BY AppendProperties
<1>2. DOMAIN Append(s, e) = 1 .. Len(s) + 1 /\ DOMAIN s = 1 .. Len(s) /\ Len(s) \in Nat
  BY <1>1
<1> DEFINE t == Append(s, e)
<1> HIDE DEF t
<1>3. \A i \in DOMAIN t : t[i] \in Elements(s) \cup {e}
  BY <1>1, <1>2 DEF Elements, t
<1>4. \A i \in DOMAIN s : i \in DOMAIN t /\ t[i] = s[i]
  BY <1>1, <1>2 DEF t
<1>5. Len(s) + 1 \in DOMAIN t /\ t[Len(s) + 1] = e
  BY <1>1, <1>2 DEF t
<1>6. Elements(t) = Elements(s) \cup {e}
  BY <1>3, <1>4, <1>5 DEF Elements
<1> QED BY <1>1, <1>6 DEF t

LEMMA ElementsOfConcat ==
  ASSUME NEW K, NEW s \in Seq(K), NEW t \in Seq(K)
  PROVE  /\ s \o t \in Seq(K)
         /\ Elements(s \o t) = Elements(s) \cup Elements(t)
<1>1. /\ s \o t \in Seq(K) /\ Len(s \o t) = Len(s) + Len(t)
      /\ \A i \in 1 .. Len(s) + Len(t) :
           (s \o t)[i] = IF i <= Len(s) THEN s[i] ELSE t[i - Len(s)]
  BY ConcatProperties
<1>2. /\ DOMAIN (s \o t) = 1 .. Len(s) + Len(t)
      /\ DOMAIN s = 1 .. Len(s) /\ Len(s) \in Nat
      /\ DOMAIN t = 1 .. Len(t) /\ Len(t) \in Nat
  BY <1>1
<1> DEFINE u == s \o t
<1> HIDE DEF u
<1>3. \A i \in DOMAIN u : u[i] \in Elements(s) \cup Elements(t)
  <2> SUFFICES ASSUME NEW i \in DOMAIN u PROVE u[i] \in Elements(s) \cup Elements(t)
    OBVIOUS
  <2>1. CASE i <= Len(s)
    <3>1. i \in DOMAIN s /\ u[i] = s[i]
      BY <1>1, <1>2, <2>1 DEF u
    <3> QED BY <3>1 DEF Elements
  <2>2. CASE ~ (i <= Len(s))
    <3>1. i - Len(s) \in DOMAIN t /\ u[i] = t[i - Len(s)]
      BY <1>1, <1>2, <2>2 DEF u
    <3> QED BY <3>1 DEF Elements
  <2> QED BY <2>1, <2>2
<1>4. \A i \in DOMAIN s : i \in DOMAIN u /\ u[i] = s[i]
  BY <1>1, <1>2 DEF u
<1>5. \A i \in DOMAIN t : i + Len(s) \in DOMAIN u /\ u[i + Len(s)] = t[i]
  BY <1>1, <1>2 DEF u
<1>6. Elements(u) = Elements(s) \cup Elements(t)
  BY <1>3, <1>4, <1>5 DEF Elements
<1> QED BY <1>1, <1>6 DEF u

LEMMA ElementsAreInK == ASSUME NEW K, NEW s \in Seq(K) PROVE Elements(s) \subseteq K
  BY DEF Elements

----------------------------------------------------------------------------
LEMMA FilterEmpty == ASSUME NEW S PROVE Filter(<<>>, S) = <<>>
<1>1. <<>> \in Seq({})
  OBVIOUS
<1> QED BY <1>1, FilterIsKept, KeptIsDefined

\* Filter takes an element, or passes over it.
LEMMA FilterAppend ==
  ASSUME NEW K, NEW s \in Seq(K), NEW e \in K, NEW S
  PROVE  Filter(Append(s, e), S) =
           IF e \in S THEN Append(Filter(s, S), e) ELSE Filter(s, S)
<1> DEFINE t == Append(s, e)
           G == {n \in Nat : n <= Len(s) => Kept(t, S)[n] = Kept(s, S)[n]}
<1>1. /\ t \in Seq(K) /\ Len(t) = Len(s) + 1 /\ t[Len(s) + 1] = e /\ Len(s) \in Nat
      /\ \A i \in 1 .. Len(s) : t[i] = s[i]
  BY AppendProperties
<1>2. /\ Kept(t, S)[0] = <<>>
      /\ \A n \in 1 .. Len(t) :
           Kept(t, S)[n] = IF t[n] \in S THEN Append(Kept(t, S)[n - 1], t[n])
                           ELSE Kept(t, S)[n - 1]
  <2> HIDE DEF t
  <2> QED BY <1>1, KeptIsDefined
<1>3. /\ Kept(s, S)[0] = <<>>
      /\ \A n \in 1 .. Len(s) :
           Kept(s, S)[n] = IF s[n] \in S THEN Append(Kept(s, S)[n - 1], s[n])
                           ELSE Kept(s, S)[n - 1]
  BY KeptIsDefined
<1> HIDE DEF t
<1>4. 0 \in G
  BY <1>2, <1>3
<1>5. ASSUME NEW n \in Nat, n \in G PROVE n + 1 \in G
  <2> SUFFICES ASSUME n + 1 <= Len(s) PROVE Kept(t, S)[n + 1] = Kept(s, S)[n + 1]
    OBVIOUS
  <2>1. Kept(t, S)[n] = Kept(s, S)[n] /\ (n + 1) - 1 = n
    BY <1>1, <1>5
  <2>2. n + 1 \in 1 .. Len(s) /\ n + 1 \in 1 .. Len(t)
    BY <1>1
  <2>3. t[n + 1] = s[n + 1]
    BY <1>1, <2>2
  <2>4. Kept(t, S)[n + 1] = IF t[n + 1] \in S THEN Append(Kept(t, S)[n], t[n + 1])
                            ELSE Kept(t, S)[n]
    BY <1>2, <2>1, <2>2
  <2>5. Kept(s, S)[n + 1] = IF s[n + 1] \in S THEN Append(Kept(s, S)[n], s[n + 1])
                            ELSE Kept(s, S)[n]
    BY <1>3, <2>1, <2>2
  <2> QED BY <2>1, <2>3, <2>4, <2>5
<1>6. Kept(t, S)[Len(s)] = Kept(s, S)[Len(s)]
  <2>1. Nat \subseteq G
    <3> HIDE DEF G
    <3> QED BY <1>4, <1>5, NatInductionOnSet
  <2> QED BY <1>1, <2>1
<1>7. Kept(t, S)[Len(s) + 1] = IF e \in S THEN Append(Kept(t, S)[Len(s)], e)
                               ELSE Kept(t, S)[Len(s)]
  <2>1. Len(s) + 1 \in 1 .. Len(t) /\ (Len(s) + 1) - 1 = Len(s)
    BY <1>1
  <2> QED BY <1>1, <1>2, <2>1
<1>8. Filter(t, S) = IF e \in S THEN Append(Filter(s, S), e) ELSE Filter(s, S)
  BY <1>1, <1>6, <1>7, FilterIsKept
<1> QED BY <1>8 DEF t

\* Filter keeps what is in the set, and nothing else.
LEMMA FilterElements ==
  ASSUME NEW K, NEW S
  PROVE  \A s \in Seq(K) : /\ Filter(s, S) \in Seq(K)
                           /\ Elements(Filter(s, S)) = Elements(s) \cap S
<1> DEFINE Q == {s \in Seq(K) : /\ Filter(s, S) \in Seq(K)
                                /\ Elements(Filter(s, S)) = Elements(s) \cap S}
<1>1. <<>> \in Q
  BY FilterEmpty, ElementsOfEmpty
<1>2. ASSUME NEW s \in Seq(K), NEW e \in K, s \in Q PROVE Append(s, e) \in Q
  <2>1. /\ Append(s, e) \in Seq(K)
        /\ Elements(Append(s, e)) = Elements(s) \cup {e}
    BY ElementsOfAppend
  <2>2. CASE e \in S
    <3>1. Filter(Append(s, e), S) = Append(Filter(s, S), e)
      BY <2>2, FilterAppend
    <3>2. Elements(Append(Filter(s, S), e)) = Elements(Filter(s, S)) \cup {e}
      BY <1>2, ElementsOfAppend
    <3>3. Filter(Append(s, e), S) \in Seq(K)
      BY <1>2, <3>1, ElementsOfAppend
    <3>4. Elements(Filter(Append(s, e), S)) = Elements(Append(s, e)) \cap S
      <4>1. Elements(Filter(s, S)) = Elements(s) \cap S
        BY <1>2
      <4> QED BY <2>1, <2>2, <3>1, <3>2, <4>1
    <3> QED BY <2>1, <3>3, <3>4
  <2>3. CASE e \notin S
    <3>1. Filter(Append(s, e), S) = Filter(s, S)
      BY <2>3, FilterAppend
    <3>2. Elements(Append(s, e)) \cap S = Elements(s) \cap S
      BY <2>1, <2>3
    <3> QED BY <1>2, <2>1, <3>1, <3>2
  <2> QED BY <2>2, <2>3
<1>3. Seq(K) \subseteq Q
  <2>1. \A s \in Seq(K), e \in K : s \in Q => Append(s, e) \in Q
    BY <1>2
  <2> HIDE DEF Q
  <2> QED BY <1>1, <2>1, SeqInductionOnSet
<1> QED BY <1>3

\* A filter sees the elements of a sequence only.
LEMMA FilterSame ==
  ASSUME NEW K, NEW S, NEW T
  PROVE  \A s \in Seq(K) :
           Elements(s) \cap S = Elements(s) \cap T => Filter(s, S) = Filter(s, T)
<1> DEFINE Q == {s \in Seq(K) :
                   Elements(s) \cap S = Elements(s) \cap T => Filter(s, S) = Filter(s, T)}
<1>1. <<>> \in Q
  BY FilterEmpty, ElementsOfEmpty
<1>2. ASSUME NEW s \in Seq(K), NEW e \in K, s \in Q PROVE Append(s, e) \in Q
  <2>1. /\ Append(s, e) \in Seq(K)
        /\ Elements(Append(s, e)) = Elements(s) \cup {e}
    BY ElementsOfAppend
  <2> SUFFICES ASSUME Elements(Append(s, e)) \cap S = Elements(Append(s, e)) \cap T
               PROVE  Filter(Append(s, e), S) = Filter(Append(s, e), T)
    BY <2>1
  <2>2. (Elements(s) \cup {e}) \cap S = (Elements(s) \cup {e}) \cap T
    BY <2>1
  <2>3. Elements(s) \cap S = Elements(s) \cap T /\ (e \in S <=> e \in T)
    BY <2>2
  <2>4. Filter(s, S) = Filter(s, T)
    BY <1>2, <2>3
  <2>5. Filter(Append(s, e), S) = IF e \in S THEN Append(Filter(s, S), e) ELSE Filter(s, S)
    BY FilterAppend
  <2>6. Filter(Append(s, e), T) = IF e \in T THEN Append(Filter(s, T), e) ELSE Filter(s, T)
    BY FilterAppend
  <2> QED BY <2>3, <2>4, <2>5, <2>6
<1>3. Seq(K) \subseteq Q
  <2>1. \A s \in Seq(K), e \in K : s \in Q => Append(s, e) \in Q
    BY <1>2
  <2> HIDE DEF Q
  <2> QED BY <1>1, <2>1, SeqInductionOnSet
<1> QED BY <1>3

\* If all are in the set, all are kept.
LEMMA FilterAll ==
  ASSUME NEW K, NEW S
  PROVE  \A s \in Seq(K) : Elements(s) \subseteq S => Filter(s, S) = s
<1> DEFINE Q == {s \in Seq(K) : Elements(s) \subseteq S => Filter(s, S) = s}
<1>1. <<>> \in Q
  BY FilterEmpty, ElementsOfEmpty
<1>2. ASSUME NEW s \in Seq(K), NEW e \in K, s \in Q PROVE Append(s, e) \in Q
  <2>1. /\ Append(s, e) \in Seq(K)
        /\ Elements(Append(s, e)) = Elements(s) \cup {e}
    BY ElementsOfAppend
  <2> SUFFICES ASSUME Elements(Append(s, e)) \subseteq S
               PROVE  Filter(Append(s, e), S) = Append(s, e)
    BY <2>1
  <2>2. Elements(s) \subseteq S /\ e \in S
    BY <2>1
  <2>3. Filter(s, S) = s
    BY <1>2, <2>2
  <2> QED BY <2>2, <2>3, FilterAppend
<1>3. Seq(K) \subseteq Q
  <2>1. \A s \in Seq(K), e \in K : s \in Q => Append(s, e) \in Q
    BY <1>2
  <2> HIDE DEF Q
  <2> QED BY <1>1, <2>1, SeqInductionOnSet
<1> QED BY <1>3

\* Two filters, one after the other, keep what is in both sets.
LEMMA FilterFilter ==
  ASSUME NEW K, NEW S, NEW T
  PROVE  \A s \in Seq(K) : Filter(Filter(s, S), T) = Filter(s, S \cap T)
<1> DEFINE Q == {s \in Seq(K) : Filter(Filter(s, S), T) = Filter(s, S \cap T)}
<1>1. <<>> \in Q
  BY FilterEmpty, ElementsOfEmpty
<1>2. ASSUME NEW s \in Seq(K), NEW e \in K, s \in Q PROVE Append(s, e) \in Q
  <2>1. Append(s, e) \in Seq(K)
    BY ElementsOfAppend
  <2>2. Filter(s, S) \in Seq(K)
    BY FilterElements
  <2>3. Filter(Filter(s, S), T) = Filter(s, S \cap T)
    BY <1>2
  <2>4. Filter(Append(s, e), S \cap T) =
          IF e \in S \cap T THEN Append(Filter(s, S \cap T), e) ELSE Filter(s, S \cap T)
    BY FilterAppend
  <2>5. Filter(Append(s, e), S) =
          IF e \in S THEN Append(Filter(s, S), e) ELSE Filter(s, S)
    BY FilterAppend
  <2>6. Filter(Append(Filter(s, S), e), T) =
          IF e \in T THEN Append(Filter(Filter(s, S), T), e) ELSE Filter(Filter(s, S), T)
    BY <2>2, FilterAppend
  <2>7. Filter(Filter(Append(s, e), S), T) = Filter(Append(s, e), S \cap T)
    <3>1. CASE e \in S
      <4>1. Filter(Append(s, e), S) = Append(Filter(s, S), e)
        BY <2>5, <3>1
      <4>2. e \in S \cap T <=> e \in T
        BY <3>1
      <4> QED BY <2>3, <2>4, <2>6, <4>1, <4>2
    <3>2. CASE e \notin S
      BY <2>3, <2>4, <2>5, <3>2
    <3> QED BY <3>1, <3>2
  <2> QED BY <2>1, <2>7
<1>3. Seq(K) \subseteq Q
  <2>1. \A s \in Seq(K), e \in K : s \in Q => Append(s, e) \in Q
    BY <1>2
  <2> HIDE DEF Q
  <2> QED BY <1>1, <2>1, SeqInductionOnSet
<1> QED BY <1>3

\* An order: R holds of any two elements, in the order they have.
InOrder(s, R) == \A i, j \in DOMAIN s : i < j => <<s[i], s[j]>> \in R

LEMMA InOrderOfAppend ==
  ASSUME NEW K, NEW s \in Seq(K), NEW e \in K, NEW R
  PROVE  InOrder(Append(s, e), R) <=> /\ InOrder(s, R)
                                      /\ \A d \in Elements(s) : <<d, e>> \in R
<1> DEFINE t == Append(s, e)
<1>1. /\ Len(t) = Len(s) + 1 /\ t[Len(s) + 1] = e /\ Len(s) \in Nat
      /\ \A i \in 1 .. Len(s) : t[i] = s[i]
      /\ DOMAIN t = 1 .. Len(s) + 1 /\ DOMAIN s = 1 .. Len(s)
  BY AppendProperties
<1> HIDE DEF t
<1>2. ASSUME InOrder(t, R) PROVE InOrder(s, R) /\ \A d \in Elements(s) : <<d, e>> \in R
  <2>1. InOrder(s, R)
    BY <1>1, <1>2 DEF InOrder
  <2>2. ASSUME NEW i \in DOMAIN s PROVE <<s[i], e>> \in R
    <3>1. i \in DOMAIN t /\ Len(s) + 1 \in DOMAIN t /\ i < Len(s) + 1 /\ t[i] = s[i]
      BY <1>1
    <3> QED BY <1>1, <1>2, <3>1 DEF InOrder
  <2> QED BY <2>1, <2>2 DEF Elements
<1>3. ASSUME InOrder(s, R), \A d \in Elements(s) : <<d, e>> \in R PROVE InOrder(t, R)
  <2> SUFFICES ASSUME NEW i \in DOMAIN t, NEW j \in DOMAIN t, i < j
               PROVE  <<t[i], t[j]>> \in R
    BY DEF InOrder
  <2>1. i \in DOMAIN s /\ t[i] = s[i]
    BY <1>1
  <2>2. CASE j = Len(s) + 1
    <3>1. s[i] \in Elements(s)
      BY <2>1 DEF Elements
    <3> QED BY <1>1, <1>3, <2>1, <2>2, <3>1
  <2>3. CASE j # Len(s) + 1
    <3>1. j \in DOMAIN s /\ t[j] = s[j]
      BY <1>1, <2>3
    <3> QED BY <1>3, <2>1, <3>1 DEF InOrder
  <2> QED BY <2>2, <2>3
<1>4. InOrder(t, R) <=> InOrder(s, R) /\ \A d \in Elements(s) : <<d, e>> \in R
  BY <1>2, <1>3
<1> QED BY <1>4 DEF t

\* What is kept keeps its order.
LEMMA FilterInOrder ==
  ASSUME NEW K, NEW S, NEW R
  PROVE  \A s \in Seq(K) : InOrder(s, R) => InOrder(Filter(s, S), R)
<1> DEFINE Q == {s \in Seq(K) : InOrder(s, R) => InOrder(Filter(s, S), R)}
<1>1. <<>> \in Q
  BY FilterEmpty, ElementsOfEmpty
<1>2. ASSUME NEW s \in Seq(K), NEW e \in K, s \in Q PROVE Append(s, e) \in Q
  <2>1. Append(s, e) \in Seq(K)
    BY ElementsOfAppend
  <2> SUFFICES ASSUME InOrder(Append(s, e), R)
               PROVE  InOrder(Filter(Append(s, e), S), R)
    BY <2>1
  <2>2. InOrder(s, R) /\ \A d \in Elements(s) : <<d, e>> \in R
    BY InOrderOfAppend
  <2>3. InOrder(Filter(s, S), R)
    BY <1>2, <2>2
  <2>4. /\ Filter(s, S) \in Seq(K)
        /\ \A d \in Elements(Filter(s, S)) : <<d, e>> \in R
    <3>1. Filter(s, S) \in Seq(K) /\ Elements(Filter(s, S)) = Elements(s) \cap S
      BY FilterElements
    <3> QED BY <2>2, <3>1
  <2>5. InOrder(Append(Filter(s, S), e), R)
    BY <2>3, <2>4, InOrderOfAppend
  <2> QED BY <2>3, <2>5, FilterAppend
<1>3. Seq(K) \subseteq Q
  <2>1. \A s \in Seq(K), e \in K : s \in Q => Append(s, e) \in Q
    BY <1>2
  <2> HIDE DEF Q
  <2> QED BY <1>1, <2>1, SeqInductionOnSet
<1> QED BY <1>3

\* What is kept of a list is no longer than the list, and shorter if something
\* is left out.
LEMMA FilterLen ==
  ASSUME NEW K, NEW S
  PROVE  \A s \in Seq(K) : /\ Len(Filter(s, S)) <= Len(s)
                           /\ Elements(s) \subseteq S \/ Len(Filter(s, S)) < Len(s)
<1> DEFINE Q == {s \in Seq(K) :
                   /\ Len(Filter(s, S)) <= Len(s)
                   /\ Elements(s) \subseteq S \/ Len(Filter(s, S)) < Len(s)}
<1>1. <<>> \in Q
  BY FilterEmpty, ElementsOfEmpty
<1>2. ASSUME NEW s \in Seq(K), NEW e \in K, s \in Q PROVE Append(s, e) \in Q
  <2>1. /\ Append(s, e) \in Seq(K) /\ Len(Append(s, e)) = Len(s) + 1 /\ Len(s) \in Nat
        /\ Elements(Append(s, e)) = Elements(s) \cup {e}
    BY ElementsOfAppend
  <2>2. Filter(Append(s, e), S) = IF e \in S THEN Append(Filter(s, S), e) ELSE Filter(s, S)
    BY FilterAppend
  <2>3. Filter(s, S) \in Seq(K)
    BY FilterElements
  <2>4. Len(Filter(s, S)) \in Nat /\ Len(Append(Filter(s, S), e)) = Len(Filter(s, S)) + 1
    BY <2>3
  <2>5. Len(Filter(s, S)) <= Len(s) /\ (Elements(s) \subseteq S \/ Len(Filter(s, S)) < Len(s))
    BY <1>2
  <2> QED BY <2>1, <2>2, <2>4, <2>5
<1>3. Seq(K) \subseteq Q
  <2>1. \A s \in Seq(K), e \in K : s \in Q => Append(s, e) \in Q
    BY <1>2
  <2> HIDE DEF Q
  <2> QED BY <1>1, <2>1, SeqInductionOnSet
<1> QED BY <1>3

----------------------------------------------------------------------------
(* Bisection.                                                              *)

Halves(b, A, lo, hi) ==
  IF lo >= hi THEN lo
  ELSE IF (lo + hi) \div 2 \in A THEN b[<<(lo + hi) \div 2 + 1, hi>>]
  ELSE b[<<lo, (lo + hi) \div 2>>]

LEMMA Middle ==
  ASSUME NEW lo \in Nat, NEW hi \in Nat, lo < hi
  PROVE  /\ (lo + hi) \div 2 \in lo .. hi - 1
         /\ hi - ((lo + hi) \div 2 + 1) < hi - lo
         /\ (lo + hi) \div 2 - lo < hi - lo
  OBVIOUS

\* There is a function that halves, by induction on the length of the range.
LEMMA HalvingExists ==
  ASSUME NEW L \in Nat, NEW A
  PROVE  \E b : b = [r \in (0 .. L) \X (0 .. L) |-> Halves(b, A, r[1], r[2])]
<1> DEFINE Upto(m) == \E b : /\ b = [r \in (0 .. L) \X (0 .. L) |-> b[r]]
                             /\ \A lo, hi \in 0 .. L :
                                  hi - lo <= m => b[<<lo, hi>>] = Halves(b, A, lo, hi)
           G == {m \in Nat : Upto(m)}
<1>1. 0 \in G
  <2> DEFINE b == [r \in (0 .. L) \X (0 .. L) |-> r[1]]
  <2>1. b = [r \in (0 .. L) \X (0 .. L) |-> b[r]]
    OBVIOUS
  <2>2. ASSUME NEW lo \in 0 .. L, NEW hi \in 0 .. L, hi - lo <= 0
        PROVE  b[<<lo, hi>>] = Halves(b, A, lo, hi)
    BY <2>2 DEF Halves
  <2> QED BY <2>1, <2>2
<1>2. ASSUME NEW m \in Nat, m \in G PROVE m + 1 \in G
  <2>1. PICK b : /\ b = [r \in (0 .. L) \X (0 .. L) |-> b[r]]
                 /\ \A lo, hi \in 0 .. L :
                      hi - lo <= m => b[<<lo, hi>>] = Halves(b, A, lo, hi)
    BY <1>2
  <2> DEFINE c == [r \in (0 .. L) \X (0 .. L) |->
                     IF r[2] - r[1] = m + 1 THEN Halves(b, A, r[1], r[2]) ELSE b[r]]
  <2>2. \A lo, hi \in 0 .. L :
          c[<<lo, hi>>] = IF hi - lo = m + 1 THEN Halves(b, A, lo, hi) ELSE b[<<lo, hi>>]
    OBVIOUS
  <2>3. c = [r \in (0 .. L) \X (0 .. L) |-> c[r]]
    OBVIOUS
  <2> HIDE DEF c
  <2>4. ASSUME NEW lo \in 0 .. L, NEW hi \in 0 .. L, hi - lo <= m + 1
        PROVE  c[<<lo, hi>>] = Halves(c, A, lo, hi)
    <3>1. c[<<lo, hi>>] = Halves(b, A, lo, hi)
      <4>1. CASE hi - lo = m + 1
        BY <2>2, <4>1
      <4>2. CASE hi - lo # m + 1
        <5>1. hi - lo <= m
          BY <2>4, <4>2
        <5> QED BY <2>1, <2>2, <4>2, <5>1
      <4> QED BY <4>1, <4>2
    <3>2. Halves(b, A, lo, hi) = Halves(c, A, lo, hi)
      <4>1. CASE lo >= hi
        BY <4>1 DEF Halves
      <4>2. CASE lo < hi
        <5> DEFINE mid == (lo + hi) \div 2
        <5>1. mid \in lo .. hi - 1 /\ hi - (mid + 1) < hi - lo /\ mid - lo < hi - lo
          BY <4>2, Middle
        <5> HIDE DEF mid
        <5>2. /\ mid + 1 \in 0 .. L /\ mid \in 0 .. L
              /\ hi - (mid + 1) # m + 1 /\ mid - lo # m + 1
          BY <2>4, <5>1
        <5>3. c[<<mid + 1, hi>>] = b[<<mid + 1, hi>>] /\ c[<<lo, mid>>] = b[<<lo, mid>>]
          BY <2>2, <5>2
        <5> QED BY <4>2, <5>3 DEF Halves, mid
      <4> QED BY <4>1, <4>2
    <3> QED BY <3>1, <3>2
  <2>5. Upto(m + 1)
    BY <2>3, <2>4
  <2> HIDE DEF Upto
  <2> QED BY <2>5
<1>3. L \in G
  <2>1. \A m \in Nat : m \in G => m + 1 \in G
    BY <1>2
  <2> HIDE DEF G
  <2> QED BY <1>1, <2>1, NatInductionOnSet
<1>4. PICK b : /\ b = [r \in (0 .. L) \X (0 .. L) |-> b[r]]
               /\ \A lo, hi \in 0 .. L : hi - lo <= L => b[<<lo, hi>>] = Halves(b, A, lo, hi)
  BY <1>3
<1>5. \A lo, hi \in 0 .. L : b[<<lo, hi>>] = Halves(b, A, lo, hi)
  <2>1. \A lo, hi \in 0 .. L : hi - lo <= L
    OBVIOUS
  <2> QED BY <1>4, <2>1
<1>6. [r \in (0 .. L) \X (0 .. L) |-> b[r]] =
        [r \in (0 .. L) \X (0 .. L) |-> Halves(b, A, r[1], r[2])]
  BY <1>5
<1> QED BY <1>4, <1>6

\* It ends within its range; and if A is a lower part of the range, at its end.
Halving(b, A, L) ==
  \A lo, hi \in 0 .. L : b[<<lo, hi>>] = Halves(b, A, lo, hi)

LowerPart(A, lo, hi) == \A i, j \in lo .. hi - 1 : i <= j /\ j \in A => i \in A

LEMMA HalvingFinds ==
  ASSUME NEW L \in Nat, NEW A, NEW b, Halving(b, A, L)
  PROVE  \A lo, hi \in 0 .. L : lo <= hi =>
           /\ b[<<lo, hi>>] \in lo .. hi
           /\ LowerPart(A, lo, hi) => \A i \in lo .. hi - 1 : i < b[<<lo, hi>>] <=> i \in A
<1> DEFINE Finds(lo, hi) ==
             /\ b[<<lo, hi>>] \in lo .. hi
             /\ LowerPart(A, lo, hi) => \A i \in lo .. hi - 1 : i < b[<<lo, hi>>] <=> i \in A
           G == {m \in Nat : \A lo, hi \in 0 .. L :
                               lo <= hi /\ hi - lo <= m => Finds(lo, hi)}
<1>1. 0 \in G
  <2> SUFFICES ASSUME NEW lo \in 0 .. L, NEW hi \in 0 .. L, lo <= hi, hi - lo <= 0
               PROVE  Finds(lo, hi)
    OBVIOUS
  <2>1. lo = hi
    OBVIOUS
  <2>2. b[<<lo, hi>>] = Halves(b, A, lo, hi)
    BY DEF Halving
  <2> QED BY <2>1, <2>2 DEF Halves
<1>2. ASSUME NEW m \in Nat, m \in G PROVE m + 1 \in G
  <2> SUFFICES ASSUME NEW lo \in 0 .. L, NEW hi \in 0 .. L, lo <= hi, hi - lo <= m + 1
               PROVE  Finds(lo, hi)
    OBVIOUS
  <2>1. CASE lo = hi
    <3>1. b[<<lo, hi>>] = lo
      BY <2>1 DEF Halving, Halves
    <3> QED BY <2>1, <3>1
  <2>2. CASE lo < hi
    <3> DEFINE mid == (lo + hi) \div 2
    <3>1. mid \in lo .. hi - 1 /\ hi - (mid + 1) < hi - lo /\ mid - lo < hi - lo
      BY <2>2, Middle
    <3>2. b[<<lo, hi>>] = IF mid \in A THEN b[<<mid + 1, hi>>] ELSE b[<<lo, mid>>]
      BY <2>2 DEF Halving, Halves
    <3> HIDE DEF mid
    <3>3. mid + 1 \in 0 .. L /\ mid \in 0 .. L /\ mid \in Nat
      BY <3>1
    <3>4. Finds(mid + 1, hi) /\ Finds(lo, mid)
      <4>1. /\ mid + 1 <= hi /\ hi - (mid + 1) <= m
            /\ lo <= mid /\ mid - lo <= m
        BY <3>1
      <4> HIDE DEF Finds
      <4> QED BY <1>2, <3>3, <4>1
    <3>5. CASE mid \in A
      <4>1. b[<<lo, hi>>] = b[<<mid + 1, hi>>] /\ b[<<lo, hi>>] \in mid + 1 .. hi
        BY <3>2, <3>4, <3>5
      <4>2. ASSUME LowerPart(A, lo, hi), NEW i \in lo .. hi - 1
            PROVE  i < b[<<lo, hi>>] <=> i \in A
        <5>1. LowerPart(A, mid + 1, hi)
          BY <3>1, <4>2 DEF LowerPart
        <5>2. CASE i <= mid
          BY <3>1, <3>5, <4>1, <4>2, <5>2 DEF LowerPart
        <5>3. CASE i > mid
          <6>1. i \in mid + 1 .. hi - 1
            BY <3>1, <5>3
          <6> QED BY <3>4, <4>1, <5>1, <6>1
        <5> QED BY <3>1, <5>2, <5>3
      <4> QED BY <3>1, <4>1, <4>2
    <3>6. CASE mid \notin A
      <4>1. b[<<lo, hi>>] = b[<<lo, mid>>] /\ b[<<lo, hi>>] \in lo .. mid
        BY <3>2, <3>4, <3>6
      <4>2. ASSUME LowerPart(A, lo, hi), NEW i \in lo .. hi - 1
            PROVE  i < b[<<lo, hi>>] <=> i \in A
        <5>1. LowerPart(A, lo, mid)
          BY <3>1, <4>2 DEF LowerPart
        <5>2. CASE ~ (i < mid)
          BY <3>1, <3>6, <4>1, <4>2, <5>2 DEF LowerPart
        <5>3. CASE i < mid
          <6>1. i \in lo .. mid - 1
            BY <3>1, <5>3
          <6> QED BY <3>4, <4>1, <5>1, <6>1
        <5> QED BY <5>2, <5>3
      <4>3. b[<<lo, hi>>] \in lo .. hi
        BY <3>1, <4>1
      <4> QED BY <4>2, <4>3
    <3> QED BY <3>5, <3>6
  <2> QED BY <2>1, <2>2
<1>3. L \in G
  <2>1. \A m \in Nat : m \in G => m + 1 \in G
    BY <1>2
  <2> HIDE DEF G
  <2> QED BY <1>1, <2>1, NatInductionOnSet
<1> QED
  <2>1. \A lo, hi \in 0 .. L : lo <= hi /\ hi - lo <= L => Finds(lo, hi)
    <3> HIDE DEF Finds
    <3> QED BY <1>3
  <2>2. \A lo, hi \in 0 .. L : hi - lo <= L
    OBVIOUS
  <2> QED BY <2>1, <2>2

\* What a bisection finds in a list whose elements increase.
Increasing(s) == \A i, j \in DOMAIN s : i < j => s[i] < s[j]

LEMMA BisectFinds ==
  ASSUME NEW A, NEW from \in Nat, NEW to \in Nat, from <= to
  PROVE  /\ Bisect(A, from, to) \in from .. to
         /\ LowerPart(A, from, to) =>
              \A i \in from .. to - 1 : i < Bisect(A, from, to) <=> i \in A
<1> DEFINE b == CHOOSE b : b = [r \in (0 .. to) \X (0 .. to) |-> Halves(b, A, r[1], r[2])]
<1>1. b = [r \in (0 .. to) \X (0 .. to) |-> Halves(b, A, r[1], r[2])]
  BY HalvingExists
<1>2. Bisect(A, from, to) = b[<<from, to>>]
  BY DEF Bisect, Halves
<1> HIDE DEF b
<1>3. Halving(b, A, to)
  BY <1>1 DEF Halving
<1>4. from \in 0 .. to /\ to \in 0 .. to
  OBVIOUS
<1>5. /\ b[<<from, to>>] \in from .. to
      /\ LowerPart(A, from, to) => \A i \in from .. to - 1 : i < b[<<from, to>>] <=> i \in A
  <2>1. \A lo, hi \in 0 .. to : lo <= hi =>
          /\ b[<<lo, hi>>] \in lo .. hi
          /\ LowerPart(A, lo, hi) => \A i \in lo .. hi - 1 : i < b[<<lo, hi>>] <=> i \in A
    BY <1>3, HalvingFinds
  <2> QED BY <1>4, <2>1
<1> QED BY <1>2, <1>5

LEMMA BisectLeftFinds ==
  ASSUME NEW s \in Seq(Int), NEW v \in Int
  PROVE  /\ bisect_left(s, v) \in 0 .. Len(s)
         /\ Increasing(s) =>
              \A i \in 1 .. Len(s) : i <= bisect_left(s, v) <=> s[i] < v
<1> DEFINE A == {i \in 0 .. Len(s) - 1 : At(s, i) < v}
           b == bisect_left(s, v)
<1>1. b = Bisect(A, 0, Len(s)) /\ Len(s) \in Nat
  BY DEF bisect_left
<1> HIDE DEF b
<1>2. b \in 0 .. Len(s)
  BY <1>1, BisectFinds
<1>3. ASSUME Increasing(s), NEW i \in 1 .. Len(s) PROVE i <= b <=> s[i] < v
  <2>1. \A j \in 0 .. Len(s) - 1 : j \in A <=> s[j + 1] < v
    BY DEF At
  <2>2. LowerPart(A, 0, Len(s))
    <3> SUFFICES ASSUME NEW k \in 0 .. Len(s) - 1, NEW j \in 0 .. Len(s) - 1,
                        k <= j, j \in A
                 PROVE  k \in A
      BY DEF LowerPart
    <3>1. s[j + 1] < v
      BY <2>1
    <3>2. k + 1 \in DOMAIN s /\ j + 1 \in DOMAIN s /\ s[k + 1] \in Int /\ s[j + 1] \in Int
      OBVIOUS
    <3>3. s[k + 1] <= s[j + 1]
      BY <1>3, <3>2 DEF Increasing
    <3>4. s[k + 1] < v
      BY <3>1, <3>2, <3>3
    <3> HIDE DEF A
    <3> QED BY <2>1, <3>4
  <2>3. i - 1 \in 0 .. Len(s) - 1 /\ (i - 1) + 1 = i
    BY <1>1
  <2> HIDE DEF A
  <2>4. i - 1 < b <=> i - 1 \in A
    BY <1>1, <2>2, <2>3, BisectFinds
  <2>5. i - 1 < b <=> i <= b
    BY <1>2
  <2> QED BY <2>1, <2>3, <2>4, <2>5
<1> QED BY <1>2, <1>3 DEF b

LEMMA BisectRightFinds ==
  ASSUME NEW s \in Seq(Int), NEW v \in Int, NEW from \in 0 .. Len(s)
  PROVE  /\ bisect_right(s, v, from) \in from .. Len(s)
         /\ Increasing(s) =>
              \A i \in from + 1 .. Len(s) : i <= bisect_right(s, v, from) <=> s[i] <= v
<1> DEFINE A == {i \in 0 .. Len(s) - 1 : At(s, i) <= v}
           b == bisect_right(s, v, from)
<1>1. b = Bisect(A, from, Len(s)) /\ Len(s) \in Nat /\ from \in Nat /\ from <= Len(s)
  BY DEF bisect_right
<1> HIDE DEF b
<1>2. b \in from .. Len(s)
  BY <1>1, BisectFinds
<1>3. ASSUME Increasing(s), NEW i \in from + 1 .. Len(s) PROVE i <= b <=> s[i] <= v
  <2>1. \A j \in 0 .. Len(s) - 1 : j \in A <=> s[j + 1] <= v
    BY DEF At
  <2>2. LowerPart(A, from, Len(s))
    <3> SUFFICES ASSUME NEW k \in from .. Len(s) - 1, NEW j \in from .. Len(s) - 1,
                        k <= j, j \in A
                 PROVE  k \in A
      BY DEF LowerPart
    <3>1. s[j + 1] <= v
      BY <2>1
    <3>2. k + 1 \in DOMAIN s /\ j + 1 \in DOMAIN s /\ s[k + 1] \in Int /\ s[j + 1] \in Int
      OBVIOUS
    <3>3. s[k + 1] <= s[j + 1]
      BY <1>3, <3>2 DEF Increasing
    <3>4. s[k + 1] <= v
      BY <3>1, <3>2, <3>3
    <3> HIDE DEF A
    <3> QED BY <2>1, <3>4
  <2>3. i - 1 \in 0 .. Len(s) - 1 /\ i - 1 \in from .. Len(s) - 1 /\ (i - 1) + 1 = i
    BY <1>1
  <2> HIDE DEF A
  <2>4. i - 1 < b <=> i - 1 \in A
    BY <1>1, <2>2, <2>3, BisectFinds
  <2>5. i - 1 < b <=> i <= b
    BY <1>1, <1>2
  <2> QED BY <2>1, <2>3, <2>4, <2>5
<1> QED BY <1>2, <1>3 DEF b

\* The elements from one position to another.
LEMMA ElementsOfSubSeq ==
  ASSUME NEW K, NEW s \in Seq(K), NEW m \in Int, NEW n \in Int, 1 <= m, n <= Len(s)
  PROVE  /\ SubSeq(s, m, n) \in Seq(K)
         /\ Elements(SubSeq(s, m, n)) = {s[i] : i \in m .. n}
<1>1. \A i \in m .. n : s[i] \in K
  OBVIOUS
<1>2. /\ SubSeq(s, m, n) \in Seq(K)
      /\ Len(SubSeq(s, m, n)) = IF m <= n THEN n - m + 1 ELSE 0
      /\ \A i \in 1 .. n - m + 1 : SubSeq(s, m, n)[i] = s[m + i - 1]
  BY <1>1, SubSeqProperties
<1> DEFINE t == SubSeq(s, m, n)
<1>3. DOMAIN t = 1 .. n - m + 1
  BY <1>2
<1> HIDE DEF t
<1>4. \A i \in DOMAIN t : t[i] \in {s[j] : j \in m .. n}
  <2> SUFFICES ASSUME NEW i \in DOMAIN t PROVE t[i] \in {s[j] : j \in m .. n}
    OBVIOUS
  <2>1. m + i - 1 \in m .. n /\ t[i] = s[m + i - 1]
    BY <1>2, <1>3 DEF t
  <2> QED BY <2>1
<1>5. \A j \in m .. n : \E i \in DOMAIN t : t[i] = s[j]
  <2> SUFFICES ASSUME NEW j \in m .. n PROVE \E i \in DOMAIN t : t[i] = s[j]
    OBVIOUS
  <2>1. j - m + 1 \in DOMAIN t /\ m + (j - m + 1) - 1 = j
    BY <1>3
  <2>2. t[j - m + 1] = s[j]
    BY <1>2, <1>3, <2>1 DEF t
  <2> QED BY <2>1, <2>2
<1>6. Elements(t) = {s[i] : i \in m .. n}
  BY <1>4, <1>5 DEF Elements
<1> QED BY <1>2, <1>6 DEF t

\* A list that increases still does when a higher element is appended to it,
\* or when some are left out.
LEMMA AppendIncreasing ==
  ASSUME NEW s \in Seq(Int), NEW e \in Int, Increasing(s), \A d \in Elements(s) : d < e
  PROVE  Increasing(Append(s, e))
<1> DEFINE R == {p \in Int \X Int : p[1] < p[2]}
<1>1. \A d \in Elements(s) : <<d, e>> \in R
  BY ElementsAreInK
<1>2. InOrder(s, R)
  BY DEF InOrder, Increasing
<1>3. InOrder(Append(s, e), R)
  <2> HIDE DEF R
  <2> QED BY <1>1, <1>2, InOrderOfAppend
<1> QED BY <1>3 DEF InOrder, Increasing

LEMMA FilterIncreasing ==
  ASSUME NEW s \in Seq(Int), NEW S, Increasing(s)
  PROVE  Increasing(Filter(s, S))
<1> DEFINE R == {p \in Int \X Int : p[1] < p[2]}
<1>1. InOrder(s, R)
  BY DEF InOrder, Increasing
<1>2. InOrder(Filter(s, S), R)
  <2> HIDE DEF R
  <2> QED BY <1>1, FilterInOrder
<1> QED BY <1>2 DEF InOrder, Increasing

=============================================================================
