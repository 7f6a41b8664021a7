------------------------------- MODULE Lists -------------------------------
(***************************************************************************)
(* What the program does with lists and OrderedDicts: it keeps the         *)
(* elements that meet a condition, and searches a list by bisection.       *)
(*                                                                         *)
(* SelectSeq of the standard modules says the same as Filter, of a         *)
(* predicate in place of a set; Filter is a recursive function, about      *)
(* which TLAPS can reason (ListsProofs).                                   *)
(***************************************************************************)
EXTENDS Integers, Sequences

Elements(s) == {s[i] : i \in DOMAIN s}

\* The elements of s that are in S, in the order of s.
Filter(s, S) ==
  LET kept[n \in 0 .. Len(s)] ==
        IF n = 0 THEN <<>>
        ELSE IF s[n] \in S THEN Append(kept[n - 1], s[n])
        ELSE kept[n - 1]
  IN  kept[Len(s)]

\* Python counts positions from 0: list(s)[i].
At(s, i) == s[i + 1]

(***************************************************************************)
(* The functions of Python's bisect module: they halve a range of          *)
(* positions, and go on above the middle if the element there is in place  *)
(* (its position is in A), whether the list is in order or not.            *)
(***************************************************************************)
Bisect(A, from, to) ==
  LET b[r \in (0 .. to) \X (0 .. to)] ==
        LET lo == r[1]  hi == r[2]  mid == (lo + hi) \div 2
        IN  IF lo >= hi THEN lo
            ELSE IF mid \in A THEN b[<<mid + 1, hi>>] ELSE b[<<lo, mid>>]
  IN  b[<<from, to>>]

bisect_left(s, v) ==
  Bisect({i \in 0 .. Len(s) - 1 : At(s, i) < v}, 0, Len(s))

bisect_right(s, v, from) ==
  Bisect({i \in 0 .. Len(s) - 1 : At(s, i) <= v}, from, Len(s))

=============================================================================
