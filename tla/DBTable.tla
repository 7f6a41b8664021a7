------------------------------ MODULE DBTable ------------------------------
(***************************************************************************)
(* A table of the database: classes DBTable, DBIndexFarm and DBIndex       *)
(* (steamlink/db.py), as operators from an old table to a new one.         *)
(*                                                                         *)
(* A record is its key.  `docs` are the keys in the order of the TinyDB    *)
(* table, which is the order of insertion.  `idx` holds the indexes that   *)
(* searches have asked for so far, one for each restriction; an index is   *)
(* an OrderedDict, that is, again in order of insertion, and get_range     *)
(* bisects it as if that were the order of the keys.                       *)
(***************************************************************************)
EXTENDS Lists, SequencesExt

CONSTANTS
  Keys,      \* the keys of records, numbers
  Matching   \* the restrictions searches use, and the keys that satisfy each

Restrictions == DOMAIN Matching

ASSUME DBTableAssumption ==
  /\ Keys \subseteq Nat \ {0}
  /\ Matching \in [Restrictions -> SUBSET Keys]

None == 0   \* no key

EmptyTable == [docs |-> <<>>, idx |-> [r \in {} |-> <<>>]]

IsTable(t) ==
  /\ t.docs \in Seq(Keys)
  /\ DOMAIN t.idx \subseteq Restrictions
  /\ \A r \in DOMAIN t.idx : t.idx[r] \in Seq(Keys)

check_restrictions(r, k) == k \in Matching[r]

\* DBIndex.__init__: the records that satisfy r, in the table's order.
DBIndex(t, r) == Filter(t.docs, {k \in Keys : check_restrictions(r, k)})

\* DBIndexFarm.get_idx: an index is built when it is first asked for.
get_idx(t, r) ==
  IF r \in DOMAIN t.idx THEN t
  ELSE [t EXCEPT !.idx = [q \in DOMAIN t.idx \cup {r} |->
                            IF q = r THEN DBIndex(t, r) ELSE t.idx[q]]]

has(t, k) == k \in Elements(t.docs)

\* Mutation: an index takes every record.
insert_everywhere(t, k) ==
  IF has(t, k) THEN t
  ELSE [docs |-> Append(t.docs, k),
        idx  |-> [r \in DOMAIN t.idx |-> Append(t.idx[r], k)]]

\* A record whose key is in the table already is refused.
db_insert(t, k) ==
  IF has(t, k) THEN t
  ELSE [docs |-> Append(t.docs, k),
        idx  |-> [r \in DOMAIN t.idx |->
                    IF check_restrictions(r, k) THEN Append(t.idx[r], k)
                    ELSE t.idx[r]]]

Without(s, k) == Filter(s, Elements(s) \ {k})

\* Mutation: the indexes keep the record.
delete_from_table_only(t, k) == [t EXCEPT !.docs = Without(@, k)]

db_delete(t, k) ==
  [docs |-> Without(t.docs, k),
   idx  |-> [r \in DOMAIN t.idx |-> Without(t.idx[r], k)]]

----------------------------------------------------------------------------
(* Ranges.                                                                 *)

Least(i, j)    == IF i < j THEN i ELSE j
Greatest(i, j) == IF i > j THEN i ELSE j

\* Mutation: bisect_right where bisect_left is meant.
first_position_right(s, csk) ==
  IF csk.start # None THEN bisect_right(s, csk.start, 0)
  ELSE IF csk.item < 0 THEN Greatest(0, Len(s) + csk.item)
       ELSE Least(csk.item, Len(s) - 1)

(***************************************************************************)
(* A search asks for a start key, or for the item at a position, which     *)
(* counts from the end if it is negative; and for an end key, or for a     *)
(* number of records.                                                      *)
(***************************************************************************)
first_position(s, csk) ==
  IF csk.start # None THEN bisect_left(s, csk.start)
  ELSE IF csk.item < 0 THEN Greatest(0, Len(s) + csk.item)
       ELSE Least(csk.item, Len(s) - 1)

last_position(s, csk, sidx) ==
  IF csk.end = None THEN Least(sidx + csk.count - 1, Len(s) - 1)
  ELSE bisect_right(s, csk.end, sidx) - 1

NoRange == [found |-> FALSE, start |-> None, end |-> None, at_end |-> FALSE,
            keys |-> <<>>]

\* DBTable.get_range on the index s: the records, and what is noted in the key
\* of the search.
get_range(s, csk) ==
  LET sidx == first_position(s, csk)
      eidx == last_position(s, csk, sidx)
  IN  IF s = <<>> \/ sidx = Len(s) \/ eidx < 0 THEN NoRange
      ELSE [found |-> TRUE, start |-> At(s, sidx), end |-> At(s, eidx),
            at_end |-> At(s, eidx) = At(s, Len(s) - 1),
            keys |-> SubSeq(s, sidx + 1, eidx + 1)]

=============================================================================
