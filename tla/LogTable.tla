------------------------------ MODULE LogTable ------------------------------
(***************************************************************************)
(* The log table of the store: classes LogQ, DbBackedTable and OCache      *)
(* (steamlink/linkage.py) over one database table.                         *)
(*                                                                         *)
(* Lines of the log wait in a queue.  The task of LogQ takes them one by   *)
(* one, without giving way to another task until the queue is empty, and   *)
(* makes each a record, whose key is the time.  When the table has more    *)
(* than max_log_records, it schedules a task that prunes it.  That task    *)
(* walks through an index by position, and deletes from it as it goes.     *)
(*                                                                         *)
(* A table keeps the objects of the records it has read or written in a    *)
(* cache, which evicts the least recently used, except those that somebody *)
(* refers to: the items of the search that a browser looks at, and the     *)
(* line that the task of LogQ took last, which a local name of its keeps.  *)
(*                                                                         *)
(* One browser with one search is modelled here (Console has many, and the *)
(* updates they are sent).  Lines that are empty or that LogQ filters out  *)
(* never become records and are left out, as is the alert of the browser.  *)
(***************************************************************************)
EXTENDS DBTable, FiniteSets

CONSTANTS
  max_log_records,
  Extra,         \* records to prune beyond those that are too many: 10
  max_entries,   \* of OCache
  to_prune,      \* objects a clean evicts: max_entries / 10
  Shows,         \* what the browser may ask for, CSearchKeys
  MaxWaiting     \* lines in the queue

ASSUME LogTableAssumption ==
  /\ Restrictions # {} /\ \A r \in Restrictions : Matching[r] = Keys
  /\ max_log_records \in Nat /\ Extra \in Nat /\ 1 <= Extra /\ Extra <= max_log_records
  /\ max_entries \in Nat /\ to_prune \in Nat \ {0} /\ MaxWaiting \in Nat
  /\ \A csk \in Shows :
       /\ csk.restrict \in Restrictions
       /\ csk.start \in Keys \cup {None} /\ csk.end \in Keys \cup {None}
       /\ csk.item \in Int /\ csk.count \in Nat \ {0}

VARIABLES
  table,      \* the database table
  cache,      \* keys whose object is in the cache, least recently used first
  held,       \* keys whose object the browser's search refers to
  doubled,    \* of these, the keys that have another object in the cache
  garbage,    \* keys in the cache that dropped searches refer to: they and their
              \* items form cycles, which Python collects at some later time
  last,       \* the key of the object that the task of LogQ still refers to, its
              \* local logitem; None if there is none, or its record was deleted
  at_end,     \* the search follows the end of the table
  q,          \* number of lines in the queue
  draining,   \* the task of LogQ is running
  now,        \* the clock: the last key it gave, or a higher one
  prune_in_progress,
  scheduled,  \* the count of the prune that is to run, 0 if none is
  peak        \* the largest size the table had since the start

objects == <<cache, held, doubled, garbage, last, at_end>>
vars == <<table, objects, q, draining, now, prune_in_progress, scheduled, peak>>

Size(t) == Len(t.docs)
AnyRestriction == CHOOSE r \in Restrictions : TRUE

----------------------------------------------------------------------------
(* The cache and the objects, as operators on a record                     *)
(* [table, cache, held, doubled, garbage, last].                           *)

Now == [table |-> table, cache |-> cache, held |-> held, doubled |-> doubled,
        garbage |-> garbage, last |-> last]

Becomes(s) ==
  /\ table' = s.table /\ cache' = s.cache
  /\ held' = s.held /\ doubled' = s.doubled /\ garbage' = s.garbage
  /\ last' = s.last

Used(c, k) == Append(Without(c, k), k)

\* The objects that something besides the cache refers to.
Referenced(s) == (s.held \ s.doubled) \cup s.garbage \cup {s.last}

\* Mutation: the reference that is held while it is counted is counted in.
clean_any(c, referenced) ==
  LET gone == Elements(SubSeq(c, 1, Least(to_prune, Len(c) - 1)))
  IN  Filter(c, Elements(c) \ gone)

\* OCache.clean: the least recently used that nothing refers to, to_prune of
\* them if there are as many.
clean(c, referenced) ==
  LET free == Filter(c, Elements(c) \ referenced)
      gone == Elements(SubSeq(free, 1, Least(to_prune, Len(free))))
  IN  Filter(c, Elements(c) \ gone)

\* Mutation: a full cache takes one more.
cache_set_late(s, k) ==
  LET c == Used(s.cache, k)
  IN  IF Len(c) > max_entries + 1
      THEN [s EXCEPT !.cache = clean(c, Referenced(s) \cup {k})]
      ELSE [s EXCEPT !.cache = c]

\* OCache.__setitem__; the caller refers to the object it puts in.
cache_set(s, k) ==
  LET c == Used(s.cache, k)
  IN  IF Len(c) > max_entries
      THEN [s EXCEPT !.cache = clean(c, Referenced(s) \cup {k})]
      ELSE [s EXCEPT !.cache = c]

Cached(s, k) == k \in Elements(s.cache)

\* A new object for a key that a search has an object of: now there are two.
NewObject(s, k) ==
  cache_set([s EXCEPT !.doubled = @ \cup ({k} \cap s.held),
                      !.garbage = @ \ {k}], k)

\* DbBackedTable.make_item_from_dict.
make_item_from_dict(s, k) ==
  IF Cached(s, k) THEN [s EXCEPT !.cache = Used(@, k)] ELSE NewObject(s, k)

\* CSearch.add_item, for the object in the cache.
add_item(s, k) == [s EXCEPT !.held = @ \cup {k}, !.doubled = @ \ {k}]

\* Mutation: the record is deleted from the database only.
delete_keeps_cache(s, k) == [s EXCEPT !.table = db_delete(@, k)]

\* DbBackedTable.delete; a search keeps its item.
delete(s, k) == [s EXCEPT !.cache = Without(@, k), !.table = db_delete(@, k),
                          !.garbage = @ \ {k},
                          !.last = IF @ = k THEN None ELSE @]

\* DbBackedTable.register of a new LogItem: a record of the same time is taken
\* for its own, and loaded over the line; otherwise it is inserted, and a
\* search takes it in that is at the end of the table, or has an item of the same
\* time, whose record was deleted.
register(s, k) ==
  IF has(s.table, k) THEN NewObject(s, k)
  ELSE LET t == NewObject([s EXCEPT !.table = db_insert(@, k)], k)
       IN  IF at_end \/ k \in s.held THEN add_item(t, k) ELSE t

----------------------------------------------------------------------------
(* LogQ.                                                                   *)

\* The logging handler: write, awrite.
Write ==
  /\ ~draining /\ q < MaxWaiting
  /\ q' = q + 1
  /\ UNCHANGED <<table, objects, draining, now, prune_in_progress, scheduled, peak>>

\* The loop of LogQ.start is woken.  A prune that it scheduled earlier is
\* before it in the event loop.
Wake ==
  /\ ~draining /\ q > 0 /\ scheduled = 0
  /\ draining' = TRUE
  /\ UNCHANGED <<table, objects, q, now, prune_in_progress, scheduled, peak>>

\* Mutation: all records are too many.
count_all(n) == n + Extra

\* How many records to prune from a table of n.
prune_count(n) == n - max_log_records + Extra

\* One round of the loop: a line becomes a record, and logitem refers to it from
\* then on, no longer to the line before.  The clock may give the same time as
\* for that line.
TakeLine ==
  /\ draining
  /\ \E ts \in {now, now + 1} \cap Keys :
       /\ now' = ts
       /\ Becomes([register(Now, ts) EXCEPT !.last = ts])
  /\ LET n    == Size(table')
         over == n > max_log_records /\ ~prune_in_progress
     IN  /\ prune_in_progress' = (prune_in_progress \/ over)
         /\ scheduled' = IF over THEN prune_count(n) ELSE scheduled
         /\ peak' = Greatest(peak, n)
  /\ q' = q - 1 /\ draining' = (q' > 0)
  /\ UNCHANGED at_end

\* The records a prune has reached are deleted, each at the position that the
\* walk has come to in the index as it is by then; the walk fails when the index
\* has no such position any more.
Step(s, i) ==
  LET idx == s.table.idx[AnyRestriction]
      k   == At(idx, i)
  IN  IF s.failed \/ i >= Len(idx) THEN [s EXCEPT !.failed = TRUE]
      ELSE delete(make_item_from_dict(s, k), k)

\* Mutation: one record too few.
pruned_short(s, count) ==
  LET n == Least(count - 1, Len(s.table.idx[AnyRestriction]))
      walk[i \in 0 .. n] == IF i = 0 THEN s ELSE Step(walk[i - 1], i - 1)
  IN  walk[n]

\* prune_logitem_table up to its last record, or to the exception.
pruned(s, count) ==
  LET n == Least(count, Len(s.table.idx[AnyRestriction]))
      walk[i \in 0 .. n] == IF i = 0 THEN s ELSE Step(walk[i - 1], i - 1)
  IN  walk[n]

\* If the walk fails, nobody sees the exception, and prune_in_progress stays.
Prune ==
  /\ ~draining /\ scheduled > 0
  /\ LET indexed == get_idx(table, AnyRestriction)
         s == pruned([table |-> indexed, cache |-> cache, held |-> held,
                      doubled |-> doubled, garbage |-> garbage, last |-> last,
                      failed |-> FALSE],
                     scheduled)
     IN  Becomes(s) /\ prune_in_progress' = s.failed
  /\ scheduled' = 0
  /\ UNCHANGED <<at_end, q, draining, now, peak>>

----------------------------------------------------------------------------
(* The browser, and a restart.                                             *)

\* The search of the browser, if there is one, is dropped.
Dropped == [table |-> table, cache |-> cache, held |-> {}, doubled |-> {},
            garbage |-> garbage \cup (Elements(cache) \cap (held \ doubled)),
            last |-> last]

\* Python collects dropped searches, but for one whose item the loop that sends
\* the updates still refers to.
Collect ==
  /\ garbage' \in SUBSET garbage
  /\ UNCHANGED <<table, cache, held, doubled, last, at_end, q, draining, now,
                 prune_in_progress, scheduled, peak>>

Show(s, k) == add_item(make_item_from_dict(s, k), k)

\* CSearch.__init__: the search has an item for each record of its range.
shown(s, keys) ==
  LET with[i \in 0 .. Len(keys)] == IF i = 0 THEN s ELSE Show(with[i - 1], keys[i])
  IN  with[Len(keys)]

\* A new search, after the old one was dropped.
Look(csk) ==
  /\ ~draining
  /\ LET indexed == get_idx(table, csk.restrict)
         range   == get_range(indexed.idx[csk.restrict], csk)
     IN  /\ Becomes(shown([Dropped EXCEPT !.table = indexed], range.keys))
         /\ at_end' = range.at_end
  /\ UNCHANGED <<q, draining, now, prune_in_progress, scheduled, peak>>

\* The browser leaves.
LookAway ==
  /\ ~draining
  /\ Becomes(Dropped) /\ at_end' = FALSE
  /\ UNCHANGED <<q, draining, now, prune_in_progress, scheduled, peak>>

\* What a new process has, over a database with these records.
Started(docs) ==
  /\ table = [EmptyTable EXCEPT !.docs = docs]
  /\ cache = <<>> /\ held = {} /\ doubled = {} /\ garbage = {}
  /\ last = None /\ at_end = FALSE
  /\ q = 0 /\ draining = FALSE
  /\ prune_in_progress = FALSE /\ scheduled = 0
  /\ peak = Len(docs)

Init ==
  /\ Started(<<>>)
  /\ now = 0

\* Stop, flush and restart of the process.
Restart ==
  /\ ~draining
  /\ table' = [EmptyTable EXCEPT !.docs = table.docs]
  /\ cache' = <<>> /\ held' = {} /\ doubled' = {} /\ garbage' = {}
  /\ last' = None /\ at_end' = FALSE
  /\ q' = 0 /\ prune_in_progress' = FALSE /\ scheduled' = 0
  /\ peak' = Size(table)
  /\ UNCHANGED <<draining, now>>

Next ==
  \/ Write \/ Wake \/ TakeLine \/ Prune
  \/ \E csk \in Shows : Look(csk)
  \/ LookAway \/ Collect
  \/ Restart

Spec == Init /\ [][Next]_vars

----------------------------------------------------------------------------
(* What is checked.                                                        *)

\* The shape of the state: each record has at most one object in the cache, and
\* no object there is of a record that was deleted.
TypeOK ==
  /\ IsTable(table)
  /\ cache \in Seq(Elements(table.docs)) /\ IsInjective(cache)
  /\ held \subseteq Keys /\ doubled \subseteq held
  /\ garbage \subseteq Elements(cache) /\ last \in Elements(cache) \cup {None}
  /\ at_end \in BOOLEAN
  /\ q \in 0 .. MaxWaiting /\ draining \in BOOLEAN /\ now \in Keys \cup {0}
  /\ prune_in_progress \in BOOLEAN /\ scheduled \in Nat /\ peak \in Nat

(***************************************************************************)
(* The browser looks at the one object of each record: what it shows and   *)
(* is still in the table is in the cache, however many records came since  *)
(* (OCache.clean counts the references), so that a change made by way of   *)
(* the table is a change of what is shown.  Two lines of the same time are *)
(* the exception.                                                          *)
(***************************************************************************)
ShownIsCached ==
  held \cap Elements(table.docs) \subseteq Elements(cache) \cup doubled

(***************************************************************************)
(* The cache exceeds its limit by what is in use only: when it grows       *)
(* beyond max_entries, somebody refers to each object in it but the one    *)
(* that was put in last: a search, or the task of LogQ to the line it took *)
(* before (OCache.__setitem__, clean; LogQ.start).                         *)
(***************************************************************************)
CacheIsBounded ==
  [][ Len(cache') > max_entries /\ Len(cache') > Len(cache) =>
        Elements(Front(cache')) \subseteq (held' \ doubled') \cup garbage' \cup {last} ]_vars

(***************************************************************************)
(* The log table stops being pruned (prune_in_progress is set for good)    *)
(* only after it had 2 * (max_log_records - 10 + 1) records or more: a     *)
(* walk that deletes every other record comes to the end before its count  *)
(* is up only if the count is more than half the table                     *)
(* (LogQ.prune_logitem_table).                                             *)
(***************************************************************************)
Stuck == prune_in_progress /\ scheduled = 0

StuckOnlyIfLarge == Stuck => peak >= 2 * (max_log_records - Extra + 1)

(***************************************************************************)
(* A prune that does not fail brings the table below its limit, but for    *)
(* the lines that were in the queue with the one that scheduled it         *)
(* (LogQ.start computes the count before it takes these).                  *)
(***************************************************************************)
PruneRestoresLimit ==
  [][ Prune /\ ~prune_in_progress' =>
        Size(table') < max_log_records - Extra + MaxWaiting ]_vars

=============================================================================
