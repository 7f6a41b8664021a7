------------------------------ MODULE Console ------------------------------
(***************************************************************************)
(* The live searches of the web console: classes CSearch, CSearchItem and  *)
(* Table (steamlink/linkage.py), the handlers of WebNamespace and the      *)
(* update loop of WebApp (steamlink/web.py), over one database table.      *)
(*                                                                         *)
(* A browser asks for a range of records and from then on is told of each  *)
(* change in it.  All browsers that made the same request share a CSearch; *)
(* it keeps the range it found (start, end), a CSearchItem for each record *)
(* and the clients, and has a room of the socket server.  A change is put  *)
(* in a queue of updates, unless one of the same item is under way, or     *)
(* the item was shown less than minupdinterval ago: then a timer puts it   *)
(* there later.  One loop empties the queue: it takes the data as they are *)
(* at that moment, and awaits the socket server; other handlers run        *)
(* meanwhile.                                                              *)
(*                                                                         *)
(* What happens to the objects of a search that was dropped (an update in  *)
(* the queue, a timer) affects nobody's window and is left out.  Whether   *)
(* an item was shown too recently is left open.  A key is used once: no    *)
(* record is inserted again after it was deleted.  A record in memory and  *)
(* in the database satisfies the same restrictions, which is so for all    *)
(* but one on the op of a packet (the database has its code, the object    *)
(* its value).                                                             *)
(***************************************************************************)
EXTENDS DBTable, FiniteSets

CONSTANTS
  Sids,       \* sessions of browsers
  Ask,        \* the searches browsers ask for: the CSearchKey of each search_id
  MaxQueue,   \* length of the queue at which no handler but the loop runs
  MaxTimers,  \* number of timers that run at a time
  MaxLate,    \* how many records are inserted after one with a higher key
  MaxDeleted  \* how many records are deleted

Requests == DOMAIN Ask

ASSUME ConsoleAssumption ==
  /\ \A q \in Requests :
       /\ DOMAIN Ask[q] = {"restrict", "start", "end", "item", "count", "tag"}
       /\ Ask[q].restrict \in Restrictions /\ Ask[q].start \in Keys \cup {None}
       /\ Ask[q].end \in Keys \cup {None} /\ Ask[q].item \in Int /\ Ask[q].count \in Nat \ {0}
  /\ MaxQueue \in Nat /\ MaxTimers \in Nat /\ MaxLate \in Nat /\ MaxDeleted \in Nat

VARIABLES
  table,      \* the database table
  used,       \* keys of all records ever inserted
  late,       \* of these, how many came after one with a higher key
  searches,   \* csearches: for each request in use its CSearch
  rooms,      \* the rooms each browser is in
  queue,      \* con_upd_q: updates to be emitted
  emitting    \* the update the loop is emitting, or NoUpdate

db == <<table, used, late>>
vars == <<db, searches, rooms, queue, emitting>>

(***************************************************************************)
(* Of a CSearchItem: deleted, upd_in_progress, future_update; and, for the *)
(* properties only, what is to be shown: nothing ("shown"), a change since *)
(* the data were taken last ("due"), or one that was made while the item   *)
(* was being emitted, which push_update passes over ("raced").             *)
(***************************************************************************)
Item == [deleted : BOOLEAN, busy : BOOLEAN, future : BOOLEAN,
         news : {"shown", "due", "raced"}]

NewItem(news) == [deleted |-> FALSE, busy |-> FALSE, future |-> FALSE, news |-> news]

Updates == [of : Requests, keys : Seq(Keys)]

NoUpdate == [of |-> "nothing", keys |-> <<>>]

InUse == DOMAIN searches

\* An update of item k of search s is in the queue, or under way.
Pending(s, k) ==
  \E i \in DOMAIN queue : queue[i].of = s /\ k \in Elements(queue[i].keys)
Emitting(s, k) == emitting.of = s /\ k \in Elements(emitting.keys)

Room == Len(queue) < MaxQueue

\* The timers that run.
Timers == UNION {{<<s, k>> : k \in {k \in DOMAIN searches[s].items :
                                      searches[s].items[k].future}} : s \in InUse}

\* The updates one handler queues are of different rooms, so that their order
\* (which is the age of the searches) makes no difference to any browser.
InSomeOrder(updates) == SetToSeq(updates)

----------------------------------------------------------------------------
(* Opening and leaving.                                                    *)

\* CSearch.__init__ on the index of the table: no change is due.
CSearch(s, q) ==
  LET range == get_range(s, Ask[q])
  IN  [start |-> range.start, end |-> range.end, at_end |-> range.at_end,
       clients |-> {}, order |-> range.keys,
       items |-> [k \in Elements(range.keys) |-> NewItem("shown")]]

SearchesOf(sid) == {s \in InUse : sid \in searches[s].clients}

\* The searches that remain when sid leaves those in S.
Leaving(sid, S) ==
  [s \in {s \in InUse : s \notin S \/ searches[s].clients # {sid}} |->
     IF s \in S THEN [searches[s] EXCEPT !.clients = @ \ {sid}] ELSE searches[s]]

\* The updates of these searches, in the queue and under way.
QueueOf(S)    == Filter(queue, {u \in Elements(queue) : u.of \in S})
EmittingOf(S) == IF emitting.of \in S THEN emitting ELSE NoUpdate

\* Mutation: only the first client of a search enters its room.
EnterRoomOfNew(sid, q) ==
  rooms' = IF q \in InUse THEN rooms ELSE [rooms EXCEPT ![sid] = @ \cup {q}]

\* CSearch.add_sid, a room of the socket server.
EnterRoom(sid, q) == rooms' = [rooms EXCEPT ![sid] = @ \cup {q}]

(***************************************************************************)
(* on_startstream, add_csearch: the browser leaves the searches with the   *)
(* same stream tag, but not their rooms; joins the search for its request, *)
(* which may be an old one; and every search it is in is emitted as a      *)
(* whole, if it found anything.                                            *)
(***************************************************************************)
StartStream(sid, q) ==
  /\ Room
  /\ LET left   == Leaving(sid, {s \in SearchesOf(sid) : Ask[s].tag = Ask[q].tag})
         found  == IF q \in DOMAIN left THEN left[q]
                   ELSE CSearch(get_idx(table, Ask[q].restrict).idx[Ask[q].restrict], q)
         joined == [s \in DOMAIN left \cup {q} |->
                      IF s = q THEN [found EXCEPT !.clients = @ \cup {sid}]
                      ELSE left[s]]
         whole  == {s \in DOMAIN joined : /\ sid \in joined[s].clients
                                          /\ joined[s].order # <<>>}
     IN  /\ table' = IF q \in DOMAIN left THEN table ELSE get_idx(table, Ask[q].restrict)
         /\ searches' = joined
         /\ queue' = QueueOf(DOMAIN left) \o
              InSomeOrder({[of |-> s, keys |-> joined[s].order] :
                             s \in whole})
         /\ emitting' = EmittingOf(DOMAIN left)
  /\ EnterRoom(sid, q)
  /\ UNCHANGED <<used, late>>

\* drop_sid_from_csearch, and the rooms the browser is in afterwards.
DropSid(sid, remaining) ==
  LET left == Leaving(sid, SearchesOf(sid))
  IN  /\ searches' = left
      /\ queue' = QueueOf(DOMAIN left)
      /\ emitting' = EmittingOf(DOMAIN left)
      /\ rooms' = [rooms EXCEPT ![sid] = remaining]
      /\ UNCHANGED db

\* on_leave: the browser leaves the rooms of the searches it is in.
Leave(sid) == DropSid(sid, rooms[sid] \ SearchesOf(sid))

\* on_disconnect: the same, and the socket server forgets the browser.
Disconnect(sid) == DropSid(sid, {})

----------------------------------------------------------------------------
(* Changes.                                                                *)

InWindow(cs, k) == cs.start <= k /\ k <= cs.end

\* add_item, for a key the search does not have.
add_item(cs, k) ==
  [cs EXCEPT !.items = [j \in DOMAIN @ \cup {k} |->
                          IF j = k THEN NewItem("due") ELSE @[j]],
             !.order = Append(@, k)]

\* Mutation: a record that follows the window does not move its end.
ins_keep_end(cs, k) ==
  IF cs.at_end /\ k > cs.end THEN add_item(cs, k) ELSE cs

(***************************************************************************)
(* check_csearch for a record that is inserted: it joins the window if it  *)
(* follows it and the window reaches the end of the table; if it precedes  *)
(* it, on the same condition, where at_start would be expected.            *)
(***************************************************************************)
ins(cs, k) ==
  IF cs.at_end /\ k > cs.end THEN [add_item(cs, k) EXCEPT !.end = k]
  ELSE IF cs.at_end /\ k < cs.start THEN [add_item(cs, k) EXCEPT !.start = k]
  ELSE cs

\* Mutation: a deleted item leaves the search, as a line that is commented out
\* in drop_item would have it.
CheckedDrops(cs, op, k) ==
  IF op = "ins" THEN ins(cs, k)
  ELSE IF k \in DOMAIN cs.items /\ op = "del" /\ InWindow(cs, k)
       THEN [cs EXCEPT !.items = [j \in DOMAIN @ \ {k} |-> @[j]]]
       ELSE cs

\* What check_csearch does before it pushes: the search, whose item has news.
Checked(cs, op, k) ==
  IF op = "ins" THEN ins(cs, k)
  ELSE IF k \in DOMAIN cs.items /\ op = "del" /\ InWindow(cs, k)
       THEN [cs EXCEPT !.items[k].deleted = TRUE]
       ELSE cs

\* check_csearch, which made `checked` of cs, pushes an item it has taken in, one
\* that is in the window, and any if it is forced to.
Pushes(cs, checked, k, force) ==
  /\ k \in DOMAIN checked.items
  /\ k \notin DOMAIN cs.items \/ InWindow(cs, k) \/ force

\* Mutation: the throttle forgets an update instead of putting it off.
push_or_drop(item, recent) ==
  IF item.busy \/ recent THEN item ELSE [item EXCEPT !.busy = TRUE]

\* push_update: the item, which was shown `recent`ly or not.
push_update(item, recent) ==
  IF item.busy THEN item
  ELSE IF recent THEN [item EXCEPT !.future = TRUE]
       ELSE [item EXCEPT !.busy = TRUE]

\* The item has changed; nobody will look again if it is just being emitted.
Noted(s, k, item) ==
  [item EXCEPT !.news = IF item.busy /\ Emitting(s, k) /\ ~Pending(s, k)
                        THEN "raced" ELSE "due"]

(***************************************************************************)
(* Table.check_csearch: all searches whose restriction the record meets.   *)
(* `recent` are those that have shown it less than minupdinterval ago,     *)
(* which does not matter if the update is forced.                          *)
(***************************************************************************)
CheckCSearch(op, k, force) ==
  \E recent \in SUBSET InUse :
    LET concerned == {s \in InUse : check_restrictions(Ask[s].restrict, k)}
        checked   == [s \in concerned |-> Checked(searches[s], op, k)]
        pushing   == {s \in concerned : Pushes(searches[s], checked[s], k, force)}
        pushed    == [s \in pushing |->
                        push_update(Noted(s, k, checked[s].items[k]),
                                    s \in recent /\ ~force)]
        queued    == {s \in pushing : pushed[s].busy /\ ~checked[s].items[k].busy}
    IN  /\ recent \subseteq {s \in pushing : k \in DOMAIN searches[s].items}
        /\ searches' = [s \in InUse |->
             IF s \in pushing THEN [checked[s] EXCEPT !.items[k] = pushed[s]]
             ELSE IF s \in concerned THEN checked[s] ELSE searches[s]]
        /\ queue' = queue \o
             InSomeOrder({[of |-> s, keys |-> <<k>>] : s \in queued})
        /\ Cardinality(Timers') <= MaxTimers
        /\ UNCHANGED <<rooms, emitting>>

IsLate(k) == \E j \in used : j > k

Insert(k) ==
  /\ Room /\ k \notin used
  /\ IsLate(k) => late < MaxLate
  /\ table' = db_insert(table, k)
  /\ used' = used \cup {k}
  /\ late' = IF IsLate(k) THEN late + 1 ELSE late
  /\ CheckCSearch("ins", k, FALSE)

Update(k, force) ==
  /\ Room /\ has(table, k)
  /\ CheckCSearch("upd", k, force)
  /\ UNCHANGED db

Delete(k) ==
  /\ Room /\ has(table, k)
  /\ Cardinality(used) - Len(table.docs) < MaxDeleted
  /\ table' = db_delete(table, k)
  /\ CheckCSearch("del", k, FALSE)
  /\ UNCHANGED <<used, late>>

----------------------------------------------------------------------------
(* The timer and the loop.                                                 *)

\* schedule_future_update comes to its end.  (If the item was shown again in
\* the meantime, the timer is set again: it has not run yet.)
FutureUpdate(s, k) ==
  /\ s \in InUse /\ k \in DOMAIN searches[s].items /\ searches[s].items[k].future
  /\ LET item   == [searches[s].items[k] EXCEPT !.future = FALSE]
         pushed == push_update(item, FALSE)
     IN  /\ searches' = [searches EXCEPT ![s].items[k] = pushed]
         /\ queue' = IF pushed.busy /\ ~item.busy
                     THEN Append(queue, [of |-> s, keys |-> <<k>>])
                     ELSE queue
  /\ UNCHANGED <<db, rooms, emitting>>

\* console_update_loop up to its await: the data are those of this moment.
TakeUpdate ==
  /\ emitting = NoUpdate /\ queue # <<>>
  /\ LET u == Head(queue)
     IN  /\ emitting' = u
         /\ searches' = [searches EXCEPT ![u.of].items =
              [k \in DOMAIN @ |-> IF k \in Elements(u.keys)
                                  THEN [@[k] EXCEPT !.news = "shown"] ELSE @[k]]]
  /\ queue' = Tail(queue)
  /\ UNCHANGED <<db, rooms>>

\* Mutation: an update that was sent still counts as in progress.
SentStillBusy ==
  /\ emitting # NoUpdate
  /\ emitting' = NoUpdate
  /\ UNCHANGED <<db, searches, rooms, queue>>

\* update_sent, which of a whole search is called for its first item only.
UpdateSent ==
  /\ emitting # NoUpdate
  /\ searches' = [searches EXCEPT ![emitting.of].items[Head(emitting.keys)].busy = FALSE]
  /\ emitting' = NoUpdate
  /\ UNCHANGED <<db, rooms, queue>>

Init ==
  /\ table = EmptyTable /\ used = {} /\ late = 0
  /\ searches = [s \in {} |-> {}]
  /\ rooms = [sid \in Sids |-> {}]
  /\ queue = <<>> /\ emitting = NoUpdate

Next ==
  \/ \E sid \in Sids, q \in Requests : StartStream(sid, q)
  \/ \E sid \in Sids : Leave(sid)
  \/ \E sid \in Sids : Disconnect(sid)
  \/ \E k \in Keys : Insert(k)
  \/ \E k \in Keys, force \in BOOLEAN : Update(k, force)
  \/ \E k \in Keys : Delete(k)
  \/ \E s \in Requests, k \in Keys : FutureUpdate(s, k)
  \/ TakeUpdate
  \/ UpdateSent

\* The loop goes on, emitting comes to an end, and so do timers.
Fairness ==
  /\ WF_vars(TakeUpdate) /\ WF_vars(UpdateSent)
  /\ \A s \in Requests, k \in Keys : WF_vars(FutureUpdate(s, k))

Spec == Init /\ [][Next]_vars /\ Fairness

----------------------------------------------------------------------------
(* What is checked.                                                        *)

\* The table, the searches in use, the rooms and the queue are well formed.
TypeOK ==
  /\ IsTable(table) /\ used \subseteq Keys /\ late \in 0 .. MaxLate
  /\ InUse \subseteq Requests
  /\ \A s \in InUse :
       /\ {searches[s].start, searches[s].end} \subseteq Keys \cup {None}
       /\ searches[s].at_end \in BOOLEAN
       /\ searches[s].clients \subseteq Sids
       /\ searches[s].items \in [Elements(searches[s].order) -> Item]
  /\ rooms \in [Sids -> SUBSET Requests]
  /\ queue \in Seq(Updates) /\ emitting \in Updates \cup {NoUpdate}

(***************************************************************************)
(* Every index lists the records of the table that satisfy its             *)
(* restriction, in the table's order, whenever it was built: before or     *)
(* after the inserts and deletes it has to reflect (DBIndexFarm).          *)
(***************************************************************************)
IndexIsCurrent == \A r \in DOMAIN table.idx : table.idx[r] = DBIndex(table, r)

(***************************************************************************)
(* As long as no record was inserted late, get_range returns the records   *)
(* it is asked for, whatever was inserted and deleted in between: those    *)
(* from a key, or from a rank, counted from the end if it is negative, on, *)
(* up to a key or a number.                                                *)
(***************************************************************************)
Probes ==
  {csk \in [restrict : Restrictions, start : Keys \cup {None}, end : Keys \cup {None},
            item : -2 .. 1, count : 1 .. 2] :
     (csk.start # None => csk.item = 0) /\ (csk.end # None => csk.count = 1)}

Satisfying(r) == Elements(table.docs) \cap Matching[r]
Rank(r, k)    == Cardinality({j \in Satisfying(r) : j < k})

FirstRank(csk) ==
  LET n == Cardinality(Satisfying(csk.restrict))
  IN  IF csk.start # None THEN Rank(csk.restrict, csk.start)
      ELSE IF csk.item < 0 THEN (IF n + csk.item < 0 THEN 0 ELSE n + csk.item)
      ELSE IF csk.item < n THEN csk.item ELSE n - 1

RangeIsByRank ==
  late = 0 =>
    \A csk \in Probes :
      Elements(get_range(DBIndex(table, csk.restrict), csk).keys) =
        {k \in Satisfying(csk.restrict) :
           /\ Rank(csk.restrict, k) >= FirstRank(csk)
           /\ IF csk.end # None THEN k <= csk.end
              ELSE Rank(csk.restrict, k) < FirstRank(csk) + csk.count}

(***************************************************************************)
(* A search that has found something shows its window: as long as no       *)
(* record was inserted late, the items it has, and has not marked as       *)
(* deleted, are the records of the table from the start of the window to   *)
(* its end, however the window has moved (CSearch.check_csearch).          *)
(***************************************************************************)
WindowIsRange ==
  late = 0 =>
    \A s \in InUse :
      LET cs == searches[s]
      IN  cs.start # None =>
            {k \in DOMAIN cs.items : ~cs.items[k].deleted} =
              {k \in Satisfying(Ask[s].restrict) : InWindow(cs, k)}

(***************************************************************************)
(* No change is forgotten: one that a browser has not been sent is in the  *)
(* queue, or a timer will put it there; unless it was made in the moment   *)
(* the item was being emitted, when push_update passes over it.            *)
(***************************************************************************)
NothingForgotten ==
  \A s \in InUse : \A k \in DOMAIN searches[s].items :
    searches[s].items[k].news = "due" => Pending(s, k) \/ searches[s].items[k].future

(***************************************************************************)
(* Each client of a search is in its room, also after it left and came     *)
(* back by another request; and a search nobody looks at is dropped        *)
(* (CSearch.add_sid, Table.drop_stream_tag_from_csearch).                  *)
(***************************************************************************)
ClientsAreServed ==
  \A s \in InUse :
    /\ searches[s].clients # {}
    /\ \A sid \in searches[s].clients : s \in rooms[sid]

(***************************************************************************)
(* A change that is due is sent in the end, or the search is dropped: the  *)
(* throttle delays updates and loses none (push_update,                    *)
(* schedule_future_update, console_update_loop).                           *)
(***************************************************************************)
Due(s, k) == s \in InUse /\ k \in DOMAIN searches[s].items /\ searches[s].items[k].news = "due"

ChangesAreShown == \A s \in Requests, k \in Keys : Due(s, k) ~> ~Due(s, k)

=============================================================================
