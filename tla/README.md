# A TLA+ model of SteamLink

SteamLink (`steamlink/`) is the *store* of a LoRa sensor network. Nodes talk to it
over MQTT in a small binary protocol; the store keeps a table of nodes, stores
the data they send, sends them data and configurations, and shows everything on
a live web console. This directory holds TLA+ modules of that program, TLC
configurations that check them on small instances, and proofs for TLAPS.

Line numbers refer to `steamlink/steamlink.py` unless another file is named.

## 1. The system

| part | state it keeps | operations | properties that make it correct |
|---|---|---|---|
| `Node` (539-938) | state, via route, packet numbers both ways, time of the last packet each way, the packet waiting for an acknowledgement | `post_data` per packet, `send_data_to_node`, `send_set_config`, `periodic_check`, `save`/`load` | one unacknowledged packet per node; nothing overtakes it; data is acknowledged only when stored; repeated packets change nothing; silence is noticed; OFFLINE is respected |
| `WaitForAck` (217-275) | deadline, packet, resend count, insert flag | `set_wait`, `stop_wait`, `clear_wait`, `restart_wait`, `inc_resend_count` | all set or all clear; a wait ends |
| packet numbers (600-605, 776-793) | last number sent and seen | `set_pkt_number`, `check_duplicate_pkt_num` | no new packet is taken for a repeated one, over loss, wrap and restart; `packets_missed` is exact |
| `Steam` (281-497) | - | `on_data_msg`, `handle_web_command`, `on_public_control_msg`, `start`/`heartbeat` | the heartbeat outlives every packet; shutdown and restart lose nothing that was acknowledged |
| `BasePacket`, `SL_NodeCfgStruct` (68-163, 944-1087) | - | `construct`, `deconstruct`, `pack` | a packet over a route decodes to what was sent |
| `PyNode` (`pynode.py`) | number, waiting packet, timer | `send`, `set_status`, `on_control_msg`, `process_ack_timeout` | data that is confirmed is stored; a node goes mute for few reasons only |
| tables and `OCache` (`linkage.py` 278-691) | items in memory and in the database | `register`, `find`, `insert`, `update`, `delete`, `clean` | what is shown is the one object of its key; the cache is bounded |
| `CSearch` (`linkage.py` 38-272) | a window of keys, items, clients | `add_csearch`, `check_csearch`, `push_update`, `drop_sid` | a client sees the present value of every item in its window, and nothing of searches it dropped |
| `DBTable`, `DBIndex` (`db.py`) | indexes by key and restriction | `get_range`, insert, update, delete | a range holds the keys it should, in order |
| `LogQ` (`linkage.py` 803-896) | log queue, prune flag | `start`, `prune_logitem_table` | the table stays near its limit |
| `WebApp` (`web.py`) | update queue | `console_update_loop` | a change that is due is emitted |
| `Mqtt` (`mqtt.py`) | connected, subscribed, disconnected events | `start`, `stop`, callbacks | a started store is subscribed; a stop ends |
| `main.py`, `scripts/steamlink.sh` | - | start, stop, restart | what was acknowledged survives a stop, and all but the last seconds of it a crash |

Everything runs in one asyncio loop. MQTT messages, web commands and the
one-second heartbeat are callbacks that run to completion, so the interleavings
of the protocol are those of whole callbacks; what is interrupted in the middle
is only the console (`await sio.emit`) and the log pruner. Components meet in
these places: `on_data_msg` finds or creates a `Node` in its table and calls
`post_data`; `post_data` also changes the nodes that bridged the packet; every
change of an item goes through its table to the searches of the console; the
heartbeat drives resends, polls and the flush of the database. An exception in an
MQTT or web callback is reported by the loop and the program goes on; one in the
heartbeat leaves `main` and ends it.

What is hard here: four callbacks share one slot for an unacknowledged packet;
a handler can raise half way (number past 16 bits, configuration that cannot be
packed, unknown code) and leave the rest undone; one packet changes several nodes;
packets and acknowledgements are lost, repeated and late; the nodes and the store
restart on their own, and a node's runtime state is not saved. `PROJECT.json`
lists these under "hazards", with the line of each.

## 2. Modules

| module | models | kind |
|---|---|---|
| `PktNumbers` | `check_duplicate_pkt_num` as pure functions | operators |
| `WaitForAck` | class `WaitForAck` | operators on records |
| `StoreNode` | class `Node` and the parts of `Steam` that drive it | state machine |
| `AckWindow` | what the store promises about acknowledged packets | abstract specification |
| `MCStoreNode` | instances of `StoreNode` for TLC | model |
| `PktSequence` | the duplicate check against a node that repeats, wraps and restarts | state machine |
| `StoreNodeProofs` | theorems about `StoreNode`, and that it implements `AckWindow` | proofs |
| `PktSequenceProofs` | theorems about `PktSequence` | proofs |
| `PyNode` | class `PyNode` | operators on records |
| `Link` | `StoreNode` and `PyNode` joined by the broker | state machine, extends `StoreNode` |
| `LinkProofs` | theorems about `Link` | proofs, extends `StoreNodeProofs`, `ListsProofs` |
| `Lists` | what the program does with lists: keep the elements of a set, bisect | operators, recursive functions |
| `ListsProofs` | lemmas about `Lists` | proofs |
| `DBTable` | `DBTable`, `DBIndexFarm`, `DBIndex` | operators on a table |
| `DBTableProofs` | lemmas about `DBTable` | proofs, extends `ListsProofs` |
| `Console` | `CSearch`, `CSearchItem`, `Table`, the handlers and the loop of the web console | state machine over a `DBTable` |
| `ConsoleProofs` | theorems about `Console` | proofs, extends `DBTableProofs` |
| `LogTable` | `LogQ`, `DbBackedTable`, `OCache` | state machine over a `DBTable` |
| `LogTableProofs` | theorems about `LogTable` | proofs, extends `DBTableProofs` |
| `Lifecycle` | `steamlink_main`, `Mqtt`, `Steam.start`, `DB`: start, flush, stop, crash | state machine |
| `LifecycleProofs` | theorems about `Lifecycle` | proofs |
| `MCLink`, `MCConsole`, `MCLogTable`, `MCLifecycle` | instances for TLC | models |

### StoreNode

A `Node` object is a record; each method is an operator from the old record to
the new, under the method's name (`publish_pkt`, `set_state`, `store_data`,
`periodic_check`, ...). `post_data` is `Accept` for the sender - the route is set,
the branch of the op (`OpBranch`) runs, then the last lines (`MarkHeard`) -
`Duplicate` for a repeated packet and `Bridged` for a node on the route. Three
fields are not attributes: `out` is the list of the step's effects (published,
inserted, put on the public topic), in order; `raised` says that a method raised,
after which the rest of the step does nothing; `signed` marks a sign-on.

| action | code |
|---|---|
| `OnDataMsg(p)` | `on_data_msg` and `post_data` for the sender and for every node on the route that the loop reaches |
| `SendData(n, fits)` | web command `DN`, or plain text on the public control topic; `fits`: not longer than `SL_MAX_MESSAGE_LEN` |
| `WebSetConfig(n, defects)` | web command `SC`: the user's JSON becomes the configuration unchecked, and stays it whether it can be sent or not |
| `CommandRaises(n)` | a JSON object with a payload on the public control topic, which raises a TypeError before anything is sent; a web command whose JSON `SL_NodeCfgStruct` does not take |
| `Heartbeat` | `heartbeat`: `periodic_check` of the nodes of mesh 1, up to the first that raises |
| `Tick` | a second passes |
| `Restart` | stop and start: each node is loaded with the route and the configuration that `update` wrote last (`saved`) |

Abstractions, each of which keeps what the properties can tell apart:

- Statistics counters, names, radio levels, gps, logging and console updates are
  left out; a payload is what `post_data` reads of it (`arg`).
- Times are ages that stop growing where no comparison can tell them from larger
  ones: `rx` at `max_silence`, `tx` at `MAXSILENCE` + 1, with -1 for "never".
- Where `max_silence` is a number it is the same for all nodes (`NodeMaxSilence`).
- SC, GS and AN packets fit the message length; only a DN may not.
- The slids of a route differ from each other and from the sender.
- A configuration is the set of its `Defects`, the values that keep it from being
  used: a `max_silence` that is not a number, a version that cannot be packed, a slid
  (it stands for all other fields that a sign-on replaces) or an altitude (for those it
  keeps). The web command passes the slid for
  the version (340), which fits 8 bits in mesh 0 only. A sign-on brings a new
  `max_silence` and slid and leaves the altitude and the version. What the database has is `saved`: `update`
  writes it, so a configuration of the console is in it only after the node's next
  update; the version is not written.
- `update` does not raise. It writes to the database and shows the node on the console,
  and a full disk, or a restriction of a search that cannot be evaluated
  (linkage.py 73), would end a heartbeat as well: `OnlyTwoReasonsEnd` is about what its
  own checks raise.
- Publishing on MQTT does not raise, and the cache does not evict a node (fewer
  than 1000 are known).
- The heartbeat meets the nodes in any order.

### AckWindow

The promise, without the means: per node a window of one packet. A packet put in
it is new (its number is above all issued in the session); it is retried at most
`MaxTries` times, unchanged; it leaves confirmed, given up at the limit exactly,
or dropped by a sign-on, which may put a configuration in its place; and data is
recorded when confirmed, once, under its own number, and in no other case. The
refinement maps the window to `wait.pkt`, the retries to `wait.count`, the largest
number to `pkt_num`, and the recorded numbers to the DN inserts in `out`.

### PktSequence

The node (not in this repository, an Arduino; `pynode.py` is its double) numbers
its packets from 1, skips 0 at the wrap, signs on first, keeps one packet
unacknowledged, repeats it, gives up, and may restart. The store is
`check_duplicate_pkt_num` and the use `post_data` makes of it. A lost copy is no
step; a lost acknowledgement is `Deliver(FALSE)`. `sent`, `acked`, `unheard`,
`skipped`, `exposed`, `wrapped` and `unsigned` record what really happened.
Assumed: fewer than a full circle of numbers is lost in a row (bound in
`TakeNumber`), as 65535 consecutive losses would be needed.

### PyNode and Link

`PyNode` has the object of `pynode.py` as a record, and a method as an operator on
it, like `StoreNode`. Two facts of the code shape it. `start` ends in
`send_online_to_store`, which names an op code that `SL_OP` does not have (133), so
it raises; a program that catches this goes on with a node that has subscribed and
has announced nothing, and so does the model. And that method is the only one that
sets a timer: `process_ack_timeout` is never reached, and a packet of the node is
never sent twice.

`Link` puts two topics between this node and the store: sequences of packets, of
which one may be lost, as MQTT does with quality of service 0.

| action | code |
|---|---|
| `NodeStart` | `PyNode.start` |
| `NodeSendsData(fits)`, `NodeSetsStatus` | `send`, `set_status`, called by the program |
| `NodeReceives` | `on_control_msg` for the packet at the head of the node's topic |
| `NodeRestart` | a new object in a new process |
| `StoreReceives` | `OnDataMsg` of `StoreNode` for the packet at the head of the store's topic |
| `StoreSendsData`, `StoreBeats`, `StoreTicks`, `StoreRestarts` | the actions of `StoreNode`, what they publish put on the node's topic |
| `Lose` | a message is lost |

Packets carry the session of their sender, for the properties alone. The ghosts
`hasty` and `crossed` say when an answer can be taken for another one: the store
repeated or dropped a packet while it or its answer was on the way, or the node
restarted while data of it, or an AN, was. A configuration of the console for a node
of mesh 1 raises before it is published (340), so no SC is on the way. What may come
to the store (`Inbound`) is `NodePackets`, the packets that a `PyNode` sends.

### DBTable

A record is its key. A table is its keys in the order of insertion and the indexes
built so far, one per restriction, in order of insertion as well; `get_range` bisects
an index as Python does, in order or not. `first_position` and `last_position` are the
two halves of `get_range`. `db_update` replaces a record under the same key and is
left out.

### Console

| action | code |
|---|---|
| `StartStream(sid, q)` | `on_startstream`, `add_csearch` (steamlink.py 1290), `Table.add_csearch`, `force_update` |
| `Leave(sid)`, `Disconnect(sid)` | `on_leave`, `on_disconnect`, `drop_sid_from_csearch` |
| `Insert(k)`, `Update(k, force)`, `Delete(k)` | the methods of `DbBackedTable`, and through `check_csearch` every search |
| `FutureUpdate(s, k)` | the end of `schedule_future_update`'s sleep |
| `TakeUpdate`, `UpdateSent` | `console_update_loop` up to its `await`, and after it |

`queue` is `con_upd_q`, `emitting` the update that the loop awaits. A search has its
window (`start`, `end`, `at_end` of its key), items and clients; `rooms` are those of
the socket server. Left out, because no property can tell: the order of the updates
that one handler puts in the queue (they are of different rooms), and the leftovers of
a search that was dropped. Whether an item was shown less than `minupdinterval` ago is
open (`recent`). A key is not used again after its record was deleted. A restriction
is the set of keys that meet it; the one on the op of a packet, for which the database
has the code and the object the value, is not represented.

### LogTable

| action | code |
|---|---|
| `Write` | `write`, `awrite`: a line is put in the queue |
| `Wake`, `TakeLine` | the loop of `LogQ.start`; it does not give way while the queue has lines |
| `Prune` | `prune_logitem_table`, up to its end or its exception |
| `Look(csk)`, `LookAway` | a browser opens a search, in place of the one it had, or leaves |
| `Collect` | Python frees the cycles of dropped searches and their items |
| `Restart` | stop and start of the process |

What the code does, and the model with it: a prune is scheduled with a count taken
before the lines that follow in the queue, and runs before the next line is waited
for; it walks an index by position while it deletes from it, so it deletes every other
record; when the count is more than half of the table the walk fails, the exception is
seen by nobody, and `prune_in_progress` stays set. `max_log_records` is looked up in
the whole configuration, not in a section of it (linkage.py 809), so it is always the
default. The cache counts references: what a search refers to is not evicted
(`held`), neither is what a dropped one still refers to (`garbage`), of which Python may
free any part at any time, nor the object that the task of `LogQ` made last: its local
name `logitem` (linkage.py 888) keeps it until the next one is registered (`last`). Two
lines may have the same time; then the second is loaded from the record of the first and gets an
object of its own (`doubled`). If the first was deleted meanwhile, the second is a new
record, and a search that still has an item of that time takes it in, wherever its
window ends. The clock does not go back. Filters of lines and alerts
are left out.

### Lifecycle

| action | code |
|---|---|
| `Start`, `Connected`, `Subscribe`, `OpenDatabase`, `Run` | `steamlink_main` (main.py 226-291) with `Mqtt.start`, `wait_connect`, `DB.start`, `WebApp.start` |
| `OnConnect`, `OnSubscribe`, `OnDisconnect` | the callbacks of `Mqtt`; paho connects again by itself |
| `Receive(p)` | `on_data_msg` of new data: inserted and acknowledged |
| `Beat`, `BeatClosed` | a round of `Steam.start`, with the database open or closed |
| `Signal`, `CloseDatabase`, `StopMqtt`, `Disconnected` | the shutdown (main.py 300-312), and `execve` if it was SIGHUP |
| `Abort` | a signal outside of the loops, a second one, an exception of the heartbeat, a kill |

What the code does: after a connection was lost and made again nothing is subscribed,
so the store hears no node until it is restarted; a packet that comes before Steam has
set its callback is only logged; the event loop runs through the shutdown, so packets
are acknowledged after the database was closed, and are lost; a flush of a closed
database raises in a task that nobody waits for. A packet is stored or not, and
acknowledged or not; TinyDB's caching storage writes the file by itself now and then,
which `Receive` may do. A broker may refuse a subscription; `on_subscribe` does not look
at what it granted, so the start goes on all the same (`refused`). A write of the file is
one step: TinyDB rewrites it in place, and a kill in the middle of that would leave a torn
file, which is not represented.

## 3. Runs

| run | checks | states |
|---|---|---|
| `store_node` | type; waits coherent; `OnlyTwoReasonsEnd`; `ImplementsWindow`; `OnlyAcksOvertake`; `AckedIsStored`; `OfflineIsLeftAlone` | 322 000 |
| `store_relay` | `HeardIsUp`, `ImplementsWindow`, `OfflineIsLeftAlone` with a bridge | 513 000 |
| `store_live` | `WaitEnds`, `SilenceIsNoticed` under fairness | 22 000 |
| `pkt_sequence` | type; `AckedIsInDatabase`; `StoredOnce`; `MissedIsExact` | 1.4 million |
| `link` | type; `RecordedWasTaken`; `ConfirmedIsStored`; `MuteUntilRestart`; `BecomesMuteForAReason` | 746 000 |
| `console` | type; `IndexIsCurrent`; `RangeIsByRank`; `WindowIsRange`; `NothingForgotten`; `ClientsAreServed`; `ChangesAreShown` under fairness | 87 000 |
| `log_table` | type; `ShownIsCached`; `StuckOnlyIfLarge`; `CacheIsBounded`; `PruneRestoresLimit` | 364 000 |
| `lifecycle` | type; `LossIsRecent`; `CleanStopsKeepAcked`; `HearsUntilLinkLost`; `AckedIsFlushed` and `StopsWhenAsked` under fairness | 112 000 |
| `sign_on_unanswered` | finding: `SignOnIsAnswered` is violated | |
| `status_replaced` | finding: `StatusIsSet` is violated | |
| `numbers_run_out` | finding: `HeartbeatSurvives` is violated | |
| `missed_negative` | finding: `MissedIsACount` is violated | |

Bounds. `store_node` has one node: the records of different nodes meet in
`OnDataMsg` over a route and in `Heartbeat` only, and `store_relay` has both. The
node sends every op and argument under number 1 (a restart) and `MaxPktNum` (the
wrap), so each is fresh or repeated in every state. `MaxPktNum` = 4 lets the store
run out of numbers after four packets, with a packet waiting and without. One
resend and an acknowledgement wait of one tick give each of waiting, expired,
resent and exhausted; `NodeMaxSilence` = 2 separates heard now, heard before and
overdue. Its user enters a `max_silence` that is not a number, or an altitude that
cannot be packed; the latter stays over a sign-on, so that its SC raises. `store_relay` takes the smallest
limits (two numbers) because one step changes two records; its bridge is in mesh 0,
where a user's configuration can be packed, so that the bridge can have an SC waiting;
one with a slid that is out of range raises. `store_live` uses the packets that can start and end a wait or a silence. `pkt_sequence` sends six data packets
with four numbers, so the numbers wrap once and a second session can fall anywhere
in the circle; three copies of each packet show a repeat of a repeat.

`link` has one node, two messages on the topics before either side starts something
new, one loss, one restart of either side, and three packet numbers: enough for a late
answer to meet the next packet, in either direction, and for a repeated number after a
restart. `console` has two browsers, records of two nodes, a request from the start of
the table and one from its end with a restriction, in one area of the page; one timer,
one update in the queue besides those one handler adds, one record inserted late and
one deleted. `log_table` has the limits in their real proportion (a table of 3, one
more to prune, a cache of 3 of which one is evicted) and eight records, so that tables
of one prune, of a failing prune and of a walk over a search's records all occur.
`lifecycle` has two packets, of which one may be in the file and one not, and a flush
at each third heartbeat; processes start and end without a bound.

Deadlock is checked in `lifecycle`. The others really stop: when the heartbeat has
ended the program (`running` is FALSE), nothing is left to do, as in the code; nor is
there when the bounded node of `PktSequence` has sent everything, in `Link` when the
numbers have run out and all losses and restarts were used, in `Console` when all
records were used and no browser is there, or in `LogTable` when all lines were written.

Fairness. In `StoreNode`, `start` (448-473) is a loop that sleeps to the next full second and
runs the heartbeat, for ever, in the program's one event loop: time passes and the
heartbeat runs, `WF_vars(Tick) /\ WF_vars(Heartbeat)`. Nothing is assumed of nodes,
users or transport. Both liveness properties are about mesh 1, since `heartbeat`
asks for the nodes of mesh 1 only (477), and both allow for the end of the program.
`Console` assumes the loop: it takes the next update, the emit comes to an end, and a
timer's sleep does (all are tasks of the event loop; the socket server does not wait
for browsers). Nothing is assumed of browsers or records. `Lifecycle` assumes that the
heart beats while its loop runs, and that each wait of the shutdown ends: the web
server's, and that of a disconnect which was asked for. `Link` and `LogTable` have
safety properties only.

Every property of a passing run has a mutant in `PROJECT.json`: a definition
changed as a plausible slip in the code would change it, which breaks the property.

## 4. Findings

1. A node that is down signs on and gets no SC: `send_set_config` (861) comes
   before `set_state("ONLINE")` (862) and refuses nodes that are not up. The op
   table says "report config, ack with SC" (186).
2. A status outside `UPSTATES` and not OFFLINE, such as SLEEPING, is replaced by
   TRANSMITTING in the same step (903-905), which asks the node for its status
   again. `docs/notes.md` says the status will be set.
3. The store's packet numbers do not wrap at 16 bits (600-605, against the comment
   "skip 0"); `struct.pack` then raises, and in the heartbeat that ends the program.
   `OnlyTwoReasonsEnd` shows that of the heartbeat's own checks one other thing does: a
   `max_silence` that is not a number, which a user may enter (340) and `is_overdue`
   adds to a time (687). It does so until the node signs on, also after a restart if the
   node was updated in between.
4. `packets_missed` goes below zero when a number is lower than the last (790).

## 5. Proofs

`StoreNodeProofs` proves, for every set of nodes, every set of packets that may
arrive and all values of the limits:

- `TypeCorrect`: Spec => []TypeOK
- `WaitsAreCoherent`: Spec => []WaitsCoherent
- `StoreImplementsWindow`: Spec => ImplementsWindow, the refinement of `AckWindow`

from `StoreNodeAssumption` (types of the constants; routes without repetition),
`WaitAssumption` and `MaxPktNumAssumption`, which TLC evaluates in the runs.

The inductive invariant `IInv` is TypeOK, WaitsCoherent and `Pristine`: a node that
is not in the table has an empty wait and has been issued no number. WaitsCoherent is
needed because a resend republishes `wait.pkt` and an acknowledgement reads
`do_insert`; Pristine because a sign-on of an unknown node starts from a new
record, not from the one in the state, and the window must not change by that.

The argument follows the code. An operator is described by a relation between
records: most act `Quietly` (the wait stays, no number is taken back, no DN is
recorded); the others are `Offers`, `Retries`, `Confirms`, `GivesUp` and `SignsOn`.
There is a lemma for each method, using those of the methods it calls, and
`ThenQuietly` and `AfterQuietly` to compose them: a quiet method before or after does
not change what a step does to the window. Each action but `Restart` `Advances`:
every record moves by one of these relations. From this the invariant and the step
of `AckWindow` follow; `Restart` is its `Reset`.

The second part of `StoreNodeProofs` proves, from the same assumptions:

- `HeardNodesAreUp`: Spec => []HeardIsUp
- `OnlyTwoReasonsEndIt`: Spec => []OnlyTwoReasonsEnd
- `NothingElseOvertakes`: Spec => OnlyAcksOvertake
- `AcknowledgedIsStored`: Spec => AckedIsStored
- `OfflineNodesAreLeftAlone`: Spec => OfflineIsLeftAlone

The inductive invariant `SafeInv` adds to `IInv` the two invariants themselves and
`Strangers`: a node that is not in the table is in state INITIAL, so that a relayed
packet cannot find it OFFLINE. The action properties are about `out`, the list of the
effects of one step, so the lemmas say of each method what it appends to the list and
after what: an AS comes after the insert in the same step, nothing but an acknowledgement
is published while a packet waits, and nothing at all to a node that said it is OFFLINE.
`OnlyTwoReasonsEnd` needs the places where a method can raise, one by one; two are left
in the heartbeat, `RanOut` and `overdue_raises`, and the state they raise in is the one
the node is left in.

`LifecycleProofs` proves, for every set of packets and every `FLUSHWAIT`, from
`LifecycleAssumption`:

- `LifecycleTypeCorrect`: Spec => []TypeOK
- `LossIsBounded`: Spec => []LossIsRecent
- `CleanStopsLoseNothing`: Spec => []CleanStopsKeepAcked
- `StartedStoreHears`: Spec => []HearsUntilLinkLost

with two inductive invariants. `Kept` says where the data are: an open database has
what the file has, and what else it has is no older than the last flush (its age is at
most `FLUSHWAIT - flushwait`, which makes the bound inductive); in a closed one only
late packets are missing in the file. `Subscribing` follows the start: requests are
answered in order, so that the first answer of the broker grants or refuses the nodes'
topic, which is why waiting once is enough although the event is never cleared.

`PktSequenceProofs` proves, for every `MaxPktNum` above 2 and every number of packets:

- `TypeCorrect`: Spec => []TypeOK
- `AcknowledgedIsInDatabase`: Spec => []AckedIsInDatabase
- `DataIsStoredOnce`: Spec => []StoredOnce
- `MissedCountIsExact`: Spec => []MissedIsExact

The core of the inductive invariant is `InStep`: the node is ahead of the store by the
packets that the store has not heard, modulo the circle of the numbers, and these are
fewer than a full circle. A new number then differs from the last one that was heard,
and the difference the store computes is the number of packets missed. `PendingIsNewest`,
`UnsentIsUnstored`, `UnstoredIsUnheard`, `StoredIsKnown` and `FirstSession` say what is
in the database and what the store has seen of the present session of the node.

`ConsoleProofs` proves, for every set of browsers, records, restrictions and requests:

- `TypeCorrect`: Spec => []TypeOK
- `IndexesAreCurrent`: Spec => []IndexIsCurrent
- `RangesAreByRank`: Spec => []RangeIsByRank
- `WindowsAreRanges`: Spec => []WindowIsRange
- `NoChangeIsForgotten`: Spec => []NothingForgotten
- `EveryClientIsServed`: Spec => []ClientsAreServed

The inductive invariant has six parts: `RecordsAreSound` (the indexes are ordered as the
records were inserted, and complete), `SearchesAreSound`, `QueueIsSound`, `WindowsAreShown`
(a window is the range between its keys in the index of its restriction), `NewsAreTold` (a
change of an item of a search is in the queue, or a timer for it runs, or its clients have
it) and `ClientsAreServed`. `WindowsAreShown` rests on what bisection returns, which
`ListsProofs` has: `Lists` defines it by recursive functions, and the induction runs over
a subset of the numbers (the n for which the fact holds), which is a formula of first
order. `NewsAreTold` also allows for a window that starts with a higher key than it ends
with, as one does whose range came late; it takes three records in falling order, which
is beyond the run, to see that an item which was just taken in is pushed although its
window does not contain it.

`LinkProofs` proves, for every bound on losses, restarts and numbers:

- `LinkTypeCorrect`: LinkSpec => []LinkTypeOK
- `LinkImplementsStoreNode`: LinkSpec => Spec, the store of `Link` is a `StoreNode`, so
  every theorem about that one holds here
- `LinkIsInvariant`: LinkSpec => []LinkInv
- `ConfirmedIsStoredAlways`: LinkSpec => []ConfirmedIsStored
- `RecordedWasTakenAlways`: LinkSpec => []RecordedWasTaken
- `MuteUntilRestartAlways`: LinkSpec => MuteUntilRestart
- `BecomesMuteForAReasonAlways`: LinkSpec => BecomesMuteForAReason

Three facts carry it. A topic keeps its order, and a loss only thins it. The numbers of
the data on the way grow and are above the last one that the store has seen
(`NumbersGrow`), so no data is taken for a repeated packet unless a restart came between.
And there is at most one open exchange in each direction: while a node waits, its data,
or the answer to it, is on the way at most once, and an AN on the way means that the data
is stored (`DataIsAnswered`), unless acknowledgements `crossed` a restart. `AskInv` says the same of the store's data and the AS of
the node, unless the store was `hasty`.

`LogTableProofs` proves, for every limit of the table, the cache and the queue and for
all searches, from `LogTableAssumption` and `DBTableAssumption`:

- `TypeCorrect`: Spec => []TypeOK
- `WhatIsShownIsCached`: Spec => []ShownIsCached
- `CacheStaysBounded`: Spec => CacheIsBounded
- `OnlyLargeTablesStick`: Spec => []StuckOnlyIfLarge
- `PrunesRestoreLimit`: Spec => PruneRestoresLimit

The inductive invariant has two parts. `ObjectsAreSound` is about the cache: the indexes
are current, the records in the order of their keys, each object in the cache is of a
record and there is one of each (`Caching`), and what the search shows is cached or has
an object of its own (`Showing`). Every operator on the cache is shown to keep it, and to
let the cache grow beyond its limit only when all but the newest object are in use, by a
search or by the task of `LogQ`; for the lists of a `Look` and for the walk of a `Prune` that is an induction over their
length. `PruneIsCounted` is about the prune that waits for its turn: the count was taken
when the table had at least that many records above its limit, and the lines written
since were in one queue. The walk by position deletes every other record, so a walk of n
steps through N records fails only if 2(n - 1) >= N, and otherwise deletes n; from this
and the count follow the last two theorems.

Model-checked only:

- Liveness (`WaitEnds`, `SilenceIsNoticed`, `ChangesAreShown`, `AckedIsFlushed`,
  `StopsWhenAsked`): fairness and ENABLED are out of the prover's reach.
- What the runs that expect a violation refute.

## 6. Plan

What could follow, in this order:

1. The eviction of a `Node` with a packet waiting, as a composition of `StoreNode` with
   the cache of `LogTable`.
2. `PacketCodec`: BN and BS encapsulation over a route.
3. `DictBackedTable.get_range`, which is `DBTable`'s over a dictionary, and `db_update`
   under a restriction that a record ceases to meet.

Not modelled:

- Statistics, `Mesh`, names, positions, page rendering, alerts, the GitHub hook,
  `TestData`, configuration files, command line and the browser client: no protocol
  state.
- The bytes of a packet: packing keeps no state; that it may fail is in `StoreNode`.
- Code without callers: `send_boot_cold`, `send_testpacket`, `get_response`, `LogData`,
  `NodeRoutes`, and `process_ack_timeout` of `PyNode`.
- MQTT itself, TinyDB and the socket server, which are libraries: of these the modules
  have what the code relies on (topics in order, at most once; a cache that is written
  on flush and close; rooms).
