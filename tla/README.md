# A TLA+ verification of the homeserver's core protocols

The server is a Matrix homeserver: one process, an embedded RocksDB database, a
set of services (`src/src/service`) that share it, and many concurrent tokio
tasks that run requests, background workers and timers.  Most of what it
promises to users rests on a few small concurrent protocols inside it.  This
directory models those protocols in TLA+, checks them with TLC on small
instances, and proves the safety properties for all instances with TLAPS.

Six parts are modelled:

| part | question | modules |
|---|---|---|
| the sequence counter (`core/utils/two_phase_counter.rs`, `service/globals/data.rs`) | can a client that syncs up to a number miss something written at or below it? | `TwoPhaseCounter`, `TwoPhaseCounter_proofs`, `VisibleLog` (what it promises) |
| the long polls of client sync and the database watches they sleep on (`api/client/sync`, `service/sync/watch.rs`, `database/map/watch.rs`) | can a poll sleep through a write, or a token pass a row that was not sent? | `SyncPoll`, `SyncPoll_proofs`, `PrevGap`, `PrevGap_proofs`, on `MapWatch` and `VisibleLog` |
| the federation fetcher (`service/fetcher`) | are callers that share a fetch always answered, and by the right outcome? | `Fetcher`, `Fetcher_proofs`, `MCFetcher`, `SharedFetch` (what it promises) |
| the outgoing queue and its sender worker (`service/sending`, with the peer status of `service/federation`) | is anything queued for a server, appservice or pusher lost, stuck or sent twice? | `Sending`, `Sending_proofs`, `MCSending`, `DeliveryQueue` (what it promises) |
| storage of room states (`service/rooms/state_compressor`, `short`, `state`) | is the state that is loaded the state that was saved, and saved once? | `RoomState`, `MCRoomState`, `RoomState_proofs`, `StateStore` (what it promises) |
| events entering a room (`service/rooms/event_handler`, `timeline`, `state/prune.rs`) | is an event appended once, numbered once, and the room left able to go on? | `Inbound`, `Inbound_proofs`, `MCInbound` |

`PROJECT.json` is the machine-readable index: components, runs, the source lines
each definition translates, hazards, findings, theorems, and for each property a
mutated definition that breaks it.

Paths below are relative to `src/src`.

## 1. Inventory

### 1.1 Components, their state and their operations

**Two-phase counter** (`core/utils/two_phase_counter.rs`, used by
`service/globals`).  State: the last number drawn (`dispatched`), the numbers
drawn and not yet retired (`pending`, in increasing order), a watch channel with
the last release (`retires`), and the counter row in the database.  Operations:
`next` (commit the number, then record it as pending, hand out a `Permit`), the
permit's drop (`retire`), `current`, `wait_pending`, `wait_count`.  Every
service that writes something clients sync on draws a number here.
*Hard*: permits drop in any order; commits sit in an unflushed log.
*Correct when*: a reader told a number never misses a row at or below it; every
waiter is released; a restarted counter is not below a surviving row.

**Fetcher** (`service/fetcher`).  State: a request channel, a map of in-flight
entries (result channel and a weak reference to the callers' shared interest
token), the running attempts, the deferral queue.  Operations: `fetch`, the
caller's drop, `on_request`, `dispatch`, `run_attempts`, `on_complete`,
`interrupt`.  Called by the inbound-event pipeline for missing events, state and
auth chains; calls federation requests.
*Hard*: callers come and go while a fetch gives up for lack of interest;
capacity; interrupt.  *Correct when*: one fetch per key, every call answered, no
present caller told Cancelled, deferred requests admitted when a slot frees.

**Sending** (`service/sending`).  Durable state: queued rows
(`servernameevent_data`), active rows, i.e. those of the transaction being sent
(`servercurrentevent_data`), the EDU watermark of each server.  Memory of each
worker: `statuses` (Running, Force, Failed, Retrying per destination), request
futures, the `WakeQueue` of retry timers, a channel.  Operations: `send_pdu_*`,
`send_edu_*`, `flush_*`, `notify_peer_alive`, `cleanup_events` on the producers'
side; `handle_request`, `handle_response`, `handle_wake`, `startup_netburst`,
`finish_responses` on the worker's.
*Hard*: everything at once - producers, responses, timers, other traffic to the
same server, deregistration, partly failed pushes, shutdown and crash.
*Correct when*: one transaction per destination; an acknowledgement deletes only
delivered rows; nothing durable is lost, and nothing delivered is sent again
while the server is up; everything goes out in the end.

**Federation peer status** (`service/federation/peer.rs`, `execute.rs`).  Durable
failure rows per server with a streak; `record_failure`, `record_success`,
`should_attempt`, `classify_error`.  Shared by every request to that server, so
the sender's reads race with all of them.

**Database** (`database`): maps, prefix watches, corks (batched log flushes),
thread pool.  RocksDB itself is external.  The protocols depend on two things:
writes are visible at once and durable later, in order; a watcher registered on
a prefix is notified of later writes.  A map's watch table
(`map/watch.rs`) is a mutex around a map from prefixes to watch senders; entries
are made by subscriptions and removed by notifications that reach nobody and by
the drop guards of one-shot watches.
*Hard*: the write and its notification are two steps, and so are a drop guard and
the drop of its receiver.  *Correct when*: no listener loses its sender.

**Client sync and streams** (`service/sync`, `service/streams`, `api/client/sync`):
register watchers, sample the counter, collect, and wait if there was nothing.
State: the receivers and tokens of a request; the token a client keeps.
*Hard*: writes, joins and reaping between any two of these steps; lost responses;
tokens that a crash made obsolete.  *Correct when*: a poll is woken by what
concerns it, and a token never passes a row that was not sent.

**Room state storage** (`service/rooms/state_compressor`, `short`, `state`).  Durable:
states as diffs over a parent, the table that interns a state under a short id,
the room's current id, forward extremities.  Memory: an LRU cache of layer stacks.
Operations: `save_state`, `append_to_state`, `set_event_state`, `force_state`,
`load_shortstatehash_info`, `save_state_from_diff`.
*Hard*: layers are merged over a long run of saves; some savers hold the room's
state mutex and some do not.  *Correct when*: a state loads as it was saved, from
a bounded number of layers; ids do not dangle; no append undoes another.

**Inbound events and timeline** (`service/rooms/event_handler`, `timeline`).  Durable:
timeline rows with a sequence number per room, the room's sequence bounds,
references, forward extremities, outliers.  Memory: the federation, state and
insertion mutexes of the room.  Operations: `handle_incoming_pdu` and what it
calls, `build_and_append_pdu`, `append_pdu`, `backfill_pdu`.
*Hard*: requests hold different subsets of the three mutexes; the existence check
is outside of the state mutex.  *Correct when*: an event is appended once, numbers
are unique, leaves are neither lost nor all gone, and nobody deadlocks.

**Other room services**: state resolution, caches of membership and auth chains,
receipts, typing, retention, queries.

**Users, devices, presence, pushers, media, accounts, keys, resolver**: mostly
keyed storage and remote I/O; one-time-key claims, presence timers, the
suppressed-push queue and media reference counts have some concurrency.

**Service manager, configuration, API handlers, router, admin**: start-up,
supervision and translation of requests to service calls.

`PROJECT.json` lists each with its files and the reason when it is not modelled.

### 1.2 Who meets whom

* A producer writes a row under a number, then drops the permit; sync readers
  ask for a number and scan.  They meet in the counter and in the watch table.
* The handlers of incoming events, local sends, joins, invites and backfills meet
  in the three mutexes of a room, which each of them takes in part.
* Tasks that save states meet in the intern table's per-state lock and, when they
  change the room's state, in its state mutex.
* A producer inserts a queue row, then sends a message to the destination's
  worker.  The two are separate steps; a crash or a closed channel can fall
  between them.
* The worker, its request futures and every other federation request read and
  write the same peer-status rows.
* `cleanup_events` deletes a pusher's or appservice's rows behind the worker's
  back.
* A fetch's lifetime is decided by a reference count that callers drop on their
  own tasks.

### 1.3 Hazards

The `hazards` of `PROJECT.json` name, line by line, what a test would hardly
reach and which property covers it.  The ones without a property, and why:

* `sender.rs:563`, `sender.rs:722`, `sender.rs:396`: three ways in which a
  destination waits for its next message instead of a wake.  They are behaviours
  of the code, present in the model; see section 4 on what `RowsDrain` assumes.
* `sender.rs:835`: one watermark for three concurrent EDU scans - planned.
* `fetcher/worker.rs:49`: requests still in the channel at the interrupt.
* `timeline/append.rs:184`: a leaf whose event is not stored, after a crash or a
  failed read; it is in the model and no statement of the code excludes it.

## 2. The models

### 2.1 TwoPhaseCounter

| variable | code |
|---|---|
| `dispatched`, `pending` | fields of `State` |
| `released` | the value in the `retires` watch channel |
| `log` | the database states a crash can fall back to: `log[1]` is flushed, each later element has one more log record, the last is what reads see; a state is the counter row and the rows written under a number |
| `permit[w]` | the number writer `w` holds |
| `reader[r]` | a reader's position, its snapshot, its token, what it saw |

`Dispatch` is `Counter::next` with its commit callback (`store_count` inserts the
counter row under a cork that does not flush when dropped) and the overflow check.
`WriteRow` is a `Map::insert` under the number; it flushes the log unless a cork is
held.  `Retire` is the drop of the permit: only the oldest pending number
releases, and it releases `dispatched` if it was the last.  `WaitPending`,
`WaitReturn`, `CurrentCount` and `Scan` are a reader.  `FlushWal` and `Crash` are
the environment: a crash keeps some prefix of the log and `Data::new` starts from
the counter row in it.

Every release is one atomic step because `retire` and the sending of the release
happen under the state lock; a draw whose commit fails changes nothing.

The comment at the release ("release occurs for the maximum retired value",
`two_phase_counter.rs:182`) is not what happens while numbers are pending: the
oldest releases its own number although later ones may have retired before it.  This costs a waiter nothing it needs (`ReleaseCatchesUp`), so it
is noted here only.

### 2.2 Fetcher

| variable | code |
|---|---|
| `caller[c]` | a call of `Service::fetch`: position, key, interest token, answer |
| `channel`, `closed` | the request channel |
| `worker` | position in `work_loop`: loop head, drain, select, re-admission, stopped |
| `inflight[k]` | the entry's weak interest, named by the caller whose request created the token |
| `futures` | running `run_attempts`: the weak token they check, candidates left, requests racing, round |
| `pending` | the deferral queue |

A token is alive while a subscribed caller holds it (`Alive`), which is
`Weak::upgrade`.  `OnRequest` is the whole of `on_request`: defer at capacity,
dispatch, join, or re-arm.  `OnComplete` is the whole of `on_complete`: a Cancelled
result whose entry was re-armed is pushed again, any other is published, the entry
removed and the slot freed; its re-admission loop is `Admit`, one request at a
time, because callers can drop tokens meanwhile.  `SelectCandidates`, `StartRound`,
`AttemptHit` and `AttemptMiss` are `run_attempts`.  Which servers are tried, what they
answer and whether a body validates are choices of the environment;
`Growth` is the `FanoutGrowth` of the options (fixed, linear or geometric) and `GrowthWidth`
the width of a round before it is clamped.

Requests that are in the channel when `interrupt` closes it are not drained by
the worker; whether their callers return then depends on when the last receiver
handle is dropped, outside of the module.

### 2.3 Sending

One destination of any kind, chosen in `Init`.  `shard_id` gives a destination to
one worker for good, and everything a worker keeps is keyed by destination, so
destinations meet only in the order the worker serves them, which the model
leaves open.

| variable | code |
|---|---|
| `dest` | the destination followed, with the rows it may get |
| `queued`, `active` | the two tables, restricted to the destination |
| `fresh`, `presence` | what lies past the server's EDU watermark |
| `peer` | failure rows of the server: none, in backoff, backoff elapsed |
| `disk` | what the flushed log recovers to |
| `mode` | the worker task: running, channel closed, finishing, down |
| `worker` | idle, or the step of a handler the worker is suspended at |
| `status`, `backoff`, `futures`, `wakes` | `statuses`, the backoff window of Failed, request futures, `WakeQueue` entries |
| `channel`, `outbox` | messages sent; rows written whose message is not sent yet |
| `known`, `settled`, `dropped`, `skipped` | history: rows written and not lost, rows reported Ok, rows discarded, receipts the watermark passed unread |

Producers: `Enqueue` then `Dispatch` (row, then message), `SendFlush`,
`NotifyPeerAlive`, `OtherRequest` (any other federation request to the server),
`AccrueEdu` and `AccruePresence` (device changes, receipts, presence past the
watermark), `CleanupActive` then `CleanupQueued`.

Worker: `HandleRequest`; the ends of a request (`FutureOk`, `FutureServerErr`,
`FutureAppserviceErr`, `FuturePushErr`), each of which leaves the worker at a step
of `handle_response`; `HandleResponseOk`, `HandleResponseErr`; the outcomes of
`handle_wake` (`DropWake`, `HandlePushWake`, `HandleServerWake` followed by
`HandleWakeFlush`).  What they share is `SelectEvents` (`select_events`,
`select_events_current`, `schedule_events`): refuse, retry the active rows, or
compose the next transaction.  `Compose` marks the rows active, tops up EDUs
within the budget, queues the overflow, and sends.

The scan for receipts stops after `ReceiptLimit` (`SELECT_RECEIPT_LIMIT`) users and leaves
the rest of a room unread (`Unread`), while the other rooms and the scans for device
changes and presence raise the one watermark they share.  So some of the unread
receipts stay past the watermark and others fall below it, for good (`skipped`).  Which ones
depends on rooms and on the order of the scans and is left open; a member of `Receipts` stands
for what one user has read.  The rows are written before the watermark, without an await between
them, so `Compose` is one step: a crash in the middle has EDUs selected again, as one just
before it does.

The worker is one task and polls its futures between handlers, so a handler is
one step except at the awaits where another task can change what it reads next:
between the failure being recorded in the request and the read that decides to
arm a wake, and between the two reads of `should_attempt` in `handle_wake`.

Life cycle: `Interrupt`, `LeaveLoop`, `FinishResponse`, `Stop` are the graceful
shutdown; `Crash` loses the unflushed log; `StartupBurst` is `startup_netburst`.

Left out: what the scans behind `select_edus` read and in which order, the
suppressed-push queue, MSC3202 key counts, encodings, the arithmetic of streaks
and delays.  `FlushWal` is not followed once no further crash is allowed: it
changes only what a crash would recover.

### 2.4 VisibleLog, MapWatch, SyncPoll, PrevGap

`VisibleLog` states what the counter promises, without release channel, pending
set and log: a reader may be told any number below all numbers held, once it
reaches what was drawn when the reader asked; a crash keeps some rows and a number
that covers them.  `TwoPhaseCounter` implements it (`ImplementsLog`, proved as
`CounterImplementsLog`) with `drawn` = `dispatched`, `rows` = the rows of the newest
log state, and `permit` and `reader` as they are.  `SyncPoll` is built on it, so that
what is shown of the polls holds over the real counter.

`MapWatch` is the watch table: `entries` (`Watch::watchers`), `rx` (receivers that
hear from the present sender of their prefix), `fired` (receivers with something to
consume).  Each operator is one critical section: `Subscribe`, `NotifyPrefix` (with
the reaping), `GuardPrefix` (the drop guard), `DropReceivers`.

`SyncPoll`: a writer draws (`Begin`), inserts (`Insert`), notifies (`Notify`), drops its
permit; `Map::insert` is two steps because readers run between them.  A poll is
`Request`, `WatchUser`, `WatchRooms`, `Sample`, `Sampled`, `Build`, then `Receive`, or sleep
until `Wake` or `PollTimeout`.  A row is about the user, a room or something else; the first
row about the user puts it into the room, so a room can be joined after its
watchers were or were not registered.  `client[r]` is the token the client keeps and
the rows it was sent.  The rows are those `sync/watch.rs` has a watcher for: responses also carry
presence and private read markers, for which it has none, so a poll sleeps through them
until another row wakes it or it times out.  `Disconnect` loses the request or its response, `Die` is a crash.

`PrevGap`: for each missing prev event a handler registers a one-shot watch
(`WatchEvent`), looks whether the event is there (`Recheck`), and polls what is left
until it fires (`GapWake`) or the deadline (`GapDeadline`).  A polled future ends in two
steps, `DropGuard` and `DropReceiver`.  Rows come and go by `ChangeRow`, `NotifyRow`.

### 2.5 RoomState

| variable | code |
|---|---|
| `db.diffs`, `db.hash`, `db.room`, `db.count` | `shortstatehash_statediff`, `statehash_shortstatehash`, `roomid_shortstatehash`, the counter |
| `db.truth` | history: the state each id was drawn for |
| `cache` | `stateinfo_cache` |
| `proc[c]` | a task: where it is, the state it wants, the ids it read, the stack it loaded, its diff |

A state is a set of events with at most one for each slot (type and state key).
`BeginAppend`, `BeginEvent`, `BeginSave` start `append_to_state`, `set_event_state` and
`save_state`; `ReadPrev` and `ReadHash` are their reads, `Descend`, `Ascend`, `LoadFails` the
load, `TakeDiff` the diff, `CheckHash`, `LockHash`, `Recheck` the interning,
`MergeDown` and `Create` `save_state_from_diff`, `Finish` what the caller files, `FinishFails` an
`append_pdu`, or a membership update of `force_state`, that fails before the room's id is set.  `Evict` and
`Crash` are the environment.  The operation "loose" is a save before the mutex is taken
(a forced state, a cached resolution).  The merge is its set equation, the threshold
its arithmetic.

### 2.6 Inbound

| variable | code |
|---|---|
| `db.rows`, `db.bounds` | timeline rows with `r_seq`, `roomid_seqbounds` |
| `db.band`, `db.referenced` | `roomid_pduleaves`, `referencedevents` |
| `fed`, `st`, `ins` | `mutex_federation`, `state.mutex`, `mutex_insert` |
| `request[r]`, `task[r][e]` | a request and how far it is with an event |
| `lost`, `torn` | history: leaves given up on purpose or by a crash; a crash inside the replacement of the band |

`Deliver` is a transaction or a backfill that got the federation mutex, `JoinLocally`
and `FallBack` a restricted join, `Build` a local event.  `Handle`, `Upgrade`, `CheckExists`,
`Evaluate` are the pipeline to the state mutex and under it; `MarkReferenced`,
`ClearBand`, `PutBand` the bookkeeping before the row; `LockInsert`, `AppendRow` the
row; `SoftFail`, `AppendFails`, `Accept` the ends; `Backfill`, `LockPrepend`, `PrependRow` the
other direction.  What signatures, auth rules and policy decide is left open, and so
is which of the missing ancestors (`Ancestors`, at any depth) are fetched before
`max_fetch_prev_events` or a failure ends the walk.  `Survivors` is the selection of leaves to
prune with its three rules (unstored ones are swept, ours stay, one remains);
which of the others go is left open.  The numbers in a room are not capped: an
event can be stored at most twice, so the state space is finite.

### 2.7 What the parts promise

Four modules say what a part is for, without its mechanism, and the part is shown to
implement them step by step:

* `VisibleLog`, the counter (section 2.4).
* `SharedFetch`, the fetcher: a call joins the fetch of its key, or starts it if
  there is a slot; when the fetch ends, everyone who joined it gets its answer in that
  step, and Cancelled only if nobody did; after the interrupt everyone who joined is
  told Cancelled.  A fetch is an entry of the in-flight map (`fetching`), a call is
  its position, key and answer (`calls`); the channel, deferrals, tokens, rounds and
  re-armed attempts are stutters.
* `DeliveryQueue`, the sender: an item is owed from its acceptance until a
  transaction that carried it was answered or it was discarded; one transaction at a
  time carries owed items; the log has everything owed, a shutdown leaves exactly that, and a
  crash brings back what the log had, which is the only way an item that was
  delivered is owed again.  `owed` is everything queued, past the watermark or active, without
  the active rows once the worker has the Ok of their transaction; `carried` is what
  the future holds, `logged` what the flushed log recovers to, `givenUp` what was dropped
  or skipped: of the items only receipts (`Lossy`) may be given up by composing a transaction.  Statuses, wakes,
  retries that find nothing, refusals and the deletion of acknowledged rows are
  stutters.
* `StateStore`, the state storage: the room has a state, states are saved under
  numbers for good and interned once, a reader of a number is shown the state saved
  under it, and each request takes effect on the room in one step, on the state the room has
  then.  Layers, merges, loads, locks and the second look are stutters.

## 3. What the runs check

| run | instance | shows |
|---|---|---|
| `counter` | 3 writers, 1 reader, numbers to 3 | `NoMissedRow`, `ReleaseCatchesUp`, `DurableRowsCounted`, `FrontierAdvances`, `WaitersReturn`, `ImplementsLog`, types |
| `counter_reuse` | the same | violated: `PendingNotReused` (finding 1) |
| `sync_poll` | 2 writers, 1 client, 2 numbers, 2 faults | `PollsConnected`, `NoSleepThroughWrite`, `NoRowSkipped`, `RowsReachClients` |
| `prev_gap` | 2 handlers, 2 events | `SendersKept`, `NoGapSlept`, `GapCloses` |
| `fetcher` | 3 callers, 2 keys, 1 slot, 2 rounds, geometric growth | `SingleFlight`, `SubscribersHoldToken`, `DeferredOnlyWhenFull`, `NoStaleCancel`, `CallsReturn`, `ImplementsCalls` |
| `sending` | a server and a pusher of four rows, an appservice of three, no restart | `StatusTracksFlight`, `AckCoversActive`, `NoRowLost`, `NoDuplicateDelivery`, `PushFailureArmed` |
| `sending_live` | a server and a pusher, one restart | `RowsDrain`, `BadgesSurviveRestart`, `ImplementsQueue` |
| `sending_wake_race`, `sending_no_burst` | one server | violated: `FailureArmsWake`, `IncompleteKept` (findings 2, 3) |
| `room_state` | 4 events on 2 slots, 2 tasks, 3 ids, one parent layer | `LoadedStateIsSaved`, `LayersBounded`, `GotWhatItWanted`, `NoDanglingIds`, `InternedOnce`, `AppendsToCurrent`, `ImplementsStore` |
| `inbound` | a chain of 2 remote events, 1 local event, 1 join, 2 handlers | `SerializedOnce`, `NumberedOnce`, `BandNonEmpty`, `LeavesKept`, `NoDeadlock` |
| `inbound_twice` | the same | violated: `AppendedOnce` (finding 4) |

**Bounds.**  Three writers are the least for a number that retires neither first
nor last; three numbers let the largest one be reached while others are pending.
Three callers on two keys over one slot give a deferred request, a second one for
the same key, and a caller that joins after the first ones left.  They do not give two
deferred requests for one key admitted to two free slots (four callers and two
slots are out of TLC's reach); `OneFetchPerKey` covers every capacity.  In `sending` the
limits are two rows and two EDUs per transaction, so that three rows need a second
transaction and three fresh EDUs overflow; a pusher has three PDUs and a badge so
that a transaction can fail in part.  Two of the EDUs are receipts and a scan stops after the
first (`ReceiptLimit` 0), so one is found beside one that is not.  `sending` has no restarts: what
they do to the rows is checked by `ImplementsQueue` in `sending_live`, and proved of `NoRowLost` as
`RowsAreKept`.  There one restart lets every table be left over
from before it; the limits on Flush messages (`MaxFlushes`) and restarts
(`MaxRestarts`) bound the environment only.  In `sync_poll` one number can join the room and
the other be a message in it, in either order, with one writer between insert and
notification while the other draws; two faults allow a lost response and then a
crash.  In `prev_gap` each watch entry is shared by two futures, the least for one
guard to count the other's receiver.  In `room_state` three ids are enough for a layer
on a full state and for both reasons to merge (`MaxLayers` is 1, 3 in the code); one slot
has two events, so one replaces another, and one event is a message.  In `inbound` the
second remote event cites the first, so the first can come as an ancestor, alone, or
by the join, and the cap of one leaf (`Cap`, with `Emergency` 2 and `Batch` 1) makes every
append prune.  The proofs below depend on none of these.

**Deadlock.**  The fetcher stops when every caller is done and the service is
interrupted, and the sender when nothing is left to do and no restart is allowed;
their runs do not check deadlock.  `room_state` stops when its ids are used up.  In
`inbound` a crash is always possible, so deadlock is a property of its own, `NoDeadlock`:
while requests are under way, one of them can go on without waiting for a mutex or for an
ancestor (`CanGoOn`, spelled out rather than with ENABLED so that it can be proved).  The
others check deadlock.  The type invariants of the parts are theorems and the run `counter` checks
the counter's, in which an overflow would show.

**Fairness.**
* Counter: a permit is a scope guard, so `Retire` is weakly fair; a waiter whose
  condition holds is polled again because the watch channel woke it.  Nothing is
  assumed of drawing, writing, flushing.
* Fetcher: the worker's own steps are weakly fair.  `PollKey` is strongly fair: the
  select alternates with requests, and a federation request ends by answer or by
  its client timeout.
* Polls: inserts run to their end and permits are dropped; a client asks again and
  its handler is polled.  Nothing is assumed of timeouts, so `RowsReachClients` does not
  lean on the poll that begins when one ends.
* Waits for prev events: notifications and the futures' steps are weakly fair; the
  deadline is not.
* Sending: handlers, message sends, passing time and the shutdown steps are
  weakly fair.  `FutureOk` is strongly fair: a remote that is tried again and again
  answers at some point.  No fairness for enqueueing, crashing, or interrupting.

## 4. What the liveness property of the sender assumes

`RowsDrain` is checked for destinations whose worker arms wakes (servers and
pushers; an appservice is retried by its next message only), without presence,
4xx answers, other requests to the server and deregistration, and with handlers
faster than a backoff (`SlowHandlers = FALSE`, seconds against one await).  Each of
these is left out because with it the code itself leaves a destination to its
next message:

* other traffic clears the failure rows between failure and arming (finding);
* other traffic fails between the two reads of `handle_wake`;
* a 4xx is not recorded as a failure, so no wake is armed;
* a failed transaction of presence alone has no rows to retry, the retry is
  empty, and rows queued meanwhile wait;
* rows queued and not active at a restart are looked at only for badge refreshes;
* a cleanup during Failed leaves an empty retry in front of newer rows.

All safety runs have them on.

## 5. Findings

Each is a sentence in the code base that the code does not keep; each has a run.

1. `counter_reuse`.  "This prevents pending numbers from being reused after server
   restart" (`core/utils/two_phase_counter.rs:37`): the commit is corked and not flushed,
   so a process crash forgets it.  Surviving rows are not overwritten
   (`DurableRowsCounted`).
2. `sending_wake_race`.  "Every recorded federation or push failure arms an entry"
   (`service/sending/sender.rs:110`): not when another request to the server
   succeeds in between.
3. `sending_no_burst`.  With `startup_netburst = false` incomplete messages "may not be
   delivered until more messages are queued" (`core/config/mod.rs:3265`): when more
   are queued, the first acknowledgement deletes the incomplete rows unsent.
4. `inbound_twice`.  "Skip the PDU if we already know about it"
   (`event_handler/handle_incoming_pdu.rs:37`), with `mutex_federation` that
   "Serializes room federation" (`event_handler/mod.rs:31`): the fallback of a
   restricted join (`membership/join.rs:904`) and an invite (`membership/invite.rs:160`)
   enter without the mutex, the existence check (`upgrade_outlier_pdu.rs:75`) is before
   the state mutex, and the same event arriving in a transaction gets a second row.
   Among the requests that do hold the mutex it does not happen (`SerializedOnce`).

Seen on the way, without a run of their own:

* `startup_netburst_keep` trims active rows whether or not `startup_netburst` is on, against
  `core/config/mod.rs:3273`.
* "Since this PDU references all pdu_leaves" (`timeline/build.rs:110`): it references at
  most 20 of them (`timeline/create.rs:210`), and the others leave the band without being
  referenced.
* "append_pdu can't fail" (`timeline/build.rs:101`): reading the sequence bounds can, after the new leaf
  was put into the band.  The room then keeps its old state id (`FinishFails`).
* `SELECT_RECEIPT_LIMIT` bounds a scan, but receipts it leaves unread can fall below the watermark and are
  never sent (section 2.3); only a later receipt of the same user supersedes one.
* "A drop guard removes the entry immediately" (`map/watch.rs:55`): not for a future that is
  dropped before its first poll, as `await_prev_gap` does when its recheck finds the event;
  the entry stays until the next write under its key.

## 6. What is proved

All for arbitrary constants under the named assumptions of the modules.

**Counter** (`TwoPhaseCounter_proofs`).  `CounterInductive` shows the inductive
invariant `IInv`: types; pending numbers lie above the release and at most at the
last number drawn, and with none pending the two are equal; a held permit's
number is pending and no other writer holds it; the newest database state counts
to the last number drawn and every log state's counter covers its rows; a token
told to a reader is below every pending number, and what a reader saw is all
there is up to its token.  `NoMissedRow` is not inductive alone: it needs that a
row can only appear under a pending number and that tokens lie below all of them.
The least pending number exists by well-foundedness of the naturals.
`CounterImplementsLog` is the refinement: under `IInv` every step of the counter is a step
of `VisibleLog` or a stutter.  From `IInv` follow `CounterTypes`, `ReadersMissNothing`, `ChannelCatchesUp`,
`RecoveredCounterCovers`, `FrontierNeverRecedes`.

**Fetcher** (`Fetcher_proofs`).  `FetcherInductive` adds to the properties that a
request the worker can still meet names a key, that a round races at least one
server and at most the candidates it has left, within the limit of rounds, and
that the set of fetches is finite.  The central step is `OnRequestKeeps`, used for
requests from the channel and for re-admitted ones alike; the capacity argument
uses the cardinality theorems for finite sets.  From it: `FetcherTypes`,
`OneFetchPerKey`, `TokensStayShared`, `SlotsAreUsed`, `WaitersAreNotCancelled`.
`FetcherImplementsCalls` is the refinement of `SharedFetch`.  It needs nothing beyond
`FetchInv`: that a future's Cancelled is published only with nobody left is `NoStaleCancel`'s
argument, and that a dispatch has a slot in the abstract sense is `DeferredOnlyWhenFull`'s.

**Sending** (`Sending_proofs`).  `SendingInductive` shows `SendInv` for every set of
destinations, all limits, any number of restarts, cleanup, presence, rejections
and other traffic on or off, provided the startup burst is enabled (its default;
finding 3 is what happens otherwise).  Beside the properties it needs two facts:
a destination without a status has no active rows (else composing would put
active rows beside a transaction that does not carry them), and a worker that is
down has nothing in memory.  `FlightAgrees` is what each handler that may send
leaves behind, so the handlers share one lemma (`HandlerKeeps`).  From it:
`SendingTypes`, `OneTransactionInFlight`, `AckDeletesDelivered`, `RowsAreKept`,
`PushBackoffIsArmed`.  `NoRowSentTwice` takes a second invariant on top, `RowsApart`: a row
is in one place at a time, and acknowledged rows are in none, except for the
active rows of a transaction whose Ok is being handled.
`SendingImplementsQueue` is the refinement of `DeliveryQueue`, through any number of crashes.
`RowsApart` is of no use there, since a crash brings back delivered rows; `Places` is what
remains true: a row is in one of the three places, in the tables and in what the log recovers to
alike, the rows of the transaction in flight are in none but the active one, and
everything was written before it was anywhere (so a row is accepted only once).  `ComposeParts` is what they use of composing: the receipts passed
over are among those left unread.  That an
Ok pays off exactly the active rows is `AckCoversActive`; that discarding at the start takes
only what is past `keep` needs the places apart.

**Watches** (`PrevGap_proofs`, `SyncPoll_proofs`).  Both rest on the same facts about the
critical sections of `MapWatch`: a subscription adds receivers, a notification fires all
receivers of its prefix and cuts off nobody, a drop guard cuts off at most its own
future.  For `PrevGap` the properties are nearly inductive: `GapInv` is types, `SendersKept`
and `NoGapSlept`, the second being what lets a notification reach every wait.  For
`SyncPoll` they are far from it.  `PollInv` adds, for each client: while its poll was not
woken, every row past the poll's snapshot under a prefix it watches still has its
notification to come, and a poll that does not watch the room registered before any row
about the user was there (`WakesCome`); the snapshot is at most the token it was told
(`TokenReaches`); below a token handed out no row can appear any more (`TokensSettled`, the
promise of `VisibleLog`); and what was sent up to a token is all there is up to it
(`AllSent`).  From it: `PollTypes`, `PollsStayConnected`, `NoPollSleepsThrough`, `TokensSkipNothing`.
Numbers that a crash made the counter draw again are excepted (finding 1).

**Inbound** (`Inbound_proofs`).  `Inductive` shows `IInv` for any events, graph of prev events,
requests, and limits of the band.  Its parts: the scopes of the three mutexes
(`RequestsRight`: a handler that is not idle holds the federation mutex; `StateHeld`;
`InsertHeld`: the holder of the insertion mutex has the room's current bounds); which tasks
a request may have (`TasksActive`); what a task under the state mutex knows of the leaves
(`LeavesInv`: between computing and putting them no live leaf is forgotten) and what holds
outside (`BandInv`); and `OnceInv`: a handler's or builder's task that found its event
absent still does, which is where `Apart` is needed (two of them never work on one
event).  Requests that enter without the federation mutex are left out of `OnceInv`;
the run `inbound_twice` shows why.  `QuietKeeps` and `ScopedKeeps` do the work for the steps
outside and inside the state mutex; storing a row is `RowOnce` and `RowNumbered`.  From it:
`InboundTypes`, `StoredOnce`, `NumbersUnique`, `BandStays`, `LeavesStay`.
`NeverStuck` (`NoDeadlock`) takes a second invariant, `WaitInv`: whoever holds the state or the
insertion mutex is a task, or a joining request, at a place of the code that still has it
(`StateInScope`, `InsertInScope`), and a request that builds or backfills an event has its task
under way (`TasksBegun`).  Then the holder of the insertion mutex can go on; with that
mutex free, so can the holder of the state mutex; with both free, every task that waits
for a mutex can; and if no task has begun, a request has an ancestor left all of whose own
ancestors are done, because the graph of prev events has no cycle.  That last fact is an assumption
on `PrevOf` (an event's id is a hash over its prev_events), stated as: every nonempty set of events
has one that cites none of the set.

**RoomState** (`RoomState_proofs`).  `RoomStateInvariant` shows `IInv` for any finite set of
events, any slots, tasks, limit of layers and merge thresholds.  `LoadedStateIsSaved` is not
inductive: merging two diffs is right only if both are *exact*, that is, add only what the
state below lacks and remove only what it has (`Exact`).  So the invariant says that every
stored diff, and every diff a task carries, is exact over the state below it
(`DiffsRight`, `ProcRight`), and `MergeExact` that a merge keeps it so; a merge down to the
bottom then leaves nothing to remove (`RootsAreFull`), which is what lets a load read `added`
alone.  Cached stacks and those in hand are chains of stored diffs (`Stacked`), and the ids
still to load lead from the stack to the id the task started from (`ChainRight`).  The bound on
layers is shown with a witness: the depth of each stored state, extended when a row is
added.  `LocksRight` holds the mutual exclusion of the room's mutex and of the intern
table's lock: the first is why an append's parent is still the room's state when it is set,
the second why the state a task is about to create is still not in the table.  When rows are
added or the room's id is set, `ProcGrows` carries over what the other tasks rely on.  From it:
`RoomStateTypes`, `LoadsRight`, `LoadsBounded`, `GetsWhatItWants`, `IdsResolve`, `RootsAreFull`,
`InternsOnce`, `AppendsRight`.
`RoomStateImplementsStore` is the refinement of `StateStore`.  A request takes effect in
`Finish`; the one addition to the invariant it asked for is that a message which
finishes holds the room's present id, so filing it back changes nothing.  The second look under
the lock is what makes a save one abstract step; the exactness of diffs makes what
is shown the state that was saved.

**Only model-checked**: liveness under fairness (`WaitersReturn`, `CallsReturn`,
`RowsDrain`, `BadgesSurviveRestart`, `RowsReachClients`, `GapCloses`): the prover does not reach these.
Every other property of a passing run is a theorem.  The four violations are counterexamples.

## 7. Plan

1. Theorems: what holds of the requests that enter without the federation mutex in
   `Inbound`, where `SerializedOnce` leaves them out.
2. `SelectEdus`: the three scans behind `select_edus` over several rooms, to say which receipts
   are passed over; `PeerStatus`: streak, delay and verdict of `peer.rs` against a reference.
   Both refine steps of `Sending`.
3. Abstractions of the two parts that have none: the timeline of a room as a sequence
   of appended events with its leaves (`Inbound`), the rows a client is owed (`SyncPoll`).
4. `MutexMap` (a lock per key, idle entries removed), the service supervisor (start,
   restart with delay, interrupt order), the suppressed-push queue, media references
   against deletion, one-time-key claims.
5. `collapse_forward_extremities` and the operator's prune beside `Inbound`; the membership
   tables of `state_cache`; state resolution as operators over small rooms.

## 8. Not modelled

The models stand for a few thousand lines out of some 176,000.  Most of the rest has no state machine:
request and response types and the handlers that translate them, the configuration
struct, admin commands, encodings, keyed storage with single inserts, migrations,
remote I/O and cryptography.  Of these a model would repeat assignments and say
nothing a unit test does not.  Parts that do have logic worth modelling and are not
here: the connection state and list windows of sliding sync (`api/client/sync/v5`), state
resolution, presence timers, the content of sync responses (lazy loading, limited
timelines), retention and deletion jobs, the resolver's caches.  `PROJECT.json` gives each
component's reason.
