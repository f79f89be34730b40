------------------------------ MODULE Sending ------------------------------
(***************************************************************************)
(* The outgoing queue of ONE destination and the sender worker that drains *)
(* it (service/sending): the durable rows queued for the destination and   *)
(* the rows of the transaction being sent (`queued', `active'), the        *)
(* worker's in-memory TransactionStatus, its in-flight request futures,    *)
(* its retry timers (`wakes') and the channel producers wake it through.   *)
(*                                                                         *)
(* A destination is always served by the same worker (shard_id) and every  *)
(* piece of worker state is keyed by the destination, so destinations only *)
(* meet in the order in which the worker serves them; one destination, any *)
(* of Dests, is the whole protocol.                                        *)
(*                                                                         *)
(* The worker is one task: it runs one handler at a time and polls its     *)
(* futures only between handlers.  `worker' is what it is in the middle of *)
(* at the awaits where other tasks of the server can intervene.            *)
(***************************************************************************)
EXTENDS Integers, Sequences, FiniteSets, SequencesExt

CONSTANTS
    Dests,            \* destinations, each with the rows it may get
    DequeueLimit,     \* DEQUEUE_LIMIT
    EduLimit,         \* EDU_LIMIT
    Receipts,         \* the EDUs that are read receipts, one per user
    ReceiptLimit,     \* SELECT_RECEIPT_LIMIT
    StartupNetburst,  \* config startup_netburst
    Keep,             \* config startup_netburst_keep; negative keeps all
    AllowPresence,    \* config allow_outgoing_presence
    Rejections,       \* whether the remote may answer a 4xx
    OtherTraffic,     \* whether other requests to the server record outcomes
    SlowHandlers,     \* whether a handler's await may outlast a peer's backoff
    Cleanups,         \* whether the pusher or appservice may be deregistered
    MaxFlushes,       \* bound on Flush messages
    MaxRestarts       \* bound on crashes and shutdowns

Destinations ==
    [kind   : {"federation", "appservice", "push"},
     pdus   : SUBSET (Nat \ {0}),    \* queued by send_pdu_*; keys, in database order
     edus   : SUBSET (Nat \ {0}),    \* queued by send_edu_*, or found by select_edus
     badges : SUBSET (Nat \ {0})]    \* BadgeRefresh

ASSUME DestsAssumption ==
    \A d \in Dests :
        /\ d \in Destinations
        /\ IsFiniteSet(d.pdus \union d.edus \union d.badges)
        /\ d.pdus \intersect (d.edus \union d.badges) = {}
        /\ IF d.kind = "push" THEN d.edus = {} ELSE d.badges = {}

ASSUME OptionsAssumption ==
    {StartupNetburst, AllowPresence, Rejections, OtherTraffic, SlowHandlers,
     Cleanups} \subseteq BOOLEAN

ASSUME BoundsAssumption ==
    /\ {DequeueLimit, EduLimit} \subseteq Nat \ {0}
    /\ DequeueLimit <= EduLimit
    /\ Keep \in Int
    /\ {ReceiptLimit, MaxFlushes, MaxRestarts} \subseteq Nat

VARIABLES
    dest,      \* the destination followed
    queued,    \* servernameevent_data rows of the destination
    active,    \* servercurrentevent_data rows of the destination
    fresh,     \* EDUs past the destination's educount watermark
    presence,  \* a presence update lies past the watermark
    peer,      \* peer_status failure rows: "clear", "backoff" or "elapsed"
    disk,      \* what the flushed write-ahead log recovers to
    mode,      \* the worker task's life: "run", "closed", "finish", "down"
    worker,    \* "idle", or the step of a handler it is suspended at
    status,    \* TransactionStatus of the destination, "none" when absent
    backoff,   \* the push backoff window of Failed is still open
    futures,   \* in-flight transactions
    wakes,     \* entries of the WakeQueue for the destination
    channel,   \* messages sent to the worker
    outbox,    \* messages whose row is written but which are not sent yet
    cleaning,  \* cleanup_events is between its two deletions
    flushes,   \* Flush messages produced so far
    restarts,  \* crashes and shutdowns so far
    known,     \* rows written and not lost with an unflushed log
    settled,   \* rows of transactions, or pushes, that reported Ok
    dropped,   \* rows discarded by netburst trimming or by cleanup_events
    skipped    \* receipts the watermark has passed unread

durable == <<queued, active, fresh, presence, peer>>
memory  == <<status, backoff, futures, wakes>>
senders == <<channel, outbox, cleaning, flushes>>
ghosts  == <<known, settled, dropped, skipped>>
vars    == <<dest, durable, disk, mode, worker, memory, senders, restarts, ghosts>>

Kind   == dest.kind
Pdus   == dest.pdus
Edus   == dest.edus
Badges == dest.badges
Rows   == Pdus \union Edus \union Badges

\* A Flush message: the empty queue_id, which is no row's key.
Flush == 0

InFlightStatus == {"running", "force"}

\* The k rows with the smallest keys: a prefix scan cut off by take(k).
FirstRows(S, k) == {r \in S : Cardinality({q \in S : q < r}) < k}

Payloads == [rows : SUBSET Rows, presence : BOOLEAN]

IsEmptyPayload(p) == p.rows = {} /\ ~p.presence

Recovered == [queued |-> queued, active |-> active, fresh |-> fresh,
              presence |-> presence, peer |-> peer]

\* should_attempt answers No
PeerHeld == Kind = "federation" /\ peer = "backoff"

Init ==
    /\ dest \in Dests
    /\ queued = {} /\ active = {} /\ fresh = {} /\ presence = FALSE
    /\ peer = "clear"
    /\ disk = Recovered
    /\ mode = "down"
    /\ worker = "idle"
    /\ status = "none" /\ backoff = FALSE /\ futures = <<>> /\ wakes = 0
    /\ channel = <<>> /\ outbox = {} /\ cleaning = FALSE
    /\ flushes = 0 /\ restarts = 0
    /\ known = {} /\ settled = {} /\ dropped = {} /\ skipped = {}

-----------------------------------------------------------------------------
(* Producers: other tasks of the server. *)

\* queue_and_dispatch, send_pdu_servers: the row is inserted first ...
Enqueue(r) ==
    /\ mode # "down"
    /\ r \in Rows \ known
    /\ queued' = queued \union {r}
    /\ outbox' = outbox \union {r}
    /\ known' = known \union {r}
    /\ UNCHANGED <<dest, active, fresh, presence, peer, disk, mode, worker,
                   memory, channel, cleaning, flushes, restarts, settled,
                   dropped, skipped>>

\* ... and the message is sent after it.  On a closed channel the send fails
\* and only the row remains.
Dispatch(m) ==
    /\ mode # "down"
    /\ m \in outbox
    /\ outbox' = outbox \ {m}
    /\ channel' = IF mode = "run" THEN Append(channel, m) ELSE channel
    /\ UNCHANGED <<dest, durable, disk, mode, worker, memory, cleaning,
                   flushes, restarts, ghosts>>

\* flush_servers, flush_appservice
SendFlush ==
    /\ Kind # "push"
    /\ mode = "run"
    /\ flushes < MaxFlushes
    /\ flushes' = flushes + 1
    /\ channel' = Append(channel, Flush)
    /\ UNCHANGED <<dest, durable, disk, mode, worker, memory, outbox,
                   cleaning, restarts, ghosts>>

\* notify_peer_alive: the failure rows are deleted, then a Flush is sent.
NotifyPeerAlive ==
    /\ Kind = "federation"
    /\ mode # "down"
    /\ peer # "clear"
    /\ flushes < MaxFlushes
    /\ flushes' = flushes + 1
    /\ peer' = "clear"
    /\ outbox' = outbox \union {Flush}
    /\ UNCHANGED <<dest, queued, active, fresh, presence, disk, mode, worker,
                   memory, channel, cleaning, restarts, ghosts>>

\* execute_on for any other request to the same server.
OtherRequest ==
    /\ OtherTraffic
    /\ Kind = "federation"
    /\ mode # "down"
    /\ peer' \in {"clear", "backoff"}
    /\ UNCHANGED <<dest, queued, active, fresh, presence, disk, mode, worker,
                   memory, senders, restarts, ghosts>>

\* A device change or a receipt lands past the watermark.
AccrueEdu(e) ==
    /\ Kind = "federation"
    /\ mode # "down"
    /\ e \in Edus \ known
    /\ fresh' = fresh \union {e}
    /\ known' = known \union {e}
    /\ UNCHANGED <<dest, queued, active, presence, peer, disk, mode, worker,
                   memory, senders, restarts, settled, dropped, skipped>>

AccruePresence ==
    /\ AllowPresence
    /\ Kind = "federation"
    /\ mode # "down"
    /\ ~presence
    /\ presence' = TRUE
    /\ UNCHANGED <<dest, queued, active, fresh, peer, disk, mode, worker,
                   memory, senders, restarts, ghosts>>

\* cleanup_events -> delete_all_requests_for: the active rows are deleted,
CleanupActive ==
    /\ Cleanups
    /\ Kind # "federation"
    /\ mode # "down"
    /\ ~cleaning
    /\ cleaning' = TRUE
    /\ active' = {}
    /\ dropped' = dropped \union active
    /\ UNCHANGED <<dest, queued, fresh, presence, peer, disk, mode, worker,
                   memory, channel, outbox, flushes, restarts, known,
                   settled, skipped>>

\* and in a second scan the queued ones.
CleanupQueued ==
    /\ mode # "down"
    /\ cleaning
    /\ cleaning' = FALSE
    /\ queued' = {}
    /\ dropped' = dropped \union queued
    /\ UNCHANGED <<dest, active, fresh, presence, peer, disk, mode, worker,
                   memory, channel, outbox, flushes, restarts, known,
                   settled, skipped>>

\* Time passes: exponential_backoff_remaining_secs turns None for a Failed
\* push, attempt_verdict turns Yes for a peer.
BackoffElapses ==
    /\ \/ backoff /\ backoff' = FALSE /\ peer' = peer
       \/ /\ peer = "backoff" /\ peer' = "elapsed"
          /\ SlowHandlers \/ worker = "idle"
          /\ backoff' = backoff
    /\ UNCHANGED <<dest, queued, active, fresh, presence, disk, mode, worker,
                   status, futures, wakes, senders, restarts, ghosts>>

\* An uncorked write, or RocksDB, flushes the buffered log (not followed once no
\* crash can happen any more).
FlushWal ==
    /\ mode # "down"
    /\ restarts < MaxRestarts
    /\ disk' = Recovered
    /\ UNCHANGED <<dest, durable, mode, worker, memory, senders, restarts,
                   ghosts>>

-----------------------------------------------------------------------------
(* Composing transactions. *)

\* schedule_events, and the tail of handle_response_ok: an empty transaction
\* removes the status, any other becomes a future.
Transmit(payload, as) ==
    IF IsEmptyPayload(payload)
    THEN status' = "none" /\ UNCHANGED futures
    ELSE status' = as /\ futures' = Append(futures, payload)

\* select_edus_receipts_room stops at ReceiptLimit users and leaves the rest
\* of a room's receipts unread; which ones depends on the rooms and on the
\* order of their scans and is left open.
Unread ==
    {left \in SUBSET (fresh \intersect Receipts) :
        left # {} => Cardinality((fresh \intersect Receipts) \ left) > ReceiptLimit}

\* select_edus: of the EDUs the scans found, those in the remaining budget are
\* persisted as active rows and ride along, the rest become queued rows;
\* presence rides if a slot is left and is never persisted.
EduBudget(rows) == EduLimit - Cardinality(rows \intersect Edus)

Shipped(found, rows) == FirstRows(found, EduBudget(rows))

PresenceRides(found, rows) == presence /\ Cardinality(found) < EduBudget(rows)

\* The queue rows `rows' become active (mark_as_active) beside the active
\* rows `kept', EDUs are topped up, and the transaction is sent.  One watermark
\* serves every scan, so it may pass receipts that were left unread: they are
\* never selected again.  (The rows are written before the watermark and
\* without an await between them: a crash in the middle only has EDUs selected
\* once more, as one before the step does.)
Compose(rows, kept) ==
    \E left \in Unread :
        LET found == fresh \ left
            edus  == Shipped(found, rows)
        IN  \E passed \in SUBSET left :
                /\ queued' = (queued \ rows) \union (found \ edus)
                /\ active' = kept \union rows \union edus
                /\ fresh' = left \ passed
                /\ skipped' = skipped \union passed
                /\ presence' = FALSE
                /\ Transmit([rows |-> rows \union edus,
                             presence |-> PresenceRides(found, rows)], "running")

\* (mutant: the message is taken for the row)
RetainAll(rows) == rows

\* retain_queued: a message can outlive its row.
RetainQueued(rows) == rows \intersect queued

\* select_events_current, `allow = false'.
Refused ==
    \/ PeerHeld
    \/ status \in InFlightStatus
    \/ status = "failed" /\ backoff
    \/ status = "retrying" /\ Kind = "push"

\* A Flush for an appservice in flight asks for a retry should it fail.
Refuse(flush) ==
    /\ Refused
    /\ status' = IF flush /\ Kind = "appservice" /\ status \in InFlightStatus
                 THEN "force" ELSE status
    /\ UNCHANGED <<queued, active, fresh, presence, futures, skipped>>

\* (mutant: the retry is not marked as in flight)
RetryStatusStays == status

\* `retry = true': the active rows are sent again, nothing is added.
RetryStatus == IF Kind = "push" THEN "retrying" ELSE "running"

\* (mutant: a retry is cut to DEQUEUE_LIMIT rows)
RetryFirstRows ==
    /\ ~Refused
    /\ status \in {"failed", "retrying"}
    /\ Transmit([rows |-> FirstRows(active, DequeueLimit), presence |-> FALSE],
                RetryStatus)
    /\ UNCHANGED <<queued, active, fresh, presence, skipped>>

RetryActive ==
    /\ ~Refused
    /\ status \in {"failed", "retrying"}
    /\ Transmit([rows |-> active, presence |-> FALSE], RetryStatus)
    /\ UNCHANGED <<queued, active, fresh, presence, skipped>>

ComposeNext(rows) ==
    /\ ~Refused
    /\ status = "none"
    /\ Compose(RetainQueued(rows), active)

\* select_events and schedule_events
SelectEvents(rows, flush) ==
    Refuse(flush) \/ RetryActive \/ ComposeNext(rows)

-----------------------------------------------------------------------------
(* The worker: work_loop and its handlers. *)

Looping == mode \in {"run", "closed"} /\ worker = "idle"

\* handle_request
HandleRequest ==
    /\ Looping
    /\ channel # <<>>
    /\ channel' = Tail(channel)
    /\ LET m == Head(channel) IN
           SelectEvents(IF m = Flush THEN {} ELSE {m}, m = Flush)
    /\ UNCHANGED <<dest, peer, disk, mode, worker, backoff, wakes, outbox,
                   cleaning, flushes, restarts, known, settled, dropped>>

\* futures.next() yields future i, which reported Ok.  A federation request
\* that was really sent also records the success (record_success); one whose
\* PDUs and EDUs are all gone from the database is Ok without a request.
FutureOk(i) ==
    /\ mode # "down"
    /\ worker = "idle"
    /\ futures' = RemoveAt(futures, i)
    /\ worker' = "ok"
    /\ settled' = settled \union futures[i].rows
    /\ peer' \in {peer, "clear"}
    /\ UNCHANGED <<dest, queued, active, fresh, presence, disk, mode, status,
                   backoff, wakes, senders, restarts, known, dropped,
                   skipped>>

\* A federation request failed: execute_on's classify_error recorded it in the
\* peer's rows ("failed"), or found that the answer says nothing about
\* reachability ("rejected").
FutureServerErr(i) ==
    /\ Kind = "federation"
    /\ mode # "down"
    /\ worker = "idle"
    /\ futures' = RemoveAt(futures, i)
    /\ \/ worker' = "failed" /\ peer' = "backoff"
       \/ Rejections /\ worker' = "rejected" /\ peer' = peer
    /\ UNCHANGED <<dest, queued, active, fresh, presence, disk, mode, status,
                   backoff, wakes, senders, restarts, ghosts>>

\* send_events_dest_appservice: the registration is gone, or the request failed.
FutureAppserviceErr(i) ==
    /\ Kind = "appservice"
    /\ mode # "down"
    /\ worker = "idle"
    /\ futures' = RemoveAt(futures, i)
    /\ worker' = "failed"
    /\ UNCHANGED <<dest, durable, disk, mode, status, backoff, wakes, senders,
                   restarts, ghosts>>

\* send_events_dest_push: the active rows of the PDUs that did go out are
\* deleted before the error is returned; a badge or pusher-lookup error sends
\* nothing.
FuturePushErr(i) ==
    /\ Kind = "push"
    /\ mode # "down"
    /\ worker = "idle"
    /\ futures' = RemoveAt(futures, i)
    /\ worker' = "failed"
    /\ LET pdus == futures[i].rows \intersect Pdus IN
           \E sent \in SUBSET pdus :
               /\ sent # {} => sent # pdus
               /\ active' = active \ sent
               /\ settled' = settled \union sent
    /\ UNCHANGED <<dest, queued, fresh, presence, peer, disk, mode, status,
                   backoff, wakes, senders, restarts, known, dropped,
                   skipped>>

\* (mutant: the old active rows are deleted after the new ones are marked)
HandleOkDeletesLast ==
    /\ mode \in {"run", "closed"}
    /\ worker = "ok"
    /\ worker' = "idle"
    /\ queued' = queued \ FirstRows(queued, DequeueLimit)
    /\ active' = {}
    /\ Transmit([rows |-> FirstRows(queued, DequeueLimit), presence |-> FALSE],
                "running")
    /\ UNCHANGED <<dest, fresh, presence, peer, disk, mode, backoff, wakes,
                   senders, restarts, ghosts>>

\* handle_response_ok.  (Here and in handle_response_err the status is present:
\* StatusTracksFlight.)
HandleResponseOk ==
    /\ mode \in {"run", "closed"}
    /\ worker = "ok"
    /\ worker' = "idle"
    /\ Compose(FirstRows(queued, DequeueLimit), {})
    /\ UNCHANGED <<dest, peer, disk, mode, backoff, wakes, senders, restarts,
                   known, settled, dropped>>

\* (mutant: a peer in backoff arms no wake)
HandleErrUnarmed ==
    /\ mode \in {"run", "closed"}
    /\ worker \in {"failed", "rejected"}
    /\ worker' = "idle"
    /\ backoff' = (Kind = "push")
    /\ status' = IF Kind = "push" THEN "failed" ELSE "retrying"
    /\ UNCHANGED <<dest, durable, disk, mode, futures, wakes, senders,
                   restarts, ghosts>>

\* handle_response_err, then the arm of handle_response for the Kind: a peer in
\* backoff and a push arm a wake, a forced appservice retries at once.
HandleResponseErr ==
    /\ mode \in {"run", "closed"}
    /\ worker \in {"failed", "rejected"}
    /\ worker' = "idle"
    /\ backoff' = (Kind = "push")
    /\ wakes' = IF PeerHeld \/ Kind = "push" THEN wakes + 1 ELSE wakes
    /\ IF status = "force"
       THEN Transmit([rows |-> active, presence |-> FALSE], "running")
       ELSE /\ status' = IF Kind = "push" THEN "failed" ELSE "retrying"
            /\ UNCHANGED futures
    /\ UNCHANGED <<dest, durable, disk, mode, senders, restarts, ghosts>>

\* (mutant: an early push wake is dropped even when it is the only one)
DropEarlyWake ==
    /\ Looping
    /\ wakes > 0
    /\ \/ status \in InFlightStatus
       \/ Kind = "push" /\ status = "retrying"
       \/ Kind = "push" /\ status = "failed" /\ backoff
    /\ wakes' = wakes - 1
    /\ UNCHANGED <<dest, durable, disk, mode, worker, status, backoff,
                   futures, senders, restarts, ghosts>>

\* handle_wake for an entry overtaken by a transaction in flight, or by the
\* entry of a newer push failure.
DropWake ==
    /\ Looping
    /\ wakes > 0
    /\ \/ status \in InFlightStatus
       \/ Kind = "push" /\ status = "retrying"
       \/ Kind = "push" /\ status = "failed" /\ backoff /\ wakes > 1
    /\ wakes' = wakes - 1
    /\ UNCHANGED <<dest, durable, disk, mode, worker, status, backoff,
                   futures, senders, restarts, ghosts>>

\* handle_wake for a due push entry: handle_force_retry.  (An early one is armed
\* again and changes nothing.)
HandlePushWake ==
    /\ Looping
    /\ wakes > 0
    /\ Kind = "push"
    /\ status \in {"none", "failed"}
    /\ ~(status = "failed" /\ backoff)
    /\ wakes' = wakes - 1
    /\ SelectEvents({}, FALSE)
    /\ UNCHANGED <<dest, peer, disk, mode, worker, backoff, senders, restarts,
                   known, settled, dropped>>

\* handle_wake for a server: while the peer is held the entry is armed again,
\* else the worker goes on to handle a Flush ...
HandleServerWake ==
    /\ Looping
    /\ wakes > 0
    /\ Kind = "federation"
    /\ status \notin InFlightStatus
    /\ ~PeerHeld
    /\ wakes' = wakes - 1
    /\ worker' = "flush"
    /\ UNCHANGED <<dest, durable, disk, mode, status, backoff, futures,
                   senders, restarts, ghosts>>

\* ... which asks should_attempt once more.
HandleWakeFlush ==
    /\ mode \in {"run", "closed"}
    /\ worker = "flush"
    /\ worker' = "idle"
    /\ SelectEvents({}, TRUE)
    /\ UNCHANGED <<dest, peer, disk, mode, backoff, wakes, senders, restarts,
                   known, settled, dropped>>

-----------------------------------------------------------------------------
(* Shutdown, crash and startup. *)

\* interrupt closes the channels; the loop ends after its current iteration.
Interrupt ==
    /\ mode = "run"
    /\ restarts < MaxRestarts
    /\ restarts' = restarts + 1
    /\ mode' = "closed"
    /\ UNCHANGED <<dest, durable, disk, worker, memory, senders, ghosts>>

LeaveLoop ==
    /\ mode = "closed"
    /\ worker = "idle"
    /\ mode' = "finish"
    /\ UNCHANGED <<dest, durable, disk, worker, memory, senders, restarts,
                   ghosts>>

\* (mutant: shutdown deletes the active rows whatever the outcome)
FinishAnyResponse ==
    /\ mode = "finish"
    /\ worker # "idle"
    /\ worker' = "idle"
    /\ active' = {}
    /\ UNCHANGED <<dest, queued, fresh, presence, peer, disk, mode, memory,
                   senders, restarts, ghosts>>

\* finish_responses: Ok still deletes the active rows, an error does nothing.
FinishResponse ==
    /\ mode = "finish"
    /\ worker # "idle"
    /\ worker' = "idle"
    /\ active' = IF worker = "ok" THEN {} ELSE active
    /\ UNCHANGED <<dest, queued, fresh, presence, peer, disk, mode, memory,
                   senders, restarts, ghosts>>

\* The process is gone: the worker's memory, the channel and any half-done
\* producer with it, and the rows are those of `image'.
GoDown(image) ==
    /\ mode' = "down"
    /\ worker' = "idle"
    /\ status' = "none" /\ backoff' = FALSE /\ futures' = <<>> /\ wakes' = 0
    /\ channel' = <<>> /\ outbox' = {} /\ cleaning' = FALSE
    /\ queued' = image.queued /\ active' = image.active /\ fresh' = image.fresh
    /\ presence' = image.presence /\ peer' = image.peer
    /\ disk' = image
    /\ known' = image.queued \union image.active \union image.fresh
                    \union (known \intersect (settled \union dropped \union skipped))
    /\ UNCHANGED <<dest, flushes, settled, dropped, skipped>>

\* finish_responses has no future left, or sender_shutdown_timeout is over.
Stop ==
    /\ mode = "finish"
    /\ worker = "idle"
    /\ GoDown(Recovered)
    /\ UNCHANGED restarts

\* The unflushed tail of the log is lost.
Crash ==
    /\ mode # "down"
    /\ restarts < MaxRestarts
    /\ restarts' = restarts + 1
    /\ GoDown(disk)

\* startup_netburst: active rows past `keep' are deleted and the others sent
\* again; queued rows are only looked at when one of them is a badge refresh
\* and the status is not already taken (the synthetic BadgeRefresh message).
KeptAtStart == IF Keep < 0 THEN active ELSE FirstRows(active, Keep)

\* (mutant: badge rows queued before the restart are not looked for)
NoBadgeWake == FALSE

BadgeWake ==
    /\ StartupNetburst /\ Keep # 0
    /\ queued \intersect Badges # {}
    /\ KeptAtStart = {}

StartupBurst ==
    /\ mode = "down"
    /\ mode' = "run"
    /\ dropped' = dropped \union (active \ KeptAtStart)
    /\ IF BadgeWake
       THEN Compose(FirstRows(queued, DequeueLimit), KeptAtStart)
       ELSE /\ active' = KeptAtStart
            /\ IF StartupNetburst
               THEN Transmit([rows |-> KeptAtStart, presence |-> FALSE], "running")
               ELSE UNCHANGED <<status, futures>>
            /\ UNCHANGED <<queued, fresh, presence, skipped>>
    /\ UNCHANGED <<dest, peer, disk, worker, backoff, wakes, senders,
                   restarts, known, settled>>

-----------------------------------------------------------------------------
FutureStep == \E i \in DOMAIN futures :
                  \/ FutureOk(i) \/ FutureServerErr(i)
                  \/ FutureAppserviceErr(i) \/ FuturePushErr(i)

WorkerStep == \/ HandleRequest
              \/ HandleResponseOk \/ HandleResponseErr
              \/ DropWake \/ HandlePushWake
              \/ HandleServerWake \/ HandleWakeFlush

Producer == \/ \E r \in Rows : Enqueue(r) \/ AccrueEdu(r)
            \/ \E m \in outbox : Dispatch(m)
            \/ SendFlush \/ NotifyPeerAlive \/ OtherRequest \/ AccruePresence
            \/ CleanupActive \/ CleanupQueued

Lifecycle == Interrupt \/ LeaveLoop \/ FinishResponse \/ Stop \/ Crash
                 \/ StartupBurst

Next == \/ FutureStep \/ WorkerStep \/ Producer \/ Lifecycle
        \/ BackoffElapses \/ FlushWal

Spec == Init /\ [][Next]_vars

(***************************************************************************)
(* Fairness.  The runtime keeps running the worker and the producers, time *)
(* passes, a request ends (its client has a timeout), and a remote that is *)
(* tried again and again answers at some point.                            *)
(***************************************************************************)
FairSpec ==
    /\ Spec
    /\ WF_vars(HandleRequest)
    /\ WF_vars(HandleResponseOk \/ HandleResponseErr \/ HandleWakeFlush)
    /\ WF_vars(DropWake \/ HandlePushWake \/ HandleServerWake)
    /\ WF_vars(\E m \in outbox : Dispatch(m))
    /\ WF_vars(BackoffElapses)
    /\ WF_vars(LeaveLoop \/ FinishResponse \/ Stop)
    /\ WF_vars(StartupBurst)
    /\ SF_vars(\E i \in DOMAIN futures : FutureOk(i))

-----------------------------------------------------------------------------
(* Properties. *)

\* A future that futures.next() has yielded and whose handler has not finished.
Yielded == IF worker \in {"ok", "failed", "rejected"} THEN 1 ELSE 0

Serving == mode \in {"run", "closed"}

\* Every variable keeps its type: rows stay rows, the worker and the status
\* stay in their enumerations, a WakeQueue entry is never popped twice.
TypeOK ==
    /\ dest \in Dests
    /\ queued \subseteq Rows
    /\ active \subseteq Rows
    /\ fresh \subseteq Edus
    /\ presence \in BOOLEAN
    /\ peer \in {"clear", "backoff", "elapsed"}
    /\ disk \in [queued : SUBSET Rows, active : SUBSET Rows, fresh : SUBSET Edus,
                  presence : BOOLEAN, peer : {"clear", "backoff", "elapsed"}]
    /\ mode \in {"run", "closed", "finish", "down"}
    /\ worker \in {"idle", "ok", "failed", "rejected", "flush"}
    /\ status \in InFlightStatus \union {"none", "failed", "retrying"}
    /\ backoff \in BOOLEAN
    /\ futures \in Seq(Payloads)
    /\ wakes \in Nat
    /\ channel \in Seq(Rows \union {Flush})
    /\ outbox \subseteq Rows \union {Flush}
    /\ cleaning \in BOOLEAN
    /\ flushes \in 0 .. MaxFlushes
    /\ restarts \in 0 .. MaxRestarts
    /\ known \subseteq Rows /\ settled \subseteq Rows /\ dropped \subseteq Rows
    /\ skipped \subseteq Edus \intersect Receipts

\* The status map is the only thing that keeps two transactions to one
\* destination from racing: at most one is ever in flight, and the status says
\* "in flight" exactly while one is (for a push also while Retrying), through
\* every order of requests, wakes, failures and forced retries.
StatusTracksFlight ==
    /\ Len(futures) + Yielded <= 1
    /\ Serving => (Len(futures) + Yielded = 1
                     <=> \/ status \in InFlightStatus
                         \/ Kind = "push" /\ status = "retrying")

\* handle_response_ok deletes ALL active rows of the destination when a
\* transaction is acknowledged.  That is right only because every active row is
\* in the transaction in flight, and was delivered once the Ok is there.
AckCoversActive ==
    /\ \A i \in DOMAIN futures : active \subseteq futures[i].rows
    /\ worker = "ok" => active \subseteq settled

\* No row disappears: whatever was written, and not lost with an unflushed log,
\* is still queued, active or past the EDU watermark, or its transaction
\* reported Ok, or the netburst trim or cleanup_events discarded it.  The only
\* others are receipts: a scan that stopped at SELECT_RECEIPT_LIMIT left them
\* unread and the shared watermark passed them (they are lost).
NoRowLost == known \subseteq queued \union active \union fresh
                                 \union settled \union dropped \union skipped

\* While the server stays up, a row of a transaction that reported Ok (or a push
\* that went out in a partly failed one) is never put in a transaction again,
\* although messages outlive their rows and failed transactions are re-read.
NoDuplicateDelivery ==
    restarts = 0 => \A i \in DOMAIN futures : futures[i].rows \intersect settled = {}

\* A push destination in backoff always has an armed wake: dropping stale wakes
\* and re-arming early ones never loses the last one.
PushFailureArmed ==
    Kind = "push" /\ status = "failed" /\ Serving => wakes > 0

\* Every row whose transaction failed, or that queued up behind one, goes out in
\* the end unless the server goes down first (checked without cleanup, presence,
\* 4xx answers, other requests to the server and handlers slower than a backoff).
RowsDrain ==
    \A r \in UNION {d.pdus \union d.edus \union d.badges : d \in Dests} :
        r \in queued \union active ~> r \in settled \/ restarts > 0

\* A badge refresh that reached the log survives crashes and shutdowns: the
\* netburst finds it and it is sent (queued-only rows of other kinds wait for
\* the destination's next event).
BadgesSurviveRestart ==
    \A r \in UNION {d.badges : d \in Dests} :
        r \in Badges \intersect (queued \union active)
            ~> r \in settled \/ r \notin known

(***************************************************************************)
(* The promise: each row is an item, owed while it is in a table or past   *)
(* the watermark, until the Ok of its transaction is there.                *)
(***************************************************************************)
AllRows == UNION {d.pdus \union d.edus \union d.badges : d \in Dests}
owed == queued \union fresh \union (IF worker = "ok" THEN {} ELSE active)
carried == UNION {futures[i].rows : i \in DOMAIN futures}
logged == disk.queued \union disk.active \union disk.fresh
givenUp == dropped \union skipped

Queue == INSTANCE DeliveryQueue
             WITH Items <- AllRows, Lossy <- Receipts, flight <- carried,
                  sent <- settled, discarded <- givenUp, log <- logged

\* The sender implements the queue: its tables, retries, overflows, wakes,
\* restarts and cleanups amount to one transaction at a time of what is owed;
\* nothing stops being owed unless it was delivered or discarded (a receipt also
\* when a scan at its limit left it unread and the watermark passed it), and
\* after a crash everything the log had is owed again.
ImplementsQueue == Queue!QueueSpec

\* sender.rs, WakeQueue: "Every recorded federation or push failure arms an
\* entry."
FailureArmsWake ==
    [][worker = "failed" /\ worker' = "idle" /\ mode' = mode
         => wakes' = wakes + 1]_vars

\* config startup_netburst: "If this is disabled, said messages may not be
\* delivered until more messages are queued for that server": they are kept
\* until then.
IncompleteKept == NoRowLost
=============================================================================
