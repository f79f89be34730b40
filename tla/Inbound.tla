------------------------------- MODULE Inbound -------------------------------
(***************************************************************************)
(* Events entering one room: received over federation                      *)
(* (service/rooms/event_handler), built here (service/rooms/timeline/      *)
(* build.rs) or backfilled, and the timeline rows, room sequence numbers   *)
(* and forward extremities they leave behind.                              *)
(*                                                                         *)
(* Three mutexes of the room order the work: federation, state, insertion. *)
(* A received event is checked for existence before the state mutex is     *)
(* taken, so only the federation mutex keeps two handlers from appending   *)
(* the same event; two callers (a restricted join that falls back to       *)
(* federation, an invite) enter without it.                                *)
(***************************************************************************)
EXTENDS Integers, FiniteSets

CONSTANTS
    Remote,       \* events of other servers
    Root,         \* the event the timeline starts with
    PrevOf,       \* PrevOf[e]: prev_events of the remote event e
    Built,        \* Built[b]: the event that local builder b makes
    Handlers,     \* requests that bring events and hold the federation mutex
    Signed,       \* Signed[j]: the event that join or invite j comes back with
    MaxPrev,      \* prev_events of a local event: 20
    Cap,          \* forward_extremities_max, 0 for none
    Emergency,    \* forward_extremities_emergency_max
    Batch,        \* forward_extremities_prune_batch
    None

Builders == DOMAIN Built
Unlocked == DOMAIN Signed   \* requests that enter without the federation mutex
Own == {Built[b] : b \in Builders}
Events == {Root} \cup Remote \cup Own
Requests == Handlers \cup Unlocked \cup Builders

ASSUME InboundAssumption ==
    /\ Root \notin Remote \cup Own /\ Remote \cap Own = {}
    /\ None \notin Requests \cup (Requests \X Events)
    /\ Handlers \cap (Unlocked \cup Builders) = {} /\ Unlocked \cap Builders = {}
    /\ \A a, b \in Builders : Built[a] = Built[b] => a = b
    /\ \A j \in Unlocked : Signed[j] \in Remote
    /\ PrevOf \in [Remote -> SUBSET ({Root} \cup Remote)]
    /\ \A S \in SUBSET Remote : S # {} => \E e \in S : PrevOf[e] \cap S = {}   \* ids are hashes
    /\ MaxPrev \in Nat \ {0}
    /\ {Cap, Emergency, Batch} \subseteq Nat

VARIABLES
    db,        \* the tables of the room
    fed,       \* mutex_federation: the request holding it, or None
    st,        \* state.mutex: <<request, event>>, or None
    ins,       \* mutex_insert: <<request, event>>, or None
    request,   \* request[r]: what request r is doing
    task,      \* task[r][e]: how far request r is with event e
    lost,      \* leaves given up: pruned, not cited, or torn off by a crash
    torn       \* a crash left the band empty

vars == <<db, fed, st, ins, request, task, lost, torn>>

(***************************************************************************)
(* A timeline row has its event, its sequence number in the room and (for  *)
(* the properties) the request that wrote it.  Two tables are left out:    *)
(* the outliers, which a handler fills before it reads them, and the       *)
(* soft-fail markers, which only make it withhold an event, as it may here *)
(* for other reasons.                                                      *)
(***************************************************************************)
Db0 ==
    [rows       |-> {[event |-> Root, r_seq |-> 1, by |-> None]},
     bounds     |-> [last |-> 1, low |-> 0],   \* roomid_seqbounds
     band       |-> {Root},                    \* roomid_pduleaves
     referenced |-> {}]                        \* referencedevents

IdleRequest == [pc |-> "idle", event |-> Root, left |-> {}]
NoTask == [pc |-> "none", prev |-> {}, leafs |-> {}, soft |-> FALSE,
           bounds |-> [last |-> 0, low |-> 0]]

Init ==
    /\ db = Db0
    /\ fed = None /\ st = None /\ ins = None
    /\ request = [r \in Requests |-> IdleRequest]
    /\ task = [r \in Requests |-> [e \in Events |-> NoTask]]
    /\ lost = {} /\ torn = FALSE

Stored(e) == \E row \in db.rows : row.event = e   \* get_pdu_id
SetRequest(r, q) == request' = [request EXCEPT ![r] = q]
SetTask(r, e, t) == task' = [task EXCEPT ![r][e] = t]
Locks == <<fed, st, ins>>
Ghosts == <<lost, torn>>

(***************************************************************************)
(* What a request does when its event is settled: the federation guard of  *)
(* a transaction or a backfill drops.                                      *)
(***************************************************************************)
EndRequest(r) ==
    /\ SetRequest(r, IdleRequest)
    /\ fed' = IF fed = r THEN None ELSE fed

(***************************************************************************)
(* Deliver: /send or a backfill brings an event, any number of times, and  *)
(* gets the federation mutex; while it waits for it, it is idle here.      *)
(* A restricted join first tries a local join under the state mutex, and   *)
(* drops that mutex before it handles the event another server signed.     *)
(***************************************************************************)
FederationMutexFreeAlways == TRUE   \* mutant: no federation mutex
FederationMutexFree == fed = None

Deliver(r, e, pc) ==
    /\ r \in Handlers /\ request[r].pc = "idle"
    /\ FederationMutexFree /\ fed' = r
    /\ SetRequest(r, [IdleRequest EXCEPT !.pc = pc, !.event = e])
    /\ UNCHANGED <<db, st, ins, task, Ghosts>>

JoinLocally(r) ==
    /\ r \in Unlocked /\ request[r].pc = "idle"
    /\ st = None /\ st' = <<r, Signed[r]>>
    /\ SetRequest(r, [IdleRequest EXCEPT !.pc = "join", !.event = Signed[r]])
    /\ UNCHANGED <<db, fed, ins, task, Ghosts>>

FallBackHoldingLock(r) ==   \* mutant: keeps the state mutex over the fallback
    /\ request[r].pc = "join"
    /\ SetRequest(r, [request[r] EXCEPT !.pc = "handle"])
    /\ UNCHANGED <<db, Locks, task, Ghosts>>
FallBack(r) ==
    /\ request[r].pc = "join"
    /\ st' = None
    /\ SetRequest(r, [request[r] EXCEPT !.pc = "handle"])
    /\ UNCHANGED <<db, fed, ins, task, lost, torn>>

(***************************************************************************)
(* handle_incoming_pdu: an event in the timeline is skipped; the event is  *)
(* refused, or becomes an outlier; then fetch_prev walks the prevs, and    *)
(* brings any of the ancestors that are missing, as outliers too: which    *)
(* ones, a failed fetch and max_fetch_prev_events decide.                  *)
(***************************************************************************)
Closed(S) == \A q \in S : PrevOf[q] \cap Remote \subseteq S
Ancestors(e) ==
    {p \in Remote : \A S \in SUBSET Remote :
                       PrevOf[e] \cap Remote \subseteq S /\ Closed(S) => p \in S}
Missing(e) == {p \in Ancestors(e) : ~Stored(p)}

Handle(r) ==
    /\ request[r].pc = "handle"
    /\ LET e == request[r].event IN
       \/ EndRequest(r)   \* known, refused, disabled, older than the room
       \/ /\ ~Stored(e)
          /\ \E fetched \in SUBSET Missing(e) :
               SetRequest(r, [request[r] EXCEPT !.pc = "prevs", !.left = fetched])
          /\ UNCHANGED fed
    /\ UNCHANGED <<db, st, ins, task, lost, torn>>

(***************************************************************************)
(* handle_prev_events: the ancestors are upgraded parents first, those     *)
(* with no parent among them concurrently; the incoming event last.        *)
(***************************************************************************)
CanStart(r, e) ==
    \/ e \in request[r].left /\ PrevOf[e] \cap request[r].left = {}
    \/ e = request[r].event /\ request[r].left = {}

Upgrade(r, e) ==
    /\ request[r].pc = "prevs" /\ CanStart(r, e)
    /\ task[r][e].pc = "none"
    /\ SetTask(r, e, [NoTask EXCEPT !.pc = "check"])
    /\ UNCHANGED <<db, Locks, request, Ghosts>>

(***************************************************************************)
(* A task ends: an ancestor comes off the list, the incoming event ends    *)
(* the request.                                                            *)
(***************************************************************************)
EndTask(r, e) ==
    /\ SetTask(r, e, NoTask)
    /\ IF request[r].pc = "prevs" /\ e \in request[r].left
       THEN SetRequest(r, [request[r] EXCEPT !.left = @ \ {e}]) /\ UNCHANGED fed
       ELSE EndRequest(r)

(***************************************************************************)
(* upgrade_outlier_to_timeline_pdu up to the state mutex: an event in the  *)
(* timeline is skipped, one in backoff or still soft failed is withheld,   *)
(* state may not resolve and the positional auth check may reject.         *)
(***************************************************************************)
CheckExists(r, e) ==
    /\ task[r][e].pc = "check"
    /\ \/ /\ EndTask(r, e)
       \/ /\ ~Stored(e)
          /\ SetTask(r, e, [NoTask EXCEPT !.pc = "wait", !.prev = PrevOf[e]])
          /\ UNCHANGED <<fed, request>>
    /\ UNCHANGED <<db, st, ins, Ghosts>>

(***************************************************************************)
(* prune_goal and select: how many leaves go when the band is over the     *)
(* cap, and which may.  Leaves without a row are swept, those our users    *)
(* sent stay, and one leaf always survives.                                *)
(***************************************************************************)
AtLeast(a, b) == IF a >= b THEN a ELSE b
AtMost(a, b) == IF a <= b THEN a ELSE b
PruneGoal(len) ==
    LET emergency == AtLeast(Emergency, Cap)
    IN  AtLeast(AtLeast(len - emergency, 0), AtMost(AtLeast(len - Cap, 0), Batch))

Survivors(leafs, goal) ==
    LET ours == Own \cup {Signed[j] : j \in Unlocked}
        own == {e \in leafs : Stored(e) /\ e \in ours}
        live == {e \in leafs : Stored(e) /\ e \notin ours}
        floor == IF own = {} THEN 1 ELSE 0
        drop == AtMost(goal, AtLeast(Cardinality(live) - floor, 0))
        kept == {own \cup (live \ D) : D \in {D \in SUBSET live : Cardinality(D) = drop}}
    IN  IF own \cup live = {} /\ leafs # {} THEN {{e} : e \in leafs} ELSE kept

Pruned(leafs, extra) ==
    LET len == Cardinality(leafs) + extra
    IN  IF Cap > 0 /\ len > Cap THEN Survivors(leafs, PruneGoal(len)) ELSE {leafs}

(***************************************************************************)
(* Under the state mutex: the event passes the current state or is soft    *)
(* failed, and the leaves left after it are computed.  (The auth check may *)
(* also fail to evaluate.)                                                 *)
(***************************************************************************)
StateMutexFreeAlways == TRUE   \* mutant: no state mutex
StateMutexFree == st = None

Remaining(e) == (db.band \ PrevOf[e]) \ db.referenced

Evaluate(r, e) ==
    /\ task[r][e].pc = "wait" /\ e \in Remote /\ StateMutexFree
    /\ \/ /\ EndTask(r, e)
          /\ UNCHANGED <<st, lost>>
       \/ /\ \E soft \in BOOLEAN :
             \E leafs \in Pruned(Remaining(e), IF soft THEN 0 ELSE 1) :
               /\ SetTask(r, e, [task[r][e] EXCEPT
                                   !.pc = "refer", !.soft = soft,
                                   !.leafs = IF soft THEN leafs ELSE leafs \cup {e}])
               /\ lost' = lost \cup (Remaining(e) \ leafs)
          /\ st' = <<r, e>>
          /\ UNCHANGED <<fed, request>>
    /\ UNCHANGED <<db, ins, torn>>

(***************************************************************************)
(* build_and_append_pdu: at most MaxPrev leaves become prev_events, and    *)
(* the new event replaces them all.  With no leaf the event is refused.    *)
(***************************************************************************)
PrevChoices == {P \in SUBSET db.band : Cardinality(P) = AtMost(MaxPrev, Cardinality(db.band))}

Build(b) ==
    /\ request[b].pc = "idle"
    /\ ~Stored(Built[b]) /\ Built[b] \notin db.band \cup db.referenced   \* a new event id
    /\ StateMutexFree /\ db.band # {}
    /\ st' = <<b, Built[b]>>
    /\ SetRequest(b, [IdleRequest EXCEPT !.pc = "build", !.event = Built[b]])
    /\ \E P \in PrevChoices :
         /\ SetTask(b, Built[b], [NoTask EXCEPT !.pc = "refer", !.prev = P,
                                                !.leafs = {Built[b]}])
         /\ lost' = lost \cup (db.band \ P)
    /\ UNCHANGED <<db, fed, ins, torn>>

(***************************************************************************)
(* mark_as_referenced, then set_forward_extremities, which deletes the     *)
(* rows of the band and puts the new ones.  A soft-failed event that would *)
(* leave no leaf keeps the band it found.                                  *)
(***************************************************************************)
MarkReferenced(r, e) ==
    /\ task[r][e].pc = "refer"
    /\ db' = [db EXCEPT !.referenced = @ \cup task[r][e].prev]
    /\ lost' = lost \ task[r][e].prev
    /\ SetTask(r, e, [task[r][e] EXCEPT !.pc = "clear"])
    /\ UNCHANGED <<Locks, request, torn>>

KeepsBandNever(t) == FALSE   \* mutant: a soft-failed event may empty the band
KeepsBand(t) == t.soft /\ t.leafs = {}

ClearBand(r, e) ==
    /\ task[r][e].pc = "clear"
    /\ IF KeepsBand(task[r][e])
       THEN SetTask(r, e, [task[r][e] EXCEPT !.pc = "soft"]) /\ UNCHANGED db
       ELSE /\ SetTask(r, e, [task[r][e] EXCEPT !.pc = "put"])
            /\ db' = [db EXCEPT !.band = {}]
    /\ UNCHANGED <<Locks, request, Ghosts>>

PutBand(r, e) ==
    /\ task[r][e].pc = "put"
    /\ db' = [db EXCEPT !.band = task[r][e].leafs]
    /\ SetTask(r, e, [task[r][e] EXCEPT !.pc = IF task[r][e].soft THEN "soft" ELSE "insert"])
    /\ lost' = lost \ task[r][e].leafs /\ torn' = FALSE
    /\ UNCHANGED <<Locks, request>>

SoftFail(r, e) ==
    /\ task[r][e].pc = "soft"
    /\ st' = None
    /\ EndTask(r, e)
    /\ UNCHANGED <<db, ins, Ghosts>>

(***************************************************************************)
(* append_pdu under the insertion mutex: the room's counters are read,     *)
(* advanced and stored with the row in one transaction.  Reading them may  *)
(* fail, and the event is then left out with its leaf already in the band. *)
(***************************************************************************)
InsertMutexFreeAlways == TRUE   \* mutant: no insertion mutex
InsertMutexFree == ins = None

LockInsert(r, e) ==
    /\ task[r][e].pc = "insert" /\ InsertMutexFree
    /\ ins' = <<r, e>>
    /\ SetTask(r, e, [task[r][e] EXCEPT !.pc = "write", !.bounds = db.bounds])
    /\ UNCHANGED <<db, fed, st, request, Ghosts>>

AppendRow(r, e) ==
    /\ task[r][e].pc = "write"
    /\ LET seq == task[r][e].bounds.last + 1 IN
       db' = [db EXCEPT !.rows = @ \cup {[event |-> e, r_seq |-> seq, by |-> r]},
                        !.bounds = [last |-> seq, low |-> task[r][e].bounds.low]]
    /\ ins' = None
    /\ SetTask(r, e, [task[r][e] EXCEPT !.pc = "unlock"])
    /\ UNCHANGED <<fed, st, request, Ghosts>>

AppendFails(r, e) ==
    /\ task[r][e].pc = "write"
    /\ ins' = None /\ st' = None
    /\ EndTask(r, e)
    /\ UNCHANGED <<db, Ghosts>>

Accept(r, e) ==
    /\ task[r][e].pc = "unlock"
    /\ st' = None
    /\ EndTask(r, e)
    /\ UNCHANGED <<db, ins, Ghosts>>

(***************************************************************************)
(* backfill_pdu, under the federation mutex: an event the room has is left *)
(* alone; another is stored as an outlier and gets the next number below   *)
(* zero, without the state mutex.                                          *)
(***************************************************************************)
Backfill(r) ==
    /\ request[r].pc = "outlier"
    /\ LET e == request[r].event IN
       \/ EndRequest(r) /\ UNCHANGED task
       \/ /\ ~Stored(e)
          /\ SetTask(r, e, [NoTask EXCEPT !.pc = "prepend"])
          /\ SetRequest(r, [request[r] EXCEPT !.pc = "prepend"])
          /\ UNCHANGED fed
    /\ UNCHANGED <<db, st, ins, Ghosts>>

LockPrepend(r, e) ==
    /\ task[r][e].pc = "prepend" /\ InsertMutexFree
    /\ ins' = <<r, e>>
    /\ SetTask(r, e, [task[r][e] EXCEPT !.pc = "prewrite", !.bounds = db.bounds])
    /\ UNCHANGED <<db, fed, st, request, Ghosts>>

PrependRow(r, e) ==
    /\ task[r][e].pc = "prewrite"
    /\ LET seq == task[r][e].bounds.low IN
       db' = [db EXCEPT !.rows = @ \cup {[event |-> e, r_seq |-> seq, by |-> r]},
                        !.bounds = [last |-> task[r][e].bounds.last, low |-> seq - 1]]
    /\ ins' = None
    /\ EndTask(r, e)
    /\ UNCHANGED <<st, Ghosts>>

(***************************************************************************)
(* The process dies.  The tables were written record by record, so what a  *)
(* late log flush loses is what an earlier crash would have lost.          *)
(***************************************************************************)
Crash ==
    /\ fed' = None /\ st' = None /\ ins' = None
    /\ request' = [r \in Requests |-> IdleRequest]
    /\ task' = [r \in Requests |-> [e \in Events |-> NoTask]]
    /\ lost' = lost \cup (Events \ (db.band \cup db.referenced))
    /\ torn' = (db.band = {})
    /\ UNCHANGED db

TaskStep(r, e) ==
    \/ Upgrade(r, e) \/ CheckExists(r, e) \/ Evaluate(r, e)
    \/ MarkReferenced(r, e) \/ ClearBand(r, e) \/ PutBand(r, e) \/ SoftFail(r, e)
    \/ LockInsert(r, e) \/ AppendRow(r, e) \/ AppendFails(r, e) \/ Accept(r, e)
    \/ LockPrepend(r, e) \/ PrependRow(r, e)

RequestStep(r) ==
    \/ FallBack(r) \/ Handle(r) \/ Backfill(r)
    \/ \E e \in Events : TaskStep(r, e)

Next ==
    \/ \E r \in Handlers, e \in Remote, pc \in {"handle", "outlier"} : Deliver(r, e, pc)
    \/ \E r \in Unlocked : JoinLocally(r)
    \/ \E b \in Builders : Build(b)
    \/ \E r \in Requests : RequestStep(r)
    \/ Crash

Spec == Init /\ [][Next]_vars

-----------------------------------------------------------------------------
(***************************************************************************)
(* Types.                                                                  *)
(***************************************************************************)
Row == [event: Events, r_seq: Int, by: Requests \cup {None}]
Bounds == [last: Int, low: Int]
Request ==
    [pc: {"idle", "join", "handle", "prevs", "outlier", "prepend", "build"},
     event: Events, left: SUBSET Events]
Task ==
    [pc: {"none", "check", "wait", "refer", "clear", "put", "soft", "insert", "write",
          "unlock", "prepend", "prewrite"},
     prev: SUBSET Events, leafs: SUBSET Events, soft: BOOLEAN, bounds: Bounds]

TypeOK ==
    /\ db \in [rows: SUBSET Row, bounds: Bounds, band: SUBSET Events, referenced: SUBSET Events]
    /\ fed \in Handlers \cup {None}
    /\ {st, ins} \subseteq (Requests \X Events) \cup {None}
    /\ request \in [Requests -> Request]
    /\ task \in [Requests -> [Events -> Task]]
    /\ lost \in SUBSET Events /\ torn \in BOOLEAN

(***************************************************************************)
(* "Skip the PDU if we already know about it": among the requests that     *)
(* hold the federation mutex, no two append or backfill the same event,    *)
(* whatever is redelivered, fetched as an ancestor, backfilled or retried  *)
(* after a soft failure or a crash.                                        *)
(***************************************************************************)
SerializedOnce ==
    \A a, b \in db.rows :
        a.event = b.event /\ {a.by, b.by} \cap Unlocked = {} => a = b

(***************************************************************************)
(* Every row has a number of its own in the room, inside the bounds        *)
(* stored: appends and backfills do not overwrite each other's counter.    *)
(***************************************************************************)
NumberedOnce ==
    /\ \A a, b \in db.rows : a.r_seq = b.r_seq => a = b
    /\ \A a \in db.rows : db.bounds.low < a.r_seq /\ a.r_seq <= db.bounds.last

(***************************************************************************)
(* "Never write an empty band": the room always has a forward extremity,   *)
(* or local events would be refused, but while the rows are being replaced *)
(* and after a crash that tore the replacement.                            *)
(***************************************************************************)
BandNonEmpty == db.band = {} => st # None \/ torn

(***************************************************************************)
(* No leaf is dropped by accident: an appended event that nothing refers   *)
(* to is a forward extremity, whatever was appended beside it, unless the  *)
(* cap, the limit on prev_events or a crash gave it up.                    *)
(***************************************************************************)
LeavesKept ==
    st = None =>
        \A row \in db.rows :
            row.r_seq > 0 /\ row.event \notin db.referenced \cup lost => row.event \in db.band

(***************************************************************************)
(* The requests never all wait on one another: the mutexes are taken in    *)
(* the order federation, state, insertion, the restricted join drops the   *)
(* state mutex first ("deadlock"), and ancestors wait for their own only.  *)
(* While a request is under way, one can go on: with itself, with an event *)
(* whose turn has come, or with one that wants no mutex or a free one.     *)
(***************************************************************************)
CanGoOn(r, e) ==
    LET pc == task[r][e].pc IN
    \/ pc = "none" /\ request[r].pc = "prevs" /\ CanStart(r, e)
    \/ pc = "wait" /\ st = None
    \/ pc \in {"insert", "prepend"} /\ ins = None
    \/ pc \notin {"none", "wait", "insert", "prepend"}

NoDeadlock ==
    (\E r \in Requests : request[r].pc # "idle") =>
        \E r \in Requests :
            \/ request[r].pc \in {"join", "handle", "outlier"}
            \/ \E e \in Events : CanGoOn(r, e)

-----------------------------------------------------------------------------
(***************************************************************************)
(* What the handler promises and two of its callers break: an event is     *)
(* appended once ("1. Skip the PDU if we already know about it").          *)
(***************************************************************************)
AppendedOnce ==
    \A a, b \in db.rows : a.event = b.event /\ a.r_seq > 0 /\ b.r_seq > 0 => a = b
=============================================================================
