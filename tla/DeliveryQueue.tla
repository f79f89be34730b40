---------------------------- MODULE DeliveryQueue ----------------------------
(***************************************************************************)
(* What the sender promises of the items queued for a destination, without *)
(* tables, statuses, wakes and handlers: one transaction at a time carries *)
(* items that are owed, an item is owed until a transaction that carried   *)
(* it was answered or it was discarded, and only a crash, which brings     *)
(* back what the log had, can make an item owed that was sent before.      *)
(* Lossy items may also be given up when a transaction is composed.        *)
(***************************************************************************)
CONSTANTS
    Items,
    Lossy        \* items that composing a transaction may give up

VARIABLES
    owed,        \* items accepted and still to be delivered
    flight,      \* the items of the transaction in flight
    sent,        \* items that were delivered
    discarded,   \* items given up by the queue's owner, at a start or, if
                 \* they are lossy, by the sender
    log          \* the items a crash brings back

queueVars == <<owed, flight, sent, discarded, log>>

QueueInit ==
    owed = {} /\ flight = {} /\ sent = {} /\ discarded = {} /\ log = {}

Accept(item) ==
    /\ item \notin owed \union sent \union discarded
    /\ owed' = owed \union {item}
    /\ UNCHANGED <<flight, sent, discarded, log>>

(***************************************************************************)
(* A transaction is composed: `missed' is given up, `batch' sent.          *)
(***************************************************************************)
Send(missed, batch) ==
    /\ flight = {}
    /\ flight' = batch
    /\ owed' = owed \ missed
    /\ discarded' = discarded \union missed
    /\ UNCHANGED <<sent, log>>

(***************************************************************************)
(* The transaction ends: `done' of it, all or nothing but for pushes, was  *)
(* delivered.                                                              *)
(***************************************************************************)
Answer(done) ==
    /\ flight' = {}
    /\ owed' = owed \ done
    /\ sent' = sent \union done
    /\ UNCHANGED <<discarded, log>>

(***************************************************************************)
(* The queue is cleaned up, also of what was delivered a moment ago; the   *)
(* transaction in flight is not recalled.                                  *)
(***************************************************************************)
Discard(items) ==
    /\ owed' = owed \ items
    /\ discarded' = discarded \union items
    /\ UNCHANGED <<flight, sent, log>>

(***************************************************************************)
(* The log holds everything owed, and may hold what was delivered just now.*)
(***************************************************************************)
Flush ==
    /\ \E again \in SUBSET sent : log' = owed \union again
    /\ UNCHANGED <<owed, flight, sent, discarded>>

ShutDown ==
    /\ log' = owed
    /\ flight' = {}
    /\ UNCHANGED <<owed, sent, discarded>>

Crash ==
    /\ owed' = log
    /\ flight' = {}
    /\ UNCHANGED <<sent, discarded, log>>

(***************************************************************************)
(* A start gives up some of what is owed and sends some of the rest.       *)
(***************************************************************************)
Start(gone, batch) ==
    /\ flight = {}
    /\ flight' = batch
    /\ owed' = owed \ gone
    /\ discarded' = discarded \union gone
    /\ UNCHANGED <<sent, log>>

QueueNext ==
    \/ \E item \in Items : Accept(item)
    \/ \E missed \in SUBSET (owed \intersect Lossy) :
           \E batch \in SUBSET (owed \ missed) : Send(missed, batch)
    \/ \E done \in SUBSET flight : Answer(done)
    \/ \E items \in SUBSET (owed \union sent) : Discard(items)
    \/ Flush \/ ShutDown \/ Crash
    \/ \E gone \in SUBSET owed : \E batch \in SUBSET (owed \ gone) : Start(gone, batch)

QueueSpec == QueueInit /\ [][QueueNext]_queueVars
=============================================================================
