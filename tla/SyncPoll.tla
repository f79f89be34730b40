------------------------------ MODULE SyncPoll ------------------------------
(***************************************************************************)
(* The long polls of client sync (api/client/sync/v3.rs, v5.rs, events.rs  *)
(* and service/sync/watch.rs) over the two-phase counter, as VisibleLog    *)
(* promises it, and the prefix watches of the database maps.               *)
(*                                                                         *)
(* A poll registers its watchers, asks the counter for a number up to      *)
(* which everything is visible, reads the rows between its since token and *)
(* that number, and sleeps when there are none.  It must not sleep through *)
(* a write, and the token it returns must not pass a row it did not read.  *)
(***************************************************************************)
EXTENDS VisibleLog

CONSTANT
    MaxFaults    \* bound on crashes and broken connections together

ASSUME PollAssumption == MaxFaults \in Nat

(***************************************************************************)
(* What a row is about, which is also the prefix its key is watched under: *)
(* the user (memberships, account data, to-device messages, keys), a room  *)
(* (PDUs, receipts), or something that is not the client's business.       *)
(***************************************************************************)
Topics == {"user", "room", "other"}
NoTopic == "none"

VARIABLES
    topic,     \* topic[n]: what the row under number n is about
    writing,   \* writing[w]: w's row is in the memtable, notify is to come
    entries,   \* Watch::watchers: the prefixes that have a sender
    rx,        \* receivers of polls, see MapWatch
    fired,     \* receivers that have changed
    poll,      \* poll[r]: the request of client r
    client,    \* client[r]: the token client r keeps, and what it was sent
    lost,      \* history: numbers drawn before a crash that forgot them
    faults     \* crashes and broken connections so far

INSTANCE MapWatch WITH Tasks <- Readers, Prefixes <- Topics

tableVars == <<entries, rx, fired>>
pollVars == <<logVars, topic, writing, tableVars, poll, client, lost, faults>>

Poll == [pc: {"idle", "user", "rooms", "sample", "waiting", "told", "found", "asleep"},
         since: Numbers, found: SUBSET (1 .. MaxCount)]
IdlePoll == [pc |-> "idle", since |-> 0, found |-> {}]
Client == [token: Numbers, got: SUBSET (1 .. MaxCount)]

(***************************************************************************)
(* Types.  The one that is not obvious: a request never reads below zero   *)
(* or above the largest number, although a client may present a token the  *)
(* server forgot in a crash.                                               *)
(***************************************************************************)
PollTypeOK ==
    /\ drawn \in Numbers
    /\ permit \in [Writers -> Numbers]
    /\ rows \in SUBSET (1 .. MaxCount)
    /\ reader \in [Readers -> Reader]
    /\ topic \in [1 .. MaxCount -> Topics \cup {NoTopic}]
    /\ writing \in [Writers -> BOOLEAN]
    /\ WatchTypes
    /\ poll \in [Readers -> Poll]
    /\ client \in [Readers -> Client]
    /\ lost \in SUBSET (1 .. MaxCount)
    /\ faults \in 0 .. MaxFaults

PollInit ==
    /\ LogInit
    /\ topic = [n \in 1 .. MaxCount |-> NoTopic]
    /\ writing = [w \in Writers |-> FALSE]
    /\ WatchInit
    /\ poll = [r \in Readers |-> IdlePoll]
    /\ client = [r \in Readers |-> [token |-> 0, got |-> {}]]
    /\ lost = {}
    /\ faults = 0

-----------------------------------------------------------------------------
(***************************************************************************)
(* A writer: the counter's steps, with Map::insert (Txn::execute) split    *)
(* where other tasks run: the row is readable before its watchers hear.    *)
(***************************************************************************)
Begin(w) ==
    /\ DrawNumber(w)
    /\ UNCHANGED <<topic, writing, tableVars, poll, client, lost, faults>>

Insert(w, k) ==
    /\ PutRow(w)
    /\ topic' = [topic EXCEPT ![permit[w]] = k]
    /\ writing' = [writing EXCEPT ![w] = TRUE]
    /\ UNCHANGED <<tableVars, poll, client, lost, faults>>

Notify(w) ==
    /\ writing[w]
    /\ NotifyPrefix(topic[permit[w]])
    /\ writing' = [writing EXCEPT ![w] = FALSE]
    /\ UNCHANGED <<logVars, topic, poll, client, lost, faults>>

DropPermit(w) ==
    /\ ~writing[w]
    /\ LetGo(w)
    /\ UNCHANGED <<topic, writing, tableVars, poll, client, lost, faults>>

-----------------------------------------------------------------------------
(***************************************************************************)
(* What the rows say.  The first row about the user puts them in the room; *)
(* the rows of the room that concern the client follow that one.           *)
(* These are the topics sync/watch.rs watches.  Responses also carry       *)
(* presence and private read markers, which no watcher covers: a poll does *)
(* sleep through those until another wake, and they are not modelled.      *)
(***************************************************************************)
About(k) == {n \in rows : topic[n] = k}
Joined == About("user") # {}
Fired(r) == Holds(r) \cap fired # {}
Concerns(n) ==
    \/ n \in About("user")
    \/ n \in About("room") /\ \E j \in About("user") : j < n

(***************************************************************************)
(* sync_events_route, from the request to the head of its loop.            *)
(***************************************************************************)
Request(r) ==
    /\ poll[r].pc = "idle"
    /\ poll' = [poll EXCEPT ![r] = [IdlePoll EXCEPT !.pc = "user", !.since = client[r].token]]
    /\ UNCHANGED <<logVars, topic, writing, tableVars, client, lost, faults>>

(***************************************************************************)
(* sync::watch registers the watchers of the user first, then walks the    *)
(* rooms the user is in and registers theirs.                              *)
(***************************************************************************)
WatchUserForgets(r) ==   \* mutant: the membership map is not on the list
    /\ poll[r].pc = "user"
    /\ Subscribe(r, {})
    /\ poll' = [poll EXCEPT ![r].pc = "rooms"]
    /\ UNCHANGED <<logVars, topic, writing, client, lost, faults>>

WatchUser(r) ==
    /\ poll[r].pc = "user"
    /\ Subscribe(r, {"user"})
    /\ poll' = [poll EXCEPT ![r].pc = "rooms"]
    /\ UNCHANGED <<logVars, topic, writing, client, lost, faults>>

WatchRooms(r) ==
    /\ poll[r].pc = "rooms"
    /\ Subscribe(r, IF Joined THEN {"room"} ELSE {})
    /\ poll' = [poll EXCEPT ![r].pc = "sample"]
    /\ UNCHANGED <<logVars, topic, writing, client, lost, faults>>

(***************************************************************************)
(* wait_pending, in its two halves.  A since token past the counter, from  *)
(* before a crash, is clamped to it.                                       *)
(***************************************************************************)
Sample(r) ==
    /\ poll[r].pc = "sample"
    /\ AskVisible(r)
    /\ poll' = [poll EXCEPT ![r].pc = "waiting"]
    /\ UNCHANGED <<topic, writing, tableVars, client, lost, faults>>

Sampled(r) ==
    /\ poll[r].pc = "waiting"
    /\ TellVisible(r)
    /\ poll' = [poll EXCEPT ![r].pc = "told",
                            ![r].since = IF @ > reader'[r].token THEN reader'[r].token ELSE @]
    /\ UNCHANGED <<topic, writing, tableVars, client, lost, faults>>

(***************************************************************************)
(* build_sync_events: the rows after since and up to next_batch, in the    *)
(* rooms the user is in by now.  With none the poll goes to sleep; with    *)
(* since = next_batch it does so without looking.                          *)
(***************************************************************************)
Build(r) ==
    /\ poll[r].pc = "told"
    /\ ReadRows(r)
    /\ LET found == {n \in reader'[r].seen : n > poll[r].since /\ Concerns(n)}
       IN  poll' = [poll EXCEPT ![r].pc = IF found = {} THEN "asleep" ELSE "found",
                                ![r].found = found]
    /\ UNCHANGED <<topic, writing, tableVars, client, lost, faults>>

(***************************************************************************)
(* The response reaches the client, which keeps next_batch as its token.   *)
(***************************************************************************)
Receive(r) ==
    /\ poll[r].pc = "found"
    /\ client' = [client EXCEPT ![r] = [token |-> reader[r].token, got |-> @.got \cup poll[r].found]]
    /\ poll' = [poll EXCEPT ![r] = IdlePoll]
    /\ DropReceivers(Holds(r))
    /\ UNCHANGED <<logVars, topic, writing, lost, faults>>

(***************************************************************************)
(* A watcher fires: the next round starts at next_batch, with new watchers.*)
(***************************************************************************)
WakeAtCounter(r) ==   \* mutant: the next round starts at the last number
    /\ poll[r].pc = "asleep"
    /\ Fired(r)
    /\ poll' = [poll EXCEPT ![r] = [IdlePoll EXCEPT !.pc = "user", !.since = drawn]]
    /\ DropReceivers(Holds(r))
    /\ UNCHANGED <<logVars, topic, writing, client, lost, faults>>

Wake(r) ==
    /\ poll[r].pc = "asleep"
    /\ Fired(r)
    /\ poll' = [poll EXCEPT ![r] = [IdlePoll EXCEPT !.pc = "user", !.since = reader[r].token]]
    /\ DropReceivers(Holds(r))
    /\ UNCHANGED <<logVars, topic, writing, client, lost, faults>>

(***************************************************************************)
(* The timeout, or the server stopping: an empty response at next_batch.   *)
(***************************************************************************)
PollTimeout(r) ==
    /\ poll[r].pc = "asleep"
    /\ client' = [client EXCEPT ![r].token = reader[r].token]
    /\ poll' = [poll EXCEPT ![r] = IdlePoll]
    /\ DropReceivers(Holds(r))
    /\ UNCHANGED <<logVars, topic, writing, lost, faults>>

(***************************************************************************)
(* The connection breaks and the handler is dropped, or its response is    *)
(* lost: the client will present its old token again.                      *)
(***************************************************************************)
Disconnect(r) ==
    /\ poll[r].pc # "idle"
    /\ faults < MaxFaults
    /\ faults' = faults + 1
    /\ poll' = [poll EXCEPT ![r] = IdlePoll]
    /\ reader' = [reader EXCEPT ![r] = IdleReader]
    /\ DropReceivers(Holds(r))
    /\ UNCHANGED <<drawn, permit, rows, topic, writing, client, lost>>

(***************************************************************************)
(* The process dies; the clients keep their tokens.  The numbers between   *)
(* the recovered counter and the last one drawn will be drawn again.       *)
(***************************************************************************)
Die ==
    /\ faults < MaxFaults
    /\ Restart
    /\ faults' = faults + 1
    /\ lost' = lost \cup (drawn' + 1 .. drawn)
    /\ topic' = [n \in 1 .. MaxCount |-> IF n \in rows' THEN topic[n] ELSE NoTopic]
    /\ writing' = [w \in Writers |-> FALSE]
    /\ entries' = {} /\ rx' = {} /\ fired' = {}
    /\ poll' = [r \in Readers |-> IdlePoll]
    /\ UNCHANGED client

PollStep(r) ==
    \/ Request(r) \/ WatchUser(r) \/ WatchRooms(r) \/ Sample(r) \/ Sampled(r)
    \/ Build(r) \/ Wake(r)

PollNext ==
    \/ \E w \in Writers :
          Begin(w) \/ (\E k \in Topics : Insert(w, k)) \/ Notify(w) \/ DropPermit(w)
    \/ \E r \in Readers : PollStep(r) \/ Receive(r) \/ PollTimeout(r) \/ Disconnect(r)
    \/ Die

PollSpec == PollInit /\ [][PollNext]_pollVars

(***************************************************************************)
(* Inserts finish and permits are dropped; a client asks again, and its    *)
(* handler runs on to its answer unless something breaks.  Nothing is      *)
(* assumed of timeouts, drawing and faults.                                *)
(***************************************************************************)
PollFairSpec ==
    /\ PollSpec
    /\ \A w \in Writers : WF_pollVars(Notify(w)) /\ WF_pollVars(DropPermit(w))
    /\ \A r \in Readers : WF_pollVars(PollStep(r) \/ Receive(r))

-----------------------------------------------------------------------------
(***************************************************************************)
(* A poll that waits can be woken: its receivers are still connected,      *)
(* though notifications reap entries.  Otherwise changed() fails and the   *)
(* request panics ("watcher sender dropped").                              *)
(***************************************************************************)
PollsConnected ==
    \A r \in Readers : poll[r].pc \notin {"idle", "user"} => <<r, "user">> \in rx

(***************************************************************************)
(* Nobody sleeps through a write: when a poll sleeps, nothing has fired    *)
(* and there are rows past its next_batch that concern it, then some row   *)
(* under a prefix it watches is still being inserted and will wake it,     *)
(* whether it was in the room when it registered or not.                   *)
(***************************************************************************)
BeingInserted == {permit[w] : w \in {v \in Writers : writing[v]}}
NoSleepThroughWrite ==
    \A r \in Readers :
        (/\ poll[r].pc = "asleep" /\ ~Fired(r)
         /\ \E n \in rows : n > reader[r].token /\ Concerns(n))
        => \E m \in BeingInserted : <<r, topic[m]>> \in rx

(***************************************************************************)
(* A client is never told a token past a row it was not sent, through      *)
(* rounds that found nothing, empty responses, lost responses and crashes; *)
(* numbers that a crash made the counter draw again are the exception (see *)
(* PendingNotReused).                                                      *)
(***************************************************************************)
NoRowSkipped ==
    \A r \in Readers : \A n \in rows :
        (/\ n <= client[r].token
         /\ \/ n \in About("user") \ lost
            \/ n \in About("room") \ lost /\ \E j \in About("user") \ lost : j < n)
        => n \in client[r].got

(***************************************************************************)
(* What is written reaches every client that keeps polling, without any    *)
(* timeout, unless the row or its number is lost to a crash.               *)
(***************************************************************************)
RowsReachClients ==
    \A r \in Readers : \A n \in 1 .. MaxCount :
        (n \in rows /\ Concerns(n)) ~>
            (n \in client[r].got \/ n \in lost \/ ~(n \in rows /\ Concerns(n))
             \/ \E j \in lost : j < n)
=============================================================================
