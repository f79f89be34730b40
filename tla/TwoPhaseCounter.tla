--------------------------- MODULE TwoPhaseCounter ---------------------------
(***************************************************************************)
(* The two-phase sequence counter (core/utils/two_phase_counter.rs) as the *)
(* globals service drives it (service/globals/data.rs).                    *)
(*                                                                         *)
(* A writer draws a number, writes its rows under that number and then     *)
(* drops the permit; a reader asks for a number up to which everything is  *)
(* visible, scans the rows up to it and never looks below it again.  The   *)
(* module follows the counter, the watch channel the retirements go        *)
(* through, the rows that carry the numbers, and what a crash leaves of    *)
(* both when the write-ahead log is flushed later than the memtable.       *)
(***************************************************************************)
EXTENDS Integers, Sequences, FiniteSets

CONSTANTS
    Writers,    \* tasks that draw numbers and write rows
    Readers,    \* tasks that read up to a retired number (sync, events)
    MaxCount    \* the largest number: u64::MAX in the code, small in TLC

ASSUME CounterAssumption == MaxCount \in Nat

(***************************************************************************)
(* No permit held; numbers start at one, so zero is never drawn.           *)
(***************************************************************************)
None == 0

VARIABLES
    dispatched,  \* State.dispatched: the last number drawn
    pending,     \* State.pending: numbers drawn and not yet retired
    released,    \* the value in the `retires` watch channel
    log,         \* database states a crash can fall back to, newest last
    permit,      \* permit[w]: the number writer w holds, or None
    reader       \* reader[r]: where reader r is and what it has seen

vars == <<dispatched, pending, released, log, permit, reader>>

(***************************************************************************)
(* The database: the persisted counter row and the rows written under a    *)
(* number.  log[1] is what the last WAL flush made durable, each further   *)
(* element is the state after one more unflushed record, and the last      *)
(* element is what reads return.                                           *)
(***************************************************************************)
Numbers == 0 .. MaxCount
DbState == [count: Numbers, rows: SUBSET (1 .. MaxCount)]
Db == log[Len(log)]

(***************************************************************************)
(* A reader's state: idle, waiting for a release of at least `snapshot`,   *)
(* told `token`, or done scanning the rows up to it.                       *)
(***************************************************************************)
Reader ==
    [pc: {"idle", "waiting", "told", "scanned"},
     snapshot: Numbers, token: Numbers, seen: SUBSET (1 .. MaxCount)]
IdleReader == [pc |-> "idle", snapshot |-> 0, token |-> 0, seen |-> {}]

(***************************************************************************)
(* Types.  The interesting part: nothing passes the largest number, since  *)
(* checked!(prev + 1) fails the draw instead of wrapping.                  *)
(***************************************************************************)
TypeOK ==
    /\ dispatched \in Numbers
    /\ pending \in SUBSET (1 .. MaxCount)
    /\ released \in Numbers
    /\ log \in Seq(DbState) /\ log # <<>>
    /\ permit \in [Writers -> Numbers]
    /\ reader \in [Readers -> Reader]

(***************************************************************************)
(* State::retired: one less than the oldest pending number, or everything  *)
(* drawn.  `pending` is pushed in increasing order, so its front is its    *)
(* least element.                                                          *)
(***************************************************************************)
IsFront(id) == id \in pending /\ \A p \in pending : id <= p
Least(S) == CHOOSE m \in S : \A n \in S : m <= n

RetiredOnePhase(d, P) == d   \* mutant: one counter for writers and readers
RetiredOf(d, P) == IF P = {} THEN d ELSE Least(P) - 1
Retired == RetiredOf(dispatched, pending)

(***************************************************************************)
(* Data::new over an empty database: stored_count is zero.                 *)
(***************************************************************************)
Init ==
    /\ dispatched = 0
    /\ pending = {}
    /\ released = 0
    /\ log = << [count |-> 0, rows |-> {}] >>
    /\ permit = [w \in Writers |-> None]
    /\ reader = [r \in Readers |-> IdleReader]

(***************************************************************************)
(* Counter::next: the number is committed before any mutation.  The commit *)
(* (store_count) inserts the counter row while holding a cork that does    *)
(* not flush when dropped, so the record stays in the WAL buffer.          *)
(* checked!(prev + 1) refuses to pass the largest number.                  *)
(***************************************************************************)
DispatchUnchecked(w) ==   \* mutant: wraps past the largest number
    /\ permit[w] = None
    /\ log' = Append(log, [Db EXCEPT !.count = dispatched + 1])
    /\ pending' = pending \cup {dispatched + 1}
    /\ dispatched' = dispatched + 1
    /\ permit' = [permit EXCEPT ![w] = dispatched + 1]
    /\ UNCHANGED <<released, reader>>

DispatchStalesCommit(w) ==   \* mutant: commits the number before this one
    /\ permit[w] = None
    /\ dispatched < MaxCount
    /\ log' = Append(log, [Db EXCEPT !.count = dispatched])
    /\ pending' = pending \cup {dispatched + 1}
    /\ dispatched' = dispatched + 1
    /\ permit' = [permit EXCEPT ![w] = dispatched + 1]
    /\ UNCHANGED <<released, reader>>

Dispatch(w) ==
    /\ permit[w] = None
    /\ dispatched < MaxCount
    /\ log' = Append(log, [Db EXCEPT !.count = dispatched + 1])
    /\ pending' = pending \cup {dispatched + 1}
    /\ dispatched' = dispatched + 1
    /\ permit' = [permit EXCEPT ![w] = dispatched + 1]
    /\ UNCHANGED <<released, reader>>

(***************************************************************************)
(* Map::insert of a row keyed by the permit's number: the memtable changes *)
(* at once; the WAL is flushed here only when no cork is held anywhere.    *)
(***************************************************************************)
WriteRow(w) ==
    /\ permit[w] # None
    /\ LET after == [Db EXCEPT !.rows = @ \cup {permit[w]}]
       IN  \/ log' = Append(log, after)   \* corked
           \/ log' = <<after>>            \* flushed
    /\ permit[w] \notin Db.rows
    /\ UNCHANGED <<dispatched, pending, released, permit, reader>>

(***************************************************************************)
(* A flush from elsewhere: a flushing cork drops, another map's uncorked   *)
(* write, or RocksDB itself writes its buffer out up to some record.       *)
(***************************************************************************)
FlushWal ==
    /\ \E k \in 2 .. Len(log) : log' = SubSeq(log, k, Len(log))
    /\ UNCHANGED <<dispatched, pending, released, permit, reader>>

(***************************************************************************)
(* Permit::drop -> State::retire -> handle_retire.  Only the retirement of *)
(* the oldest pending number releases, and it releases everything drawn    *)
(* when nothing is left pending, its own number otherwise, although later  *)
(* numbers may have retired before it.  A permit may be dropped by an      *)
(* error path that never wrote its row.                                    *)
(***************************************************************************)
ReleaseOwnNumber(id) == id   \* mutant: ignores that nothing is left pending
ReleaseValue(id) == IF pending = {id} THEN dispatched ELSE id

RetireReleasesAny(w) ==   \* mutant: releases whatever the position
    /\ permit[w] # None
    /\ pending' = pending \ {permit[w]}
    /\ released' = ReleaseValue(permit[w])
    /\ permit' = [permit EXCEPT ![w] = None]
    /\ UNCHANGED <<dispatched, log, reader>>

Retire(w) ==
    /\ permit[w] # None
    /\ pending' = pending \ {permit[w]}
    /\ released' = IF IsFront(permit[w]) THEN ReleaseValue(permit[w]) ELSE released
    /\ permit' = [permit EXCEPT ![w] = None]
    /\ UNCHANGED <<dispatched, log, reader>>

(***************************************************************************)
(* Data::wait_pending, first half: snapshot `dispatched` and subscribe.    *)
(***************************************************************************)
WaitPending(r) ==
    /\ reader[r].pc \in {"idle", "scanned"}
    /\ reader' = [reader EXCEPT ![r] =
                    [@ EXCEPT !.pc = "waiting", !.snapshot = dispatched]]
    /\ UNCHANGED <<dispatched, pending, released, log, permit>>

(***************************************************************************)
(* Data::wait_count: returns the watch value once it is at least the       *)
(* snapshot.                                                               *)
(***************************************************************************)
WaitReturn(r) ==
    /\ reader[r].pc = "waiting"
    /\ released >= reader[r].snapshot
    /\ reader' = [reader EXCEPT ![r] =
                    [@ EXCEPT !.pc = "told", !.token = released]]
    /\ UNCHANGED <<dispatched, pending, released, log, permit>>

(***************************************************************************)
(* Data::current_count: the retirement value, without waiting.             *)
(***************************************************************************)
CurrentCount(r) ==
    /\ reader[r].pc \in {"idle", "scanned"}
    /\ reader' = [reader EXCEPT ![r] =
                    [@ EXCEPT !.pc = "told", !.token = Retired]]
    /\ UNCHANGED <<dispatched, pending, released, log, permit>>

(***************************************************************************)
(* The reader scans the rows up to its token.                              *)
(***************************************************************************)
Scan(r) ==
    /\ reader[r].pc = "told"
    /\ reader' = [reader EXCEPT ![r] =
                    [@ EXCEPT !.pc = "scanned",
                              !.seen = Db.rows \cap (1 .. reader[r].token)]]
    /\ UNCHANGED <<dispatched, pending, released, log, permit>>

(***************************************************************************)
(* The process dies.  The records that had not reached the OS are lost,    *)
(* from some point on, and Data::new starts from the counter row that is   *)
(* left.  Permits, waiters and requests die with the process.              *)
(***************************************************************************)
Crash ==
    \E k \in 1 .. Len(log) :
        /\ log' = << log[k] >>
        /\ dispatched' = log[k].count
        /\ released' = log[k].count
        /\ pending' = {}
        /\ permit' = [w \in Writers |-> None]
        /\ reader' = [r \in Readers |-> IdleReader]

WriterStep(w) == Dispatch(w) \/ WriteRow(w) \/ Retire(w)
ReaderStep(r) == WaitPending(r) \/ WaitReturn(r) \/ CurrentCount(r) \/ Scan(r)

Next ==
    \/ \E w \in Writers : WriterStep(w)
    \/ \E r \in Readers : ReaderStep(r)
    \/ FlushWal
    \/ Crash

Spec == Init /\ [][Next]_vars

(***************************************************************************)
(* A permit is a guard whose scope ends, so its drop is eventually taken;  *)
(* a runnable waiter is eventually polled.  Nothing is assumed of drawing, *)
(* writing, flushing or crashing.                                          *)
(***************************************************************************)
FairSpec ==
    /\ Spec
    /\ \A w \in Writers : WF_vars(Retire(w))
    /\ \A r \in Readers : WF_vars(WaitReturn(r))

-----------------------------------------------------------------------------
(***************************************************************************)
(* The problem the counter exists to solve (two_phase_counter.rs, "client- *)
(* sync ... having missed the data"): once a reader has scanned up to its  *)
(* token, no row at or below that token appears behind its back.           *)
(***************************************************************************)
NoMissedRow ==
    \A r \in Readers :
        reader[r].pc = "scanned" =>
            Db.rows \cap (1 .. reader[r].token) = reader[r].seen

(***************************************************************************)
(* When no number is pending the watch channel has caught up with every    *)
(* number drawn, so wait_pending cannot block with no permit left to wake  *)
(* it; and the channel never runs ahead of the retirement value.           *)
(***************************************************************************)
ReleaseCatchesUp ==
    /\ pending = {} => released = dispatched
    /\ released <= Retired

(***************************************************************************)
(* Whatever part of the log a crash keeps, the counter row in it covers    *)
(* every row in it, so a number drawn after the restart never names a row  *)
(* that survived: the commit precedes every write under the number.        *)
(***************************************************************************)
DurableRowsCounted ==
    \A k \in 1 .. Len(log) : \A n \in log[k].rows : n <= log[k].count

(***************************************************************************)
(* While the process lives, the retirement value and the channel only      *)
(* advance: a sync token never goes back.                                  *)
(***************************************************************************)
FrontierAdvances ==
    [][Crash \/ (released' >= released /\ Retired' >= Retired)]_vars

(***************************************************************************)
(* Every wait_pending returns (or its process died): the permits it waits  *)
(* for are dropped, and some later release reaches its snapshot.           *)
(***************************************************************************)
WaitersReturn ==
    \A r \in Readers : reader[r].pc = "waiting" ~> reader[r].pc # "waiting"

-----------------------------------------------------------------------------
(***************************************************************************)
(* What the comment at `commit` says, that the code does not do: "This     *)
(* prevents pending numbers from being reused after server restart", but   *)
(* store_count leaves the record in the WAL buffer, so a number drawn      *)
(* before a crash can be drawn again after it.                             *)
(***************************************************************************)
PendingNotReused ==
    [][\A n \in pending : n <= dispatched']_vars

-----------------------------------------------------------------------------
(***************************************************************************)
(* The counter implements what its users rely on: number by number, its    *)
(* draws, writes, retirements, answers to readers and restarts are those   *)
(* of VisibleLog, whatever the release channel and the log buffer do.      *)
(***************************************************************************)
Log == INSTANCE VisibleLog WITH drawn <- dispatched, rows <- Db.rows
ImplementsLog == Log!LogSpec
=============================================================================
