----------------------------- MODULE VisibleLog -----------------------------
(***************************************************************************)
(* What the two-phase counter promises its users, without how: writers     *)
(* draw increasing numbers, write a row under the number they hold and let *)
(* it go; a reader is told a number below every number still held, so that *)
(* no row up to it is still to come.  TwoPhaseCounter implements this      *)
(* specification, and the long polls of SyncPoll are built on it.          *)
(***************************************************************************)
EXTENDS Integers

CONSTANTS
    Writers,    \* tasks that draw numbers and write rows
    Readers,    \* tasks that read up to a visible number
    MaxCount    \* the largest number

ASSUME VisibleLogAssumption == MaxCount \in Nat

None == 0

VARIABLES
    drawn,    \* the last number drawn
    permit,   \* permit[w]: the number writer w holds, or None
    rows,     \* the numbers under which a row is readable
    reader    \* reader[r]: position, what it waits for, was told and saw

logVars == <<drawn, permit, rows, reader>>

Numbers == 0 .. MaxCount
Reader ==
    [pc: {"idle", "waiting", "told", "scanned"},
     snapshot: Numbers, token: Numbers, seen: SUBSET (1 .. MaxCount)]
IdleReader == [pc |-> "idle", snapshot |-> 0, token |-> 0, seen |-> {}]

LogInit ==
    /\ drawn = 0
    /\ permit = [w \in Writers |-> None]
    /\ rows = {}
    /\ reader = [r \in Readers |-> IdleReader]

(***************************************************************************)
(* A writer draws (next_count), writes (Map::insert), lets go (Permit).    *)
(***************************************************************************)
DrawNumber(w) ==
    /\ permit[w] = None
    /\ drawn < MaxCount
    /\ drawn' = drawn + 1
    /\ permit' = [permit EXCEPT ![w] = drawn + 1]
    /\ UNCHANGED <<rows, reader>>

PutRow(w) ==
    /\ permit[w] # None
    /\ permit[w] \notin rows
    /\ rows' = rows \cup {permit[w]}
    /\ UNCHANGED <<drawn, permit, reader>>

LetGo(w) ==
    /\ permit[w] # None
    /\ permit' = [permit EXCEPT ![w] = None]
    /\ UNCHANGED <<drawn, rows, reader>>

(***************************************************************************)
(* The numbers below which nothing is held: what current_count may return, *)
(* and wait_pending too, once one reaches what was drawn when it was asked.*)
(* Which of them is left open: the release channel may lag behind.         *)
(***************************************************************************)
Visible == {t \in 0 .. drawn : \A w \in Writers : permit[w] # None => t < permit[w]}

AskVisible(r) ==
    /\ reader[r].pc \in {"idle", "scanned"}
    /\ reader' = [reader EXCEPT ![r] = [@ EXCEPT !.pc = "waiting", !.snapshot = drawn]]
    /\ UNCHANGED <<drawn, permit, rows>>

TellVisible(r) ==
    /\ reader[r].pc = "waiting"
    /\ \E t \in Visible :
          /\ t >= reader[r].snapshot
          /\ reader' = [reader EXCEPT ![r] = [@ EXCEPT !.pc = "told", !.token = t]]
    /\ UNCHANGED <<drawn, permit, rows>>

PeekVisible(r) ==
    /\ reader[r].pc \in {"idle", "scanned"}
    /\ \E t \in Visible :
          reader' = [reader EXCEPT ![r] = [@ EXCEPT !.pc = "told", !.token = t]]
    /\ UNCHANGED <<drawn, permit, rows>>

ReadRows(r) ==
    /\ reader[r].pc = "told"
    /\ reader' = [reader EXCEPT ![r] = [@ EXCEPT !.pc = "scanned",
                                                 !.seen = rows \cap (1 .. reader[r].token)]]
    /\ UNCHANGED <<drawn, permit, rows>>

(***************************************************************************)
(* A crash keeps some of the rows, and a counter that covers them.         *)
(***************************************************************************)
Restart ==
    /\ drawn' \in 0 .. drawn
    /\ rows' \in SUBSET {n \in rows : n <= drawn'}
    /\ permit' = [w \in Writers |-> None]
    /\ reader' = [r \in Readers |-> IdleReader]

LogNext ==
    \/ \E w \in Writers : DrawNumber(w) \/ PutRow(w) \/ LetGo(w)
    \/ \E r \in Readers : AskVisible(r) \/ TellVisible(r) \/ PeekVisible(r) \/ ReadRows(r)
    \/ Restart

LogSpec == LogInit /\ [][LogNext]_logVars
=============================================================================
