------------------------------ MODULE RoomState ------------------------------
(***************************************************************************)
(* How a room's state is stored: layered diffs                             *)
(* (service/rooms/state_compressor), the table that interns a state under  *)
(* a short id (service/rooms/short) and the operations that add states     *)
(* (service/rooms/state).                                                  *)
(*                                                                         *)
(* A state is the set of its events, each filling the slot its type and    *)
(* state key name.  A saved state is a diff over a parent state or, with   *)
(* no parent, a full one; a save first merges its diff with the layers     *)
(* that have grown too small beside it.  Whoever later asks for the state  *)
(* rebuilds it layer by layer, through a cache.  Several tasks save at     *)
(* once: those that change the room's state hold the room's state mutex,   *)
(* the others do not, and the intern table has a lock per state.           *)
(***************************************************************************)
EXTENDS Integers, Sequences, FiniteSets, Functions

CONSTANTS
    Events,         \* events that can be appended
    KeyOf,          \* KeyOf[e]: the slot event e fills, NoKey for a message
    NoKey,
    Wants,          \* states a save or an event may bring along
    Callers,        \* tasks that save states
    MaxId,          \* the largest short id drawn (a bound of the model)
    MaxLayers,      \* parent layers a new layer may have: 3 in the code
    Sibling,        \* diff_to_sibling of a room's states: 2
    EventSibling    \* diff_to_sibling of an event's state: 1_000_000

ASSUME RoomStateAssumption ==
    /\ MaxId \in Nat /\ MaxLayers \in Nat
    /\ Sibling \in Nat /\ EventSibling \in Nat
    /\ IsFiniteSet(Events) /\ Events # {}

(***************************************************************************)
(* A state holds at most one event for each slot.                          *)
(***************************************************************************)
StateEvents == {e \in Events : KeyOf[e] # NoKey}
States == {S \in SUBSET StateEvents :
             \A a, b \in S : KeyOf[a] = KeyOf[b] => a = b}

ASSUME WantsAssumption == Wants \subseteq States

VARIABLES
    db,        \* the tables
    cache,     \* stateinfo_cache: short id -> stack of layers
    proc       \* proc[c]: what task c is doing

vars == <<db, cache, proc>>

Ids == 1 .. MaxId
None == 0

(***************************************************************************)
(* The tables.  `truth` is no table: it remembers which state each id was  *)
(* drawn for, the reference the stored diffs are compared with.  The table *)
(* that files an event under the state before it is left out, its rows     *)
(* being read by no operation here; the id that goes in is `got`.          *)
(***************************************************************************)
EmptyDb ==
    [count |-> 0,                           \* the last number drawn
     diffs |-> << >>,                       \* shortstatehash_statediff
     hash  |-> << >>,                       \* statehash_shortstatehash
     room  |-> None,                        \* roomid_shortstatehash
     truth |-> << >>]

Diff == [parent: {None} \cup Ids, added: SUBSET Events, removed: SUBSET Events]
Layer == [id: Ids, full: SUBSET Events, added: SUBSET Events, removed: SUBSET Events]

(***************************************************************************)
(* The operations: append_to_state of a locally built event;               *)
(* set_event_state of an incoming one; save_state followed by force_state  *)
(* under the room's mutex (a resolved or joined state); save_state before  *)
(* the mutex is taken, by an operator who forces the state or to cache a   *)
(* state that was resolved.                                                *)
(***************************************************************************)
Saves == {"resolve", "loose"}
Ops == {"append", "event"} \cup Saves
LockedOps == {"append", "event", "resolve"}

Proc ==
    [pc: {"idle", "prev", "hash", "load", "check", "lock", "recheck", "create", "finish"},
     op: Ops, event: Events, want: SUBSET Events,
     prev: {None} \cup Ids, existing: {None} \cup Ids,
     todo: Seq(Ids), stack: Seq(Layer),
     added: SUBSET Events, removed: SUBSET Events, sibling: Nat,
     got: {None} \cup Ids]
IdleProc ==
    [pc |-> "idle", op |-> "append", event |-> CHOOSE e \in Events : TRUE,
     want |-> {}, prev |-> None, existing |-> None, todo |-> << >>,
     stack |-> << >>, added |-> {}, removed |-> {}, sibling |-> Sibling,
     got |-> None]

Init ==
    /\ db = EmptyDb
    /\ cache = << >>
    /\ proc = [c \in Callers |-> IdleProc]

Top(s) == s[Len(s)]
Lookup(h, S) == IF S \in DOMAIN h THEN h[S] ELSE None
Put(f, x, v) == [y \in DOMAIN f \cup {x} |-> IF y = x THEN v ELSE f[y]]
Become(c, p) == proc' = [proc EXCEPT ![c] = p]
Done(c, id) ==
    Become(c, [IdleProc EXCEPT !.pc = "finish", !.op = proc[c].op, !.event = proc[c].event,
                               !.want = proc[c].want, !.got = id])

(***************************************************************************)
(* An event takes the place of the event in its slot.                      *)
(***************************************************************************)
SameSlot(S, e) == {x \in S : KeyOf[x] = KeyOf[e]}
WithEvent(S, e) == (S \ SameSlot(S, e)) \cup {e}

(***************************************************************************)
(* The room's state mutex and the intern table's lock on one state.        *)
(***************************************************************************)
RoomFreeAlways == TRUE   \* mutant: no mutex
RoomFree == \A c \in Callers : proc[c].pc # "idle" => proc[c].op \notin LockedOps
HashFree(c) ==
    \A d \in Callers \ {c} :
        ~(proc[d].op # "append" /\ proc[d].pc \in {"recheck", "create"}
          /\ proc[d].want = proc[c].want)

(***************************************************************************)
(* A task starts.  save_state and append_to_state read the room's current  *)
(* id first, set_event_state the intern table.                             *)
(***************************************************************************)
BeginAppend(c, e) ==
    /\ proc[c].pc = "idle" /\ RoomFree
    /\ KeyOf[e] = NoKey => db.room # None   \* "first event in room must be a state event"
    /\ Become(c, [IdleProc EXCEPT !.pc = "prev", !.op = "append", !.event = e])
    /\ UNCHANGED <<db, cache>>

BeginEvent(c, S) ==
    /\ proc[c].pc = "idle" /\ RoomFree
    /\ Become(c, [IdleProc EXCEPT !.pc = "hash", !.op = "event",
                                  !.want = S, !.sibling = EventSibling])
    /\ UNCHANGED <<db, cache>>

BeginSave(c, op, S) ==
    /\ proc[c].pc = "idle" /\ (op \in LockedOps => RoomFree)
    /\ Become(c, [IdleProc EXCEPT !.pc = "prev", !.op = op, !.want = S])
    /\ UNCHANGED <<db, cache>>

(***************************************************************************)
(* The room's current id.  append_to_state files it as the state before    *)
(* its event, and is done if the event is a message.                       *)
(***************************************************************************)
ReadPrev(c) ==
    /\ proc[c].pc = "prev"
    /\ LET room == db.room
           chain == IF room = None THEN << >> ELSE << room >>
           before == IF room = None THEN {} ELSE db.truth[room]
           p == [proc[c] EXCEPT !.prev = room, !.todo = chain]
       IN  \/ /\ p.op = "append"
              /\ IF KeyOf[p.event] = NoKey
                 THEN Done(c, room)
                 ELSE Become(c, [p EXCEPT !.pc = "load", !.want = WithEvent(before, p.event)])
           \/ /\ p.op = "event"
              /\ Become(c, [p EXCEPT !.pc = "load"])
           \/ /\ p.op \in Saves
              /\ Become(c, [p EXCEPT !.pc = "hash"])
    /\ UNCHANGED <<db, cache>>

(***************************************************************************)
(* The intern table, before anything else: set_event_state is done when    *)
(* the state has an id, save_state when that id is the room's.             *)
(***************************************************************************)
ReadHash(c) ==
    /\ proc[c].pc = "hash"
    /\ LET id == Lookup(db.hash, proc[c].want)
           p == [proc[c] EXCEPT !.existing = id]
       IN  \/ /\ p.op = "event"
              /\ IF id # None THEN Done(c, id) ELSE Become(c, [p EXCEPT !.pc = "prev"])
           \/ /\ p.op \in Saves
              /\ IF id # None /\ id = p.prev
                 THEN Done(c, id) ELSE Become(c, [p EXCEPT !.pc = "load"])
    /\ UNCHANGED <<db, cache>>

(***************************************************************************)
(* load_shortstatehash_info.  Going down, a layer that is neither cached   *)
(* nor a full state asks for its parent; coming back up, each layer is the *)
(* one below with its diff applied.  Every stack built is cached.          *)
(***************************************************************************)
FullOfRoot(d) == d.added
FullOver(below, d) == (below \cup d.added) \ d.removed

LayerOf(id, full) ==
    [id |-> id, full |-> full, added |-> db.diffs[id].added, removed |-> db.diffs[id].removed]

Built(c, id, stack) ==
    /\ cache' = Put(cache, id, stack)
    /\ Become(c, [proc[c] EXCEPT !.todo = Tail(@), !.stack = stack])

Descend(c) ==
    /\ proc[c].pc = "load" /\ proc[c].todo # << >> /\ proc[c].stack = << >>
    /\ LET id == Head(proc[c].todo) IN
       \/ /\ id \in DOMAIN cache
          /\ Become(c, [proc[c] EXCEPT !.todo = Tail(@), !.stack = cache[id]])
          /\ UNCHANGED cache
       \/ /\ id \notin DOMAIN cache /\ db.diffs[id].parent = None
          /\ Built(c, id, << LayerOf(id, FullOfRoot(db.diffs[id])) >>)
       \/ /\ id \notin DOMAIN cache /\ db.diffs[id].parent # None
          /\ Become(c, [proc[c] EXCEPT !.todo = << db.diffs[id].parent >> \o @])
          /\ UNCHANGED cache
    /\ UNCHANGED db

Ascend(c) ==
    /\ proc[c].pc = "load" /\ proc[c].todo # << >> /\ proc[c].stack # << >>
    /\ LET id == Head(proc[c].todo)
           stack == proc[c].stack
           full == FullOver(Top(stack).full, db.diffs[id])
       IN  Built(c, id, Append(stack, LayerOf(id, full)))
    /\ UNCHANGED db

(***************************************************************************)
(* A row cannot be read.  save_state goes on with no parent (a full        *)
(* state); the others give up.                                             *)
(***************************************************************************)
LoadFails(c) ==
    /\ proc[c].pc = "load" /\ proc[c].todo # << >>
    /\ Become(c, IF proc[c].op \in Saves
                 THEN [proc[c] EXCEPT !.todo = << >>, !.stack = << >>]
                 ELSE IdleProc)
    /\ UNCHANGED <<db, cache>>

(***************************************************************************)
(* The diff to the state found.  append_to_state replaces the event that   *)
(* fills its slot, and is done if that is the event itself; the others     *)
(* subtract both ways.  save_state saves nothing when the table had an id. *)
(***************************************************************************)
TakeDiffKeepsSlot(c) ==   \* mutant: a slot that is filled stays as it is
    /\ proc[c].pc = "load" /\ proc[c].todo = << >>
    /\ LET p == proc[c]
           base == IF p.stack = << >> THEN {} ELSE Top(p.stack).full
           q == [p EXCEPT !.added = p.want \ base, !.removed = base \ p.want]
       IN  CASE p.op = "append" /\ SameSlot(base, p.event) # {} -> Done(c, p.prev)
             [] p.existing # None -> Done(c, p.existing)
             [] OTHER -> Become(c, [q EXCEPT !.pc = IF p.op = "append" THEN "create" ELSE "check"])
    /\ UNCHANGED <<db, cache>>
TakeDiff(c) ==
    /\ proc[c].pc = "load" /\ proc[c].todo = << >>
    /\ LET p == proc[c]
           base == IF p.stack = << >> THEN {} ELSE Top(p.stack).full
           replaces == SameSlot(base, p.event)
       IN  \/ /\ p.op = "append"
              /\ IF replaces = {p.event}
                 THEN Done(c, p.prev)
                 ELSE Become(c, [p EXCEPT !.pc = "create",
                                          !.added = {p.event}, !.removed = replaces])
           \/ /\ p.op # "append"
              /\ LET q == [p EXCEPT !.added = p.want \ base, !.removed = base \ p.want]
                 IN  IF p.existing # None
                     THEN Done(c, p.existing)
                     ELSE Become(c, [q EXCEPT !.pc = "check"])
    /\ UNCHANGED <<db, cache>>

(***************************************************************************)
(* get_or_create_shortstatehash: look, take the state's lock, look again.  *)
(***************************************************************************)
LookAgain(c, next) ==
    LET id == Lookup(db.hash, proc[c].want)
    IN  /\ IF id # None
           THEN Done(c, id)
           ELSE Become(c, [proc[c] EXCEPT !.pc = next])
        /\ UNCHANGED <<db, cache>>

CheckHash(c) == proc[c].pc = "check" /\ LookAgain(c, "lock")

LockHash(c) ==
    /\ proc[c].pc = "lock" /\ HashFree(c)
    /\ Become(c, [proc[c] EXCEPT !.pc = "recheck"])
    /\ UNCHANGED <<db, cache>>

RecheckReserves(c) ==   \* mutant: the table's row goes in before the diff
    /\ proc[c].pc = "recheck" /\ proc[c].want \notin DOMAIN db.hash
    /\ db' = [db EXCEPT !.hash = Put(@, proc[c].want, db.count + 1)]
    /\ Become(c, [proc[c] EXCEPT !.pc = "create"])
    /\ UNCHANGED cache
RecheckNothing(c) ==   \* mutant: creates without a second look
    /\ proc[c].pc = "recheck"
    /\ Become(c, [proc[c] EXCEPT !.pc = "create"])
    /\ UNCHANGED <<db, cache>>
Recheck(c) == proc[c].pc = "recheck" /\ LookAgain(c, "create")

(***************************************************************************)
(* save_state_from_diff.  The diff is merged with the layer below while    *)
(* there are too many layers, or while it has outgrown that layer; an      *)
(* event that was added below and is now removed, or the reverse, leaves   *)
(* no trace.                                                               *)
(***************************************************************************)
Size(S) == Cardinality(S)

MergesNeverDeep(p) ==   \* mutant: no bound on the layers
    LET parent == Top(p.stack)
        diffsum == Size(p.added) + Size(p.removed)
        parent_diff == Size(parent.added) + Size(parent.removed)
    IN  p.stack # << >> /\ diffsum * diffsum >= 2 * p.sibling * parent_diff
Merges(p) ==
    LET parent == Top(p.stack)
        diffsum == Size(p.added) + Size(p.removed)
        parent_diff == Size(parent.added) + Size(parent.removed)
    IN  /\ p.stack # << >>
        /\ \/ Len(p.stack) > MaxLayers
           \/ diffsum * diffsum >= 2 * p.sibling * parent_diff

MergedRemoved(parent, added, removed) ==
    (parent.removed \cup (removed \ parent.added)) \ added
MergedAddedKeeps(parent, added, removed) ==   \* mutant: keeps what is removed again
    parent.added \cup (added \ (parent.removed \cup (removed \ parent.added)))
MergedAdded(parent, added, removed) ==
    (parent.added \ removed) \cup
        (added \ (parent.removed \cup (removed \ parent.added)))

MergeDown(c) ==
    /\ proc[c].pc = "create" /\ Merges(proc[c])
    /\ LET p == proc[c]
           parent == Top(p.stack)
       IN  Become(c, [p EXCEPT
               !.stack = SubSeq(@, 1, Len(@) - 1),
               !.added = MergedAdded(parent, p.added, p.removed),
               !.removed = MergedRemoved(parent, p.added, p.removed),
               !.sibling = Size(p.added) + Size(p.removed)])
    /\ UNCHANGED <<db, cache>>

(***************************************************************************)
(* The number is drawn and one transaction writes the diff and, but for    *)
(* append_to_state, the row of the intern table.                           *)
(***************************************************************************)
Create(c) ==
    /\ proc[c].pc = "create" /\ ~Merges(proc[c])
    /\ db.count < MaxId
    /\ LET p == proc[c]
           id == db.count + 1
           row == [parent  |-> IF p.stack = << >> THEN None ELSE Top(p.stack).id,
                   added   |-> p.added,
                   removed |-> p.removed]
       IN  /\ db' = [db EXCEPT
                       !.count = id,
                       !.diffs = Put(@, id, row),
                       !.hash  = IF p.op = "append" THEN @ ELSE Put(@, p.want, id),
                       !.truth = Put(@, id, p.want)]
           /\ Done(c, id)
    /\ UNCHANGED cache

(***************************************************************************)
(* What the caller does with the id: set_room_state for an append or a     *)
(* resolved state, the event's row for set_event_state; a save without the *)
(* mutex takes it now and forces the state, or was only caching it.        *)
(* Before set_room_state, append_pdu or force_state's update of the        *)
(* memberships may fail, and the mutex is let go with the room as it was.  *)
(***************************************************************************)
SetRoomState(id) == db' = [db EXCEPT !.room = id]

FinishUnlocked(c) ==   \* mutant: forces the state without the mutex
    /\ proc[c].pc = "finish"
    /\ \/ /\ proc[c].op # "event"
          /\ SetRoomState(proc[c].got)
       \/ /\ proc[c].op \in {"event", "loose"}
          /\ UNCHANGED db
    /\ Become(c, IdleProc)
    /\ UNCHANGED cache
Finish(c) ==
    /\ proc[c].pc = "finish"
    /\ LET p == proc[c] IN
       \/ /\ p.op \in {"append", "resolve"}
          /\ SetRoomState(p.got)
       \/ /\ p.op = "loose" /\ RoomFree
          /\ SetRoomState(p.got)
       \/ /\ p.op \in {"event", "loose"}
          /\ UNCHANGED db
    /\ Become(c, IdleProc)
    /\ UNCHANGED cache

FinishFails(c) ==
    /\ proc[c].pc = "finish" /\ proc[c].op \in {"append", "resolve"}
    /\ Become(c, IdleProc)
    /\ UNCHANGED <<db, cache>>

(***************************************************************************)
(* An entry leaves the cache: the LRU limit, or the clear-caches command.  *)
(***************************************************************************)
Evict(id) ==
    /\ id \in DOMAIN cache
    /\ cache' = Restrict(cache, DOMAIN cache \ {id})
    /\ UNCHANGED <<db, proc>>

(***************************************************************************)
(* The process dies.  A crash that also loses the unflushed end of the log *)
(* leaves tables the process had at an earlier moment, a transaction being *)
(* one record, so it is a crash at that moment.                            *)
(***************************************************************************)
Crash ==
    /\ cache' = << >>
    /\ proc' = [c \in Callers |-> IdleProc]
    /\ UNCHANGED db

Step(c) ==
    \/ \E e \in Events : BeginAppend(c, e)
    \/ \E S \in Wants : BeginEvent(c, S)
    \/ \E op \in Saves, S \in Wants : BeginSave(c, op, S)
    \/ ReadPrev(c) \/ ReadHash(c)
    \/ Descend(c) \/ Ascend(c) \/ LoadFails(c) \/ TakeDiff(c)
    \/ CheckHash(c) \/ LockHash(c) \/ Recheck(c)
    \/ MergeDown(c) \/ Create(c) \/ Finish(c) \/ FinishFails(c)

Next ==
    \/ \E c \in Callers : Step(c)
    \/ \E id \in Ids : Evict(id)
    \/ Crash

Spec == Init /\ [][Next]_vars

-----------------------------------------------------------------------------
DbTypeOK(d) ==
    /\ d.count \in 0 .. MaxId
    /\ d.diffs \in [1 .. d.count -> Diff]
    /\ DOMAIN d.hash \subseteq States /\ \A S \in DOMAIN d.hash : d.hash[S] \in Ids
    /\ d.room \in {None} \cup Ids
    /\ d.truth \in [1 .. d.count -> States]

(***************************************************************************)
(* Types; every state saved holds one event for each slot.                 *)
(***************************************************************************)
TypeOK ==
    /\ DbTypeOK(db)
    /\ DOMAIN cache \subseteq Ids
    /\ \A id \in DOMAIN cache : cache[id] \in Seq(Layer)
    /\ proc \in [Callers -> Proc]

(***************************************************************************)
(* Whatever was merged, whoever saved it and however much of the stack     *)
(* came from the cache: the state rebuilt for an id is the state the id    *)
(* was drawn for.                                                          *)
(***************************************************************************)
LoadedStateIsSaved ==
    \A id \in DOMAIN cache :
        /\ id \in DOMAIN db.truth
        /\ Top(cache[id]).id = id
        /\ Top(cache[id]).full = db.truth[id]

(***************************************************************************)
(* The stack never gets deeper than one layer over MaxLayers ("number of   *)
(* layers"): a load reads a bounded number of rows.                        *)
(***************************************************************************)
LayersBounded == \A id \in DOMAIN cache : Len(cache[id]) <= MaxLayers + 1

(***************************************************************************)
(* A full state lists nothing as removed: load takes `added` alone for it, *)
(* so a merge that reaches the bottom must leave nothing to remove.        *)
(***************************************************************************)
RootsRemoveNothing ==
    \A id \in DOMAIN db.diffs : db.diffs[id].parent = None => db.diffs[id].removed = {}

(***************************************************************************)
(* The id a caller is about to file is one of the state it asked to save,  *)
(* although others saved, or interned the same state, in between.          *)
(***************************************************************************)
GotWhatItWanted ==
    \A c \in Callers :
        proc[c].pc = "finish" /\ (proc[c].op = "append" => KeyOf[proc[c].event] # NoKey) =>
            /\ proc[c].got \in DOMAIN db.truth
            /\ db.truth[proc[c].got] = proc[c].want

(***************************************************************************)
(* Every row points at a stored state, the intern table's at the state it  *)
(* is keyed by, and a diff at an older one: no load dangles or loops.      *)
(***************************************************************************)
NoDanglingIds ==
    /\ db.room # None => db.room \in DOMAIN db.diffs
    /\ \A S \in DOMAIN db.hash : db.hash[S] \in DOMAIN db.diffs /\ db.truth[db.hash[S]] = S
    /\ \A id \in DOMAIN db.diffs : db.diffs[id].parent < id

(***************************************************************************)
(* A state is interned once: while the process lives no second id replaces *)
(* the first ("Returns (shortstatehash, already_existed)").                *)
(***************************************************************************)
InternedOnce ==
    [][\A S \in DOMAIN db.hash :
          S \in DOMAIN db'.hash /\ db'.hash[S] = db.hash[S]]_vars

(***************************************************************************)
(* No lost update: when an append sets the room's state, the new state is  *)
(* the one the room has at that moment with the event in its slot.         *)
(***************************************************************************)
AppendsToCurrent ==
    [][\A c \in Callers :
          proc[c].pc = "finish" /\ proc[c].op = "append"
          /\ KeyOf[proc[c].event] # NoKey /\ Finish(c) =>
             db'.truth[db'.room] =
                 WithEvent(IF db.room = None THEN {} ELSE db.truth[db.room], proc[c].event)]_vars

-----------------------------------------------------------------------------
(***************************************************************************)
(* The layered, cached, concurrent storage implements the abstract store,  *)
(* in which a request takes effect in one step: the state of an id is      *)
(* `truth`, a reader is shown the top of the cached stack.                 *)
(***************************************************************************)
AskedOf(p) ==
    CASE p.pc = "idle" -> << >>
      [] p.pc # "idle" /\ p.op = "append" -> << "append", p.event >>
      [] OTHER -> << p.op, p.want >>
asked == [c \in Callers |-> AskedOf(proc[c])]
shown == [id \in DOMAIN cache |-> Top(cache[id]).full]

Store == INSTANCE StateStore WITH
    states <- db.truth, interned <- db.hash, room <- db.room

\* append_to_state, save_state, set_event_state and force_state each take effect
\* in one step on the room's state, and what is loaded is what was saved.
ImplementsStore == Store!StoreSpec
=============================================================================
