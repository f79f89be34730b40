-------------------------- MODULE RoomState_proofs --------------------------
(***************************************************************************)
(* Proofs about the storage of room states, for any events, slots, tasks   *)
(* and limits.  The invariant is built from predicates on the tables, a    *)
(* stack or a task given as arguments, so that they can be used before and *)
(* after a step alike.                                                     *)
(***************************************************************************)
EXTENDS RoomState, FiniteSetTheorems, TLAPS

Saved(D) == 1 .. D.count
ParentOf(D, id) == D.diffs[id].parent
TruthOf(D, id) == IF id = None THEN {} ELSE D.truth[id]

(***************************************************************************)
(* A diff is exact: it adds only what is not there, removes only what is.  *)
(* Merging is right only for exact diffs, and leaves one.                  *)
(***************************************************************************)
Exact(base, added, removed, S) ==
    added \cap base = {} /\ removed \subseteq base /\ S = (base \cup added) \ removed

(***************************************************************************)
(* The tables.  depth[id] is the number of layers of state id.             *)
(***************************************************************************)
DbShape(D) ==
    D = [count |-> D.count, diffs |-> D.diffs, hash |-> D.hash, room |-> D.room,
         truth |-> D.truth]

DiffsRight(D, depth) ==
    \A id \in Saved(D) :
        /\ ParentOf(D, id) < id
        /\ Exact(TruthOf(D, ParentOf(D, id)), D.diffs[id].added, D.diffs[id].removed, D.truth[id])
        /\ depth[id] = IF ParentOf(D, id) = None THEN 1 ELSE depth[ParentOf(D, id)] + 1

IdsRight(D) ==
    /\ D.room \in {None} \cup Saved(D)
    /\ \A S \in DOMAIN D.hash : D.hash[S] \in Saved(D) /\ D.truth[D.hash[S]] = S

(***************************************************************************)
(* A stack of layers is the chain of diffs from a full state upwards.      *)
(***************************************************************************)
Stacked(D, s, depth) ==
    \A i \in 1 .. Len(s) :
        /\ s[i].id \in Saved(D) /\ depth[s[i].id] = i
        /\ s[i].full = D.truth[s[i].id]
        /\ s[i].added = D.diffs[s[i].id].added /\ s[i].removed = D.diffs[s[i].id].removed
        /\ ParentOf(D, s[i].id) = IF i = 1 THEN None ELSE s[i - 1].id

CacheRight(D, m, depth) ==
    \A id \in DOMAIN m :
        /\ id \in Saved(D) /\ m[id] \in Seq(Layer)
        /\ m[id] # << >> /\ Top(m[id]).id = id
        /\ Stacked(D, m[id], depth)

(***************************************************************************)
(* What a task has in hand.  The ids it still has to load lead from the    *)
(* stack it has to the id it started from.                                 *)
(***************************************************************************)
ChainRight(D, p) ==
    /\ \A i \in 1 .. Len(p.todo) :
          /\ p.todo[i] \in Saved(D)
          /\ i > 1 => p.todo[i - 1] = ParentOf(D, p.todo[i])
    /\ p.todo # << >> => p.todo[Len(p.todo)] = p.prev
    /\ p.todo # << >> /\ p.stack # << >> => Top(p.stack).id = ParentOf(D, p.todo[1])
    /\ p.todo = << >> /\ p.stack # << >> => Top(p.stack).id = p.prev

Base(s) == IF s = << >> THEN {} ELSE Top(s).full
Message(p) == p.op = "append" /\ KeyOf[p.event] = NoKey

LoadRight(D, p) ==
    /\ ChainRight(D, p)
    /\ p.pc \in {"prev", "hash"} => p.stack = << >>
    /\ p.pc = "prev" \/ (p.pc = "hash" /\ p.op = "event") => p.todo = << >>
    /\ p.pc = "load" /\ p.op = "append" =>
          /\ p.prev = D.room
          /\ p.todo = << >> /\ p.stack = << >> => p.prev = None

FinishRight(D, p) ==
    /\ p.got \in {None} \cup Saved(D)
    /\ ~Message(p) => p.got \in Saved(D) /\ D.truth[p.got] = p.want
    /\ Message(p) => p.got = D.room

ProcRight(D, p, depth) ==
    /\ Stacked(D, p.stack, depth)
    /\ p.prev \in {None} \cup Saved(D)
    /\ p.want \in States
    /\ p.existing # None =>
          p.op # "append" /\ p.existing \in Saved(D) /\ D.truth[p.existing] = p.want
    /\ p.pc \in {"prev", "hash", "load"} => LoadRight(D, p)
    /\ p.pc \in {"hash", "check", "lock", "recheck"} => p.op # "append"
    /\ p.pc \in {"check", "lock", "recheck", "create"} =>
          Exact(Base(p.stack), p.added, p.removed, p.want)
    /\ p.pc = "create" /\ p.op # "append" => p.want \notin DOMAIN D.hash
    /\ p.pc \in {"load", "create"} => ~Message(p)
    /\ p.pc \in {"load", "create", "finish"} /\ p.op = "append" /\ ~Message(p) =>
          p.want = WithEvent(TruthOf(D, D.room), p.event)
    /\ p.pc = "finish" => FinishRight(D, p)

(***************************************************************************)
(* The two locks.                                                          *)
(***************************************************************************)
HoldsRoom(p) == p.pc # "idle" /\ p.op \in LockedOps
HoldsHash(p) == p.op # "append" /\ p.pc \in {"recheck", "create"}

LocksRight(f) ==
    \A c, d \in Callers : c # d =>
        /\ ~(HoldsRoom(f[c]) /\ HoldsRoom(f[d]))
        /\ HoldsHash(f[c]) /\ HoldsHash(f[d]) => f[c].want # f[d].want

Depths(D) == [Saved(D) -> 1 .. (MaxLayers + 1)]

Right(depth) ==
    /\ DiffsRight(db, depth) /\ CacheRight(db, cache, depth)
    /\ \A c \in Callers : ProcRight(db, proc[c], depth)

IInv ==
    /\ TypeOK /\ DbShape(db) /\ IdsRight(db) /\ LocksRight(proc)
    /\ \E depth \in Depths(db) : Right(depth)

-----------------------------------------------------------------------------
(***************************************************************************)
(* States and diffs.                                                       *)
(***************************************************************************)
LEMMA MergeExact ==
    ASSUME NEW below, NEW base, NEW parent, Exact(below, parent.added, parent.removed, base),
           NEW added, NEW removed, NEW S, Exact(base, added, removed, S)
    PROVE  Exact(below, MergedAdded(parent, added, removed), MergedRemoved(parent, added, removed), S)
BY DEF Exact, MergedAdded, MergedRemoved

LEMMA DifferenceExact ==
    ASSUME NEW base, NEW S
    PROVE  Exact(base, S \ base, base \ S, S)
BY DEF Exact

LEMMA WithEventState ==
    ASSUME NEW S \in States, NEW e \in Events, KeyOf[e] # NoKey
    PROVE  WithEvent(S, e) \in States
BY DEF States, StateEvents, WithEvent, SameSlot

LEMMA AppendExact ==
    ASSUME NEW S \in States, NEW e \in Events
    PROVE  IF SameSlot(S, e) = {e}
           THEN WithEvent(S, e) = S
           ELSE Exact(S, {e}, SameSlot(S, e), WithEvent(S, e))
<1>1. CASE e \in S
  <2>1. SameSlot(S, e) = {e}  BY <1>1 DEF States, SameSlot
  <2> QED BY <1>1, <2>1 DEF WithEvent
<1>2. CASE e \notin S
  <2>1. SameSlot(S, e) \subseteq S /\ e \notin SameSlot(S, e)  BY <1>2 DEF SameSlot
  <2> QED BY <1>2, <2>1 DEF WithEvent, Exact
<1> QED BY <1>1, <1>2

LEMMA SizeNat ==
    ASSUME NEW S \in SUBSET Events
    PROVE  Size(S) \in Nat
BY RoomStateAssumption, FS_Subset, FS_CardinalityType DEF Size

-----------------------------------------------------------------------------
(***************************************************************************)
(* Stacks.                                                                 *)
(***************************************************************************)
LEMMA StackEmpty ==
    ASSUME NEW D, NEW depth
    PROVE  Stacked(D, << >>, depth)
BY DEF Stacked

LEMMA StackTop ==
    ASSUME NEW D, DbTypeOK(D), NEW depth, NEW s \in Seq(Layer), s # << >>, Stacked(D, s, depth),
           DiffsRight(D, depth)
    PROVE  /\ Top(s) \in Layer /\ Top(s).id \in Saved(D) /\ depth[Top(s).id] = Len(s)
           /\ Top(s).full = D.truth[Top(s).id] /\ Top(s).full \in States
           /\ SubSeq(s, 1, Len(s) - 1) \in Seq(Layer)
           /\ Stacked(D, SubSeq(s, 1, Len(s) - 1), depth)
           /\ Exact(Base(SubSeq(s, 1, Len(s) - 1)), Top(s).added, Top(s).removed, Top(s).full)
<1> DEFINE n == Len(s)
           r == SubSeq(s, 1, n - 1)
<1>1. n \in Nat /\ n >= 1 /\ n = Len(s) /\ s[n] \in Layer  OBVIOUS
<1>2. r \in Seq(Layer) /\ Len(r) = n - 1 /\ \A i \in 1 .. (n - 1) : r[i] = s[i]
  <2>1. \A i \in 1 .. (n - 1) : s[i] \in Layer  BY <1>1
  <2>2. r = [i \in 1 .. (n - 1) |-> s[i]]  BY <1>1
  <2> HIDE DEF r, n
  <2>3. n - 1 \in Nat  BY <1>1
  <2> QED BY <2>1, <2>2, <2>3
<1> HIDE DEF n, r
<1>3. /\ s[n].id \in Saved(D) /\ depth[s[n].id] = n /\ s[n].full = D.truth[s[n].id]
      /\ s[n].added = D.diffs[s[n].id].added /\ s[n].removed = D.diffs[s[n].id].removed
      /\ ParentOf(D, s[n].id) = IF n = 1 THEN None ELSE s[n - 1].id
  BY <1>1 DEF Stacked
<1>4. s[n].full \in States  BY <1>3 DEF DbTypeOK, Saved
<1>5. Stacked(D, r, depth)
  <2> SUFFICES ASSUME NEW i \in 1 .. Len(r)
               PROVE  /\ r[i].id \in Saved(D) /\ depth[r[i].id] = i
                      /\ r[i].full = D.truth[r[i].id]
                      /\ r[i].added = D.diffs[r[i].id].added
                      /\ r[i].removed = D.diffs[r[i].id].removed
                      /\ ParentOf(D, r[i].id) = IF i = 1 THEN None ELSE r[i - 1].id
    BY DEF Stacked
  <2>1. i \in 1 .. Len(s) /\ r[i] = s[i]  BY <1>1, <1>2
  <2>2. i # 1 => r[i - 1] = s[i - 1]  BY <1>1, <1>2
  <2> QED BY <2>1, <2>2 DEF Stacked
<1>6. Base(r) = TruthOf(D, ParentOf(D, s[n].id))
  <2>1. CASE n = 1
    <3>1. r = << >>  BY <1>2, <2>1
    <3> QED BY <1>3, <2>1, <3>1 DEF Base, TruthOf
  <2>2. CASE n # 1
    <3>1. n - 1 \in 1 .. n /\ n - 1 \in 1 .. (n - 1)  BY <1>1, <2>2
    <3>2. s[n - 1].full = D.truth[s[n - 1].id] /\ s[n - 1].id \in Saved(D)
      BY <1>1, <3>1 DEF Stacked
    <3>3. r # << >> /\ Top(r) = s[n - 1]  BY <1>2, <2>2, <3>1 DEF Top
    <3>4. s[n - 1].id # None  BY <3>2 DEF Saved, None, DbTypeOK
    <3> QED BY <1>3, <2>2, <3>2, <3>3, <3>4 DEF Base, TruthOf
  <2> QED BY <2>1, <2>2
<1>7. Exact(Base(r), s[n].added, s[n].removed, s[n].full)
  BY <1>3, <1>6 DEF DiffsRight
<1> QED BY <1>1, <1>2, <1>3, <1>4, <1>5, <1>7 DEF Top, n, r

LEMMA StackPush ==
    ASSUME NEW D, DbTypeOK(D), NEW depth, NEW s \in Seq(Layer), Stacked(D, s, depth),
           DiffsRight(D, depth), NEW id \in Saved(D),
           ParentOf(D, id) = IF s = << >> THEN None ELSE Top(s).id,
           NEW layer \in Layer, layer.id = id, layer.full = D.truth[id],
           layer.added = D.diffs[id].added, layer.removed = D.diffs[id].removed
    PROVE  /\ Append(s, layer) \in Seq(Layer) /\ Append(s, layer) # << >>
           /\ Top(Append(s, layer)) = layer
           /\ Stacked(D, Append(s, layer), depth)
<1> DEFINE n == Len(s)
           t == Append(s, layer)
<1>1. n \in Nat /\ t \in Seq(Layer) /\ Len(t) = n + 1 /\ t[n + 1] = layer
  OBVIOUS
<1>2. \A i \in 1 .. n : t[i] = s[i]  OBVIOUS
<1>3. depth[id] = n + 1
  <2>1. CASE s = << >>  BY <2>1 DEF DiffsRight
  <2>2. CASE s # << >>
    <3>1. Top(s).id \in Saved(D) /\ depth[Top(s).id] = n  BY <2>2, StackTop
    <3>2. Top(s).id # None  BY <3>1 DEF Saved, None, DbTypeOK
    <3> QED BY <2>2, <3>1, <3>2 DEF DiffsRight
  <2> QED BY <2>1, <2>2
<1>4. n + 1 = 1 <=> s = << >>  BY <1>1
<1>5. s # << >> => t[n + 1 - 1].id = Top(s).id  BY <1>1, <1>2 DEF Top
<1> HIDE DEF t, n
<1>6. ASSUME NEW i \in 1 .. Len(t)
      PROVE  /\ t[i].id \in Saved(D) /\ depth[t[i].id] = i
             /\ t[i].full = D.truth[t[i].id]
             /\ t[i].added = D.diffs[t[i].id].added /\ t[i].removed = D.diffs[t[i].id].removed
             /\ ParentOf(D, t[i].id) = IF i = 1 THEN None ELSE t[i - 1].id
  <2>1. CASE i = n + 1  BY <1>1, <1>3, <1>4, <1>5, <2>1
  <2>2. CASE i # n + 1
    <3>1. i \in 1 .. n /\ t[i] = s[i]  BY <1>1, <1>2, <2>2
    <3>2. i # 1 => t[i - 1] = s[i - 1]  BY <1>1, <1>2, <3>1
    <3> QED BY <3>1, <3>2 DEF Stacked, n
  <2> QED BY <2>1, <2>2
<1>7. Stacked(D, t, depth)  BY <1>6 DEF Stacked
<1>8. t # << >> /\ Top(t) = layer  BY <1>1 DEF Top
<1> QED BY <1>1, <1>7, <1>8 DEF t
-----------------------------------------------------------------------------
(***************************************************************************)
(* One task moves and the tables stay.                                     *)
(***************************************************************************)
LEMMA IdsSaved ==
    ASSUME NEW D, DbTypeOK(D)
    PROVE  D.count \in Nat /\ Saved(D) \subseteq Ids /\ None \notin Saved(D)
BY RoomStateAssumption DEF DbTypeOK, Saved, Ids, None

LEMMA LocksKeep ==
    ASSUME IInv, NEW c \in Callers, NEW p \in Proc, Become(c, p),
           HoldsRoom(p) => HoldsRoom(proc[c]) \/ RoomFree,
           HoldsHash(p) => p.want = proc[c].want /\ (HoldsHash(proc[c]) \/ HashFree(c))
    PROVE  LocksRight(proc')
<1>1. TypeOK /\ LocksRight(proc)  BY DEF IInv
<1>2. /\ proc'[c] = p
      /\ \A d \in Callers : d # c => proc'[d] = proc[d]
  BY <1>1 DEF TypeOK, Become
<1>3. ASSUME NEW d \in Callers, d # c
      PROVE  /\ ~(HoldsRoom(p) /\ HoldsRoom(proc[d]))
             /\ HoldsHash(p) /\ HoldsHash(proc[d]) => p.want # proc[d].want
  <2>1. RoomFree => ~HoldsRoom(proc[d])  BY DEF RoomFree, HoldsRoom
  <2>2. HashFree(c) /\ HoldsHash(proc[d]) => proc[d].want # proc[c].want
    BY <1>3 DEF HashFree, HoldsHash
  <2> QED BY <1>1, <1>3, <2>1, <2>2 DEF LocksRight
<1> QED BY <1>1, <1>2, <1>3 DEF LocksRight

LEMMA Moves ==
    ASSUME IInv, NEW c \in Callers, NEW p \in Proc, Become(c, p), db' = db,
           NEW depth \in Depths(db), Right(depth), ProcRight(db, p, depth),
           CacheRight(db, cache', depth),
           HoldsRoom(p) => HoldsRoom(proc[c]) \/ RoomFree,
           HoldsHash(p) => p.want = proc[c].want /\ (HoldsHash(proc[c]) \/ HashFree(c))
    PROVE  IInv'
<1>1. TypeOK /\ DbTypeOK(db) /\ DbShape(db) /\ IdsRight(db) /\ LocksRight(proc)
  BY DEF IInv, TypeOK
<1>2. /\ proc' \in [Callers -> Proc] /\ proc'[c] = p
      /\ \A d \in Callers : d # c => proc'[d] = proc[d]
  BY <1>1 DEF TypeOK, Become
<1>3. TypeOK'
  <2>1. DOMAIN cache' \subseteq Ids /\ \A id \in DOMAIN cache' : cache'[id] \in Seq(Layer)
    BY <1>1, IdsSaved DEF CacheRight
  <2> QED BY <1>1, <1>2, <2>1 DEF TypeOK
<1>4. LocksRight(proc')  BY LocksKeep
<1>5. \A d \in Callers : ProcRight(db', proc'[d], depth)
  BY <1>2 DEF Right
<1>6. Right(depth)'
  BY <1>5 DEF Right
<1> QED BY <1>1, <1>3, <1>4, <1>6 DEF IInv

LEMMA IdleIs ==
    /\ IdleProc \in Proc /\ IdleProc.pc = "idle" /\ IdleProc.want = {}
    /\ IdleProc.prev = None /\ IdleProc.existing = None
    /\ IdleProc.todo = << >> /\ IdleProc.stack = << >>
<1> DEFINE e == CHOOSE x \in Events : TRUE
<1>1. e \in Events  BY RoomStateAssumption
<1>2. << >> \in Seq(Ids) /\ << >> \in Seq(Layer)  OBVIOUS
<1>3. IdleProc = [pc |-> "idle", op |-> "append", event |-> e,
                  want |-> {}, prev |-> None, existing |-> None, todo |-> << >>,
                  stack |-> << >>, added |-> {}, removed |-> {}, sibling |-> Sibling,
                  got |-> None]
  BY DEF IdleProc
<1> HIDE DEF e
<1> QED BY <1>1, <1>2, <1>3, RoomStateAssumption DEF Proc, Ops

LEMMA EmptyState == {} \in States
BY DEF States

LEMMA IdleRight ==
    ASSUME NEW D, NEW depth
    PROVE  ProcRight(D, IdleProc, depth) /\ ~HoldsRoom(IdleProc) /\ ~HoldsHash(IdleProc)
BY IdleIs, EmptyState, StackEmpty DEF ProcRight, HoldsRoom, HoldsHash

(***************************************************************************)
(* A task has its id.                                                      *)
(***************************************************************************)
FinishOf(p, id) ==
    [IdleProc EXCEPT !.pc = "finish", !.op = p.op, !.event = p.event, !.want = p.want, !.got = id]

LEMMA DoneRight ==
    ASSUME NEW D, DbTypeOK(D), NEW depth, NEW p \in Proc, p.want \in States,
           NEW id \in {None} \cup Saved(D),
           ~Message(p) => id \in Saved(D) /\ D.truth[id] = p.want,
           Message(p) => id = D.room,
           p.op = "append" /\ ~Message(p) => p.want = WithEvent(TruthOf(D, D.room), p.event)
    PROVE  /\ FinishOf(p, id) \in Proc
           /\ FinishOf(p, id).pc = "finish" /\ FinishOf(p, id).op = p.op
           /\ ProcRight(D, FinishOf(p, id), depth)
<1> DEFINE i == IdleProc
           t == FinishOf(p, id)
<1>1. i \in Proc  BY IdleIs
<1>2. id \in {None} \cup Ids  BY IdsSaved
<1>3. t = [i EXCEPT !.pc = "finish", !.op = p.op, !.event = p.event, !.want = p.want, !.got = id]
  BY DEF FinishOf
<1>4. i.stack = << >> /\ i.prev = None /\ i.existing = None  BY IdleIs
<1> HIDE DEF i, t
<1>5. t \in Proc  BY <1>1, <1>2, <1>3 DEF Proc
<1>6. /\ t.pc = "finish" /\ t.op = p.op /\ t.event = p.event /\ t.want = p.want /\ t.got = id
      /\ t.stack = << >> /\ t.prev = None /\ t.existing = None
  BY <1>1, <1>3, <1>4 DEF Proc
<1>7. Message(t) <=> Message(p)  BY <1>6 DEF Message
<1>8. FinishRight(D, t)  BY <1>6, <1>7 DEF FinishRight
<1>9. ProcRight(D, t, depth)  BY <1>5, <1>6, <1>7, <1>8, StackEmpty DEF ProcRight
<1> QED BY <1>5, <1>6, <1>9 DEF t

LEMMA DoneKeeps ==
    ASSUME IInv, NEW c \in Callers, NEW id \in {None} \cup Saved(db), Done(c, id),
           UNCHANGED <<db, cache>>, proc[c].pc # "idle",
           ~Message(proc[c]) => id \in Saved(db) /\ db.truth[id] = proc[c].want,
           Message(proc[c]) => id = db.room,
           proc[c].op = "append" /\ ~Message(proc[c]) =>
               proc[c].want = WithEvent(TruthOf(db, db.room), proc[c].event)
    PROVE  IInv'
<1>1. PICK depth \in Depths(db) : Right(depth)  BY DEF IInv
<1> DEFINE t == FinishOf(proc[c], id)
<1>2. proc[c] \in Proc /\ proc[c].want \in States /\ DbTypeOK(db)
  BY <1>1 DEF IInv, TypeOK, Right, ProcRight
<1>3. Become(c, t)  BY DEF Done, FinishOf
<1>4. t \in Proc /\ t.pc = "finish" /\ t.op = proc[c].op /\ ProcRight(db, t, depth)
  BY <1>2, DoneRight
<1> HIDE DEF t
<1>5. HoldsRoom(t) => HoldsRoom(proc[c])  BY <1>4 DEF HoldsRoom
<1>6. ~HoldsHash(t)  BY <1>4 DEF HoldsHash
<1>7. CacheRight(db, cache', depth)  BY <1>1 DEF Right
<1> QED BY <1>1, <1>3, <1>4, <1>5, <1>6, <1>7, Moves

-----------------------------------------------------------------------------
(***************************************************************************)
(* A task starts.                                                          *)
(***************************************************************************)
LEMMA BeginRight ==
    ASSUME NEW D, NEW depth, NEW t, t.pc \in {"prev", "hash"},
           t.pc = "hash" => t.op # "append", t.want \in States,
           t.prev = None, t.existing = None, t.todo = << >>, t.stack = << >>
    PROVE  ProcRight(D, t, depth) /\ ~HoldsHash(t)
<1>1. ChainRight(D, t)  BY DEF ChainRight
<1>2. LoadRight(D, t)  BY <1>1 DEF LoadRight
<1> QED BY <1>2, StackEmpty DEF ProcRight, HoldsHash

LEMMA BeginKeeps ==
    ASSUME IInv, NEW c \in Callers,
           \/ \E e \in Events : BeginAppend(c, e)
           \/ \E S \in Wants : BeginEvent(c, S)
           \/ \E op \in Saves, S \in Wants : BeginSave(c, op, S)
    PROVE  IInv'
<1>1. PICK depth \in Depths(db) : Right(depth)  BY DEF IInv
<1> DEFINE i == IdleProc
<1>2. /\ i \in Proc /\ i.pc = "idle" /\ i.want = {} /\ i.prev = None /\ i.existing = None
      /\ i.todo = << >> /\ i.stack = << >>
  BY IdleIs
<1>3. \A R \in Wants : R \in States /\ R \in SUBSET Events
  BY WantsAssumption DEF States, StateEvents
<1>4. CacheRight(db, cache, depth)  BY <1>1 DEF Right
<1>5. ASSUME NEW e \in Events, BeginAppend(c, e)  PROVE IInv'
  <2> DEFINE t == [i EXCEPT !.pc = "prev", !.op = "append", !.event = e]
  <2>1. Become(c, t) /\ RoomFree /\ UNCHANGED <<db, cache>>  BY <1>5 DEF BeginAppend
  <2> HIDE DEF i
  <2>2. /\ t \in Proc /\ t.pc = "prev" /\ t.op = "append" /\ t.want = {} /\ t.prev = None
        /\ t.existing = None /\ t.todo = << >> /\ t.stack = << >>
    BY <1>2 DEF Proc, Ops
  <2> HIDE DEF t
  <2>3. t.want \in States /\ t.pc \in {"prev", "hash"} /\ (t.pc = "hash" => t.op # "append")
    BY <2>2, EmptyState
  <2>4. ProcRight(db, t, depth) /\ ~HoldsHash(t)
    <3>1. t.prev = None /\ t.existing = None /\ t.todo = << >> /\ t.stack = << >>  BY <2>2
    <3> QED BY <2>3, <3>1, BeginRight
  <2> QED BY <1>1, <1>4, <2>1, <2>2, <2>4, Moves
<1>6. ASSUME NEW R \in Wants, BeginEvent(c, R)  PROVE IInv'
  <2> DEFINE t == [i EXCEPT !.pc = "hash", !.op = "event", !.want = R, !.sibling = EventSibling]
  <2>1. Become(c, t) /\ RoomFree /\ UNCHANGED <<db, cache>>  BY <1>6 DEF BeginEvent
  <2> HIDE DEF i
  <2>2. /\ t \in Proc /\ t.pc = "hash" /\ t.op = "event" /\ t.want = R /\ t.prev = None
        /\ t.existing = None /\ t.todo = << >> /\ t.stack = << >>
    BY <1>2, <1>3, RoomStateAssumption DEF Proc, Ops
  <2> HIDE DEF t
  <2>3. ProcRight(db, t, depth) /\ ~HoldsHash(t)
    BY <1>3, <2>2, BeginRight
  <2> QED BY <1>1, <1>4, <2>1, <2>2, <2>3, Moves
<1>7. ASSUME NEW op \in Saves, NEW R \in Wants, BeginSave(c, op, R)  PROVE IInv'
  <2> DEFINE t == [i EXCEPT !.pc = "prev", !.op = op, !.want = R]
  <2>1. Become(c, t) /\ (op \in LockedOps => RoomFree) /\ UNCHANGED <<db, cache>>
    BY <1>7 DEF BeginSave
  <2> HIDE DEF i
  <2>2. /\ t \in Proc /\ t.pc = "prev" /\ t.op = op /\ t.want = R /\ t.prev = None
        /\ t.existing = None /\ t.todo = << >> /\ t.stack = << >>
    BY <1>2, <1>3 DEF Proc, Ops
  <2> HIDE DEF t
  <2>3. ProcRight(db, t, depth) /\ ~HoldsHash(t)
    BY <1>3, <2>2, BeginRight
  <2>4. HoldsRoom(t) => RoomFree  BY <2>1, <2>2 DEF HoldsRoom
  <2> QED BY <1>1, <1>4, <2>1, <2>2, <2>3, <2>4, Moves
<1> QED BY <1>5, <1>6, <1>7

(***************************************************************************)
(* The room's id is read.                                                  *)
(***************************************************************************)
LEMMA ReadPrevKeeps ==
    ASSUME IInv, NEW c \in Callers, ReadPrev(c)
    PROVE  IInv'
<1>1. PICK depth \in Depths(db) : Right(depth)  BY DEF IInv
<1> DEFINE o == proc[c]
           room == db.room
           chain == IF room = None THEN << >> ELSE << room >>
           before == IF room = None THEN {} ELSE db.truth[room]
           p == [o EXCEPT !.prev = room, !.todo = chain]
<1>2. /\ o \in Proc /\ DbTypeOK(db) /\ IdsRight(db) /\ ProcRight(db, o, depth)
      /\ CacheRight(db, cache, depth)
  BY <1>1 DEF IInv, TypeOK, Right
<1>3. o.pc = "prev" /\ UNCHANGED <<db, cache>>  BY DEF ReadPrev
<1>4. /\ \/ p.op = "append" /\ KeyOf[p.event] = NoKey /\ Done(c, room)
         \/ p.op = "append" /\ KeyOf[p.event] # NoKey
            /\ Become(c, [p EXCEPT !.pc = "load", !.want = WithEvent(before, p.event)])
         \/ p.op = "event" /\ Become(c, [p EXCEPT !.pc = "load"])
         \/ p.op \in Saves /\ Become(c, [p EXCEPT !.pc = "hash"])
  BY DEF ReadPrev
<1>5. room \in {None} \cup Saved(db) /\ room \in {None} \cup Ids /\ None \notin Saved(db)
  BY <1>2, IdsSaved DEF IdsRight
<1>6. chain \in Seq(Ids)  BY <1>5
<1>7. before = TruthOf(db, db.room)  BY DEF TruthOf
<1>8. before \in States
  BY <1>2, <1>5, EmptyState DEF DbTypeOK, Saved
<1>9. o.stack = << >> /\ o.want \in States /\ (o.existing # None => o.op # "append")
  BY <1>2, <1>3 DEF ProcRight, LoadRight
<1>10. chain = IF room = None THEN << >> ELSE << room >>  OBVIOUS
<1>11. o = proc[c] /\ room = db.room  OBVIOUS
<1>12. p = [o EXCEPT !.prev = room, !.todo = chain]  OBVIOUS
<1> HIDE DEF o, chain, room, before, p
<1>13. /\ p \in Proc /\ p.pc = o.pc /\ p.op = o.op /\ p.event = o.event /\ p.want = o.want
       /\ p.existing = o.existing /\ p.stack = << >> /\ p.todo = chain /\ p.prev = room
  BY <1>2, <1>5, <1>6, <1>9, <1>12 DEF Proc
<1>14. ASSUME NEW t \in Proc, t.prev = room, t.todo = chain, t.stack = << >>
       PROVE  ChainRight(db, t)
  <2>1. CASE room = None
    <3>1. t.todo = << >>  BY <1>10, <1>14, <2>1
    <3> QED BY <1>14, <3>1 DEF ChainRight
  <2>2. CASE room # None
    <3>1. t.todo = << room >> /\ room \in Saved(db)  BY <1>5, <1>10, <1>14, <2>2
    <3>2. Len(t.todo) = 1 /\ t.todo[1] = room  BY <3>1
    <3> QED BY <1>14, <3>1, <3>2 DEF ChainRight
  <2> QED BY <2>1, <2>2
<1>15. CASE p.op = "append" /\ KeyOf[p.event] = NoKey /\ Done(c, room)
  <2>1. Message(o)  BY <1>13, <1>15 DEF Message
  <2> QED BY <1>3, <1>5, <1>11, <1>15, <2>1, DoneKeeps
<1>16. CASE /\ p.op = "append" /\ KeyOf[p.event] # NoKey
            /\ Become(c, [p EXCEPT !.pc = "load", !.want = WithEvent(before, p.event)])
  <2> DEFINE w == WithEvent(before, p.event)
             t == [p EXCEPT !.pc = "load", !.want = w]
  <2>1. p.event \in Events  BY <1>13 DEF Proc
  <2>2. w \in States  BY <1>8, <1>16, <2>1, WithEventState
  <2>3. w \in SUBSET Events  BY <2>2 DEF States, StateEvents
  <2>4. w = WithEvent(TruthOf(db, db.room), p.event) /\ Become(c, t)  BY <1>7, <1>16
  <2> HIDE DEF w
  <2>5. /\ t \in Proc /\ t.pc = "load" /\ t.op = "append" /\ t.event = p.event /\ t.want = w
        /\ t.existing = o.existing /\ t.stack = << >> /\ t.todo = chain /\ t.prev = room
    BY <1>13, <1>16, <2>3 DEF Proc
  <2> HIDE DEF t
  <2>6. LoadRight(db, t)
    <3>1. ChainRight(db, t)  BY <1>14, <2>5
    <3>2. << room >> # << >>  OBVIOUS
    <3>3. t.todo = << >> => t.prev = None  BY <1>10, <2>5, <3>2
    <3> QED BY <1>11, <2>5, <3>1, <3>3 DEF LoadRight
  <2>7. ~Message(t)  BY <1>16, <2>5 DEF Message
  <2>8. t.existing = None  BY <1>9, <1>13, <1>16, <2>5
  <2>9. ProcRight(db, t, depth)
    BY <1>5, <2>2, <2>4, <2>5, <2>6, <2>7, <2>8, StackEmpty DEF ProcRight
  <2>10. ~HoldsHash(t) /\ (HoldsRoom(t) => HoldsRoom(o))
    BY <1>3, <1>13, <1>16, <2>5 DEF HoldsHash, HoldsRoom
  <2> QED BY <1>1, <1>2, <1>3, <1>11, <2>4, <2>5, <2>9, <2>10, Moves
<1>17. ASSUME NEW pc \in {"load", "hash"}, p.op # "append", pc = "hash" => p.op # "event",
              Become(c, [p EXCEPT !.pc = pc])
       PROVE  IInv'
  <2> DEFINE t == [p EXCEPT !.pc = pc]
  <2>1. /\ t \in Proc /\ t.pc = pc /\ t.op = p.op /\ t.want = o.want
        /\ t.existing = o.existing /\ t.stack = << >> /\ t.todo = chain /\ t.prev = room
    BY <1>13 DEF Proc
  <2>2. Become(c, t)  BY <1>17
  <2> HIDE DEF t
  <2>3. LoadRight(db, t)
    <3>1. ChainRight(db, t)  BY <1>14, <2>1
    <3> QED BY <1>17, <2>1, <3>1 DEF LoadRight
  <2>4. ~Message(t)  BY <1>17, <2>1 DEF Message
  <2>5. t.existing # None => t.existing \in Saved(db) /\ db.truth[t.existing] = t.want
    BY <1>2, <2>1 DEF ProcRight
  <2>6. ProcRight(db, t, depth)
    BY <1>5, <1>9, <1>17, <2>1, <2>3, <2>4, <2>5, StackEmpty DEF ProcRight
  <2>7. ~HoldsHash(t) /\ (HoldsRoom(t) => HoldsRoom(o))
    BY <1>3, <1>13, <2>1 DEF HoldsHash, HoldsRoom
  <2> QED BY <1>1, <1>2, <1>3, <1>11, <2>1, <2>2, <2>6, <2>7, Moves
<1> QED BY <1>4, <1>15, <1>16, <1>17 DEF Saves

(***************************************************************************)
(* What the intern table says.                                             *)
(***************************************************************************)
LEMMA LookupRight ==
    ASSUME NEW D, DbTypeOK(D), IdsRight(D), NEW S
    PROVE  LET id == Lookup(D.hash, S) IN
           /\ id \in {None} \cup Saved(D) /\ id \in {None} \cup Ids
           /\ id # None => id \in Saved(D) /\ D.truth[id] = S
           /\ id = None => S \notin DOMAIN D.hash
<1>1. Saved(D) \subseteq Ids /\ None \notin Saved(D)  BY IdsSaved
<1>2. CASE S \in DOMAIN D.hash
  BY <1>1, <1>2 DEF Lookup, IdsRight
<1>3. CASE S \notin DOMAIN D.hash
  BY <1>3 DEF Lookup
<1> QED BY <1>2, <1>3

LEMMA ReadHashKeeps ==
    ASSUME IInv, NEW c \in Callers, ReadHash(c)
    PROVE  IInv'
<1>1. PICK depth \in Depths(db) : Right(depth)  BY DEF IInv
<1> DEFINE o == proc[c]
           id == Lookup(db.hash, o.want)
           p == [o EXCEPT !.existing = id]
<1>2. /\ o \in Proc /\ DbTypeOK(db) /\ IdsRight(db) /\ ProcRight(db, o, depth)
      /\ CacheRight(db, cache, depth)
  BY <1>1 DEF IInv, TypeOK, Right
<1>3. o.pc = "hash" /\ UNCHANGED <<db, cache>>  BY DEF ReadHash
<1>4. \/ p.op = "event" /\ id # None /\ Done(c, id)
      \/ p.op = "event" /\ Become(c, [p EXCEPT !.pc = "prev"])
      \/ p.op \in Saves /\ id # None /\ Done(c, id)
      \/ p.op \in Saves /\ Become(c, [p EXCEPT !.pc = "load"])
  BY DEF ReadHash
<1>5. /\ id \in {None} \cup Saved(db) /\ id \in {None} \cup Ids
      /\ id # None => id \in Saved(db) /\ db.truth[id] = o.want
  BY <1>2, LookupRight
<1>6. o = proc[c] /\ p = [o EXCEPT !.existing = id]  OBVIOUS
<1> HIDE DEF o, id, p
<1>7. /\ p \in Proc /\ p.pc = o.pc /\ p.op = o.op /\ p.event = o.event /\ p.want = o.want
      /\ p.existing = id /\ p.stack = o.stack /\ p.todo = o.todo /\ p.prev = o.prev
  BY <1>2, <1>5, <1>6 DEF Proc
<1>8. LoadRight(db, o) /\ o.op # "append" /\ o.stack = << >>
  BY <1>2, <1>3 DEF ProcRight, LoadRight
<1>9. CASE id # None /\ Done(c, id)
  BY <1>3, <1>5, <1>6, <1>8, <1>9, DoneKeeps DEF Message
<1>10. ASSUME NEW pc \in {"load", "prev"}, pc = "prev" => p.op = "event",
              Become(c, [p EXCEPT !.pc = pc])
       PROVE  IInv'
  <2> DEFINE t == [p EXCEPT !.pc = pc]
  <2>1. /\ t \in Proc /\ t.pc = pc /\ t.op = o.op /\ t.want = o.want
        /\ t.existing = id /\ t.stack = o.stack /\ t.todo = o.todo /\ t.prev = o.prev
    BY <1>7 DEF Proc
  <2>2. Become(c, t)  BY <1>10
  <2> HIDE DEF t
  <2>3. LoadRight(db, t)
    <3>1. ChainRight(db, t)  BY <1>8, <2>1 DEF LoadRight, ChainRight
    <3>2. pc = "prev" => t.todo = << >>  BY <1>3, <1>7, <1>8, <1>10, <2>1 DEF LoadRight
    <3> QED BY <1>8, <2>1, <3>1, <3>2 DEF LoadRight
  <2>4. ~Message(t)  BY <1>8, <2>1 DEF Message
  <2>5. ProcRight(db, t, depth)
    BY <1>2, <1>5, <1>8, <2>1, <2>3, <2>4 DEF ProcRight
  <2>6. ~HoldsHash(t) /\ (HoldsRoom(t) => HoldsRoom(o))
    BY <1>3, <2>1 DEF HoldsHash, HoldsRoom
  <2> QED BY <1>1, <1>2, <1>3, <1>6, <2>1, <2>2, <2>5, <2>6, Moves
<1> QED BY <1>4, <1>9, <1>10 DEF Saves

(***************************************************************************)
(* Loading.                                                                *)
(***************************************************************************)
LEMMA TailFacts ==
    ASSUME NEW T, NEW q \in Seq(T), q # << >>
    PROVE  /\ Tail(q) \in Seq(T)
           /\ Len(q) = 1 => Tail(q) = << >>
           /\ Len(q) # 1 => /\ Tail(q) # << >> /\ 2 \in 1 .. Len(q)
                           /\ Tail(q)[Len(Tail(q))] = q[Len(q)] /\ Tail(q)[1] = q[2]
           /\ \A i \in 1 .. Len(Tail(q)) :
                 /\ i + 1 \in 1 .. Len(q) /\ i + 1 > 1
                 /\ Tail(q)[i] = q[i + 1]
                 /\ i > 1 => Tail(q)[i - 1] = q[(i + 1) - 1]
<1> DEFINE n == Len(q)
           r == Tail(q)
<1>1. n \in Nat /\ n >= 1  OBVIOUS
<1>2. r \in Seq(T) /\ Len(r) = n - 1  OBVIOUS
<1>3. \A i \in 1 .. (n - 1) : r[i] = q[i + 1]  OBVIOUS
<1>4. n = Len(q) /\ r = Tail(q)  OBVIOUS
<1> HIDE DEF n, r
<1>5. n = 1 => r = << >>
  <2>1. Len(r) = 0 => r = << >>  BY <1>2
  <2>2. n = 1 => n - 1 = 0  BY <1>1
  <2> QED BY <1>2, <2>1, <2>2
<1>6. n # 1 => r # << >>
  <2>1. n # 1 => n - 1 # 0  BY <1>1
  <2>2. Len(<< >>) = 0  OBVIOUS
  <2> QED BY <1>2, <2>1, <2>2
<1>7. ASSUME n # 1
      PROVE  2 \in 1 .. n /\ r[Len(r)] = q[n] /\ r[1] = q[2]
  <2>1. 2 \in 1 .. n /\ 1 \in 1 .. (n - 1) /\ n - 1 \in 1 .. (n - 1)  BY <1>1, <1>7
  <2>2. r[1] = q[1 + 1] /\ r[n - 1] = q[(n - 1) + 1]  BY <1>3, <2>1
  <2>3. 1 + 1 = 2 /\ (n - 1) + 1 = n  BY <1>1
  <2> QED BY <1>2, <2>1, <2>2, <2>3
<1>8. ASSUME NEW i \in 1 .. Len(r)
      PROVE  /\ i + 1 \in 1 .. n /\ i + 1 > 1 /\ r[i] = q[i + 1]
             /\ i > 1 => r[i - 1] = q[(i + 1) - 1]
  <2>1. i \in Nat /\ i \in 1 .. (n - 1) /\ i + 1 \in 1 .. n /\ i + 1 > 1  BY <1>1, <1>2
  <2>2. ASSUME i > 1  PROVE r[i - 1] = q[(i + 1) - 1]
    <3>1. i - 1 \in 1 .. (n - 1) /\ (i - 1) + 1 = (i + 1) - 1  BY <1>1, <2>1, <2>2
    <3> QED BY <1>3, <3>1
  <2> QED BY <1>3, <2>1, <2>2
<1> QED BY <1>2, <1>4, <1>5, <1>6, <1>7, <1>8

LEMMA TailChain ==
    ASSUME NEW D, NEW p \in Proc, ChainRight(D, p), p.todo # << >>,
           NEW t, t.prev = p.prev, t.todo = Tail(p.todo),
           t.stack # << >>, Top(t.stack).id = p.todo[1]
    PROVE  ChainRight(D, t)
<1> DEFINE q == p.todo
           r == Tail(q)
<1>1. /\ Len(q) = 1 => r = << >>
      /\ Len(q) # 1 => /\ r # << >> /\ 2 \in 1 .. Len(q)
                       /\ r[Len(r)] = q[Len(q)] /\ r[1] = q[2]
      /\ \A i \in 1 .. Len(r) : /\ i + 1 \in 1 .. Len(q) /\ i + 1 > 1 /\ r[i] = q[i + 1]
                                /\ i > 1 => r[i - 1] = q[(i + 1) - 1]
  BY TailFacts DEF Proc
<1>2. /\ \A i \in 1 .. Len(q) : /\ q[i] \in Saved(D)
                                /\ i > 1 => q[i - 1] = ParentOf(D, q[i])
      /\ q[Len(q)] = p.prev
  BY DEF ChainRight
<1>3. t.todo = r /\ Top(t.stack).id = q[1]  OBVIOUS
<1> HIDE DEF q, r
<1>4. \A i \in 1 .. Len(r) : r[i] \in Saved(D) /\ (i > 1 => r[i - 1] = ParentOf(D, r[i]))
  <2> TAKE i \in 1 .. Len(r)
  <2> DEFINE k == i + 1
  <2>1. k \in 1 .. Len(q) /\ k > 1 /\ r[i] = q[k] /\ (i > 1 => r[i - 1] = q[k - 1])  BY <1>1
  <2> HIDE DEF k
  <2> QED BY <1>2, <2>1
<1>5. CASE Len(q) = 1
  BY <1>1, <1>2, <1>3, <1>4, <1>5 DEF ChainRight
<1>6. CASE Len(q) # 1
  <2>1. q[2 - 1] = ParentOf(D, q[2])  BY <1>1, <1>2, <1>6
  <2>2. 2 - 1 = 1  OBVIOUS
  <2>3. q[1] = ParentOf(D, r[1])  BY <1>1, <1>6, <2>1, <2>2
  <2>4. r # << >> /\ r[Len(r)] = p.prev  BY <1>1, <1>2, <1>6
  <2> QED BY <1>3, <1>4, <2>3, <2>4 DEF ChainRight
<1> QED BY <1>5, <1>6

(***************************************************************************)
(* A stack is found in the cache, or built and put there.                  *)
(***************************************************************************)
LEMMA StackFoundKeeps ==
    ASSUME IInv, NEW c \in Callers, NEW depth \in Depths(db), Right(depth),
           proc[c].pc = "load", proc[c].todo # << >>,
           NEW s \in Seq(Layer), s # << >>, Stacked(db, s, depth), Top(s).id = proc[c].todo[1],
           Become(c, [proc[c] EXCEPT !.todo = Tail(@), !.stack = s]),
           db' = db, CacheRight(db, cache', depth)
    PROVE  IInv'
<1> DEFINE o == proc[c]
           t == [o EXCEPT !.todo = Tail(o.todo), !.stack = s]
<1>1. o \in Proc /\ ProcRight(db, o, depth)  BY DEF IInv, TypeOK, Right
<1>2. Become(c, t) /\ o.pc = "load" /\ o.todo # << >> /\ Top(s).id = o.todo[1] /\ o = proc[c]
  BY <1>1 DEF Proc
<1> HIDE DEF o
<1>3. Tail(o.todo) \in Seq(Ids)  BY <1>1, <1>2 DEF Proc
<1>4. /\ t \in Proc /\ t.pc = "load" /\ t.op = o.op /\ t.event = o.event /\ t.want = o.want
      /\ t.prev = o.prev /\ t.existing = o.existing /\ t.todo = Tail(o.todo) /\ t.stack = s
  BY <1>1, <1>2, <1>3 DEF Proc
<1> HIDE DEF t
<1>5. LoadRight(db, o)  BY <1>1, <1>2 DEF ProcRight
<1>6. ChainRight(db, t)
  <2>1. ChainRight(db, o)  BY <1>5 DEF LoadRight
  <2> QED BY <1>1, <1>2, <1>4, <2>1, TailChain
<1>7. LoadRight(db, t)  BY <1>2, <1>4, <1>5, <1>6 DEF LoadRight
<1>8. Message(t) <=> Message(o)  BY <1>4 DEF Message
<1>9. ProcRight(db, t, depth)
  BY <1>1, <1>2, <1>4, <1>7, <1>8 DEF ProcRight
<1>10. ~HoldsHash(t) /\ (HoldsRoom(t) => HoldsRoom(o))
  BY <1>2, <1>4 DEF HoldsHash, HoldsRoom
<1> QED BY <1>2, <1>4, <1>9, <1>10, Moves

LEMMA BuiltKeeps ==
    ASSUME IInv, NEW c \in Callers, NEW depth \in Depths(db), Right(depth),
           proc[c].pc = "load", proc[c].todo # << >>,
           NEW id, id = proc[c].todo[1],
           ParentOf(db, id) = IF proc[c].stack = << >> THEN None ELSE Top(proc[c].stack).id,
           Built(c, id, Append(proc[c].stack, LayerOf(id, db.truth[id]))), db' = db
    PROVE  IInv'
<1> DEFINE s == proc[c].stack
           layer == LayerOf(id, db.truth[id])
           n == Append(s, layer)
<1>1. /\ DbTypeOK(db) /\ DiffsRight(db, depth) /\ CacheRight(db, cache, depth)
      /\ proc[c] \in Proc /\ ProcRight(db, proc[c], depth)
  BY DEF IInv, TypeOK, Right
<1>2. s \in Seq(Layer) /\ Stacked(db, s, depth) /\ proc[c].todo \in Seq(Ids)
  BY <1>1 DEF Proc, ProcRight
<1>3. id \in Saved(db)
  <2>1. ChainRight(db, proc[c])  BY <1>1 DEF ProcRight, LoadRight
  <2>2. 1 \in 1 .. Len(proc[c].todo)  BY <1>2
  <2> QED BY <2>1, <2>2 DEF ChainRight
<1>4. db.truth[id] \in SUBSET Events /\ db.diffs[id] \in Diff /\ id \in Ids
  BY <1>1, <1>3, IdsSaved DEF DbTypeOK, Saved, States, StateEvents
<1>5. /\ layer \in Layer /\ layer.id = id /\ layer.full = db.truth[id]
      /\ layer.added = db.diffs[id].added /\ layer.removed = db.diffs[id].removed
  BY <1>4 DEF LayerOf, Layer, Diff
<1>6. /\ cache' = Put(cache, id, n)
      /\ Become(c, [proc[c] EXCEPT !.todo = Tail(@), !.stack = n])
  BY DEF Built
<1> HIDE DEF layer
<1>7. n \in Seq(Layer) /\ n # << >> /\ Top(n) = layer /\ Stacked(db, n, depth)
  BY <1>1, <1>2, <1>3, <1>5, StackPush
<1> HIDE DEF n, s
<1>8. CacheRight(db, cache', depth)
  BY <1>1, <1>3, <1>5, <1>6, <1>7 DEF CacheRight, Put
<1> QED BY <1>5, <1>6, <1>7, <1>8, StackFoundKeeps

LEMMA ConsFacts ==
    ASSUME NEW T, NEW q \in Seq(T), q # << >>, NEW x \in T
    PROVE  LET r == << x >> \o q IN
           /\ r \in Seq(T) /\ r # << >> /\ r[1] = x /\ r[Len(r)] = q[Len(q)]
           /\ \A i \in 1 .. Len(r) : i # 1 =>
                 /\ i > 1 /\ i - 1 \in 1 .. Len(q) /\ r[i] = q[i - 1]
                 /\ i - 1 = 1 => r[i - 1] = x
                 /\ i - 1 # 1 => i - 1 > 1 /\ r[i - 1] = q[(i - 1) - 1]
<1> DEFINE n == Len(q)
           r == << x >> \o q
<1>1. n \in Nat /\ n >= 1  OBVIOUS
<1>2. r \in Seq(T) /\ Len(r) = n + 1 /\ r[1] = x  OBVIOUS
<1>3. \A i \in 2 .. (n + 1) : r[i] = q[i - 1]  OBVIOUS
<1>4. n = Len(q) /\ r = << x >> \o q  OBVIOUS
<1> HIDE DEF n, r
<1>5. r # << >>
  <2>1. n + 1 # 0  BY <1>1
  <2>2. Len(<< >>) = 0  OBVIOUS
  <2> QED BY <1>2, <2>1, <2>2
<1>6. r[Len(r)] = q[n]
  <2>1. n + 1 \in 2 .. (n + 1) /\ (n + 1) - 1 = n  BY <1>1
  <2> QED BY <1>2, <1>3, <2>1
<1>7. ASSUME NEW i \in 1 .. Len(r), i # 1
      PROVE  /\ i > 1 /\ i - 1 \in 1 .. n /\ r[i] = q[i - 1]
             /\ i - 1 = 1 => r[i - 1] = x
             /\ i - 1 # 1 => i - 1 > 1 /\ r[i - 1] = q[(i - 1) - 1]
  <2>1. i \in 2 .. (n + 1) /\ i > 1 /\ i - 1 \in 1 .. n  BY <1>1, <1>2, <1>7
  <2>2. i - 1 # 1 => i - 1 \in 2 .. (n + 1) /\ i - 1 > 1  BY <1>1, <2>1
  <2> QED BY <1>2, <1>3, <2>1, <2>2
<1> QED BY <1>2, <1>4, <1>5, <1>6, <1>7

(***************************************************************************)
(* Going down: the stack of the first id is cached, is that id alone, or   *)
(* needs its parent's.                                                     *)
(***************************************************************************)
LEMMA FullIsTruth ==
    ASSUME NEW D, NEW depth, DiffsRight(D, depth), NEW id \in Saved(D)
    PROVE  D.truth[id] = IF ParentOf(D, id) = None
                         THEN FullOfRoot(D.diffs[id])
                         ELSE FullOver(D.truth[ParentOf(D, id)], D.diffs[id])
<1> DEFINE base == TruthOf(D, ParentOf(D, id))
<1>1. Exact(base, D.diffs[id].added, D.diffs[id].removed, D.truth[id])  BY DEF DiffsRight
<1>2. base = IF ParentOf(D, id) = None THEN {} ELSE D.truth[ParentOf(D, id)]  BY DEF TruthOf
<1> HIDE DEF base
<1>3. CASE ParentOf(D, id) = None
  <2>1. base = {}  BY <1>2, <1>3
  <2>2. D.truth[id] = D.diffs[id].added  BY <1>1, <2>1 DEF Exact
  <2> QED BY <1>3, <2>2 DEF FullOfRoot
<1>4. CASE ParentOf(D, id) # None
  BY <1>1, <1>2, <1>4 DEF Exact, FullOver
<1> QED BY <1>3, <1>4

LEMMA DescendKeeps ==
    ASSUME IInv, NEW c \in Callers, Descend(c)
    PROVE  IInv'
<1>1. PICK depth \in Depths(db) : Right(depth)  BY DEF IInv
<1> DEFINE o == proc[c]
           q == o.todo
           id == Head(q)
           up == db.diffs[id].parent
<1>2. /\ o \in Proc /\ DbTypeOK(db) /\ ProcRight(db, o, depth)
      /\ CacheRight(db, cache, depth) /\ DiffsRight(db, depth)
  BY <1>1 DEF IInv, TypeOK, Right
<1>3. o.pc = "load" /\ q # << >> /\ o.stack = << >> /\ db' = db  BY DEF Descend
<1>4. \/ /\ id \in DOMAIN cache /\ cache' = cache
         /\ Become(c, [o EXCEPT !.todo = Tail(@), !.stack = cache[id]])
      \/ /\ up = None
         /\ Built(c, id, << LayerOf(id, FullOfRoot(db.diffs[id])) >>)
      \/ /\ up # None /\ cache' = cache
         /\ Become(c, [o EXCEPT !.todo = << up >> \o @])
  BY DEF Descend
<1>5. q \in Seq(Ids) /\ LoadRight(db, o) /\ ChainRight(db, o)
  BY <1>2, <1>3 DEF Proc, ProcRight, LoadRight
<1>6. id = q[1] /\ 1 \in 1 .. Len(q)  BY <1>3, <1>5
<1>7. id \in Saved(db) /\ id # None
  <2>1. q[1] \in Saved(db)  BY <1>5, <1>6 DEF ChainRight
  <2> QED BY <1>2, <1>6, <2>1, IdsSaved
<1>8. up = ParentOf(db, id)  BY DEF ParentOf
<1>9. CASE /\ id \in DOMAIN cache /\ cache' = cache
           /\ Become(c, [o EXCEPT !.todo = Tail(@), !.stack = cache[id]])
  <2> DEFINE s == cache[id]
  <2>1. s \in Seq(Layer) /\ s # << >> /\ Stacked(db, s, depth) /\ Top(s).id = o.todo[1]
    BY <1>2, <1>6, <1>9 DEF CacheRight
  <2>2. Become(c, [proc[c] EXCEPT !.todo = Tail(@), !.stack = s])  BY <1>9
  <2>3. CacheRight(db, cache', depth)  BY <1>2, <1>9
  <2> HIDE DEF s
  <2> QED BY <1>1, <1>3, <2>1, <2>2, <2>3, StackFoundKeeps
<1>10. CASE up = None /\ Built(c, id, << LayerOf(id, FullOfRoot(db.diffs[id])) >>)
  <2>1. db.truth[id] = FullOfRoot(db.diffs[id])
    BY <1>2, <1>7, <1>8, <1>10, FullIsTruth
  <2>2. << LayerOf(id, db.truth[id]) >> = Append(o.stack, LayerOf(id, db.truth[id]))
    BY <1>3
  <2>3. Built(c, id, Append(proc[c].stack, LayerOf(id, db.truth[id])))
    BY <1>10, <2>1, <2>2
  <2> QED BY <1>1, <1>3, <1>6, <1>8, <1>10, <2>3, BuiltKeeps
<1>11. CASE up # None /\ cache' = cache /\ Become(c, [o EXCEPT !.todo = << up >> \o @])
  <2> DEFINE r == << up >> \o q
             t == [o EXCEPT !.todo = r]
  <2>1. up \in Saved(db) /\ up \in Ids
    <3>1. up \in {None} \cup Ids  BY <1>2, <1>7 DEF DbTypeOK, Saved, Diff
    <3>2. up < id  BY <1>2, <1>7, <1>8 DEF DiffsRight
    <3>3. up \in Ids  BY <1>11, <3>1
    <3> QED BY <1>2, <1>7, <3>2, <3>3, IdsSaved DEF Saved, Ids
  <2>2. Become(c, t) /\ o = proc[c]  BY <1>2, <1>11 DEF Proc
  <2>3. /\ r \in Seq(Ids) /\ r # << >> /\ r[1] = up /\ r[Len(r)] = q[Len(q)]
        /\ \A i \in 1 .. Len(r) : i # 1 =>
              /\ i > 1 /\ i - 1 \in 1 .. Len(q) /\ r[i] = q[i - 1]
              /\ i - 1 = 1 => r[i - 1] = up
              /\ i - 1 # 1 => i - 1 > 1 /\ r[i - 1] = q[(i - 1) - 1]
    BY <1>3, <1>5, <2>1, ConsFacts
  <2>4. /\ \A i \in 1 .. Len(q) : /\ q[i] \in Saved(db)
                                  /\ i > 1 => q[i - 1] = ParentOf(db, q[i])
        /\ q[Len(q)] = o.prev
    BY <1>3, <1>5 DEF ChainRight
  <2> HIDE DEF r, id, up
  <2>5. \A i \in 1 .. Len(r) : r[i] \in Saved(db) /\ (i > 1 => r[i - 1] = ParentOf(db, r[i]))
    <3> TAKE i \in 1 .. Len(r)
    <3> DEFINE k == i - 1
    <3>1. i # 1 => /\ k \in 1 .. Len(q) /\ r[i] = q[k]
                   /\ k = 1 => r[k] = up
                   /\ k # 1 => k > 1 /\ r[k] = q[k - 1]
      BY <2>3
    <3>2. k = i - 1  OBVIOUS
    <3>3. i = 1 => ~(i > 1)  OBVIOUS
    <3> HIDE DEF k
    <3>4. CASE i = 1  BY <2>1, <2>3, <3>3, <3>4
    <3>5. CASE i # 1 /\ k = 1  BY <1>6, <1>7, <1>8, <3>1, <3>2, <3>5
    <3>6. CASE i # 1 /\ k # 1  BY <2>4, <3>1, <3>2, <3>6
    <3> QED BY <3>4, <3>5, <3>6
  <2> HIDE DEF q
  <2>6. o.todo = q  BY DEF q
  <2> HIDE DEF o
  <2>7. /\ t \in Proc /\ t.pc = "load" /\ t.op = o.op /\ t.event = o.event /\ t.want = o.want
        /\ t.prev = o.prev /\ t.existing = o.existing /\ t.todo = r /\ t.stack = << >>
    BY <1>2, <1>3, <2>3 DEF Proc
  <2> HIDE DEF t
  <2>8. ChainRight(db, t)  BY <2>3, <2>4, <2>5, <2>7 DEF ChainRight
  <2>9. LoadRight(db, t)  BY <1>3, <1>5, <2>3, <2>7, <2>8 DEF LoadRight
  <2>10. Message(t) <=> Message(o)  BY <2>7 DEF Message
  <2>11. ProcRight(db, t, depth)
    BY <1>2, <1>3, <2>7, <2>9, <2>10 DEF ProcRight
  <2>12. ~HoldsHash(t) /\ (HoldsRoom(t) => HoldsRoom(o))
    BY <1>3, <2>7 DEF HoldsHash, HoldsRoom
  <2>13. CacheRight(db, cache', depth)  BY <1>2, <1>11
  <2> QED BY <1>1, <1>3, <2>2, <2>7, <2>11, <2>12, <2>13, Moves
<1> QED BY <1>4, <1>9, <1>10, <1>11

(***************************************************************************)
(* Coming back up.                                                         *)
(***************************************************************************)
LEMMA AscendKeeps ==
    ASSUME IInv, NEW c \in Callers, Ascend(c)
    PROVE  IInv'
<1>1. PICK depth \in Depths(db) : Right(depth)  BY DEF IInv
<1> DEFINE o == proc[c]
           s == o.stack
           id == Head(o.todo)
<1>2. /\ o \in Proc /\ DbTypeOK(db) /\ ProcRight(db, o, depth) /\ DiffsRight(db, depth)
  BY <1>1 DEF IInv, TypeOK, Right
<1>3. /\ o.pc = "load" /\ o.todo # << >> /\ s # << >> /\ db' = db
      /\ Built(c, id, Append(s, LayerOf(id, FullOver(Top(s).full, db.diffs[id]))))
  BY DEF Ascend
<1>4. o.todo \in Seq(Ids) /\ s \in Seq(Layer) /\ Stacked(db, s, depth) /\ ChainRight(db, o)
  BY <1>2, <1>3 DEF Proc, ProcRight, LoadRight
<1>5. id = o.todo[1] /\ 1 \in 1 .. Len(o.todo)  BY <1>3, <1>4
<1>6. id \in Saved(db) /\ Top(s).id = ParentOf(db, id)
  BY <1>3, <1>4, <1>5 DEF ChainRight
<1>7. Top(s).id \in Saved(db) /\ Top(s).full = db.truth[Top(s).id]
  BY <1>2, <1>3, <1>4, StackTop
<1>8. Top(s).id # None  BY <1>2, <1>7, IdsSaved
<1>9. db.truth[id] = FullOver(Top(s).full, db.diffs[id])
  BY <1>2, <1>6, <1>7, <1>8, FullIsTruth
<1>10. Built(c, id, Append(proc[c].stack, LayerOf(id, db.truth[id])))  BY <1>3, <1>9
<1>11. ParentOf(db, id) = IF proc[c].stack = << >> THEN None ELSE Top(proc[c].stack).id
  BY <1>3, <1>6
<1> QED BY <1>1, <1>3, <1>5, <1>10, <1>11, BuiltKeeps

(***************************************************************************)
(* A load fails.                                                           *)
(***************************************************************************)
LEMMA LoadFailsKeeps ==
    ASSUME IInv, NEW c \in Callers, LoadFails(c)
    PROVE  IInv'
<1>1. PICK depth \in Depths(db) : Right(depth)  BY DEF IInv
<1> DEFINE o == proc[c]
<1>2. /\ o \in Proc /\ ProcRight(db, o, depth) /\ CacheRight(db, cache, depth)
  BY <1>1 DEF IInv, TypeOK, Right
<1>3. o.pc = "load" /\ o = proc[c] /\ UNCHANGED <<db, cache>>  BY DEF LoadFails
<1>4. CASE o.op \in Saves
  <2> DEFINE t == [o EXCEPT !.todo = << >>, !.stack = << >>]
  <2>1. Become(c, t)  BY <1>4 DEF LoadFails
  <2>2. << >> \in Seq(Ids) /\ << >> \in Seq(Layer)  OBVIOUS
  <2> HIDE DEF o
  <2>3. /\ t \in Proc /\ t.pc = "load" /\ t.op = o.op /\ t.want = o.want
        /\ t.prev = o.prev /\ t.existing = o.existing /\ t.todo = << >> /\ t.stack = << >>
    BY <1>2, <1>3, <2>2 DEF Proc
  <2> HIDE DEF t
  <2>4. t.op # "append"  BY <1>4, <2>3 DEF Saves
  <2>5. ChainRight(db, t)  BY <2>3 DEF ChainRight
  <2>6. LoadRight(db, t)  BY <2>3, <2>4, <2>5 DEF LoadRight
  <2>7. ProcRight(db, t, depth)
    BY <1>2, <2>3, <2>4, <2>6, StackEmpty DEF ProcRight, Message
  <2>8. ~HoldsHash(t) /\ (HoldsRoom(t) => HoldsRoom(o))
    BY <1>3, <2>3 DEF HoldsHash, HoldsRoom
  <2> QED BY <1>1, <1>2, <1>3, <2>1, <2>3, <2>7, <2>8, Moves
<1>5. CASE o.op \notin Saves
  <2>1. Become(c, IdleProc)  BY <1>5 DEF LoadFails
  <2>2. IdleProc \in Proc  BY IdleIs
  <2> QED BY <1>1, <1>2, <1>3, <2>1, <2>2, IdleRight, Moves
<1> QED BY <1>4, <1>5

(***************************************************************************)
(* The diff is taken: what was loaded is the room's state for an append,   *)
(* and some state for the others, from which the diff is exact.            *)
(***************************************************************************)
DiffTaken(p, pc, added, removed) == [p EXCEPT !.pc = pc, !.added = added, !.removed = removed]

LEMMA TakeDiffKeeps ==
    ASSUME IInv, NEW c \in Callers, TakeDiff(c)
    PROVE  IInv'
<1>1. PICK depth \in Depths(db) : Right(depth)  BY DEF IInv
<1> DEFINE o == proc[c]
           base == Base(o.stack)
           replaces == SameSlot(base, o.event)
<1>2. /\ o \in Proc /\ DbTypeOK(db) /\ IdsRight(db) /\ ProcRight(db, o, depth)
      /\ CacheRight(db, cache, depth) /\ DiffsRight(db, depth)
  BY <1>1 DEF IInv, TypeOK, Right
<1>3. o.pc = "load" /\ o.todo = << >> /\ o = proc[c] /\ UNCHANGED <<db, cache>>
  BY DEF TakeDiff
<1>4. \/ o.op = "append" /\ replaces = {o.event} /\ Done(c, o.prev)
      \/ /\ o.op = "append" /\ replaces # {o.event}
         /\ Become(c, DiffTaken(o, "create", {o.event}, replaces))
      \/ o.op # "append" /\ o.existing # None /\ Done(c, o.existing)
      \/ /\ o.op # "append" /\ o.existing = None
         /\ Become(c, DiffTaken(o, "check", o.want \ base, base \ o.want))
  BY <1>2 DEF TakeDiff, Base, DiffTaken, Proc
<1>5. /\ o.stack \in Seq(Layer) /\ Stacked(db, o.stack, depth) /\ LoadRight(db, o)
      /\ o.event \in Events /\ o.want \in SUBSET Events /\ o.want \in States
      /\ o.prev \in {None} \cup Saved(db) /\ ~Message(o)
  BY <1>2, <1>3 DEF Proc, ProcRight
<1>6. /\ o.stack # << >> => Top(o.stack).id = o.prev
      /\ o.op = "append" => o.prev = db.room /\ (o.stack = << >> => o.prev = None)
  BY <1>3, <1>5 DEF LoadRight, ChainRight
<1>7. /\ base \in States
      /\ o.stack # << >> => o.prev \in Saved(db) /\ base = db.truth[o.prev]
  <2>1. CASE o.stack = << >>  BY <2>1, EmptyState DEF Base
  <2>2. CASE o.stack # << >>
    <3>1. /\ Top(o.stack).id \in Saved(db) /\ Top(o.stack).full = db.truth[Top(o.stack).id]
          /\ Top(o.stack).full \in States
      BY <1>2, <1>5, <2>2, StackTop
    <3> QED BY <1>6, <2>2, <3>1 DEF Base
  <2> QED BY <2>1, <2>2
<1>8. base \in SUBSET Events /\ replaces \in SUBSET Events
  BY <1>7 DEF States, StateEvents, SameSlot
<1>9. ASSUME o.op = "append"
      PROVE  /\ base = TruthOf(db, db.room) /\ o.want = WithEvent(base, o.event)
             /\ o.stack = << >> => base = {}
  <2>1. o.want = WithEvent(TruthOf(db, db.room), o.event)
    BY <1>2, <1>3, <1>5, <1>9 DEF ProcRight
  <2>2. CASE o.stack = << >>
    BY <1>6, <1>9, <2>1, <2>2 DEF Base, TruthOf
  <2>3. CASE o.stack # << >>
    <3>1. o.prev # None  BY <1>2, <1>7, <2>3, IdsSaved
    <3> QED BY <1>6, <1>7, <1>9, <2>1, <2>3, <3>1 DEF TruthOf
  <2> QED BY <2>2, <2>3
<1>10. replaces = SameSlot(base, o.event) /\ base = Base(o.stack)  OBVIOUS
<1>11. ASSUME NEW pc \in {"create", "check"}, NEW added \in SUBSET Events,
              NEW removed \in SUBSET Events, o.op = "append" <=> pc = "create",
              Exact(base, added, removed, o.want), Become(c, DiffTaken(o, pc, added, removed))
       PROVE  IInv'
  <2> DEFINE t == DiffTaken(o, pc, added, removed)
  <2> HIDE DEF o
  <2>1. /\ t \in Proc /\ t.pc = pc /\ t.op = o.op /\ t.event = o.event /\ t.want = o.want
        /\ t.prev = o.prev /\ t.existing = o.existing /\ t.stack = o.stack
        /\ t.added = added /\ t.removed = removed
    BY <1>2 DEF Proc, DiffTaken
  <2>2. Become(c, t)  BY <1>11
  <2> HIDE DEF t
  <2>3. ~Message(t)  BY <1>5, <2>1 DEF Message
  <2>4. Exact(Base(t.stack), t.added, t.removed, t.want)  BY <1>10, <1>11, <2>1
  <2>5. t.op = "append" => t.want = WithEvent(TruthOf(db, db.room), t.event)
    BY <1>9, <2>1
  <2>6. ProcRight(db, t, depth)
    BY <1>2, <1>11, <2>1, <2>3, <2>4, <2>5 DEF ProcRight
  <2>7. ~HoldsHash(t) /\ (HoldsRoom(t) => HoldsRoom(o))
    BY <1>3, <1>11, <2>1 DEF HoldsHash, HoldsRoom
  <2> QED BY <1>1, <1>2, <1>3, <2>1, <2>2, <2>6, <2>7, Moves
<1> HIDE DEF base, replaces
<1>12. CASE o.op = "append" /\ replaces = {o.event} /\ Done(c, o.prev)
  <2>1. base # {}  BY <1>10, <1>12 DEF SameSlot
  <2>2. o.prev \in Saved(db) /\ base = db.truth[o.prev]  BY <1>7, <1>9, <1>12, <2>1
  <2>3. WithEvent(base, o.event) = base  BY <1>5, <1>7, <1>10, <1>12, AppendExact
  <2>4. db.truth[o.prev] = o.want  BY <1>9, <1>12, <2>2, <2>3
  <2>5. o.want = WithEvent(TruthOf(db, db.room), o.event)  BY <1>9, <1>12
  <2> QED BY <1>3, <1>5, <1>12, <2>2, <2>4, <2>5, DoneKeeps
<1>13. CASE /\ o.op = "append" /\ replaces # {o.event}
            /\ Become(c, DiffTaken(o, "create", {o.event}, replaces))
  <2>1. Exact(base, {o.event}, replaces, o.want)
    BY <1>5, <1>7, <1>9, <1>10, <1>13, AppendExact
  <2>2. {o.event} \in SUBSET Events  BY <1>5
  <2> QED BY <1>8, <1>11, <1>13, <2>1, <2>2
<1>14. CASE o.op # "append" /\ o.existing # None /\ Done(c, o.existing)
  <2>1. o.existing \in Saved(db) /\ db.truth[o.existing] = o.want
    BY <1>2, <1>14 DEF ProcRight
  <2> QED BY <1>3, <1>5, <1>14, <2>1, DoneKeeps
<1>15. CASE /\ o.op # "append" /\ o.existing = None
            /\ Become(c, DiffTaken(o, "check", o.want \ base, base \ o.want))
  <2>1. o.want \ base \in SUBSET Events /\ base \ o.want \in SUBSET Events  BY <1>5, <1>8
  <2>2. Exact(base, o.want \ base, base \ o.want, o.want)  BY DifferenceExact
  <2> QED BY <1>11, <1>15, <2>1, <2>2
<1> QED BY <1>4, <1>12, <1>13, <1>14, <1>15

-----------------------------------------------------------------------------
(***************************************************************************)
(* The intern table's lock and the two looks at the table.                 *)
(***************************************************************************)
LEMMA HashStep ==
    ASSUME IInv, NEW c \in Callers, UNCHANGED <<db, cache>>, proc[c].op # "append",
           NEW depth \in Depths(db), Right(depth),
           NEW from \in {"check", "lock", "recheck"}, proc[c].pc = from,
           NEW to \in {"lock", "recheck", "create"},
           Become(c, [proc[c] EXCEPT !.pc = to]),
           to = "create" => proc[c].want \notin DOMAIN db.hash,
           to \in {"recheck", "create"} => from = "recheck" \/ HashFree(c)
    PROVE  IInv'
<1> DEFINE o == proc[c]
           t == [o EXCEPT !.pc = to]
<1>1. /\ o \in Proc /\ ProcRight(db, o, depth) /\ CacheRight(db, cache, depth)
  BY DEF IInv, TypeOK, Right
<1>2. o = proc[c] /\ Become(c, t)  OBVIOUS
<1> HIDE DEF o
<1>3. /\ t \in Proc /\ t.pc = to /\ t.op = o.op /\ t.want = o.want /\ t.prev = o.prev
      /\ t.existing = o.existing /\ t.stack = o.stack
      /\ t.added = o.added /\ t.removed = o.removed
  BY <1>1 DEF Proc
<1> HIDE DEF t
<1>4. ~Message(t) /\ t.op # "append"  BY <1>2, <1>3 DEF Message
<1>5. Exact(Base(t.stack), t.added, t.removed, t.want)
  BY <1>1, <1>2, <1>3 DEF ProcRight
<1>6. ProcRight(db, t, depth)  BY <1>1, <1>2, <1>3, <1>4, <1>5 DEF ProcRight
<1>7. HoldsRoom(t) => HoldsRoom(o)  BY <1>2, <1>3 DEF HoldsRoom
<1>8. HoldsHash(t) => t.want = o.want /\ (HoldsHash(o) \/ HashFree(c))
  BY <1>2, <1>3 DEF HoldsHash
<1> QED BY <1>1, <1>2, <1>3, <1>6, <1>7, <1>8, Moves

LEMMA LookAgainKeeps ==
    ASSUME IInv, NEW c \in Callers, CheckHash(c) \/ Recheck(c)
    PROVE  IInv'
<1>1. PICK depth \in Depths(db) : Right(depth)  BY DEF IInv
<1> DEFINE id == Lookup(db.hash, proc[c].want)
<1>2. DbTypeOK(db) /\ IdsRight(db) /\ ProcRight(db, proc[c], depth)
  BY <1>1 DEF IInv, TypeOK, Right
<1>3. /\ id \in {None} \cup Saved(db)
      /\ id # None => id \in Saved(db) /\ db.truth[id] = proc[c].want
      /\ id = None => proc[c].want \notin DOMAIN db.hash
  BY <1>2, LookupRight
<1>4. PICK next \in {"lock", "create"} :
          /\ \/ proc[c].pc = "check" /\ next = "lock"
             \/ proc[c].pc = "recheck" /\ next = "create"
          /\ LookAgain(c, next)
  BY DEF CheckHash, Recheck
<1>5. /\ UNCHANGED <<db, cache>>
      /\ id # None => Done(c, id)
      /\ id = None => Become(c, [proc[c] EXCEPT !.pc = next])
  BY <1>4 DEF LookAgain
<1>6. proc[c].op # "append"  BY <1>2, <1>4 DEF ProcRight
<1> HIDE DEF id
<1>7. CASE id # None  BY <1>3, <1>4, <1>5, <1>6, <1>7, DoneKeeps DEF Message
<1>8. CASE id = None
  <2>1. CASE proc[c].pc = "check" /\ next = "lock"
    BY <1>1, <1>5, <1>6, <1>8, <2>1, HashStep
  <2>2. CASE proc[c].pc = "recheck" /\ next = "create"
    BY <1>1, <1>3, <1>5, <1>6, <1>8, <2>2, HashStep
  <2> QED BY <1>4, <2>1, <2>2
<1> QED BY <1>7, <1>8

LEMMA LockHashKeeps ==
    ASSUME IInv, NEW c \in Callers, LockHash(c)
    PROVE  IInv'
<1>1. PICK depth \in Depths(db) : Right(depth)  BY DEF IInv
<1>2. ProcRight(db, proc[c], depth)  BY <1>1 DEF Right
<1>3. /\ proc[c].pc = "lock" /\ HashFree(c) /\ UNCHANGED <<db, cache>>
      /\ Become(c, [proc[c] EXCEPT !.pc = "recheck"])
  BY DEF LockHash
<1>4. proc[c].op # "append"  BY <1>2, <1>3 DEF ProcRight
<1> QED BY <1>1, <1>3, <1>4, HashStep

(***************************************************************************)
(* A merge keeps the diff exact, now over the layer below.                 *)
(***************************************************************************)
LEMMA MergeDownKeeps ==
    ASSUME IInv, NEW c \in Callers, MergeDown(c)
    PROVE  IInv'
<1>1. PICK depth \in Depths(db) : Right(depth)  BY DEF IInv
<1> DEFINE o == proc[c]
           s == o.stack
           r == SubSeq(s, 1, Len(s) - 1)
           parent == Top(s)
           added == MergedAdded(parent, o.added, o.removed)
           removed == MergedRemoved(parent, o.added, o.removed)
           n == Size(o.added) + Size(o.removed)
           t == [o EXCEPT !.stack = r, !.added = added, !.removed = removed, !.sibling = n]
<1>2. /\ o \in Proc /\ DbTypeOK(db) /\ ProcRight(db, o, depth)
      /\ CacheRight(db, cache, depth) /\ DiffsRight(db, depth)
  BY <1>1 DEF IInv, TypeOK, Right
<1>3. o.pc = "create" /\ s # << >> /\ UNCHANGED <<db, cache>> /\ o = proc[c]
  BY DEF MergeDown, Merges
<1>4. Become(c, t)  BY <1>2 DEF MergeDown, Proc
<1>5. /\ s \in Seq(Layer) /\ Stacked(db, s, depth) /\ Exact(Base(s), o.added, o.removed, o.want)
      /\ o.added \in SUBSET Events /\ o.removed \in SUBSET Events
  BY <1>2, <1>3 DEF Proc, ProcRight
<1>6. /\ parent \in Layer /\ r \in Seq(Layer) /\ Stacked(db, r, depth)
      /\ Exact(Base(r), parent.added, parent.removed, parent.full)
  BY <1>2, <1>3, <1>5, StackTop
<1>7. parent.full = Base(s)  BY <1>3 DEF Base
<1>8. Exact(Base(r), added, removed, o.want)  BY <1>5, <1>6, <1>7, MergeExact
<1>9. added \in SUBSET Events /\ removed \in SUBSET Events
  BY <1>5, <1>6 DEF Layer, MergedAdded, MergedRemoved
<1>10. n \in Nat
  <2>1. Size(o.added) \in Nat /\ Size(o.removed) \in Nat  BY <1>5, SizeNat
  <2> QED BY <2>1
<1> HIDE DEF o, s, r, parent, added, removed, n
<1>11. /\ t \in Proc /\ t.pc = "create" /\ t.op = o.op /\ t.event = o.event /\ t.want = o.want
       /\ t.prev = o.prev /\ t.existing = o.existing /\ t.stack = r
       /\ t.added = added /\ t.removed = removed
  BY <1>2, <1>3, <1>6, <1>9, <1>10 DEF Proc
<1> HIDE DEF t
<1>12. Message(t) <=> Message(o)  BY <1>11 DEF Message
<1>13. ProcRight(db, t, depth)
  BY <1>2, <1>3, <1>6, <1>8, <1>11, <1>12 DEF ProcRight
<1>14. (HoldsRoom(t) => HoldsRoom(o)) /\ (HoldsHash(t) => HoldsHash(o))
  BY <1>3, <1>11 DEF HoldsHash, HoldsRoom
<1> QED BY <1>1, <1>2, <1>3, <1>4, <1>11, <1>13, <1>14, Moves

-----------------------------------------------------------------------------
(***************************************************************************)
(* The tables change: a row is added, or the room's id is set.  What is    *)
(* said of the rows there were stays true.                                 *)
(***************************************************************************)
Grows(D, E, depth, deeper) ==
    /\ Saved(D) \subseteq Saved(E)
    /\ \A id \in Saved(D) :
          E.diffs[id] = D.diffs[id] /\ E.truth[id] = D.truth[id] /\ deeper[id] = depth[id]

LEMMA StackGrows ==
    ASSUME NEW D, NEW E, NEW depth, NEW deeper, Grows(D, E, depth, deeper),
           NEW s, Stacked(D, s, depth)
    PROVE  Stacked(E, s, deeper)
<1> SUFFICES ASSUME NEW i \in 1 .. Len(s)
             PROVE  /\ s[i].id \in Saved(E) /\ deeper[s[i].id] = i
                    /\ s[i].full = E.truth[s[i].id]
                    /\ s[i].added = E.diffs[s[i].id].added
                    /\ s[i].removed = E.diffs[s[i].id].removed
                    /\ ParentOf(E, s[i].id) = IF i = 1 THEN None ELSE s[i - 1].id
  BY DEF Stacked
<1>1. /\ s[i].id \in Saved(D) /\ depth[s[i].id] = i
      /\ s[i].full = D.truth[s[i].id]
      /\ s[i].added = D.diffs[s[i].id].added /\ s[i].removed = D.diffs[s[i].id].removed
      /\ ParentOf(D, s[i].id) = IF i = 1 THEN None ELSE s[i - 1].id
  BY DEF Stacked
<1>2. /\ s[i].id \in Saved(E) /\ E.diffs[s[i].id] = D.diffs[s[i].id]
      /\ E.truth[s[i].id] = D.truth[s[i].id] /\ deeper[s[i].id] = depth[s[i].id]
  BY <1>1 DEF Grows
<1> QED BY <1>1, <1>2 DEF ParentOf

LEMMA CacheGrows ==
    ASSUME NEW D, NEW E, NEW depth, NEW deeper, Grows(D, E, depth, deeper),
           NEW m, CacheRight(D, m, depth)
    PROVE  CacheRight(E, m, deeper)
<1> SUFFICES ASSUME NEW id \in DOMAIN m
             PROVE  /\ id \in Saved(E) /\ m[id] \in Seq(Layer)
                    /\ m[id] # << >> /\ Top(m[id]).id = id
                    /\ Stacked(E, m[id], deeper)
  BY DEF CacheRight
<1>1. /\ id \in Saved(D) /\ m[id] \in Seq(Layer)
      /\ m[id] # << >> /\ Top(m[id]).id = id
      /\ Stacked(D, m[id], depth)
  BY DEF CacheRight
<1>2. Stacked(E, m[id], deeper)  BY <1>1, StackGrows
<1> QED BY <1>1, <1>2 DEF Grows

LEMMA ChainGrows ==
    ASSUME NEW D, NEW E, NEW depth, NEW deeper, Grows(D, E, depth, deeper),
           NEW p, ChainRight(D, p), p.todo \in Seq(Ids)
    PROVE  ChainRight(E, p)
<1> DEFINE q == p.todo
<1>1. ASSUME NEW i \in 1 .. Len(q)
      PROVE  /\ q[i] \in Saved(E) /\ (i > 1 => q[i - 1] = ParentOf(E, q[i]))
             /\ ParentOf(E, q[i]) = ParentOf(D, q[i])
  <2>1. q[i] \in Saved(D) /\ (i > 1 => q[i - 1] = ParentOf(D, q[i]))  BY DEF ChainRight
  <2> QED BY <2>1 DEF Grows, ParentOf
<1>2. q # << >> => ParentOf(E, q[1]) = ParentOf(D, q[1])
  <2>1. q # << >> => 1 \in 1 .. Len(q)  OBVIOUS
  <2> QED BY <1>1, <2>1
<1> QED BY <1>1, <1>2 DEF ChainRight

LEMMA ProcGrows ==
    ASSUME NEW D, NEW E, NEW depth, NEW deeper, Grows(D, E, depth, deeper), IdsRight(D),
           NEW p \in Proc, ProcRight(D, p, depth),
           HoldsRoom(p) => E.room = D.room,
           p.pc = "create" /\ p.op # "append" => p.want \notin DOMAIN E.hash
    PROVE  ProcRight(E, p, deeper)
<1>1. Stacked(D, p.stack, depth) /\ p.todo \in Seq(Ids)  BY DEF ProcRight, Proc
<1>2. Stacked(E, p.stack, deeper)  BY <1>1, StackGrows
<1>3. Saved(D) \subseteq Saved(E) /\ \A id \in Saved(D) : E.truth[id] = D.truth[id]
  BY DEF Grows
<1>4. ASSUME p.pc # "idle", p.op = "append"
      PROVE  E.room = D.room /\ TruthOf(E, E.room) = TruthOf(D, D.room)
  <2>1. E.room = D.room  BY <1>4 DEF HoldsRoom, LockedOps
  <2>2. D.room = None \/ D.room \in Saved(D)  BY DEF IdsRight
  <2> QED BY <1>3, <2>1, <2>2 DEF TruthOf
<1>5. p.pc \in {"prev", "hash", "load"} => LoadRight(E, p)
  <2> HAVE p.pc \in {"prev", "hash", "load"}
  <2>1. LoadRight(D, p)  BY DEF ProcRight
  <2>2. ChainRight(E, p)  BY <1>1, <2>1, ChainGrows DEF LoadRight
  <2> QED BY <1>4, <2>1, <2>2 DEF LoadRight
<1>6. p.pc = "finish" => FinishRight(E, p)
  <2> HAVE p.pc = "finish"
  <2>1. FinishRight(D, p)  BY DEF ProcRight
  <2>2. Message(p) => E.room = D.room  BY <1>4 DEF Message
  <2> QED BY <1>3, <2>1, <2>2 DEF FinishRight
<1>7. p.existing # None =>
         p.op # "append" /\ p.existing \in Saved(E) /\ E.truth[p.existing] = p.want
  BY <1>3 DEF ProcRight
<1>8. p.pc \in {"load", "create", "finish"} /\ p.op = "append" /\ ~Message(p) =>
         p.want = WithEvent(TruthOf(E, E.room), p.event)
  BY <1>4 DEF ProcRight
<1>9. p.prev \in {None} \cup Saved(E)  BY <1>3 DEF ProcRight
<1> QED BY <1>2, <1>5, <1>6, <1>7, <1>8, <1>9 DEF ProcRight

(***************************************************************************)
(* A new row: the tables after a task has created its state.               *)
(***************************************************************************)
RowOf(p) ==
    [parent  |-> IF p.stack = << >> THEN None ELSE Top(p.stack).id,
     added   |-> p.added,
     removed |-> p.removed]

Created(D, E, p) ==
    /\ DbShape(E) /\ E.count = D.count + 1 /\ E.room = D.room
    /\ E.diffs = Put(D.diffs, D.count + 1, RowOf(p))
    /\ E.truth = Put(D.truth, D.count + 1, p.want)
    /\ E.hash = IF p.op = "append" THEN D.hash ELSE Put(D.hash, p.want, D.count + 1)

Deeper(depth, id, n) == Put(depth, id, n)

LEMMA PutSaved ==
    ASSUME NEW n \in Nat, NEW T, NEW f \in [1 .. n -> T], NEW v \in T
    PROVE  Put(f, n + 1, v) \in [1 .. (n + 1) -> T]
<1>1. 1 .. (n + 1) = 1 .. n \cup {n + 1}  OBVIOUS
<1> QED BY <1>1 DEF Put

LEMMA CreatedTypes ==
    ASSUME NEW D, NEW E, NEW p \in Proc, Created(D, E, p), DbTypeOK(D), D.count < MaxId,
           p.want \in States, RowOf(p) \in Diff
    PROVE  DbTypeOK(E)
<1>1. D.count \in Nat /\ D.count + 1 \in Ids /\ D.count + 1 \in 0 .. MaxId
  BY RoomStateAssumption DEF DbTypeOK, Ids
<1>2. E.diffs \in [1 .. (D.count + 1) -> Diff]
  <2> DEFINE n == D.count
             f == D.diffs
             v == RowOf(p)
  <2>1. f \in [1 .. n -> Diff] /\ E.diffs = Put(f, n + 1, v) /\ n \in Nat /\ v \in Diff
    BY <1>1 DEF Created, DbTypeOK
  <2> HIDE DEF n, f, v
  <2>2. Put(f, n + 1, v) \in [1 .. (n + 1) -> Diff]  BY <2>1, PutSaved
  <2> QED BY <2>1, <2>2 DEF n
<1>3. E.truth \in [1 .. (D.count + 1) -> States]
  <2> DEFINE n == D.count
             f == D.truth
             v == p.want
  <2>1. f \in [1 .. n -> States] /\ E.truth = Put(f, n + 1, v) /\ n \in Nat /\ v \in States
    BY <1>1 DEF Created, DbTypeOK
  <2> HIDE DEF n, f, v
  <2>2. Put(f, n + 1, v) \in [1 .. (n + 1) -> States]  BY <2>1, PutSaved
  <2> QED BY <2>1, <2>2 DEF n
<1>4. DOMAIN E.hash \subseteq States /\ \A S \in DOMAIN E.hash : E.hash[S] \in Ids
  <2>1. CASE p.op = "append"  BY <2>1 DEF Created, DbTypeOK
  <2>2. CASE p.op # "append"
    <3>1. E.hash = Put(D.hash, p.want, D.count + 1)  BY <2>2 DEF Created
    <3>2. DOMAIN D.hash \subseteq States /\ \A S \in DOMAIN D.hash : D.hash[S] \in Ids
      BY DEF DbTypeOK
    <3> QED BY <1>1, <3>1, <3>2 DEF Put
  <2> QED BY <2>1, <2>2
<1> QED BY <1>1, <1>2, <1>3, <1>4 DEF Created, DbTypeOK

LEMMA CreatedGrows ==
    ASSUME NEW D, NEW E, NEW p, Created(D, E, p), DbTypeOK(D), NEW depth \in Depths(D),
           NEW n \in 1 .. (MaxLayers + 1)
    PROVE  LET id == D.count + 1 IN
           /\ Saved(E) = Saved(D) \cup {id} /\ id \notin Saved(D) /\ id \in Nat
           /\ E.diffs[id] = RowOf(p) /\ E.truth[id] = p.want
           /\ Deeper(depth, id, n) \in Depths(E) /\ Deeper(depth, id, n)[id] = n
           /\ Grows(D, E, depth, Deeper(depth, id, n))
<1> DEFINE id == D.count + 1
           deeper == Deeper(depth, id, n)
<1>1. D.count \in Nat /\ id \in Nat  BY IdsSaved
<1>2. Saved(E) = Saved(D) \cup {id} /\ id \notin Saved(D)  BY <1>1 DEF Created, Saved
<1>3. DOMAIN D.diffs = Saved(D) /\ DOMAIN D.truth = Saved(D) /\ DOMAIN depth = Saved(D)
  BY DEF DbTypeOK, Saved, Depths
<1>4. E.diffs = Put(D.diffs, id, RowOf(p)) /\ E.truth = Put(D.truth, id, p.want)
  BY DEF Created
<1>5. deeper \in Depths(E)
  <2>1. E.count = D.count + 1  BY DEF Created
  <2> QED BY <1>1, <2>1, PutSaved DEF Depths, Saved, Deeper
<1>6. deeper = Put(depth, id, n)  BY DEF Deeper
<1> HIDE DEF id, deeper
<1>7. E.diffs[id] = RowOf(p) /\ E.truth[id] = p.want /\ deeper[id] = n
  BY <1>4, <1>6 DEF Put
<1>8. Grows(D, E, depth, deeper)
  <2>1. ASSUME NEW i \in Saved(D)
        PROVE  E.diffs[i] = D.diffs[i] /\ E.truth[i] = D.truth[i] /\ deeper[i] = depth[i]
    <3>1. i # id  BY <1>2
    <3> QED BY <1>3, <1>4, <1>6, <3>1 DEF Put
  <2> QED BY <1>2, <2>1 DEF Grows
<1> QED BY <1>1, <1>2, <1>5, <1>7, <1>8 DEF id, deeper

LEMMA CreatedIds ==
    ASSUME NEW D, NEW E, NEW p, Created(D, E, p), DbTypeOK(D), IdsRight(D),
           NEW depth, NEW deeper, Grows(D, E, depth, deeper),
           D.count + 1 \in Saved(E), E.truth[D.count + 1] = p.want
    PROVE  IdsRight(E)
<1> DEFINE id == D.count + 1
<1>1. Saved(D) \subseteq Saved(E) /\ \A i \in Saved(D) : E.truth[i] = D.truth[i]  BY DEF Grows
<1>2. E.room \in {None} \cup Saved(E)  BY <1>1 DEF Created, IdsRight
<1>3. \A S \in DOMAIN D.hash : D.hash[S] \in Saved(E) /\ E.truth[D.hash[S]] = S
  BY <1>1 DEF IdsRight
<1>4. E.hash = D.hash \/ E.hash = Put(D.hash, p.want, id)  BY DEF Created
<1>5. id \in Saved(E) /\ E.truth[id] = p.want  OBVIOUS
<1> HIDE DEF id
<1>6. CASE E.hash = D.hash  BY <1>2, <1>3, <1>6 DEF IdsRight
<1>7. CASE E.hash = Put(D.hash, p.want, id)
  <2>1. ASSUME NEW S \in DOMAIN E.hash
        PROVE  E.hash[S] \in Saved(E) /\ E.truth[E.hash[S]] = S
    <3>1. CASE S = p.want  BY <1>5, <1>7, <3>1 DEF Put
    <3>2. CASE S # p.want
      <4>1. S \in DOMAIN D.hash /\ E.hash[S] = D.hash[S]  BY <1>7, <3>2 DEF Put
      <4> QED BY <1>3, <4>1
    <3> QED BY <3>1, <3>2
  <2> QED BY <1>2, <2>1 DEF IdsRight
<1> QED BY <1>4, <1>6, <1>7

LEMMA CreatedDiffs ==
    ASSUME NEW D, NEW E, NEW p, Created(D, E, p), DbTypeOK(D), DbTypeOK(E),
           NEW depth, DiffsRight(D, depth), NEW deeper, Grows(D, E, depth, deeper),
           p.stack \in Seq(Layer), Stacked(D, p.stack, depth),
           Exact(Base(p.stack), p.added, p.removed, p.want),
           Saved(E) = Saved(D) \cup {D.count + 1},
           E.diffs[D.count + 1] = RowOf(p), E.truth[D.count + 1] = p.want,
           deeper[D.count + 1] = Len(p.stack) + 1
    PROVE  DiffsRight(E, deeper)
<1> SUFFICES ASSUME NEW id \in Saved(E)
             PROVE  /\ ParentOf(E, id) < id
                    /\ Exact(TruthOf(E, ParentOf(E, id)), E.diffs[id].added,
                             E.diffs[id].removed, E.truth[id])
                    /\ deeper[id] = IF ParentOf(E, id) = None
                                    THEN 1 ELSE deeper[ParentOf(E, id)] + 1
  BY DEF DiffsRight
<1>1. D.count \in Nat /\ None \notin Saved(D)  BY IdsSaved
<1>2. \A i \in Saved(D) : /\ E.diffs[i] = D.diffs[i] /\ E.truth[i] = D.truth[i]
                          /\ deeper[i] = depth[i]
  BY DEF Grows
<1>3. CASE id \in Saved(D)
  <2> DEFINE up == ParentOf(D, id)
  <2>1. /\ up < id /\ Exact(TruthOf(D, up), D.diffs[id].added, D.diffs[id].removed, D.truth[id])
        /\ depth[id] = IF up = None THEN 1 ELSE depth[up] + 1
    BY <1>3 DEF DiffsRight
  <2>2. up = ParentOf(E, id)  BY <1>2, <1>3 DEF ParentOf
  <2>3. up = None \/ up \in Saved(D)
    <3>1. up \in {None} \cup Ids  BY <1>3 DEF DbTypeOK, Saved, Diff, ParentOf
    <3> QED BY <1>1, <1>3, <2>1, <3>1 DEF Saved, Ids, None
  <2>4. TruthOf(E, up) = TruthOf(D, up)  BY <1>2, <2>3 DEF TruthOf
  <2>5. up # None => deeper[up] = depth[up]  BY <1>2, <2>3
  <2> HIDE DEF up
  <2> QED BY <1>2, <1>3, <2>1, <2>2, <2>4, <2>5
<1>4. CASE id = D.count + 1
  <2> DEFINE s == p.stack
             up == IF s = << >> THEN None ELSE Top(s).id
  <2>1. ParentOf(E, id) = up /\ E.diffs[id].added = p.added /\ E.diffs[id].removed = p.removed
    BY <1>4 DEF ParentOf, RowOf
  <2>2. CASE s = << >>
    <3>1. up = None /\ TruthOf(E, up) = Base(s) /\ Len(s) + 1 = 1
      BY <2>2 DEF TruthOf, Base
    <3>2. None < id  BY <1>1, <1>4 DEF None
    <3> QED BY <1>4, <2>1, <3>1, <3>2
  <2>3. CASE s # << >>
    <3>1. up = Top(s).id  BY <2>3
    <3>2. up \in Saved(D) /\ depth[up] = Len(s) /\ Top(s).full = D.truth[up]
      BY <2>3, <3>1, StackTop
    <3> HIDE DEF up
    <3>3. up # None /\ TruthOf(E, up) = Base(s) /\ deeper[up] = Len(s)
      BY <1>1, <1>2, <2>3, <3>2 DEF TruthOf, Base
    <3>4. up < id  BY <1>1, <1>4, <3>2 DEF Saved
    <3> QED BY <1>4, <2>1, <3>3, <3>4
  <2> QED BY <2>2, <2>3
<1> QED BY <1>3, <1>4

LEMMA CreateKeeps ==
    ASSUME IInv, NEW c \in Callers, Create(c)
    PROVE  IInv'
<1>1. PICK depth \in Depths(db) : Right(depth)  BY DEF IInv
<1> DEFINE o == proc[c]
           id == db.count + 1
           n == Len(o.stack) + 1
           deeper == Deeper(depth, id, n)
<1>2. /\ o \in Proc /\ DbTypeOK(db) /\ DbShape(db) /\ IdsRight(db) /\ LocksRight(proc)
      /\ ProcRight(db, o, depth) /\ CacheRight(db, cache, depth) /\ DiffsRight(db, depth)
      /\ proc \in [Callers -> Proc] /\ \A d \in Callers : ProcRight(db, proc[d], depth)
  BY <1>1 DEF IInv, TypeOK, Right
<1>3. /\ o.pc = "create" /\ ~Merges(o) /\ db.count < MaxId /\ cache' = cache
      /\ Done(c, id) /\ o = proc[c]
  BY DEF Create
<1>4. Created(db, db', o)
  <2> DEFINE h == IF o.op = "append" THEN db.hash ELSE Put(db.hash, o.want, id)
             f == Put(db.diffs, id, RowOf(o))
             g == Put(db.truth, id, o.want)
  <2>1. db' = [db EXCEPT !.count = id, !.diffs = f, !.hash = h, !.truth = g]
    BY <1>2 DEF Create, RowOf, DbShape
  <2>2. /\ h = IF o.op = "append" THEN db.hash ELSE Put(db.hash, o.want, id)
        /\ f = Put(db.diffs, id, RowOf(o)) /\ g = Put(db.truth, id, o.want) /\ id = db.count + 1
    OBVIOUS
  <2> HIDE DEF h, f, g, id, o
  <2>3. db' = [count |-> id, diffs |-> f, hash |-> h, room |-> db.room, truth |-> g]
    BY <1>2, <2>1 DEF DbShape
  <2> QED BY <2>2, <2>3 DEF Created, DbShape
<1>5. /\ o.stack \in Seq(Layer) /\ Stacked(db, o.stack, depth) /\ ~Message(o)
      /\ o.added \in SUBSET Events /\ o.removed \in SUBSET Events /\ o.want \in States
      /\ Exact(Base(o.stack), o.added, o.removed, o.want)
      /\ o.op = "append" => o.want = WithEvent(TruthOf(db, db.room), o.event)
      /\ o.op # "append" => o.want \notin DOMAIN db.hash
  BY <1>2, <1>3 DEF Proc, ProcRight
<1>6. n \in 1 .. (MaxLayers + 1)
  <2>1. Len(o.stack) \in Nat  BY <1>5
  <2>2. o.stack = << >> => Len(o.stack) = 0  OBVIOUS
  <2>3. o.stack # << >> => ~(Len(o.stack) > MaxLayers)  BY <1>3 DEF Merges
  <2> QED BY <2>1, <2>2, <2>3, RoomStateAssumption
<1>7. RowOf(o) \in Diff
  <2>1. o.stack # << >> => Top(o.stack).id \in Ids
    <3>1. o.stack # << >> => Top(o.stack).id \in Saved(db)  BY <1>2, <1>5, StackTop
    <3> QED BY <1>2, <3>1, IdsSaved
  <2> QED BY <1>5, <2>1 DEF RowOf, Diff
<1>8. DbTypeOK(db')  BY <1>2, <1>3, <1>4, <1>5, <1>7, CreatedTypes
<1>9. /\ Saved(db') = Saved(db) \cup {id}
      /\ db'.diffs[id] = RowOf(o) /\ db'.truth[id] = o.want
      /\ deeper \in Depths(db') /\ deeper[id] = n
      /\ Grows(db, db', depth, deeper)
  BY <1>2, <1>4, <1>6, CreatedGrows
<1>10. /\ DbShape(db') /\ db'.room = db.room
       /\ db'.hash = IF o.op = "append" THEN db.hash ELSE Put(db.hash, o.want, id)
  BY <1>4 DEF Created
<1>11. n = Len(o.stack) + 1 /\ id = db.count + 1  OBVIOUS
<1> HIDE DEF deeper, n
<1>12. IdsRight(db')  BY <1>2, <1>4, <1>9, CreatedIds
<1>13. DiffsRight(db', deeper)
  BY <1>2, <1>4, <1>5, <1>8, <1>9, <1>11, CreatedDiffs
<1>14. CacheRight(db', cache', deeper)
  <2>1. CacheRight(db', cache, deeper)  BY <1>2, <1>9, CacheGrows
  <2> QED BY <1>3, <2>1
<1> DEFINE t == FinishOf(o, id)
<1>15. Become(c, t)  BY <1>3 DEF Done, FinishOf
<1>16. TruthOf(db', db'.room) = TruthOf(db, db.room)
  <2>1. db.room = None \/ db.room \in Saved(db)  BY <1>2 DEF IdsRight
  <2> QED BY <1>9, <1>10, <2>1 DEF TruthOf, Grows
<1>17. t \in Proc /\ t.pc = "finish" /\ t.op = o.op /\ ProcRight(db', t, deeper)
  <2>1. id \in Saved(db')  BY <1>9
  <2>2. o.op = "append" => o.want = WithEvent(TruthOf(db', db'.room), o.event)
    BY <1>5, <1>16
  <2> HIDE DEF id, o
  <2> QED BY <1>2, <1>5, <1>8, <1>9, <2>1, <2>2, DoneRight
<1> HIDE DEF t, id
<1>18. (HoldsRoom(t) => HoldsRoom(o)) /\ ~HoldsHash(t)
  BY <1>3, <1>17 DEF HoldsRoom, HoldsHash
<1>19. LocksRight(proc')  BY <1>15, <1>17, <1>18, LocksKeep
<1>20. /\ proc' \in [Callers -> Proc] /\ proc'[c] = t
       /\ \A d \in Callers : d # c => proc'[d] = proc[d]
  BY <1>2, <1>15, <1>17 DEF Become
<1>21. TypeOK'
  <2>1. TypeOK  BY DEF IInv
  <2> QED BY <1>3, <1>8, <1>20, <2>1 DEF TypeOK
<1>22. \A d \in Callers : ProcRight(db', proc'[d], deeper)
  <2>1. ASSUME NEW d \in Callers, d # c
        PROVE  ProcRight(db', proc[d], deeper)
    <3> DEFINE p == proc[d]
    <3>1. p \in Proc /\ ProcRight(db, p, depth)  BY <1>2
    <3>2. ASSUME p.pc = "create", p.op # "append"
          PROVE  p.want \notin DOMAIN db'.hash
      <4>1. HoldsHash(p)  BY <3>2 DEF HoldsHash
      <4>2. p.want \notin DOMAIN db.hash  BY <3>1, <3>2 DEF ProcRight
      <4>3. o.op # "append" => p.want # o.want
        <5>1. o.op # "append" => HoldsHash(o)  BY <1>3 DEF HoldsHash
        <5> QED BY <1>2, <1>3, <2>1, <4>1, <5>1 DEF LocksRight
      <4> QED BY <1>10, <4>2, <4>3 DEF Put
    <3> HIDE DEF p
    <3>3. ProcRight(db', p, deeper)  BY <1>2, <1>9, <1>10, <3>1, <3>2, ProcGrows
    <3> QED BY <3>3 DEF p
  <2> QED BY <1>17, <1>20, <2>1
<1>23. PICK g \in Depths(db') : /\ DiffsRight(db', g) /\ CacheRight(db', cache', g)
                                /\ \A d \in Callers : ProcRight(db', proc'[d], g)
  BY <1>9, <1>13, <1>14, <1>22
<1>24. Right(g)'  BY <1>23 DEF Right
<1> QED BY <1>10, <1>12, <1>19, <1>21, <1>23, <1>24 DEF IInv

(***************************************************************************)
(* The id is put to use.  The room's id changes only under the mutex, when *)
(* nobody else counts on it.                                               *)
(***************************************************************************)
LEMMA FinishKeeps ==
    ASSUME IInv, NEW c \in Callers, Finish(c)
    PROVE  IInv'
<1>1. PICK depth \in Depths(db) : Right(depth)  BY DEF IInv
<1> DEFINE o == proc[c]
<1>2. /\ o \in Proc /\ DbTypeOK(db) /\ DbShape(db) /\ IdsRight(db) /\ LocksRight(proc)
      /\ ProcRight(db, o, depth) /\ CacheRight(db, cache, depth) /\ DiffsRight(db, depth)
      /\ proc \in [Callers -> Proc] /\ \A d \in Callers : ProcRight(db, proc[d], depth)
  BY <1>1 DEF IInv, TypeOK, Right
<1>3. o.pc = "finish" /\ Become(c, IdleProc) /\ cache' = cache  BY DEF Finish
<1>4. IdleProc \in Proc /\ ProcRight(db, IdleProc, depth) /\ ~HoldsRoom(IdleProc) /\ ~HoldsHash(IdleProc)
  BY IdleIs, IdleRight
<1>5. CASE UNCHANGED db
  BY <1>1, <1>2, <1>3, <1>4, <1>5, Moves
<1>6. CASE /\ db' = [db EXCEPT !.room = o.got]
           /\ HoldsRoom(o) \/ RoomFree
  <2>1. /\ DbShape(db') /\ db'.count = db.count /\ db'.diffs = db.diffs
        /\ db'.hash = db.hash /\ db'.truth = db.truth /\ db'.room = o.got
    <3> HIDE DEF o
    <3>1. db' = [count |-> db.count, diffs |-> db.diffs, hash |-> db.hash,
                 room |-> o.got, truth |-> db.truth]
      BY <1>2, <1>6 DEF DbShape
    <3> QED BY <3>1 DEF DbShape
  <2>2. o.got \in {None} \cup Saved(db)  BY <1>2, <1>3 DEF ProcRight, FinishRight
  <2>3. Saved(db') = Saved(db)  BY <2>1 DEF Saved
  <2>4. DbTypeOK(db')
    <3>1. o.got \in {None} \cup Ids  BY <1>2, <2>2, IdsSaved
    <3> QED BY <1>2, <2>1, <3>1 DEF DbTypeOK
  <2>5. IdsRight(db')  BY <1>2, <2>1, <2>2, <2>3 DEF IdsRight
  <2>6. Grows(db, db', depth, depth)  BY <2>1, <2>3 DEF Grows
  <2>7. DiffsRight(db', depth)
    <3>1. \A id : ParentOf(db', id) = ParentOf(db, id) /\ TruthOf(db', id) = TruthOf(db, id)
      BY <2>1 DEF ParentOf, TruthOf
    <3> QED BY <1>2, <2>1, <2>3, <3>1 DEF DiffsRight
  <2>8. CacheRight(db', cache', depth)
    <3>1. CacheRight(db', cache, depth)  BY <1>2, <2>6, CacheGrows
    <3> QED BY <1>3, <3>1
  <2>9. LocksRight(proc')  BY <1>3, <1>4, LocksKeep
  <2>10. /\ proc' \in [Callers -> Proc] /\ proc'[c] = IdleProc
         /\ \A d \in Callers : d # c => proc'[d] = proc[d]
    BY <1>2, <1>3, <1>4 DEF Become
  <2>11. TypeOK'
    <3>1. TypeOK  BY DEF IInv
    <3> QED BY <1>3, <2>4, <2>10, <3>1 DEF TypeOK
  <2>12. ASSUME NEW d \in Callers  PROVE ProcRight(db', proc'[d], depth)
    <3>1. CASE d = c  BY <2>10, <3>1, IdleRight
    <3>2. CASE d # c
      <4> DEFINE p == proc[d]
      <4>1. p \in Proc /\ ProcRight(db, p, depth) /\ proc'[d] = p  BY <1>2, <2>10, <3>2
      <4>2. ~HoldsRoom(p)
        <5>1. RoomFree => ~HoldsRoom(p)  BY DEF RoomFree, HoldsRoom
        <5> QED BY <1>2, <1>6, <3>2, <5>1 DEF LocksRight
      <4>3. p.pc = "create" /\ p.op # "append" => p.want \notin DOMAIN db'.hash
        BY <2>1, <4>1 DEF ProcRight
      <4> HIDE DEF p
      <4> QED BY <1>2, <2>6, <4>1, <4>2, <4>3, ProcGrows
    <3> QED BY <3>1, <3>2
  <2>13. Right(depth)'  BY <2>7, <2>8, <2>12 DEF Right
  <2>14. depth \in Depths(db')  BY <1>1, <2>3 DEF Depths
  <2> QED BY <2>1, <2>5, <2>9, <2>11, <2>13, <2>14 DEF IInv
<1>7. UNCHANGED db \/ (db' = [db EXCEPT !.room = o.got] /\ (HoldsRoom(o) \/ RoomFree))
  BY <1>3 DEF Finish, SetRoomState, HoldsRoom, LockedOps
<1> QED BY <1>5, <1>6, <1>7

(***************************************************************************)
(* The id is not put to use; the mutex is let go.                          *)
(***************************************************************************)
LEMMA FinishFailsKeeps ==
    ASSUME IInv, NEW c \in Callers, FinishFails(c)
    PROVE  IInv'
<1>1. PICK depth \in Depths(db) : Right(depth)  BY DEF IInv
<1>2. Become(c, IdleProc) /\ UNCHANGED <<db, cache>>  BY DEF FinishFails
<1>3. CacheRight(db, cache, depth)  BY <1>1 DEF Right
<1>4. IdleProc \in Proc /\ ProcRight(db, IdleProc, depth) /\ ~HoldsRoom(IdleProc) /\ ~HoldsHash(IdleProc)
  BY IdleIs, IdleRight
<1> QED BY <1>1, <1>2, <1>3, <1>4, Moves

(***************************************************************************)
(* The cache loses an entry, the process everything but the tables.        *)
(***************************************************************************)
LEMMA EvictKeeps ==
    ASSUME IInv, NEW id \in Ids, Evict(id)
    PROVE  IInv'
<1>1. PICK depth \in Depths(db) : Right(depth)  BY DEF IInv
<1>2. /\ cache' = [i \in DOMAIN cache \ {id} |-> cache[i]] /\ UNCHANGED <<db, proc>>
  BY DEF Evict, Restrict
<1>3. TypeOK /\ DbShape(db) /\ IdsRight(db) /\ LocksRight(proc)  BY DEF IInv
<1>4. CacheRight(db, cache', depth)  BY <1>1, <1>2 DEF Right, CacheRight
<1>5. TypeOK'  BY <1>2, <1>3 DEF TypeOK
<1>6. Right(depth)'  BY <1>1, <1>2, <1>4 DEF Right
<1> QED BY <1>1, <1>2, <1>3, <1>5, <1>6 DEF IInv

LEMMA CrashKeeps ==
    ASSUME IInv, Crash
    PROVE  IInv'
<1>1. PICK depth \in Depths(db) : Right(depth)  BY DEF IInv
<1>2. cache' = << >> /\ proc' = [c \in Callers |-> IdleProc] /\ UNCHANGED db  BY DEF Crash
<1>3. DbTypeOK(db) /\ DbShape(db) /\ IdsRight(db)  BY DEF IInv, TypeOK
<1>4. DOMAIN cache' = {}  BY <1>2
<1>5. TypeOK'  BY <1>2, <1>3, <1>4, IdleIs DEF TypeOK
<1>6. LocksRight(proc')  BY <1>2, IdleRight DEF LocksRight
<1>7. Right(depth)'
  <2>1. CacheRight(db, cache', depth)  BY <1>4 DEF CacheRight
  <2>2. \A c \in Callers : ProcRight(db, proc'[c], depth)  BY <1>2, IdleRight
  <2> QED BY <1>1, <1>2, <2>1, <2>2 DEF Right
<1> QED BY <1>1, <1>2, <1>3, <1>5, <1>6, <1>7 DEF IInv

LEMMA InitRight == Init => IInv
<1> SUFFICES ASSUME Init PROVE IInv  OBVIOUS
<1>1. db = EmptyDb /\ cache = << >> /\ proc = [c \in Callers |-> IdleProc]  BY DEF Init
<1>2. /\ db.count = 0 /\ db.diffs = << >> /\ db.hash = << >> /\ db.room = None
      /\ db.truth = << >> /\ DbShape(db)
  BY <1>1 DEF EmptyDb, DbShape
<1>3. DOMAIN db.hash = {} /\ DOMAIN cache = {} /\ 1 .. 0 = {}  BY <1>1, <1>2
<1>4. DbTypeOK(db)
  <2>1. << >> \in [1 .. 0 -> Diff] /\ << >> \in [1 .. 0 -> States]  OBVIOUS
  <2>2. 0 \in 0 .. MaxId  BY RoomStateAssumption
  <2> QED BY <1>2, <1>3, <2>1, <2>2 DEF DbTypeOK
<1>5. Saved(db) = {}  BY <1>2, <1>3 DEF Saved
<1>6. TypeOK  BY <1>1, <1>3, <1>4, IdleIs DEF TypeOK
<1>7. IdsRight(db)  BY <1>2, <1>3 DEF IdsRight
<1>8. LocksRight(proc)  BY <1>1, IdleRight DEF LocksRight
<1>9. PICK depth \in Depths(db) : TRUE
  <2>1. [i \in {} |-> 1] \in Depths(db)  BY <1>5 DEF Depths
  <2> QED BY <2>1
<1>10. DiffsRight(db, depth) /\ CacheRight(db, cache, depth)  BY <1>3, <1>5 DEF DiffsRight, CacheRight
<1>11. \A c \in Callers : ProcRight(db, proc[c], depth)  BY <1>1, IdleRight
<1> QED BY <1>2, <1>6, <1>7, <1>8, <1>9, <1>10, <1>11 DEF IInv, Right

-----------------------------------------------------------------------------
(***************************************************************************)
(* The invariant is inductive.                                             *)
(***************************************************************************)
LEMMA StepKeeps ==
    ASSUME IInv, NEW c \in Callers, Step(c)
    PROVE  IInv'
BY BeginKeeps, ReadPrevKeeps, ReadHashKeeps, DescendKeeps, AscendKeeps, LoadFailsKeeps,
   TakeDiffKeeps, LookAgainKeeps, LockHashKeeps, MergeDownKeeps, CreateKeeps, FinishKeeps,
   FinishFailsKeeps
   DEF Step

LEMMA NextKeeps == IInv /\ [Next]_vars => IInv'
<1> SUFFICES ASSUME IInv, [Next]_vars PROVE IInv'  OBVIOUS
<1>1. CASE UNCHANGED vars
  <2>1. UNCHANGED <<db, cache, proc>>  BY <1>1 DEF vars
  <2> QED BY <2>1 DEF IInv, TypeOK, Right
<1>2. CASE Next
  BY <1>2, StepKeeps, EvictKeeps, CrashKeeps DEF Next
<1> QED BY <1>1, <1>2

(***************************************************************************)
(* Every diff is exact, every stack a chain of diffs and every task holds  *)
(* what its locks entitle it to, in every reachable state.                 *)
(***************************************************************************)
THEOREM RoomStateInvariant == Spec => []IInv
BY InitRight, NextKeeps, PTL DEF Spec

(***************************************************************************)
(* Tables, cache and tasks stay well typed, and every state saved has one  *)
(* event for each slot, whatever the diffs that led to it.                 *)
(***************************************************************************)
THEOREM RoomStateTypes == Spec => []TypeOK
<1>1. IInv => TypeOK  BY DEF IInv
<1> QED BY <1>1, RoomStateInvariant, PTL

(***************************************************************************)
(* load_shortstatehash_info rebuilds, for every id, the state the id was   *)
(* drawn for.                                                              *)
(***************************************************************************)
THEOREM LoadsRight == Spec => []LoadedStateIsSaved
<1>1. IInv => LoadedStateIsSaved
  <2> SUFFICES ASSUME IInv, NEW id \in DOMAIN cache
               PROVE  /\ id \in DOMAIN db.truth
                      /\ Top(cache[id]).id = id /\ Top(cache[id]).full = db.truth[id]
    BY DEF LoadedStateIsSaved
  <2>1. PICK depth \in Depths(db) : Right(depth)  BY DEF IInv
  <2>2. DbTypeOK(db) /\ DiffsRight(db, depth) /\ CacheRight(db, cache, depth)
    BY <2>1 DEF IInv, TypeOK, Right
  <2>3. /\ id \in Saved(db) /\ cache[id] \in Seq(Layer) /\ cache[id] # << >>
        /\ Top(cache[id]).id = id /\ Stacked(db, cache[id], depth)
    BY <2>2 DEF CacheRight
  <2>4. Top(cache[id]).full = db.truth[id]  BY <2>2, <2>3, StackTop
  <2>5. id \in DOMAIN db.truth  BY <2>2, <2>3 DEF DbTypeOK, Saved
  <2> QED BY <2>3, <2>4, <2>5
<1> QED BY <1>1, RoomStateInvariant, PTL

(***************************************************************************)
(* A load reads at most MaxLayers + 1 rows.                                *)
(***************************************************************************)
THEOREM LoadsBounded == Spec => []LayersBounded
<1>1. IInv => LayersBounded
  <2> SUFFICES ASSUME IInv, NEW id \in DOMAIN cache
               PROVE  Len(cache[id]) <= MaxLayers + 1
    BY DEF LayersBounded
  <2>1. PICK depth \in Depths(db) : Right(depth)  BY DEF IInv
  <2>2. DbTypeOK(db) /\ DiffsRight(db, depth) /\ CacheRight(db, cache, depth)
    BY <2>1 DEF IInv, TypeOK, Right
  <2>3. /\ id \in Saved(db) /\ cache[id] \in Seq(Layer) /\ cache[id] # << >>
        /\ Top(cache[id]).id = id /\ Stacked(db, cache[id], depth)
    BY <2>2 DEF CacheRight
  <2>4. depth[id] = Len(cache[id])  BY <2>2, <2>3, StackTop
  <2>5. depth[id] \in 1 .. (MaxLayers + 1)  BY <2>1, <2>3 DEF Depths
  <2> QED BY <2>4, <2>5, RoomStateAssumption
<1> QED BY <1>1, RoomStateInvariant, PTL

(***************************************************************************)
(* The id a task is about to file is one of the state it asked to save.    *)
(***************************************************************************)
THEOREM GetsWhatItWants == Spec => []GotWhatItWanted
<1>1. IInv => GotWhatItWanted
  <2> SUFFICES ASSUME IInv, NEW c \in Callers, proc[c].pc = "finish",
                      proc[c].op = "append" => KeyOf[proc[c].event] # NoKey
               PROVE  /\ proc[c].got \in DOMAIN db.truth
                      /\ db.truth[proc[c].got] = proc[c].want
    BY DEF GotWhatItWanted
  <2>1. PICK depth \in Depths(db) : Right(depth)  BY DEF IInv
  <2>2. DbTypeOK(db) /\ FinishRight(db, proc[c])
    BY <2>1 DEF IInv, TypeOK, Right, ProcRight
  <2>3. DOMAIN db.truth = Saved(db)  BY <2>2 DEF DbTypeOK, Saved
  <2> QED BY <2>2, <2>3 DEF FinishRight, Message
<1> QED BY <1>1, RoomStateInvariant, PTL

(***************************************************************************)
(* No row points at a state that is not stored, and no chain of parents    *)
(* loops, across crashes too.                                              *)
(***************************************************************************)
THEOREM IdsResolve == Spec => []NoDanglingIds
<1>1. IInv => NoDanglingIds
  <2> SUFFICES ASSUME IInv PROVE NoDanglingIds  OBVIOUS
  <2>1. PICK depth \in Depths(db) : Right(depth)  BY DEF IInv
  <2>2. DbTypeOK(db) /\ IdsRight(db) /\ DiffsRight(db, depth)
    BY <2>1 DEF IInv, TypeOK, Right
  <2>3. DOMAIN db.diffs = Saved(db)  BY <2>2 DEF DbTypeOK, Saved
  <2> QED BY <2>2, <2>3 DEF NoDanglingIds, IdsRight, DiffsRight, ParentOf
<1> QED BY <1>1, RoomStateInvariant, PTL

(***************************************************************************)
(* Reading `added` alone for a state without a parent loses nothing: a     *)
(* merge that reaches the bottom leaves nothing to remove.                 *)
(***************************************************************************)
THEOREM RootsAreFull == Spec => []RootsRemoveNothing
<1>1. IInv => RootsRemoveNothing
  <2> SUFFICES ASSUME IInv, NEW id \in DOMAIN db.diffs, db.diffs[id].parent = None
               PROVE  db.diffs[id].removed = {}
    BY DEF RootsRemoveNothing
  <2>1. PICK depth \in Depths(db) : Right(depth)  BY DEF IInv
  <2>2. DbTypeOK(db) /\ DiffsRight(db, depth)  BY <2>1 DEF IInv, TypeOK, Right
  <2>3. id \in Saved(db) /\ ParentOf(db, id) = None  BY <2>2 DEF DbTypeOK, Saved, ParentOf
  <2>4. Exact({}, db.diffs[id].added, db.diffs[id].removed, db.truth[id])
    BY <2>2, <2>3 DEF DiffsRight, TruthOf
  <2> QED BY <2>4 DEF Exact
<1> QED BY <1>1, RoomStateInvariant, PTL

(***************************************************************************)
(* Only a new row touches the intern table, and only for a state that has  *)
(* none: the table's lock and the second look make sure of it.             *)
(***************************************************************************)
THEOREM InternsOnce == Spec => InternedOnce
<1>1. ASSUME IInv, [Next]_vars, NEW S \in DOMAIN db.hash
      PROVE  S \in DOMAIN db'.hash /\ db'.hash[S] = db.hash[S]
  <2>1. PICK depth \in Depths(db) : Right(depth)  BY <1>1 DEF IInv
  <2>2. DbShape(db)  BY <1>1 DEF IInv
  <2>3. ASSUME NEW c \in Callers, Create(c)
        PROVE  S \in DOMAIN db'.hash /\ db'.hash[S] = db.hash[S]
    <3>1. proc[c].pc = "create" /\ ProcRight(db, proc[c], depth)
      BY <2>1, <2>3 DEF Create, Right
    <3>2. db'.hash = IF proc[c].op = "append" THEN db.hash
                     ELSE Put(db.hash, proc[c].want, db.count + 1)
      <4> DEFINE id == db.count + 1
                 h == IF proc[c].op = "append" THEN db.hash ELSE Put(db.hash, proc[c].want, id)
                 f == Put(db.diffs, id, RowOf(proc[c]))
                 g == Put(db.truth, id, proc[c].want)
      <4>1. db' = [db EXCEPT !.count = id, !.diffs = f, !.hash = h, !.truth = g]
        BY <2>2, <2>3 DEF Create, RowOf, DbShape
      <4> HIDE DEF h, f, g, id
      <4>2. db'.hash = h  BY <2>2, <4>1 DEF DbShape
      <4> QED BY <4>2 DEF h, id
    <3>3. proc[c].op # "append" => proc[c].want \notin DOMAIN db.hash
      BY <3>1 DEF ProcRight
    <3> QED BY <3>2, <3>3 DEF Put
  <2>4. ASSUME NEW c \in Callers, Finish(c)
        PROVE  db'.hash = db.hash
    <3>1. UNCHANGED db \/ db' = [db EXCEPT !.room = proc[c].got]
      BY <2>4 DEF Finish, SetRoomState
    <3> QED BY <2>2, <3>1 DEF DbShape
  <2>5. ASSUME NEW c \in Callers, Step(c), ~Create(c), ~Finish(c)
        PROVE  UNCHANGED db
    BY <2>5 DEF Step, BeginAppend, BeginEvent, BeginSave, ReadPrev, ReadHash, Descend, Ascend,
                LoadFails, TakeDiff, CheckHash, LockHash, Recheck, LookAgain, MergeDown,
                FinishFails
  <2>6. CASE UNCHANGED db  BY <2>6
  <2>7. CASE ~UNCHANGED db
    <3>1. PICK c \in Callers : Step(c)
      BY <1>1, <2>7 DEF Next, Evict, Crash, vars
    <3> QED BY <2>3, <2>4, <2>5, <2>7, <3>1
  <2> QED BY <2>6, <2>7
<1>2. IInv /\ [Next]_vars =>
        [\A S \in DOMAIN db.hash : S \in DOMAIN db'.hash /\ db'.hash[S] = db.hash[S]]_vars
  BY <1>1
<1> QED BY <1>2, RoomStateInvariant, PTL DEF Spec, InternedOnce

(***************************************************************************)
(* append_to_state loses no update: the state it sets is the one the room  *)
(* has when it is set, with the event in its slot.                         *)
(***************************************************************************)
THEOREM AppendsRight == Spec => AppendsToCurrent
<1>1. ASSUME IInv, NEW c \in Callers, proc[c].pc = "finish", proc[c].op = "append",
             KeyOf[proc[c].event] # NoKey, Finish(c)
      PROVE  db'.truth[db'.room] =
               WithEvent(IF db.room = None THEN {} ELSE db.truth[db.room], proc[c].event)
  <2>1. PICK depth \in Depths(db) : Right(depth)  BY <1>1 DEF IInv
  <2>2. DbShape(db) /\ ProcRight(db, proc[c], depth)  BY <1>1, <2>1 DEF IInv, Right
  <2>3. ~Message(proc[c])  BY <1>1 DEF Message
  <2>4. /\ proc[c].want = WithEvent(TruthOf(db, db.room), proc[c].event)
        /\ db.truth[proc[c].got] = proc[c].want
    BY <1>1, <2>2, <2>3 DEF ProcRight, FinishRight
  <2>5. db' = [db EXCEPT !.room = proc[c].got]  BY <1>1 DEF Finish, SetRoomState
  <2>6. db'.room = proc[c].got /\ db'.truth = db.truth  BY <2>2, <2>5 DEF DbShape
  <2> QED BY <2>4, <2>6 DEF TruthOf
<1>2. IInv /\ [Next]_vars =>
        [\A c \in Callers :
            proc[c].pc = "finish" /\ proc[c].op = "append"
            /\ KeyOf[proc[c].event] # NoKey /\ Finish(c) =>
               db'.truth[db'.room] =
                 WithEvent(IF db.room = None THEN {} ELSE db.truth[db.room], proc[c].event)]_vars
  BY <1>1
<1> QED BY <1>2, RoomStateInvariant, PTL DEF Spec, AppendsToCurrent

-----------------------------------------------------------------------------
(***************************************************************************)
(* The refinement.  What a task asked for is read off its operation, and   *)
(* most of its steps leave that, the tables and what is shown alone.       *)
(***************************************************************************)
LEMMA AskedIs ==
    ASSUME NEW p
    PROVE  /\ p.pc = "idle" => AskedOf(p) = << >>
           /\ p.pc # "idle" /\ p.op = "append" =>
                 /\ AskedOf(p) = << "append", p.event >> /\ AskedOf(p) # << >>
                 /\ AskedOf(p)[1] = p.op /\ AskedOf(p)[2] = p.event
           /\ p.pc # "idle" /\ p.op # "append" =>
                 /\ AskedOf(p) = << p.op, p.want >> /\ AskedOf(p) # << >>
                 /\ AskedOf(p)[1] = p.op /\ AskedOf(p)[2] = p.want
<1>1. CASE p.pc = "idle"  BY <1>1 DEF AskedOf
<1>2. CASE p.pc # "idle" /\ p.op = "append"
  <2>1. AskedOf(p) = << "append", p.event >>  BY <1>2 DEF AskedOf
  <2>2. << "append", p.event >> # << >>  OBVIOUS
  <2> QED BY <1>2, <2>1, <2>2
<1>3. CASE p.pc # "idle" /\ p.op # "append"
  <2>1. AskedOf(p) = << p.op, p.want >>  BY <1>3 DEF AskedOf
  <2>2. << p.op, p.want >> # << >>  OBVIOUS
  <2> QED BY <1>3, <2>1, <2>2
<1> QED BY <1>1, <1>2, <1>3

LEMMA AskedMoves ==
    ASSUME TypeOK, NEW c \in Callers, NEW p, Become(c, p)
    PROVE  asked' = [asked EXCEPT ![c] = AskedOf(p)] /\ asked[c] = AskedOf(proc[c])
<1>1. proc \in [Callers -> Proc]  BY DEF TypeOK
<1>2. proc'[c] = p /\ \A d \in Callers : d # c => proc'[d] = proc[d]  BY <1>1 DEF Become
<1>3. asked = [d \in Callers |-> AskedOf(proc[d])]  BY DEF asked
<1>4. asked' = [d \in Callers |-> AskedOf(proc'[d])]  BY DEF asked
<1> QED BY <1>2, <1>3, <1>4

SameRequest(o, p) ==
    /\ o.pc # "idle" /\ p.pc # "idle" /\ p.op = o.op /\ p.event = o.event
    /\ o.op # "append" => p.want = o.want

LEMMA RequestStays ==
    ASSUME TypeOK, NEW c \in Callers, NEW p, Become(c, p), SameRequest(proc[c], p)
    PROVE  asked' = asked
<1>1. AskedOf(p) = AskedOf(proc[c])
  <2>1. CASE p.op = "append"  BY <2>1, AskedIs DEF SameRequest
  <2>2. CASE p.op # "append"  BY <2>2, AskedIs DEF SameRequest
  <2> QED BY <2>1, <2>2
<1>2. asked' = [asked EXCEPT ![c] = AskedOf(p)] /\ asked[c] = AskedOf(proc[c])  BY AskedMoves
<1>3. asked = [d \in Callers |-> AskedOf(proc[d])]  BY DEF asked
<1> QED BY <1>1, <1>2, <1>3

LEMMA QuietStep ==
    ASSUME TypeOK, NEW c \in Callers, NEW p, Become(c, p), SameRequest(proc[c], p),
           UNCHANGED <<db, cache>>
    PROVE  UNCHANGED Store!storeVars
<1>1. asked' = asked  BY RequestStays
<1>2. shown' = shown  BY DEF shown
<1> QED BY <1>1, <1>2 DEF Store!storeVars

LEMMA DoneQuiet ==
    ASSUME TypeOK, NEW c \in Callers, NEW id, Done(c, id), proc[c].pc # "idle",
           UNCHANGED <<db, cache>>
    PROVE  UNCHANGED Store!storeVars
<1> DEFINE o == proc[c]
           i == IdleProc
           t == [i EXCEPT !.pc = "finish", !.op = o.op, !.event = o.event, !.want = o.want,
                          !.got = id]
<1>1. o \in Proc /\ i \in Proc  BY IdleIs DEF TypeOK
<1>2. Become(c, t) /\ o.pc # "idle"  BY DEF Done
<1>3. o = proc[c]  OBVIOUS
<1> HIDE DEF i, o
<1>4. t.pc = "finish" /\ t.op = o.op /\ t.event = o.event /\ t.want = o.want
  BY <1>1 DEF Proc
<1> HIDE DEF t
<1>5. SameRequest(o, t)  BY <1>2, <1>4 DEF SameRequest
<1> QED BY <1>2, <1>3, <1>5, QuietStep

(***************************************************************************)
(* The steps that only read.                                               *)
(***************************************************************************)
LEMMA ReadsQuiet ==
    ASSUME IInv, NEW c \in Callers,
           ReadPrev(c) \/ ReadHash(c) \/ TakeDiff(c) \/ CheckHash(c) \/ LockHash(c)
           \/ Recheck(c) \/ MergeDown(c)
    PROVE  UNCHANGED Store!storeVars
<1> DEFINE o == proc[c]
<1>1. TypeOK /\ o \in Proc  BY DEF IInv, TypeOK
<1>2. o.pc # "idle" /\ UNCHANGED <<db, cache>>
  BY DEF ReadPrev, ReadHash, TakeDiff, CheckHash, LockHash, Recheck, LookAgain, MergeDown
<1>3. CASE ReadPrev(c)
  <2> DEFINE chain == IF db.room = None THEN << >> ELSE << db.room >>
             before == IF db.room = None THEN {} ELSE db.truth[db.room]
             r == [o EXCEPT !.prev = db.room, !.todo = chain]
  <2>1. \/ Done(c, db.room)
        \/ /\ o.op = "append"
           /\ Become(c, [r EXCEPT !.pc = "load", !.want = WithEvent(before, r.event)])
        \/ Become(c, [r EXCEPT !.pc = "load"])
        \/ Become(c, [r EXCEPT !.pc = "hash"])
    BY <1>1, <1>3 DEF ReadPrev, Proc
  <2>2. o = proc[c]  OBVIOUS
  <2> HIDE DEF o, chain, before
  <2>3. r.op = o.op /\ r.event = o.event /\ r.want = o.want /\ DOMAIN r = DOMAIN o
    BY <1>1 DEF Proc
  <2>4. CASE Done(c, db.room)  BY <1>1, <1>2, <2>2, <2>4, DoneQuiet
  <2>5. ASSUME NEW w, o.op = "append", Become(c, [r EXCEPT !.pc = "load", !.want = w])
        PROVE  UNCHANGED Store!storeVars
    <3> DEFINE t == [r EXCEPT !.pc = "load", !.want = w]
    <3>1. t.pc = "load" /\ t.op = o.op /\ t.event = o.event  BY <1>1, <2>3 DEF Proc
    <3>2. Become(c, t)  BY <2>5
    <3> HIDE DEF t, r
    <3>3. SameRequest(o, t)  BY <1>2, <2>5, <3>1 DEF SameRequest
    <3> QED BY <1>1, <1>2, <2>2, <3>2, <3>3, QuietStep
  <2>6. ASSUME NEW pc \in {"load", "hash"}, Become(c, [r EXCEPT !.pc = pc])
        PROVE  UNCHANGED Store!storeVars
    <3> DEFINE t == [r EXCEPT !.pc = pc]
    <3>1. t.pc = pc /\ t.op = o.op /\ t.event = o.event /\ t.want = o.want
      BY <1>1, <2>3 DEF Proc
    <3>2. Become(c, t)  BY <2>6
    <3> HIDE DEF t, r
    <3>3. SameRequest(o, t)  BY <1>2, <3>1 DEF SameRequest
    <3> QED BY <1>1, <1>2, <2>2, <3>2, <3>3, QuietStep
  <2> QED BY <2>1, <2>4, <2>5, <2>6
<1>4. CASE ReadHash(c)
  <2> DEFINE id == Lookup(db.hash, o.want)
             r == [o EXCEPT !.existing = id]
  <2>1. \/ Done(c, id)
        \/ Become(c, [r EXCEPT !.pc = "prev"])
        \/ Become(c, [r EXCEPT !.pc = "load"])
    BY <1>4 DEF ReadHash
  <2>2. o = proc[c]  OBVIOUS
  <2> HIDE DEF o, id
  <2>3. r.op = o.op /\ r.event = o.event /\ r.want = o.want /\ DOMAIN r = DOMAIN o
    BY <1>1 DEF Proc
  <2>4. CASE Done(c, id)  BY <1>1, <1>2, <2>2, <2>4, DoneQuiet
  <2>5. ASSUME NEW pc \in {"load", "prev"}, Become(c, [r EXCEPT !.pc = pc])
        PROVE  UNCHANGED Store!storeVars
    <3> DEFINE t == [r EXCEPT !.pc = pc]
    <3>1. t.pc = pc /\ t.op = o.op /\ t.event = o.event /\ t.want = o.want
      BY <1>1, <2>3 DEF Proc
    <3>2. Become(c, t)  BY <2>5
    <3> HIDE DEF t, r
    <3>3. SameRequest(o, t)  BY <1>2, <3>1 DEF SameRequest
    <3> QED BY <1>1, <1>2, <2>2, <3>2, <3>3, QuietStep
  <2> QED BY <2>1, <2>4, <2>5
<1>5. CASE TakeDiff(c)
  <2> DEFINE base == Base(o.stack)
             replaces == SameSlot(base, o.event)
  <2>1. \/ \E id : Done(c, id)
        \/ Become(c, DiffTaken(o, "create", {o.event}, replaces))
        \/ Become(c, DiffTaken(o, "check", o.want \ base, base \ o.want))
    BY <1>1, <1>5 DEF TakeDiff, Base, DiffTaken, Proc
  <2>2. CASE \E id : Done(c, id)  BY <1>1, <1>2, <2>2, DoneQuiet
  <2>3. ASSUME NEW pc \in {"create", "check"}, NEW added, NEW removed,
               Become(c, DiffTaken(o, pc, added, removed))
        PROVE  UNCHANGED Store!storeVars
    <3> DEFINE t == DiffTaken(o, pc, added, removed)
    <3>1. t.pc = pc /\ t.op = o.op /\ t.event = o.event /\ t.want = o.want
      BY <1>1 DEF Proc, DiffTaken
    <3>2. SameRequest(o, t)  BY <1>2, <3>1 DEF SameRequest
    <3> HIDE DEF t
    <3>3. Become(c, t)  BY <2>3 DEF t
    <3> QED BY <1>1, <1>2, <3>2, <3>3, QuietStep
  <2> QED BY <2>1, <2>2, <2>3
<1>6. CASE CheckHash(c) \/ LockHash(c) \/ Recheck(c)
  <2>1. \/ \E id : Done(c, id)
        \/ \E pc \in {"lock", "recheck", "create"} : Become(c, [o EXCEPT !.pc = pc])
    BY <1>6 DEF CheckHash, LockHash, Recheck, LookAgain
  <2>2. CASE \E id : Done(c, id)  BY <1>1, <1>2, <2>2, DoneQuiet
  <2>3. ASSUME NEW pc \in {"lock", "recheck", "create"}, Become(c, [o EXCEPT !.pc = pc])
        PROVE  UNCHANGED Store!storeVars
    <3> DEFINE t == [o EXCEPT !.pc = pc]
    <3>1. t.pc = pc /\ t.op = o.op /\ t.event = o.event /\ t.want = o.want
      BY <1>1 DEF Proc
    <3>2. SameRequest(o, t)  BY <1>2, <3>1 DEF SameRequest
    <3>3. Become(c, t)  BY <2>3
    <3> HIDE DEF t
    <3> QED BY <1>1, <1>2, <3>2, <3>3, QuietStep
  <2> QED BY <2>1, <2>2, <2>3
<1>7. CASE MergeDown(c)
  <2> DEFINE stack == SubSeq(o.stack, 1, Len(o.stack) - 1)
             added == MergedAdded(Top(o.stack), o.added, o.removed)
             removed == MergedRemoved(Top(o.stack), o.added, o.removed)
             sibling == Size(o.added) + Size(o.removed)
             t == [o EXCEPT !.stack = stack, !.added = added, !.removed = removed,
                            !.sibling = sibling]
  <2>1. Become(c, t)  BY <1>1, <1>7 DEF MergeDown, Proc
  <2>2. o = proc[c]  OBVIOUS
  <2> HIDE DEF o, stack, added, removed, sibling
  <2>3. t.pc = o.pc /\ t.op = o.op /\ t.event = o.event /\ t.want = o.want
    BY <1>1 DEF Proc
  <2> HIDE DEF t
  <2>4. SameRequest(o, t)  BY <1>2, <2>3 DEF SameRequest
  <2> QED BY <1>1, <1>2, <2>1, <2>2, <2>4, QuietStep
<1> QED BY <1>3, <1>4, <1>5, <1>6, <1>7

(***************************************************************************)
(* A task asks, and gives up.                                              *)
(***************************************************************************)
LEMMA BeginRequests ==
    ASSUME IInv, NEW c \in Callers,
           \/ \E e \in Events : BeginAppend(c, e)
           \/ \E S \in Wants : BeginEvent(c, S)
           \/ \E op \in Saves, S \in Wants : BeginSave(c, op, S)
    PROVE  Store!Request(c)
<1>1. TypeOK  BY DEF IInv
<1> DEFINE i == IdleProc
<1>2. i \in Proc  BY IdleIs
<1>3. proc[c].pc = "idle" /\ UNCHANGED <<db, cache>>
  BY DEF BeginAppend, BeginEvent, BeginSave
<1>4. shown' = shown  BY <1>3 DEF shown
<1>5. \E t : Become(c, t) /\ AskedOf(t) \in Store!Requests
  <2>1. ASSUME NEW e \in Events, BeginAppend(c, e)
        PROVE  \E t : Become(c, t) /\ AskedOf(t) \in Store!Requests
    <3> DEFINE t == [i EXCEPT !.pc = "prev", !.op = "append", !.event = e]
    <3>1. Become(c, t)  BY <2>1 DEF BeginAppend
    <3> HIDE DEF i
    <3>2. t.pc = "prev" /\ t.op = "append" /\ t.event = e  BY <1>2 DEF Proc
    <3> HIDE DEF t
    <3>3. AskedOf(t) = << "append", e >>  BY <3>2, AskedIs
    <3> QED BY <3>1, <3>3 DEF Store!Requests
  <2>2. ASSUME NEW R \in Wants, BeginEvent(c, R)
        PROVE  \E t : Become(c, t) /\ AskedOf(t) \in Store!Requests
    <3> DEFINE t == [i EXCEPT !.pc = "hash", !.op = "event", !.want = R, !.sibling = EventSibling]
    <3>1. Become(c, t)  BY <2>2 DEF BeginEvent
    <3> HIDE DEF i
    <3>2. t.pc = "hash" /\ t.op = "event" /\ t.want = R  BY <1>2 DEF Proc
    <3> HIDE DEF t
    <3>3. AskedOf(t) = << "event", R >>  BY <3>2, AskedIs
    <3> QED BY <3>1, <3>3 DEF Store!Requests
  <2>3. ASSUME NEW op \in Saves, NEW R \in Wants, BeginSave(c, op, R)
        PROVE  \E t : Become(c, t) /\ AskedOf(t) \in Store!Requests
    <3> DEFINE t == [i EXCEPT !.pc = "prev", !.op = op, !.want = R]
    <3>1. Become(c, t)  BY <2>3 DEF BeginSave
    <3> HIDE DEF i
    <3>2. t.pc = "prev" /\ t.op = op /\ t.want = R  BY <1>2 DEF Proc
    <3> HIDE DEF t
    <3>3. AskedOf(t) = << op, R >>  BY <3>2, AskedIs DEF Saves
    <3> QED BY <3>1, <3>3 DEF Store!Requests, Saves
  <2> QED BY <2>1, <2>2, <2>3
<1>6. PICK t : Become(c, t) /\ AskedOf(t) \in Store!Requests  BY <1>5
<1>7. asked' = [asked EXCEPT ![c] = AskedOf(t)] /\ asked[c] = AskedOf(proc[c])
  BY <1>1, <1>6, AskedMoves
<1>8. asked[c] = << >>  BY <1>3, <1>7, AskedIs
<1> QED BY <1>3, <1>4, <1>6, <1>7, <1>8 DEF Store!Request, Store!Nothing

LEMMA GivesUp ==
    ASSUME IInv, NEW c \in Callers, LoadFails(c)
    PROVE  Store!GiveUp(c) \/ UNCHANGED Store!storeVars
<1> DEFINE o == proc[c]
<1>1. TypeOK /\ o \in Proc /\ o = proc[c]  BY DEF IInv, TypeOK
<1>2. o.pc = "load" /\ UNCHANGED <<db, cache>>  BY DEF LoadFails
<1>3. CASE o.op \in Saves
  <2> DEFINE t == [o EXCEPT !.todo = << >>, !.stack = << >>]
  <2>1. Become(c, t)  BY <1>3 DEF LoadFails
  <2> HIDE DEF o
  <2>2. t.pc = o.pc /\ t.op = o.op /\ t.event = o.event /\ t.want = o.want  BY <1>1 DEF Proc
  <2> HIDE DEF t
  <2>3. SameRequest(o, t)  BY <1>2, <2>2 DEF SameRequest
  <2> QED BY <1>1, <1>2, <2>1, <2>3, QuietStep
<1>4. CASE o.op \notin Saves
  <2>1. Become(c, IdleProc)  BY <1>4 DEF LoadFails
  <2>2. asked' = [asked EXCEPT ![c] = AskedOf(IdleProc)] /\ asked[c] = AskedOf(o)
    BY <1>1, <2>1, AskedMoves
  <2>3. AskedOf(IdleProc) = << >>  BY IdleIs, AskedIs
  <2>4. o.op \in {"append", "event"}  BY <1>1, <1>4 DEF Proc, Ops
  <2>5. asked[c] # << >> /\ asked[c][1] \in {"append", "event"}
    BY <1>2, <2>2, <2>4, AskedIs
  <2>6. shown' = shown  BY <1>2 DEF shown
  <2> QED BY <1>2, <2>2, <2>3, <2>5, <2>6 DEF Store!GiveUp, Store!Nothing
<1> QED BY <1>3, <1>4

LEMMA FailureGivesUp ==
    ASSUME IInv, NEW c \in Callers, FinishFails(c)
    PROVE  Store!GiveUp(c)
<1> DEFINE o == proc[c]
<1>1. TypeOK /\ o \in Proc  BY DEF IInv, TypeOK
<1>2. /\ o.pc = "finish" /\ o.op \in {"append", "resolve"}
      /\ Become(c, IdleProc) /\ UNCHANGED <<db, cache>>
  BY DEF FinishFails
<1>3. asked' = [asked EXCEPT ![c] = AskedOf(IdleProc)] /\ asked[c] = AskedOf(o)
  BY <1>1, <1>2, AskedMoves
<1>4. AskedOf(IdleProc) = << >>  BY IdleIs, AskedIs
<1>5. asked[c] # << >> /\ asked[c][1] \in {"append", "resolve"}  BY <1>2, <1>3, AskedIs
<1>6. shown' = shown  BY <1>2 DEF shown
<1> QED BY <1>2, <1>3, <1>4, <1>5, <1>6 DEF Store!GiveUp, Store!Nothing

(***************************************************************************)
(* What is saved is a sequence, and a new row its next element.            *)
(***************************************************************************)
LEMMA SavedStates ==
    ASSUME NEW D, DbTypeOK(D)
    PROVE  D.truth \in Seq(States) /\ Len(D.truth) = D.count /\ 1 .. Len(D.truth) = Saved(D)
<1> DEFINE n == D.count
           f == D.truth
<1>1. n \in Nat /\ f \in [1 .. n -> States]  BY IdsSaved DEF DbTypeOK
<1>2. Saved(D) = 1 .. n  BY DEF Saved
<1> HIDE DEF n, f
<1>3. f \in Seq(States) /\ Len(f) = n  BY <1>1
<1> QED BY <1>2, <1>3 DEF n, f

LEMMA PutAppends ==
    ASSUME NEW T, NEW f \in Seq(T), NEW v \in T
    PROVE  Put(f, Len(f) + 1, v) = Append(f, v)
<1> DEFINE n == Len(f)
           g == Append(f, v)
           h == Put(f, n + 1, v)
<1>1. n \in Nat /\ DOMAIN f = 1 .. n /\ 1 .. (n + 1) = 1 .. n \cup {n + 1}  OBVIOUS
<1>2. g \in Seq(T) /\ Len(g) = n + 1 /\ g[n + 1] = v /\ \A i \in 1 .. n : g[i] = f[i]
  OBVIOUS
<1>3. DOMAIN h = 1 .. (n + 1) /\ h[n + 1] = v /\ \A i \in 1 .. n : h[i] = f[i]
  BY <1>1 DEF Put
<1>4. h = [i \in DOMAIN h |-> h[i]]  BY DEF Put
<1> HIDE DEF n, g, h
<1>5. g = [i \in 1 .. (n + 1) |-> g[i]]  BY <1>1, <1>2
<1>6. \A i \in 1 .. (n + 1) : g[i] = h[i]  BY <1>1, <1>2, <1>3
<1>7. g = h  BY <1>3, <1>4, <1>5, <1>6
<1> QED BY <1>7 DEF n, g, h

(***************************************************************************)
(* A loaded stack shows the state of its id.                               *)
(***************************************************************************)
LEMMA BuiltShows ==
    ASSUME IInv, NEW c \in Callers, proc[c].pc = "load",
           NEW id \in Saved(db), NEW s \in Seq(Layer), Built(c, id, s),
           Top(s).full = db.truth[id], db' = db
    PROVE  Store!Show(id) /\ id \in 1 .. Len(db.truth)
<1> DEFINE o == proc[c]
           t == [o EXCEPT !.todo = Tail(o.todo), !.stack = s]
<1>1. TypeOK /\ o \in Proc /\ o = proc[c] /\ DbTypeOK(db)  BY DEF IInv, TypeOK
<1>2. Become(c, t) /\ cache' = Put(cache, id, s)  BY <1>1 DEF Built, Proc
<1> HIDE DEF o
<1>3. t.pc = o.pc /\ t.op = o.op /\ t.event = o.event /\ t.want = o.want  BY <1>1 DEF Proc
<1> HIDE DEF t
<1>4. SameRequest(o, t)  BY <1>1, <1>3 DEF SameRequest
<1>5. asked' = asked  BY <1>1, <1>2, <1>4, RequestStays
<1>6. shown' = Store!Entered(shown, id, db.truth[id])
  <2>1. DOMAIN cache' = DOMAIN cache \cup {id}  BY <1>2 DEF Put
  <2>2. \A i \in DOMAIN cache' : cache'[i] = IF i = id THEN s ELSE cache[i]
    BY <1>2 DEF Put
  <2>3. shown' = [i \in DOMAIN cache' |-> Top(cache'[i]).full]  BY DEF shown
  <2>4. shown = [i \in DOMAIN cache |-> Top(cache[i]).full]  BY DEF shown
  <2>5. Store!Entered(shown, id, db.truth[id])
          = [i \in DOMAIN shown \cup {id} |-> IF i = id THEN db.truth[id] ELSE shown[i]]
    BY DEF Store!Entered
  <2> QED BY <2>1, <2>2, <2>3, <2>4, <2>5
<1>7. id \in 1 .. Len(db.truth)  BY <1>1, SavedStates
<1> QED BY <1>5, <1>6, <1>7 DEF Store!Show

LEMMA LoadShows ==
    ASSUME IInv, NEW c \in Callers, Descend(c) \/ Ascend(c)
    PROVE  \/ \E id \in 1 .. Len(db.truth) : Store!Show(id)
           \/ UNCHANGED Store!storeVars
<1>1. PICK depth \in Depths(db) : Right(depth)  BY DEF IInv
<1> DEFINE o == proc[c]
           id == Head(o.todo)
           up == db.diffs[id].parent
<1>2. /\ TypeOK /\ o \in Proc /\ DbTypeOK(db) /\ ProcRight(db, o, depth)
      /\ CacheRight(db, cache, depth) /\ DiffsRight(db, depth)
  BY <1>1 DEF IInv, TypeOK, Right
<1>3. o.pc = "load" /\ o.todo # << >> /\ db' = db /\ o = proc[c]  BY DEF Descend, Ascend
<1>4. o.todo \in Seq(Ids) /\ o.stack \in Seq(Layer) /\ Stacked(db, o.stack, depth)
      /\ ChainRight(db, o)
  BY <1>2, <1>3 DEF Proc, ProcRight, LoadRight
<1>5. id = o.todo[1] /\ 1 \in 1 .. Len(o.todo)  BY <1>3, <1>4
<1>6. id \in Saved(db)  BY <1>4, <1>5 DEF ChainRight
<1>7. ASSUME NEW s \in Seq(Layer), Built(c, id, Append(s, LayerOf(id, db.truth[id])))
      PROVE  \E x \in 1 .. Len(db.truth) : Store!Show(x)
  <2> DEFINE layer == LayerOf(id, db.truth[id])
             n == Append(s, layer)
  <2>1. db.truth[id] \in SUBSET Events /\ db.diffs[id] \in Diff /\ id \in Ids
    BY <1>2, <1>6, IdsSaved DEF DbTypeOK, Saved, States, StateEvents
  <2>2. layer \in Layer /\ layer.full = db.truth[id]
    BY <2>1 DEF LayerOf, Layer, Diff
  <2>3. Built(c, id, n)  BY <1>7
  <2> HIDE DEF layer, id
  <2>4. n \in Seq(Layer) /\ Top(n) = layer  BY <2>2 DEF Top
  <2> HIDE DEF n
  <2> QED BY <1>3, <1>6, <2>2, <2>3, <2>4, BuiltShows
<1>8. CASE Ascend(c)
  <2> DEFINE s == o.stack
  <2>1. /\ s # << >>
        /\ Built(c, id, Append(s, LayerOf(id, FullOver(Top(s).full, db.diffs[id]))))
    BY <1>8 DEF Ascend
  <2>2. Top(s).id = ParentOf(db, id)  BY <1>3, <1>4, <1>5, <2>1 DEF ChainRight
  <2>3. Top(s).id \in Saved(db) /\ Top(s).full = db.truth[Top(s).id]
    BY <1>2, <1>4, <2>1, StackTop
  <2>4. Top(s).id # None  BY <1>2, <2>3, IdsSaved
  <2>5. db.truth[id] = FullOver(Top(s).full, db.diffs[id])
    BY <1>2, <1>6, <2>2, <2>3, <2>4, FullIsTruth
  <2>6. Built(c, id, Append(s, LayerOf(id, db.truth[id])))  BY <2>1, <2>5
  <2> QED BY <1>4, <1>7, <2>6
<1>9. CASE Descend(c)
  <2>1. \/ cache' = cache /\ Become(c, [o EXCEPT !.todo = Tail(@), !.stack = cache[id]])
        \/ up = None /\ Built(c, id, << LayerOf(id, FullOfRoot(db.diffs[id])) >>)
        \/ cache' = cache /\ Become(c, [o EXCEPT !.todo = << up >> \o @])
    BY <1>9 DEF Descend
  <2>2. CASE up = None /\ Built(c, id, << LayerOf(id, FullOfRoot(db.diffs[id])) >>)
    <3>1. db.truth[id] = FullOfRoot(db.diffs[id])
      BY <1>2, <1>6, <2>2, FullIsTruth DEF ParentOf
    <3>2. << LayerOf(id, db.truth[id]) >> = Append(<< >>, LayerOf(id, db.truth[id]))
      OBVIOUS
    <3>3. Built(c, id, Append(<< >>, LayerOf(id, db.truth[id])))  BY <2>2, <3>1, <3>2
    <3>4. << >> \in Seq(Layer)  OBVIOUS
    <3> QED BY <1>7, <3>3, <3>4
  <2>3. ASSUME NEW q, NEW s, cache' = cache, Become(c, [o EXCEPT !.todo = q, !.stack = s])
        PROVE  UNCHANGED Store!storeVars
    <3> DEFINE t == [o EXCEPT !.todo = q, !.stack = s]
    <3> HIDE DEF o
    <3>1. t.pc = o.pc /\ t.op = o.op /\ t.event = o.event /\ t.want = o.want  BY <1>2 DEF Proc
    <3>2. Become(c, t)  BY <2>3
    <3> HIDE DEF t
    <3>3. SameRequest(o, t)  BY <1>3, <3>1 DEF SameRequest
    <3> QED BY <1>2, <1>3, <2>3, <3>2, <3>3, QuietStep
  <2>4. ASSUME NEW q, cache' = cache, Become(c, [o EXCEPT !.todo = q])
        PROVE  UNCHANGED Store!storeVars
    <3> DEFINE t == [o EXCEPT !.todo = q]
    <3> HIDE DEF o
    <3>1. t.pc = o.pc /\ t.op = o.op /\ t.event = o.event /\ t.want = o.want  BY <1>2 DEF Proc
    <3>2. Become(c, t)  BY <2>4
    <3> HIDE DEF t
    <3>3. SameRequest(o, t)  BY <1>3, <3>1 DEF SameRequest
    <3> QED BY <1>2, <1>3, <2>4, <3>2, <3>3, QuietStep
  <2>5. [o EXCEPT !.todo = Tail(@), !.stack = cache[id]]
          = [o EXCEPT !.todo = Tail(o.todo), !.stack = cache[id]]
        /\ [o EXCEPT !.todo = << up >> \o @] = [o EXCEPT !.todo = << up >> \o o.todo]
    BY <1>2 DEF Proc
  <2> HIDE DEF id, up, o
  <2> QED BY <2>1, <2>2, <2>3, <2>4, <2>5
<1> QED BY <1>8, <1>9

(***************************************************************************)
(* A row is saved, and a task ends, with the state that was asked for.     *)
(***************************************************************************)
LEMMA ResultIs ==
    ASSUME NEW c \in Callers, NEW depth, NEW o \in Proc, ProcRight(db, o, depth),
           o.pc \in {"create", "finish"}, ~Message(o), asked[c] = AskedOf(o)
    PROVE  /\ Store!Result(asked[c]) = o.want /\ ~Store!IsMessage(asked[c])
           /\ asked[c] # << >> /\ asked[c][1] = o.op
<1>1. CASE o.op = "append"
  <2> DEFINE r == asked[c]
             S == TruthOf(db, db.room)
  <2>1. r # << >> /\ r[1] = "append" /\ r[2] = o.event  BY <1>1, AskedIs
  <2>2. o.want = WithEvent(S, o.event) /\ KeyOf[o.event] # NoKey
    BY <1>1 DEF ProcRight, Message
  <2>3. Store!Current = S  BY DEF Store!Current, TruthOf, None
  <2> HIDE DEF r, S
  <2>4. Store!InSlotOf(S, o.event) = WithEvent(S, o.event)
    BY DEF Store!InSlotOf, WithEvent, SameSlot
  <2>5. Store!Result(r) = o.want  BY <2>1, <2>2, <2>3, <2>4 DEF Store!Result
  <2>6. ~Store!IsMessage(r)  BY <2>1, <2>2 DEF Store!IsMessage
  <2> QED BY <1>1, <2>1, <2>5, <2>6 DEF r
<1>2. CASE o.op # "append"
  <2> DEFINE r == asked[c]
  <2>1. r # << >> /\ r[1] = o.op /\ r[2] = o.want  BY <1>2, AskedIs
  <2> HIDE DEF r
  <2>2. Store!Result(r) = o.want  BY <1>2, <2>1 DEF Store!Result
  <2>3. ~Store!IsMessage(r)  BY <1>2, <2>1 DEF Store!IsMessage
  <2> QED BY <2>1, <2>2, <2>3 DEF r
<1> QED BY <1>1, <1>2

LEMMA CreateSaves ==
    ASSUME IInv, NEW c \in Callers, Create(c)
    PROVE  Store!SaveFor(c)
<1>1. PICK depth \in Depths(db) : Right(depth)  BY DEF IInv
<1> DEFINE o == proc[c]
           id == db.count + 1
           i == IdleProc
           t == [i EXCEPT !.pc = "finish", !.op = o.op, !.event = o.event, !.want = o.want,
                          !.got = id]
<1>2. /\ TypeOK /\ o \in Proc /\ i \in Proc /\ DbTypeOK(db) /\ DbShape(db)
      /\ ProcRight(db, o, depth)
  BY <1>1, IdleIs DEF IInv, TypeOK, Right
<1>3. o.pc = "create" /\ cache' = cache /\ Become(c, t) /\ o = proc[c]  BY DEF Create, Done
<1>4. /\ db'.room = db.room /\ db'.truth = Put(db.truth, id, o.want)
      /\ db'.hash = IF o.op = "append" THEN db.hash ELSE Put(db.hash, o.want, id)
  <2> DEFINE h == IF o.op = "append" THEN db.hash ELSE Put(db.hash, o.want, id)
             f == Put(db.diffs, id, RowOf(o))
             g == Put(db.truth, id, o.want)
  <2>1. db' = [db EXCEPT !.count = id, !.diffs = f, !.hash = h, !.truth = g]
    BY <1>2 DEF Create, RowOf, DbShape
  <2> HIDE DEF h, f, g, id, o
  <2>2. db'.room = db.room /\ db'.truth = g /\ db'.hash = h  BY <1>2, <2>1 DEF DbShape
  <2> QED BY <2>2 DEF h, g
<1>5. ~Message(o) /\ o.want \in States /\ (o.op # "append" => o.want \notin DOMAIN db.hash)
  BY <1>2, <1>3 DEF ProcRight
<1>6. id = Len(db.truth) + 1 /\ db'.truth = Append(db.truth, o.want)
  <2>1. db.truth \in Seq(States) /\ Len(db.truth) = db.count  BY <1>2, SavedStates
  <2> QED BY <1>4, <1>5, <2>1, PutAppends
<1> HIDE DEF o, i
<1>7. t.pc = "finish" /\ t.op = o.op /\ t.event = o.event /\ t.want = o.want
  BY <1>2 DEF Proc
<1> HIDE DEF t, id
<1>8. SameRequest(o, t)  BY <1>3, <1>7 DEF SameRequest
<1>9. asked' = asked /\ asked[c] = AskedOf(o)  BY <1>2, <1>3, <1>8, RequestStays, AskedMoves
<1>10. /\ Store!Result(asked[c]) = o.want /\ ~Store!IsMessage(asked[c])
       /\ asked[c] # << >> /\ asked[c][1] = o.op
  BY <1>2, <1>3, <1>5, <1>9, ResultIs
<1>11. shown' = shown  BY <1>3 DEF shown
<1>12. o.op # "append" => db'.hash = Store!Entered(db.hash, o.want, id)
  BY <1>4 DEF Store!Entered, Put
<1> QED BY <1>4, <1>5, <1>6, <1>9, <1>10, <1>11, <1>12 DEF Store!SaveFor, Store!Nothing

LEMMA FinishReturns ==
    ASSUME IInv, NEW c \in Callers, Finish(c)
    PROVE  Store!Return(c)
<1>1. PICK depth \in Depths(db) : Right(depth)  BY DEF IInv
<1> DEFINE o == proc[c]
<1>2. /\ TypeOK /\ o \in Proc /\ DbTypeOK(db) /\ DbShape(db) /\ ProcRight(db, o, depth)
  BY <1>1 DEF IInv, TypeOK, Right
<1>3. o.pc = "finish" /\ cache' = cache /\ Become(c, IdleProc) /\ FinishRight(db, o)
  BY <1>2 DEF Finish, ProcRight
<1>4. \/ o.op \in {"append", "resolve", "loose"} /\ db' = [db EXCEPT !.room = o.got]
      \/ o.op \in {"event", "loose"} /\ db' = db
  BY DEF Finish, SetRoomState
<1> HIDE DEF o
<1>5. /\ db'.truth = db.truth /\ db'.hash = db.hash
      /\ \/ o.op \in {"append", "resolve", "loose"} /\ db'.room = o.got
         \/ o.op \in {"event", "loose"} /\ db'.room = db.room
  BY <1>2, <1>4 DEF DbShape
<1>6. asked' = [asked EXCEPT ![c] = << >>] /\ asked[c] = AskedOf(o)
  <2>1. AskedOf(IdleProc) = << >>  BY IdleIs, AskedIs
  <2> QED BY <1>2, <1>3, <2>1, AskedMoves DEF o
<1>7. shown' = shown  BY <1>3 DEF shown
<1>8. CASE Message(o)
  <2>1. o.op = "append" /\ KeyOf[o.event] = NoKey /\ o.got = db.room
    BY <1>3, <1>8 DEF Message, FinishRight
  <2>2. asked[c] # << >> /\ asked[c][1] = "append" /\ asked[c][2] = o.event
    BY <1>3, <1>6, <2>1, AskedIs
  <2>3. Store!IsMessage(asked[c])  BY <2>1, <2>2 DEF Store!IsMessage
  <2>4. db'.room = db.room  BY <1>5, <2>1
  <2> QED BY <1>5, <1>6, <1>7, <2>2, <2>3, <2>4 DEF Store!Return, Store!Nothing
<1>9. CASE ~Message(o)
  <2>1. /\ Store!Result(asked[c]) = o.want /\ ~Store!IsMessage(asked[c])
        /\ asked[c] # << >> /\ asked[c][1] = o.op
    BY <1>2, <1>3, <1>6, <1>9, ResultIs
  <2>2. o.got \in Saved(db) /\ db.truth[o.got] = o.want  BY <1>3, <1>9 DEF FinishRight
  <2>3. o.got \in Store!IdsOf(o.want)
    BY <1>2, <2>2, SavedStates DEF Store!IdsOf
  <2> QED BY <1>5, <1>6, <1>7, <2>1, <2>3 DEF Store!Return, Store!Nothing
<1> QED BY <1>8, <1>9

LEMMA EvictForgets ==
    ASSUME IInv, NEW id \in Ids, Evict(id)
    PROVE  Store!Forget(id) /\ id \in 1 .. Len(db.truth)
<1>1. PICK depth \in Depths(db) : Right(depth)  BY DEF IInv
<1>2. /\ id \in DOMAIN cache /\ cache' = [x \in DOMAIN cache \ {id} |-> cache[x]]
      /\ UNCHANGED <<db, proc>>
  BY DEF Evict, Restrict
<1>3. id \in 1 .. Len(db.truth)
  <2>1. DbTypeOK(db) /\ id \in Saved(db)  BY <1>1, <1>2 DEF IInv, TypeOK, Right, CacheRight
  <2> QED BY <2>1, SavedStates
<1>4. asked' = asked  BY <1>2 DEF asked
<1>5. shown' = [x \in DOMAIN shown \ {id} |-> shown[x]]
  <2>1. shown' = [x \in DOMAIN cache' |-> Top(cache'[x]).full]  BY DEF shown
  <2>2. shown = [x \in DOMAIN cache |-> Top(cache[x]).full]  BY DEF shown
  <2> QED BY <1>2, <2>1, <2>2
<1> QED BY <1>2, <1>3, <1>4, <1>5 DEF Store!Forget

LEMMA NothingAsked ==
    ASSUME cache = << >>, proc = [c \in Callers |-> IdleProc]
    PROVE  shown = << >> /\ asked = [c \in Callers |-> << >>]
<1>1. AskedOf(IdleProc) = << >>  BY IdleIs, AskedIs
<1>2. asked = [c \in Callers |-> << >>]  BY <1>1 DEF asked
<1>3. DOMAIN cache = {}  OBVIOUS
<1>4. shown = << >>  BY <1>3 DEF shown
<1> QED BY <1>2, <1>4

LEMMA CrashForgets ==
    ASSUME Crash
    PROVE  Store!LoseMemory
<1>1. cache' = << >> /\ proc' = [c \in Callers |-> IdleProc] /\ UNCHANGED db  BY DEF Crash
<1>2. AskedOf(IdleProc) = << >>  BY IdleIs, AskedIs
<1>3. asked' = [c \in Callers |-> << >>]  BY <1>1, <1>2 DEF asked
<1>4. DOMAIN cache' = {}  BY <1>1
<1>5. shown' = << >>  BY <1>4 DEF shown
<1> QED BY <1>1, <1>3, <1>5 DEF Store!LoseMemory, Store!Nothing

LEMMA StoreStarts == Init => Store!StoreInit
<1> SUFFICES ASSUME Init PROVE Store!StoreInit  OBVIOUS
<1>1. db = EmptyDb /\ cache = << >> /\ proc = [c \in Callers |-> IdleProc]  BY DEF Init
<1>2. db.truth = << >> /\ db.hash = << >> /\ db.room = 0  BY <1>1 DEF EmptyDb, None
<1> QED BY <1>1, <1>2, NothingAsked DEF Store!StoreInit, Store!Nothing

LEMMA StoreSteps == IInv /\ [Next]_vars => [Store!StoreNext]_(Store!storeVars)
<1> SUFFICES ASSUME IInv, [Next]_vars PROVE [Store!StoreNext]_(Store!storeVars)  OBVIOUS
<1>1. CASE UNCHANGED vars
  <2>1. UNCHANGED <<db, cache, proc>>  BY <1>1 DEF vars
  <2>2. asked' = asked /\ shown' = shown  BY <2>1 DEF asked, shown
  <2> QED BY <2>1, <2>2 DEF Store!storeVars
<1>2. ASSUME NEW c \in Callers, Step(c)
      PROVE  Store!StoreNext \/ UNCHANGED Store!storeVars
  <2>1. \/ Store!Request(c) \/ Store!SaveFor(c) \/ Store!Return(c) \/ Store!GiveUp(c)
        \/ \E id \in 1 .. Len(db.truth) : Store!Show(id)
        \/ UNCHANGED Store!storeVars
    BY <1>2, BeginRequests, ReadsQuiet, LoadShows, GivesUp, CreateSaves, FinishReturns,
       FailureGivesUp DEF Step
  <2> QED BY <2>1 DEF Store!StoreNext
<1>3. ASSUME NEW id \in Ids, Evict(id)
      PROVE  Store!StoreNext
  BY <1>3, EvictForgets DEF Store!StoreNext
<1>4. CASE Crash  BY <1>4, CrashForgets DEF Store!StoreNext
<1> QED BY <1>1, <1>2, <1>3, <1>4 DEF Next

(***************************************************************************)
(* The storage of room states implements the abstract store: a request of  *)
(* several reads, a merge, a lock and a transaction, interleaved with      *)
(* those of other tasks and cut short by crashes, takes effect on the      *)
(* state the room has when it ends, and no reader is shown any other state *)
(* than the one that was saved.                                            *)
(***************************************************************************)
THEOREM RoomStateImplementsStore == Spec => ImplementsStore
BY StoreStarts, StoreSteps, RoomStateInvariant, PTL DEF Spec, ImplementsStore, Store!StoreSpec
=============================================================================
