--------------------------- MODULE Inbound_proofs ---------------------------
(***************************************************************************)
(* Proofs about events entering a room, for any events, requests and       *)
(* limits.                                                                 *)
(***************************************************************************)
EXTENDS Inbound, TLAPS

StateScope == {"refer", "clear", "put", "soft", "insert", "write", "unlock"}
InsertScope == {"write", "prewrite"}
Unsettled == {"wait", "refer", "clear", "put", "insert", "write", "prepend", "prewrite"}

(***************************************************************************)
(* A request of each kind does what its kind does; one that handles a      *)
(* transaction or a backfill holds the federation mutex, one that joins    *)
(* locally the state mutex.                                                *)
(***************************************************************************)
RequestsRight ==
    \A r \in Requests :
        /\ r \in Builders => request[r].pc \in {"idle", "build"}
        /\ r \in Unlocked => request[r].pc \in {"idle", "join", "handle", "prevs"}
        /\ request[r].pc = "build" => r \in Builders /\ request[r].event = Built[r]
        /\ request[r].pc \notin {"idle", "build"} => request[r].event \in Remote
        /\ request[r].left \subseteq Remote
        /\ r \in Handlers /\ request[r].pc # "idle" => fed = r
        /\ request[r].pc = "join" => st = <<r, request[r].event>>

(***************************************************************************)
(* A task belongs to its request: the event itself, once no ancestor is    *)
(* left, or an ancestor that is left.                                      *)
(***************************************************************************)
Active(r, e) ==
    \/ request[r].pc = "prevs" /\ (e \in request[r].left \/ (e = request[r].event /\ request[r].left = {}))
    \/ request[r].pc \in {"build", "prepend"} /\ e = request[r].event

TasksActive ==
    \A r \in Requests, e \in Events :
        /\ task[r][e].pc # "none" => Active(r, e)
        /\ task[r][e].pc \in {"check", "wait"} => e \in Remote
        /\ task[r][e].pc = "wait" => task[r][e].prev = PrevOf[e]

(***************************************************************************)
(* The scopes of the state mutex and of the insertion mutex; whoever holds *)
(* the latter has the room's current bounds.                               *)
(***************************************************************************)
StateHeld == \A r \in Requests, e \in Events : task[r][e].pc \in StateScope => st = <<r, e>>

InsertHeld ==
    \A r \in Requests, e \in Events :
        task[r][e].pc \in InsertScope => ins = <<r, e>> /\ task[r][e].bounds = db.bounds

NumbersInv == NumberedOnce /\ db.bounds.low <= 0 /\ 1 <= db.bounds.last

(***************************************************************************)
(* What a task under the state mutex knows of the leaves.                  *)
(***************************************************************************)
Live == {x \in Events : \E row \in db.rows : row.event = x /\ row.r_seq > 0}
Given == db.referenced \cup lost

LeavesInv ==
    \A r \in Requests, e \in Events :
        LET t == task[r][e] IN
        /\ t.pc \in StateScope /\ ~t.soft => e \in t.leafs
        /\ t.pc = "put" => t.leafs # {} /\ Live \subseteq Given \cup t.leafs
        /\ t.pc \in {"insert", "write", "unlock"} => e \in db.band
        /\ t.pc = "refer" => db.band \subseteq Given \cup t.prev \cup t.leafs
        /\ t.pc = "clear" => db.band \subseteq Given \cup t.leafs

Putting == \E r \in Requests, e \in Events : task[r][e].pc = "put"
BandInv == ~Putting => (db.band = {} => torn) /\ Live \subseteq Given \cup db.band

(***************************************************************************)
(* Under the federation mutex, or for an event of its own, a task that has *)
(* found its event absent still does.                                      *)
(***************************************************************************)
StoredHere(e) == \E row \in db.rows : row.event = e /\ row.by \notin Unlocked
OnceInv ==
    /\ SerializedOnce
    /\ \A r \in Requests \ Unlocked, e \in Events :
          task[r][e].pc \in Unsettled => ~StoredHere(e)

IInv ==
    /\ TypeOK /\ RequestsRight /\ TasksActive /\ StateHeld /\ InsertHeld
    /\ NumbersInv /\ LeavesInv /\ BandInv /\ OnceInv

-----------------------------------------------------------------------------
(***************************************************************************)
(* Types.                                                                  *)
(***************************************************************************)
LEMMA PrunedWithin ==
    ASSUME NEW X \in SUBSET Events, NEW n, NEW L \in Pruned(X, n)
    PROVE  L \in SUBSET X
<1>1. ASSUME NEW g, NEW M \in Survivors(X, g) PROVE M \in SUBSET X
  BY <1>1 DEF Survivors
<1> QED BY <1>1 DEF Pruned

LEMMA ConstantTypes ==
    /\ Root \in Events /\ Remote \subseteq Events
    /\ \A b \in Builders : b \in Requests /\ Built[b] \in Events /\ Built[b] \notin Remote
    /\ \A j \in Unlocked : j \in Requests /\ Signed[j] \in Remote
    /\ \A e \in Remote : PrevOf[e] \in SUBSET Events
    /\ Handlers \subseteq Requests
BY InboundAssumption DEF Events, Requests, Own

LEMMA InitTypes == Init => TypeOK
<1> SUFFICES ASSUME Init PROVE TypeOK
  OBVIOUS
<1>1. IdleRequest \in Request /\ NoTask \in Task
  BY ConstantTypes DEF IdleRequest, NoTask, Request, Task, Bounds
<1>2. db \in [rows: SUBSET Row, bounds: Bounds, band: SUBSET Events, referenced: SUBSET Events]
  BY ConstantTypes DEF Init, Db0, Row, Bounds
<1> QED BY <1>1, <1>2 DEF Init, TypeOK

(***************************************************************************)
(* One task, or one request, is set and the others stay.                   *)
(***************************************************************************)
LEMMA TaskSet ==
    ASSUME TypeOK, NEW r \in Requests, NEW e \in Events, NEW t \in Task, SetTask(r, e, t)
    PROVE  /\ task' \in [Requests -> [Events -> Task]]
           /\ task'[r][e] = t
           /\ \A q \in Requests, f \in Events : q # r \/ f # e => task'[q][f] = task[q][f]
BY DEF TypeOK, SetTask

Pcs == {"none", "check", "wait", "refer", "clear", "put", "soft", "insert", "write",
        "unlock", "prepend", "prewrite"}

LEMMA TaskMoved ==
    ASSUME NEW o \in Task, NEW pc \in Pcs, NEW t, t = [o EXCEPT !.pc = pc]
    PROVE  /\ t \in Task /\ t.pc = pc /\ t.prev = o.prev /\ t.leafs = o.leafs
           /\ t.soft = o.soft /\ t.bounds = o.bounds
BY DEF Task, Pcs

LEMMA RequestSet ==
    ASSUME TypeOK, NEW r \in Requests, NEW t \in Request, SetRequest(r, t)
    PROVE  /\ request' \in [Requests -> Request]
           /\ request'[r] = t
           /\ \A q \in Requests : q # r => request'[q] = request[q]
BY DEF TypeOK, SetRequest

LEMMA Blanks == IdleRequest \in Request /\ NoTask \in Task
BY ConstantTypes DEF IdleRequest, NoTask, Request, Task, Bounds

(***************************************************************************)
(* How a task ends.                                                        *)
(***************************************************************************)
LEMMA EndTaskDoes ==
    ASSUME TypeOK, RequestsRight, TasksActive, NEW r \in Requests, NEW e \in Events,
           task[r][e].pc # "none", EndTask(r, e), st' = st \/ st = <<r, e>>
    PROVE  /\ request' \in [Requests -> Request] /\ task' \in [Requests -> [Events -> Task]]
           /\ fed' \in Handlers \cup {None}
           /\ task'[r][e] = NoTask
           /\ \A q \in Requests, f \in Events : q # r \/ f # e => task'[q][f] = task[q][f]
           /\ RequestsRight' /\ TasksActive'
<1>1. /\ task' \in [Requests -> [Events -> Task]]
      /\ task'[r][e] = NoTask
      /\ \A q \in Requests, f \in Events : q # r \/ f # e => task'[q][f] = task[q][f]
  BY Blanks, TaskSet DEF EndTask
<1>2. NoTask.pc = "none"  BY DEF NoTask
<1>3. Active(r, e)  BY DEF TasksActive
<1>4. \A q \in Requests : request[q].pc = "join" => q # r
  BY <1>3 DEF Active
<1>5. \A q \in Requests : request[q].pc = "join" => st' = <<q, request[q].event>>
  BY <1>4 DEF RequestsRight
<1>6. CASE request[r].pc = "prevs" /\ e \in request[r].left
  <2> DEFINE t == [request[r] EXCEPT !.left = @ \ {e}]
  <2>1. t \in Request /\ t.pc = "prevs" /\ t.event = request[r].event /\ t.left = request[r].left \ {e}
    BY <1>6 DEF TypeOK, Request
  <2>2. SetRequest(r, t) /\ fed' = fed  BY <1>6 DEF EndTask
  <2> HIDE DEF t
  <2>3. /\ request' \in [Requests -> Request] /\ request'[r] = t
        /\ \A q \in Requests : q # r => request'[q] = request[q]
    BY <2>1, <2>2, RequestSet
  <2>4. RequestsRight'
    BY <1>5, <1>6, <2>1, <2>2, <2>3 DEF RequestsRight
  <2>5. TasksActive'
    BY <1>1, <1>2, <1>6, <2>1, <2>3 DEF TasksActive, Active
  <2> QED BY <1>1, <2>2, <2>3, <2>4, <2>5 DEF TypeOK
<1>7. CASE ~(request[r].pc = "prevs" /\ e \in request[r].left)
  <2>1. SetRequest(r, IdleRequest) /\ fed' = IF fed = r THEN None ELSE fed
    BY <1>7 DEF EndTask, EndRequest
  <2>2. /\ request' \in [Requests -> Request] /\ request'[r] = IdleRequest
        /\ \A q \in Requests : q # r => request'[q] = request[q]
    BY <2>1, Blanks, RequestSet
  <2>3. \A f \in Events : task[r][f].pc # "none" => f = e
    BY <1>3, <1>7 DEF TasksActive, Active
  <2>4. IdleRequest.pc = "idle" /\ IdleRequest.left = {}  BY DEF IdleRequest
  <2>5. RequestsRight'
    BY <1>5, <2>1, <2>2, <2>4 DEF RequestsRight
  <2>6. TasksActive'
    BY <1>1, <1>2, <2>2, <2>3, <2>4 DEF TasksActive, Active
  <2> QED BY <1>1, <2>1, <2>2, <2>5, <2>6 DEF TypeOK
<1> QED BY <1>6, <1>7

-----------------------------------------------------------------------------
(***************************************************************************)
(* A step outside the scopes of the state and insertion mutexes: the       *)
(* tables stay, and a task that begins to count on its event being absent  *)
(* has just found it so.                                                   *)
(***************************************************************************)
Early == {"none", "check", "wait", "prepend"}

LEMMA QuietKeeps ==
    ASSUME IInv, UNCHANGED <<db, ins, lost, torn>>,
           TypeOK', RequestsRight', TasksActive',
           st' = st \/ \A q \in Requests, f \in Events : task[q][f].pc \notin StateScope,
           \A q \in Requests, f \in Events :
               \/ task'[q][f] = task[q][f]
               \/ /\ task[q][f].pc \in Early /\ task'[q][f].pc \in Early
                  /\ task'[q][f].pc \in {"wait", "prepend"} => ~Stored(f)
    PROVE  IInv'
<1> DEFINE Moved(q, f) == /\ task[q][f].pc \in Early /\ task'[q][f].pc \in Early
                          /\ task'[q][f].pc \in {"wait", "prepend"} => ~Stored(f)
<1>1. \A q \in Requests, f \in Events : task'[q][f] = task[q][f] \/ Moved(q, f)
  OBVIOUS
<1>2. StateHeld'
  BY <1>1 DEF IInv, StateHeld, StateScope, Early
<1>3. InsertHeld'
  BY <1>1 DEF IInv, InsertHeld, InsertScope, Early
<1>4. NumbersInv'
  BY DEF IInv, NumbersInv, NumberedOnce
<1>5. LeavesInv'
  BY <1>1 DEF IInv, LeavesInv, StateScope, Early, Live, Given
<1>6. Putting' <=> Putting
  BY <1>1 DEF Putting, Early
<1>7. BandInv'
  BY <1>6 DEF IInv, BandInv, Live, Given
<1>8. OnceInv'
  <2>1. SerializedOnce'  BY DEF IInv, OnceInv, SerializedOnce
  <2>2. ASSUME NEW q \in Requests \ Unlocked, NEW f \in Events, task'[q][f].pc \in Unsettled
        PROVE  ~StoredHere(f)
    BY <1>1, <2>2 DEF IInv, OnceInv, Unsettled, Early, Stored, StoredHere
  <2>3. \A f : StoredHere(f)' <=> StoredHere(f)  BY DEF StoredHere
  <2> QED BY <2>1, <2>2, <2>3 DEF OnceInv
<1> QED BY <1>2, <1>3, <1>4, <1>5, <1>7, <1>8 DEF IInv

LEMMA EndTaskEarlyKeeps ==
    ASSUME IInv, NEW r \in Requests, NEW e \in Events, EndTask(r, e),
           task[r][e].pc # "none", task[r][e].pc \in Early,
           UNCHANGED <<db, st, ins, lost, torn>>
    PROVE  IInv'
<1>1. TypeOK /\ RequestsRight /\ TasksActive  BY DEF IInv
<1>2. /\ request' \in [Requests -> Request] /\ task' \in [Requests -> [Events -> Task]]
      /\ fed' \in Handlers \cup {None}
      /\ task'[r][e] = NoTask
      /\ \A q \in Requests, f \in Events : q # r \/ f # e => task'[q][f] = task[q][f]
      /\ RequestsRight' /\ TasksActive'
  BY <1>1, EndTaskDoes
<1>3. TypeOK'  BY <1>1, <1>2 DEF TypeOK
<1>4. NoTask.pc = "none"  BY DEF NoTask
<1>5. \A q \in Requests, f \in Events :
        \/ task'[q][f] = task[q][f]
        \/ /\ task[q][f].pc \in Early /\ task'[q][f].pc \in Early
           /\ task'[q][f].pc \in {"wait", "prepend"} => ~Stored(f)
  BY <1>2, <1>4 DEF Early
<1> QED BY <1>2, <1>3, <1>5, QuietKeeps

(***************************************************************************)
(* Requests that begin.                                                    *)
(***************************************************************************)
LEMMA DeliverKeeps ==
    ASSUME IInv, NEW r \in Handlers, NEW e \in Remote, NEW pc \in {"handle", "outlier"},
           Deliver(r, e, pc)
    PROVE  IInv'
<1> DEFINE t == [IdleRequest EXCEPT !.pc = pc, !.event = e]
<1>0. r \in Requests /\ e \in Events  BY ConstantTypes
<1>1. t \in Request /\ t.pc = pc /\ t.event = e /\ t.left = {}
  BY <1>0, Blanks DEF IdleRequest, Request
<1>2. /\ request[r].pc = "idle" /\ fed = None /\ fed' = r /\ SetRequest(r, t)
      /\ UNCHANGED <<db, st, ins, task, lost, torn>>
  BY DEF Deliver, FederationMutexFree, Ghosts
<1>3. TypeOK  BY DEF IInv
<1> HIDE DEF t
<1>4. /\ request' \in [Requests -> Request] /\ request'[r] = t
      /\ \A q \in Requests : q # r => request'[q] = request[q]
  BY <1>0, <1>1, <1>2, <1>3, RequestSet
<1>5. TypeOK'  BY <1>2, <1>3, <1>4 DEF TypeOK
<1>6. RequestsRight'
  <2>1. \A q \in Handlers : request[q].pc = "idle"
    BY ConstantTypes, InboundAssumption, <1>2 DEF IInv, RequestsRight
  <2> QED BY InboundAssumption, <1>1, <1>2, <1>4, <2>1 DEF IInv, RequestsRight
<1>7. TasksActive'
  <2>1. \A f \in Events : task[r][f].pc = "none"  BY <1>0, <1>2 DEF IInv, TasksActive, Active
  <2> QED BY <1>2, <1>4, <2>1 DEF IInv, TasksActive, Active
<1> QED BY <1>2, <1>5, <1>6, <1>7, QuietKeeps

LEMMA JoinLocallyKeeps ==
    ASSUME IInv, NEW r \in Unlocked, JoinLocally(r)
    PROVE  IInv'
<1> DEFINE t == [IdleRequest EXCEPT !.pc = "join", !.event = Signed[r]]
<1>0. r \in Requests /\ Signed[r] \in Events /\ Signed[r] \in Remote  BY ConstantTypes
<1>1. t \in Request /\ t.pc = "join" /\ t.event = Signed[r] /\ t.left = {}
  BY <1>0, Blanks DEF IdleRequest, Request
<1>2. /\ request[r].pc = "idle" /\ st = None /\ st' = <<r, Signed[r]>> /\ SetRequest(r, t)
      /\ UNCHANGED <<db, fed, ins, task, lost, torn>>
  BY DEF JoinLocally, Ghosts
<1>3. TypeOK  BY DEF IInv
<1> HIDE DEF t
<1>4. /\ request' \in [Requests -> Request] /\ request'[r] = t
      /\ \A q \in Requests : q # r => request'[q] = request[q]
  BY <1>0, <1>1, <1>2, <1>3, RequestSet
<1>5. TypeOK'  BY <1>0, <1>2, <1>3, <1>4 DEF TypeOK
<1>6. \A q \in Requests, f \in Events : <<q, f>> # None
  BY InboundAssumption
<1>7. RequestsRight'
  <2>1. \A q \in Requests : request[q].pc # "join"
    BY <1>2, <1>3, <1>6 DEF IInv, RequestsRight, TypeOK, Request
  <2> QED BY InboundAssumption, <1>0, <1>1, <1>2, <1>4, <2>1 DEF IInv, RequestsRight
<1>8. TasksActive'
  <2>1. \A f \in Events : task[r][f].pc = "none"  BY <1>0, <1>2 DEF IInv, TasksActive, Active
  <2> QED BY <1>2, <1>4, <2>1 DEF IInv, TasksActive, Active
<1>9. \A q \in Requests, f \in Events : task[q][f].pc \notin StateScope
  BY <1>2, <1>6 DEF IInv, StateHeld
<1> QED BY <1>2, <1>5, <1>7, <1>8, <1>9, QuietKeeps

(***************************************************************************)
(* Requests that go on.                                                    *)
(***************************************************************************)
LEMMA FallBackKeeps ==
    ASSUME IInv, NEW r \in Requests, FallBack(r)
    PROVE  IInv'
<1> DEFINE t == [request[r] EXCEPT !.pc = "handle"]
<1>1. TypeOK  BY DEF IInv
<1>2. t \in Request /\ t.pc = "handle" /\ t.event = request[r].event /\ t.left = request[r].left
  BY <1>1 DEF TypeOK, Request
<1>3. /\ request[r].pc = "join" /\ st' = None /\ SetRequest(r, t)
      /\ UNCHANGED <<db, fed, ins, task, lost, torn>>
  BY DEF FallBack
<1> HIDE DEF t
<1>4. /\ request' \in [Requests -> Request] /\ request'[r] = t
      /\ \A q \in Requests : q # r => request'[q] = request[q]
  BY <1>1, <1>2, <1>3, RequestSet
<1>5. TypeOK'  BY <1>1, <1>3, <1>4 DEF TypeOK
<1>6. st = <<r, request[r].event>>  BY <1>3 DEF IInv, RequestsRight
<1>7. RequestsRight'
  BY <1>2, <1>3, <1>4, <1>6 DEF IInv, RequestsRight
<1>8. \A f \in Events : task[r][f].pc = "none"  BY <1>3 DEF IInv, TasksActive, Active
<1>9. TasksActive'
  BY <1>3, <1>4, <1>8 DEF IInv, TasksActive, Active
<1>10. \A q \in Requests, f \in Events : task[q][f].pc \notin StateScope
  BY <1>6, <1>8 DEF IInv, StateHeld, StateScope
<1> QED BY <1>3, <1>5, <1>7, <1>9, <1>10, QuietKeeps

LEMMA EndRequestKeeps ==
    ASSUME IInv, NEW r \in Requests, EndRequest(r), request[r].pc \in {"handle", "outlier"},
           UNCHANGED <<db, st, ins, task, lost, torn>>
    PROVE  IInv'
<1>1. TypeOK  BY DEF IInv
<1>2. SetRequest(r, IdleRequest) /\ fed' = IF fed = r THEN None ELSE fed
  BY DEF EndRequest
<1>3. /\ request' \in [Requests -> Request] /\ request'[r] = IdleRequest
      /\ \A q \in Requests : q # r => request'[q] = request[q]
  BY <1>1, <1>2, Blanks, RequestSet
<1>4. IdleRequest.pc = "idle" /\ IdleRequest.left = {}  BY DEF IdleRequest
<1>5. TypeOK'  BY <1>1, <1>2, <1>3 DEF TypeOK
<1>6. RequestsRight'
  BY <1>2, <1>3, <1>4 DEF IInv, RequestsRight
<1>7. TasksActive'
  BY <1>3, <1>4 DEF IInv, TasksActive, Active
<1> QED BY <1>5, <1>6, <1>7, QuietKeeps

LEMMA HandleKeeps ==
    ASSUME IInv, NEW r \in Requests, Handle(r)
    PROVE  IInv'
<1>1. TypeOK  BY DEF IInv
<1>2. request[r].pc = "handle" /\ UNCHANGED <<db, st, ins, task, lost, torn>>
  BY DEF Handle
<1>3. CASE EndRequest(r)  BY <1>2, <1>3, EndRequestKeeps
<1>4. ASSUME NEW F \in SUBSET Missing(request[r].event),
             SetRequest(r, [request[r] EXCEPT !.pc = "prevs", !.left = F]), fed' = fed
      PROVE  IInv'
  <2> DEFINE t == [request[r] EXCEPT !.pc = "prevs", !.left = F]
  <2>0. F \subseteq Remote /\ F \subseteq Events
    BY ConstantTypes DEF Missing, Ancestors
  <2>1. t \in Request /\ t.pc = "prevs" /\ t.event = request[r].event /\ t.left = F
    BY <1>1, <2>0 DEF TypeOK, Request
  <2>2. SetRequest(r, t)  BY <1>4
  <2> HIDE DEF t
  <2>3. /\ request' \in [Requests -> Request] /\ request'[r] = t
        /\ \A q \in Requests : q # r => request'[q] = request[q]
    BY <1>1, <2>1, <2>2, RequestSet
  <2>4. TypeOK'  BY <1>1, <1>2, <1>4, <2>3 DEF TypeOK
  <2>5. RequestsRight'
    BY <1>2, <1>4, <2>0, <2>1, <2>3 DEF IInv, RequestsRight
  <2>6. TasksActive'
    <3>1. \A f \in Events : task[r][f].pc = "none"  BY <1>2 DEF IInv, TasksActive, Active
    <3> QED BY <1>2, <2>3, <3>1 DEF IInv, TasksActive, Active
  <2> QED BY <1>2, <2>4, <2>5, <2>6, QuietKeeps
<1> QED BY <1>3, <1>4 DEF Handle

LEMMA UpgradeKeeps ==
    ASSUME IInv, NEW r \in Requests, NEW e \in Events, Upgrade(r, e)
    PROVE  IInv'
<1> DEFINE t == [NoTask EXCEPT !.pc = "check"]
<1>1. TypeOK  BY DEF IInv
<1>2. t \in Task /\ t.pc = "check"  BY Blanks DEF NoTask, Task
<1>3. /\ request[r].pc = "prevs" /\ CanStart(r, e) /\ task[r][e].pc = "none" /\ SetTask(r, e, t)
      /\ UNCHANGED <<db, fed, st, ins, request, lost, torn>>
  BY DEF Upgrade, Locks, Ghosts
<1> HIDE DEF t
<1>4. /\ task' \in [Requests -> [Events -> Task]] /\ task'[r][e] = t
      /\ \A q \in Requests, f \in Events : q # r \/ f # e => task'[q][f] = task[q][f]
  BY <1>1, <1>2, <1>3, TaskSet
<1>5. TypeOK'  BY <1>1, <1>3, <1>4 DEF TypeOK
<1>6. RequestsRight'  BY <1>3 DEF IInv, RequestsRight
<1>7. Active(r, e) /\ e \in Remote
  BY <1>3 DEF CanStart, Active, IInv, RequestsRight
<1>8. TasksActive'
  BY <1>2, <1>3, <1>4, <1>7 DEF IInv, TasksActive, Active
<1>9. \A q \in Requests, f \in Events :
        \/ task'[q][f] = task[q][f]
        \/ /\ task[q][f].pc \in Early /\ task'[q][f].pc \in Early
           /\ task'[q][f].pc \in {"wait", "prepend"} => ~Stored(f)
  BY <1>2, <1>3, <1>4 DEF Early
<1> QED BY <1>3, <1>5, <1>6, <1>8, <1>9, QuietKeeps

LEMMA CheckExistsKeeps ==
    ASSUME IInv, NEW r \in Requests, NEW e \in Events, CheckExists(r, e)
    PROVE  IInv'
<1>1. TypeOK /\ RequestsRight /\ TasksActive  BY DEF IInv
<1>2. task[r][e].pc = "check" /\ UNCHANGED <<db, st, ins, lost, torn>>
  BY DEF CheckExists, Ghosts
<1>3. CASE EndTask(r, e)
  BY <1>1, <1>2, <1>3, EndTaskEarlyKeeps DEF Early
<1>4. CASE /\ ~Stored(e)
           /\ SetTask(r, e, [NoTask EXCEPT !.pc = "wait", !.prev = PrevOf[e]])
           /\ UNCHANGED <<fed, request>>
  <2> DEFINE t == [NoTask EXCEPT !.pc = "wait", !.prev = PrevOf[e]]
  <2>1. e \in Remote /\ Active(r, e)  BY <1>1, <1>2 DEF TasksActive
  <2>2. t \in Task /\ t.pc = "wait" /\ t.prev = PrevOf[e]
    BY <2>1, Blanks, ConstantTypes DEF NoTask, Task
  <2>3. SetTask(r, e, t)  BY <1>4
  <2> HIDE DEF t
  <2>4. /\ task' \in [Requests -> [Events -> Task]] /\ task'[r][e] = t
        /\ \A q \in Requests, f \in Events : q # r \/ f # e => task'[q][f] = task[q][f]
    BY <1>1, <2>2, <2>3, TaskSet
  <2>5. TypeOK'  BY <1>1, <1>2, <1>4, <2>4 DEF TypeOK
  <2>6. RequestsRight'  BY <1>1, <1>2, <1>4 DEF RequestsRight
  <2>7. TasksActive'
    BY <1>1, <1>4, <2>1, <2>2, <2>4 DEF TasksActive, Active
  <2>8. \A q \in Requests, f \in Events :
          \/ task'[q][f] = task[q][f]
          \/ /\ task[q][f].pc \in Early /\ task'[q][f].pc \in Early
             /\ task'[q][f].pc \in {"wait", "prepend"} => ~Stored(f)
    BY <1>2, <1>4, <2>2, <2>4 DEF Early
  <2> QED BY <1>2, <2>5, <2>6, <2>7, <2>8, QuietKeeps
<1> QED BY <1>3, <1>4 DEF CheckExists

LEMMA BackfillKeeps ==
    ASSUME IInv, NEW r \in Requests, Backfill(r)
    PROVE  IInv'
<1> DEFINE e == request[r].event
           t == [NoTask EXCEPT !.pc = "prepend"]
           p == [request[r] EXCEPT !.pc = "prepend"]
<1>1. TypeOK /\ RequestsRight /\ TasksActive  BY DEF IInv
<1>2. request[r].pc = "outlier" /\ UNCHANGED <<db, st, ins, lost, torn>>
  BY DEF Backfill, Ghosts
<1>3. CASE EndRequest(r) /\ UNCHANGED task  BY <1>2, <1>3, EndRequestKeeps
<1>4. CASE ~Stored(e) /\ SetTask(r, e, t) /\ SetRequest(r, p) /\ UNCHANGED fed
  <2>1. e \in Events /\ e \in Remote
    BY <1>1, <1>2 DEF TypeOK, Request, RequestsRight
  <2>2. t \in Task /\ t.pc = "prepend"
    BY Blanks DEF NoTask, Task
  <2>3. p \in Request /\ p.pc = "prepend" /\ p.event = e /\ p.left = request[r].left
    BY <1>1 DEF TypeOK, Request
  <2>4. \A f \in Events : task[r][f].pc = "none"
    BY <1>1, <1>2 DEF TasksActive, Active
  <2> HIDE DEF t, p, e
  <2>5. /\ task' \in [Requests -> [Events -> Task]] /\ task'[r][e] = t
        /\ \A q \in Requests, f \in Events : q # r \/ f # e => task'[q][f] = task[q][f]
    BY <1>1, <1>4, <2>1, <2>2, TaskSet
  <2>6. /\ request' \in [Requests -> Request] /\ request'[r] = p
        /\ \A q \in Requests : q # r => request'[q] = request[q]
    BY <1>1, <1>4, <2>3, RequestSet
  <2>7. TypeOK'  BY <1>1, <1>2, <1>4, <2>5, <2>6 DEF TypeOK
  <2>8. RequestsRight'
    <3>1. ~(r \in Unlocked) /\ ~(r \in Builders)  BY <1>1, <1>2 DEF RequestsRight
    <3> QED BY <1>1, <1>2, <1>4, <2>1, <2>3, <2>6, <3>1 DEF RequestsRight
  <2>9. TasksActive'
    BY <1>1, <2>1, <2>2, <2>3, <2>4, <2>5, <2>6 DEF TasksActive, Active
  <2>10. \A q \in Requests, f \in Events :
          \/ task'[q][f] = task[q][f]
          \/ /\ task[q][f].pc \in Early /\ task'[q][f].pc \in Early
             /\ task'[q][f].pc \in {"wait", "prepend"} => ~Stored(f)
    BY <1>4, <2>1, <2>2, <2>4, <2>5 DEF Early
  <2> QED BY <1>2, <2>7, <2>8, <2>9, <2>10, QuietKeeps
<1> QED BY <1>3, <1>4 DEF Backfill

-----------------------------------------------------------------------------
(***************************************************************************)
(* Whoever is in the scope of the state mutex is there alone.              *)
(***************************************************************************)
LEMMA HoldsAlone ==
    ASSUME IInv, NEW r \in Requests, NEW e \in Events, task[r][e].pc \in StateScope
    PROVE  /\ st = <<r, e>>
           /\ \A q \in Requests, f \in Events : q # r \/ f # e => task[q][f].pc \notin StateScope
           /\ \A q \in Requests : request[q].pc # "join"
<1>1. st = <<r, e>>  BY DEF IInv, StateHeld
<1>2. \A q \in Requests, f \in Events : q # r \/ f # e => task[q][f].pc \notin StateScope
  BY <1>1 DEF IInv, StateHeld
<1>3. Active(r, e)  BY DEF IInv, TasksActive, StateScope
<1>4. \A q \in Requests : request[q].pc # "join"
  BY <1>1, <1>3 DEF IInv, RequestsRight, Active
<1> QED BY <1>1, <1>2, <1>4

LEMMA FreeOfScopes ==
    ASSUME IInv, st = None
    PROVE  /\ \A q \in Requests, f \in Events : task[q][f].pc \notin StateScope
           /\ \A q \in Requests : request[q].pc # "join"
<1>1. \A q \in Requests, f \in Events : <<q, f>> # None
  BY InboundAssumption
<1> QED BY <1>1 DEF IInv, StateHeld, RequestsRight, TypeOK, Request

(***************************************************************************)
(* A step of one task within the state mutex that stores no row: it has to *)
(* keep what its own task knows of the leaves, and the band.               *)
(***************************************************************************)
LeavesOf(t, e) ==
    /\ t.pc \in StateScope /\ ~t.soft => e \in t.leafs
    /\ t.pc = "put" => t.leafs # {} /\ Live \subseteq Given \cup t.leafs
    /\ t.pc \in {"insert", "write", "unlock"} => e \in db.band
    /\ t.pc = "refer" => db.band \subseteq Given \cup t.prev \cup t.leafs
    /\ t.pc = "clear" => db.band \subseteq Given \cup t.leafs

LEMMA ScopedKeeps ==
    ASSUME IInv, NEW r \in Requests, NEW e \in Events,
           TypeOK', RequestsRight', TasksActive',
           \A q \in Requests, f \in Events : q # r \/ f # e =>
               task'[q][f] = task[q][f] /\ task[q][f].pc \notin StateScope,
           db'.rows = db.rows, db'.bounds = db.bounds,
           ins' = ins \/ ins = <<r, e>> \/ ins = None,
           task'[r][e].pc \in StateScope => st' = <<r, e>>,
           task'[r][e].pc \in InsertScope => ins' = <<r, e>> /\ task'[r][e].bounds = db.bounds,
           task'[r][e].pc \in Unsettled /\ r \notin Unlocked => ~StoredHere(e),
           LeavesOf(task[r][e], e)', BandInv'
    PROVE  IInv'
<1>1. StateHeld'
  BY DEF StateHeld
<1>2. InsertHeld'
  <2>1. \A q \in Requests, f \in Events : <<q, f>> # None
    BY InboundAssumption
  <2>2. ASSUME NEW q \in Requests, NEW f \in Events, q # r \/ f # e,
               task'[q][f].pc \in InsertScope
        PROVE  ins' = <<q, f>> /\ task'[q][f].bounds = db'.bounds
    BY <2>1, <2>2 DEF IInv, InsertHeld
  <2> QED BY <2>2 DEF InsertHeld
<1>3. NumbersInv'
  BY DEF IInv, NumbersInv, NumberedOnce
<1>4. LeavesInv'
  <2>1. ASSUME NEW q \in Requests, NEW f \in Events PROVE LeavesOf(task[q][f], f)'
    BY DEF LeavesOf, StateScope
  <2> QED BY <2>1 DEF LeavesInv, LeavesOf
<1>5. OnceInv'
  <2>1. SerializedOnce'  BY DEF IInv, OnceInv, SerializedOnce
  <2>2. \A f : StoredHere(f)' <=> StoredHere(f)  BY DEF StoredHere
  <2> QED BY <2>1, <2>2 DEF IInv, OnceInv
<1> QED BY <1>1, <1>2, <1>3, <1>4, <1>5 DEF IInv

(***************************************************************************)
(* How the state mutex is taken: by an event that passed its checks, and   *)
(* by a local event.                                                       *)
(***************************************************************************)
LEMMA EvaluateKeeps ==
    ASSUME IInv, NEW r \in Requests, NEW e \in Events, Evaluate(r, e)
    PROVE  IInv'
<1>1. TypeOK /\ RequestsRight /\ TasksActive  BY DEF IInv
<1>2. task[r][e].pc = "wait" /\ e \in Remote /\ st = None /\ UNCHANGED <<db, ins, torn>>
  BY DEF Evaluate, StateMutexFree
<1>3. CASE EndTask(r, e) /\ UNCHANGED <<st, lost>>
  BY <1>2, <1>3, EndTaskEarlyKeeps DEF Early
<1>4. ASSUME NEW soft \in BOOLEAN,
             NEW L \in Pruned(Remaining(e), IF soft THEN 0 ELSE 1),
             SetTask(r, e, [task[r][e] EXCEPT !.pc = "refer", !.soft = soft,
                                              !.leafs = IF soft THEN L ELSE L \cup {e}]),
             lost' = lost \cup (Remaining(e) \ L), st' = <<r, e>>, UNCHANGED <<fed, request>>
      PROVE  IInv'
  <2> DEFINE t == [task[r][e] EXCEPT !.pc = "refer", !.soft = soft,
                                     !.leafs = IF soft THEN L ELSE L \cup {e}]
  <2>1. Remaining(e) \in SUBSET Events /\ L \in SUBSET Remaining(e)
    <3>1. Remaining(e) \in SUBSET Events  BY <1>1 DEF Remaining, TypeOK
    <3> QED BY <3>1, PrunedWithin
  <2>2. /\ t \in Task /\ t.pc = "refer" /\ t.soft = soft /\ t.prev = PrevOf[e]
        /\ L \subseteq t.leafs /\ (~soft => e \in t.leafs)
    <3> DEFINE M == IF soft THEN L ELSE L \cup {e}
               o == task[r][e]
    <3>1. o \in Task /\ o.prev = PrevOf[e]
      BY <1>1, <1>2 DEF TypeOK, TasksActive
    <3>2. (IF soft THEN L ELSE L \cup {e}) \in SUBSET Events  BY <2>1
    <3>3. t = [o EXCEPT !.pc = "refer", !.soft = soft, !.leafs = M]  OBVIOUS
    <3>4. M \in SUBSET Events /\ L \subseteq M /\ (~soft => e \in M)  BY <3>2
    <3> HIDE DEF t, M, o
    <3>5. t \in Task /\ t.pc = "refer" /\ t.prev = PrevOf[e] /\ t.soft = soft /\ t.leafs = M
      BY <3>1, <3>3, <3>4 DEF Task
    <3> QED BY <3>4, <3>5
  <2>3. SetTask(r, e, t)  BY <1>4
  <2> HIDE DEF t
  <2>4. /\ task' \in [Requests -> [Events -> Task]] /\ task'[r][e] = t
        /\ \A q \in Requests, f \in Events : q # r \/ f # e => task'[q][f] = task[q][f]
    BY <1>1, <2>2, <2>3, TaskSet
  <2>5. TypeOK'  BY <1>1, <1>2, <1>4, <2>1, <2>4 DEF TypeOK
  <2>6. /\ \A q \in Requests, f \in Events : task[q][f].pc \notin StateScope
        /\ \A q \in Requests : request[q].pc # "join"
    BY <1>2, FreeOfScopes
  <2>7. RequestsRight'  BY <1>1, <1>4, <2>6 DEF RequestsRight
  <2>8. TasksActive'
    BY <1>1, <1>2, <1>4, <2>2, <2>4 DEF TasksActive, Active
  <2>9. LeavesOf(task[r][e], e)'
    <3>1. db.band \subseteq db.referenced \cup lost' \cup PrevOf[e] \cup L
      BY <1>4 DEF Remaining
    <3> QED BY <1>2, <2>2, <2>4, <3>1 DEF LeavesOf, Given
  <2>10. BandInv'
    <3>1. ~Putting  BY <2>6 DEF Putting, StateScope
    <3> QED BY <1>2, <1>4, <3>1 DEF IInv, BandInv, Live, Given
  <2>11. r \notin Unlocked => ~StoredHere(e)
    BY <1>2 DEF IInv, OnceInv, Unsettled
  <2> QED BY <1>2, <1>4, <2>2, <2>4, <2>5, <2>6, <2>7, <2>8, <2>9, <2>10, <2>11,
             ScopedKeeps DEF InsertScope
<1> QED BY <1>3, <1>4 DEF Evaluate

LEMMA BuildKeeps ==
    ASSUME IInv, NEW b \in Builders, Build(b)
    PROVE  IInv'
<1> DEFINE e == Built[b]
           p == [IdleRequest EXCEPT !.pc = "build", !.event = e]
<1>1. TypeOK /\ RequestsRight /\ TasksActive  BY DEF IInv
<1>2. /\ request[b].pc = "idle" /\ ~Stored(e) /\ st = None /\ st' = <<b, e>>
      /\ SetRequest(b, p) /\ UNCHANGED <<db, fed, ins, torn>>
  BY DEF Build, StateMutexFree
<1>3. b \in Requests /\ e \in Events /\ b \notin Handlers /\ b \notin Unlocked
  BY ConstantTypes, InboundAssumption
<1>4. PICK P \in PrevChoices :
        /\ SetTask(b, e, [NoTask EXCEPT !.pc = "refer", !.prev = P, !.leafs = {e}])
        /\ lost' = lost \cup (db.band \ P)
  BY DEF Build
<1> DEFINE t == [NoTask EXCEPT !.pc = "refer", !.prev = P, !.leafs = {e}]
<1>5. P \in SUBSET Events  BY <1>1, <1>4 DEF PrevChoices, TypeOK
<1>6. t \in Task /\ t.pc = "refer" /\ t.prev = P /\ t.leafs = {e}
  BY <1>3, <1>5, Blanks DEF NoTask, Task
<1>7. p \in Request /\ p.pc = "build" /\ p.event = e /\ p.left = {}
  BY <1>3, Blanks DEF IdleRequest, Request
<1>8. SetTask(b, e, t)  BY <1>4
<1>9. e = Built[b]  OBVIOUS
<1> HIDE DEF t, p, e
<1>10. /\ task' \in [Requests -> [Events -> Task]] /\ task'[b][e] = t
       /\ \A q \in Requests, f \in Events : q # b \/ f # e => task'[q][f] = task[q][f]
  BY <1>1, <1>3, <1>6, <1>8, TaskSet
<1>11. /\ request' \in [Requests -> Request] /\ request'[b] = p
       /\ \A q \in Requests : q # b => request'[q] = request[q]
  BY <1>1, <1>2, <1>3, <1>7, RequestSet
<1>12. TypeOK'  BY <1>1, <1>2, <1>3, <1>4, <1>10, <1>11 DEF TypeOK
<1>13. /\ \A q \in Requests, f \in Events : task[q][f].pc \notin StateScope
       /\ \A q \in Requests : request[q].pc # "join"
  BY <1>2, FreeOfScopes
<1>14. RequestsRight'
  BY <1>1, <1>2, <1>3, <1>7, <1>9, <1>11, <1>13 DEF RequestsRight
<1>15. TasksActive'
  <2>1. \A f \in Events : task[b][f].pc = "none"
    BY <1>1, <1>2, <1>3 DEF TasksActive, Active
  <2> QED BY <1>1, <1>3, <1>6, <1>7, <1>10, <1>11, <2>1 DEF TasksActive, Active
<1>16. LeavesOf(task[b][e], e)'
  <2>1. db.band \subseteq db.referenced \cup lost' \cup P
    BY <1>4
  <2> QED BY <1>2, <1>6, <1>10, <2>1 DEF LeavesOf, Given
<1>17. BandInv'
  <2>1. ~Putting  BY <1>13 DEF Putting, StateScope
  <2> QED BY <1>2, <1>4, <2>1 DEF IInv, BandInv, Live, Given
<1>18. ~StoredHere(e)
  BY <1>2 DEF Stored, StoredHere
<1> QED BY <1>2, <1>3, <1>6, <1>10, <1>12, <1>13, <1>14, <1>15, <1>16, <1>17, <1>18,
           ScopedKeeps DEF InsertScope

(***************************************************************************)
(* A step within the scope that only moves its task along.                 *)
(***************************************************************************)
LEMMA MovedAlong ==
    ASSUME IInv, NEW r \in Requests, NEW e \in Events, task[r][e].pc \in StateScope,
           NEW t \in Task, SetTask(r, e, t), UNCHANGED <<fed, st, request>>,
           t.pc \in StateScope
    PROVE  /\ task' \in [Requests -> [Events -> Task]] /\ task'[r][e] = t
           /\ \A q \in Requests, f \in Events : q # r \/ f # e =>
                 task'[q][f] = task[q][f] /\ task[q][f].pc \notin StateScope
           /\ st = <<r, e>> /\ RequestsRight' /\ TasksActive'
<1>1. TypeOK /\ RequestsRight /\ TasksActive  BY DEF IInv
<1>2. /\ task' \in [Requests -> [Events -> Task]] /\ task'[r][e] = t
      /\ \A q \in Requests, f \in Events : q # r \/ f # e => task'[q][f] = task[q][f]
  BY <1>1, TaskSet
<1>3. RequestsRight'  BY <1>1 DEF RequestsRight
<1>4. Active(r, e)  BY <1>1 DEF TasksActive, StateScope
<1>5. TasksActive'  BY <1>1, <1>2, <1>4 DEF TasksActive, Active, StateScope
<1> QED BY <1>2, <1>3, <1>5, HoldsAlone

LEMMA MarkReferencedKeeps ==
    ASSUME IInv, NEW r \in Requests, NEW e \in Events, MarkReferenced(r, e)
    PROVE  IInv'
<1> DEFINE o == task[r][e]
           t == [o EXCEPT !.pc = "clear"]
<1>1. TypeOK  BY DEF IInv
<1>2. /\ o.pc = "refer" /\ db' = [db EXCEPT !.referenced = @ \cup o.prev]
      /\ lost' = lost \ o.prev /\ SetTask(r, e, t)
      /\ UNCHANGED <<fed, st, ins, request, torn>>
  BY DEF MarkReferenced, Locks
<1>3. o \in Task /\ o = task[r][e]
  BY <1>1 DEF TypeOK
<1>4. t \in Task /\ t.pc = "clear" /\ t.leafs = o.leafs /\ t.soft = o.soft
  BY <1>3, TaskMoved DEF Pcs
<1>5. LeavesOf(o, e)  BY DEF IInv, LeavesInv, LeavesOf
<1> HIDE DEF t, o
<1>6. o.pc \in StateScope /\ t.pc \in StateScope  BY <1>2, <1>4 DEF StateScope
<1>7. /\ task' \in [Requests -> [Events -> Task]] /\ task'[r][e] = t
      /\ \A q \in Requests, f \in Events : q # r \/ f # e =>
            task'[q][f] = task[q][f] /\ task[q][f].pc \notin StateScope
      /\ st = <<r, e>> /\ RequestsRight' /\ TasksActive'
  BY <1>2, <1>3, <1>4, <1>6, MovedAlong
<1>8. /\ db' \in [rows: SUBSET Row, bounds: Bounds, band: SUBSET Events, referenced: SUBSET Events]
      /\ db'.rows = db.rows /\ db'.bounds = db.bounds /\ db'.band = db.band
      /\ db'.referenced = db.referenced \cup o.prev
  BY <1>1, <1>2, <1>3 DEF TypeOK, Task
<1>9. TypeOK'  BY <1>1, <1>2, <1>7, <1>8 DEF TypeOK
<1>10. Given \cup o.prev = Given'  BY <1>2, <1>8 DEF Given
<1>11. Live' = Live  BY <1>8 DEF Live
<1>12. LeavesOf(task[r][e], e)'
  BY <1>2, <1>4, <1>5, <1>6, <1>7, <1>8, <1>10 DEF LeavesOf
<1>13. BandInv'
  <2>1. ~Putting  BY <1>2, <1>3, <1>7 DEF Putting, StateScope
  <2> QED BY <1>2, <1>8, <1>10, <1>11, <2>1 DEF IInv, BandInv
<1>14. r \notin Unlocked => ~StoredHere(e)
  BY <1>2, <1>3 DEF IInv, OnceInv, Unsettled
<1> QED BY <1>2, <1>4, <1>7, <1>8, <1>9, <1>12, <1>13, <1>14, ScopedKeeps DEF InsertScope

LEMMA ClearBandKeeps ==
    ASSUME IInv, NEW r \in Requests, NEW e \in Events, ClearBand(r, e)
    PROVE  IInv'
<1> DEFINE o == task[r][e]
<1>1. TypeOK  BY DEF IInv
<1>2. o.pc = "clear" /\ UNCHANGED <<fed, st, ins, request, lost, torn>>
  BY DEF ClearBand, Locks, Ghosts
<1>3. o \in Task  BY <1>1 DEF TypeOK
<1>4. LeavesOf(o, e)  BY DEF IInv, LeavesInv, LeavesOf
<1>5. o.pc \in StateScope  BY <1>2 DEF StateScope
<1>6. r \notin Unlocked => ~StoredHere(e)
  BY <1>2 DEF IInv, OnceInv, Unsettled
<1>7. ~Putting /\ Live \subseteq Given \cup db.band /\ (db.band = {} => torn)
  <2>1. ~Putting  BY <1>2, <1>5, HoldsAlone DEF Putting, StateScope
  <2> QED BY <2>1 DEF IInv, BandInv
<1>8. CASE KeepsBand(o)
  <2> DEFINE t == [o EXCEPT !.pc = "soft"]
  <2>1. SetTask(r, e, t) /\ db' = db  BY <1>8 DEF ClearBand
  <2>2. t \in Task /\ t.pc = "soft" /\ t.soft = o.soft /\ t.leafs = o.leafs /\ t.pc \in StateScope
    BY <1>3 DEF Task, StateScope
  <2> HIDE DEF t
  <2>3. /\ task' \in [Requests -> [Events -> Task]] /\ task'[r][e] = t
        /\ \A q \in Requests, f \in Events : q # r \/ f # e =>
              task'[q][f] = task[q][f] /\ task[q][f].pc \notin StateScope
        /\ st = <<r, e>> /\ RequestsRight' /\ TasksActive'
    BY <1>2, <1>5, <2>1, <2>2, MovedAlong
  <2>4. TypeOK'  BY <1>1, <1>2, <2>1, <2>3 DEF TypeOK
  <2>5. LeavesOf(task[r][e], e)'
    BY <1>4, <1>5, <2>2, <2>3 DEF LeavesOf
  <2>6. BandInv'
    BY <1>2, <1>7, <2>1 DEF BandInv, Live, Given
  <2> QED BY <1>2, <1>6, <2>1, <2>2, <2>3, <2>4, <2>5, <2>6, ScopedKeeps DEF InsertScope
<1>9. CASE ~KeepsBand(o)
  <2> DEFINE t == [o EXCEPT !.pc = "put"]
  <2>1. SetTask(r, e, t) /\ db' = [db EXCEPT !.band = {}]  BY <1>9 DEF ClearBand
  <2>2. t \in Task /\ t.pc = "put" /\ t.soft = o.soft /\ t.leafs = o.leafs /\ t.pc \in StateScope
    BY <1>3 DEF Task, StateScope
  <2> HIDE DEF t
  <2>3. /\ task' \in [Requests -> [Events -> Task]] /\ task'[r][e] = t
        /\ \A q \in Requests, f \in Events : q # r \/ f # e =>
              task'[q][f] = task[q][f] /\ task[q][f].pc \notin StateScope
        /\ st = <<r, e>> /\ RequestsRight' /\ TasksActive'
    BY <1>2, <1>5, <2>1, <2>2, MovedAlong
  <2>4. /\ db' \in [rows: SUBSET Row, bounds: Bounds, band: SUBSET Events, referenced: SUBSET Events]
        /\ db'.rows = db.rows /\ db'.bounds = db.bounds /\ db'.referenced = db.referenced
    BY <1>1, <2>1 DEF TypeOK
  <2>5. TypeOK'  BY <1>1, <1>2, <2>3, <2>4 DEF TypeOK
  <2>6. Given' = Given /\ Live' = Live  BY <1>2, <2>4 DEF Given, Live
  <2>7. LeavesOf(task[r][e], e)'
    <3>1. o.leafs # {}  BY <1>4, <1>5, <1>9 DEF LeavesOf, KeepsBand
    <3>2. Live \subseteq Given \cup o.leafs  BY <1>2, <1>4, <1>7 DEF LeavesOf
    <3> QED BY <1>4, <1>5, <2>2, <2>3, <2>6, <3>1, <3>2 DEF LeavesOf
  <2>8. BandInv'
    <3>1. Putting'  BY <2>2, <2>3 DEF Putting
    <3> QED BY <3>1 DEF BandInv
  <2> QED BY <1>2, <1>6, <2>2, <2>3, <2>4, <2>5, <2>7, <2>8, ScopedKeeps DEF InsertScope
<1> QED BY <1>8, <1>9

LEMMA PutBandKeeps ==
    ASSUME IInv, NEW r \in Requests, NEW e \in Events, PutBand(r, e)
    PROVE  IInv'
<1> DEFINE o == task[r][e]
           t == [o EXCEPT !.pc = IF o.soft THEN "soft" ELSE "insert"]
<1>1. TypeOK  BY DEF IInv
<1>2. /\ o.pc = "put" /\ db' = [db EXCEPT !.band = o.leafs]
      /\ SetTask(r, e, t) /\ lost' = lost \ o.leafs /\ torn' = FALSE
      /\ UNCHANGED <<fed, st, ins, request>>
  BY DEF PutBand, Locks
<1>3. /\ o \in Task /\ t \in Task /\ t.pc = (IF o.soft THEN "soft" ELSE "insert")
      /\ t.soft = o.soft /\ t.leafs = o.leafs
  <2>1. o \in Task  BY <1>1 DEF TypeOK
  <2>2. (IF o.soft THEN "soft" ELSE "insert") \in Pcs  BY DEF Pcs
  <2> QED BY <2>1, <2>2, TaskMoved
<1>4. LeavesOf(o, e)  BY DEF IInv, LeavesInv, LeavesOf
<1>5. o = task[r][e]  OBVIOUS
<1> HIDE DEF t, o
<1>6. o.pc \in StateScope /\ t.pc \in StateScope  BY <1>2, <1>3 DEF StateScope
<1>7. /\ task' \in [Requests -> [Events -> Task]] /\ task'[r][e] = t
      /\ \A q \in Requests, f \in Events : q # r \/ f # e =>
            task'[q][f] = task[q][f] /\ task[q][f].pc \notin StateScope
      /\ st = <<r, e>> /\ RequestsRight' /\ TasksActive'
  BY <1>2, <1>3, <1>5, <1>6, MovedAlong
<1>8. /\ db' \in [rows: SUBSET Row, bounds: Bounds, band: SUBSET Events, referenced: SUBSET Events]
      /\ db'.rows = db.rows /\ db'.bounds = db.bounds /\ db'.band = o.leafs
      /\ db'.referenced = db.referenced
  BY <1>1, <1>2, <1>3 DEF TypeOK, Task
<1>9. TypeOK'  BY <1>1, <1>2, <1>7, <1>8 DEF TypeOK
<1>10. Live' = Live /\ Given \cup o.leafs = Given' \cup db'.band  BY <1>2, <1>8 DEF Live, Given
<1>11. LeavesOf(task[r][e], e)'
  BY <1>3, <1>4, <1>6, <1>7, <1>8 DEF LeavesOf
<1>12. BandInv'
  BY <1>2, <1>4, <1>8, <1>10 DEF LeavesOf, BandInv
<1>13. r \notin Unlocked => ~StoredHere(e)
  BY <1>2, <1>5 DEF IInv, OnceInv, Unsettled
<1> QED BY <1>2, <1>3, <1>7, <1>8, <1>9, <1>11, <1>12, <1>13, ScopedKeeps DEF InsertScope

LEMMA LockInsertKeeps ==
    ASSUME IInv, NEW r \in Requests, NEW e \in Events, LockInsert(r, e)
    PROVE  IInv'
<1> DEFINE o == task[r][e]
           t == [o EXCEPT !.pc = "write", !.bounds = db.bounds]
<1>1. TypeOK  BY DEF IInv
<1>2. /\ o.pc = "insert" /\ ins = None /\ ins' = <<r, e>> /\ SetTask(r, e, t)
      /\ UNCHANGED <<db, fed, st, request, lost, torn>>
  BY DEF LockInsert, InsertMutexFree, Ghosts
<1>3. /\ t \in Task /\ t.pc = "write" /\ t.soft = o.soft /\ t.leafs = o.leafs
      /\ t.bounds = db.bounds
  <2>1. o \in Task /\ db.bounds \in Bounds  BY <1>1 DEF TypeOK
  <2> HIDE DEF o
  <2> QED BY <2>1 DEF Task
<1>4. LeavesOf(o, e)  BY DEF IInv, LeavesInv, LeavesOf
<1>5. o = task[r][e]  OBVIOUS
<1> HIDE DEF t, o
<1>6. o.pc \in StateScope /\ t.pc \in StateScope  BY <1>2, <1>3 DEF StateScope
<1>7. /\ task' \in [Requests -> [Events -> Task]] /\ task'[r][e] = t
      /\ \A q \in Requests, f \in Events : q # r \/ f # e =>
            task'[q][f] = task[q][f] /\ task[q][f].pc \notin StateScope
      /\ st = <<r, e>> /\ RequestsRight' /\ TasksActive'
  BY <1>2, <1>3, <1>5, <1>6, MovedAlong
<1>8. TypeOK'  BY <1>1, <1>2, <1>7 DEF TypeOK
<1>9. LeavesOf(task[r][e], e)'
  BY <1>2, <1>3, <1>4, <1>6, <1>7 DEF LeavesOf
<1>10. BandInv'
  <2>1. ~Putting  BY <1>2, <1>5, <1>7 DEF Putting, StateScope
  <2> QED BY <1>2, <2>1 DEF IInv, BandInv, Live, Given
<1>11. r \notin Unlocked => ~StoredHere(e)
  BY <1>2, <1>5 DEF IInv, OnceInv, Unsettled
<1> QED BY <1>2, <1>3, <1>7, <1>8, <1>9, <1>10, <1>11, ScopedKeeps

(***************************************************************************)
(* How the scope is left: soft failed, unstored, or stored.                *)
(***************************************************************************)
LEMMA EndScopedKeeps ==
    ASSUME IInv, NEW r \in Requests, NEW e \in Events,
           task[r][e].pc \in {"soft", "write", "unlock"}, EndTask(r, e), st' = None,
           UNCHANGED <<db, lost, torn>>, ins' = ins \/ (ins = <<r, e>> /\ ins' = None)
    PROVE  IInv'
<1>1. TypeOK /\ RequestsRight /\ TasksActive  BY DEF IInv
<1>2. task[r][e].pc \in StateScope /\ task[r][e].pc # "none"  BY DEF StateScope
<1>3. /\ st = <<r, e>>
      /\ \A q \in Requests, f \in Events : q # r \/ f # e => task[q][f].pc \notin StateScope
  BY <1>2, HoldsAlone
<1>4. /\ request' \in [Requests -> Request] /\ task' \in [Requests -> [Events -> Task]]
      /\ fed' \in Handlers \cup {None}
      /\ task'[r][e] = NoTask
      /\ \A q \in Requests, f \in Events : q # r \/ f # e => task'[q][f] = task[q][f]
      /\ RequestsRight' /\ TasksActive'
  BY <1>1, <1>2, <1>3, EndTaskDoes
<1>5. TypeOK'  BY <1>1, <1>4 DEF TypeOK
<1>6. NoTask.pc = "none" /\ "none" \notin StateScope \cup InsertScope \cup Unsettled
  BY DEF NoTask, StateScope, InsertScope, Unsettled
<1>7. LeavesOf(task[r][e], e)'
  BY <1>4, <1>6 DEF LeavesOf, StateScope
<1>8. BandInv'
  <2>1. ~Putting  BY <1>3 DEF Putting, StateScope
  <2> QED BY <2>1 DEF IInv, BandInv, Live, Given
<1> QED BY <1>3, <1>4, <1>5, <1>6, <1>7, <1>8, ScopedKeeps

LEMMA SoftFailKeeps ==
    ASSUME IInv, NEW r \in Requests, NEW e \in Events, SoftFail(r, e) \/ Accept(r, e)
    PROVE  IInv'
BY EndScopedKeeps DEF SoftFail, Accept, Ghosts

LEMMA AppendFailsKeeps ==
    ASSUME IInv, NEW r \in Requests, NEW e \in Events, AppendFails(r, e)
    PROVE  IInv'
<1>1. ins = <<r, e>>  BY DEF AppendFails, IInv, InsertHeld, InsertScope
<1> QED BY <1>1, EndScopedKeeps DEF AppendFails, Ghosts

-----------------------------------------------------------------------------
(***************************************************************************)
(* Two requests that hold the federation mutex, or build, never work on    *)
(* one event.                                                              *)
(***************************************************************************)
LEMMA Apart ==
    ASSUME RequestsRight, TasksActive, NEW r \in Requests \ Unlocked, NEW q \in Requests \ Unlocked,
           NEW e \in Events, task[r][e].pc # "none", task[q][e].pc # "none"
    PROVE  q = r
<1>1. Active(r, e) /\ Active(q, e)  BY DEF TasksActive
<1>2. ASSUME NEW p \in Handlers, Active(p, e) PROVE fed = p /\ e \in Remote
  <2>1. p \in Requests /\ p \notin Builders  BY InboundAssumption DEF Requests
  <2>2. request[p].pc \in {"prevs", "prepend"}  BY <1>2, <2>1 DEF Active, RequestsRight
  <2> QED BY <1>2, <2>1, <2>2 DEF Active, RequestsRight
<1>3. ASSUME NEW p \in Builders, Active(p, e) PROVE e = Built[p] /\ e \notin Remote
  <2>1. p \in Requests /\ Built[p] \notin Remote  BY ConstantTypes
  <2>2. request[p].pc = "build"  BY <1>3, <2>1 DEF Active, RequestsRight
  <2> QED BY <1>3, <2>1, <2>2 DEF Active, RequestsRight
<1>4. r \in Handlers \cup Builders /\ q \in Handlers \cup Builders  BY DEF Requests
<1>5. CASE r \in Handlers /\ q \in Handlers  BY <1>1, <1>2, <1>5
<1>6. CASE r \in Builders /\ q \in Builders  BY <1>1, <1>3, <1>6, InboundAssumption
<1>7. CASE r \in Handlers /\ q \in Builders  BY <1>1, <1>2, <1>3, <1>7
<1>8. CASE r \in Builders /\ q \in Handlers  BY <1>1, <1>2, <1>3, <1>8
<1> QED BY <1>4, <1>5, <1>6, <1>7, <1>8

(***************************************************************************)
(* A row is stored.                                                        *)
(***************************************************************************)
LEMMA RowOnce ==
    ASSUME IInv, NEW r \in Requests, NEW e \in Events, task[r][e].pc \in InsertScope,
           NEW seq \in Int, db'.rows = db.rows \cup {[event |-> e, r_seq |-> seq, by |-> r]},
           \A q \in Requests, f \in Events : q # r \/ f # e => task'[q][f] = task[q][f],
           task'[r][e].pc \notin Unsettled
    PROVE  OnceInv'
<1> DEFINE row == [event |-> e, r_seq |-> seq, by |-> r]
<1>1. row.event = e /\ row.by = r /\ db'.rows = db.rows \cup {row}  OBVIOUS
<1>2. r \notin Unlocked => ~StoredHere(e)
  BY DEF IInv, OnceInv, Unsettled, InsertScope
<1> HIDE DEF row
<1>3. SerializedOnce'
  <2> SUFFICES ASSUME NEW a \in db'.rows, NEW b \in db'.rows, a.event = b.event,
                      a.by \notin Unlocked, b.by \notin Unlocked
               PROVE  a = b
    BY DEF SerializedOnce
  <2>1. CASE a \in db.rows /\ b \in db.rows
    BY <2>1 DEF IInv, OnceInv, SerializedOnce
  <2>2. CASE a = row /\ b # row
    BY <1>1, <1>2, <2>2 DEF StoredHere
  <2>3. CASE b = row /\ a # row
    BY <1>1, <1>2, <2>3 DEF StoredHere
  <2> QED BY <1>1, <2>1, <2>2, <2>3
<1>4. ASSUME NEW q \in Requests \ Unlocked, NEW f \in Events, task'[q][f].pc \in Unsettled
      PROVE  ~StoredHere(f)'
  <2>1. q # r \/ f # e  BY <1>4
  <2>2. task[q][f].pc \in Unsettled  BY <1>4, <2>1
  <2>3. ~StoredHere(f)  BY <2>2 DEF IInv, OnceInv
  <2>4. CASE f # e  BY <1>1, <2>3, <2>4 DEF StoredHere
  <2>5. CASE f = e
    <3>1. task[r][e].pc # "none" /\ task[q][e].pc # "none"
      BY <2>2, <2>5 DEF Unsettled, InsertScope
    <3>2. r \in Unlocked  BY <2>1, <2>5, <3>1, Apart DEF IInv
    <3> QED BY <1>1, <2>3, <3>2 DEF StoredHere
  <2> QED BY <2>4, <2>5
<1> QED BY <1>3, <1>4 DEF OnceInv

(***************************************************************************)
(* The new number is beyond all the others.                                *)
(***************************************************************************)
LEMMA RowNumbered ==
    ASSUME IInv, NEW r \in Requests, NEW e \in Events, NEW seq \in Int,
           NEW last \in Int, NEW low \in Int,
           \/ seq = db.bounds.last + 1 /\ last = seq /\ low = db.bounds.low
           \/ seq = db.bounds.low /\ low = seq - 1 /\ last = db.bounds.last,
           db' = [db EXCEPT !.rows = @ \cup {[event |-> e, r_seq |-> seq, by |-> r]},
                            !.bounds = [last |-> last, low |-> low]]
    PROVE  /\ db' \in [rows: SUBSET Row, bounds: Bounds, band: SUBSET Events, referenced: SUBSET Events]
           /\ db'.rows = db.rows \cup {[event |-> e, r_seq |-> seq, by |-> r]}
           /\ db'.bounds = [last |-> last, low |-> low]
           /\ db'.band = db.band /\ db'.referenced = db.referenced
           /\ NumbersInv'
<1> DEFINE row == [event |-> e, r_seq |-> seq, by |-> r]
<1>1. db \in [rows: SUBSET Row, bounds: Bounds, band: SUBSET Events, referenced: SUBSET Events]
  BY DEF IInv, TypeOK
<1>2. row \in Row /\ row.r_seq = seq  BY DEF Row
<1>3. [last |-> last, low |-> low] \in Bounds  BY DEF Bounds
<1>4. /\ db'.rows = db.rows \cup {row}
      /\ db'.bounds = [last |-> last, low |-> low]
      /\ db'.band = db.band /\ db'.referenced = db.referenced
  BY <1>1
<1>5. db' \in [rows: SUBSET Row, bounds: Bounds, band: SUBSET Events, referenced: SUBSET Events]
  BY <1>1, <1>2, <1>3
<1>6. /\ db.bounds.last \in Int /\ db.bounds.low \in Int /\ db.rows \subseteq Row
      /\ db.bounds.low <= 0 /\ 1 <= db.bounds.last
      /\ \A a, b \in db.rows : a.r_seq = b.r_seq => a = b
      /\ \A a \in db.rows : db.bounds.low < a.r_seq /\ a.r_seq <= db.bounds.last
  BY <1>1 DEF IInv, NumbersInv, NumberedOnce, Bounds
<1>7. \A a \in db.rows : a.r_seq \in Int  BY <1>6 DEF Row
<1>8. db'.bounds.last = last /\ db'.bounds.low = low  BY <1>4
<1> HIDE DEF row
<1>9. NumberedOnce'
  <2>1. \A a \in db.rows : a.r_seq # seq /\ low < a.r_seq /\ a.r_seq <= last
    BY <1>6, <1>7
  <2>2. low < seq /\ seq <= last  BY <1>6
  <2> QED BY <1>2, <1>4, <1>6, <1>8, <2>1, <2>2 DEF NumberedOnce
<1>10. low <= 0 /\ 1 <= last  BY <1>6
<1>11. NumbersInv'  BY <1>8, <1>9, <1>10 DEF NumbersInv
<1> QED BY <1>4, <1>5, <1>11 DEF row

LEMMA AppendRowKeeps ==
    ASSUME IInv, NEW r \in Requests, NEW e \in Events, AppendRow(r, e)
    PROVE  IInv'
<1> DEFINE o == task[r][e]
           t == [o EXCEPT !.pc = "unlock"]
           seq == o.bounds.last + 1
<1>1. TypeOK  BY DEF IInv
<1>2. /\ o.pc = "write" /\ ins' = None /\ SetTask(r, e, t)
      /\ db' = [db EXCEPT !.rows = @ \cup {[event |-> e, r_seq |-> seq, by |-> r]},
                          !.bounds = [last |-> seq, low |-> o.bounds.low]]
      /\ UNCHANGED <<fed, st, request, lost, torn>>
  BY DEF AppendRow, Ghosts
<1>3. o \in Task /\ o.bounds = db.bounds /\ ins = <<r, e>>
  BY <1>1, <1>2 DEF TypeOK, IInv, InsertHeld, InsertScope
<1>4. t \in Task /\ t.pc = "unlock" /\ t.soft = o.soft /\ t.leafs = o.leafs
  BY <1>3, TaskMoved DEF Pcs
<1>5. seq = db.bounds.last + 1 /\ seq \in Int /\ seq > 0 /\ o.bounds.low \in Int
      /\ o.bounds.low = db.bounds.low
  BY <1>1, <1>3 DEF TypeOK, Bounds, IInv, NumbersInv
<1>6. LeavesOf(o, e)  BY DEF IInv, LeavesInv, LeavesOf
<1>7. o = task[r][e]  OBVIOUS
<1> HIDE DEF t, o, seq
<1>8. o.pc \in StateScope /\ t.pc \in StateScope  BY <1>2, <1>4 DEF StateScope
<1>9. /\ task' \in [Requests -> [Events -> Task]] /\ task'[r][e] = t
      /\ \A q \in Requests, f \in Events : q # r \/ f # e =>
            task'[q][f] = task[q][f] /\ task[q][f].pc \notin StateScope
      /\ st = <<r, e>> /\ RequestsRight' /\ TasksActive'
  BY <1>2, <1>4, <1>7, <1>8, MovedAlong
<1>10. /\ db' \in [rows: SUBSET Row, bounds: Bounds, band: SUBSET Events, referenced: SUBSET Events]
       /\ db'.rows = db.rows \cup {[event |-> e, r_seq |-> seq, by |-> r]}
       /\ db'.band = db.band /\ db'.referenced = db.referenced
       /\ NumbersInv'
  BY <1>2, <1>5, RowNumbered
<1>11. TypeOK'  BY <1>1, <1>2, <1>9, <1>10 DEF TypeOK
<1>12. StateHeld'  BY <1>2, <1>9 DEF StateHeld
<1>13. InsertHeld'
  <2>1. \A q \in Requests, f \in Events : q # r \/ f # e => task[q][f].pc \notin InsertScope
    BY <1>3 DEF IInv, InsertHeld
  <2> QED BY <1>4, <1>9, <2>1 DEF InsertHeld, InsertScope
<1>14. LeavesInv'
  <2>1. ASSUME NEW q \in Requests, NEW f \in Events PROVE LeavesOf(task[q][f], f)'
    BY <1>2, <1>4, <1>6, <1>8, <1>9, <1>10 DEF LeavesOf, StateScope
  <2> QED BY <2>1 DEF LeavesInv, LeavesOf
<1>15. BandInv'
  <2>1. ~Putting  BY <1>2, <1>7, <1>9 DEF Putting, StateScope
  <2>2. e \in db.band  BY <1>2, <1>6 DEF LeavesOf
  <2>3. Live' \subseteq Live \cup {e}  BY <1>10 DEF Live
  <2> QED BY <1>2, <1>10, <2>1, <2>2, <2>3 DEF IInv, BandInv, Given
<1>16. OnceInv'
  <2>1. task[r][e].pc \in InsertScope /\ task'[r][e].pc \notin Unsettled
    BY <1>2, <1>4, <1>7, <1>9 DEF InsertScope, Unsettled
  <2>2. \A q \in Requests, f \in Events : q # r \/ f # e => task'[q][f] = task[q][f]  BY <1>9
  <2>3. db'.rows = db.rows \cup {[event |-> e, r_seq |-> seq, by |-> r]} /\ seq \in Int  BY <1>5, <1>10
  <2> QED BY <2>1, <2>2, <2>3, RowOnce
<1> QED BY <1>9, <1>10, <1>11, <1>12, <1>13, <1>14, <1>15, <1>16 DEF IInv

(***************************************************************************)
(* The backfilled event, outside the state mutex.                          *)
(***************************************************************************)
LEMMA LockPrependKeeps ==
    ASSUME IInv, NEW r \in Requests, NEW e \in Events, LockPrepend(r, e)
    PROVE  IInv'
<1> DEFINE o == task[r][e]
           t == [o EXCEPT !.pc = "prewrite", !.bounds = db.bounds]
<1>1. TypeOK /\ RequestsRight /\ TasksActive  BY DEF IInv
<1>2. /\ o.pc = "prepend" /\ ins = None /\ ins' = <<r, e>> /\ SetTask(r, e, t)
      /\ UNCHANGED <<db, fed, st, request, lost, torn>>
  BY DEF LockPrepend, InsertMutexFree, Ghosts
<1>3. t \in Task /\ t.pc = "prewrite" /\ t.bounds = db.bounds
  <2>1. o \in Task /\ db.bounds \in Bounds  BY <1>1 DEF TypeOK
  <2> HIDE DEF o
  <2> QED BY <2>1 DEF Task
<1>4. o = task[r][e]  OBVIOUS
<1> HIDE DEF t, o
<1>5. /\ task' \in [Requests -> [Events -> Task]] /\ task'[r][e] = t
      /\ \A q \in Requests, f \in Events : q # r \/ f # e => task'[q][f] = task[q][f]
  BY <1>1, <1>2, <1>3, TaskSet
<1>6. TypeOK'  BY <1>1, <1>2, <1>5 DEF TypeOK
<1>7. RequestsRight'  BY <1>1, <1>2 DEF RequestsRight
<1>8. TasksActive'
  <2>1. Active(r, e)  BY <1>1, <1>2, <1>4 DEF TasksActive
  <2> QED BY <1>1, <1>2, <1>3, <1>5, <2>1 DEF TasksActive, Active
<1>9. StateHeld'  BY <1>2, <1>3, <1>5 DEF IInv, StateHeld, StateScope
<1>10. InsertHeld'
  <2>1. \A q \in Requests, f \in Events : task[q][f].pc \notin InsertScope
    BY <1>2, InboundAssumption DEF IInv, InsertHeld
  <2> QED BY <1>2, <1>3, <1>5, <2>1 DEF InsertHeld
<1>11. NumbersInv'  BY <1>2 DEF IInv, NumbersInv, NumberedOnce
<1>12. LeavesInv'
  BY <1>2, <1>3, <1>5 DEF IInv, LeavesInv, StateScope, Live, Given
<1>13. BandInv'
  <2>1. Putting' <=> Putting  BY <1>2, <1>3, <1>4, <1>5 DEF Putting
  <2> QED BY <1>2, <2>1 DEF IInv, BandInv, Live, Given
<1>14. OnceInv'
  <2>1. SerializedOnce'  BY <1>2 DEF IInv, OnceInv, SerializedOnce
  <2>2. \A f : StoredHere(f)' <=> StoredHere(f)  BY <1>2 DEF StoredHere
  <2>3. task[r][e].pc \in Unsettled  BY <1>2, <1>4 DEF Unsettled
  <2> QED BY <1>5, <2>1, <2>2, <2>3 DEF IInv, OnceInv
<1> QED BY <1>6, <1>7, <1>8, <1>9, <1>10, <1>11, <1>12, <1>13, <1>14 DEF IInv

LEMMA PrependRowKeeps ==
    ASSUME IInv, NEW r \in Requests, NEW e \in Events, PrependRow(r, e)
    PROVE  IInv'
<1> DEFINE o == task[r][e]
           seq == o.bounds.low
<1>1. TypeOK /\ RequestsRight /\ TasksActive  BY DEF IInv
<1>2. /\ o.pc = "prewrite" /\ ins' = None /\ EndTask(r, e)
      /\ db' = [db EXCEPT !.rows = @ \cup {[event |-> e, r_seq |-> seq, by |-> r]},
                          !.bounds = [last |-> o.bounds.last, low |-> seq - 1]]
      /\ UNCHANGED <<st, lost, torn>>
  BY DEF PrependRow, Ghosts
<1>3. o.bounds = db.bounds /\ ins = <<r, e>>
  BY <1>2 DEF IInv, InsertHeld, InsertScope
<1>4. /\ seq = db.bounds.low /\ seq \in Int /\ seq <= 0 /\ o.bounds.last \in Int
      /\ o.bounds.last = db.bounds.last /\ seq - 1 \in Int
  BY <1>1, <1>3 DEF TypeOK, Bounds, IInv, NumbersInv
<1>5. o = task[r][e]  OBVIOUS
<1> HIDE DEF o, seq
<1>6. /\ request' \in [Requests -> Request] /\ task' \in [Requests -> [Events -> Task]]
      /\ fed' \in Handlers \cup {None}
      /\ task'[r][e] = NoTask
      /\ \A q \in Requests, f \in Events : q # r \/ f # e => task'[q][f] = task[q][f]
      /\ RequestsRight' /\ TasksActive'
  BY <1>1, <1>2, <1>5, EndTaskDoes
<1>7. /\ db' \in [rows: SUBSET Row, bounds: Bounds, band: SUBSET Events, referenced: SUBSET Events]
      /\ db'.rows = db.rows \cup {[event |-> e, r_seq |-> seq, by |-> r]}
      /\ db'.band = db.band /\ db'.referenced = db.referenced
      /\ NumbersInv'
  BY <1>2, <1>4, RowNumbered
<1>8. TypeOK'  BY <1>1, <1>2, <1>6, <1>7 DEF TypeOK
<1>9. NoTask.pc = "none"  BY DEF NoTask
<1>10. StateHeld'  BY <1>2, <1>6, <1>9 DEF IInv, StateHeld, StateScope
<1>11. InsertHeld'
  <2>1. \A q \in Requests, f \in Events : q # r \/ f # e => task[q][f].pc \notin InsertScope
    BY <1>3 DEF IInv, InsertHeld
  <2> QED BY <1>6, <1>9, <2>1 DEF InsertHeld, InsertScope
<1>12. Live' = Live /\ Given' = Given
  <2>1. ~(seq > 0)  BY <1>4
  <2> QED BY <1>2, <1>7, <2>1 DEF Live, Given
<1>13. LeavesInv'
  <2>1. ASSUME NEW q \in Requests, NEW f \in Events PROVE LeavesOf(task[q][f], f)'
    <3>1. LeavesOf(task[q][f], f)  BY DEF IInv, LeavesInv, LeavesOf
    <3> QED BY <1>6, <1>7, <1>9, <1>12, <3>1 DEF LeavesOf, StateScope
  <2> QED BY <2>1 DEF LeavesInv, LeavesOf
<1>14. BandInv'
  <2>1. Putting' <=> Putting  BY <1>2, <1>5, <1>6, <1>9 DEF Putting
  <2> QED BY <1>2, <1>7, <1>12, <2>1 DEF IInv, BandInv
<1>15. OnceInv'
  <2>1. task[r][e].pc \in InsertScope /\ task'[r][e].pc \notin Unsettled
    BY <1>2, <1>5, <1>6, <1>9 DEF InsertScope, Unsettled
  <2> QED BY <1>4, <1>6, <1>7, <2>1, RowOnce
<1> QED BY <1>6, <1>7, <1>8, <1>10, <1>11, <1>13, <1>14, <1>15 DEF IInv

-----------------------------------------------------------------------------
(***************************************************************************)
(* Nobody at work, at the start and after a crash.                         *)
(***************************************************************************)
Resting ==
    /\ request = [r \in Requests |-> IdleRequest]
    /\ task = [r \in Requests |-> [e \in Events |-> NoTask]]

Settled ==
    /\ RequestsRight /\ TasksActive /\ StateHeld /\ InsertHeld /\ LeavesInv /\ ~Putting
    /\ \A r \in Requests, e \in Events : task[r][e].pc \notin Unsettled

LEMMA AllIdle == Resting => Settled
<1> SUFFICES ASSUME Resting PROVE Settled
  OBVIOUS
<1>1. \A r \in Requests : request[r].pc = "idle" /\ request[r].left = {}
  BY DEF IdleRequest, Resting
<1>2. \A r \in Requests, e \in Events : task[r][e].pc = "none"
  BY DEF NoTask, Resting
<1>3. RequestsRight  BY <1>1 DEF RequestsRight
<1>4. TasksActive /\ StateHeld /\ InsertHeld
  BY <1>2 DEF TasksActive, StateHeld, InsertHeld, StateScope, InsertScope
<1>5. LeavesInv  BY <1>2 DEF LeavesInv, StateScope
<1>6. ~Putting  BY <1>2 DEF Putting
<1> QED BY <1>2, <1>3, <1>4, <1>5, <1>6 DEF Unsettled, Settled

LEMMA InitInv == Init => IInv
<1> SUFFICES ASSUME Init PROVE IInv
  OBVIOUS
<1>1. TypeOK  BY InitTypes
<1>2. Settled  BY AllIdle DEF Init, Resting
<1>3. /\ db.rows = {[event |-> Root, r_seq |-> 1, by |-> None]}
      /\ db.bounds = [last |-> 1, low |-> 0] /\ db.band = {Root}
  BY DEF Init, Db0
<1>4. NumbersInv  BY <1>3 DEF NumbersInv, NumberedOnce
<1>5. BandInv  BY <1>3 DEF BandInv, Live
<1>6. OnceInv  BY <1>2, <1>3 DEF Settled, OnceInv, SerializedOnce
<1> QED BY <1>1, <1>2, <1>4, <1>5, <1>6 DEF Settled, IInv

LEMMA CrashKeeps == IInv /\ Crash => IInv'
<1> SUFFICES ASSUME IInv, Crash PROVE IInv'
  OBVIOUS
<1>1. TypeOK'
  BY Blanks DEF IInv, TypeOK, Crash
<1>2. Resting'  BY DEF Crash, Resting
<1>3. Settled'  BY <1>2, AllIdle, PTL
<1>4. NumbersInv'  BY DEF Crash, IInv, NumbersInv, NumberedOnce
<1>5. BandInv'
  BY DEF Crash, BandInv, Live, Given
<1>6. OnceInv'
  <2>1. SerializedOnce'  BY DEF Crash, IInv, OnceInv, SerializedOnce
  <2> QED BY <1>3, <2>1 DEF Settled, OnceInv
<1> QED BY <1>1, <1>3, <1>4, <1>5, <1>6 DEF Settled, IInv

LEMMA NextInv == IInv /\ [Next]_vars => IInv'
<1> SUFFICES ASSUME IInv, [Next]_vars PROVE IInv'
  OBVIOUS
<1>1. CASE UNCHANGED vars
  <2>1. UNCHANGED <<db, fed, st, ins, request, task, lost, torn>>  BY <1>1 DEF vars
  <2>2. TypeOK'  BY <2>1 DEF IInv, TypeOK
  <2>3. RequestsRight' /\ TasksActive'
    BY <2>1 DEF IInv, RequestsRight, TasksActive, Active
  <2> QED BY <2>1, <2>2, <2>3, QuietKeeps
<1>2. ASSUME NEW r \in Requests, NEW e \in Events, TaskStep(r, e) PROVE IInv'
  BY <1>2, UpgradeKeeps, CheckExistsKeeps, EvaluateKeeps, MarkReferencedKeeps, ClearBandKeeps,
     PutBandKeeps, SoftFailKeeps, LockInsertKeeps, AppendRowKeeps, AppendFailsKeeps,
     LockPrependKeeps, PrependRowKeeps DEF TaskStep
<1>3. ASSUME NEW r \in Requests, RequestStep(r) PROVE IInv'
  BY <1>2, <1>3, FallBackKeeps, HandleKeeps, BackfillKeeps DEF RequestStep
<1>4. CASE Next
  BY <1>3, <1>4, DeliverKeeps, JoinLocallyKeeps, BuildKeeps, CrashKeeps DEF Next
<1> QED BY <1>1, <1>4

LEMMA Inductive == Spec => []IInv
BY InitInv, NextInv, PTL DEF Spec

-----------------------------------------------------------------------------
(***************************************************************************)
(* Types.                                                                  *)
(***************************************************************************)
THEOREM InboundTypes == Spec => []TypeOK
<1>1. IInv => TypeOK  BY DEF IInv
<1> QED BY <1>1, Inductive, PTL

(***************************************************************************)
(* The requests that hold the federation mutex, and the local builders,    *)
(* store no event twice, whatever is redelivered, fetched, backfilled or   *)
(* retried, and whenever the process dies.                                 *)
(***************************************************************************)
THEOREM StoredOnce == Spec => []SerializedOnce
<1>1. IInv => SerializedOnce  BY DEF IInv, OnceInv
<1> QED BY <1>1, Inductive, PTL

(***************************************************************************)
(* Appends and backfills under the insertion mutex give every row a number *)
(* of its own, within the bounds stored.                                   *)
(***************************************************************************)
THEOREM NumbersUnique == Spec => []NumberedOnce
<1>1. IInv => NumberedOnce  BY DEF IInv, NumbersInv
<1> QED BY <1>1, Inductive, PTL

(***************************************************************************)
(* The band is empty only while a holder of the state mutex replaces it,   *)
(* or after a crash in that moment.                                        *)
(***************************************************************************)
THEOREM BandStays == Spec => []BandNonEmpty
<1>1. IInv => BandNonEmpty
  <2> SUFFICES ASSUME IInv, db.band = {}, st = None PROVE torn
    BY DEF BandNonEmpty
  <2>1. ~Putting  BY FreeOfScopes DEF Putting, StateScope
  <2> QED BY <2>1 DEF IInv, BandInv
<1> QED BY <1>1, Inductive, PTL

(***************************************************************************)
(* An appended event nothing refers to stays a forward extremity, unless   *)
(* it was given up.                                                        *)
(***************************************************************************)
THEOREM LeavesStay == Spec => []LeavesKept
<1>1. IInv => LeavesKept
  <2> SUFFICES ASSUME IInv, st = None, NEW row \in db.rows, row.r_seq > 0,
                      row.event \notin db.referenced \cup lost
               PROVE  row.event \in db.band
    BY DEF LeavesKept
  <2>1. ~Putting  BY FreeOfScopes DEF Putting, StateScope
  <2>2. row.event \in Events  BY DEF IInv, TypeOK, Row
  <2>3. row.event \in Live  BY <2>2 DEF Live
  <2> QED BY <2>1, <2>3 DEF IInv, BandInv, Given
<1> QED BY <1>1, Inductive, PTL
-----------------------------------------------------------------------------
(***************************************************************************)
(* Who is waited for is at work: a mutex is held only within its scope,    *)
(* and a builder or a backfill that has begun has its task.                *)
(***************************************************************************)
StateInScope ==
    st # None => \E q \in Requests, f \in Events :
        st = <<q, f>> /\ (request[q].pc = "join" \/ task[q][f].pc \in StateScope)

InsertInScope ==
    ins # None => \E q \in Requests, f \in Events : ins = <<q, f>> /\ task[q][f].pc \in InsertScope

TasksBegun ==
    \A q \in Requests :
        request[q].pc \in {"build", "prepend"} => task[q][request[q].event].pc # "none"

WaitInv == StateInScope /\ InsertInScope /\ TasksBegun

(***************************************************************************)
(* A step of a request without a task.                                     *)
(***************************************************************************)
LEMMA RequestWaits ==
    ASSUME IInv, WaitInv, NEW r \in Requests, UNCHANGED <<ins, task>>,
           \A q \in Requests : q # r => request'[q] = request[q],
           request'[r].pc \notin {"build", "prepend"},
           \/ st' = None
           \/ st' = st /\ request[r].pc # "join"
           \/ \E e \in Events : st' = <<r, e>> /\ request'[r].pc = "join"
    PROVE  WaitInv'
<1>1. InsertInScope'  BY DEF WaitInv, InsertInScope
<1>2. TasksBegun'  BY DEF WaitInv, TasksBegun
<1>3. StateInScope'  BY DEF WaitInv, StateInScope
<1> QED BY <1>1, <1>2, <1>3 DEF WaitInv

(***************************************************************************)
(* A step of a task that goes on.                                          *)
(***************************************************************************)
LEMMA TaskWaits ==
    ASSUME IInv, WaitInv, NEW r \in Requests, NEW e \in Events,
           \A q \in Requests, f \in Events : q # r \/ f # e => task'[q][f] = task[q][f],
           request' = request, task'[r][e].pc # "none",
           \/ st' = st /\ (task[r][e].pc \in StateScope => task'[r][e].pc \in StateScope)
           \/ st' = <<r, e>> /\ task'[r][e].pc \in StateScope,
           \/ ins' = ins /\ (task[r][e].pc \in InsertScope => task'[r][e].pc \in InsertScope)
           \/ ins' = <<r, e>> /\ task'[r][e].pc \in InsertScope
           \/ ins' = None
    PROVE  WaitInv'
<1>1. InsertInScope'  BY DEF WaitInv, InsertInScope
<1>2. TasksBegun'  BY DEF WaitInv, TasksBegun, IInv, TypeOK, Request
<1>3. StateInScope'  BY DEF WaitInv, StateInScope
<1> QED BY <1>1, <1>2, <1>3 DEF WaitInv

(***************************************************************************)
(* A task that ends leaves the mutexes it held.                            *)
(***************************************************************************)
LEMMA EndWaits ==
    ASSUME IInv, WaitInv, NEW r \in Requests, NEW e \in Events,
           task[r][e].pc # "none", EndTask(r, e),
           \/ st' = st /\ task[r][e].pc \notin StateScope
           \/ st' = None /\ task[r][e].pc \in StateScope,
           \/ ins' = ins /\ task[r][e].pc \notin InsertScope
           \/ ins' = None /\ task[r][e].pc \in InsertScope
    PROVE  WaitInv'
<1>1. TypeOK /\ RequestsRight /\ TasksActive  BY DEF IInv
<1>2. /\ task'[r][e] = NoTask
      /\ \A q \in Requests, f \in Events : q # r \/ f # e => task'[q][f] = task[q][f]
  BY <1>1, Blanks, TaskSet DEF EndTask
<1>3. Active(r, e) /\ request[r].pc # "join"  BY <1>1 DEF TasksActive, Active
<1>4. /\ \A q \in Requests : q # r => request'[q] = request[q]
      /\ request'[r].pc \in {"prevs", "idle"}
  <2>1. CASE request[r].pc = "prevs" /\ e \in request[r].left
    <3> DEFINE t == [request[r] EXCEPT !.left = @ \ {e}]
    <3>1. t \in Request /\ t.pc = "prevs"  BY <1>1, <2>1 DEF TypeOK, Request
    <3>2. SetRequest(r, t)  BY <2>1 DEF EndTask
    <3> HIDE DEF t
    <3> QED BY <1>1, <3>1, <3>2, RequestSet
  <2>2. CASE ~(request[r].pc = "prevs" /\ e \in request[r].left)
    <3>1. SetRequest(r, IdleRequest)  BY <2>2 DEF EndTask, EndRequest
    <3>2. IdleRequest.pc = "idle"  BY DEF IdleRequest
    <3> QED BY <1>1, <3>1, <3>2, Blanks, RequestSet
  <2> QED BY <2>1, <2>2
<1>5. InsertInScope'  BY <1>2 DEF WaitInv, InsertInScope
<1>6. TasksBegun'  BY <1>2, <1>4 DEF WaitInv, TasksBegun, IInv, TypeOK, Request
<1>7. StateInScope'  BY <1>2, <1>3, <1>4 DEF WaitInv, StateInScope
<1> QED BY <1>5, <1>6, <1>7 DEF WaitInv

LEMMA TaskStepWaits ==
    ASSUME IInv, WaitInv, NEW r \in Requests, NEW e \in Events, TaskStep(r, e)
    PROVE  WaitInv'
<1> DEFINE o == task[r][e]
           Others == \A q \in Requests, f \in Events : q # r \/ f # e => task'[q][f] = task[q][f]
<1>1. TypeOK /\ RequestsRight /\ TasksActive /\ o \in Task  BY DEF IInv, TypeOK
<1>2. ASSUME NEW pc \in Pcs, SetTask(r, e, [o EXCEPT !.pc = pc])
      PROVE  Others /\ task'[r][e].pc = pc
  <2> DEFINE t == [o EXCEPT !.pc = pc]
  <2>1. t \in Task /\ t.pc = pc  BY <1>1 DEF Task, Pcs
  <2>2. SetTask(r, e, t)  BY <1>2
  <2> HIDE DEF o, t
  <2> QED BY <1>1, <2>1, <2>2, TaskSet
<1>3. CASE Upgrade(r, e)
  <2> DEFINE t == [NoTask EXCEPT !.pc = "check"]
  <2>1. t \in Task /\ t.pc = "check"  BY Blanks DEF NoTask, Task
  <2>2. o.pc = "none" /\ SetTask(r, e, t) /\ UNCHANGED <<st, ins, request>>
    BY <1>3 DEF Upgrade, Locks
  <2> HIDE DEF t
  <2>3. Others /\ task'[r][e].pc = "check"  BY <1>1, <2>1, <2>2, TaskSet
  <2> QED BY <2>2, <2>3, TaskWaits DEF StateScope, InsertScope
<1>4. CASE CheckExists(r, e)
  <2>1. o.pc = "check" /\ UNCHANGED <<st, ins>>  BY <1>4 DEF CheckExists
  <2>2. CASE EndTask(r, e)
    BY <2>1, <2>2, EndWaits DEF StateScope, InsertScope
  <2>3. CASE /\ SetTask(r, e, [NoTask EXCEPT !.pc = "wait", !.prev = PrevOf[e]])
             /\ UNCHANGED <<fed, request>>
    <3> DEFINE t == [NoTask EXCEPT !.pc = "wait", !.prev = PrevOf[e]]
    <3>1. e \in Remote  BY <1>1, <2>1 DEF TasksActive
    <3>2. t \in Task /\ t.pc = "wait"  BY <3>1, Blanks, ConstantTypes DEF NoTask, Task
    <3>3. SetTask(r, e, t)  BY <2>3
    <3> HIDE DEF t
    <3>4. Others /\ task'[r][e].pc = "wait"  BY <1>1, <3>2, <3>3, TaskSet
    <3> QED BY <2>1, <2>3, <3>4, TaskWaits DEF StateScope, InsertScope
  <2> QED BY <1>4, <2>2, <2>3 DEF CheckExists
<1>5. CASE Evaluate(r, e)
  <2>1. o.pc = "wait" /\ e \in Remote /\ UNCHANGED ins  BY <1>5 DEF Evaluate
  <2>2. CASE EndTask(r, e) /\ UNCHANGED st
    BY <2>1, <2>2, EndWaits DEF StateScope, InsertScope
  <2>3. ASSUME NEW soft \in BOOLEAN, NEW leafs \in Pruned(Remaining(e), IF soft THEN 0 ELSE 1),
               SetTask(r, e, [o EXCEPT !.pc = "refer", !.soft = soft,
                                       !.leafs = IF soft THEN leafs ELSE leafs \cup {e}]),
               st' = <<r, e>>, UNCHANGED request
        PROVE  WaitInv'
    <3> DEFINE t == [o EXCEPT !.pc = "refer", !.soft = soft,
                              !.leafs = IF soft THEN leafs ELSE leafs \cup {e}]
    <3>1. leafs \in SUBSET Events
      <4>1. Remaining(e) \in SUBSET Events  BY <1>1 DEF TypeOK, Remaining
      <4> QED BY <4>1, PrunedWithin
    <3>2. t \in Task /\ t.pc = "refer"  BY <1>1, <3>1 DEF Task
    <3>3. SetTask(r, e, t)  BY <2>3
    <3> HIDE DEF t, o
    <3>4. Others /\ task'[r][e].pc = "refer"  BY <1>1, <3>2, <3>3, TaskSet
    <3> QED BY <2>1, <2>3, <3>4, TaskWaits DEF StateScope, InsertScope, o
  <2> QED BY <1>5, <2>2, <2>3 DEF Evaluate
<1>6. CASE MarkReferenced(r, e)
  <2>1. o.pc = "refer" /\ SetTask(r, e, [o EXCEPT !.pc = "clear"]) /\ UNCHANGED <<st, ins, request>>
    BY <1>6 DEF MarkReferenced, Locks
  <2>2. Others /\ task'[r][e].pc = "clear"  BY <1>2, <2>1 DEF Pcs
  <2> QED BY <2>1, <2>2, TaskWaits DEF StateScope, InsertScope
<1>7. CASE ClearBand(r, e)
  <2>1. /\ o.pc = "clear" /\ UNCHANGED <<st, ins, request>>
        /\ \/ SetTask(r, e, [o EXCEPT !.pc = "soft"])
           \/ SetTask(r, e, [o EXCEPT !.pc = "put"])
    BY <1>7 DEF ClearBand, Locks
  <2>2. Others /\ task'[r][e].pc \in {"soft", "put"}  BY <1>2, <2>1 DEF Pcs
  <2> QED BY <2>1, <2>2, TaskWaits DEF StateScope, InsertScope
<1>8. CASE PutBand(r, e)
  <2>1. /\ o.pc = "put" /\ UNCHANGED <<st, ins, request>>
        /\ SetTask(r, e, [o EXCEPT !.pc = IF o.soft THEN "soft" ELSE "insert"])
    BY <1>8 DEF PutBand, Locks
  <2>2. Others /\ task'[r][e].pc \in {"soft", "insert"}  BY <1>2, <2>1 DEF Pcs
  <2> QED BY <2>1, <2>2, TaskWaits DEF StateScope, InsertScope
<1>9. CASE SoftFail(r, e)
  BY <1>9, EndWaits DEF SoftFail, StateScope, InsertScope
<1>10. CASE LockInsert(r, e) \/ LockPrepend(r, e)
  <2> DEFINE pc == IF o.pc = "insert" THEN "write" ELSE "prewrite"
             t == [o EXCEPT !.pc = pc, !.bounds = db.bounds]
  <2>1. /\ o.pc \in {"insert", "prepend"} /\ SetTask(r, e, t)
        /\ ins' = <<r, e>> /\ UNCHANGED <<st, request>>
    BY <1>10 DEF LockInsert, LockPrepend
  <2>2. t \in Task /\ t.pc = pc  BY <1>1 DEF Task, TypeOK
  <2> HIDE DEF t
  <2>3. Others /\ task'[r][e].pc = pc  BY <1>1, <2>1, <2>2, TaskSet
  <2> QED BY <2>1, <2>3, TaskWaits DEF StateScope, InsertScope
<1>11. CASE AppendRow(r, e)
  <2>1. /\ o.pc = "write" /\ SetTask(r, e, [o EXCEPT !.pc = "unlock"])
        /\ ins' = None /\ UNCHANGED <<st, request>>
    BY <1>11 DEF AppendRow
  <2>2. Others /\ task'[r][e].pc = "unlock"  BY <1>2, <2>1 DEF Pcs
  <2> QED BY <2>1, <2>2, TaskWaits DEF StateScope, InsertScope
<1>12. CASE AppendFails(r, e)
  BY <1>12, EndWaits DEF AppendFails, StateScope, InsertScope
<1>13. CASE Accept(r, e)
  BY <1>13, EndWaits DEF Accept, StateScope, InsertScope
<1>14. CASE PrependRow(r, e)
  BY <1>14, EndWaits DEF PrependRow, StateScope, InsertScope
<1> QED BY <1>3, <1>4, <1>5, <1>6, <1>7, <1>8, <1>9, <1>10, <1>11, <1>12, <1>13, <1>14 DEF TaskStep

LEMMA RequestStepWaits ==
    ASSUME IInv, WaitInv, NEW r \in Requests, FallBack(r) \/ Handle(r) \/ Backfill(r)
    PROVE  WaitInv'
<1>1. TypeOK /\ request[r] \in Request  BY DEF IInv, TypeOK
<1>2. ASSUME EndRequest(r), UNCHANGED <<st, ins, task>>, request[r].pc # "join" PROVE WaitInv'
  <2>1. SetRequest(r, IdleRequest) /\ IdleRequest.pc = "idle"  BY <1>2 DEF EndRequest, IdleRequest
  <2>2. /\ \A q \in Requests : q # r => request'[q] = request[q]
        /\ request'[r].pc = "idle"
    BY <1>1, <2>1, Blanks, RequestSet
  <2> QED BY <1>2, <2>2, RequestWaits
<1>3. CASE FallBack(r)
  <2> DEFINE t == [request[r] EXCEPT !.pc = "handle"]
  <2>1. t \in Request /\ t.pc = "handle"  BY <1>1 DEF Request
  <2>2. SetRequest(r, t) /\ st' = None /\ UNCHANGED <<ins, task>>  BY <1>3 DEF FallBack
  <2> HIDE DEF t
  <2>3. /\ \A q \in Requests : q # r => request'[q] = request[q]
        /\ request'[r].pc = "handle"
    BY <1>1, <2>1, <2>2, RequestSet
  <2> QED BY <2>2, <2>3, RequestWaits
<1>4. CASE Handle(r)
  <2>1. request[r].pc = "handle" /\ UNCHANGED <<st, ins, task>>  BY <1>4 DEF Handle
  <2>2. ASSUME NEW F \in SUBSET Missing(request[r].event),
               SetRequest(r, [request[r] EXCEPT !.pc = "prevs", !.left = F])
        PROVE  WaitInv'
    <3> DEFINE t == [request[r] EXCEPT !.pc = "prevs", !.left = F]
    <3>1. F \in SUBSET Events  BY ConstantTypes DEF Missing, Ancestors
    <3>2. t \in Request /\ t.pc = "prevs"  BY <1>1, <3>1 DEF Request
    <3>3. SetRequest(r, t)  BY <2>2
    <3> HIDE DEF t
    <3>4. /\ \A q \in Requests : q # r => request'[q] = request[q]
          /\ request'[r].pc = "prevs"
      BY <1>1, <3>2, <3>3, RequestSet
    <3> QED BY <2>1, <3>4, RequestWaits
  <2> QED BY <1>2, <1>4, <2>1, <2>2 DEF Handle
<1>5. CASE Backfill(r)
  <2> DEFINE e == request[r].event
             t == [NoTask EXCEPT !.pc = "prepend"]
             p == [request[r] EXCEPT !.pc = "prepend"]
  <2>1. request[r].pc = "outlier" /\ UNCHANGED <<st, ins>>  BY <1>5 DEF Backfill
  <2>2. CASE EndRequest(r) /\ UNCHANGED task  BY <1>2, <2>1, <2>2
  <2>3. CASE SetTask(r, e, t) /\ SetRequest(r, p)
    <3>1. e \in Events /\ t \in Task /\ t.pc = "prepend"
      BY <1>1, Blanks DEF Request, NoTask, Task
    <3>2. p \in Request /\ p.pc = "prepend" /\ p.event = e  BY <1>1 DEF Request
    <3>3. \A f \in Events : task[r][f].pc = "none"  BY <2>1 DEF IInv, TasksActive, Active
    <3>4. e = request[r].event  OBVIOUS
    <3> HIDE DEF t, p, e
    <3>5. /\ task'[r][e].pc = "prepend"
          /\ \A q \in Requests, f \in Events : q # r \/ f # e => task'[q][f] = task[q][f]
      BY <1>1, <2>3, <3>1, TaskSet
    <3>6. /\ \A q \in Requests : q # r => request'[q] = request[q]
          /\ request'[r].event = e
      BY <1>1, <2>3, <3>2, RequestSet
    <3>7. TasksBegun'  BY <3>5, <3>6, <1>1 DEF WaitInv, TasksBegun, TypeOK, Request
    <3>8. InsertInScope'  BY <2>1, <3>3, <3>5, <3>1 DEF WaitInv, InsertInScope, InsertScope
    <3>9. StateInScope'
      BY <2>1, <3>1, <3>3, <3>5, <3>6 DEF WaitInv, StateInScope, StateScope
    <3> QED BY <3>7, <3>8, <3>9 DEF WaitInv
  <2> QED BY <1>5, <2>2, <2>3 DEF Backfill
<1> QED BY <1>3, <1>4, <1>5

LEMMA BeginWaits ==
    ASSUME IInv, WaitInv,
           \/ \E r \in Handlers, e \in Remote, pc \in {"handle", "outlier"} : Deliver(r, e, pc)
           \/ \E r \in Unlocked : JoinLocally(r)
    PROVE  WaitInv'
<1>1. TypeOK  BY DEF IInv
<1>2. ASSUME NEW r \in Handlers, NEW e \in Remote, NEW pc \in {"handle", "outlier"},
             Deliver(r, e, pc)
      PROVE  WaitInv'
  <2> DEFINE t == [IdleRequest EXCEPT !.pc = pc, !.event = e]
  <2>1. r \in Requests /\ t \in Request /\ t.pc = pc
    BY ConstantTypes, Blanks DEF IdleRequest, Request
  <2>2. request[r].pc = "idle" /\ SetRequest(r, t) /\ UNCHANGED <<st, ins, task>>
    BY <1>2 DEF Deliver
  <2> HIDE DEF t
  <2>3. /\ \A q \in Requests : q # r => request'[q] = request[q]
        /\ request'[r].pc = pc
    BY <1>1, <2>1, <2>2, RequestSet
  <2> QED BY <2>1, <2>2, <2>3, RequestWaits
<1>3. ASSUME NEW r \in Unlocked, JoinLocally(r) PROVE WaitInv'
  <2> DEFINE t == [IdleRequest EXCEPT !.pc = "join", !.event = Signed[r]]
  <2>1. r \in Requests /\ Signed[r] \in Events /\ t \in Request /\ t.pc = "join"
    BY ConstantTypes, Blanks DEF IdleRequest, Request
  <2>2. st' = <<r, Signed[r]>> /\ SetRequest(r, t) /\ UNCHANGED <<ins, task>>
    BY <1>3 DEF JoinLocally
  <2> HIDE DEF t
  <2>3. /\ \A q \in Requests : q # r => request'[q] = request[q]
        /\ request'[r].pc = "join"
    BY <1>1, <2>1, <2>2, RequestSet
  <2> QED BY <2>1, <2>2, <2>3, RequestWaits
<1> QED BY <1>2, <1>3

LEMMA BuildWaits ==
    ASSUME IInv, WaitInv, NEW b \in Builders, Build(b)
    PROVE  WaitInv'
<1>1. TypeOK  BY DEF IInv
<1> DEFINE p == [IdleRequest EXCEPT !.pc = "build", !.event = Built[b]]
<1>2. b \in Requests /\ Built[b] \in Events /\ p \in Request /\ p.pc = "build" /\ p.event = Built[b]
  BY ConstantTypes, Blanks DEF IdleRequest, Request
<1>3. /\ request[b].pc = "idle" /\ st = None /\ st' = <<b, Built[b]>>
      /\ SetRequest(b, p) /\ UNCHANGED ins
  BY DEF Build, StateMutexFree
<1>4. PICK P \in PrevChoices :
        SetTask(b, Built[b], [NoTask EXCEPT !.pc = "refer", !.prev = P, !.leafs = {Built[b]}])
  BY DEF Build
<1> DEFINE t == [NoTask EXCEPT !.pc = "refer", !.prev = P, !.leafs = {Built[b]}]
<1>5. P \in SUBSET Events  BY <1>1 DEF PrevChoices, TypeOK
<1>6. t \in Task /\ t.pc = "refer"  BY <1>2, <1>5, Blanks DEF NoTask, Task
<1>7. SetTask(b, Built[b], t)  BY <1>4
<1> HIDE DEF p, t
<1>8. /\ task'[b][Built[b]].pc = "refer"
      /\ \A q \in Requests, f \in Events : q # b \/ f # Built[b] => task'[q][f] = task[q][f]
  BY <1>1, <1>2, <1>6, <1>7, TaskSet
<1>9. /\ \A q \in Requests : q # b => request'[q] = request[q]
      /\ request'[b].event = Built[b]
  BY <1>1, <1>2, <1>3, RequestSet
<1>10. \A f \in Events : task[b][f].pc = "none"  BY <1>2, <1>3 DEF IInv, TasksActive, Active
<1>11. TasksBegun'  BY <1>1, <1>8, <1>9 DEF WaitInv, TasksBegun, TypeOK, Request
<1>12. InsertInScope'  BY <1>2, <1>3, <1>8, <1>10 DEF WaitInv, InsertInScope, InsertScope
<1>13. StateInScope'  BY <1>2, <1>3, <1>8 DEF StateInScope, StateScope
<1> QED BY <1>11, <1>12, <1>13 DEF WaitInv

Unheld == Resting /\ st = None /\ ins = None

LEMMA RestWaits == Unheld => WaitInv
<1> SUFFICES ASSUME Resting, st = None, ins = None PROVE WaitInv
  BY DEF Unheld
<1>1. \A r \in Requests : request[r].pc = "idle"  BY DEF IdleRequest, Resting
<1> QED BY <1>1 DEF WaitInv, StateInScope, InsertInScope, TasksBegun

LEMMA NextWaits == IInv /\ WaitInv /\ [Next]_vars => WaitInv'
<1> SUFFICES ASSUME IInv, WaitInv, [Next]_vars PROVE WaitInv'
  OBVIOUS
<1>1. CASE UNCHANGED vars
  BY <1>1 DEF vars, WaitInv, StateInScope, InsertInScope, TasksBegun
<1>2. ASSUME NEW r \in Requests, RequestStep(r) PROVE WaitInv'
  BY <1>2, TaskStepWaits, RequestStepWaits DEF RequestStep
<1>3. CASE Crash
  <2>1. Unheld'  BY <1>3 DEF Crash, Resting, Unheld
  <2> QED BY <2>1, RestWaits, PTL
<1>4. CASE Next
  BY <1>2, <1>3, <1>4, BeginWaits, BuildWaits DEF Next
<1> QED BY <1>1, <1>4

(***************************************************************************)
(* The requests never all wait on one another.  The holder of the          *)
(* insertion mutex wants no other; the holder of the state mutex wants at  *)
(* most that one; every other task wants the state mutex or one of these;  *)
(* and among the ancestors that are left, one has no parent.               *)
(***************************************************************************)
THEOREM NeverStuck == Spec => []NoDeadlock
<1>1. Init => WaitInv
  BY RestWaits DEF Init, Resting, Unheld
<1>2. IInv /\ WaitInv => NoDeadlock
  <2> SUFFICES ASSUME IInv, WaitInv, NEW r \in Requests, request[r].pc # "idle",
                      \A q \in Requests : /\ request[q].pc \notin {"join", "handle", "outlier"}
                                          /\ \A f \in Events : ~CanGoOn(q, f)
               PROVE  FALSE
    BY DEF NoDeadlock
  <2>1. ins = None
    BY DEF WaitInv, InsertInScope, InsertScope, CanGoOn
  <2>2. st = None
    BY <2>1 DEF WaitInv, StateInScope, StateScope, CanGoOn
  <2>3. \A q \in Requests, f \in Events : task[q][f].pc = "none"
    BY <2>1, <2>2 DEF CanGoOn
  <2>4. request[r].pc = "prevs" /\ request[r].event \in Events /\ request[r].left \in SUBSET Remote
    <3>1. request[r] \in Request  BY DEF IInv, TypeOK
    <3>2. request[r].pc \notin {"build", "prepend"}
      BY <2>3, <3>1 DEF WaitInv, TasksBegun, Request
    <3>3. request[r].left \in SUBSET Remote  BY DEF IInv, RequestsRight
    <3> QED BY <3>1, <3>2, <3>3 DEF Request
  <2>5. \E e \in Events : CanStart(r, e)
    <3>1. CASE request[r].left = {}  BY <2>4, <3>1 DEF CanStart
    <3>2. CASE request[r].left # {}
      BY <2>4, <3>2, InboundAssumption, ConstantTypes DEF CanStart
    <3> QED BY <3>1, <3>2
  <2> QED BY <2>3, <2>4, <2>5 DEF CanGoOn
<1> QED BY <1>1, <1>2, Inductive, NextWaits, PTL DEF Spec
=============================================================================
