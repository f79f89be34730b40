----------------------------- MODULE StateStore -----------------------------
(***************************************************************************)
(* What the storage of a room's state promises, without layers, merges,    *)
(* loads and locks: states are saved under numbers and never change, a     *)
(* state is interned once, a reader is shown the state that was saved, and *)
(* every request takes effect at one moment between its start and its end, *)
(* on the state the room has at that moment.                               *)
(***************************************************************************)
EXTENDS Naturals, Sequences

CONSTANTS
    Events, KeyOf, NoKey,   \* events and the slots they fill
    Wants,                  \* states that may be asked for
    Callers                 \* tasks that ask

VARIABLES
    states,     \* states[id]: the state saved under id
    interned,   \* the id a state was interned under
    room,       \* the id of the room's state, 0 before the first
    shown,      \* shown[id]: the state a reader of id is shown
    asked       \* asked[c]: what task c asked for, << >> for nothing

storeVars == <<states, interned, room, shown, asked>>

Nothing == << >>
Requests == ({"append"} \X Events) \cup ({"event", "resolve", "loose"} \X Wants)

Current == IF room = 0 THEN {} ELSE states[room]
InSlotOf(S, e) == {x \in S : KeyOf[x] # KeyOf[e]} \cup {e}
Result(r) == IF r[1] = "append" THEN InSlotOf(Current, r[2]) ELSE r[2]
IsMessage(r) == r[1] = "append" /\ KeyOf[r[2]] = NoKey
IdsOf(S) == {id \in 1 .. Len(states) : states[id] = S}
Entered(f, x, v) == [y \in DOMAIN f \cup {x} |-> IF y = x THEN v ELSE f[y]]

StoreInit ==
    /\ states = << >> /\ interned = << >> /\ room = 0
    /\ shown = << >> /\ asked = [c \in Callers |-> Nothing]

Request(c) ==
    /\ asked[c] = Nothing
    /\ \E r \in Requests : asked' = [asked EXCEPT ![c] = r]
    /\ UNCHANGED <<states, interned, room, shown>>

(***************************************************************************)
(* A state asked for is saved.  An append's is not interned; another is,   *)
(* if it has not been.                                                     *)
(***************************************************************************)
SaveFor(c) ==
    /\ asked[c] # Nothing /\ ~IsMessage(asked[c])
    /\ states' = Append(states, Result(asked[c]))
    /\ IF asked[c][1] = "append"
       THEN UNCHANGED interned
       ELSE /\ Result(asked[c]) \notin DOMAIN interned
            /\ interned' = Entered(interned, Result(asked[c]), Len(states) + 1)
    /\ UNCHANGED <<room, shown, asked>>

(***************************************************************************)
(* A request ends.  The room gets the state asked for, or, for an append,  *)
(* its present state with the event in its slot; a message leaves it, and  *)
(* the state before an event, or one that was only cached, need only have  *)
(* an id.                                                                  *)
(***************************************************************************)
Return(c) ==
    /\ asked[c] # Nothing
    /\ IF IsMessage(asked[c])
       THEN UNCHANGED room
       ELSE \/ /\ asked[c][1] # "event"
               /\ room' \in IdsOf(Result(asked[c]))
            \/ /\ asked[c][1] \in {"event", "loose"}
               /\ IdsOf(Result(asked[c])) # {} /\ UNCHANGED room
    /\ asked' = [asked EXCEPT ![c] = Nothing]
    /\ UNCHANGED <<states, interned, shown>>

(***************************************************************************)
(* A request that cannot read the room's state, or whose event cannot be   *)
(* appended, or whose memberships cannot be updated, leaves the room as it *)
(* was; a save by itself needs none of these.                              *)
(***************************************************************************)
GiveUp(c) ==
    /\ asked[c] # Nothing /\ asked[c][1] \in {"append", "event", "resolve"}
    /\ asked' = [asked EXCEPT ![c] = Nothing]
    /\ UNCHANGED <<states, interned, room, shown>>

Show(id) ==
    /\ shown' = Entered(shown, id, states[id])
    /\ UNCHANGED <<states, interned, room, asked>>

Forget(id) ==
    /\ shown' = [x \in DOMAIN shown \ {id} |-> shown[x]]
    /\ UNCHANGED <<states, interned, room, asked>>

LoseMemory ==
    /\ shown' = << >> /\ asked' = [c \in Callers |-> Nothing]
    /\ UNCHANGED <<states, interned, room>>

StoreNext ==
    \/ \E c \in Callers : Request(c) \/ SaveFor(c) \/ Return(c) \/ GiveUp(c)
    \/ \E id \in 1 .. Len(states) : Show(id) \/ Forget(id)
    \/ LoseMemory

StoreSpec == StoreInit /\ [][StoreNext]_storeVars
=============================================================================
