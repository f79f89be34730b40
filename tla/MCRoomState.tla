----------------------------- MODULE MCRoomState -----------------------------
(***************************************************************************)
(* Two slots, one with two events to fill it, and two tasks.  Three ids    *)
(* are enough for a layer on a full state and for both reasons to merge.   *)
(***************************************************************************)
EXTENDS RoomState, TLC

SlotOf == [e \in Events |-> CASE e \in {"a1", "a2"} -> "a"
                              [] e = "b1" -> "b"
                              [] OTHER -> NoKey]
SomeStates == {{"a2", "b1"}}
TaskSymmetry == Permutations(Callers)
=============================================================================
