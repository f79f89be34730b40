------------------------------ MODULE PrevGap -------------------------------
(***************************************************************************)
(* await_prev_gap (event_handler/fetch_prev.rs): before fetching the prev  *)
(* events of an incoming event, a handler waits a while for concurrent     *)
(* handlers to bring them in.  For each missing event it holds a one-shot  *)
(* watch of the eventid_pduid row (watch_event, watch_raw_prefix_once),    *)
(* registered before it looks whether the event is there.                  *)
(***************************************************************************)
EXTENDS MapWatch

Events == Prefixes
Handlers == Tasks

VARIABLES
    stored,      \* events whose eventid_pduid row is readable
    notifying,   \* events whose row has changed, notify to come
    gap          \* gap[o][e]: handler o's future for event e

gapVars == <<watchVars, stored, notifying, gap>>

(***************************************************************************)
(* A future: not made, registered, kept after the recheck, running its     *)
(* drop guard, past it with the receiver not dropped yet, gone.            *)
(***************************************************************************)
GapStates == {"none", "watched", "pending", "guard", "drop", "gone"}

(***************************************************************************)
(* Types, among them that every receiver has its sender in the table.      *)
(***************************************************************************)
GapTypeOK ==
    /\ WatchTypes
    /\ stored \in SUBSET Events
    /\ notifying \in SUBSET Events
    /\ gap \in [Handlers -> [Events -> GapStates]]

GapInit ==
    /\ WatchInit
    /\ stored = {}
    /\ notifying = {}
    /\ gap = [o \in Handlers |-> [e \in Events |-> "none"]]

(***************************************************************************)
(* Another handler stores the event, or a purge removes its row: the map   *)
(* changes, and then its watchers are notified.                            *)
(***************************************************************************)
ChangeRow(e) ==
    /\ e \notin notifying
    /\ stored' = IF e \in stored THEN stored \ {e} ELSE stored \cup {e}
    /\ notifying' = notifying \cup {e}
    /\ UNCHANGED <<watchVars, gap>>

NotifyRow(e) ==
    /\ e \in notifying
    /\ NotifyPrefix(e)
    /\ notifying' = notifying \ {e}
    /\ UNCHANGED <<stored, gap>>

(***************************************************************************)
(* The stream that fills `pending`: one event after the other is watched,  *)
(* then looked for.  If it is there, in the timeline or as an outlier,     *)
(* its future is dropped unpolled, before there is a drop guard.  Whether  *)
(* an outlier is there is left open; an outlier row notifies nobody.       *)
(***************************************************************************)
WatchEvent(o, e) ==
    /\ gap[o][e] = "none"
    /\ \A f \in Events : gap[o][f] # "watched"
    /\ Subscribe(o, {e})
    /\ gap' = [gap EXCEPT ![o][e] = "watched"]
    /\ UNCHANGED <<stored, notifying>>

RecheckNothing(o, e) ==   \* mutant: only watches, never looks
    /\ gap[o][e] = "watched"
    /\ gap' = [gap EXCEPT ![o][e] = "pending"]
    /\ UNCHANGED <<watchVars, stored, notifying>>

Recheck(o, e) ==
    /\ gap[o][e] = "watched"
    /\ \/ /\ gap' = [gap EXCEPT ![o][e] = "gone"]
          /\ DropReceivers({<<o, e>>})
       \/ /\ e \notin stored
          /\ gap' = [gap EXCEPT ![o][e] = "pending"]
          /\ UNCHANGED watchVars
    /\ UNCHANGED <<stored, notifying>>

(***************************************************************************)
(* pending.count(): all futures are polled; one whose watch fired is done. *)
(* At the deadline the rest is dropped.                                    *)
(***************************************************************************)
Polled(o) == \A f \in Events : gap[o][f] \notin {"none", "watched"}

GapWake(o, e) ==
    /\ gap[o][e] = "pending"
    /\ Polled(o)
    /\ <<o, e>> \in fired
    /\ gap' = [gap EXCEPT ![o][e] = "guard"]
    /\ UNCHANGED <<watchVars, stored, notifying>>

GapDeadline(o) ==
    /\ Polled(o)
    /\ \E f \in Events : gap[o][f] = "pending"
    /\ gap' = [gap EXCEPT ![o] = [f \in Events |-> IF @[f] = "pending" THEN "guard" ELSE @[f]]]
    /\ UNCHANGED <<watchVars, stored, notifying>>

(***************************************************************************)
(* The end of a polled future: the drop guard under the table's mutex,     *)
(* then the receiver, so two guards may each count the other's receiver.   *)
(***************************************************************************)
DropGuard(o, e) ==
    /\ gap[o][e] = "guard"
    /\ GuardPrefix(o, e)
    /\ gap' = [gap EXCEPT ![o][e] = "drop"]
    /\ UNCHANGED <<stored, notifying>>

DropReceiver(o, e) ==
    /\ gap[o][e] = "drop"
    /\ DropReceivers({<<o, e>>})
    /\ gap' = [gap EXCEPT ![o][e] = "gone"]
    /\ UNCHANGED <<stored, notifying>>

(***************************************************************************)
(* The wait returns, and the handler waits again for another event's sake. *)
(***************************************************************************)
GapReturn(o) ==
    /\ \A e \in Events : gap[o][e] = "gone"
    /\ gap' = [gap EXCEPT ![o] = [f \in Events |-> "none"]]
    /\ UNCHANGED <<watchVars, stored, notifying>>

GapStep(o, e) ==
    \/ WatchEvent(o, e) \/ Recheck(o, e) \/ GapWake(o, e) \/ DropGuard(o, e) \/ DropReceiver(o, e)

GapNext ==
    \/ \E e \in Events : ChangeRow(e) \/ NotifyRow(e)
    \/ \E o \in Handlers : GapDeadline(o) \/ GapReturn(o)
    \/ \E o \in Handlers, e \in Events : GapStep(o, e)

GapSpec == GapInit /\ [][GapNext]_gapVars

(***************************************************************************)
(* An insert runs to its end, and a runnable handler is polled.  Nothing   *)
(* is assumed of the deadline.                                             *)
(***************************************************************************)
GapFairSpec ==
    /\ GapSpec
    /\ \A e \in Events : WF_gapVars(NotifyRow(e))
    /\ \A o \in Handlers, e \in Events : WF_gapVars(GapStep(o, e))

-----------------------------------------------------------------------------
(***************************************************************************)
(* A future that waits can be woken: its own receiver is still connected,  *)
(* whatever reaping and drop guards of other handlers did to the entry.    *)
(* Otherwise changed() fails and the handler panics ("watcher sender       *)
(* dropped").                                                              *)
(***************************************************************************)
SendersKept ==
    \A o \in Handlers, e \in Events : gap[o][e] \in {"watched", "pending"} => <<o, e>> \in rx

(***************************************************************************)
(* "Each watcher registers before its existence recheck, so a prev that    *)
(* arrives during the recheck still wakes us": a future that waits unfired *)
(* for an event that is there has its notification still to come.          *)
(***************************************************************************)
NoGapSlept ==
    \A o \in Handlers, e \in Events :
        (gap[o][e] = "pending" /\ <<o, e>> \notin fired /\ e \in stored) => e \in notifying

(***************************************************************************)
(* Every wait for an event that is stored ends, without the deadline.      *)
(***************************************************************************)
GapCloses ==
    \A o \in Handlers, e \in Events :
        (gap[o][e] = "pending" /\ e \in stored) ~> (gap[o][e] # "pending")
=============================================================================
