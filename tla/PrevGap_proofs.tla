--------------------------- MODULE PrevGap_proofs ---------------------------
(***************************************************************************)
(* Proofs about the waits for missing prev events, for any handlers and    *)
(* any events.                                                             *)
(***************************************************************************)
EXTENDS PrevGap, TLAPS

(***************************************************************************)
(* The inductive invariant.  SendersKept is what makes NoGapSlept survive  *)
(* a notification: it reaches the receiver of every future that waits.     *)
(***************************************************************************)
GapInv == GapTypeOK /\ SendersKept /\ NoGapSlept

(***************************************************************************)
(* Critical sections of the table keep its types.                          *)
(***************************************************************************)
LEMMA SubscribeKeeps ==
    ASSUME WatchTypes, NEW t \in Tasks, NEW k \in Prefixes, Subscribe(t, {k})
    PROVE  WatchTypes' /\ rx \subseteq rx' /\ <<t, k>> \in rx' /\ fired' = fired
BY DEF WatchTypes, Subscribe

(***************************************************************************)
(* A notification cuts nobody off, and fires all receivers of its prefix.  *)
(***************************************************************************)
LEMMA NotifyKeeps ==
    ASSUME WatchTypes, NEW k \in Prefixes, NotifyPrefix(k)
    PROVE  /\ WatchTypes' /\ rx' = rx /\ fired \subseteq fired'
           /\ \A t \in Tasks : <<t, k>> \in rx => <<t, k>> \in fired'
<1>1. rx' = rx
  BY DEF WatchTypes, NotifyPrefix, RemoveEntries, Reaped, Receivers
<1>2. \A x \in rx : x[2] \in entries'
  BY DEF WatchTypes, NotifyPrefix, RemoveEntries, Reaped, Receivers
<1>3. fired' \subseteq rx /\ fired \subseteq fired'
  BY <1>1 DEF WatchTypes, NotifyPrefix, Receivers
<1>4. \A t \in Tasks : <<t, k>> \in rx => <<t, k>> \in fired'
  BY <1>1 DEF NotifyPrefix, Receivers
<1> QED BY <1>1, <1>2, <1>3, <1>4 DEF WatchTypes, NotifyPrefix, RemoveEntries

(***************************************************************************)
(* A drop guard cuts off nobody but, at most, its own future.              *)
(***************************************************************************)
LEMMA GuardKeeps ==
    ASSUME WatchTypes, NEW t \in Tasks, NEW k \in Prefixes, GuardPrefix(t, k)
    PROVE  /\ WatchTypes'
           /\ \A x \in rx : x # <<t, k>> => x \in rx' /\ (x \in fired => x \in fired')
<1>1. CASE LastReceiver(t, k)
  <2>1. \A x \in rx : x # <<t, k>> => x[2] # k
    BY <1>1 DEF LastReceiver, Receivers
  <2>2. entries' = entries \ {k} /\ rx' = {x \in rx : x[2] # k} /\ fired' = fired \cap rx'
    BY <1>1 DEF GuardPrefix, RemoveEntries
  <2> QED BY <2>1, <2>2 DEF WatchTypes
<1>2. CASE ~LastReceiver(t, k)
  <2>1. entries' = entries /\ rx' = rx /\ fired' = fired \cap rx'
    BY <1>2 DEF GuardPrefix, RemoveEntries
  <2> QED BY <2>1 DEF WatchTypes
<1> QED BY <1>1, <1>2

(***************************************************************************)
(* Dropping receivers leaves the others as they are.                       *)
(***************************************************************************)
LEMMA DropKeeps ==
    ASSUME WatchTypes, NEW X, DropReceivers(X)
    PROVE  /\ WatchTypes'
           /\ \A x \in rx : x \notin X => x \in rx' /\ (x \in fired => x \in fired')
BY DEF WatchTypes, DropReceivers

-----------------------------------------------------------------------------
(***************************************************************************)
(* No future and no receiver at first.                                     *)
(***************************************************************************)
LEMMA GapInitInv == GapInit => GapInv
BY DEF GapInit, GapInv, GapTypeOK, WatchInit, WatchTypes, SendersKept, NoGapSlept,
       GapStates, Events, Handlers

(***************************************************************************)
(* A step of one future that leaves the receivers of all others connected, *)
(* and those that fired fired, keeps the invariant, if the future itself   *)
(* does not wait afterwards, or waits connected for an event not there.    *)
(***************************************************************************)
LEMMA FutureKeeps ==
    ASSUME GapInv, NEW o \in Handlers, NEW e \in Events, NEW s \in GapStates,
           WatchTypes',
           (\A x \in rx : x # <<o, e>> => x \in rx' /\ (x \in fired => x \in fired')),
           gap' = [gap EXCEPT ![o][e] = s],
           UNCHANGED <<stored, notifying>>,
           s \in {"watched", "pending"} => <<o, e>> \in rx',
           s = "pending" => e \notin stored
    PROVE  GapInv'
<1>1. GapTypeOK'
  BY DEF GapInv, GapTypeOK
<1>2. ASSUME NEW p \in Handlers, NEW f \in Events
      PROVE  /\ <<p, f>> = <<o, e>> => gap'[p][f] = s
             /\ <<p, f>> # <<o, e>> => gap'[p][f] = gap[p][f]
  BY DEF GapInv, GapTypeOK
<1>3. SendersKept'
  <2> SUFFICES ASSUME NEW p \in Handlers, NEW f \in Events, gap'[p][f] \in {"watched", "pending"}
               PROVE  <<p, f>> \in rx'
    BY DEF SendersKept
  <2>1. CASE <<p, f>> = <<o, e>>  BY <2>1, <1>2
  <2>2. CASE <<p, f>> # <<o, e>>
    BY <2>2, <1>2 DEF GapInv, SendersKept
  <2> QED BY <2>1, <2>2
<1>4. NoGapSlept'
  <2> SUFFICES ASSUME NEW p \in Handlers, NEW f \in Events,
                      gap'[p][f] = "pending", <<p, f>> \notin fired', f \in stored'
               PROVE  f \in notifying'
    BY DEF NoGapSlept
  <2>1. CASE <<p, f>> = <<o, e>>  BY <2>1, <1>2
  <2>2. CASE <<p, f>> # <<o, e>>
    <3>1. gap[p][f] = "pending" /\ <<p, f>> \in rx
      BY <2>2, <1>2 DEF GapInv, SendersKept
    <3> QED BY <3>1, <2>2 DEF GapInv, NoGapSlept
  <2> QED BY <2>1, <2>2
<1> QED BY <1>1, <1>3, <1>4 DEF GapInv

(***************************************************************************)
(* A step that only moves futures of one handler out of waiting.           *)
(***************************************************************************)
LEMMA LeaveKeeps ==
    ASSUME GapInv, gap' \in [Handlers -> [Events -> GapStates]],
           UNCHANGED <<watchVars, stored, notifying>>,
           \A o \in Handlers, e \in Events :
               gap'[o][e] \in {"watched", "pending"} => gap'[o][e] = gap[o][e]
    PROVE  GapInv'
BY DEF GapInv, GapTypeOK, WatchTypes, SendersKept, NoGapSlept, watchVars

(***************************************************************************)
(* Every step keeps the invariant: writes and notifications, deadlines and *)
(* returns, and the steps of a future.                                     *)
(***************************************************************************)
LEMMA GapNextInv == GapInv /\ [GapNext]_gapVars => GapInv'
<1> SUFFICES ASSUME GapInv, [GapNext]_gapVars PROVE GapInv'
  OBVIOUS
<1> USE DEF Handlers, Events
<1>0. WatchTypes /\ gap \in [Handlers -> [Events -> GapStates]]
  BY DEF GapInv, GapTypeOK
<1>1. CASE UNCHANGED gapVars
  BY <1>1 DEF gapVars, watchVars, GapInv, GapTypeOK, WatchTypes, SendersKept, NoGapSlept
<1>2. ASSUME NEW e \in Events, ChangeRow(e) PROVE GapInv'
  BY <1>2 DEF ChangeRow, watchVars, GapInv, GapTypeOK, WatchTypes, SendersKept, NoGapSlept
<1>3. ASSUME NEW e \in Events, NotifyRow(e) PROVE GapInv'
  <2>1. WatchTypes' /\ rx' = rx /\ fired \subseteq fired'
        /\ \A t \in Tasks : <<t, e>> \in rx => <<t, e>> \in fired'
    BY <1>0, <1>3, NotifyKeeps DEF NotifyRow
  <2> QED BY <1>3, <2>1 DEF NotifyRow, GapInv, GapTypeOK, SendersKept, NoGapSlept
<1>4. ASSUME NEW o \in Handlers, GapDeadline(o) PROVE GapInv'
  <2>1. /\ gap' \in [Handlers -> [Events -> GapStates]]
        /\ \A p \in Handlers, f \in Events :
             gap'[p][f] \in {"watched", "pending"} => gap'[p][f] = gap[p][f]
    BY <1>0, <1>4 DEF GapDeadline, GapStates
  <2> QED BY <1>4, <2>1, LeaveKeeps DEF GapDeadline
<1>5. ASSUME NEW o \in Handlers, GapReturn(o) PROVE GapInv'
  <2>1. /\ gap' \in [Handlers -> [Events -> GapStates]]
        /\ \A p \in Handlers, f \in Events :
             gap'[p][f] \in {"watched", "pending"} => gap'[p][f] = gap[p][f]
    BY <1>0, <1>5 DEF GapReturn, GapStates
  <2> QED BY <1>5, <2>1, LeaveKeeps DEF GapReturn
<1>6. ASSUME NEW o \in Handlers, NEW e \in Events, GapStep(o, e) PROVE GapInv'
  <2>1. CASE WatchEvent(o, e)
    <3>1. WatchTypes' /\ rx \subseteq rx' /\ <<o, e>> \in rx' /\ fired' = fired
      BY <1>0, <2>1, SubscribeKeeps DEF WatchEvent
    <3> QED BY <2>1, <3>1, FutureKeeps DEF WatchEvent, GapStates
  <2>2. CASE Recheck(o, e)
    <3>1. CASE gap' = [gap EXCEPT ![o][e] = "gone"] /\ DropReceivers({<<o, e>>})
      <4>1. /\ WatchTypes'
            /\ \A x \in rx : x # <<o, e>> => x \in rx' /\ (x \in fired => x \in fired')
        BY <1>0, <3>1, DropKeeps
      <4> QED BY <2>2, <3>1, <4>1, FutureKeeps DEF Recheck, GapStates
    <3>2. CASE e \notin stored /\ gap' = [gap EXCEPT ![o][e] = "pending"] /\ UNCHANGED watchVars
      <4>1. gap[o][e] = "watched" /\ <<o, e>> \in rx'
        BY <2>2, <3>2 DEF Recheck, GapInv, SendersKept, watchVars
      <4>2. WatchTypes' /\ rx' = rx /\ fired' = fired
        BY <1>0, <3>2 DEF WatchTypes, watchVars
      <4> QED BY <2>2, <3>2, <4>1, <4>2, FutureKeeps DEF Recheck, GapStates
    <3> QED BY <2>2, <3>1, <3>2 DEF Recheck
  <2>3. CASE GapWake(o, e)
    <3>1. WatchTypes' /\ rx' = rx /\ fired' = fired
      BY <1>0, <2>3 DEF WatchTypes, watchVars, GapWake
    <3> QED BY <2>3, <3>1, FutureKeeps DEF GapWake, GapStates
  <2>4. CASE DropGuard(o, e)
    BY <1>0, <2>4, GuardKeeps, FutureKeeps DEF DropGuard, GapStates
  <2>5. CASE DropReceiver(o, e)
    BY <1>0, <2>5, DropKeeps, FutureKeeps DEF DropReceiver, GapStates
  <2> QED BY <1>6, <2>1, <2>2, <2>3, <2>4, <2>5 DEF GapStep
<1> QED BY <1>1, <1>2, <1>3, <1>4, <1>5, <1>6 DEF GapNext

(***************************************************************************)
(* The invariant holds in every state of every behaviour.                  *)
(***************************************************************************)
LEMMA GapInductive == GapSpec => []GapInv
BY GapInitInv, GapNextInv, PTL DEF GapSpec

(***************************************************************************)
(* Every variable keeps its type; in particular every receiver has its     *)
(* sender in the table, and only receivers have fired.                     *)
(***************************************************************************)
THEOREM GapTypes == GapSpec => []GapTypeOK
BY GapInductive, PTL DEF GapInv

(***************************************************************************)
(* watch_raw_prefix_once never cuts off another future: no wait for a prev *)
(* event panics because its sender is gone.                                *)
(***************************************************************************)
THEOREM WaitersKeepSenders == GapSpec => []SendersKept
BY GapInductive, PTL DEF GapInv

(***************************************************************************)
(* await_prev_gap registers before it looks, so no wait sleeps through the *)
(* arrival of its event.                                                   *)
(***************************************************************************)
THEOREM NoWaitSleepsThrough == GapSpec => []NoGapSlept
BY GapInductive, PTL DEF GapInv
=============================================================================
