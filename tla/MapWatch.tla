------------------------------ MODULE MapWatch ------------------------------
(***************************************************************************)
(* The prefix watches of a database map (database/map/watch.rs): a table   *)
(* from prefixes to watch channels, guarded by a mutex, whose entries are  *)
(* made by subscriptions and taken out by notifications that find nobody   *)
(* listening and by the drop guards of one-shot watches.  SyncPoll and     *)
(* PrevGap are its two kinds of user; each operator is one critical        *)
(* section of the table, to be conjoined with what its caller does.        *)
(*                                                                         *)
(* A row is named by the prefix it is watched under.  No prefix in use is  *)
(* a prefix of another (keys end in a separator, have a fixed width or are *)
(* whole, and a user's name ends in the server's), so the reverse walk of  *)
(* notify, which stops at the first candidate that does not match, finds   *)
(* the one that does.                                                      *)
(***************************************************************************)
EXTENDS Integers

CONSTANTS
    Tasks,     \* tasks that hold watch futures
    Prefixes   \* prefixes that are watched

VARIABLES
    entries,   \* Watch::watchers: the prefixes that have a sender
    rx,        \* receivers: rx has <<t, k>> when t can hear from k's sender
    fired      \* receivers that have changed and not been consumed

watchVars == <<entries, rx, fired>>

WatchTypes ==
    /\ entries \in SUBSET Prefixes
    /\ rx \in SUBSET (Tasks \X Prefixes)
    /\ fired \in SUBSET rx
    /\ \A x \in rx : x[2] \in entries

WatchInit == entries = {} /\ rx = {} /\ fired = {}

Receivers(k) == {x \in rx : x[2] = k}
Holds(t) == {x \in rx : x[1] = t}

(***************************************************************************)
(* Map::subscribe joins the sender of an occupied entry or makes a new     *)
(* one; what was sent before is taken as seen.                             *)
(***************************************************************************)
Subscribe(t, K) ==
    /\ entries' = entries \cup K
    /\ rx' = rx \cup ({t} \X K)
    /\ UNCHANGED fired

(***************************************************************************)
(* An entry leaves the table and its sender is dropped with it: receivers  *)
(* that are left are cut off, and a later subscription is a new channel.   *)
(***************************************************************************)
RemoveEntries(K) ==
    /\ entries' = entries \ K
    /\ rx' = {x \in rx : x[2] \notin K}

(***************************************************************************)
(* Map::notify: send reaches every receiver of the prefix; it fails when   *)
(* there is none, and then the entry is reaped.                            *)
(***************************************************************************)
ReapedAll(k) == {k}   \* mutant: takes every entry it notified out of the table
Reaped(k) == IF Receivers(k) = {} THEN {k} ELSE {}

NotifyPrefix(k) ==
    /\ RemoveEntries(Reaped(k))
    /\ fired' = (fired \cup Receivers(k)) \cap rx'

(***************************************************************************)
(* The drop guard of watch_raw_prefix_once: the entry goes if the future's *)
(* own receiver, not dropped yet, is its last.                             *)
(***************************************************************************)
LastUncounted(t, k) == TRUE   \* mutant: removes the entry without counting
LastReceiver(t, k) == Receivers(k) = {<<t, k>>}

GuardPrefix(t, k) ==
    /\ RemoveEntries(IF LastReceiver(t, k) THEN {k} ELSE {})
    /\ fired' = fired \cap rx'

(***************************************************************************)
(* Receivers are dropped: their entries stay until a notification reaps    *)
(* them or somebody joins them.                                            *)
(***************************************************************************)
DropReceivers(X) ==
    /\ rx' = rx \ X
    /\ fired' = fired \ X
    /\ UNCHANGED entries
=============================================================================
