----------------------------- MODULE SharedFetch -----------------------------
(***************************************************************************)
(* What the fetch worker promises its callers, without how.  At most one   *)
(* fetch of a key and at most `Capacity` of them run; a call joins the     *)
(* fetch of its key or starts it; when the fetch ends, everyone who joined *)
(* it and is still there gets its answer, which is Cancelled only if       *)
(* nobody is.  Tokens, the channel, the deferral queue, rounds and re-armed*)
(* attempts are Fetcher's.                                                 *)
(***************************************************************************)
EXTENDS Naturals, FiniteSets

CONSTANTS Callers, Keys, Capacity, None

VARIABLES
    call,      \* call[c]: where the call stands, its key and its answer
    running,   \* the keys being fetched
    closed     \* the service was interrupted

callVars == <<call, running, closed>>

Answers == {"ok", "not_found", "no_candidates", "cancelled"}
NoCall == [pc |-> "idle", key |-> None, answer |-> None]
Told(answer, o) == [pc |-> "done", key |-> o.key, answer |-> answer]

CallsInit ==
    /\ call = [c \in Callers |-> NoCall]
    /\ running = {}
    /\ closed = FALSE

(***************************************************************************)
(* A call is made; after the interrupt it is answered at once.             *)
(***************************************************************************)
Ask(c) ==
    /\ call[c].pc = "idle"
    /\ \E k \in Keys :
         LET asked == [pc |-> "sent", key |-> k, answer |-> call[c].answer]
         IN  call' = [call EXCEPT ![c] = IF closed THEN Told("cancelled", asked) ELSE asked]
    /\ UNCHANGED <<running, closed>>

(***************************************************************************)
(* A call joins the fetch of its key, and starts it if there is none and a *)
(* slot for it.                                                            *)
(***************************************************************************)
Join(c) ==
    /\ call[c].pc = "sent"
    /\ call[c].key \in running \/ Cardinality(running) < Capacity
    /\ call' = [call EXCEPT ![c] = [@ EXCEPT !.pc = "subscribed"]]
    /\ running' = running \cup {call[c].key}
    /\ UNCHANGED closed

Leave(c) ==
    /\ call[c].pc \in {"sent", "subscribed"}
    /\ call' = [call EXCEPT ![c] = [@ EXCEPT !.pc = "gone"]]
    /\ UNCHANGED <<running, closed>>

(***************************************************************************)
(* A fetch ends, for all who joined it at once.                            *)
(***************************************************************************)
JoinedTo(k) == {c \in Callers : call[c].pc = "subscribed" /\ call[c].key = k}

Finish(k, answer) ==
    /\ k \in running
    /\ answer = "cancelled" => JoinedTo(k) = {}
    /\ call' = [c \in Callers |-> IF c \in JoinedTo(k) THEN Told(answer, call[c]) ELSE call[c]]
    /\ running' = running \ {k}
    /\ UNCHANGED closed

(***************************************************************************)
(* The interrupt, and the end of the worker some time after it: who had    *)
(* joined is told Cancelled, who had not may be left to its own.           *)
(***************************************************************************)
Close ==
    /\ ~closed /\ closed' = TRUE
    /\ UNCHANGED <<call, running>>

TellAll ==
    /\ closed
    /\ \E told \in SUBSET {c \in Callers : call[c].pc \in {"sent", "subscribed"}} :
         /\ {c \in Callers : call[c].pc = "subscribed"} \subseteq told
         /\ call' = [c \in Callers |-> IF c \in told THEN Told("cancelled", call[c]) ELSE call[c]]
    /\ running' = {}
    /\ UNCHANGED closed

CallsNext ==
    \/ \E c \in Callers : Ask(c) \/ Join(c) \/ Leave(c)
    \/ \E k \in Keys, answer \in Answers : Finish(k, answer)
    \/ Close
    \/ TellAll

CallsSpec == CallsInit /\ [][CallsNext]_callVars
=============================================================================
