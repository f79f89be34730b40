------------------------------- MODULE Fetcher -------------------------------
(***************************************************************************)
(* The federation fetch worker (service/fetcher): one task that coalesces  *)
(* callers asking for the same thing onto one fetch, runs at most          *)
(* `Capacity` fetches at a time, defers the rest, and drops a fetch nobody *)
(* waits for any more.                                                     *)
(*                                                                         *)
(* A caller's interest is a reference-counted token: the callers hold it,  *)
(* the worker and the running fetch hold weak references.  A token is      *)
(* named here by the caller whose request created it, and is alive while   *)
(* some subscribed caller holds it.                                        *)
(***************************************************************************)
EXTENDS Integers, Sequences, FiniteSets

CONSTANTS
    Callers,        \* calls of Service::fetch; each calls once
    Keys,           \* single-flight keys (op, room, event, window)
    Capacity,       \* REQUESTS_MAX, 256 in the code
    MaxCandidates,  \* servers a fetch may try
    Growth,         \* FanoutGrowth: its kind, its base and the step or factor
    MaxWidth,       \* fanout_max_width
    MaxRounds,      \* fanout_rounds
    None            \* no key, no token, no entry, no answer yet

Answers == {"ok", "not_found", "no_candidates", "cancelled"}

ASSUME FetcherAssumption ==
    /\ Capacity \in Nat \ {0} /\ MaxCandidates \in Nat
    /\ MaxWidth \in Nat \ {0} /\ MaxRounds \in Nat
    /\ None \notin Callers \cup Keys \cup Answers

(***************************************************************************)
(* FanoutGrowth::round_width.  "Always >= 1": base, step and factor are    *)
(* NonZeroUsize and the arithmetic saturates.                              *)
(***************************************************************************)
GrowthWidth(round) ==
    CASE Growth.kind = "fixed" -> Growth.base
      [] Growth.kind = "linear" -> Growth.base + Growth.by * round
      [] Growth.kind = "geometric" -> Growth.base * Growth.by ^ round

ASSUME GrowthAssumption == \A round \in 0 .. MaxRounds : GrowthWidth(round) \in Nat \ {0}

VARIABLES
    caller,    \* caller[c]: where the call stands, its key, token and answer
    channel,   \* requests sent and not yet received by the worker
    closed,    \* interrupt() closed the channel
    worker,    \* the work loop's position
    inflight,  \* inflight[k]: the token of the entry's `interest`, or None
    futures,   \* the attempt futures the worker polls
    pending    \* deferred requests

vars == <<caller, channel, closed, worker, inflight, futures, pending>>

Caller ==
    [pc: {"idle", "sent", "subscribed", "done", "gone"},
     key: Keys \cup {None}, token: Callers \cup {None},
     answer: Answers \cup {None}]

(***************************************************************************)
(* One run_attempts future: `weak` is the token it checks, `left` the      *)
(* candidates it may still try, `racing` the requests of the current round *)
(* that have not answered.                                                 *)
(***************************************************************************)
Future ==
    [key: Keys, weak: Callers, phase: {"select", "boundary", "race"},
     left: 0 .. MaxCandidates, racing: 0 .. MaxCandidates, round: 0 .. MaxRounds]

(***************************************************************************)
(* Types.  The interesting part: a round never races more servers than it  *)
(* has candidates left, which the clamp of round_width ensures.            *)
(***************************************************************************)
TypeOK ==
    /\ caller \in [Callers -> Caller]
    /\ channel \in Seq(Callers)
    /\ closed \in BOOLEAN
    /\ worker \in {"head", "drain", "select", "admit", "stopped"}
    /\ inflight \in [Keys -> Callers \cup {None}]
    /\ futures \subseteq Future
    /\ pending \in Seq(Callers)

Init ==
    /\ caller = [c \in Callers |->
                   [pc |-> "idle", key |-> None, token |-> None, answer |-> None]]
    /\ channel = <<>>
    /\ closed = FALSE
    /\ worker = "head"
    /\ inflight = [k \in Keys |-> None]
    /\ futures = {}
    /\ pending = <<>>

(***************************************************************************)
(* Weak::upgrade / strong_count: some caller still holds the token.        *)
(***************************************************************************)
Alive(t) == \E c \in Callers : caller[c].pc = "subscribed" /\ caller[c].token = t

AtCapacityLate == Cardinality(futures) > Capacity   \* mutant: off by one
AtCapacity == Cardinality(futures) >= Capacity

-----------------------------------------------------------------------------
(* The callers. *)

(***************************************************************************)
(* Service::fetch sends its request; a closed channel answers at once.     *)
(***************************************************************************)
Fetch(c) ==
    /\ caller[c].pc = "idle"
    /\ \E k \in Keys :
         IF closed
         THEN /\ caller' = [caller EXCEPT ![c] =
                    [@ EXCEPT !.pc = "done", !.key = k, !.answer = "cancelled"]]
              /\ UNCHANGED channel
         ELSE /\ caller' = [caller EXCEPT ![c] =
                    [@ EXCEPT !.pc = "sent", !.key = k]]
              /\ channel' = Append(channel, c)
    /\ UNCHANGED <<closed, worker, inflight, futures, pending>>

(***************************************************************************)
(* The caller's future is dropped, and with it the reply receiver or the   *)
(* interest token.                                                         *)
(***************************************************************************)
Abandon(c) ==
    /\ caller[c].pc \in {"sent", "subscribed"}
    /\ caller' = [caller EXCEPT ![c].pc = "gone"]
    /\ UNCHANGED <<channel, closed, worker, inflight, futures, pending>>

(***************************************************************************)
(* Service::interrupt.                                                     *)
(***************************************************************************)
Interrupt ==
    /\ ~ closed
    /\ closed' = TRUE
    /\ UNCHANGED <<caller, channel, worker, inflight, futures, pending>>

-----------------------------------------------------------------------------
(* Handling one request. *)

NewFuture(k, t) ==
    [key |-> k, weak |-> t, phase |-> "select", left |-> 0, racing |-> 0, round |-> 0]

Subscribed(c, t) ==
    IF caller[c].pc = "sent"
    THEN [caller EXCEPT ![c] = [@ EXCEPT !.pc = "subscribed", !.token = t]]
    ELSE caller

(***************************************************************************)
(* dispatch: a caller whose reply receiver is gone costs no network; the   *)
(* others get an entry, a fresh token and an attempt future.               *)
(***************************************************************************)
DispatchForGone(c) ==   \* mutant: fetches for a caller that left
    /\ caller' = Subscribed(c, c)
    /\ inflight' = [inflight EXCEPT ![caller[c].key] = c]
    /\ futures' = futures \cup {NewFuture(caller[c].key, c)}

Dispatch(c) ==
    LET k == caller[c].key
    IN  /\ caller' = Subscribed(c, c)
        /\ IF caller[c].pc = "sent"
           THEN /\ inflight' = [inflight EXCEPT ![k] = c]
                /\ futures' = futures \cup {NewFuture(k, c)}
           ELSE UNCHANGED <<inflight, futures>>

(***************************************************************************)
(* The two arms of on_request's match: join the running fetch through its  *)
(* live token, or re-arm the entry with a fresh one when every earlier     *)
(* caller is gone.  The running future keeps its old weak reference.       *)
(***************************************************************************)
CoalesceFreshToken(c) ==   \* mutant: re-arms though callers are alive
    LET k == caller[c].key
    IN  /\ inflight' = [inflight EXCEPT ![k] = c]
        /\ caller' = Subscribed(c, c)
        /\ UNCHANGED futures

Coalesce(c) ==
    LET k == caller[c].key
        t == IF Alive(inflight[k]) THEN inflight[k] ELSE c
    IN  /\ inflight' = [inflight EXCEPT ![k] = t]
        /\ caller' = Subscribed(c, t)
        /\ UNCHANGED futures

(***************************************************************************)
(* on_request for caller c, with `queue` the deferral queue it finds.      *)
(***************************************************************************)
OnRequestNoCoalesce(c, queue) ==   \* mutant: fetches a key in flight again
    \/ /\ inflight[caller[c].key] = None /\ AtCapacity
       /\ pending' = Append(queue, c)
       /\ UNCHANGED <<inflight, futures, caller>>
    \/ /\ inflight[caller[c].key] # None \/ ~ AtCapacity
       /\ pending' = queue
       /\ Dispatch(c)

OnRequest(c, queue) ==
    \/ /\ inflight[caller[c].key] = None
       /\ AtCapacity
       /\ pending' = Append(queue, c)
       /\ UNCHANGED <<inflight, futures, caller>>
    \/ /\ inflight[caller[c].key] = None
       /\ ~ AtCapacity
       /\ pending' = queue
       /\ Dispatch(c)
    \/ /\ inflight[caller[c].key] # None
       /\ pending' = queue
       /\ Coalesce(c)

-----------------------------------------------------------------------------
(* The work loop. *)

(***************************************************************************)
(* `while !rx.is_closed()`.  Leaving the loop drops the worker's stack:    *)
(* result channels and deferred replies close, and whoever waits on one    *)
(* is told Cancelled.  Requests still in the channel are not drained.      *)
(***************************************************************************)
Stop ==
    /\ caller' = [c \in Callers |->
         IF \/ caller[c].pc = "subscribed"
            \/ caller[c].pc = "sent" /\ \E i \in 1 .. Len(pending) : pending[i] = c
         THEN [caller[c] EXCEPT !.pc = "done", !.answer = "cancelled"]
         ELSE caller[c]]
    /\ worker' = "stopped"
    /\ inflight' = [k \in Keys |-> None]
    /\ futures' = {}
    /\ pending' = <<>>
    /\ UNCHANGED <<channel, closed>>

LoopHead ==
    /\ worker = "head"
    /\ \/ closed /\ Stop
       \/ /\ ~ closed
          /\ worker' = "drain"
          /\ UNCHANGED <<caller, channel, closed, inflight, futures, pending>>

(***************************************************************************)
(* `while let Ok(msg) = rx.try_recv()`, then on to the select.             *)
(***************************************************************************)
Drain ==
    /\ worker = "drain"
    /\ \/ /\ channel # <<>>
          /\ channel' = Tail(channel)
          /\ OnRequest(Head(channel), pending)
          /\ UNCHANGED <<closed, worker>>
       \/ /\ channel = <<>>
          /\ worker' = "select"
          /\ UNCHANGED <<caller, channel, closed, inflight, futures, pending>>

(***************************************************************************)
(* The select's second arm: one request, or the channel found closed.      *)
(***************************************************************************)
Receive ==
    /\ worker = "select"
    /\ \/ /\ channel # <<>>
          /\ channel' = Tail(channel)
          /\ OnRequest(Head(channel), pending)
          /\ worker' = "head"
          /\ UNCHANGED closed
       \/ channel = <<>> /\ closed /\ Stop

-----------------------------------------------------------------------------
(* run_attempts: the steps of a future, polled inside the select.          *)

SelectMin(a, b) == IF a <= b THEN a ELSE b

(***************************************************************************)
(* The growth of the round, clamped to the configured maximum and to the   *)
(* remaining budget.                                                       *)
(***************************************************************************)
RoundWidth(round, budget) == SelectMin(SelectMin(GrowthWidth(round), MaxWidth), budget)

Progress(f, g) ==
    /\ futures' = (futures \ {f}) \cup {g}
    /\ UNCHANGED <<caller, channel, closed, worker, inflight, pending>>

(***************************************************************************)
(* on_complete, run in the same poll that the future finishes in.  A       *)
(* Cancelled future whose entry was re-armed is pushed again with the new  *)
(* token; otherwise the result goes to every subscriber, the entry is      *)
(* removed, and the freed slot re-admits deferred requests.                *)
(***************************************************************************)
Publish(k, result) ==
    [c \in Callers |->
       IF caller[c].pc = "subscribed" /\ caller[c].key = k
       THEN [caller[c] EXCEPT !.pc = "done", !.answer = result]
       ELSE caller[c]]

OnCompletePublishes(f, result) ==   \* mutant: a stale Cancelled is published
    /\ caller' = Publish(f.key, result)
    /\ inflight' = [inflight EXCEPT ![f.key] = None]
    /\ futures' = futures \ {f}
    /\ worker' = "admit"
    /\ UNCHANGED <<channel, closed, pending>>

OnCompleteKeepsSlot(f, result) ==   \* mutant: no re-admission
    /\ caller' = Publish(f.key, result)
    /\ inflight' = [inflight EXCEPT ![f.key] = None]
    /\ futures' = futures \ {f}
    /\ worker' = "head"
    /\ UNCHANGED <<channel, closed, pending>>

OnComplete(f, result) ==
    IF result = "cancelled" /\ Alive(inflight[f.key])
    THEN /\ futures' = (futures \ {f}) \cup {NewFuture(f.key, inflight[f.key])}
         /\ worker' = "head"
         /\ UNCHANGED <<caller, channel, closed, inflight, pending>>
    ELSE /\ caller' = Publish(f.key, result)
         /\ inflight' = [inflight EXCEPT ![f.key] = None]
         /\ futures' = futures \ {f}
         /\ worker' = "admit"
         /\ UNCHANGED <<channel, closed, pending>>

(***************************************************************************)
(* Candidate selection: how many servers there are to try.                 *)
(***************************************************************************)
SelectCandidates(f) ==
    /\ f.phase = "select"
    /\ \E n \in 0 .. MaxCandidates :
         IF n = 0 THEN OnComplete(f, "no_candidates")
         ELSE Progress(f, [f EXCEPT !.phase = "boundary", !.left = n])

(***************************************************************************)
(* The top of the attempt loop: out of candidates, nobody interested, out  *)
(* of rounds, or race the next window.                                     *)
(***************************************************************************)
StartRound(f) ==
    /\ f.phase = "boundary"
    /\ IF f.left = 0 THEN OnComplete(f, "not_found")
       ELSE IF ~ Alive(f.weak) THEN OnComplete(f, "cancelled")
       ELSE IF f.round >= MaxRounds THEN OnComplete(f, "not_found")
       ELSE Progress(f, [f EXCEPT !.phase = "race", !.racing = RoundWidth(f.round, f.left)])

(***************************************************************************)
(* A racing request answers: a clean response ends the fetch, an error or  *)
(* a poisoned body is a miss, after which interest is looked at again.     *)
(***************************************************************************)
AttemptHit(f) ==
    /\ f.phase = "race"
    /\ OnComplete(f, "ok")

AttemptMiss(f) ==
    /\ f.phase = "race"
    /\ IF ~ Alive(f.weak) THEN OnComplete(f, "cancelled")
       ELSE IF f.racing > 1
       THEN Progress(f, [f EXCEPT !.racing = @ - 1, !.left = @ - 1])
       ELSE Progress(f, [f EXCEPT !.phase = "boundary", !.racing = 0,
                                  !.left = @ - 1, !.round = @ + 1])

Poll(f) ==
    /\ worker = "select"
    /\ SelectCandidates(f) \/ StartRound(f) \/ AttemptHit(f) \/ AttemptMiss(f)

(***************************************************************************)
(* on_complete's re-admission loop, one deferred request at a time; only   *)
(* callers can act between two of them.                                    *)
(***************************************************************************)
Admit ==
    /\ worker = "admit"
    /\ \/ /\ ~ AtCapacity /\ pending # <<>>
          /\ OnRequest(Head(pending), Tail(pending))
          /\ UNCHANGED <<channel, closed, worker>>
       \/ /\ AtCapacity \/ pending = <<>>
          /\ worker' = "head"
          /\ UNCHANGED <<caller, channel, closed, inflight, futures, pending>>

WorkerStep == LoopHead \/ Drain \/ Receive \/ Admit

Next ==
    \/ \E c \in Callers : Fetch(c) \/ Abandon(c)
    \/ Interrupt
    \/ WorkerStep
    \/ \E f \in futures : Poll(f)

Spec == Init /\ [][Next]_vars

(***************************************************************************)
(* The worker task is polled, and every federation request ends by answer  *)
(* or timeout, so a fetch that exists keeps progressing.  No fairness for  *)
(* calling, abandoning or interrupting.                                    *)
(***************************************************************************)
PollKey(k) == \E f \in futures : f.key = k /\ Poll(f)
FairSpec ==
    /\ Spec
    /\ WF_vars(WorkerStep)
    /\ \A k \in Keys : SF_vars(PollKey(k))

-----------------------------------------------------------------------------
(***************************************************************************)
(* Single flight: at most one fetch per key, and the in-flight map has an  *)
(* entry exactly for the keys being fetched.  An entry without a future    *)
(* would strand its subscribers, a future without an entry would be        *)
(* dropped by on_complete.                                                 *)
(***************************************************************************)
SingleFlight ==
    /\ \A f, g \in futures : f.key = g.key => f = g
    /\ \A k \in Keys : inflight[k] # None <=> \E f \in futures : f.key = k

(***************************************************************************)
(* Every subscriber of a key holds the entry's current token: re-arming    *)
(* happens only when the old token is dead, so no live caller is left      *)
(* depending on a token the worker no longer looks at.                     *)
(***************************************************************************)
SubscribersHoldToken ==
    \A c \in Callers :
        caller[c].pc = "subscribed" => caller[c].token = inflight[caller[c].key]

(***************************************************************************)
(* The capacity bounds the fetches, and requests are deferred only while   *)
(* it is used up: a free slot never sits beside a deferred request once    *)
(* the worker is back at its loop.                                         *)
(***************************************************************************)
DeferredOnlyWhenFull ==
    /\ Cardinality(futures) <= Capacity
    /\ worker \in {"head", "drain", "select"} /\ pending # <<>> =>
         Cardinality(futures) = Capacity

(***************************************************************************)
(* A caller that is still waiting is never told Cancelled while the        *)
(* service runs, whatever the others who shared its fetch did              *)
(* (on_complete: "rather than publishing a stale Cancelled").              *)
(***************************************************************************)
NoStaleCancel ==
    \A c \in Callers : caller[c].answer = "cancelled" => closed

(***************************************************************************)
(* Every call returns or is abandoned, unless the service is interrupted;  *)
(* a caller that already has its subscription returns even then.           *)
(***************************************************************************)
CallsReturn ==
    \A c \in Callers :
        /\ caller[c].pc = "sent" ~> caller[c].pc # "sent" \/ closed
        /\ caller[c].pc = "subscribed" ~> caller[c].pc # "subscribed"

-----------------------------------------------------------------------------
(***************************************************************************)
(* The worker implements the abstract sharing of fetches: one fetch runs   *)
(* for each entry of the in-flight map, and the attempts, rounds, deferrals*)
(* and re-armed futures behind it are no steps of a caller's.              *)
(***************************************************************************)
CallOf(o) == [pc |-> o.pc, key |-> o.key, answer |-> o.answer]
calls == [c \in Callers |-> CallOf(caller[c])]
fetching == {k \in Keys : inflight[k] # None}
Shared == INSTANCE SharedFetch WITH call <- calls, running <- fetching

\* fetch as its callers see it: on_request, on_complete and the interrupt join,
\* end and cancel shared fetches and do nothing else to a call.
ImplementsCalls == Shared!CallsSpec
=============================================================================
