---------------------------- MODULE Fetcher_proofs ----------------------------
(***************************************************************************)
(* The fetch worker's safety for any callers, keys, capacity and fan-out.  *)
(***************************************************************************)
EXTENDS Fetcher, FiniteSetTheorems, SequenceTheorems, TLAPS

(***************************************************************************)
(* The inductive invariant.  Beside the properties themselves: a request   *)
(* the worker can still meet names a key, and a round races at least one   *)
(* and at most the remaining candidates, and only rounds within the limit  *)
(* are raced.                                                              *)
(***************************************************************************)
KeysKnown ==
    /\ \A i \in 1 .. Len(channel) : caller[channel[i]].key \in Keys
    /\ \A i \in 1 .. Len(pending) : caller[pending[i]].key \in Keys
    /\ \A c \in Callers : caller[c].pc = "subscribed" =>
           caller[c].key \in Keys /\ caller[c].token \in Callers

RaceInWindow(f) ==
    /\ f.racing <= f.left
    /\ f.phase # "race" => f.racing = 0
    /\ f.phase = "race" => f.racing > 0 /\ f.round < MaxRounds

RacesInWindow == \A f \in futures : RaceInWindow(f)

FetchInv ==
    /\ TypeOK
    /\ KeysKnown
    /\ RacesInWindow
    /\ SingleFlight
    /\ SubscribersHoldToken
    /\ IsFiniteSet(futures)
    /\ DeferredOnlyWhenFull
    /\ NoStaleCancel

(***************************************************************************)
(* A started round races at least one server and none it does not have.    *)
(***************************************************************************)
LEMMA RoundWidthInBudget ==
    ASSUME NEW round \in 0 .. MaxRounds, NEW budget \in Nat \ {0}
    PROVE  RoundWidth(round, budget) \in 1 .. budget
<1>1. GrowthWidth(round) \in Nat \ {0}  BY GrowthAssumption
<1> QED BY <1>1, FetcherAssumption DEF RoundWidth, SelectMin

(***************************************************************************)
(* A fresh attempt is well-formed.                                         *)
(***************************************************************************)
LEMMA NewFutureType ==
    ASSUME NEW k \in Keys, NEW t \in Callers
    PROVE  /\ NewFuture(k, t) \in Future
           /\ RaceInWindow(NewFuture(k, t))
           /\ NewFuture(k, t).key = k
BY FetcherAssumption DEF NewFuture, Future, RaceInWindow

(***************************************************************************)
(* Replacing one element of a finite set by one that is not in it keeps    *)
(* the cardinality.                                                        *)
(***************************************************************************)
LEMMA SwapCardinality ==
    ASSUME NEW S, IsFiniteSet(S), NEW x \in S, NEW y, y \notin S \ {x}
    PROVE  /\ IsFiniteSet((S \ {x}) \cup {y})
           /\ Cardinality((S \ {x}) \cup {y}) = Cardinality(S)
<1> DEFINE R == S \ {x}
<1>1. IsFiniteSet(R) /\ Cardinality(R) = Cardinality(S) - 1
  BY FS_RemoveElement
<1>2. Cardinality(S) \in Nat
  BY FS_CardinalityType
<1> HIDE DEF R
<1>3. y \notin R
  BY DEF R
<1>4. IsFiniteSet(R \cup {y}) /\ Cardinality(R \cup {y}) = Cardinality(R) + 1
  BY <1>1, <1>3, FS_AddElement
<1> QED BY <1>1, <1>2, <1>4 DEF R

(***************************************************************************)
(* Handling a request, from the channel or from the deferral queue: it     *)
(* joins or starts the one fetch of its key, or waits for a slot.          *)
(***************************************************************************)
LEMMA OnRequestKeeps ==
    ASSUME FetchInv, NEW c \in Callers, NEW queue \in Seq(Callers),
           caller[c].key \in Keys,
           \A i \in 1 .. Len(queue) : caller[queue[i]].key \in Keys,
           OnRequest(c, queue)
    PROVE  /\ caller' \in [Callers -> Caller]
           /\ \A d \in Callers : /\ caller'[d].key = caller[d].key
                                 /\ caller'[d].answer = caller[d].answer
           /\ \A d \in Callers : caller'[d].pc = "subscribed" =>
                  caller'[d].key \in Keys /\ caller'[d].token \in Callers
           /\ inflight' \in [Keys -> Callers \cup {None}]
           /\ futures' \subseteq Future
           /\ pending' \in Seq(Callers)
           /\ \A i \in 1 .. Len(pending') : caller[pending'[i]].key \in Keys
           /\ RacesInWindow'
           /\ SingleFlight'
           /\ SubscribersHoldToken'
           /\ IsFiniteSet(futures')
           /\ Cardinality(futures') <= Capacity
           /\ (queue # <<>> => Cardinality(futures) = Capacity)
                => (pending' # <<>> => Cardinality(futures') = Capacity)
<1> DEFINE k == caller[c].key
<1> USE FetcherAssumption
<1>0. /\ caller \in [Callers -> Caller] /\ inflight \in [Keys -> Callers \cup {None}]
      /\ futures \subseteq Future /\ IsFiniteSet(futures)
      /\ Cardinality(futures) \in Nat /\ Cardinality(futures) <= Capacity
  BY FS_CardinalityType DEF FetchInv, TypeOK, DeferredOnlyWhenFull
<1>1. CASE /\ inflight[k] = None /\ AtCapacity /\ pending' = Append(queue, c)
           /\ UNCHANGED <<inflight, futures, caller>>
  <2>1. Cardinality(futures) = Capacity
    BY <1>0, <1>1 DEF AtCapacity
  <2>2. /\ pending' \in Seq(Callers)
        /\ \A i \in 1 .. Len(pending') : caller[pending'[i]].key \in Keys
    BY <1>1
  <2> QED BY <1>0, <1>1, <2>1, <2>2
        DEF FetchInv, TypeOK, KeysKnown, RacesInWindow, SingleFlight, SubscribersHoldToken
<1>2. CASE inflight[k] = None /\ ~ AtCapacity /\ pending' = queue /\ Dispatch(c)
  <2>1. CASE caller[c].pc # "sent"
    <3>1. UNCHANGED <<caller, inflight, futures>>
      BY <1>2, <2>1 DEF Dispatch, Subscribed
    <3> QED BY <1>0, <1>2, <3>1
          DEF FetchInv, TypeOK, KeysKnown, RacesInWindow, SingleFlight,
              SubscribersHoldToken
  <2>2. CASE caller[c].pc = "sent"
    <3> DEFINE f == NewFuture(k, c)
    <3>1. /\ inflight' = [inflight EXCEPT ![k] = c]
          /\ futures' = futures \cup {f}
          /\ caller' = [caller EXCEPT ![c] = [@ EXCEPT !.pc = "subscribed", !.token = c]]
      BY <1>2, <2>2 DEF Dispatch, Subscribed
    <3>2. f \in Future /\ RaceInWindow(f) /\ f.key = k
      BY NewFutureType
    <3> HIDE DEF f
    <3>3. \A g \in futures : g.key # k
      BY <1>2 DEF FetchInv, SingleFlight
    <3>4. f \notin futures
      BY <3>2, <3>3
    <3>5. /\ IsFiniteSet(futures')
          /\ Cardinality(futures') = Cardinality(futures) + 1
      BY <1>0, <3>1, <3>4, FS_AddElement
    <3>6. Cardinality(futures) < Capacity
      BY <1>0, <1>2 DEF AtCapacity
    <3>7. /\ caller' \in [Callers -> Caller]
          /\ \A d \in Callers : /\ caller'[d].key = caller[d].key
                                /\ caller'[d].answer = caller[d].answer
      BY <1>0, <3>1 DEF Caller
    <3>8. \A d \in Callers : caller'[d].pc = "subscribed" =>
              caller'[d].key \in Keys /\ caller'[d].token \in Callers
      BY <1>0, <3>1 DEF Caller, FetchInv, KeysKnown
    <3>9. SingleFlight'
      <4>1. \A g, h \in futures' : g.key = h.key => g = h
        BY <3>1, <3>2, <3>3 DEF FetchInv, SingleFlight
      <4>2. ASSUME NEW j \in Keys
            PROVE  inflight'[j] # None <=> \E g \in futures' : g.key = j
        <5>1. CASE j = k
          BY <1>0, <3>1, <3>2, <5>1
        <5>2. CASE j # k
          BY <1>0, <3>1, <3>2, <5>2 DEF FetchInv, SingleFlight
        <5> QED BY <5>1, <5>2
      <4> QED BY <4>1, <4>2 DEF SingleFlight
    <3>10. SubscribersHoldToken'
      <4> SUFFICES ASSUME NEW d \in Callers, caller'[d].pc = "subscribed"
                   PROVE  caller'[d].token = inflight'[caller'[d].key]
        BY DEF SubscribersHoldToken
      <4>1. CASE d = c
        BY <1>0, <3>1, <4>1 DEF Caller
      <4>2. CASE d # c
        <5>1. /\ caller[d].pc = "subscribed" /\ caller'[d] = caller[d]
              /\ caller[d].key \in Keys /\ caller[d].token \in Callers
              /\ caller[d].token = inflight[caller[d].key]
          BY <1>0, <3>1, <4>2 DEF FetchInv, KeysKnown, SubscribersHoldToken
        <5>2. caller[d].key # k
          BY <1>2, <5>1
        <5> QED BY <1>0, <3>1, <5>1, <5>2
      <4> QED BY <4>1, <4>2
    <3>11. /\ inflight' \in [Keys -> Callers \cup {None}]
           /\ futures' \subseteq Future
           /\ RacesInWindow'
      BY <1>0, <3>1, <3>2 DEF FetchInv, RacesInWindow
    <3>12. queue # <<>> => Cardinality(futures) # Capacity
      BY <1>0, <3>6
    <3> QED BY <1>0, <1>2, <3>5, <3>6, <3>7, <3>8, <3>9, <3>10, <3>11, <3>12
  <2> QED BY <2>1, <2>2
<1>3. CASE inflight[k] # None /\ pending' = queue /\ Coalesce(c)
  <2> DEFINE t == IF Alive(inflight[k]) THEN inflight[k] ELSE c
  <2>1. /\ inflight' = [inflight EXCEPT ![k] = t]
        /\ caller' = Subscribed(c, t)
        /\ futures' = futures
    BY <1>3 DEF Coalesce
  <2>2. t \in Callers
    BY <1>0, <1>3
  <2>3. ASSUME NEW d \in Callers, caller[d].pc = "subscribed", caller[d].key = k
        PROVE  caller[d].token = t
    <3>1. caller[d].token = inflight[k]
      BY <2>3 DEF FetchInv, SubscribersHoldToken
    <3>2. Alive(inflight[k])
      BY <2>3, <3>1 DEF Alive
    <3> QED BY <3>1, <3>2
  <2> HIDE DEF t
  <2>4. caller' = [caller EXCEPT ![c] = [@ EXCEPT !.pc = "subscribed", !.token = t]]
        \/ caller' = caller
    BY <2>1 DEF Subscribed
  <2>5. /\ caller' \in [Callers -> Caller]
        /\ \A d \in Callers : /\ caller'[d].key = caller[d].key
                              /\ caller'[d].answer = caller[d].answer
        /\ \A d \in Callers : \/ caller'[d] = caller[d]
                              \/ d = c /\ caller'[d].token = t
    <3>1. CASE caller' = caller
      BY <1>0, <3>1
    <3>2. CASE caller' = [caller EXCEPT ![c] = [@ EXCEPT !.pc = "subscribed", !.token = t]]
      BY <1>0, <2>2, <3>2 DEF Caller
    <3> QED BY <2>4, <3>1, <3>2
  <2>6. \A d \in Callers : caller'[d].pc = "subscribed" =>
            caller'[d].key \in Keys /\ caller'[d].token \in Callers
    BY <2>2, <2>5 DEF FetchInv, KeysKnown
  <2>7. SubscribersHoldToken'
    <3> SUFFICES ASSUME NEW d \in Callers, caller'[d].pc = "subscribed"
                 PROVE  caller'[d].token = inflight'[caller'[d].key]
      BY DEF SubscribersHoldToken
    <3>1. CASE d = c /\ caller'[d].token = t
      BY <1>0, <2>1, <2>5, <3>1
    <3>2. CASE caller'[d] = caller[d] /\ caller[d].key = k
      BY <1>0, <2>1, <2>3, <3>2
    <3>3. CASE caller'[d] = caller[d] /\ caller[d].key # k
      BY <1>0, <2>1, <3>3 DEF FetchInv, KeysKnown, SubscribersHoldToken
    <3> QED BY <2>5, <3>1, <3>2, <3>3
  <2>8. SingleFlight'
    BY <1>0, <1>3, <2>1, <2>2 DEF FetchInv, SingleFlight
  <2>9. inflight' \in [Keys -> Callers \cup {None}] /\ RacesInWindow'
    BY <1>0, <2>1, <2>2 DEF FetchInv, RacesInWindow
  <2> QED BY <1>0, <1>3, <2>1, <2>5, <2>6, <2>7, <2>8, <2>9
<1> QED BY <1>1, <1>2, <1>3 DEF OnRequest

(***************************************************************************)
(* A poll that does not finish the fetch.                                  *)
(***************************************************************************)
LEMMA ProgressKeeps ==
    ASSUME FetchInv, NEW f \in futures, NEW g \in Future,
           g.key = f.key, RaceInWindow(g), Progress(f, g)
    PROVE  FetchInv'
<1>0. /\ UNCHANGED <<caller, channel, closed, worker, inflight, pending>>
      /\ futures' = (futures \ {f}) \cup {g}
  BY DEF Progress
<1>1. g \notin futures \ {f}
  BY DEF FetchInv, SingleFlight
<1>2. IsFiniteSet(futures') /\ Cardinality(futures') = Cardinality(futures)
  BY <1>0, <1>1, SwapCardinality DEF FetchInv
<1>3. TypeOK'
  BY <1>0 DEF FetchInv, TypeOK
<1>4. KeysKnown' /\ SubscribersHoldToken' /\ NoStaleCancel'
  BY <1>0 DEF FetchInv, KeysKnown, SubscribersHoldToken, NoStaleCancel
<1>5. RacesInWindow'
  BY <1>0 DEF FetchInv, RacesInWindow
<1>6. SingleFlight'
  <2>1. \A a, b \in futures' : a.key = b.key => a = b
    BY <1>0 DEF FetchInv, SingleFlight
  <2>2. \A k \in Keys : (\E a \in futures' : a.key = k) <=> (\E a \in futures : a.key = k)
    BY <1>0
  <2> QED BY <1>0, <2>1, <2>2 DEF FetchInv, SingleFlight
<1>7. DeferredOnlyWhenFull'
  BY <1>0, <1>2 DEF FetchInv, DeferredOnlyWhenFull
<1> QED BY <1>2, <1>3, <1>4, <1>5, <1>6, <1>7 DEF FetchInv

(***************************************************************************)
(* The poll that finishes the fetch.  A Cancelled result reaches nobody:   *)
(* a caller still subscribed holds the entry's token, which then is alive, *)
(* and the fetch is started again instead.                                 *)
(***************************************************************************)
LEMMA OnCompleteKeeps ==
    ASSUME FetchInv, NEW f \in futures, NEW result \in Answers,
           worker = "select", OnComplete(f, result)
    PROVE  FetchInv'
<1> DEFINE k == f.key
<1> USE FetcherAssumption
<1>0. /\ caller \in [Callers -> Caller] /\ inflight \in [Keys -> Callers \cup {None}]
      /\ futures \subseteq Future /\ IsFiniteSet(futures)
      /\ Cardinality(futures) \in Nat /\ Cardinality(futures) <= Capacity
      /\ k \in Keys
  BY FS_CardinalityType DEF FetchInv, TypeOK, DeferredOnlyWhenFull, Future
<1>1. inflight[k] \in Callers
  BY <1>0 DEF FetchInv, SingleFlight
<1>2. CASE result = "cancelled" /\ Alive(inflight[k])
  <2> DEFINE g == NewFuture(k, inflight[k])
  <2>1. /\ UNCHANGED <<caller, channel, closed, inflight, pending>>
        /\ futures' = (futures \ {f}) \cup {g}
        /\ worker' = "head"
    BY <1>2 DEF OnComplete
  <2>2. g \in Future /\ RaceInWindow(g) /\ g.key = k
    BY <1>0, <1>1, NewFutureType
  <2> HIDE DEF g
  <2>3. g \notin futures \ {f}
    BY <2>2 DEF FetchInv, SingleFlight
  <2>4. IsFiniteSet(futures') /\ Cardinality(futures') = Cardinality(futures)
    BY <1>0, <2>1, <2>3, SwapCardinality
  <2>5. TypeOK'
    BY <2>1, <2>2 DEF FetchInv, TypeOK
  <2>6. KeysKnown' /\ SubscribersHoldToken' /\ NoStaleCancel'
    BY <2>1 DEF FetchInv, KeysKnown, SubscribersHoldToken, NoStaleCancel
  <2>7. RacesInWindow'
    BY <2>1, <2>2 DEF FetchInv, RacesInWindow
  <2>8. SingleFlight'
    <3>1. \A a, b \in futures' : a.key = b.key => a = b
      BY <2>1, <2>2 DEF FetchInv, SingleFlight
    <3>2. \A j \in Keys : (\E a \in futures' : a.key = j) <=> (\E a \in futures : a.key = j)
      BY <2>1, <2>2
    <3> QED BY <2>1, <3>1, <3>2 DEF FetchInv, SingleFlight
  <2>9. DeferredOnlyWhenFull'
    BY <2>1, <2>4 DEF FetchInv, DeferredOnlyWhenFull
  <2> QED BY <2>4, <2>5, <2>6, <2>7, <2>8, <2>9 DEF FetchInv
<1>3. CASE ~ (result = "cancelled" /\ Alive(inflight[k]))
  <2>1. /\ caller' = Publish(k, result)
        /\ inflight' = [inflight EXCEPT ![k] = None]
        /\ futures' = futures \ {f}
        /\ worker' = "admit"
        /\ UNCHANGED <<channel, closed, pending>>
    BY <1>3 DEF OnComplete
  <2>2. ASSUME NEW c \in Callers
        PROVE  /\ caller'[c] \in Caller
               /\ caller'[c].key = caller[c].key
               /\ caller'[c].pc = "subscribed" =>
                      caller'[c] = caller[c] /\ caller[c].key # k
               /\ \/ caller'[c].answer = caller[c].answer
                  \/ /\ caller'[c].answer = result
                     /\ caller[c].pc = "subscribed" /\ caller[c].key = k
    BY <1>0, <2>1 DEF Publish, Caller
  <2>3. caller' \in [Callers -> Caller]
    BY <2>1, <2>2 DEF Publish
  <2>4. /\ IsFiniteSet(futures')
        /\ Cardinality(futures') = Cardinality(futures) - 1
    BY <1>0, <2>1, FS_RemoveElement
  <2>5. TypeOK'
    BY <1>0, <2>1, <2>3 DEF FetchInv, TypeOK
  <2>6. KeysKnown'
    <3>1. channel \in Seq(Callers) /\ pending \in Seq(Callers)
      BY DEF FetchInv, TypeOK
    <3> QED BY <2>1, <2>2, <3>1 DEF FetchInv, KeysKnown
  <2>7. SubscribersHoldToken'
    BY <1>0, <2>1, <2>2 DEF FetchInv, KeysKnown, SubscribersHoldToken
  <2>8. NoStaleCancel'
    <3> SUFFICES ASSUME NEW c \in Callers, caller'[c].answer = "cancelled"
                 PROVE  closed
      BY <2>1 DEF NoStaleCancel
    <3>1. CASE caller'[c].answer = caller[c].answer
      BY <3>1 DEF FetchInv, NoStaleCancel
    <3>2. CASE caller'[c].answer = result /\ caller[c].pc = "subscribed" /\ caller[c].key = k
      <4>1. Alive(inflight[k])
        BY <3>2 DEF Alive, FetchInv, SubscribersHoldToken
      <4> QED BY <1>3, <3>2, <4>1
    <3> QED BY <2>2, <3>1, <3>2
  <2>9. RacesInWindow'
    BY <2>1 DEF FetchInv, RacesInWindow
  <2>10. SingleFlight'
    <3>1. \A a, b \in futures' : a.key = b.key => a = b
      BY <2>1 DEF FetchInv, SingleFlight
    <3>2. ASSUME NEW j \in Keys
          PROVE  inflight'[j] # None <=> \E a \in futures' : a.key = j
      <4>1. CASE j = k
        BY <1>0, <2>1, <4>1 DEF FetchInv, SingleFlight
      <4>2. CASE j # k
        <5>1. inflight'[j] = inflight[j]
          BY <1>0, <2>1, <4>2
        <5>2. (\E a \in futures' : a.key = j) <=> (\E a \in futures : a.key = j)
          BY <2>1, <4>2
        <5> QED BY <5>1, <5>2 DEF FetchInv, SingleFlight
      <4> QED BY <4>1, <4>2
    <3> QED BY <3>1, <3>2 DEF SingleFlight
  <2>11. DeferredOnlyWhenFull'
    BY <1>0, <2>1, <2>4 DEF DeferredOnlyWhenFull
  <2> QED BY <2>4, <2>5, <2>6, <2>7, <2>8, <2>9, <2>10, <2>11 DEF FetchInv
<1> QED BY <1>2, <1>3

(***************************************************************************)
(* The callers' steps and the interrupt leave the worker's state alone; a  *)
(* caller that leaves only gives its token back.                           *)
(***************************************************************************)
LEMMA CallerStepKeeps ==
    ASSUME FetchInv, NEW c \in Callers, Fetch(c) \/ Abandon(c)
    PROVE  FetchInv'
<1> USE FetcherAssumption
<1>0. /\ caller \in [Callers -> Caller]
      /\ channel \in Seq(Callers) /\ pending \in Seq(Callers)
  BY DEF FetchInv, TypeOK
<1>1. CASE Fetch(c)
  <2>1. PICK k \in Keys :
          IF closed
          THEN /\ caller' = [caller EXCEPT ![c] =
                     [@ EXCEPT !.pc = "done", !.key = k, !.answer = "cancelled"]]
               /\ channel' = channel
          ELSE /\ caller' = [caller EXCEPT ![c] = [@ EXCEPT !.pc = "sent", !.key = k]]
               /\ channel' = Append(channel, c)
    BY <1>1 DEF Fetch
  <2>2. UNCHANGED <<closed, worker, inflight, futures, pending>> /\ caller[c].pc = "idle"
    BY <1>1 DEF Fetch
  <2>3. /\ caller' \in [Callers -> Caller]
        /\ caller'[c].key = k /\ caller'[c].pc # "subscribed"
        /\ \A d \in Callers : d # c => caller'[d] = caller[d]
        /\ caller'[c].answer \in {caller[c].answer, "cancelled"}
        /\ ~ closed => caller'[c].answer = caller[c].answer
    <3>1. CASE closed
      <4>1. caller' = [caller EXCEPT ![c] =
                         [@ EXCEPT !.pc = "done", !.key = k, !.answer = "cancelled"]]
        BY <2>1, <3>1
      <4> QED BY <1>0, <3>1, <4>1 DEF Caller, Answers
    <3>2. CASE ~ closed
      <4>1. caller' = [caller EXCEPT ![c] = [@ EXCEPT !.pc = "sent", !.key = k]]
        BY <2>1, <3>2
      <4> QED BY <1>0, <4>1 DEF Caller
    <3> QED BY <3>1, <3>2
  <2>4. channel' \in Seq(Callers) /\ (channel' = channel \/ channel' = Append(channel, c))
    <3>1. CASE closed
      BY <1>0, <2>1, <3>1
    <3>2. CASE ~ closed
      <4>1. channel' = Append(channel, c)
        BY <2>1, <3>2
      <4> QED BY <1>0, <4>1
    <3> QED BY <3>1, <3>2
  <2>5. TypeOK'
    BY <2>2, <2>3, <2>4 DEF FetchInv, TypeOK
  <2>6. KeysKnown'
    <3>1. \A d \in Callers : caller[d].key \in Keys => caller'[d].key \in Keys
      BY <2>3
    <3>2. \A i \in 1 .. Len(channel') : caller'[channel'[i]].key \in Keys
      <4>1. CASE channel' = channel
        BY <1>0, <3>1, <4>1 DEF FetchInv, KeysKnown
      <4>2. CASE channel' = Append(channel, c)
        <5>1. ASSUME NEW i \in 1 .. Len(channel')
              PROVE  caller'[channel'[i]].key \in Keys
          <6>1. CASE i = Len(channel) + 1
            BY <1>0, <2>3, <4>2, <6>1
          <6>2. CASE i \in 1 .. Len(channel)
            BY <1>0, <3>1, <4>2, <6>2 DEF FetchInv, KeysKnown
          <6> QED BY <1>0, <4>2, <6>1, <6>2
        <5> QED BY <5>1
      <4> QED BY <2>4, <4>1, <4>2
    <3>3. \A i \in 1 .. Len(pending) : caller'[pending[i]].key \in Keys
      BY <1>0, <3>1 DEF FetchInv, KeysKnown
    <3>4. \A d \in Callers : caller'[d].pc = "subscribed" =>
              caller'[d].key \in Keys /\ caller'[d].token \in Callers
      BY <2>3 DEF FetchInv, KeysKnown
    <3> QED BY <2>2, <3>2, <3>3, <3>4 DEF KeysKnown
  <2>7. SubscribersHoldToken' /\ NoStaleCancel'
    BY <2>2, <2>3 DEF FetchInv, SubscribersHoldToken, NoStaleCancel
  <2> QED BY <2>2, <2>5, <2>6, <2>7
        DEF FetchInv, RacesInWindow, SingleFlight, DeferredOnlyWhenFull
<1>2. CASE Abandon(c)
  <2>1. /\ UNCHANGED <<channel, closed, worker, inflight, futures, pending>>
        /\ caller' = [caller EXCEPT ![c].pc = "gone"]
    BY <1>2 DEF Abandon
  <2>2. /\ caller' \in [Callers -> Caller]
        /\ \A d \in Callers : /\ caller'[d].key = caller[d].key
                              /\ caller'[d].answer = caller[d].answer
                              /\ caller'[d].pc = "subscribed" => caller'[d] = caller[d]
    BY <1>0, <2>1 DEF Caller
  <2>3. KeysKnown'
    BY <1>0, <2>1, <2>2 DEF FetchInv, KeysKnown
  <2>4. TypeOK' /\ SubscribersHoldToken' /\ NoStaleCancel'
    BY <2>1, <2>2 DEF FetchInv, TypeOK, SubscribersHoldToken, NoStaleCancel
  <2> QED BY <2>1, <2>3, <2>4
        DEF FetchInv, RacesInWindow, SingleFlight, DeferredOnlyWhenFull
<1> QED BY <1>1, <1>2

(***************************************************************************)
(* Leaving the loop happens only on a closed channel, so the Cancelled it  *)
(* hands out is no stale one.                                              *)
(***************************************************************************)
LEMMA StopKeeps ==
    ASSUME FetchInv, closed, Stop
    PROVE  FetchInv'
<1> USE FetcherAssumption
<1>0. caller \in [Callers -> Caller] /\ channel \in Seq(Callers)
  BY DEF FetchInv, TypeOK
<1>1. /\ worker' = "stopped" /\ inflight' = [k \in Keys |-> None]
      /\ futures' = {} /\ pending' = <<>> /\ UNCHANGED <<channel, closed>>
  BY DEF Stop
<1>2. /\ caller' \in [Callers -> Caller]
      /\ \A c \in Callers : caller'[c].key = caller[c].key /\ caller'[c].pc # "subscribed"
  BY <1>0 DEF Stop, Caller, Answers
<1>3. TypeOK'
  BY <1>0, <1>1, <1>2 DEF FetchInv, TypeOK
<1>4. KeysKnown'
  BY <1>0, <1>1, <1>2 DEF FetchInv, KeysKnown
<1>5. SubscribersHoldToken' /\ NoStaleCancel' /\ RacesInWindow' /\ SingleFlight'
  BY <1>1, <1>2 DEF SubscribersHoldToken, NoStaleCancel, RacesInWindow, SingleFlight
<1>6. IsFiniteSet(futures') /\ DeferredOnlyWhenFull'
  BY <1>1, FS_EmptySet DEF DeferredOnlyWhenFull
<1> QED BY <1>3, <1>4, <1>5, <1>6 DEF FetchInv

(***************************************************************************)
(* Taking the head of the channel, or of the deferral queue.               *)
(***************************************************************************)
LEMMA WorkerStepKeeps ==
    ASSUME FetchInv, WorkerStep
    PROVE  FetchInv'
<1> USE FetcherAssumption
<1>0. channel \in Seq(Callers) /\ pending \in Seq(Callers)
  BY DEF FetchInv, TypeOK
<1>1. ASSUME channel # <<>>, channel' = Tail(channel),
             OnRequest(Head(channel), pending), UNCHANGED closed,
             worker \in {"drain", "select"}, worker' \in {"drain", "head"}
      PROVE  FetchInv'
  <2>1. /\ Head(channel) \in Callers /\ caller[Head(channel)].key \in Keys
        /\ channel' \in Seq(Callers)
        /\ \A i \in 1 .. Len(channel') : caller[channel'[i]].key \in Keys
    BY <1>0, <1>1 DEF FetchInv, KeysKnown
  <2>2. pending # <<>> => Cardinality(futures) = Capacity
    BY <1>1 DEF FetchInv, DeferredOnlyWhenFull
  <2>3. \A i \in 1 .. Len(pending) : caller[pending[i]].key \in Keys
    BY DEF FetchInv, KeysKnown
  <2>4. /\ caller' \in [Callers -> Caller]
        /\ \A d \in Callers : /\ caller'[d].key = caller[d].key
                              /\ caller'[d].answer = caller[d].answer
        /\ \A d \in Callers : caller'[d].pc = "subscribed" =>
               caller'[d].key \in Keys /\ caller'[d].token \in Callers
        /\ inflight' \in [Keys -> Callers \cup {None}]
        /\ futures' \subseteq Future
        /\ pending' \in Seq(Callers)
        /\ \A i \in 1 .. Len(pending') : caller[pending'[i]].key \in Keys
        /\ RacesInWindow' /\ SingleFlight' /\ SubscribersHoldToken'
        /\ IsFiniteSet(futures') /\ Cardinality(futures') <= Capacity
        /\ pending' # <<>> => Cardinality(futures') = Capacity
    BY <1>0, <1>1, <2>1, <2>2, <2>3, OnRequestKeeps
  <2>5. TypeOK'
    BY <1>1, <2>1, <2>4 DEF FetchInv, TypeOK
  <2>6. KeysKnown'
    BY <2>1, <2>4 DEF KeysKnown
  <2>7. NoStaleCancel'
    BY <1>1, <2>4 DEF FetchInv, NoStaleCancel
  <2>8. DeferredOnlyWhenFull'
    BY <2>4 DEF DeferredOnlyWhenFull
  <2> QED BY <2>4, <2>5, <2>6, <2>7, <2>8 DEF FetchInv
<1>2. ASSUME worker' \in {"drain", "select"}, worker \in {"head", "drain"},
             UNCHANGED <<caller, channel, closed, inflight, futures, pending>>
      PROVE  FetchInv'
  BY <1>2 DEF FetchInv, TypeOK, KeysKnown, RacesInWindow, SingleFlight,
              SubscribersHoldToken, DeferredOnlyWhenFull, NoStaleCancel
<1>3. CASE LoopHead
  BY <1>2, <1>3, StopKeeps DEF LoopHead
<1>4. CASE Drain
  BY <1>1, <1>2, <1>4 DEF Drain
<1>5. CASE Receive
  BY <1>1, <1>5, StopKeeps DEF Receive
<1>6. CASE Admit
  <2>1. CASE /\ ~ AtCapacity /\ pending # <<>>
             /\ OnRequest(Head(pending), Tail(pending))
             /\ UNCHANGED <<channel, closed, worker>>
    <3>1. /\ Head(pending) \in Callers /\ caller[Head(pending)].key \in Keys
          /\ Tail(pending) \in Seq(Callers)
          /\ \A i \in 1 .. Len(Tail(pending)) : caller[Tail(pending)[i]].key \in Keys
      BY <1>0, <2>1 DEF FetchInv, KeysKnown
    <3>2. /\ caller' \in [Callers -> Caller]
          /\ \A d \in Callers : /\ caller'[d].key = caller[d].key
                                /\ caller'[d].answer = caller[d].answer
          /\ \A d \in Callers : caller'[d].pc = "subscribed" =>
                 caller'[d].key \in Keys /\ caller'[d].token \in Callers
          /\ inflight' \in [Keys -> Callers \cup {None}]
          /\ futures' \subseteq Future
          /\ pending' \in Seq(Callers)
          /\ \A i \in 1 .. Len(pending') : caller[pending'[i]].key \in Keys
          /\ RacesInWindow' /\ SingleFlight' /\ SubscribersHoldToken'
          /\ IsFiniteSet(futures') /\ Cardinality(futures') <= Capacity
      BY <2>1, <3>1, OnRequestKeeps
    <3>3. TypeOK'
      BY <2>1, <3>2 DEF FetchInv, TypeOK
    <3>4. KeysKnown'
      <4>1. /\ \A i \in 1 .. Len(channel) : channel[i] \in Callers
            /\ \A i \in 1 .. Len(channel) : caller[channel[i]].key \in Keys
        BY DEF FetchInv, TypeOK, KeysKnown
      <4>2. \A i \in 1 .. Len(channel') : caller'[channel'[i]].key \in Keys
        BY <2>1, <3>2, <4>1
      <4>3. \A i \in 1 .. Len(pending') : pending'[i] \in Callers
        BY <3>2
      <4>4. \A i \in 1 .. Len(pending') : caller'[pending'[i]].key \in Keys
        BY <3>2, <4>3
      <4> QED BY <3>2, <4>2, <4>4 DEF KeysKnown
    <3>5. NoStaleCancel'
      BY <2>1, <3>2 DEF FetchInv, NoStaleCancel
    <3>6. DeferredOnlyWhenFull'
      BY <1>6, <2>1, <3>2 DEF Admit, DeferredOnlyWhenFull
    <3> QED BY <3>2, <3>3, <3>4, <3>5, <3>6 DEF FetchInv
  <2>2. CASE /\ AtCapacity \/ pending = <<>>
             /\ worker' = "head"
             /\ UNCHANGED <<caller, channel, closed, inflight, futures, pending>>
    <3>1. Cardinality(futures) \in Nat
      BY FS_CardinalityType DEF FetchInv
    <3>2. pending # <<>> => Cardinality(futures) = Capacity
      BY <2>2, <3>1 DEF AtCapacity, FetchInv, DeferredOnlyWhenFull
    <3> QED BY <2>2, <3>2
          DEF FetchInv, TypeOK, KeysKnown, RacesInWindow, SingleFlight,
              SubscribersHoldToken, DeferredOnlyWhenFull, NoStaleCancel
  <2> QED BY <1>6, <2>1, <2>2 DEF Admit
<1> QED BY <1>3, <1>4, <1>5, <1>6 DEF WorkerStep

(***************************************************************************)
(* A poll either goes on with the fetch or finishes it.                    *)
(***************************************************************************)
LEMMA PollKeeps ==
    ASSUME FetchInv, NEW f \in futures, Poll(f)
    PROVE  FetchInv'
<1> USE FetcherAssumption
<1>0. worker = "select" /\ f \in Future /\ RaceInWindow(f)
  BY DEF Poll, FetchInv, TypeOK, RacesInWindow
<1>f. /\ f.left \in Nat /\ f.left <= MaxCandidates
      /\ f.racing \in Nat /\ f.racing <= MaxCandidates
      /\ f.round \in Nat /\ f.round <= MaxRounds
  BY <1>0 DEF Future
<1>1. CASE SelectCandidates(f)
  <2>1. PICK n \in 0 .. MaxCandidates :
          IF n = 0 THEN OnComplete(f, "no_candidates")
          ELSE Progress(f, [f EXCEPT !.phase = "boundary", !.left = n])
    BY <1>1 DEF SelectCandidates
  <2>2. CASE n = 0
    BY <1>0, <2>1, <2>2, OnCompleteKeeps DEF Answers
  <2>3. CASE n # 0
    <3> DEFINE g == [f EXCEPT !.phase = "boundary", !.left = n]
    <3>1. /\ g \in Future /\ g.key = f.key
          /\ g.phase = "boundary" /\ g.left = n /\ g.racing = f.racing
      BY <1>0 DEF Future
    <3>2. f.racing = 0
      BY <1>0, <1>1 DEF SelectCandidates, RaceInWindow
    <3>3. g \in Future /\ g.key = f.key /\ RaceInWindow(g)
      BY <3>1, <3>2 DEF RaceInWindow
    <3> QED BY <2>1, <2>3, <3>3, ProgressKeeps
  <2> QED BY <2>2, <2>3
<1>2. CASE StartRound(f)
  <2>1. CASE f.left # 0 /\ f.round < MaxRounds
             /\ Progress(f, [f EXCEPT !.phase = "race",
                                      !.racing = RoundWidth(f.round, f.left)])
    <3> DEFINE g == [f EXCEPT !.phase = "race", !.racing = RoundWidth(f.round, f.left)]
    <3>1. RoundWidth(f.round, f.left) \in 1 .. f.left
      BY <1>0, <2>1, RoundWidthInBudget DEF Future
    <3>2. /\ g \in Future /\ g.key = f.key /\ g.phase = "race" /\ g.left = f.left
          /\ g.racing = RoundWidth(f.round, f.left) /\ g.round = f.round
      <4> DEFINE w == RoundWidth(f.round, f.left)
      <4>1. w \in 0 .. MaxCandidates
        BY <1>f, <3>1
      <4> HIDE DEF w
      <4>2. LET h == [f EXCEPT !.phase = "race", !.racing = w]
            IN  /\ h \in Future /\ h.key = f.key /\ h.phase = "race"
                /\ h.left = f.left /\ h.racing = w /\ h.round = f.round
        BY <1>0, <4>1 DEF Future
      <4> QED BY <4>2 DEF w
    <3>3. g \in Future /\ g.key = f.key /\ RaceInWindow(g)
      BY <1>f, <2>1, <3>1, <3>2 DEF RaceInWindow
    <3> QED BY <2>1, <3>3, ProgressKeeps
  <2>2. CASE \E r \in Answers : OnComplete(f, r)
    BY <1>0, <2>2, OnCompleteKeeps
  <2>3. f.round \in Nat
    BY <1>0 DEF Future
  <2> QED BY <1>2, <2>1, <2>2, <2>3 DEF StartRound, Answers
<1>3. CASE AttemptHit(f)
  BY <1>0, <1>3, OnCompleteKeeps DEF AttemptHit, Answers
<1>4. CASE AttemptMiss(f)
  <2>1. CASE OnComplete(f, "cancelled")
    BY <1>0, <2>1, OnCompleteKeeps DEF Answers
  <2>2. CASE f.racing > 1 /\ Progress(f, [f EXCEPT !.racing = @ - 1, !.left = @ - 1])
    <3> DEFINE g == [f EXCEPT !.racing = @ - 1, !.left = @ - 1]
    <3>1. f.racing <= f.left /\ f.phase = "race" /\ f.round < MaxRounds
      BY <1>0, <1>4 DEF AttemptMiss, RaceInWindow
    <3>2. /\ g \in Future /\ g.key = f.key /\ g.phase = "race"
          /\ g.left = f.left - 1 /\ g.racing = f.racing - 1 /\ g.round = f.round
      <4>1. f.left - 1 \in 0 .. MaxCandidates /\ f.racing - 1 \in 0 .. MaxCandidates
        BY <1>f, <2>2, <3>1
      <4> QED BY <1>0, <3>1, <4>1 DEF Future
    <3>3. g \in Future /\ g.key = f.key /\ RaceInWindow(g)
      BY <1>f, <2>2, <3>1, <3>2 DEF RaceInWindow
    <3> QED BY <2>2, <3>3, ProgressKeeps
  <2>3. CASE Progress(f, [f EXCEPT !.phase = "boundary", !.racing = 0,
                                   !.left = @ - 1, !.round = @ + 1])
    <3> DEFINE g == [f EXCEPT !.phase = "boundary", !.racing = 0,
                              !.left = @ - 1, !.round = @ + 1]
    <3>1. f.racing > 0 /\ f.racing <= f.left /\ f.round < MaxRounds
      BY <1>0, <1>4 DEF AttemptMiss, RaceInWindow
    <3>2. /\ g \in Future /\ g.key = f.key /\ g.phase = "boundary"
          /\ g.left = f.left - 1 /\ g.racing = 0
      <4>1. f.left - 1 \in 0 .. MaxCandidates /\ f.round + 1 \in 0 .. MaxRounds
        BY <1>f, <3>1
      <4>2. 0 \in 0 .. MaxCandidates
        OBVIOUS
      <4> QED BY <1>0, <4>1, <4>2 DEF Future
    <3>3. g \in Future /\ g.key = f.key /\ RaceInWindow(g)
      BY <1>f, <3>1, <3>2 DEF RaceInWindow
    <3> QED BY <2>3, <3>3, ProgressKeeps
  <2> QED BY <1>4, <2>1, <2>2, <2>3 DEF AttemptMiss
<1> QED BY <1>1, <1>2, <1>3, <1>4 DEF Poll

(***************************************************************************)
(* The invariant holds in every reachable state.                           *)
(***************************************************************************)
THEOREM FetcherInductive == Spec => []FetchInv
<1> USE FetcherAssumption
<1>1. Init => FetchInv
  <2> SUFFICES ASSUME Init PROVE FetchInv
    OBVIOUS
  <2>1. TypeOK
    <3>1. caller \in [Callers -> Caller]
      BY DEF Init, Caller
    <3>2. channel \in Seq(Callers) /\ pending \in Seq(Callers) /\ futures \subseteq Future
      BY DEF Init
    <3> QED BY <3>1, <3>2 DEF Init, TypeOK
  <2>2. IsFiniteSet(futures) /\ DeferredOnlyWhenFull
    BY FS_EmptySet DEF Init, DeferredOnlyWhenFull
  <2>3. KeysKnown /\ RacesInWindow /\ SingleFlight
    BY DEF Init, KeysKnown, RacesInWindow, SingleFlight
  <2>4. SubscribersHoldToken /\ NoStaleCancel
    BY DEF Init, SubscribersHoldToken, NoStaleCancel, Answers
  <2> QED BY <2>1, <2>2, <2>3, <2>4 DEF FetchInv
<1>2. FetchInv /\ [Next]_vars => FetchInv'
  <2> SUFFICES ASSUME FetchInv, [Next]_vars PROVE FetchInv'
    OBVIOUS
  <2>1. CASE \E c \in Callers : Fetch(c) \/ Abandon(c)
    BY <2>1, CallerStepKeeps
  <2>2. CASE Interrupt
    BY <2>2 DEF Interrupt, FetchInv, TypeOK, KeysKnown, RacesInWindow, SingleFlight,
                SubscribersHoldToken, DeferredOnlyWhenFull, NoStaleCancel
  <2>3. CASE WorkerStep
    BY <2>3, WorkerStepKeeps
  <2>4. CASE \E f \in futures : Poll(f)
    BY <2>4, PollKeeps
  <2>5. CASE UNCHANGED vars
    BY <2>5 DEF vars, FetchInv, TypeOK, KeysKnown, RacesInWindow, SingleFlight,
                SubscribersHoldToken, DeferredOnlyWhenFull, NoStaleCancel
  <2> QED BY <2>1, <2>2, <2>3, <2>4, <2>5 DEF Next
<1> QED BY <1>1, <1>2, PTL DEF Spec

(***************************************************************************)
(* Types; in particular a round never races more servers than it has left. *)
(***************************************************************************)
THEOREM FetcherTypes == Spec => []TypeOK
BY FetcherInductive, PTL DEF FetchInv

(***************************************************************************)
(* At most one fetch per key, and an in-flight entry exactly for the keys  *)
(* being fetched.                                                          *)
(***************************************************************************)
THEOREM OneFetchPerKey == Spec => []SingleFlight
BY FetcherInductive, PTL DEF FetchInv

(***************************************************************************)
(* No live caller depends on a token the worker no longer looks at.        *)
(***************************************************************************)
THEOREM TokensStayShared == Spec => []SubscribersHoldToken
BY FetcherInductive, PTL DEF FetchInv

(***************************************************************************)
(* The capacity holds, and no slot stays free beside a deferred request.   *)
(***************************************************************************)
THEOREM SlotsAreUsed == Spec => []DeferredOnlyWhenFull
BY FetcherInductive, PTL DEF FetchInv

(***************************************************************************)
(* A caller that still waits is never told Cancelled before the interrupt. *)
(***************************************************************************)
THEOREM WaitersAreNotCancelled == Spec => []NoStaleCancel
BY FetcherInductive, PTL DEF FetchInv

-----------------------------------------------------------------------------
(***************************************************************************)
(* The abstract sharing of fetches.  A step that changes one caller        *)
(* changes its abstract call alike and no other.                           *)
(***************************************************************************)
LEMMA OneCallChanges ==
    ASSUME caller \in [Callers -> Caller], NEW c \in Callers, NEW o \in Caller,
           caller' = [caller EXCEPT ![c] = o]
    PROVE  calls' = [calls EXCEPT ![c] = CallOf(o)]
BY DEF calls

LEMMA CallFields ==
    ASSUME NEW o \in Caller
    PROVE  /\ CallOf(o).pc = o.pc /\ CallOf(o).key = o.key /\ CallOf(o).answer = o.answer
           /\ CallOf(o) = [pc |-> o.pc, key |-> o.key, answer |-> o.answer]
BY DEF CallOf

LEMMA ToldCall ==
    ASSUME NEW o \in Caller, NEW a \in Answers
    PROVE  CallOf([o EXCEPT !.pc = "done", !.answer = a]) = Shared!Told(a, CallOf(o))
<1> DEFINE p == [o EXCEPT !.pc = "done", !.answer = a]
<1>1. p.pc = "done" /\ p.key = o.key /\ p.answer = a  BY DEF Caller
<1> HIDE DEF p
<1>2. CallOf(p) = Shared!Told(a, CallOf(o))  BY <1>1 DEF CallOf, Shared!Told
<1> QED BY <1>2 DEF p

LEMMA CallsFields ==
    ASSUME caller \in [Callers -> Caller], NEW c \in Callers
    PROVE  /\ calls[c] = CallOf(caller[c])
           /\ calls[c].pc = caller[c].pc /\ calls[c].key = caller[c].key
BY CallFields DEF calls

(***************************************************************************)
(* The fetches of the map are those of the futures, so a free slot is a    *)
(* free slot.                                                              *)
(***************************************************************************)
LEMMA SlotFree ==
    ASSUME FetchInv, Cardinality(futures) < Capacity
    PROVE  Cardinality(fetching) < Capacity
<1> DEFINE keyOf == [f \in futures |-> f.key]
<1>1. \A f \in futures : f.key \in Keys  BY DEF FetchInv, TypeOK, Future
<1>2. fetching = {f.key : f \in futures}
  BY <1>1 DEF FetchInv, SingleFlight, fetching
<1>3. keyOf \in Surjection(futures, fetching)
  BY <1>2 DEF Surjection
<1> HIDE DEF keyOf
<1>4. IsFiniteSet(futures)  BY DEF FetchInv
<1>5. IsFiniteSet(fetching) /\ Cardinality(fetching) <= Cardinality(futures)
  BY <1>3, <1>4, FS_Surjection
<1>6. Cardinality(fetching) \in Nat /\ Cardinality(futures) \in Nat
  BY <1>4, <1>5, FS_CardinalityType
<1> QED BY <1>5, <1>6, FetcherAssumption

(***************************************************************************)
(* A request handled by the worker is a call that joins, or no step: it is *)
(* deferred, or its caller is gone and nothing is fetched for it.          *)
(***************************************************************************)
LEMMA OnRequestJoins ==
    ASSUME FetchInv, NEW c \in Callers, NEW queue, caller[c].key \in Keys,
           OnRequest(c, queue), UNCHANGED closed
    PROVE  Shared!Join(c) \/ UNCHANGED <<calls, fetching>>
<1> DEFINE k == caller[c].key
<1> USE FetcherAssumption
<1>0. /\ caller \in [Callers -> Caller] /\ inflight \in [Keys -> Callers \cup {None}]
      /\ caller[c] \in Caller /\ k \in Keys
  BY DEF FetchInv, TypeOK
<1>1. ASSUME NEW t \in Callers, caller' = Subscribed(c, t), inflight' = [inflight EXCEPT ![k] = t],
             caller[c].pc = "sent", k \in fetching \/ Cardinality(fetching) < Capacity
      PROVE  Shared!Join(c)
  <2> DEFINE o == [caller[c] EXCEPT !.pc = "subscribed", !.token = t]
  <2>1. /\ o \in Caller /\ o.pc = "subscribed" /\ o.key = k /\ o.answer = caller[c].answer
    BY <1>0 DEF Caller
  <2>2. caller' = [caller EXCEPT ![c] = o]
    BY <1>1 DEF Subscribed
  <2> HIDE DEF o
  <2>3. calls' = [calls EXCEPT ![c] = CallOf(o)]
    BY <1>0, <2>1, <2>2, OneCallChanges
  <2>4. CallOf(o) = [calls[c] EXCEPT !.pc = "subscribed"]
    <3>1. CallOf(o) = [pc |-> "subscribed", key |-> k, answer |-> caller[c].answer]
      BY <2>1, CallFields
    <3>2. calls[c] = [pc |-> caller[c].pc, key |-> k, answer |-> caller[c].answer]
      BY <1>0, CallFields, CallsFields
    <3> QED BY <3>1, <3>2
  <2>5. fetching' = fetching \cup {k}
    BY <1>0, <1>1 DEF fetching
  <2>6. calls[c].pc = "sent" /\ calls[c].key = k
    BY <1>0, <1>1, CallsFields
  <2>7. calls[c].key \in fetching \/ Shared!Cardinality(fetching) < Capacity
    <3>1. Shared!Cardinality(fetching) = Cardinality(fetching)
      BY DEF Shared!Cardinality, Cardinality
    <3> QED BY <1>1, <2>6, <3>1
  <2>8. fetching' = fetching \cup {calls[c].key}  BY <2>5, <2>6
  <2> QED BY <2>3, <2>4, <2>6, <2>7, <2>8 DEF Shared!Join
<1>2. CASE UNCHANGED <<inflight, futures, caller>>
  BY <1>2 DEF calls, fetching
<1>3. CASE inflight[k] = None /\ ~AtCapacity /\ Dispatch(c)
  <2>1. CASE caller[c].pc = "sent"
    <3>1. Cardinality(futures) < Capacity
      BY <1>3, FS_CardinalityType DEF AtCapacity, FetchInv
    <3>2. Cardinality(fetching) < Capacity  BY <3>1, SlotFree
    <3>3. caller' = Subscribed(c, c) /\ inflight' = [inflight EXCEPT ![k] = c]
      BY <1>3, <2>1 DEF Dispatch
    <3> QED BY <1>1, <2>1, <3>2, <3>3
  <2>2. CASE caller[c].pc # "sent"
    BY <1>2, <1>3, <2>2 DEF Dispatch, Subscribed
  <2> QED BY <2>1, <2>2
<1>4. CASE inflight[k] # None /\ Coalesce(c)
  <2>1. PICK t \in Callers : caller' = Subscribed(c, t) /\ inflight' = [inflight EXCEPT ![k] = t]
    BY <1>0, <1>4 DEF Coalesce
  <2>2. k \in fetching  BY <1>0, <1>4 DEF fetching
  <2>3. CASE caller[c].pc = "sent"  BY <1>1, <2>1, <2>2, <2>3
  <2>4. CASE caller[c].pc # "sent"
    <3>1. caller' = caller  BY <2>1, <2>4 DEF Subscribed
    <3>2. fetching' = fetching  BY <1>0, <2>1, <2>2 DEF fetching
    <3> QED BY <3>1, <3>2 DEF calls
  <2> QED BY <2>3, <2>4
<1> QED BY <1>2, <1>3, <1>4 DEF OnRequest

(***************************************************************************)
(* A completed attempt ends the fetch for all who joined it, or is started *)
(* again behind their back.                                                *)
(***************************************************************************)
LEMMA OnCompleteFinishes ==
    ASSUME FetchInv, NEW f \in futures, NEW result \in Answers, OnComplete(f, result)
    PROVE  Shared!Finish(f.key, result) \/ UNCHANGED <<calls, fetching, closed>>
<1> DEFINE k == f.key
<1> USE FetcherAssumption
<1>0. /\ caller \in [Callers -> Caller] /\ inflight \in [Keys -> Callers \cup {None}] /\ k \in Keys
  BY DEF FetchInv, TypeOK, Future
<1>1. CASE result = "cancelled" /\ Alive(inflight[k])
  BY <1>1 DEF OnComplete, calls, fetching
<1>2. CASE ~(result = "cancelled" /\ Alive(inflight[k]))
  <2>1. /\ caller' = Publish(k, result) /\ inflight' = [inflight EXCEPT ![k] = None]
        /\ UNCHANGED closed
    BY <1>2 DEF OnComplete
  <2>2. k \in fetching /\ fetching' = fetching \ {k}
    BY <1>0, <2>1 DEF fetching, FetchInv, SingleFlight
  <2>3. Shared!JoinedTo(k) = {c \in Callers : caller[c].pc = "subscribed" /\ caller[c].key = k}
    BY <1>0, CallsFields DEF Shared!JoinedTo
  <2>4. result = "cancelled" => Shared!JoinedTo(k) = {}
    BY <1>2, <2>3 DEF Alive, FetchInv, SubscribersHoldToken
  <2>5. ASSUME NEW c \in Callers
        PROVE  calls'[c] = IF c \in Shared!JoinedTo(k) THEN Shared!Told(result, calls[c]) ELSE calls[c]
    <3>0. caller[c] \in Caller  BY <1>0
    <3>1. calls'[c] = CallOf(caller'[c]) /\ calls[c] = CallOf(caller[c])  BY DEF calls
    <3>2. CASE c \in Shared!JoinedTo(k)
      <4>1. caller'[c] = [caller[c] EXCEPT !.pc = "done", !.answer = result]
        BY <2>1, <2>3, <3>2 DEF Publish
      <4>2. CallOf(caller'[c]) = Shared!Told(result, CallOf(caller[c]))
        BY <3>0, <4>1, ToldCall
      <4> QED BY <3>1, <3>2, <4>2
    <3>3. CASE c \notin Shared!JoinedTo(k)
      BY <2>1, <2>3, <3>1, <3>3 DEF Publish
    <3> QED BY <3>2, <3>3
  <2>6. calls' = [c \in Callers |->
                   IF c \in Shared!JoinedTo(k) THEN Shared!Told(result, calls[c]) ELSE calls[c]]
    <3>1. calls' = [c \in Callers |-> calls'[c]]  BY DEF calls
    <3> QED BY <2>5, <3>1
  <2> QED BY <2>1, <2>2, <2>4, <2>6 DEF Shared!Finish
<1> QED BY <1>1, <1>2

LEMMA PollFinishes ==
    ASSUME FetchInv, NEW f \in futures, Poll(f)
    PROVE  (\E k \in Keys, answer \in Answers : Shared!Finish(k, answer))
             \/ UNCHANGED <<calls, fetching, closed>>
<1>1. f.key \in Keys  BY DEF FetchInv, TypeOK, Future
<1>2. (\E r \in Answers : OnComplete(f, r)) \/ (\E g : Progress(f, g))
  BY DEF Poll, SelectCandidates, StartRound, AttemptHit, AttemptMiss, Answers
<1>3. CASE \E g : Progress(f, g)  BY <1>3 DEF Progress, calls, fetching
<1>4. CASE \E r \in Answers : OnComplete(f, r)  BY <1>1, <1>4, OnCompleteFinishes
<1> QED BY <1>2, <1>3, <1>4

LEMMA StopTells ==
    ASSUME FetchInv, closed, Stop
    PROVE  Shared!TellAll
<1> DEFINE told == {c \in Callers : \/ caller[c].pc = "subscribed"
                                    \/ caller[c].pc = "sent" /\ \E i \in 1 .. Len(pending) : pending[i] = c}
<1>0. caller \in [Callers -> Caller]  BY DEF FetchInv, TypeOK
<1>1. /\ caller' = [c \in Callers |-> IF c \in told
                                       THEN [caller[c] EXCEPT !.pc = "done", !.answer = "cancelled"]
                                       ELSE caller[c]]
      /\ inflight' = [k \in Keys |-> None] /\ UNCHANGED closed
  BY DEF Stop
<1>2. /\ told \in SUBSET {c \in Callers : calls[c].pc \in {"sent", "subscribed"}}
      /\ {c \in Callers : calls[c].pc = "subscribed"} \subseteq told
  BY <1>0, CallsFields
<1> HIDE DEF told
<1>3. ASSUME NEW c \in Callers
      PROVE  calls'[c] = IF c \in told THEN Shared!Told("cancelled", calls[c]) ELSE calls[c]
  <2>1. calls'[c] = CallOf(caller'[c]) /\ calls[c] = CallOf(caller[c])  BY DEF calls
  <2>2. CASE c \in told
    <3>1. caller'[c] = [caller[c] EXCEPT !.pc = "done", !.answer = "cancelled"]
      BY <1>1, <2>2
    <3>2. CallOf(caller'[c]) = Shared!Told("cancelled", CallOf(caller[c]))
      BY <1>0, <3>1, ToldCall DEF Answers
    <3> QED BY <2>1, <2>2, <3>2
  <2>3. CASE c \notin told  BY <1>1, <2>1, <2>3
  <2> QED BY <2>2, <2>3
<1>4. calls' = [c \in Callers |-> IF c \in told THEN Shared!Told("cancelled", calls[c]) ELSE calls[c]]
  <2>1. calls' = [c \in Callers |-> calls'[c]]  BY DEF calls
  <2> QED BY <1>3, <2>1
<1>5. fetching' = {}  BY <1>1 DEF fetching
<1> QED BY <1>1, <1>2, <1>4, <1>5 DEF Shared!TellAll

LEMMA FetchAsks ==
    ASSUME FetchInv, NEW c \in Callers, Fetch(c) \/ Abandon(c)
    PROVE  Shared!Ask(c) \/ Shared!Leave(c)
<1> USE FetcherAssumption
<1>0. caller \in [Callers -> Caller] /\ caller[c] \in Caller  BY DEF FetchInv, TypeOK
<1>1. calls[c] = [pc |-> caller[c].pc, key |-> caller[c].key, answer |-> caller[c].answer]
  BY <1>0, CallFields, CallsFields
<1>2. CASE Fetch(c)
  <2>1. PICK k \in Keys :
          caller' = [caller EXCEPT ![c] =
                       IF closed THEN [@ EXCEPT !.pc = "done", !.key = k, !.answer = "cancelled"]
                       ELSE [@ EXCEPT !.pc = "sent", !.key = k]]
    BY <1>2 DEF Fetch
  <2> DEFINE o == IF closed THEN [caller[c] EXCEPT !.pc = "done", !.key = k, !.answer = "cancelled"]
                  ELSE [caller[c] EXCEPT !.pc = "sent", !.key = k]
             asked == [pc |-> "sent", key |-> k, answer |-> calls[c].answer]
  <2>2. o \in Caller  BY <1>0 DEF Caller, Answers
  <2>3. CallOf(o) = IF closed THEN Shared!Told("cancelled", asked) ELSE asked
    <3>1. calls[c].answer = caller[c].answer  BY <1>1
    <3>2. CASE closed
      <4>1. o.pc = "done" /\ o.key = k /\ o.answer = "cancelled"  BY <1>0, <3>2 DEF Caller
      <4> HIDE DEF o
      <4> QED BY <3>2, <4>1 DEF CallOf, Shared!Told
    <3>3. CASE ~closed
      <4>1. o.pc = "sent" /\ o.key = k /\ o.answer = caller[c].answer  BY <1>0, <3>3 DEF Caller
      <4> HIDE DEF o
      <4> QED BY <3>1, <3>3, <4>1 DEF CallOf
    <3> QED BY <3>2, <3>3
  <2>4. caller' = [caller EXCEPT ![c] = o]  BY <1>0, <2>1
  <2> HIDE DEF o
  <2>5. calls' = [calls EXCEPT ![c] = CallOf(o)]  BY <1>0, <2>2, <2>4, OneCallChanges
  <2>6. calls[c].pc = "idle" /\ UNCHANGED <<fetching, closed>>
    BY <1>0, <1>2, CallsFields DEF Fetch, fetching
  <2> QED BY <2>3, <2>5, <2>6 DEF Shared!Ask
<1>3. CASE Abandon(c)
  <2> DEFINE o == [caller[c] EXCEPT !.pc = "gone"]
  <2>1. o \in Caller /\ o.pc = "gone" /\ o.key = caller[c].key /\ o.answer = caller[c].answer
    BY <1>0 DEF Caller
  <2>2. caller' = [caller EXCEPT ![c] = o]  BY <1>0, <1>3 DEF Abandon
  <2> HIDE DEF o
  <2>3. calls' = [calls EXCEPT ![c] = CallOf(o)]  BY <1>0, <2>1, <2>2, OneCallChanges
  <2>4. CallOf(o) = [calls[c] EXCEPT !.pc = "gone"]  BY <1>1, <2>1, CallFields
  <2>5. calls[c].pc \in {"sent", "subscribed"} /\ UNCHANGED <<fetching, closed>>
    BY <1>0, <1>3, CallsFields DEF Abandon, fetching
  <2> QED BY <2>3, <2>4, <2>5 DEF Shared!Leave
<1> QED BY <1>2, <1>3

LEMMA FetcherSimulates == FetchInv /\ [Next]_vars => [Shared!CallsNext]_(Shared!callVars)
<1> SUFFICES ASSUME FetchInv, [Next]_vars PROVE Shared!CallsNext \/ UNCHANGED <<calls, fetching, closed>>
  BY DEF Shared!callVars
<1>0. channel \in Seq(Callers) /\ pending \in Seq(Callers)  BY DEF FetchInv, TypeOK
<1>1. CASE \E c \in Callers : Fetch(c) \/ Abandon(c)
  BY <1>1, FetchAsks DEF Shared!CallsNext
<1>2. CASE Interrupt
  BY <1>2 DEF Interrupt, Shared!CallsNext, Shared!Close, calls, fetching
<1>3. CASE WorkerStep
  <2>1. ASSUME channel # <<>>, OnRequest(Head(channel), pending), UNCHANGED closed
        PROVE  Shared!CallsNext \/ UNCHANGED <<calls, fetching, closed>>
    <3>1. Head(channel) \in Callers /\ caller[Head(channel)].key \in Keys
      BY <1>0, <2>1 DEF FetchInv, KeysKnown
    <3> QED BY <2>1, <3>1, OnRequestJoins DEF Shared!CallsNext
  <2>2. ASSUME pending # <<>>, OnRequest(Head(pending), Tail(pending)), UNCHANGED closed
        PROVE  Shared!CallsNext \/ UNCHANGED <<calls, fetching, closed>>
    <3>1. Head(pending) \in Callers /\ caller[Head(pending)].key \in Keys
      BY <1>0, <2>2 DEF FetchInv, KeysKnown
    <3> QED BY <2>2, <3>1, OnRequestJoins DEF Shared!CallsNext
  <2>3. ASSUME UNCHANGED <<caller, closed, inflight>>
        PROVE  UNCHANGED <<calls, fetching, closed>>
    BY <2>3 DEF calls, fetching
  <2>4. ASSUME closed, Stop PROVE Shared!CallsNext
    BY <2>4, StopTells DEF Shared!CallsNext
  <2> QED BY <1>3, <2>1, <2>2, <2>3, <2>4 DEF WorkerStep, LoopHead, Drain, Receive, Admit
<1>4. CASE \E f \in futures : Poll(f)
  BY <1>4, PollFinishes DEF Shared!CallsNext, Shared!Answers, Answers
<1>5. CASE UNCHANGED vars
  BY <1>5 DEF vars, calls, fetching
<1> QED BY <1>1, <1>2, <1>3, <1>4, <1>5 DEF Next

(***************************************************************************)
(* The worker implements the abstract sharing of fetches: whatever is      *)
(* deferred, re-admitted, re-armed or raced in rounds, its callers see one *)
(* fetch per key, within the capacity, that ends for all of them at once.  *)
(***************************************************************************)
THEOREM FetcherImplementsCalls == Spec => ImplementsCalls
<1>1. Init => Shared!CallsInit
  BY DEF Init, Shared!CallsInit, Shared!NoCall, calls, fetching, CallOf
<1> QED BY <1>1, FetcherInductive, FetcherSimulates, PTL DEF Spec, ImplementsCalls, Shared!CallsSpec
=============================================================================
