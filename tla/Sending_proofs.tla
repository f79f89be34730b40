---------------------------- MODULE Sending_proofs ----------------------------
(***************************************************************************)
(* The sender's safety for any destination, any rows, any limits and any   *)
(* number of restarts, with the startup burst enabled (its default).       *)
(***************************************************************************)
EXTENDS Sending, SequenceTheorems, TLAPS

(***************************************************************************)
(* The inductive invariant.  What the properties need beside themselves: a *)
(* destination without a status has no active rows, since composing a      *)
(* transaction marks its rows active beside those that are there, and a    *)
(* worker that is down has nothing in memory.                              *)
(***************************************************************************)
NoStatusNoActive == Serving /\ status = "none" => active = {}

DownIsEmpty ==
    mode = "down" => status = "none" /\ futures = <<>> /\ worker = "idle"

SendInv ==
    /\ TypeOK
    /\ StatusTracksFlight
    /\ DownIsEmpty
    /\ AckCoversActive
    /\ NoStatusNoActive
    /\ NoRowLost
    /\ PushFailureArmed

(***************************************************************************)
(* "In flight" as StatusTracksFlight means it.                             *)
(***************************************************************************)
SaysInFlight == status \in InFlightStatus \/ (Kind = "push" /\ status = "retrying")

Statuses == InFlightStatus \union {"none", "failed", "retrying"}

(***************************************************************************)
(* The destination is fixed, and with it everything derived from it.       *)
(***************************************************************************)
LEMMA DestFixed ==
    ASSUME dest' = dest
    PROVE  Rows' = Rows /\ Edus' = Edus /\ Kind' = Kind /\ Payloads' = Payloads
BY DEF Rows, Pdus, Edus, Badges, Kind, Payloads

LEMMA EdusAreRows == Edus \subseteq Rows
BY DEF Rows

LEMMA FirstRowsSubset ==
    ASSUME NEW S, NEW k
    PROVE  FirstRows(S, k) \subseteq S
BY DEF FirstRows

LEMMA ShortSequences ==
    ASSUME NEW S
    PROVE  /\ \A s \in Seq(S) : Len(s) \in Nat /\ (Len(s) = 0 => s = <<>>)
           /\ \A e \in S : Append(<<>>, e) = <<e>> /\ <<e>> \in Seq(S)
<1>1. \A s \in Seq(S) : Len(s) \in Nat /\ (Len(s) = 0 => s = <<>>)
  BY EmptySeq
<1>2. \A e \in S : Append(<<>>, e) = <<e>> /\ <<e>> \in Seq(S)
  OBVIOUS
<1> QED BY <1>1, <1>2

(***************************************************************************)
(* Sending with nothing in flight.                                         *)
(***************************************************************************)
LEMMA TransmitAlone ==
    ASSUME futures = <<>>, NEW payload \in Payloads, NEW as \in Statuses,
           Transmit(payload, as)
    PROVE  /\ futures' \in Seq(Payloads)
           /\ \/ status' = "none" /\ futures' = <<>> /\ payload.rows = {}
              \/ status' = as /\ futures' = <<payload>>
<1>1. CASE IsEmptyPayload(payload)
  BY <1>1 DEF Transmit, IsEmptyPayload
<1>2. CASE ~ IsEmptyPayload(payload)
  <2>1. status' = as /\ futures' = Append(<<>>, payload)
    BY <1>2 DEF Transmit
  <2> QED BY <2>1, ShortSequences
<1> QED BY <1>1, <1>2

(***************************************************************************)
(* Composing the next transaction beside the active rows `kept': receipts  *)
(* `left' stay unread, the watermark has `passed' some of them, and `edus' *)
(* ride along.                                                             *)
(***************************************************************************)
Composition(rows, kept, left, passed, edus, p) ==
    /\ left \subseteq fresh \intersect Receipts /\ passed \subseteq left
    /\ edus \subseteq fresh \ left
    /\ p \in Payloads /\ p.rows = rows \union edus
    /\ queued' = (queued \ rows) \union ((fresh \ left) \ edus)
    /\ active' = kept \union p.rows
    /\ fresh' = left \ passed
    /\ skipped' = skipped \union passed
    /\ presence' = FALSE
    /\ Transmit(p, "running")

LEMMA ComposeParts ==
    ASSUME TypeOK, NEW rows, rows \subseteq queued, NEW kept, Compose(rows, kept)
    PROVE  \E left, passed, edus, p : Composition(rows, kept, left, passed, edus, p)
<1>1. PICK left \in Unread : \E passed \in SUBSET left :
        /\ queued' = (queued \ rows) \union ((fresh \ left) \ Shipped(fresh \ left, rows))
        /\ active' = kept \union rows \union Shipped(fresh \ left, rows)
        /\ fresh' = left \ passed
        /\ skipped' = skipped \union passed
        /\ presence' = FALSE
        /\ Transmit([rows |-> rows \union Shipped(fresh \ left, rows),
                     presence |-> PresenceRides(fresh \ left, rows)], "running")
  BY DEF Compose
<1> DEFINE edus == Shipped(fresh \ left, rows)
           p == [rows |-> rows \union edus, presence |-> PresenceRides(fresh \ left, rows)]
<1>2. left \in SUBSET (fresh \intersect Receipts)
  BY DEF Unread
<1>3. edus \in SUBSET (fresh \ left)
  BY FirstRowsSubset DEF Shipped
<1>4. p \in Payloads /\ p.rows = rows \union edus
  <2>1. PresenceRides(fresh \ left, rows) \in BOOLEAN
    BY DEF PresenceRides
  <2>2. rows \union edus \subseteq Rows
    BY <1>3, EdusAreRows DEF TypeOK
  <2> QED BY <2>1, <2>2 DEF Payloads
<1>5. PICK passed \in SUBSET left :
        /\ queued' = (queued \ rows) \union ((fresh \ left) \ edus)
        /\ active' = kept \union rows \union edus
        /\ fresh' = left \ passed
        /\ skipped' = skipped \union passed
        /\ presence' = FALSE
        /\ Transmit(p, "running")
  BY <1>1
<1> HIDE DEF edus, p
<1>6. active' = kept \union p.rows
  BY <1>4, <1>5
<1>7. Composition(rows, kept, left, passed, edus, p)
  BY <1>2, <1>3, <1>4, <1>5, <1>6 DEF Composition
<1> QED BY <1>7

(***************************************************************************)
(* What every handler that may start a transaction leaves behind.          *)
(***************************************************************************)
FlightAgrees ==
    /\ futures \in Seq(Payloads) /\ status \in Statuses
    /\ Len(futures) <= 1
    /\ Len(futures) = 1 <=> SaysInFlight
    /\ \A i \in DOMAIN futures : active \subseteq futures[i].rows
    /\ status = "none" => active = {}

LEMMA OneInFlight ==
    ASSUME NEW p \in Payloads, futures' = <<p>>, active' \subseteq p.rows,
           Payloads' = Payloads, Kind' = Kind,
           status' \in InFlightStatus \/ (Kind = "push" /\ status' = "retrying")
    PROVE  FlightAgrees'
BY DEF FlightAgrees, SaysInFlight, Statuses, InFlightStatus

LEMMA NoneInFlight ==
    ASSUME futures' = <<>>, status' \in {"none", "failed", "retrying"},
           Kind = "push" => status' # "retrying",
           Kind' = Kind, Payloads' = Payloads, status' = "none" => active' = {}
    PROVE  FlightAgrees'
BY DEF FlightAgrees, SaysInFlight, Statuses, InFlightStatus

(***************************************************************************)
(* A transaction composed beside no active row.                            *)
(***************************************************************************)
LEMMA ComposeAlone ==
    ASSUME TypeOK, dest' = dest, futures = <<>>, NEW rows, rows \subseteq queued,
           Compose(rows, {})
    PROVE  /\ queued' \subseteq Rows /\ active' \subseteq Rows
           /\ fresh' \subseteq Edus /\ presence' = FALSE
           /\ skipped' \subseteq Edus \intersect Receipts
           /\ queued \union fresh \union skipped
                \subseteq queued' \union active' \union fresh' \union skipped'
           /\ FlightAgrees' /\ status' \in {"none", "running"}
<1>1. PICK left, passed, edus, p : Composition(rows, {}, left, passed, edus, p)
  BY ComposeParts
<1>2. /\ left \subseteq fresh \intersect Receipts /\ passed \subseteq left
      /\ edus \subseteq fresh \ left
      /\ p \in Payloads /\ p.rows = rows \union edus
      /\ queued' = (queued \ rows) \union ((fresh \ left) \ edus)
      /\ active' = p.rows
      /\ fresh' = left \ passed
      /\ skipped' = skipped \union passed
      /\ presence' = FALSE
      /\ Transmit(p, "running")
  BY <1>1 DEF Composition
<1>3. /\ fresh \subseteq Edus /\ Edus \subseteq Rows /\ queued \subseteq Rows
      /\ skipped \subseteq Edus \intersect Receipts
  BY EdusAreRows DEF TypeOK
<1>4. /\ queued' \subseteq Rows /\ active' \subseteq Rows
      /\ fresh' \subseteq Edus /\ skipped' \subseteq Edus \intersect Receipts
      /\ queued \union fresh \union skipped
           \subseteq queued' \union active' \union fresh' \union skipped'
  BY <1>2, <1>3
<1>5. "running" \in Statuses /\ "running" \in InFlightStatus
  BY DEF Statuses, InFlightStatus
<1>6. \/ status' = "none" /\ futures' = <<>> /\ p.rows = {}
      \/ status' = "running" /\ futures' = <<p>>
  BY <1>2, <1>5, TransmitAlone
<1>7. Payloads' = Payloads /\ Kind' = Kind
  BY DestFixed
<1>8. CASE status' = "none" /\ futures' = <<>> /\ p.rows = {}
  BY <1>2, <1>4, <1>7, <1>8, NoneInFlight
<1>9. CASE status' = "running" /\ futures' = <<p>>
  <2>1. status' \in InFlightStatus /\ active' \subseteq p.rows
    BY <1>2, <1>5, <1>9
  <2>2. FlightAgrees'
    BY <1>2, <1>7, <1>9, <2>1, OneInFlight
  <2> QED BY <1>2, <1>4, <1>9, <2>2
<1> QED BY <1>6, <1>8, <1>9

(***************************************************************************)
(* select_events and schedule_events, for a request, a wake or a flush.    *)
(***************************************************************************)
LEMMA SelectEventsKeeps ==
    ASSUME SendInv, Serving, Yielded = 0, dest' = dest,
           NEW rows, NEW flush \in BOOLEAN, SelectEvents(rows, flush)
    PROVE  /\ queued' \subseteq Rows /\ active' \subseteq Rows
           /\ fresh' \subseteq Edus /\ presence' \in BOOLEAN
           /\ FlightAgrees'
           /\ skipped' \subseteq Edus \intersect Receipts
           /\ queued \union active \union fresh \union skipped
                \subseteq queued' \union active' \union fresh' \union skipped'
           /\ status' = "failed" => Refused /\ status = "failed"
<1>0. /\ queued \subseteq Rows /\ active \subseteq Rows /\ fresh \subseteq Edus
      /\ presence \in BOOLEAN /\ futures \in Seq(Payloads) /\ status \in Statuses
      /\ skipped \subseteq Edus \intersect Receipts
  BY DEF SendInv, TypeOK, Statuses
<1>1. /\ Len(futures) \in Nat /\ Len(futures) <= 1 /\ (Len(futures) = 1 <=> SaysInFlight)
      /\ \A i \in DOMAIN futures : active \subseteq futures[i].rows
      /\ status = "none" => active = {}
  <2>1. Len(futures) \in Nat
    BY <1>0, ShortSequences
  <2>2. Len(futures) <= 1 /\ (Len(futures) = 1 <=> SaysInFlight)
    BY <2>1 DEF SendInv, StatusTracksFlight, SaysInFlight
  <2> QED BY <2>1, <2>2 DEF SendInv, AckCoversActive, NoStatusNoActive
<1>2. Payloads' = Payloads /\ Kind' = Kind
  BY DestFixed
<1>3. CASE Refuse(flush)
  <2>1. /\ UNCHANGED <<queued, active, fresh, presence, futures, skipped>> /\ Refused
        /\ status' = IF flush /\ Kind = "appservice" /\ status \in InFlightStatus
                     THEN "force" ELSE status
    BY <1>3 DEF Refuse
  <2>2. /\ status' \in Statuses /\ (status' \in InFlightStatus <=> status \in InFlightStatus)
        /\ status' \notin InFlightStatus => status' = status
        /\ status' \in {"none", "failed", "retrying"} => status' = status
        /\ status' = "retrying" <=> status = "retrying"
    BY <1>0, <2>1 DEF Statuses, InFlightStatus
  <2>3. FlightAgrees'
    BY <1>0, <1>1, <1>2, <2>1, <2>2 DEF FlightAgrees, SaysInFlight
  <2> QED BY <1>0, <2>1, <2>2, <2>3
<1>4. CASE RetryActive
  <2> DEFINE p == [rows |-> active, presence |-> FALSE]
  <2>1. /\ UNCHANGED <<queued, active, fresh, presence, skipped>> /\ ~ Refused
        /\ status \in {"failed", "retrying"} /\ Transmit(p, RetryStatus)
    BY <1>4 DEF RetryActive
  <2>2. p \in Payloads /\ p.rows = active
    BY <1>0 DEF Payloads
  <2>3. ~ SaysInFlight
    BY <2>1 DEF SaysInFlight, Refused
  <2>4. futures = <<>>
    <3>1. Len(futures) = 0
      BY <1>1, <2>3
    <3> QED BY <1>0, <3>1, ShortSequences
  <2> HIDE DEF p
  <2>5. RetryStatus \in Statuses /\ RetryStatus # "failed"
        /\ (RetryStatus \in InFlightStatus \/ (Kind = "push" /\ RetryStatus = "retrying"))
    <3>1. CASE Kind = "push"
      BY <3>1 DEF RetryStatus, Statuses, InFlightStatus
    <3>2. CASE Kind # "push"
      BY <3>2 DEF RetryStatus, Statuses, InFlightStatus
    <3> QED BY <3>1, <3>2
  <2>6. \/ status' = "none" /\ futures' = <<>> /\ p.rows = {}
        \/ status' = RetryStatus /\ futures' = <<p>>
    BY <2>1, <2>2, <2>4, <2>5, TransmitAlone
  <2>7. CASE status' = "none" /\ futures' = <<>> /\ p.rows = {}
    BY <1>0, <1>2, <2>1, <2>2, <2>7, NoneInFlight
  <2>8. CASE status' = RetryStatus /\ futures' = <<p>>
    BY <1>0, <1>2, <2>1, <2>2, <2>5, <2>8, OneInFlight
  <2> QED BY <2>6, <2>7, <2>8
<1>5. CASE ComposeNext(rows)
  <2>1. ~ Refused /\ status = "none" /\ Compose(RetainQueued(rows), active)
    BY <1>5 DEF ComposeNext
  <2>2. active = {}
    BY <1>1, <2>1
  <2>3. ~ SaysInFlight
    BY <2>1 DEF SaysInFlight, InFlightStatus
  <2>4. futures = <<>>
    <3>1. Len(futures) = 0
      BY <1>1, <2>3
    <3> QED BY <1>0, <3>1, ShortSequences
  <2>5. RetainQueued(rows) \subseteq queued
    BY DEF RetainQueued
  <2>6. Compose(RetainQueued(rows), {}) /\ TypeOK
    BY <2>1, <2>2 DEF SendInv
  <2>7. /\ queued' \subseteq Rows /\ active' \subseteq Rows
        /\ fresh' \subseteq Edus /\ presence' = FALSE
        /\ skipped' \subseteq Edus \intersect Receipts
        /\ queued \union fresh \union skipped
             \subseteq queued' \union active' \union fresh' \union skipped'
        /\ FlightAgrees' /\ status' \in {"none", "running"}
    BY <2>4, <2>5, <2>6, ComposeAlone
  <2> QED BY <2>2, <2>7
<1> QED BY <1>3, <1>4, <1>5 DEF SelectEvents

(***************************************************************************)
(* Steps of other tasks: they do not touch what is in flight, and active   *)
(* rows at most go away.                                                   *)
(***************************************************************************)
LEMMA QuietKeeps ==
    ASSUME SendInv, UNCHANGED <<dest, mode, worker, status, futures>>,
           active' \subseteq active, settled' = settled,
           TypeOK', NoRowLost', PushFailureArmed'
    PROVE  SendInv'
<1>1. Kind' = Kind
  BY DestFixed
<1>2. StatusTracksFlight'
  BY <1>1 DEF SendInv, StatusTracksFlight, Yielded, Serving, InFlightStatus
<1>3. DownIsEmpty' /\ NoStatusNoActive'
  BY DEF SendInv, DownIsEmpty, NoStatusNoActive, Serving
<1>4. AckCoversActive'
  BY DEF SendInv, AckCoversActive
<1> QED BY <1>2, <1>3, <1>4 DEF SendInv

LEMMA ProducerKeeps ==
    ASSUME SendInv, Producer
    PROVE  SendInv'
<1> USE DEF durable, memory, senders, ghosts
<1>0. dest' = dest
  BY DEF Producer, Enqueue, AccrueEdu, Dispatch, SendFlush, NotifyPeerAlive,
         OtherRequest, AccruePresence, CleanupActive, CleanupQueued
<1>1. Rows' = Rows /\ Edus' = Edus /\ Kind' = Kind /\ Payloads' = Payloads /\ Edus \subseteq Rows
  BY <1>0, DestFixed, EdusAreRows
<1>2. ASSUME NEW r \in Rows, Enqueue(r) \/ AccrueEdu(r)
      PROVE  SendInv'
  <2>1. TypeOK'
    BY <1>1, <1>2 DEF SendInv, TypeOK, Enqueue, AccrueEdu
  <2>2. NoRowLost' /\ PushFailureArmed'
    BY <1>1, <1>2 DEF SendInv, NoRowLost, PushFailureArmed, Serving, Enqueue, AccrueEdu
  <2>3. UNCHANGED <<dest, mode, worker, status, futures, active, settled>>
    BY <1>2 DEF Enqueue, AccrueEdu
  <2> QED BY <2>1, <2>2, <2>3, QuietKeeps
<1>3. ASSUME NEW m \in outbox, Dispatch(m)
      PROVE  SendInv'
  <2>1. UNCHANGED <<dest, durable, disk, mode, worker, memory, cleaning, flushes,
                    restarts, ghosts>>
    BY <1>3 DEF Dispatch
  <2>2. m \in Rows \union {Flush} /\ outbox' \subseteq Rows \union {Flush}
    BY <1>3 DEF SendInv, TypeOK, Dispatch
  <2>3. channel' \in Seq(Rows \union {Flush})
    BY <1>3, <2>2 DEF SendInv, TypeOK, Dispatch
  <2>4. TypeOK'
    BY <1>1, <2>1, <2>2, <2>3 DEF SendInv, TypeOK, Flush
  <2>5. NoRowLost' /\ PushFailureArmed'
    BY <1>1, <2>1 DEF SendInv, NoRowLost, PushFailureArmed, Serving
  <2> QED BY <2>1, <2>4, <2>5, QuietKeeps
<1>4. CASE SendFlush \/ NotifyPeerAlive
  <2>1. UNCHANGED <<dest, queued, active, fresh, presence, disk, mode, worker, memory,
                    cleaning, restarts, ghosts>>
    BY <1>4 DEF SendFlush, NotifyPeerAlive
  <2>2. peer' \in {peer, "clear"} /\ flushes' \in 0 .. MaxFlushes
    BY <1>4, BoundsAssumption DEF SendInv, TypeOK, SendFlush, NotifyPeerAlive
  <2>3. /\ channel' \in Seq(Rows \union {Flush})
        /\ outbox' \subseteq Rows \union {Flush}
    <3>1. channel \in Seq(Rows \union {Flush}) /\ outbox \subseteq Rows \union {Flush}
      BY DEF SendInv, TypeOK
    <3>2. /\ channel' = channel \/ channel' = Append(channel, Flush)
          /\ outbox' = outbox \/ outbox' = outbox \union {Flush}
      BY <1>4 DEF SendFlush, NotifyPeerAlive
    <3>3. channel' \in Seq(Rows \union {Flush})
      BY <3>1, <3>2
    <3> QED BY <3>1, <3>2, <3>3
  <2>4. TypeOK'
    BY <1>1, <2>1, <2>2, <2>3 DEF SendInv, TypeOK, Flush
  <2>5. NoRowLost' /\ PushFailureArmed'
    BY <1>1, <2>1 DEF SendInv, NoRowLost, PushFailureArmed, Serving
  <2> QED BY <2>1, <2>4, <2>5, QuietKeeps
<1>5. CASE OtherRequest \/ AccruePresence
  <2>1. /\ UNCHANGED <<dest, queued, active, fresh, disk, mode, worker, memory,
                       senders, restarts, ghosts>>
        /\ peer' \in {peer, "clear", "backoff"}
    BY <1>5 DEF OtherRequest, AccruePresence
  <2>p. presence' \in BOOLEAN
    BY <1>5 DEF OtherRequest, AccruePresence, SendInv, TypeOK
  <2>2. TypeOK'
    BY <1>1, <2>1, <2>p DEF SendInv, TypeOK, Flush
  <2>3. NoRowLost' /\ PushFailureArmed'
    BY <1>1, <2>1 DEF SendInv, NoRowLost, PushFailureArmed, Serving
  <2> QED BY <2>1, <2>2, <2>3, QuietKeeps
<1>6. CASE CleanupActive \/ CleanupQueued
  <2>1. /\ UNCHANGED <<dest, fresh, presence, peer, disk, mode, worker, memory, channel,
                       outbox, flushes, restarts, known, settled, skipped>>
        /\ active' \subseteq active /\ queued' \subseteq queued /\ cleaning' \in BOOLEAN
        /\ dropped' \subseteq dropped \union active \union queued
        /\ queued \union active \union dropped \subseteq queued' \union active' \union dropped'
    BY <1>6 DEF CleanupActive, CleanupQueued
  <2>2. TypeOK'
    BY <1>1, <2>1 DEF SendInv, TypeOK, Flush
  <2>3. NoRowLost' /\ PushFailureArmed'
    BY <1>1, <2>1 DEF SendInv, NoRowLost, PushFailureArmed, Serving
  <2> QED BY <2>1, <2>2, <2>3, QuietKeeps
<1> QED BY <1>2, <1>3, <1>4, <1>5, <1>6 DEF Producer

(***************************************************************************)
(* Time, and the log's flush.                                              *)
(***************************************************************************)
LEMMA EnvironmentKeeps ==
    ASSUME SendInv, BackoffElapses \/ FlushWal
    PROVE  SendInv'
<1> USE DEF durable, memory, senders, ghosts
<1>0. /\ UNCHANGED <<dest, queued, active, fresh, presence, mode, worker, status, futures,
                     wakes, senders, restarts, ghosts>>
      /\ peer' \in {peer, "elapsed"} /\ disk' \in {disk, Recovered}
  BY DEF BackoffElapses, FlushWal
<1>b. backoff' \in BOOLEAN
  BY DEF BackoffElapses, FlushWal, SendInv, TypeOK
<1>1. Rows' = Rows /\ Edus' = Edus /\ Kind' = Kind /\ Payloads' = Payloads
  BY <1>0, DestFixed
<1>2. disk' \in [queued : SUBSET Rows, active : SUBSET Rows, fresh : SUBSET Edus,
                 presence : BOOLEAN, peer : {"clear", "backoff", "elapsed"}]
  BY <1>0 DEF SendInv, TypeOK, Recovered
<1>3. TypeOK'
  BY <1>0, <1>b, <1>1, <1>2 DEF SendInv, TypeOK, Flush
<1>4. NoRowLost' /\ PushFailureArmed'
  BY <1>0, <1>1 DEF SendInv, NoRowLost, PushFailureArmed, Serving
<1> QED BY <1>0, <1>3, <1>4, QuietKeeps

(***************************************************************************)
(* A future that is there is the only one, and nothing is yielded.         *)
(***************************************************************************)
LEMMA OnlyFuture ==
    ASSUME SendInv, NEW i \in DOMAIN futures
    PROVE  /\ Len(futures) = 1 /\ Yielded = 0 /\ i = 1
           /\ RemoveAt(futures, i) = <<>>
           /\ futures[i] \in Payloads /\ futures[i].rows \subseteq Rows
           /\ active \subseteq futures[i].rows
<1>1. futures \in Seq(Payloads) /\ DOMAIN futures = 1 .. Len(futures) /\ Len(futures) \in Nat
  BY LenProperties DEF SendInv, TypeOK
<1>2. Yielded \in {0, 1} /\ Len(futures) + Yielded <= 1
  BY DEF SendInv, StatusTracksFlight, Yielded
<1>3. Len(futures) = 1 /\ Yielded = 0 /\ i = 1
  BY <1>1, <1>2
<1>4. RemoveAt(futures, i) = SubSeq(futures, 1, 0) \o SubSeq(futures, 2, 1)
  BY <1>3 DEF RemoveAt
<1>5. SubSeq(futures, 1, 0) = <<>> /\ SubSeq(futures, 2, 1) = <<>>
  BY <1>1, <1>3, SubSeqEmpty
<1>6. RemoveAt(futures, i) = <<>>
  BY <1>4, <1>5
<1>7. futures[i] \in Payloads
  BY <1>1
<1> QED BY <1>3, <1>6, <1>7 DEF Payloads, SendInv, AckCoversActive

LEMMA FutureKeeps ==
    ASSUME SendInv, FutureStep
    PROVE  SendInv'
<1> USE DEF durable, memory, senders, ghosts
<1>0. PICK i \in DOMAIN futures :
        \/ FutureOk(i) \/ FutureServerErr(i) \/ FutureAppserviceErr(i) \/ FuturePushErr(i)
  BY DEF FutureStep
<1>1. /\ Len(futures) = 1 /\ Yielded = 0 /\ RemoveAt(futures, i) = <<>>
      /\ futures[i].rows \subseteq Rows /\ active \subseteq futures[i].rows
  BY OnlyFuture
<1>2. /\ UNCHANGED <<dest, queued, fresh, presence, disk, mode, status, backoff, wakes,
                     senders, restarts, known, dropped, skipped>>
      /\ futures' = <<>> /\ worker = "idle" /\ mode # "down"
      /\ worker' \in {"ok", "failed", "rejected"}
      /\ peer' \in {peer, "clear", "backoff"}
      /\ active' \subseteq active /\ settled' \subseteq settled \union futures[i].rows
      /\ active \union settled \subseteq active' \union settled'
      /\ worker' = "ok" => active \subseteq settled'
  <2>1. CASE FutureOk(i)
    BY <1>1, <2>1 DEF FutureOk
  <2>2. CASE FutureServerErr(i)
    BY <1>1, <2>2 DEF FutureServerErr
  <2>3. CASE FutureAppserviceErr(i)
    BY <1>1, <2>3 DEF FutureAppserviceErr
  <2>4. CASE FuturePushErr(i)
    <3>1. PICK sent \in SUBSET (futures[i].rows \intersect Pdus) :
            active' = active \ sent /\ settled' = settled \union sent
      BY <2>4 DEF FuturePushErr
    <3>2. /\ UNCHANGED <<dest, queued, fresh, presence, peer, disk, mode, status, backoff,
                         wakes, senders, restarts, known, dropped, skipped>>
          /\ futures' = RemoveAt(futures, i) /\ worker = "idle" /\ mode # "down"
          /\ worker' = "failed"
      BY <2>4 DEF FuturePushErr
    <3> QED BY <1>1, <3>1, <3>2
  <2> QED BY <1>0, <2>1, <2>2, <2>3, <2>4
<1>3. Rows' = Rows /\ Edus' = Edus /\ Kind' = Kind /\ Payloads' = Payloads
  BY <1>2, DestFixed
<1>4. TypeOK'
  BY <1>1, <1>2, <1>3 DEF SendInv, TypeOK, Flush
<1>5. StatusTracksFlight'
  <2>1. Yielded' = 1 /\ Len(futures') = 0
    BY <1>2 DEF Yielded
  <2>2. Serving => SaysInFlight
    BY <1>1 DEF SendInv, StatusTracksFlight, SaysInFlight
  <2> QED BY <1>2, <1>3, <2>1, <2>2
        DEF StatusTracksFlight, SaysInFlight, Serving, InFlightStatus
<1>6. DownIsEmpty' /\ NoStatusNoActive' /\ PushFailureArmed'
  BY <1>2, <1>3 DEF SendInv, DownIsEmpty, NoStatusNoActive, PushFailureArmed, Serving
<1>7. AckCoversActive'
  BY <1>2 DEF AckCoversActive
<1>8. NoRowLost'
  BY <1>2 DEF SendInv, NoRowLost
<1> QED BY <1>4, <1>5, <1>6, <1>7, <1>8 DEF SendInv

(***************************************************************************)
(* A handler ends with FlightAgrees: then the invariant holds again.       *)
(***************************************************************************)
LEMMA HandlerKeeps ==
    ASSUME mode \in {"run", "closed"}, mode' \in {"run", "closed"}, worker' = "idle",
           TypeOK', FlightAgrees', NoRowLost', PushFailureArmed'
    PROVE  SendInv'
<1>1. Yielded' = 0 /\ Len(futures)' \in Nat
  BY ShortSequences DEF Yielded, FlightAgrees
<1>2. StatusTracksFlight'
  BY <1>1 DEF StatusTracksFlight, FlightAgrees, SaysInFlight
<1>3. DownIsEmpty' /\ NoStatusNoActive' /\ AckCoversActive'
  BY DEF DownIsEmpty, NoStatusNoActive, AckCoversActive, FlightAgrees
<1> QED BY <1>2, <1>3 DEF SendInv

LEMMA SelectingKeeps ==
    ASSUME SendInv, HandleRequest \/ HandlePushWake \/ HandleWakeFlush
    PROVE  SendInv'
<1> USE DEF durable, memory, senders, ghosts
<1>1. /\ UNCHANGED <<dest, peer, disk, mode, backoff, outbox, cleaning, flushes, restarts,
                     known, settled, dropped>>
      /\ mode \in {"run", "closed"} /\ worker \in {"idle", "flush"} /\ worker' = "idle"
      /\ channel' = channel \/ (channel # <<>> /\ channel' = Tail(channel))
      /\ wakes' = wakes \/ (HandlePushWake /\ wakes > 0 /\ wakes' = wakes - 1)
  BY DEF HandleRequest, HandlePushWake, HandleWakeFlush, Looping
<1>2. \E rows : \E flush \in BOOLEAN : SelectEvents(rows, flush)
  <2>1. CASE HandleRequest
    <3> DEFINE m == Head(channel)
    <3>1. SelectEvents(IF m = Flush THEN {} ELSE {m}, m = Flush)
      BY <2>1 DEF HandleRequest
    <3>2. (m = Flush) \in BOOLEAN
      OBVIOUS
    <3> HIDE DEF m
    <3> QED BY <3>1, <3>2
  <2>2. CASE HandlePushWake
    BY <2>2 DEF HandlePushWake
  <2>3. CASE HandleWakeFlush
    BY <2>3 DEF HandleWakeFlush
  <2> QED BY <2>1, <2>2, <2>3
<1>3. Serving /\ Yielded = 0
  BY <1>1 DEF Serving, Yielded
<1>a. PICK rows : \E flush \in BOOLEAN : SelectEvents(rows, flush)
  BY <1>2
<1>b. PICK flush \in BOOLEAN : SelectEvents(rows, flush)
  BY <1>a
<1>4. /\ queued' \subseteq Rows /\ active' \subseteq Rows
      /\ fresh' \subseteq Edus /\ presence' \in BOOLEAN
      /\ FlightAgrees'
      /\ skipped' \subseteq Edus \intersect Receipts
      /\ queued \union active \union fresh \union skipped
           \subseteq queued' \union active' \union fresh' \union skipped'
      /\ status' = "failed" => Refused /\ status = "failed"
  BY <1>1, <1>3, <1>b, SelectEventsKeeps
<1>5. Rows' = Rows /\ Edus' = Edus /\ Kind' = Kind /\ Payloads' = Payloads
  BY <1>1, DestFixed
<1>6. channel' \in Seq(Rows \union {Flush}) /\ wakes' \in Nat
  <2>1. channel \in Seq(Rows \union {Flush}) /\ wakes \in Nat
    BY DEF SendInv, TypeOK
  <2>2. wakes' \in Nat
    BY <1>1, <2>1
  <2>3. channel # <<>> => Tail(channel) \in Seq(Rows \union {Flush})
    BY <2>1
  <2> QED BY <1>1, <2>1, <2>2, <2>3
<1>7. futures' \in Seq(Payloads) /\ status' \in Statuses
  BY <1>4, <1>5 DEF FlightAgrees, Statuses, InFlightStatus
<1>8. TypeOK'
  BY <1>1, <1>4, <1>5, <1>6, <1>7 DEF SendInv, TypeOK, Flush, Statuses, InFlightStatus
<1>9. NoRowLost'
  BY <1>1, <1>4 DEF SendInv, NoRowLost
<1>10. PushFailureArmed'
  <2> SUFFICES ASSUME Kind = "push", status' = "failed" PROVE wakes' > 0
    BY <1>5 DEF PushFailureArmed
  <2>1. Refused /\ status = "failed" /\ wakes > 0
    BY <1>3, <1>4 DEF SendInv, PushFailureArmed
  <2>2. backoff
    BY <2>1 DEF Refused, PeerHeld, InFlightStatus
  <2>3. ~ HandlePushWake
    BY <2>1, <2>2 DEF HandlePushWake
  <2> QED BY <1>1, <2>1, <2>3
<1> QED BY <1>1, <1>4, <1>8, <1>9, <1>10, HandlerKeeps

(***************************************************************************)
(* While a response is being handled nothing else is in flight, and the    *)
(* status says that the response's transaction is.                         *)
(***************************************************************************)
LEMMA WhileYielded ==
    ASSUME SendInv, worker \in {"ok", "failed", "rejected"}
    PROVE  futures = <<>> /\ (Serving => SaysInFlight)
<1>1. Yielded = 1
  BY DEF Yielded
<1>2. futures \in Seq(Payloads)
  BY DEF SendInv, TypeOK
<1>3. Len(futures) \in Nat
  BY <1>2, ShortSequences
<1>4. Len(futures) = 0 /\ (Serving => SaysInFlight)
  BY <1>1, <1>3 DEF SendInv, StatusTracksFlight, SaysInFlight
<1> QED BY <1>2, <1>4, ShortSequences

(***************************************************************************)
(* The acknowledged rows go, the next ones are marked and sent.            *)
(***************************************************************************)
LEMMA ResponseOkKeeps ==
    ASSUME SendInv, HandleResponseOk
    PROVE  SendInv'
<1> USE DEF durable, memory, senders, ghosts
<1> DEFINE rows == FirstRows(queued, DequeueLimit)
<1>1. /\ UNCHANGED <<dest, peer, disk, mode, backoff, wakes, senders, restarts,
                     known, settled, dropped>>
      /\ mode \in {"run", "closed"} /\ worker = "ok" /\ worker' = "idle"
      /\ Compose(rows, {})
  BY DEF HandleResponseOk
<1>2. futures = <<>>
  BY <1>1, WhileYielded
<1>3. rows \subseteq queued
  BY FirstRowsSubset
<1> HIDE DEF rows
<1>4. /\ queued' \subseteq Rows /\ active' \subseteq Rows
      /\ fresh' \subseteq Edus /\ presence' = FALSE
      /\ skipped' \subseteq Edus \intersect Receipts
      /\ queued \union fresh \union skipped
           \subseteq queued' \union active' \union fresh' \union skipped'
      /\ FlightAgrees' /\ status' \in {"none", "running"}
  BY <1>1, <1>2, <1>3, ComposeAlone DEF SendInv
<1>5. Rows' = Rows /\ Edus' = Edus /\ Kind' = Kind /\ Payloads' = Payloads
  BY <1>1, DestFixed
<1>6. futures' \in Seq(Payloads)
  BY <1>4, <1>5 DEF FlightAgrees
<1>7. TypeOK'
  BY <1>1, <1>4, <1>5, <1>6 DEF SendInv, TypeOK, Flush, InFlightStatus
<1>8. NoRowLost'
  BY <1>1, <1>4 DEF SendInv, NoRowLost, AckCoversActive
<1>9. PushFailureArmed'
  BY <1>4 DEF PushFailureArmed
<1> QED BY <1>1, <1>4, <1>7, <1>8, <1>9, HandlerKeeps

LEMMA ResponseErrKeeps ==
    ASSUME SendInv, HandleResponseErr
    PROVE  SendInv'
<1> USE DEF durable, memory, senders, ghosts
<1> DEFINE p == [rows |-> active, presence |-> FALSE]
<1>1. /\ UNCHANGED <<dest, durable, disk, mode, senders, restarts, ghosts>>
      /\ mode \in {"run", "closed"} /\ worker \in {"failed", "rejected"}
      /\ worker' = "idle" /\ backoff' = (Kind = "push")
      /\ wakes' = IF PeerHeld \/ Kind = "push" THEN wakes + 1 ELSE wakes
      /\ IF status = "force" THEN Transmit(p, "running")
         ELSE /\ status' = IF Kind = "push" THEN "failed" ELSE "retrying"
              /\ futures' = futures
  BY DEF HandleResponseErr
<1>2. futures = <<>>
  BY <1>1, WhileYielded
<1>3. Rows' = Rows /\ Edus' = Edus /\ Kind' = Kind /\ Payloads' = Payloads
  BY <1>1, DestFixed
<1>4. p \in Payloads /\ p.rows = active
  BY DEF SendInv, TypeOK, Payloads
<1> HIDE DEF p
<1>5. FlightAgrees' /\ status' \in {"none", "running", "failed", "retrying"}
  <2>1. CASE status = "force"
    <3>1. "running" \in Statuses /\ "running" \in InFlightStatus
      BY DEF Statuses, InFlightStatus
    <3>2. \/ status' = "none" /\ futures' = <<>> /\ p.rows = {}
          \/ status' = "running" /\ futures' = <<p>>
      BY <1>1, <1>2, <1>4, <2>1, <3>1, TransmitAlone
    <3>3. CASE status' = "none" /\ futures' = <<>> /\ p.rows = {}
      BY <1>1, <1>3, <1>4, <3>3, NoneInFlight
    <3>4. CASE status' = "running" /\ futures' = <<p>>
      <4>1. status' \in InFlightStatus /\ active' \subseteq p.rows
        BY <1>1, <1>4, <3>1, <3>4
      <4> QED BY <1>3, <1>4, <3>4, <4>1, OneInFlight
    <3> QED BY <3>2, <3>3, <3>4
  <2>2. CASE status # "force"
    <3>1. /\ status' \in {"failed", "retrying"} /\ futures' = <<>>
          /\ Kind = "push" => status' # "retrying"
      BY <1>1, <1>2, <2>2
    <3> QED BY <1>3, <3>1, NoneInFlight
  <2> QED BY <2>1, <2>2
<1>6. wakes' \in Nat /\ (Kind = "push" => wakes' > 0)
  BY <1>1 DEF SendInv, TypeOK
<1>7. TypeOK'
  <2>1. futures' \in Seq(Payloads) /\ backoff' \in BOOLEAN
    BY <1>1, <1>3, <1>5 DEF FlightAgrees
  <2> QED BY <1>1, <1>3, <1>5, <1>6, <2>1 DEF SendInv, TypeOK, Flush, InFlightStatus
<1>8. NoRowLost'
  BY <1>1 DEF SendInv, NoRowLost
<1>9. PushFailureArmed'
  BY <1>3, <1>6 DEF PushFailureArmed
<1> QED BY <1>1, <1>5, <1>7, <1>8, <1>9, HandlerKeeps

(***************************************************************************)
(* Wakes that start nothing.                                               *)
(***************************************************************************)
LEMMA WakeKeeps ==
    ASSUME SendInv, DropWake \/ HandleServerWake
    PROVE  SendInv'
<1> USE DEF durable, memory, senders, ghosts
<1>1. /\ UNCHANGED <<dest, durable, disk, mode, status, backoff, futures, senders, restarts,
                     ghosts>>
      /\ worker = "idle" /\ worker' \in {"idle", "flush"} /\ mode # "down"
      /\ wakes > 0 /\ wakes' = wakes - 1
  BY DEF DropWake, HandleServerWake, Looping
<1>2. Rows' = Rows /\ Edus' = Edus /\ Kind' = Kind /\ Payloads' = Payloads
  BY <1>1, DestFixed
<1>3. TypeOK'
  BY <1>1, <1>2 DEF SendInv, TypeOK, Flush, InFlightStatus
<1>4. StatusTracksFlight'
  BY <1>1, <1>2 DEF SendInv, StatusTracksFlight, Yielded, Serving, InFlightStatus
<1>5. DownIsEmpty' /\ NoStatusNoActive' /\ AckCoversActive' /\ NoRowLost'
  BY <1>1 DEF SendInv, DownIsEmpty, NoStatusNoActive, AckCoversActive, NoRowLost, Serving
<1>6. PushFailureArmed'
  <2> SUFFICES ASSUME Kind = "push", status = "failed", Serving PROVE wakes' > 0
    BY <1>1, <1>2 DEF PushFailureArmed, Serving
  <2>1. wakes > 1
    BY DEF DropWake, HandleServerWake, InFlightStatus
  <2> QED BY <1>1, <2>1 DEF SendInv, TypeOK
<1> QED BY <1>3, <1>4, <1>5, <1>6 DEF SendInv

(***************************************************************************)
(* Going down keeps the rows of the image and nothing else.                *)
(***************************************************************************)
LEMMA GoDownKeeps ==
    ASSUME SendInv, restarts' \in 0 .. MaxRestarts,
           NEW image \in [queued : SUBSET Rows, active : SUBSET Rows, fresh : SUBSET Edus,
                          presence : BOOLEAN, peer : {"clear", "backoff", "elapsed"}],
           GoDown(image)
    PROVE  SendInv'
<1>1. dest' = dest
  BY DEF GoDown
<1>2. Rows' = Rows /\ Edus' = Edus /\ Kind' = Kind /\ Payloads' = Payloads /\ Edus \subseteq Rows
  BY <1>1, DestFixed, EdusAreRows
<1>3. TypeOK'
  <2>1. /\ queued' \subseteq Rows /\ active' \subseteq Rows /\ fresh' \subseteq Edus
        /\ presence' \in BOOLEAN /\ peer' \in {"clear", "backoff", "elapsed"}
    BY DEF GoDown
  <2>2. known' \subseteq Rows /\ settled' \subseteq Rows /\ dropped' \subseteq Rows
        /\ skipped' \subseteq Edus \intersect Receipts
    BY <1>2 DEF GoDown, SendInv, TypeOK
  <2>3. futures' \in Seq(Payloads) /\ channel' \in Seq(Rows \union {Flush})
    BY DEF GoDown
  <2> QED BY <1>1, <1>2, <2>1, <2>2, <2>3 DEF GoDown, SendInv, TypeOK, Flush
<1>4. StatusTracksFlight'
  BY DEF GoDown, StatusTracksFlight, Yielded, Serving
<1>5. DownIsEmpty' /\ NoStatusNoActive' /\ AckCoversActive' /\ PushFailureArmed'
  BY DEF GoDown, DownIsEmpty, NoStatusNoActive, AckCoversActive, PushFailureArmed, Serving
<1>6. NoRowLost'
  BY DEF GoDown, NoRowLost
<1> QED BY <1>3, <1>4, <1>5, <1>6 DEF SendInv

(***************************************************************************)
(* The startup burst sends exactly the active rows it keeps.  With the     *)
(* burst disabled this fails: the rows stay active without a status, and   *)
(* the next acknowledgement deletes them (run sending_no_burst).           *)
(***************************************************************************)
LEMMA StartupKeeps ==
    ASSUME SendInv, StartupNetburst, StartupBurst
    PROVE  SendInv'
<1> USE DEF durable, memory, senders, ghosts
<1> DEFINE p == [rows |-> KeptAtStart, presence |-> FALSE]
           rows == FirstRows(queued, DequeueLimit)
<1>1. /\ UNCHANGED <<dest, peer, disk, worker, backoff, wakes, senders, restarts, known,
                     settled>>
      /\ mode = "down" /\ mode' = "run"
      /\ dropped' = dropped \union (active \ KeptAtStart)
  BY DEF StartupBurst
<1>2. futures = <<>> /\ worker = "idle" /\ worker' = "idle"
  BY <1>1 DEF SendInv, DownIsEmpty
<1>3. Rows' = Rows /\ Edus' = Edus /\ Kind' = Kind /\ Payloads' = Payloads
  BY <1>1, DestFixed
<1>4. KeptAtStart \subseteq active /\ active \subseteq Rows
  BY FirstRowsSubset DEF KeptAtStart, SendInv, TypeOK
<1>5. p \in Payloads /\ p.rows = KeptAtStart
  BY <1>4 DEF Payloads
<1>6. rows \subseteq queued
  BY FirstRowsSubset
<1>7. \/ BadgeWake /\ Compose(rows, KeptAtStart)
      \/ /\ active' = KeptAtStart /\ Transmit(p, "running")
         /\ UNCHANGED <<queued, fresh, presence, skipped>>
  BY DEF StartupBurst
<1> HIDE DEF p, rows
<1>8. /\ queued' \subseteq Rows /\ active' \subseteq Rows /\ fresh' \subseteq Edus
      /\ presence' \in BOOLEAN /\ skipped' \subseteq Edus \intersect Receipts
      /\ queued \union fresh \union KeptAtStart \union skipped
           \subseteq queued' \union active' \union fresh' \union skipped'
      /\ futures' \in Seq(Payloads) /\ status' \in {"none", "running"}
      /\ FlightAgrees'
  <2>1. CASE BadgeWake /\ Compose(rows, KeptAtStart)
    <3>1. KeptAtStart = {}
      BY <2>1 DEF BadgeWake
    <3>2. Compose(rows, {}) /\ TypeOK
      BY <2>1, <3>1 DEF SendInv
    <3>3. /\ queued' \subseteq Rows /\ active' \subseteq Rows
          /\ fresh' \subseteq Edus /\ presence' = FALSE
          /\ skipped' \subseteq Edus \intersect Receipts
          /\ queued \union fresh \union skipped
               \subseteq queued' \union active' \union fresh' \union skipped'
          /\ FlightAgrees' /\ status' \in {"none", "running"}
      BY <1>1, <1>2, <1>6, <3>2, ComposeAlone
    <3>4. futures' \in Seq(Payloads)
      BY <1>3, <3>3 DEF FlightAgrees
    <3> QED BY <3>1, <3>3, <3>4
  <2>2. CASE /\ active' = KeptAtStart /\ Transmit(p, "running")
             /\ UNCHANGED <<queued, fresh, presence, skipped>>
    <3>1. "running" \in Statuses /\ "running" \in InFlightStatus
      BY DEF Statuses, InFlightStatus
    <3>2. /\ futures' \in Seq(Payloads)
          /\ \/ status' = "none" /\ futures' = <<>> /\ p.rows = {}
             \/ status' = "running" /\ futures' = <<p>>
      BY <1>2, <1>5, <2>2, <3>1, TransmitAlone
    <3>3. FlightAgrees' /\ status' \in {"none", "running"}
      <4>1. CASE status' = "none" /\ futures' = <<>> /\ p.rows = {}
        BY <1>3, <1>5, <2>2, <4>1, NoneInFlight
      <4>2. CASE status' = "running" /\ futures' = <<p>>
        <5>1. status' \in InFlightStatus /\ active' \subseteq p.rows
          BY <1>5, <2>2, <3>1, <4>2
        <5> QED BY <1>3, <1>5, <4>2, <5>1, OneInFlight
      <4> QED BY <3>2, <4>1, <4>2
    <3>4. presence' \in BOOLEAN /\ queued' \subseteq Rows /\ fresh' \subseteq Edus
          /\ skipped' \subseteq Edus \intersect Receipts
      BY <2>2 DEF SendInv, TypeOK
    <3> QED BY <1>4, <2>2, <3>2, <3>3, <3>4
  <2> QED BY <1>7, <2>1, <2>2
<1>9. TypeOK'
  BY <1>1, <1>3, <1>4, <1>8 DEF SendInv, TypeOK, Flush, InFlightStatus
<1>10. NoRowLost'
  BY <1>1, <1>8 DEF SendInv, NoRowLost
<1>11. PushFailureArmed'
  BY <1>8 DEF PushFailureArmed
<1>12. StatusTracksFlight'
  <2>1. Yielded' = 0
    BY <1>2 DEF Yielded
  <2>2. Len(futures)' \in Nat
    BY <1>8, ShortSequences
  <2> QED BY <1>8, <2>1, <2>2 DEF StatusTracksFlight, FlightAgrees, SaysInFlight
<1>13. DownIsEmpty' /\ NoStatusNoActive' /\ AckCoversActive'
  BY <1>1, <1>2, <1>8 DEF DownIsEmpty, NoStatusNoActive, AckCoversActive, FlightAgrees
<1> QED BY <1>9, <1>10, <1>11, <1>12, <1>13 DEF SendInv

(***************************************************************************)
(* Shutdown, crash and startup.                                            *)
(***************************************************************************)
LEMMA LifecycleKeeps ==
    ASSUME SendInv, StartupNetburst, Lifecycle
    PROVE  SendInv'
<1> USE DEF durable, memory, senders, ghosts
<1>1. CASE Interrupt \/ LeaveLoop
  <2>1. /\ UNCHANGED <<dest, durable, disk, worker, memory, senders, ghosts>>
        /\ mode \in {"run", "closed"} /\ mode' \in {"closed", "finish"}
    BY <1>1 DEF Interrupt, LeaveLoop
  <2>2. restarts' \in 0 .. MaxRestarts
    BY <1>1, BoundsAssumption DEF Interrupt, LeaveLoop, SendInv, TypeOK
  <2>3. Rows' = Rows /\ Edus' = Edus /\ Kind' = Kind /\ Payloads' = Payloads
    BY <2>1, DestFixed
  <2>4. TypeOK'
    BY <2>1, <2>2, <2>3 DEF SendInv, TypeOK, Flush, InFlightStatus
  <2>5. StatusTracksFlight'
    BY <2>1, <2>3 DEF SendInv, StatusTracksFlight, Yielded, Serving, InFlightStatus
  <2>6. DownIsEmpty' /\ NoStatusNoActive' /\ AckCoversActive' /\ NoRowLost' /\ PushFailureArmed'
    BY <2>1, <2>3
    DEF SendInv, DownIsEmpty, NoStatusNoActive, AckCoversActive, NoRowLost,
        PushFailureArmed, Serving
  <2> QED BY <2>4, <2>5, <2>6 DEF SendInv
<1>2. CASE FinishResponse
  <2>1. /\ UNCHANGED <<dest, queued, fresh, presence, peer, disk, mode, memory, senders,
                       restarts, ghosts>>
        /\ mode = "finish" /\ worker' = "idle"
        /\ active' = IF worker = "ok" THEN {} ELSE active
    BY <1>2 DEF FinishResponse
  <2>2. Rows' = Rows /\ Edus' = Edus /\ Kind' = Kind /\ Payloads' = Payloads
    BY <2>1, DestFixed
  <2>3. TypeOK'
    BY <2>1, <2>2 DEF SendInv, TypeOK, Flush, InFlightStatus
  <2>4. StatusTracksFlight'
    <3>1. /\ Len(futures) \in Nat /\ Yielded \in {0, 1} /\ Len(futures) + Yielded <= 1
          /\ Yielded' = 0
      BY <2>1, ShortSequences DEF SendInv, TypeOK, StatusTracksFlight, Yielded
    <3> QED BY <2>1, <3>1 DEF StatusTracksFlight, Serving
  <2>5. NoRowLost' /\ AckCoversActive'
    BY <2>1 DEF SendInv, NoRowLost, AckCoversActive
  <2>6. DownIsEmpty' /\ NoStatusNoActive' /\ PushFailureArmed'
    BY <2>1 DEF DownIsEmpty, NoStatusNoActive, PushFailureArmed, Serving
  <2> QED BY <2>3, <2>4, <2>5, <2>6 DEF SendInv
<1>3. CASE Stop
  <2>1. GoDown(Recovered) /\ restarts' = restarts
    BY <1>3 DEF Stop
  <2>2. /\ restarts' \in 0 .. MaxRestarts
        /\ Recovered \in [queued : SUBSET Rows, active : SUBSET Rows, fresh : SUBSET Edus,
                          presence : BOOLEAN, peer : {"clear", "backoff", "elapsed"}]
    BY <2>1 DEF SendInv, TypeOK, Recovered
  <2> QED BY <2>1, <2>2, GoDownKeeps
<1>4. CASE Crash
  <2>1. GoDown(disk)
    BY <1>4 DEF Crash
  <2>2. restarts' \in 0 .. MaxRestarts
    BY <1>4, BoundsAssumption DEF Crash, SendInv, TypeOK
  <2>3. disk \in [queued : SUBSET Rows, active : SUBSET Rows, fresh : SUBSET Edus,
                  presence : BOOLEAN, peer : {"clear", "backoff", "elapsed"}]
    BY DEF SendInv, TypeOK
  <2> QED BY <2>1, <2>2, <2>3, GoDownKeeps
<1>5. CASE StartupBurst
  BY <1>5, StartupKeeps
<1> QED BY <1>1, <1>2, <1>3, <1>4, <1>5 DEF Lifecycle

(***************************************************************************)
(* The server starts with an empty queue and a worker that is not running. *)
(***************************************************************************)
LEMMA InitHolds ==
    ASSUME Init
    PROVE  SendInv
<1>1. TypeOK
  <2>1. /\ 0 \in 0 .. MaxFlushes /\ 0 \in 0 .. MaxRestarts
        /\ <<>> \in Seq(Payloads) /\ <<>> \in Seq(Rows \union {Flush})
    BY BoundsAssumption
  <2>2. disk \in [queued : SUBSET Rows, active : SUBSET Rows, fresh : SUBSET Edus,
                  presence : BOOLEAN, peer : {"clear", "backoff", "elapsed"}]
    BY DEF Init, Recovered
  <2> QED BY <2>1, <2>2 DEF Init, TypeOK, InFlightStatus
<1>2. StatusTracksFlight /\ DownIsEmpty
  BY DEF Init, StatusTracksFlight, DownIsEmpty, Yielded, Serving
<1>3. AckCoversActive /\ NoStatusNoActive /\ NoRowLost /\ PushFailureArmed
  BY DEF Init, AckCoversActive, NoStatusNoActive, NoRowLost, PushFailureArmed
<1> QED BY <1>1, <1>2, <1>3 DEF SendInv

LEMMA StutterKeeps ==
    ASSUME SendInv, UNCHANGED vars
    PROVE  SendInv'
<1> USE DEF vars, durable, memory, senders, ghosts
<1>1. Rows' = Rows /\ Edus' = Edus /\ Kind' = Kind /\ Payloads' = Payloads
  BY DestFixed
<1>2. TypeOK'
  BY <1>1 DEF SendInv, TypeOK, Flush, InFlightStatus
<1>3. NoRowLost' /\ PushFailureArmed'
  BY <1>1 DEF SendInv, NoRowLost, PushFailureArmed, Serving
<1> QED BY <1>2, <1>3, QuietKeeps

(***************************************************************************)
(* With startup_netburst enabled, SendInv is an invariant of the sender.   *)
(***************************************************************************)
THEOREM SendingInductive ==
    ASSUME StartupNetburst
    PROVE  Spec => []SendInv
<1>1. Init => SendInv
  BY InitHolds
<1>2. SendInv /\ [Next]_vars => SendInv'
  <2> SUFFICES ASSUME SendInv, [Next]_vars PROVE SendInv'
    OBVIOUS
  <2>1. CASE FutureStep
    BY <2>1, FutureKeeps
  <2>2. CASE WorkerStep
    BY <2>2, SelectingKeeps, ResponseOkKeeps, ResponseErrKeeps, WakeKeeps DEF WorkerStep
  <2>3. CASE Producer
    BY <2>3, ProducerKeeps
  <2>4. CASE Lifecycle
    BY <2>4, LifecycleKeeps
  <2>5. CASE BackoffElapses \/ FlushWal
    BY <2>5, EnvironmentKeeps
  <2>6. CASE UNCHANGED vars
    BY <2>6, StutterKeeps
  <2> QED BY <2>1, <2>2, <2>3, <2>4, <2>5, <2>6 DEF Next
<1> QED BY <1>1, <1>2, PTL DEF Spec

(***************************************************************************)
(* Every variable of the sender keeps its type.                            *)
(***************************************************************************)
THEOREM SendingTypes ==
    ASSUME StartupNetburst
    PROVE  Spec => []TypeOK
BY SendingInductive, PTL DEF SendInv

(***************************************************************************)
(* At most one transaction per destination is in flight, and the status    *)
(* map says so exactly then.                                               *)
(***************************************************************************)
THEOREM OneTransactionInFlight ==
    ASSUME StartupNetburst
    PROVE  Spec => []StatusTracksFlight
BY SendingInductive, PTL DEF SendInv

(***************************************************************************)
(* Deleting all active rows on an acknowledgement deletes delivered rows.  *)
(***************************************************************************)
THEOREM AckDeletesDelivered ==
    ASSUME StartupNetburst
    PROVE  Spec => []AckCoversActive
BY SendingInductive, PTL DEF SendInv

(***************************************************************************)
(* No durable row disappears before it was delivered or discarded.         *)
(***************************************************************************)
THEOREM RowsAreKept ==
    ASSUME StartupNetburst
    PROVE  Spec => []NoRowLost
BY SendingInductive, PTL DEF SendInv

(***************************************************************************)
(* A push destination in backoff always has an armed wake.                 *)
(***************************************************************************)
THEOREM PushBackoffIsArmed ==
    ASSUME StartupNetburst
    PROVE  Spec => []PushFailureArmed
BY SendingInductive, PTL DEF SendInv

-----------------------------------------------------------------------------
(***************************************************************************)
(* No duplicate delivery while the server stays up.  A row is in one place *)
(* at a time: queued, past the watermark, or active, and settled rows are  *)
(* in none of them, except for the active rows of a transaction whose Ok   *)
(* is about to be handled.                                                 *)
(***************************************************************************)
RowsApart ==
    /\ queued \union active \union fresh \union settled \subseteq known
    /\ queued \intersect (active \union fresh \union settled) = {}
    /\ fresh \intersect (active \union settled) = {}
    /\ worker # "ok" => active \intersect settled = {}
    /\ \A i \in DOMAIN futures :
           /\ futures[i].rows \subseteq known
           /\ futures[i].rows \intersect (queued \union fresh \union settled) = {}

(***************************************************************************)
(* Sending rows that are in no other place keeps the places apart.         *)
(***************************************************************************)
LEMMA TransmitApart ==
    ASSUME RowsApart, futures = <<>>, NEW payload \in Payloads, NEW as \in Statuses,
           Transmit(payload, as), payload.rows = active', active' \subseteq known,
           active' \intersect (queued' \union fresh' \union settled) = {},
           queued' \subseteq queued \union fresh, fresh' \subseteq fresh,
           queued' \intersect fresh' = {},
           known' = known, settled' = settled
    PROVE  RowsApart'
<1>1. futures' = <<>> \/ futures' = <<payload>>
  BY TransmitAlone
<1>2. \A i \in DOMAIN futures' : futures'[i].rows = active'
  BY <1>1
<1> QED BY <1>2 DEF RowsApart

LEMMA ComposeApart ==
    ASSUME TypeOK, RowsApart, futures = <<>>, NEW rows, rows \subseteq queued,
           Compose(rows, {}), known' = known, settled' = settled
    PROVE  RowsApart'
<1>1. PICK left, passed, edus, p : Composition(rows, {}, left, passed, edus, p)
  BY ComposeParts
<1>2. /\ left \subseteq fresh \intersect Receipts /\ passed \subseteq left
      /\ edus \subseteq fresh \ left
      /\ p \in Payloads /\ p.rows = rows \union edus
      /\ queued' = (queued \ rows) \union ((fresh \ left) \ edus)
      /\ active' = p.rows
      /\ fresh' = left \ passed
      /\ skipped' = skipped \union passed
      /\ presence' = FALSE
      /\ Transmit(p, "running")
  BY <1>1 DEF Composition
<1>3. "running" \in Statuses
  BY DEF Statuses, InFlightStatus
<1>4. /\ active' \subseteq known
      /\ active' \intersect (queued' \union fresh' \union settled) = {}
      /\ queued' \subseteq queued \union fresh /\ fresh' \subseteq fresh
      /\ queued' \intersect fresh' = {}
  BY <1>2 DEF RowsApart
<1> QED BY <1>2, <1>3, <1>4, TransmitApart

(***************************************************************************)
(* With nothing in flight there is no future.                              *)
(***************************************************************************)
LEMMA Alone ==
    ASSUME SendInv, Serving, Yielded = 0, ~ SaysInFlight
    PROVE  futures = <<>>
<1>1. futures \in Seq(Payloads)
  BY DEF SendInv, TypeOK
<1>2. Len(futures) \in Nat
  BY <1>1, ShortSequences
<1>3. Len(futures) <= 1 /\ (Len(futures) = 1 <=> SaysInFlight)
  BY <1>2 DEF SendInv, StatusTracksFlight, SaysInFlight
<1>4. Len(futures) = 0
  BY <1>2, <1>3
<1> QED BY <1>1, <1>4, ShortSequences

LEMMA SelectEventsApart ==
    ASSUME SendInv, RowsApart, Serving, worker \in {"idle", "flush"}, worker' = "idle",
           NEW rows, NEW flush, SelectEvents(rows, flush),
           known' = known, settled' = settled
    PROVE  RowsApart'
<1>1. Yielded = 0 /\ active \intersect settled = {}
  BY DEF Yielded, RowsApart
<1>2. CASE Refuse(flush)
  BY <1>1, <1>2 DEF Refuse, RowsApart
<1>3. CASE RetryActive
  <2> DEFINE p == [rows |-> active, presence |-> FALSE]
  <2>1. /\ UNCHANGED <<queued, active, fresh, presence>> /\ ~ Refused
        /\ status \in {"failed", "retrying"} /\ Transmit(p, RetryStatus)
    BY <1>3 DEF RetryActive
  <2>2. p \in Payloads /\ p.rows = active'
    BY <2>1 DEF SendInv, TypeOK, Payloads
  <2>3. ~ SaysInFlight
    BY <2>1 DEF SaysInFlight, Refused
  <2>4. futures = <<>>
    BY <1>1, <2>3, Alone
  <2> HIDE DEF p
  <2>5. RetryStatus \in Statuses
    BY DEF RetryStatus, Statuses, InFlightStatus
  <2>6. /\ active' \subseteq known
        /\ active' \intersect (queued' \union fresh' \union settled) = {}
        /\ queued' \subseteq queued \union fresh /\ fresh' \subseteq fresh
        /\ queued' \intersect fresh' = {}
    BY <1>1, <2>1 DEF RowsApart
  <2> QED BY <2>1, <2>2, <2>4, <2>5, <2>6, TransmitApart
<1>4. CASE ComposeNext(rows)
  <2>1. status = "none" /\ Compose(RetainQueued(rows), active)
    BY <1>4 DEF ComposeNext
  <2>2. active = {}
    BY <2>1 DEF SendInv, NoStatusNoActive
  <2>3. ~ SaysInFlight
    BY <2>1 DEF SaysInFlight, InFlightStatus
  <2>4. futures = <<>>
    BY <1>1, <2>3, Alone
  <2>5. RetainQueued(rows) \subseteq queued
    BY DEF RetainQueued
  <2> QED BY <2>1, <2>2, <2>4, <2>5, ComposeApart DEF SendInv
<1> QED BY <1>2, <1>3, <1>4 DEF SelectEvents

(***************************************************************************)
(* The worker, its futures and the other tasks.                            *)
(***************************************************************************)
LEMMA WorkerApart ==
    ASSUME SendInv, RowsApart, WorkerStep
    PROVE  RowsApart'
<1> USE DEF durable, memory, senders, ghosts
<1>1. CASE HandleRequest \/ HandlePushWake \/ HandleWakeFlush
  <2>1. /\ known' = known /\ settled' = settled
        /\ mode \in {"run", "closed"} /\ worker \in {"idle", "flush"} /\ worker' = "idle"
    BY <1>1 DEF HandleRequest, HandlePushWake, HandleWakeFlush, Looping
  <2>2. \E rows, flush : SelectEvents(rows, flush)
    BY <1>1 DEF HandleRequest, HandlePushWake, HandleWakeFlush
  <2>3. Serving
    BY <2>1 DEF Serving
  <2> QED BY <2>1, <2>2, <2>3, SelectEventsApart
<1>2. CASE HandleResponseOk
  <2> DEFINE rows == FirstRows(queued, DequeueLimit)
  <2>1. worker = "ok" /\ Compose(rows, {}) /\ known' = known /\ settled' = settled
    BY <1>2 DEF HandleResponseOk
  <2>2. futures = <<>>
    BY <2>1, WhileYielded
  <2>3. rows \subseteq queued
    BY FirstRowsSubset
  <2> HIDE DEF rows
  <2> QED BY <2>1, <2>2, <2>3, ComposeApart DEF SendInv
<1>3. CASE HandleResponseErr
  <2> DEFINE p == [rows |-> active, presence |-> FALSE]
  <2>1. /\ UNCHANGED <<queued, active, fresh, known, settled>>
        /\ worker \in {"failed", "rejected"} /\ worker' = "idle"
        /\ IF status = "force" THEN Transmit(p, "running") ELSE futures' = futures
    BY <1>3 DEF HandleResponseErr
  <2>2. futures = <<>>
    BY <2>1, WhileYielded
  <2>3. p \in Payloads /\ p.rows = active'
    BY <2>1 DEF SendInv, TypeOK, Payloads
  <2> HIDE DEF p
  <2>4. CASE status = "force"
    <3>1. "running" \in Statuses
      BY DEF Statuses, InFlightStatus
    <3>2. /\ active' \subseteq known
          /\ active' \intersect (queued' \union fresh' \union settled) = {}
          /\ queued' \subseteq queued \union fresh /\ fresh' \subseteq fresh
          /\ queued' \intersect fresh' = {}
      BY <2>1 DEF RowsApart
    <3> QED BY <2>1, <2>2, <2>3, <2>4, <3>1, <3>2, TransmitApart
  <2>5. CASE status # "force"
    BY <2>1, <2>2, <2>5 DEF RowsApart
  <2> QED BY <2>4, <2>5
<1>4. CASE DropWake \/ HandleServerWake
  <2>1. /\ UNCHANGED <<queued, active, fresh, known, settled, futures>>
        /\ worker = "idle"
    BY <1>4 DEF DropWake, HandleServerWake, Looping
  <2> QED BY <2>1 DEF RowsApart
<1> QED BY <1>1, <1>2, <1>3, <1>4 DEF WorkerStep

LEMMA FutureApart ==
    ASSUME SendInv, RowsApart, FutureStep
    PROVE  RowsApart'
<1> USE DEF durable, memory, senders, ghosts
<1>0. PICK i \in DOMAIN futures :
        \/ FutureOk(i) \/ FutureServerErr(i) \/ FutureAppserviceErr(i) \/ FuturePushErr(i)
  BY DEF FutureStep
<1>1. RemoveAt(futures, i) = <<>>
  BY OnlyFuture
<1>2. /\ futures[i].rows \subseteq known
      /\ futures[i].rows \intersect (queued \union fresh \union settled) = {}
  BY DEF RowsApart
<1>3. /\ UNCHANGED <<queued, fresh, known>> /\ futures' = <<>> /\ worker = "idle"
      /\ active' \subseteq active
      /\ \E sent \in SUBSET futures[i].rows :
             /\ settled' = settled \union sent
             /\ worker' # "ok" => active' \intersect sent = {}
  <2>1. CASE FutureOk(i)
    <3>1. /\ UNCHANGED <<queued, fresh, known, active>> /\ futures' = <<>> /\ worker = "idle"
          /\ worker' = "ok" /\ settled' = settled \union futures[i].rows
      BY <1>1, <2>1 DEF FutureOk
    <3> QED BY <3>1
  <2>2. CASE FutureServerErr(i) \/ FutureAppserviceErr(i)
    <3>1. /\ UNCHANGED <<queued, fresh, known, active, settled>> /\ futures' = <<>>
          /\ worker = "idle"
      BY <1>1, <2>2 DEF FutureServerErr, FutureAppserviceErr
    <3>2. {} \in SUBSET futures[i].rows /\ settled' = settled \union {}
      BY <3>1
    <3> QED BY <3>1, <3>2
  <2>3. CASE FuturePushErr(i)
    <3>1. PICK sent \in SUBSET (futures[i].rows \intersect Pdus) :
            active' = active \ sent /\ settled' = settled \union sent
      BY <2>3 DEF FuturePushErr
    <3>2. UNCHANGED <<queued, fresh, known>> /\ futures' = <<>> /\ worker = "idle"
      BY <1>1, <2>3 DEF FuturePushErr
    <3> QED BY <3>1, <3>2
  <2> QED BY <1>0, <2>1, <2>2, <2>3
<1> QED BY <1>2, <1>3 DEF RowsApart

LEMMA ProducerApart ==
    ASSUME SendInv, RowsApart, Producer
    PROVE  RowsApart'
<1> USE DEF durable, memory, senders, ghosts
<1>1. CASE \E r \in Rows : Enqueue(r) \/ AccrueEdu(r)
  BY <1>1 DEF Enqueue, AccrueEdu, RowsApart
<1>2. CASE CleanupActive \/ CleanupQueued
  BY <1>2 DEF CleanupActive, CleanupQueued, RowsApart
<1>3. CASE \/ \E m \in outbox : Dispatch(m)
           \/ SendFlush \/ NotifyPeerAlive \/ OtherRequest \/ AccruePresence
  <2>1. UNCHANGED <<queued, active, fresh, known, settled, futures, worker>>
    BY <1>3 DEF Dispatch, SendFlush, NotifyPeerAlive, OtherRequest, AccruePresence
  <2> QED BY <2>1 DEF RowsApart
<1> QED BY <1>1, <1>2, <1>3 DEF Producer

LEMMA LifecycleApart ==
    ASSUME SendInv, RowsApart, Lifecycle, restarts = 0, restarts' = 0
    PROVE  RowsApart'
<1> USE DEF durable, memory, senders, ghosts
<1>1. CASE Interrupt \/ Crash
  BY <1>1 DEF Interrupt, Crash
<1>2. CASE LeaveLoop \/ FinishResponse
  BY <1>2 DEF LeaveLoop, FinishResponse, RowsApart
<1>3. CASE Stop
  <2>1. /\ UNCHANGED <<queued, active, fresh, settled>> /\ futures' = <<>>
        /\ known' = queued \union active \union fresh
                        \union (known \intersect (settled \union dropped \union skipped))
        /\ worker = "idle" /\ worker' = "idle"
    BY <1>3 DEF Stop, GoDown, Recovered
  <2> QED BY <2>1 DEF RowsApart
<1>4. CASE StartupBurst
  <2> DEFINE p == [rows |-> KeptAtStart, presence |-> FALSE]
             rows == FirstRows(queued, DequeueLimit)
  <2>1. known' = known /\ settled' = settled /\ mode = "down" /\ worker' = worker
    BY <1>4 DEF StartupBurst
  <2>2. futures = <<>> /\ worker = "idle"
    BY <2>1 DEF SendInv, DownIsEmpty
  <2>3. KeptAtStart \subseteq active /\ active \subseteq Rows
    BY FirstRowsSubset DEF KeptAtStart, SendInv, TypeOK
  <2>4. p \in Payloads /\ p.rows = KeptAtStart
    BY <2>3 DEF Payloads
  <2>5. rows \subseteq queued
    BY FirstRowsSubset
  <2>6. \/ BadgeWake /\ Compose(rows, KeptAtStart)
        \/ /\ active' = KeptAtStart /\ UNCHANGED <<queued, fresh, presence>>
           /\ (Transmit(p, "running") \/ futures' = futures)
    BY <1>4 DEF StartupBurst
  <2> HIDE DEF p, rows
  <2>7. CASE BadgeWake /\ Compose(rows, KeptAtStart)
    <3>1. Compose(rows, {})
      BY <2>7 DEF BadgeWake
    <3> QED BY <2>1, <2>2, <2>5, <3>1, ComposeApart DEF SendInv
  <2>8. CASE /\ active' = KeptAtStart /\ UNCHANGED <<queued, fresh, presence>>
             /\ (Transmit(p, "running") \/ futures' = futures)
    <3>1. "running" \in Statuses
      BY DEF Statuses, InFlightStatus
    <3>2. /\ active' \subseteq known
          /\ active' \intersect (queued' \union fresh' \union settled) = {}
          /\ queued' \subseteq queued \union fresh /\ fresh' \subseteq fresh
          /\ queued' \intersect fresh' = {}
      BY <2>2, <2>3, <2>8 DEF RowsApart
    <3>3. CASE Transmit(p, "running")
      BY <2>1, <2>2, <2>4, <2>8, <3>1, <3>2, <3>3, TransmitApart
    <3>4. CASE futures' = futures
      BY <2>1, <2>2, <2>3, <2>8, <3>4 DEF RowsApart
    <3> QED BY <2>8, <3>3, <3>4
  <2> QED BY <2>6, <2>7, <2>8
<1> QED BY <1>1, <1>2, <1>3, <1>4 DEF Lifecycle

(***************************************************************************)
(* While the server stays up no row of an acknowledged transaction, and no *)
(* push that went out, is sent again.                                      *)
(***************************************************************************)
THEOREM NoRowSentTwice ==
    ASSUME StartupNetburst
    PROVE  Spec => []NoDuplicateDelivery
<1>1. Init => RowsApart
  BY DEF Init, RowsApart
<1>2. SendInv /\ (restarts = 0 => RowsApart) /\ [Next]_vars => (restarts = 0 => RowsApart)'
  <2> SUFFICES ASSUME SendInv, restarts = 0 => RowsApart, [Next]_vars, restarts' = 0
               PROVE  RowsApart'
    OBVIOUS
  <2>0. restarts = 0
    <3>1. restarts \in Nat
      BY BoundsAssumption DEF SendInv, TypeOK
    <3>2. restarts' \in {restarts, restarts + 1}
      <4> USE DEF durable, memory, senders, ghosts, vars
      <4>1. CASE FutureStep
        BY <4>1 DEF FutureStep, FutureOk, FutureServerErr, FutureAppserviceErr, FuturePushErr
      <4>2. CASE WorkerStep
        BY <4>2 DEF WorkerStep, HandleRequest, HandleResponseOk, HandleResponseErr, DropWake,
                    HandlePushWake, HandleServerWake, HandleWakeFlush
      <4>3. CASE Producer
        BY <4>3 DEF Producer, Enqueue, AccrueEdu, Dispatch, SendFlush, NotifyPeerAlive,
                    OtherRequest, AccruePresence, CleanupActive, CleanupQueued
      <4>4. CASE Lifecycle
        BY <4>4 DEF Lifecycle, Interrupt, LeaveLoop, FinishResponse, Stop, Crash, StartupBurst
      <4>5. CASE BackoffElapses \/ FlushWal \/ UNCHANGED vars
        BY <4>5 DEF BackoffElapses, FlushWal
      <4> QED BY <4>1, <4>2, <4>3, <4>4, <4>5 DEF Next
    <3> QED BY <3>1, <3>2
  <2>1. CASE FutureStep
    BY <2>0, <2>1, FutureApart
  <2>2. CASE WorkerStep
    BY <2>0, <2>2, WorkerApart
  <2>3. CASE Producer
    BY <2>0, <2>3, ProducerApart
  <2>4. CASE Lifecycle
    BY <2>0, <2>4, LifecycleApart
  <2>5. CASE BackoffElapses \/ FlushWal \/ UNCHANGED vars
    <3>1. UNCHANGED <<queued, active, fresh, known, settled, futures, worker>>
      BY <2>5 DEF BackoffElapses, FlushWal, vars, durable, memory, senders, ghosts
    <3> QED BY <2>0, <3>1 DEF RowsApart
  <2> QED BY <2>1, <2>2, <2>3, <2>4, <2>5 DEF Next
<1>3. (restarts = 0 => RowsApart) => NoDuplicateDelivery
  BY DEF RowsApart, NoDuplicateDelivery
<1> QED BY <1>1, <1>2, <1>3, SendingInductive, PTL DEF Spec

-----------------------------------------------------------------------------
(***************************************************************************)
(* The sender implements DeliveryQueue.  For this a row must be in one     *)
(* place at a time through restarts as well: in the tables, in what the    *)
(* log recovers to, and for the rows of the transaction in flight, which   *)
(* may have been cleaned up but are neither queued nor past the watermark  *)
(* again.                                                                  *)
(***************************************************************************)
Places ==
    /\ queued \union active \union fresh \union carried \subseteq known
    /\ settled \union dropped \union skipped \subseteq known
    /\ queued \intersect (active \union carried) = {}
    /\ fresh \intersect (queued \union active \union carried) = {}
    /\ disk.queued \intersect disk.active = {}
    /\ disk.fresh \intersect (disk.queued \union disk.active) = {}

QueueStep == Queue!QueueNext \/ UNCHANGED <<owed, carried, settled, givenUp, logged>>

LEMMA CarriedOne ==
    /\ futures = <<>> => carried = {}
    /\ futures' = <<>> => carried' = {}
    /\ \A p : futures = <<p>> => carried = p.rows
    /\ \A p : futures' = <<p>> => carried' = p.rows
BY DEF carried

LEMMA TransmitCarries ==
    ASSUME futures = <<>>, NEW payload \in Payloads, NEW as \in Statuses,
           Transmit(payload, as)
    PROVE  carried = {} /\ carried' = payload.rows
BY TransmitAlone, CarriedOne

(***************************************************************************)
(* Composing moves rows between the tables and puts all that is active in  *)
(* the transaction.                                                        *)
(***************************************************************************)
LEMMA ComposeMoves ==
    ASSUME TypeOK, Places, futures = <<>>, NEW rows, rows \subseteq queued,
           Compose(rows, {})
    PROVE  /\ carried = {} /\ carried' = active'
           /\ queued' \intersect active' = {}
           /\ fresh' \intersect (queued' \union active') = {}
           /\ \E passed \in SUBSET (fresh \intersect Receipts) :
                  /\ queued' \union active' \union fresh' = (queued \union fresh) \ passed
                  /\ skipped' = skipped \union passed
<1>1. PICK left, passed, edus, p : Composition(rows, {}, left, passed, edus, p)
  BY ComposeParts
<1>2. /\ left \subseteq fresh \intersect Receipts /\ passed \subseteq left
      /\ edus \subseteq fresh \ left
      /\ p \in Payloads /\ p.rows = rows \union edus
      /\ queued' = (queued \ rows) \union ((fresh \ left) \ edus)
      /\ active' = p.rows
      /\ fresh' = left \ passed
      /\ skipped' = skipped \union passed
      /\ presence' = FALSE
      /\ Transmit(p, "running")
  BY <1>1 DEF Composition
<1>3. "running" \in Statuses
  BY DEF Statuses, InFlightStatus
<1>4. carried = {} /\ carried' = p.rows
  BY <1>2, <1>3, TransmitCarries
<1>5. /\ queued' \union active' \union fresh' = (queued \union fresh) \ passed
      /\ queued' \intersect active' = {}
      /\ fresh' \intersect (queued' \union active') = {}
  BY <1>2 DEF Places
<1>6. passed \in SUBSET (fresh \intersect Receipts)
  BY <1>2
<1> QED BY <1>2, <1>4, <1>5, <1>6

LEMMA SelectEventsMoves ==
    ASSUME SendInv, Places, Serving, worker \in {"idle", "flush"},
           NEW rows, NEW flush, SelectEvents(rows, flush)
    PROVE  \/ UNCHANGED <<queued, active, fresh, carried, skipped>>
           \/ /\ carried = {} /\ carried' = active'
              /\ queued' \intersect active' = {}
              /\ fresh' \intersect (queued' \union active') = {}
              /\ \E passed \in SUBSET (fresh \intersect Receipts) :
                     /\ queued' \union active' \union fresh'
                          = (queued \union active \union fresh) \ passed
                     /\ skipped' = skipped \union passed
<1>1. Yielded = 0
  BY DEF Yielded
<1>2. CASE Refuse(flush)
  BY <1>2 DEF Refuse, carried
<1>3. CASE RetryActive
  <2> DEFINE p == [rows |-> active, presence |-> FALSE]
  <2>1. /\ UNCHANGED <<queued, active, fresh, presence, skipped>> /\ ~ Refused
        /\ status \in {"failed", "retrying"} /\ Transmit(p, RetryStatus)
    BY <1>3 DEF RetryActive
  <2>2. p \in Payloads /\ p.rows = active'
    BY <2>1 DEF SendInv, TypeOK, Payloads
  <2>3. ~ SaysInFlight
    BY <2>1 DEF SaysInFlight, Refused
  <2>4. futures = <<>>
    BY <1>1, <2>3, Alone
  <2> HIDE DEF p
  <2>5. RetryStatus \in Statuses
    BY DEF RetryStatus, Statuses, InFlightStatus
  <2>6. carried = {} /\ carried' = active'
    BY <2>1, <2>2, <2>4, <2>5, TransmitCarries
  <2>7. /\ {} \in SUBSET (fresh \intersect Receipts)
        /\ queued' \union active' \union fresh' = (queued \union active \union fresh) \ {}
        /\ skipped' = skipped \union {}
    BY <2>1
  <2> QED BY <2>1, <2>6, <2>7 DEF Places
<1>4. CASE ComposeNext(rows)
  <2>1. status = "none" /\ Compose(RetainQueued(rows), active)
    BY <1>4 DEF ComposeNext
  <2>2. active = {}
    BY <2>1 DEF SendInv, NoStatusNoActive
  <2>3. ~ SaysInFlight
    BY <2>1 DEF SaysInFlight, InFlightStatus
  <2>4. futures = <<>>
    BY <1>1, <2>3, Alone
  <2>5. RetainQueued(rows) \subseteq queued
    BY DEF RetainQueued
  <2>6. Compose(RetainQueued(rows), {})
    BY <2>1, <2>2
  <2>7. /\ carried = {} /\ carried' = active'
        /\ queued' \intersect active' = {}
        /\ fresh' \intersect (queued' \union active') = {}
        /\ \E passed \in SUBSET (fresh \intersect Receipts) :
               /\ queued' \union active' \union fresh' = (queued \union fresh) \ passed
               /\ skipped' = skipped \union passed
    BY <2>4, <2>5, <2>6, ComposeMoves DEF SendInv
  <2>8. queued \union active \union fresh = queued \union fresh
    BY <2>2
  <2> QED BY <2>7, <2>8
<1> QED BY <1>2, <1>3, <1>4 DEF SelectEvents

(***************************************************************************)
(* What a handler does to the queue: nothing, or it sends what is owed and *)
(* gives up the receipts the watermark passed.                             *)
(***************************************************************************)
LEMMA SendingStep ==
    ASSUME Places, UNCHANGED <<known, settled, dropped, disk>>,
           NEW passed \in SUBSET (owed \intersect Receipts), owed' = owed \ passed,
           skipped' = skipped \union passed,
           carried = {}, carried' = active',
           queued' \union active' \union fresh' \subseteq owed \ passed,
           queued' \intersect active' = {},
           fresh' \intersect (queued' \union active') = {}
    PROVE  Places' /\ QueueStep
<1>1. owed \subseteq known
  BY DEF Places, owed
<1>2. Places'
  BY <1>1 DEF Places
<1>3. logged' = logged /\ givenUp' = givenUp \union passed
  BY DEF logged, givenUp
<1>4. Queue!Send(passed, active') /\ active' \in SUBSET (owed \ passed)
  BY <1>3 DEF Queue!Send
<1> QED BY <1>2, <1>4 DEF QueueStep, Queue!QueueNext

LEMMA QuietStep ==
    ASSUME Places, UNCHANGED <<queued, active, fresh, futures, ghosts, disk>>,
           worker' = "ok" <=> worker = "ok"
    PROVE  Places' /\ QueueStep
<1>1. UNCHANGED <<owed, carried, logged, givenUp, settled>>
  BY DEF owed, carried, logged, givenUp, ghosts
<1> QED BY <1>1 DEF Places, QueueStep, ghosts

LEMMA WorkerQueues ==
    ASSUME SendInv, Places, WorkerStep
    PROVE  Places' /\ QueueStep
<1> USE DEF durable, memory, senders, ghosts
<1>1. CASE HandleRequest \/ HandlePushWake \/ HandleWakeFlush
  <2>1. /\ UNCHANGED <<known, settled, dropped, disk>>
        /\ mode \in {"run", "closed"} /\ worker \in {"idle", "flush"} /\ worker' = "idle"
    BY <1>1 DEF HandleRequest, HandlePushWake, HandleWakeFlush, Looping
  <2>2. \E rows, flush : SelectEvents(rows, flush)
    BY <1>1 DEF HandleRequest, HandlePushWake, HandleWakeFlush
  <2>3. Serving
    BY <2>1 DEF Serving
  <2>4. \/ UNCHANGED <<queued, active, fresh, carried, skipped>>
        \/ /\ carried = {} /\ carried' = active'
           /\ queued' \intersect active' = {}
           /\ fresh' \intersect (queued' \union active') = {}
           /\ \E passed \in SUBSET (fresh \intersect Receipts) :
                  /\ queued' \union active' \union fresh'
                       = (queued \union active \union fresh) \ passed
                  /\ skipped' = skipped \union passed
    BY <2>1, <2>2, <2>3, SelectEventsMoves
  <2>5. /\ owed = queued \union active \union fresh
        /\ owed' = queued' \union active' \union fresh'
    BY <2>1 DEF owed
  <2>6. CASE UNCHANGED <<queued, active, fresh, carried, skipped>>
    <3>1. UNCHANGED <<owed, logged, givenUp>>
      BY <2>1, <2>5, <2>6 DEF logged, givenUp
    <3> QED BY <2>1, <2>6, <3>1 DEF Places, QueueStep
  <2>7. CASE ~ UNCHANGED <<queued, active, fresh, carried, skipped>>
    <3>1. PICK passed \in SUBSET (fresh \intersect Receipts) :
            /\ queued' \union active' \union fresh'
                 = (queued \union active \union fresh) \ passed
            /\ skipped' = skipped \union passed
      BY <2>4, <2>7
    <3>2. /\ passed \in SUBSET (owed \intersect Receipts) /\ owed' = owed \ passed
          /\ queued' \union active' \union fresh' \subseteq owed \ passed
      BY <2>5, <3>1
    <3> QED BY <2>1, <2>4, <2>7, <3>1, <3>2, SendingStep
  <2> QED BY <2>6, <2>7
<1>2. CASE HandleResponseOk
  <2> DEFINE rows == FirstRows(queued, DequeueLimit)
  <2>1. /\ worker = "ok" /\ worker' = "idle" /\ Compose(rows, {})
        /\ UNCHANGED <<known, settled, dropped, disk>>
    BY <1>2 DEF HandleResponseOk
  <2>2. futures = <<>>
    BY <2>1, WhileYielded
  <2>3. rows \subseteq queued
    BY FirstRowsSubset
  <2> HIDE DEF rows
  <2>4. /\ carried = {} /\ carried' = active'
        /\ queued' \intersect active' = {}
        /\ fresh' \intersect (queued' \union active') = {}
        /\ \E passed \in SUBSET (fresh \intersect Receipts) :
               /\ queued' \union active' \union fresh' = (queued \union fresh) \ passed
               /\ skipped' = skipped \union passed
    BY <2>1, <2>2, <2>3, ComposeMoves DEF SendInv
  <2>5. owed = queued \union fresh /\ owed' = queued' \union active' \union fresh'
    BY <2>1 DEF owed
  <2>6. PICK passed \in SUBSET (fresh \intersect Receipts) :
          /\ queued' \union active' \union fresh' = (queued \union fresh) \ passed
          /\ skipped' = skipped \union passed
    BY <2>4
  <2>7. /\ passed \in SUBSET (owed \intersect Receipts) /\ owed' = owed \ passed
        /\ queued' \union active' \union fresh' \subseteq owed \ passed
    BY <2>5, <2>6
  <2> QED BY <2>1, <2>4, <2>6, <2>7, SendingStep
<1>3. CASE HandleResponseErr
  <2> DEFINE p == [rows |-> active, presence |-> FALSE]
  <2>1. /\ UNCHANGED <<queued, active, fresh, ghosts, disk>>
        /\ worker \in {"failed", "rejected"} /\ worker' = "idle"
        /\ IF status = "force" THEN Transmit(p, "running") ELSE futures' = futures
    BY <1>3 DEF HandleResponseErr
  <2>2. futures = <<>>
    BY <2>1, WhileYielded
  <2>3. p \in Payloads /\ p.rows = active'
    BY <2>1 DEF SendInv, TypeOK, Payloads
  <2> HIDE DEF p
  <2>4. CASE status = "force"
    <3>1. "running" \in Statuses
      BY DEF Statuses, InFlightStatus
    <3>2. carried = {} /\ carried' = active'
      BY <2>1, <2>2, <2>3, <2>4, <3>1, TransmitCarries
    <3>3. /\ owed = queued \union active \union fresh
          /\ owed' = queued' \union active' \union fresh'
      BY <2>1 DEF owed
    <3>4. /\ queued' \intersect active' = {}
          /\ fresh' \intersect (queued' \union active') = {}
      BY <2>1 DEF Places
    <3>5. /\ {} \in SUBSET (owed \intersect Receipts) /\ owed' = owed \ {}
          /\ skipped' = skipped \union {}
          /\ queued' \union active' \union fresh' \subseteq owed \ {}
      BY <2>1, <3>3
    <3> QED BY <2>1, <3>2, <3>4, <3>5, SendingStep
  <2>5. CASE status # "force"
    BY <2>1, <2>5, QuietStep
  <2> QED BY <2>4, <2>5
<1>4. CASE DropWake \/ HandleServerWake
  <2>1. /\ UNCHANGED <<queued, active, fresh, futures, ghosts, disk>>
        /\ worker = "idle" /\ worker' # "ok"
    BY <1>4 DEF DropWake, HandleServerWake, Looping
  <2> QED BY <2>1, QuietStep
<1> QED BY <1>1, <1>2, <1>3, <1>4 DEF WorkerStep

(***************************************************************************)
(* The end of a transaction settles rows it carried, and all of them with  *)
(* an Ok: every active row is in it.                                       *)
(***************************************************************************)
LEMMA FutureAnswers ==
    ASSUME SendInv, Places, FutureStep
    PROVE  Places' /\ QueueStep
<1> USE DEF durable, memory, senders, ghosts
<1>0. PICK i \in DOMAIN futures :
        \/ FutureOk(i) \/ FutureServerErr(i) \/ FutureAppserviceErr(i) \/ FuturePushErr(i)
  BY DEF FutureStep
<1>1. RemoveAt(futures, i) = <<>> /\ active \subseteq futures[i].rows
  BY OnlyFuture
<1>2. futures[i].rows \subseteq carried
  BY DEF carried
<1>3. /\ UNCHANGED <<queued, fresh, known, dropped, skipped, disk>> /\ carried' = {}
      /\ active' \subseteq active /\ worker = "idle"
      /\ \E done \in SUBSET carried : settled' = settled \union done /\ owed' = owed \ done
  <2>1. CASE FutureOk(i)
    <3>1. /\ UNCHANGED <<queued, fresh, known, active, dropped, skipped, disk>> /\ futures' = <<>>
          /\ worker = "idle" /\ worker' = "ok" /\ settled' = settled \union futures[i].rows
      BY <1>1, <2>1 DEF FutureOk
    <3>2. owed = queued \union fresh \union active /\ owed' = queued \union fresh
      BY <3>1 DEF owed
    <3>3. owed' = owed \ futures[i].rows
      BY <1>1, <1>2, <3>2 DEF Places
    <3> QED BY <1>2, <3>1, <3>3, CarriedOne
  <2>2. CASE FutureServerErr(i) \/ FutureAppserviceErr(i)
    <3>1. /\ UNCHANGED <<queued, fresh, active, ghosts, disk>>
          /\ futures' = <<>> /\ worker = "idle" /\ worker' # "ok"
      BY <1>1, <2>2 DEF FutureServerErr, FutureAppserviceErr
    <3>2. {} \in SUBSET carried /\ settled' = settled \union {} /\ owed' = owed \ {}
      BY <3>1 DEF owed
    <3> QED BY <3>1, <3>2, CarriedOne
  <2>3. CASE FuturePushErr(i)
    <3>1. PICK done \in SUBSET (futures[i].rows \intersect Pdus) :
            active' = active \ done /\ settled' = settled \union done
      BY <2>3 DEF FuturePushErr
    <3>2. /\ UNCHANGED <<queued, fresh, known, dropped, skipped, disk>> /\ futures' = <<>>
          /\ worker = "idle" /\ worker' = "failed"
      BY <1>1, <2>3 DEF FuturePushErr
    <3>3. owed = queued \union fresh \union active
          /\ owed' = queued \union fresh \union (active \ done)
      BY <3>1, <3>2 DEF owed
    <3>4. owed' = owed \ done
      BY <1>2, <3>1, <3>3 DEF Places
    <3> QED BY <1>2, <3>1, <3>2, <3>4, CarriedOne
  <2> QED BY <1>0, <2>1, <2>2, <2>3
<1>4. PICK done \in SUBSET carried : settled' = settled \union done /\ owed' = owed \ done
  BY <1>3
<1>5. logged' = logged /\ givenUp' = givenUp
  BY <1>3 DEF logged, givenUp
<1>6. Queue!Answer(done)
  BY <1>3, <1>4, <1>5 DEF Queue!Answer
<1>7. Places'
  BY <1>3, <1>4 DEF Places
<1> QED BY <1>4, <1>6, <1>7 DEF QueueStep, Queue!QueueNext

(***************************************************************************)
(* Producers accept rows, deregistration discards them.                    *)
(***************************************************************************)
LEMMA RowsOfDest == TypeOK => Rows \subseteq AllRows
BY DEF TypeOK, Rows, Pdus, Edus, Badges, AllRows

LEMMA ProducerQueues ==
    ASSUME SendInv, Places, Producer
    PROVE  Places' /\ QueueStep
<1> USE DEF durable, memory, senders, ghosts
<1>1. CASE \E r \in Rows : Enqueue(r) \/ AccrueEdu(r)
  <2>1. PICK r \in Rows : Enqueue(r) \/ AccrueEdu(r)
    BY <1>1
  <2>2. /\ UNCHANGED <<active, futures, settled, dropped, skipped, disk, worker>>
        /\ r \notin known /\ known' = known \union {r}
        /\ \/ queued' = queued \union {r} /\ fresh' = fresh
           \/ fresh' = fresh \union {r} /\ queued' = queued
    BY <2>1 DEF Enqueue, AccrueEdu
  <2>3. carried' = carried /\ logged' = logged /\ givenUp' = givenUp
    BY <2>2 DEF carried, logged, givenUp
  <2>4. owed \subseteq known /\ owed' = owed \union {r}
    BY <2>2 DEF owed, Places
  <2>5. Queue!Accept(r) /\ r \in AllRows
    BY <2>2, <2>3, <2>4, RowsOfDest DEF Queue!Accept, Places, SendInv, givenUp
  <2>6. Places'
    BY <2>2, <2>3 DEF Places
  <2> QED BY <2>5, <2>6 DEF QueueStep, Queue!QueueNext
<1>2. CASE CleanupActive \/ CleanupQueued
  <2>1. PICK items \in {active, queued} :
          /\ UNCHANGED <<fresh, futures, known, settled, skipped, disk, worker>>
          /\ dropped' = dropped \union items
          /\ \/ items = active /\ active' = {} /\ queued' = queued
             \/ items = queued /\ queued' = {} /\ active' = active
    BY <1>2 DEF CleanupActive, CleanupQueued
  <2>2. carried' = carried /\ logged' = logged /\ givenUp' = givenUp \union items
    BY <2>1 DEF carried, logged, givenUp
  <2>3. worker = "ok" => active \subseteq settled
    BY DEF SendInv, AckCoversActive
  <2>4. items \subseteq owed \union settled
    BY <2>1, <2>3 DEF owed
  <2>5. owed' = owed \ items
    BY <2>1 DEF owed, Places
  <2>6. Queue!Discard(items)
    BY <2>1, <2>2, <2>5 DEF Queue!Discard
  <2>7. Places'
    BY <2>1, <2>2 DEF Places
  <2> QED BY <2>4, <2>6, <2>7 DEF QueueStep, Queue!QueueNext
<1>3. CASE \/ \E m \in outbox : Dispatch(m)
           \/ SendFlush \/ NotifyPeerAlive \/ OtherRequest \/ AccruePresence
  <2>1. UNCHANGED <<queued, active, fresh, futures, ghosts, disk, worker>>
    BY <1>3 DEF Dispatch, SendFlush, NotifyPeerAlive, OtherRequest, AccruePresence
  <2> QED BY <2>1, QuietStep
<1> QED BY <1>1, <1>2, <1>3 DEF Producer

(***************************************************************************)
(* A shutdown leaves in the log what is owed, a crash leaves owed what is  *)
(* in the log, and the start after either discards the rows past `keep'    *)
(* and sends what is left of the active ones, or, with none left, what is  *)
(* queued with a badge refresh.                                            *)
(***************************************************************************)
LEMMA GoDownPlaces ==
    ASSUME Places, NEW image,
           image.queued \intersect image.active = {},
           image.fresh \intersect (image.queued \union image.active) = {},
           GoDown(image)
    PROVE  Places'
<1>1. /\ queued' = image.queued /\ active' = image.active /\ fresh' = image.fresh
      /\ disk' = image /\ UNCHANGED <<settled, dropped, skipped>> /\ futures' = <<>>
      /\ known' = image.queued \union image.active \union image.fresh
                      \union (known \intersect (settled \union dropped \union skipped))
  BY DEF GoDown
<1>2. carried' = {}
  BY <1>1, CarriedOne
<1> QED BY <1>1, <1>2 DEF Places

LEMMA LifecycleQueues ==
    ASSUME SendInv, Places, Lifecycle
    PROVE  Places' /\ QueueStep
<1> USE DEF durable, memory, senders, ghosts
<1>1. CASE Interrupt \/ LeaveLoop
  BY <1>1, QuietStep DEF Interrupt, LeaveLoop
<1>2. CASE FinishResponse
  <2>1. /\ UNCHANGED <<queued, fresh, futures, ghosts, disk>>
        /\ worker' = "idle" /\ active' = IF worker = "ok" THEN {} ELSE active
    BY <1>2 DEF FinishResponse
  <2>2. UNCHANGED <<owed, carried, logged, givenUp>>
    BY <2>1 DEF owed, carried, logged, givenUp
  <2> QED BY <2>1, <2>2 DEF Places, QueueStep
<1>3. CASE Stop
  <2>1. /\ worker = "idle" /\ worker' = "idle" /\ GoDown(Recovered)
    BY <1>3 DEF Stop, GoDown
  <2>2. /\ Recovered.queued = queued /\ Recovered.active = active
        /\ Recovered.fresh = fresh
    BY DEF Recovered
  <2>3. /\ UNCHANGED <<queued, active, fresh, settled, dropped, skipped>> /\ disk' = Recovered
        /\ futures' = <<>>
    BY <2>1, <2>2 DEF GoDown
  <2>4. owed' = owed /\ carried' = {} /\ logged' = owed /\ givenUp' = givenUp
    BY <2>1, <2>2, <2>3, CarriedOne DEF owed, logged, givenUp
  <2>5. Queue!ShutDown
    BY <2>3, <2>4 DEF Queue!ShutDown
  <2>6. Places'
    BY <2>1, <2>2, GoDownPlaces DEF Places
  <2> QED BY <2>5, <2>6 DEF QueueStep, Queue!QueueNext
<1>4. CASE Crash
  <2>1. worker' = "idle" /\ GoDown(disk)
    BY <1>4 DEF Crash, GoDown
  <2>2. /\ queued' = disk.queued /\ active' = disk.active /\ fresh' = disk.fresh
        /\ disk' = disk /\ UNCHANGED <<settled, dropped, skipped>> /\ futures' = <<>>
    BY <2>1 DEF GoDown
  <2>3. owed' = logged /\ carried' = {} /\ logged' = logged /\ givenUp' = givenUp
    BY <2>1, <2>2, CarriedOne DEF owed, logged, givenUp
  <2>4. Queue!Crash
    BY <2>2, <2>3 DEF Queue!Crash
  <2>5. Places'
    BY <2>1, GoDownPlaces DEF Places
  <2> QED BY <2>4, <2>5 DEF QueueStep, Queue!QueueNext
<1>5. CASE StartupBurst
  <2> DEFINE p == [rows |-> KeptAtStart, presence |-> FALSE]
             rows == FirstRows(queued, DequeueLimit)
             gone == active \ KeptAtStart
  <2>1. /\ UNCHANGED <<known, settled, disk, worker>> /\ mode = "down"
        /\ dropped' = dropped \union gone
    BY <1>5 DEF StartupBurst
  <2>2. futures = <<>> /\ worker = "idle" /\ carried = {}
    BY <2>1, CarriedOne DEF SendInv, DownIsEmpty
  <2>3. KeptAtStart \subseteq active /\ active \subseteq Rows
    BY FirstRowsSubset DEF KeptAtStart, SendInv, TypeOK
  <2>4. p \in Payloads /\ p.rows = KeptAtStart
    BY <2>3 DEF Payloads
  <2>5. rows \subseteq queued
    BY FirstRowsSubset
  <2>6. \/ BadgeWake /\ Compose(rows, KeptAtStart)
        \/ /\ active' = KeptAtStart /\ UNCHANGED <<queued, fresh, presence, skipped>>
           /\ (Transmit(p, "running") \/ futures' = futures)
    BY <1>5 DEF StartupBurst
  <2> HIDE DEF p, rows
  <2>7. /\ fresh' \intersect (queued' \union active') = {}
        /\ queued' \intersect active' = {}
        /\ carried' \in {{}, active'}
        /\ \E passed \in SUBSET fresh :
               /\ queued' \union active' \union fresh'
                    = (queued \union fresh \union KeptAtStart) \ passed
               /\ skipped' = skipped \union passed
               /\ passed \intersect KeptAtStart = {}
    <3>1. CASE BadgeWake /\ Compose(rows, KeptAtStart)
      <4>1. Compose(rows, {}) /\ KeptAtStart = {}
        BY <3>1 DEF BadgeWake
      <4>2. /\ carried' = active'
            /\ queued' \intersect active' = {}
            /\ fresh' \intersect (queued' \union active') = {}
            /\ \E passed \in SUBSET (fresh \intersect Receipts) :
                   /\ queued' \union active' \union fresh' = (queued \union fresh) \ passed
                   /\ skipped' = skipped \union passed
        BY <2>2, <2>5, <4>1, ComposeMoves DEF SendInv
      <4>3. queued \union fresh \union KeptAtStart = queued \union fresh
        BY <4>1
      <4> QED BY <4>1, <4>2, <4>3
    <3>2. CASE /\ active' = KeptAtStart /\ UNCHANGED <<queued, fresh, presence, skipped>>
               /\ (Transmit(p, "running") \/ futures' = futures)
      <4>1. "running" \in Statuses
        BY DEF Statuses, InFlightStatus
      <4>2. carried' \in {{}, active'}
        <5>1. CASE Transmit(p, "running")
          BY <2>2, <2>4, <3>2, <4>1, <5>1, TransmitCarries
        <5>2. CASE futures' = futures
          BY <2>2, <5>2, CarriedOne
        <5> QED BY <3>2, <5>1, <5>2
      <4>3. /\ {} \in SUBSET fresh /\ skipped' = skipped \union {}
            /\ queued' \union active' \union fresh'
                 = (queued \union fresh \union KeptAtStart) \ {}
            /\ {} \intersect KeptAtStart = {}
        BY <3>2
      <4> QED BY <2>3, <3>2, <4>2, <4>3 DEF Places
    <3> QED BY <2>6, <3>1, <3>2
  <2>8. /\ owed = queued \union fresh \union active
        /\ owed' = queued' \union active' \union fresh'
    BY <2>1, <2>2 DEF owed
  <2>9. PICK passed \in SUBSET fresh :
          /\ queued' \union active' \union fresh'
               = (queued \union fresh \union KeptAtStart) \ passed
          /\ skipped' = skipped \union passed
          /\ passed \intersect KeptAtStart = {}
    BY <2>7
  <2> DEFINE lost == gone \union passed
  <2>10. owed' = owed \ lost /\ lost \subseteq owed /\ carried' \subseteq owed \ lost
    BY <2>3, <2>7, <2>8, <2>9 DEF Places
  <2>11. logged' = logged /\ givenUp' = givenUp \union lost
    BY <2>1, <2>9 DEF logged, givenUp
  <2>12. owed \subseteq known
    BY DEF owed, Places
  <2>13. Places'
    <3>1. queued' \union active' \union fresh' \union carried' \subseteq known
      BY <2>7, <2>8, <2>10, <2>12
    <3>2. (settled \union dropped \union skipped)' \subseteq known'
      BY <2>1, <2>9, <2>10, <2>12 DEF Places
    <3>3. UNCHANGED <<disk, known>> /\ carried' \subseteq active'
      BY <2>1, <2>7
    <3> QED BY <2>7, <3>1, <3>2, <3>3 DEF Places
  <2> HIDE DEF lost
  <2>14. Queue!Start(lost, carried')
    BY <2>1, <2>2, <2>10, <2>11 DEF Queue!Start
  <2> QED BY <2>10, <2>13, <2>14 DEF QueueStep, Queue!QueueNext
<1> QED BY <1>1, <1>2, <1>3, <1>4, <1>5 DEF Lifecycle

LEMMA EnvironmentQueues ==
    ASSUME SendInv, Places, BackoffElapses \/ FlushWal \/ UNCHANGED vars
    PROVE  Places' /\ QueueStep
<1> USE DEF durable, memory, senders, ghosts
<1>1. CASE BackoffElapses \/ UNCHANGED vars
  <2>1. UNCHANGED <<queued, active, fresh, futures, ghosts, disk, worker>>
    BY <1>1 DEF BackoffElapses, vars
  <2> QED BY <2>1, QuietStep
<1>2. CASE FlushWal
  <2>1. /\ UNCHANGED <<queued, active, fresh, futures, ghosts, worker>>
        /\ disk' = Recovered
    BY <1>2 DEF FlushWal
  <2>2. /\ Recovered.queued = queued /\ Recovered.active = active
        /\ Recovered.fresh = fresh
    BY DEF Recovered
  <2>3. owed' = owed /\ carried' = carried /\ givenUp' = givenUp
    BY <2>1 DEF owed, carried, givenUp
  <2>4. PICK again \in SUBSET settled : logged' = owed \union again
    <3>1. logged' = queued \union active \union fresh
      BY <2>1, <2>2 DEF logged
    <3>2. CASE worker = "ok"
      <4>1. active \subseteq settled
        BY <3>2 DEF SendInv, AckCoversActive
      <4>2. logged' = owed \union active
        BY <3>1, <3>2 DEF owed
      <4> QED BY <4>1, <4>2
    <3>3. CASE worker # "ok"
      <4>1. logged' = owed \union {}
        BY <3>1, <3>3 DEF owed
      <4> QED BY <4>1
    <3> QED BY <3>2, <3>3
  <2>5. Queue!Flush
    BY <2>1, <2>3, <2>4 DEF Queue!Flush
  <2>6. Places'
    BY <2>1, <2>2, <2>3 DEF Places
  <2> QED BY <2>5, <2>6 DEF QueueStep, Queue!QueueNext
<1> QED BY <1>1, <1>2

LEMMA SendingSimulates ==
    SendInv /\ Places /\ [Next]_vars => Places' /\ [Queue!QueueNext]_(Queue!queueVars)
<1> SUFFICES ASSUME SendInv, Places, [Next]_vars PROVE Places' /\ QueueStep
  BY DEF QueueStep, Queue!queueVars
<1> QED BY WorkerQueues, FutureAnswers, ProducerQueues, LifecycleQueues, EnvironmentQueues
        DEF Next

(***************************************************************************)
(* The sender implements an at-least-once queue: whatever fails, is        *)
(* retried, overflows, is cleaned up or restarts, one transaction at a     *)
(* time carries rows that are owed, a row is owed until it was delivered   *)
(* or discarded, and a crash brings back what the log had.  A receipt that *)
(* a scan at its limit left unread below the watermark counts as discarded.*)
(***************************************************************************)
THEOREM SendingImplementsQueue ==
    ASSUME StartupNetburst
    PROVE  Spec => ImplementsQueue
<1>1. Init => Places /\ Queue!QueueInit
  <2> SUFFICES ASSUME Init PROVE Places /\ Queue!QueueInit
    OBVIOUS
  <2>1. /\ queued = {} /\ active = {} /\ fresh = {} /\ futures = <<>>
        /\ known = {} /\ settled = {} /\ dropped = {} /\ skipped = {}
        /\ disk.queued = {} /\ disk.active = {} /\ disk.fresh = {}
    BY DEF Init, Recovered
  <2>2. carried = {} /\ owed = {} /\ logged = {} /\ givenUp = {}
    BY <2>1, CarriedOne DEF owed, logged, givenUp
  <2> QED BY <2>1, <2>2 DEF Places, Queue!QueueInit
<1> QED BY <1>1, SendingSimulates, SendingInductive, PTL
        DEF Spec, ImplementsQueue, Queue!QueueSpec
=============================================================================
