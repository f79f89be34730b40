-------------------------- MODULE SyncPoll_proofs ---------------------------
(***************************************************************************)
(* Proofs about the long polls, for any writers, clients, largest number   *)
(* and number of faults.                                                   *)
(***************************************************************************)
EXTENDS SyncPoll, TLAPS

(***************************************************************************)
(* Rows and permits lie below the counter, and a row that is being         *)
(* inserted is there.                                                      *)
(***************************************************************************)
RowsCounted ==
    /\ \A n \in rows : n <= drawn
    /\ \A w \in Writers : permit[w] <= drawn
    /\ \A w \in Writers : writing[w] => permit[w] \in rows

Connected(r) == poll[r].pc \notin {"idle", "user"} => <<r, "user">> \in rx

(***************************************************************************)
(* While a poll has not been woken, every row under a prefix it watches    *)
(* and past its snapshot has its notification to come.  A poll that does   *)
(* not watch the room registered before any row about the user was there,  *)
(* and those have theirs to come.                                          *)
(***************************************************************************)
Registered(r) == poll[r].pc \in {"sample", "waiting", "told", "found", "asleep"}
Sampling(r) == poll[r].pc \in {"waiting", "told", "found", "asleep"}
Told(r) == poll[r].pc \in {"told", "found", "asleep"}

WakesCome(r) ==
    ~Fired(r) =>
        /\ Registered(r) /\ <<r, "room">> \notin rx =>
              \A n \in rows : topic[n] = "user" => n \in BeingInserted
        /\ Sampling(r) =>
              \A n \in rows : n > reader[r].snapshot /\ <<r, topic[n]>> \in rx
                                => n \in BeingInserted

TokenReaches(r) == Told(r) => reader[r].snapshot <= reader[r].token

(***************************************************************************)
(* A number is settled when no row can come under it or below it any more, *)
(* but for numbers that a crash made the counter draw again.               *)
(***************************************************************************)
Settled(t) ==
    \A n \in 1 .. MaxCount :
        n <= t /\ (n > drawn \/ \E w \in Writers : permit[w] = n) => n \in lost

TokensSettled(r) ==
    /\ Settled(client[r].token)
    /\ poll[r].pc # "idle" => Settled(poll[r].since)
    /\ Told(r) => Settled(reader[r].token)

(***************************************************************************)
(* The rows that concern a client, whatever happened to lost numbers, are  *)
(* in what it got, or in the response that is on its way.                  *)
(***************************************************************************)
Owed(n) ==
    /\ n \in rows /\ n \notin lost
    /\ \/ topic[n] = "user"
       \/ topic[n] = "room" /\ \E j \in rows : j \notin lost /\ topic[j] = "user" /\ j < n

Sent(t, S) == \A n \in 1 .. MaxCount : n <= t /\ Owed(n) => n \in S

AllSent(r) ==
    /\ Sent(client[r].token, client[r].got)
    /\ poll[r].pc # "idle" => Sent(poll[r].since, client[r].got)
    /\ poll[r].pc = "found" => Sent(reader[r].token, client[r].got \cup poll[r].found)
    /\ poll[r].pc = "asleep" => Sent(reader[r].token, client[r].got)

ReaderInv(r) == Connected(r) /\ WakesCome(r) /\ TokenReaches(r) /\ TokensSettled(r) /\ AllSent(r)

PollInv == PollTypeOK /\ RowsCounted /\ \A r \in Readers : ReaderInv(r)

-----------------------------------------------------------------------------
(***************************************************************************)
(* The critical sections of the watch table.                               *)
(***************************************************************************)
LEMMA FiredMeans ==
    ASSUME WatchTypes, NEW r \in Readers
    PROVE  Fired(r) <=> \E x \in fired : x[1] = r
BY DEF WatchTypes, Fired, Holds

LEMMA SubscribeKeeps ==
    ASSUME WatchTypes, NEW r \in Readers, NEW K \in SUBSET Topics, Subscribe(r, K)
    PROVE  WatchTypes' /\ rx' = rx \cup ({r} \X K) /\ fired' = fired
BY DEF WatchTypes, Subscribe

LEMMA NotifyKeeps ==
    ASSUME WatchTypes, NEW k, NotifyPrefix(k)
    PROVE  /\ WatchTypes' /\ rx' = rx /\ fired \subseteq fired'
           /\ \A r : <<r, k>> \in rx => <<r, k>> \in fired'
<1>1. rx' = rx
  BY DEF WatchTypes, NotifyPrefix, RemoveEntries, Reaped, Receivers
<1>2. \A x \in rx : x[2] \in entries'
  BY DEF WatchTypes, NotifyPrefix, RemoveEntries, Reaped, Receivers
<1>3. fired' \subseteq rx /\ fired \subseteq fired'
  BY <1>1 DEF WatchTypes, NotifyPrefix, Receivers
<1>4. \A r : <<r, k>> \in rx => <<r, k>> \in fired'
  BY <1>1 DEF NotifyPrefix, Receivers
<1> QED BY <1>1, <1>2, <1>3, <1>4 DEF WatchTypes, NotifyPrefix, RemoveEntries

LEMMA DropKeeps ==
    ASSUME WatchTypes, NEW r \in Readers, DropReceivers(Holds(r))
    PROVE  /\ WatchTypes'
           /\ rx' = {x \in rx : x[1] # r}
           /\ fired' = {x \in fired : x[1] # r}
BY DEF WatchTypes, DropReceivers, Holds

-----------------------------------------------------------------------------
(***************************************************************************)
(* Types.                                                                  *)
(***************************************************************************)
LEMMA IdleTypes == IdlePoll \in Poll /\ IdleReader \in Reader
BY PollAssumption, VisibleLogAssumption DEF IdlePoll, Poll, IdleReader, Reader, Numbers

LEMMA TypesInit == PollInit => PollTypeOK
BY PollAssumption, VisibleLogAssumption
   DEF PollInit, LogInit, WatchInit, WatchTypes, PollTypeOK, Numbers, Reader, IdleReader,
       Poll, IdlePoll, Client, None

LEMMA TypesNext == PollTypeOK /\ [PollNext]_pollVars => PollTypeOK'
<1> SUFFICES ASSUME PollTypeOK, [PollNext]_pollVars PROVE PollTypeOK'
  OBVIOUS
<1> USE PollAssumption, VisibleLogAssumption DEF Numbers, None
<1>0. WatchTypes  BY DEF PollTypeOK
<1>1. CASE UNCHANGED pollVars
  BY <1>1 DEF pollVars, logVars, tableVars, PollTypeOK, WatchTypes
<1>2. ASSUME NEW w \in Writers, Begin(w) PROVE PollTypeOK'
  BY <1>2 DEF Begin, DrawNumber, tableVars, PollTypeOK, WatchTypes
<1>3. ASSUME NEW w \in Writers, NEW k \in Topics, Insert(w, k) PROVE PollTypeOK'
  <2>1. permit[w] \in 1 .. MaxCount  BY <1>3 DEF Insert, PutRow, PollTypeOK
  <2>2. rows' \in SUBSET (1 .. MaxCount)  BY <1>3, <2>1 DEF Insert, PutRow, PollTypeOK
  <2>3. topic' \in [1 .. MaxCount -> Topics \cup {NoTopic}]  BY <1>3, <2>1 DEF Insert, PollTypeOK
  <2>4. writing' \in [Writers -> BOOLEAN]  BY <1>3 DEF Insert, PollTypeOK
  <2> QED BY <1>3, <2>2, <2>3, <2>4 DEF Insert, PutRow, tableVars, PollTypeOK, WatchTypes
<1>4. ASSUME NEW w \in Writers, Notify(w) PROVE PollTypeOK'
  <2>1. WatchTypes'  BY <1>0, <1>4, NotifyKeeps DEF Notify
  <2> QED BY <1>4, <2>1 DEF Notify, logVars, PollTypeOK
<1>5. ASSUME NEW w \in Writers, DropPermit(w) PROVE PollTypeOK'
  BY <1>5 DEF DropPermit, LetGo, tableVars, PollTypeOK, WatchTypes
<1>6. ASSUME NEW r \in Readers, Request(r) PROVE PollTypeOK'
  BY <1>6 DEF Request, logVars, tableVars, PollTypeOK, WatchTypes, Poll, IdlePoll, Client
<1>7. ASSUME NEW r \in Readers, WatchUser(r) PROVE PollTypeOK'
  <2>1. WatchTypes'  BY <1>0, <1>7, SubscribeKeeps DEF WatchUser, Topics
  <2> QED BY <1>7, <2>1 DEF WatchUser, logVars, PollTypeOK, Poll
<1>8. ASSUME NEW r \in Readers, WatchRooms(r) PROVE PollTypeOK'
  <2>1. WatchTypes'  BY <1>0, <1>8, SubscribeKeeps DEF WatchRooms, Topics
  <2> QED BY <1>8, <2>1 DEF WatchRooms, logVars, PollTypeOK, Poll
<1>9. ASSUME NEW r \in Readers, Sample(r) PROVE PollTypeOK'
  <2>1. poll' \in [Readers -> Poll]  BY <1>9 DEF Sample, PollTypeOK, Poll
  <2>2. reader' \in [Readers -> Reader]  BY <1>9 DEF Sample, AskVisible, PollTypeOK, Reader
  <2> QED BY <1>9, <2>1, <2>2 DEF Sample, AskVisible, tableVars, PollTypeOK, WatchTypes
<1>10. ASSUME NEW r \in Readers, Sampled(r) PROVE PollTypeOK'
  <2>1. PICK t \in Visible :
          reader' = [reader EXCEPT ![r] = [@ EXCEPT !.pc = "told", !.token = t]]
    BY <1>10 DEF Sampled, TellVisible
  <2>2. t \in 0 .. MaxCount  BY <2>1 DEF Visible, PollTypeOK
  <2>3. reader' \in [Readers -> Reader] /\ reader'[r].token \in 0 .. MaxCount
    BY <2>1, <2>2 DEF PollTypeOK, Reader
  <2>4. poll' \in [Readers -> Poll]
    <3> DEFINE s == IF poll[r].since > reader'[r].token THEN reader'[r].token ELSE poll[r].since
    <3>1. s \in 0 .. MaxCount  BY <2>3 DEF PollTypeOK, Poll
    <3>2. poll' = [poll EXCEPT ![r] = [poll[r] EXCEPT !.pc = "told", !.since = s]]
      BY <1>10 DEF Sampled, PollTypeOK, Poll
    <3> HIDE DEF s
    <3> QED BY <3>1, <3>2 DEF PollTypeOK, Poll
  <2> QED BY <1>10, <2>3, <2>4 DEF Sampled, TellVisible, tableVars, PollTypeOK, WatchTypes
<1>11. ASSUME NEW r \in Readers, Build(r) PROVE PollTypeOK'
  <2>1. reader' \in [Readers -> Reader] /\ reader'[r].seen \subseteq 1 .. MaxCount
    BY <1>11 DEF Build, ReadRows, PollTypeOK, Reader
  <2>2. poll' \in [Readers -> Poll]
    <3> DEFINE found == {n \in reader'[r].seen : n > poll[r].since /\ Concerns(n)}
    <3>1. found \in SUBSET (1 .. MaxCount)  BY <2>1
    <3>2. poll' = [poll EXCEPT ![r] = [poll[r] EXCEPT !.pc = IF found = {} THEN "asleep" ELSE "found",
                                                      !.found = found]]
      BY <1>11 DEF Build, PollTypeOK, Poll
    <3> HIDE DEF found
    <3> DEFINE o == poll[r]
               q == [o EXCEPT !.pc = IF found = {} THEN "asleep" ELSE "found", !.found = found]
    <3>3. o \in Poll /\ poll' = [poll EXCEPT ![r] = q]  BY <3>2 DEF PollTypeOK
    <3> HIDE DEF o
    <3>4. q \in Poll  BY <3>1, <3>3 DEF Poll
    <3> HIDE DEF q
    <3> QED BY <3>3, <3>4 DEF PollTypeOK
  <2> QED BY <1>11, <2>1, <2>2 DEF Build, ReadRows, tableVars, PollTypeOK, WatchTypes
<1>12. ASSUME NEW r \in Readers, Receive(r) PROVE PollTypeOK'
  <2>1. WatchTypes'  BY <1>0, <1>12, DropKeeps DEF Receive
  <2>2. reader[r].token \in 0 .. MaxCount /\ poll[r].found \in SUBSET (1 .. MaxCount)
        /\ client[r].got \in SUBSET (1 .. MaxCount)
    BY DEF PollTypeOK, Reader, Poll, Client
  <2>3. client' \in [Readers -> Client]  BY <1>12, <2>2 DEF Receive, PollTypeOK, Client
  <2>4. poll' \in [Readers -> Poll]  BY <1>12, IdleTypes DEF Receive, PollTypeOK
  <2> QED BY <1>12, <2>1, <2>3, <2>4 DEF Receive, logVars, PollTypeOK
<1>13. ASSUME NEW r \in Readers, Wake(r) PROVE PollTypeOK'
  <2>1. WatchTypes'  BY <1>0, <1>13, DropKeeps DEF Wake
  <2>2. reader[r].token \in 0 .. MaxCount  BY DEF PollTypeOK, Reader
  <2>3. [IdlePoll EXCEPT !.pc = "user", !.since = reader[r].token] \in Poll
    BY <2>2 DEF IdlePoll, Poll
  <2>4. poll' \in [Readers -> Poll]  BY <1>13, <2>3 DEF Wake, PollTypeOK
  <2> QED BY <1>13, <2>1, <2>4 DEF Wake, logVars, PollTypeOK
<1>14. ASSUME NEW r \in Readers, PollTimeout(r) PROVE PollTypeOK'
  <2>1. WatchTypes'  BY <1>0, <1>14, DropKeeps DEF PollTimeout
  <2>2. reader[r].token \in 0 .. MaxCount  BY DEF PollTypeOK, Reader
  <2>3. client' \in [Readers -> Client]  BY <1>14, <2>2 DEF PollTimeout, PollTypeOK, Client
  <2>4. poll' \in [Readers -> Poll]  BY <1>14, IdleTypes DEF PollTimeout, PollTypeOK
  <2> QED BY <1>14, <2>1, <2>3, <2>4 DEF PollTimeout, logVars, PollTypeOK
<1>15. ASSUME NEW r \in Readers, Disconnect(r) PROVE PollTypeOK'
  <2>1. WatchTypes'  BY <1>0, <1>15, DropKeeps DEF Disconnect
  <2>2. poll' \in [Readers -> Poll] /\ reader' \in [Readers -> Reader]
    BY <1>15, IdleTypes DEF Disconnect, PollTypeOK
  <2>3. faults' \in 0 .. MaxFaults  BY <1>15 DEF Disconnect, PollTypeOK
  <2> QED BY <1>15, <2>1, <2>2, <2>3 DEF Disconnect, PollTypeOK
<1>16. CASE Die
  <2>1. drawn' \in 0 .. drawn /\ rows' \subseteq {n \in rows : n <= drawn'}
    BY <1>16 DEF Die, Restart
  <2>2. drawn \in 0 .. MaxCount /\ drawn' \in 0 .. MaxCount
    BY <2>1 DEF PollTypeOK
  <2>3. \A n \in (drawn' + 1) .. drawn : n \in 1 .. MaxCount
    <3>1. \A a, b \in 0 .. MaxCount : \A n \in (a + 1) .. b : n \in 1 .. MaxCount
      OBVIOUS
    <3> QED BY <2>2, <3>1
  <2>4. lost' \in SUBSET (1 .. MaxCount)
    BY <1>16, <2>3 DEF Die, PollTypeOK
  <2>5. permit' \in [Writers -> Numbers] /\ reader' \in [Readers -> Reader]
        /\ rows' \in SUBSET (1 .. MaxCount)
    <3>1. permit' \in [Writers -> Numbers]  BY <1>16 DEF Die, Restart
    <3>3. reader' \in [Readers -> Reader]  BY <1>16, IdleTypes DEF Die, Restart
    <3>4. rows' \subseteq rows  BY <1>16 DEF Die, Restart
    <3> QED BY <3>1, <3>3, <3>4 DEF PollTypeOK
  <2>6. topic' \in [1 .. MaxCount -> Topics \cup {NoTopic}] /\ writing' \in [Writers -> BOOLEAN]
    BY <1>16 DEF Die, PollTypeOK
  <2>7. WatchTypes' /\ poll' \in [Readers -> Poll] /\ client' = client /\ faults' \in 0 .. MaxFaults
    BY <1>16 DEF Die, WatchTypes, Poll, IdlePoll, PollTypeOK
  <2> QED BY <2>2, <2>4, <2>5, <2>6, <2>7 DEF PollTypeOK
<1> QED BY <1>1, <1>2, <1>3, <1>4, <1>5, <1>6, <1>7, <1>8, <1>9, <1>10, <1>11, <1>12, <1>13,
           <1>14, <1>15, <1>16 DEF PollNext, PollStep

-----------------------------------------------------------------------------
(***************************************************************************)
(* Rows stay below the counter: they are written under a permit, and a     *)
(* crash keeps a counter that covers them.                                 *)
(***************************************************************************)
LEMMA RowsCountedNext ==
    PollTypeOK /\ RowsCounted /\ [PollNext]_pollVars => RowsCounted'
<1> SUFFICES ASSUME PollTypeOK, RowsCounted, [PollNext]_pollVars PROVE RowsCounted'
  OBVIOUS
<1> USE VisibleLogAssumption DEF Numbers, None
<1>1. CASE UNCHANGED <<drawn, permit, rows, writing>>
  BY <1>1 DEF RowsCounted
<1>2. ASSUME NEW w \in Writers, Begin(w) PROVE RowsCounted'
  BY <1>2 DEF Begin, DrawNumber, PollTypeOK, RowsCounted
<1>3. ASSUME NEW w \in Writers, NEW k \in Topics, Insert(w, k) PROVE RowsCounted'
  BY <1>3 DEF Insert, PutRow, PollTypeOK, RowsCounted
<1>4. ASSUME NEW w \in Writers, Notify(w) PROVE RowsCounted'
  BY <1>4 DEF Notify, logVars, PollTypeOK, RowsCounted
<1>5. ASSUME NEW w \in Writers, DropPermit(w) PROVE RowsCounted'
  BY <1>5 DEF DropPermit, LetGo, PollTypeOK, RowsCounted
<1>6. CASE Die
  BY <1>6 DEF Die, Restart, PollTypeOK, RowsCounted
<1>7. ASSUME NEW r \in Readers, PollStep(r) \/ Receive(r) \/ PollTimeout(r) \/ Disconnect(r)
      PROVE  UNCHANGED <<drawn, permit, rows, writing>>
  BY <1>7 DEF PollStep, Request, WatchUser, WatchRooms, Sample, AskVisible, Sampled, TellVisible,
              Build, ReadRows, Wake, Receive, PollTimeout, Disconnect, logVars
<1> QED BY <1>1, <1>2, <1>3, <1>4, <1>5, <1>6, <1>7 DEF PollNext, pollVars, logVars

LEMMA FiredMeansNext ==
    ASSUME WatchTypes', NEW r \in Readers
    PROVE  Fired(r)' <=> \E x \in fired' : x[1] = r
BY DEF WatchTypes, Fired, Holds

(***************************************************************************)
(* What one client's poll does concerns no other client.                   *)
(***************************************************************************)
LEMMA OthersKept ==
    ASSUME NEW q \in Readers, ReaderInv(q), WatchTypes, WatchTypes',
           UNCHANGED <<drawn, permit, rows, topic, writing, lost>>,
           poll'[q] = poll[q], reader'[q] = reader[q], client'[q] = client[q],
           \A x : x[1] = q => (x \in rx' <=> x \in rx) /\ (x \in fired' <=> x \in fired)
    PROVE  ReaderInv(q)'
<1>1. Fired(q)' <=> Fired(q)
  BY FiredMeans, FiredMeansNext
<1>2. \A k : <<q, k>> \in rx' <=> <<q, k>> \in rx
  <2> TAKE k
  <2>1. <<q, k>>[1] = q  OBVIOUS
  <2> QED BY <2>1
<1>3. Connected(q)'
  BY <1>2 DEF ReaderInv, Connected
<1>4. BeingInserted' = BeingInserted
  BY DEF BeingInserted
<1>5. WakesCome(q)'
  BY <1>1, <1>2, <1>4 DEF ReaderInv, WakesCome, Registered, Sampling
<1>6. TokenReaches(q)' /\ TokensSettled(q)'
  BY DEF ReaderInv, TokenReaches, TokensSettled, Settled, Told
<1>7. AllSent(q)'
  BY DEF ReaderInv, AllSent, Sent, Owed
<1> QED BY <1>3, <1>5, <1>6, <1>7 DEF ReaderInv

-----------------------------------------------------------------------------
(***************************************************************************)
(* A step of a writer changes no poll.  It keeps the invariant of a client *)
(* if nothing settled becomes unsettled, nothing new is owed below a       *)
(* settled number, and the wakes still come.                               *)
(***************************************************************************)
LEMMA WriterKeeps ==
    ASSUME NEW q \in Readers, PollTypeOK, ReaderInv(q),
           UNCHANGED <<poll, reader, client>>,
           \A t \in Numbers : Settled(t) =>
               \A n \in 1 .. MaxCount : n <= t =>
                   /\ (n > drawn' \/ \E w \in Writers : permit'[w] = n) => n \in lost'
                   /\ Owed(n)' => Owed(n),
           Connected(q)', WakesCome(q)'
    PROVE  ReaderInv(q)'
<1>1. client[q].token \in Numbers /\ poll[q].since \in Numbers /\ reader[q].token \in Numbers
  BY DEF PollTypeOK, Client, Poll, Reader
<1>2. TokenReaches(q)'
  BY DEF ReaderInv, TokenReaches, Told
<1>3. TokensSettled(q)'
  <2>1. TokensSettled(q)  BY DEF ReaderInv
  <2> QED BY <1>1, <2>1 DEF TokensSettled, Settled, Told
<1>4. AllSent(q)'
  <2>1. TokensSettled(q) /\ AllSent(q)  BY DEF ReaderInv
  <2> QED BY <1>1, <2>1 DEF TokensSettled, AllSent, Sent, Told
<1> QED BY <1>2, <1>3, <1>4 DEF ReaderInv

LEMMA BeginKeeps ==
    ASSUME PollInv, NEW w \in Writers, Begin(w), NEW q \in Readers
    PROVE  ReaderInv(q)'
<1> USE DEF Numbers, None
<1>1. /\ drawn' = drawn + 1 /\ permit' = [permit EXCEPT ![w] = drawn + 1] /\ permit[w] = 0
      /\ UNCHANGED <<rows, reader, topic, writing, entries, rx, fired, poll, client, lost>>
  BY DEF Begin, DrawNumber, tableVars
<1>2. PollTypeOK /\ RowsCounted /\ ReaderInv(q)  BY DEF PollInv
<1>3. ~writing[w]  BY <1>1, <1>2 DEF RowsCounted, PollTypeOK
<1>4. BeingInserted' = BeingInserted
  BY <1>1, <1>2, <1>3 DEF BeingInserted, PollTypeOK
<1>5. Connected(q)'  BY <1>1, <1>2 DEF ReaderInv, Connected
<1>6. WakesCome(q)'
  BY <1>1, <1>2, <1>4 DEF ReaderInv, WakesCome, Registered, Sampling, Fired, Holds
<1>7. ASSUME NEW t \in Numbers, Settled(t), NEW n \in 1 .. MaxCount, n <= t
      PROVE  /\ (n > drawn' \/ \E v \in Writers : permit'[v] = n) => n \in lost'
             /\ Owed(n)' => Owed(n)
  <2>1. Owed(n)' => Owed(n)  BY <1>1 DEF Owed
  <2>2. n > drawn' => n > drawn  BY <1>1, <1>2 DEF PollTypeOK
  <2>3. ASSUME NEW v \in Writers, permit'[v] = n PROVE n > drawn \/ permit[v] = n
    BY <1>1, <1>2, <2>3 DEF PollTypeOK
  <2> QED BY <1>1, <1>7, <2>1, <2>2, <2>3 DEF Settled
<1> QED BY <1>1, <1>2, <1>5, <1>6, <1>7, WriterKeeps

LEMMA InsertKeeps ==
    ASSUME PollInv, NEW w \in Writers, NEW k \in Topics, Insert(w, k), NEW q \in Readers
    PROVE  ReaderInv(q)'
<1> USE VisibleLogAssumption DEF Numbers, None
<1> DEFINE m == permit[w]
<1>1. /\ m # 0 /\ m \notin rows /\ rows' = rows \cup {m}
      /\ topic' = [topic EXCEPT ![m] = k] /\ writing' = [writing EXCEPT ![w] = TRUE]
      /\ UNCHANGED <<drawn, permit, reader, entries, rx, fired, poll, client, lost>>
  BY DEF Insert, PutRow, tableVars
<1>2. PollTypeOK /\ RowsCounted /\ ReaderInv(q)  BY DEF PollInv
<1>3. m \in 1 .. MaxCount  BY <1>1, <1>2 DEF PollTypeOK
<1>4. \A n \in rows : n \in 1 .. MaxCount /\ n # m /\ topic'[n] = topic[n]
  BY <1>1, <1>2 DEF PollTypeOK
<1>5. BeingInserted \cup {m} \subseteq BeingInserted'
  BY <1>1, <1>2 DEF BeingInserted, PollTypeOK
<1> HIDE DEF m
<1>6. Connected(q)'  BY <1>1, <1>2 DEF ReaderInv, Connected
<1>7. WakesCome(q)'
  BY <1>1, <1>2, <1>4, <1>5 DEF ReaderInv, WakesCome, Registered, Sampling, Fired, Holds
<1>8. ASSUME NEW t \in Numbers, Settled(t), NEW n \in 1 .. MaxCount, n <= t
      PROVE  /\ (n > drawn' \/ \E v \in Writers : permit'[v] = n) => n \in lost'
             /\ Owed(n)' => Owed(n)
  <2>1. m <= t => m \in lost  BY <1>3, <1>8 DEF Settled, m
  <2>2. Owed(n)' => Owed(n)
    <3> SUFFICES ASSUME Owed(n)' PROVE Owed(n)
      OBVIOUS
    <3>1. n \in rows /\ n \notin lost  BY <1>1, <1>8, <2>1 DEF Owed
    <3>2. CASE topic'[n] = "user"  BY <3>1, <3>2, <1>4 DEF Owed
    <3>3. CASE topic'[n] = "room"
      <4>1. PICK j \in rows' : j \notin lost' /\ topic'[j] = "user" /\ j < n
        BY <3>3 DEF Owed
      <4>2. j # m  BY <1>1, <1>3, <1>8, <2>1, <4>1
      <4>3. j \in rows /\ topic[j] = "user"  BY <1>1, <1>4, <4>1, <4>2
      <4> QED BY <1>1, <1>4, <3>1, <3>3, <4>1, <4>3 DEF Owed
    <3> QED BY <3>2, <3>3 DEF Owed
  <2> QED BY <1>1, <1>8, <2>2 DEF Settled
<1> QED BY <1>1, <1>2, <1>6, <1>7, <1>8, WriterKeeps

LEMMA NotifyKeepsReader ==
    ASSUME PollInv, NEW w \in Writers, Notify(w), NEW q \in Readers
    PROVE  ReaderInv(q)'
<1> USE DEF Numbers, None
<1> DEFINE m == permit[w]
<1>1. /\ NotifyPrefix(topic[m]) /\ writing' = [writing EXCEPT ![w] = FALSE]
      /\ UNCHANGED <<drawn, permit, rows, reader, topic, poll, client, lost>>
  BY DEF Notify, logVars
<1>2. PollTypeOK /\ RowsCounted /\ ReaderInv(q) /\ WatchTypes  BY DEF PollInv, PollTypeOK
<1>3. /\ WatchTypes' /\ rx' = rx /\ fired \subseteq fired'
      /\ \A r : <<r, topic[m]>> \in rx => <<r, topic[m]>> \in fired'
  BY <1>1, <1>2, NotifyKeeps
<1>4. BeingInserted \subseteq BeingInserted' \cup {m}
  BY <1>1, <1>2 DEF BeingInserted, PollTypeOK
<1>5. ~Fired(q)' => ~Fired(q) /\ <<q, topic[m]>> \notin rx
  <2>1. Fired(q) => Fired(q)'  BY <1>2, <1>3, FiredMeans, FiredMeansNext
  <2>2. <<q, topic[m]>> \in rx => Fired(q)'
    <3>1. <<q, topic[m]>>[1] = q  OBVIOUS
    <3> QED BY <3>1, <1>3, FiredMeansNext
  <2> QED BY <2>1, <2>2
<1>6. Connected(q)'  BY <1>1, <1>2, <1>3 DEF ReaderInv, Connected
<1> HIDE DEF m
<1>7. WakesCome(q)'
  <2> SUFFICES ASSUME ~Fired(q)' PROVE
        /\ Registered(q)' /\ <<q, "room">> \notin rx' =>
              \A n \in rows' : topic'[n] = "user" => n \in BeingInserted'
        /\ Sampling(q)' =>
              \A n \in rows' : n > reader'[q].snapshot /\ <<q, topic'[n]>> \in rx'
                                => n \in BeingInserted'
    BY DEF WakesCome
  <2>1. ~Fired(q) /\ <<q, topic[m]>> \notin rx  BY <1>5
  <2>2. ASSUME NEW n \in BeingInserted, <<q, topic[n]>> \in rx PROVE n \in BeingInserted'
    BY <1>4, <2>1, <2>2
  <2>3. Registered(q) => <<q, "user">> \in rx
    BY <1>2 DEF ReaderInv, Connected, Registered
  <2> QED BY <1>1, <1>2, <1>3, <2>1, <2>2, <2>3 DEF ReaderInv, WakesCome, Registered, Sampling
<1>8. ASSUME NEW t \in Numbers, Settled(t), NEW n \in 1 .. MaxCount, n <= t
      PROVE  /\ (n > drawn' \/ \E v \in Writers : permit'[v] = n) => n \in lost'
             /\ Owed(n)' => Owed(n)
  BY <1>1, <1>8 DEF Settled, Owed
<1> QED BY <1>1, <1>2, <1>6, <1>7, <1>8, WriterKeeps

LEMMA DropPermitKeeps ==
    ASSUME PollInv, NEW w \in Writers, DropPermit(w), NEW q \in Readers
    PROVE  ReaderInv(q)'
<1> USE DEF Numbers, None
<1>1. /\ ~writing[w] /\ permit' = [permit EXCEPT ![w] = 0]
      /\ UNCHANGED <<drawn, rows, reader, topic, writing, entries, rx, fired, poll, client, lost>>
  BY DEF DropPermit, LetGo, tableVars
<1>2. PollTypeOK /\ RowsCounted /\ ReaderInv(q)  BY DEF PollInv
<1>3. BeingInserted' = BeingInserted
  BY <1>1, <1>2 DEF BeingInserted, PollTypeOK
<1>4. Connected(q)'  BY <1>1, <1>2 DEF ReaderInv, Connected
<1>5. WakesCome(q)'
  BY <1>1, <1>2, <1>3 DEF ReaderInv, WakesCome, Registered, Sampling, Fired, Holds
<1>6. ASSUME NEW t \in Numbers, Settled(t), NEW n \in 1 .. MaxCount, n <= t
      PROVE  /\ (n > drawn' \/ \E v \in Writers : permit'[v] = n) => n \in lost'
             /\ Owed(n)' => Owed(n)
  <2>1. ASSUME NEW v \in Writers, permit'[v] = n PROVE permit[v] = n
    BY <1>1, <1>2, <2>1 DEF PollTypeOK
  <2> QED BY <1>1, <1>6, <2>1 DEF Settled, Owed
<1> QED BY <1>1, <1>2, <1>4, <1>5, <1>6, WriterKeeps

-----------------------------------------------------------------------------
(***************************************************************************)
(* The steps of a poll.  The rows and the counter stay as they are.        *)
(***************************************************************************)
LEMMA PollKeeps ==
    ASSUME PollInv, NEW r \in Readers, WatchTypes',
           UNCHANGED <<drawn, permit, rows, topic, writing, lost>>,
           \A q \in Readers : q # r =>
               poll'[q] = poll[q] /\ reader'[q] = reader[q] /\ client'[q] = client[q],
           \A x : x[1] # r => (x \in rx' <=> x \in rx) /\ (x \in fired' <=> x \in fired),
           ReaderInv(r)'
    PROVE  \A q \in Readers : ReaderInv(q)'
<1> SUFFICES ASSUME NEW q \in Readers, q # r PROVE ReaderInv(q)'
  OBVIOUS
<1>1. ReaderInv(q) /\ WatchTypes  BY DEF PollInv, PollTypeOK
<1>2. \A x : x[1] = q => (x \in rx' <=> x \in rx) /\ (x \in fired' <=> x \in fired)
  OBVIOUS
<1>3. poll'[q] = poll[q] /\ reader'[q] = reader[q] /\ client'[q] = client[q]
  OBVIOUS
<1> QED BY <1>1, <1>2, <1>3, OthersKept

LEMMA RequestKeeps ==
    ASSUME PollInv, NEW r \in Readers, Request(r)
    PROVE  \A q \in Readers : ReaderInv(q)'
<1>1. /\ poll' = [poll EXCEPT ![r] = [IdlePoll EXCEPT !.pc = "user", !.since = client[r].token]]
      /\ UNCHANGED <<drawn, permit, rows, reader, topic, writing, entries, rx, fired, client, lost>>
  BY DEF Request, logVars, tableVars
<1>2. PollTypeOK /\ ReaderInv(r) /\ WatchTypes  BY DEF PollInv, PollTypeOK
<1>3. poll'[r].pc = "user" /\ poll'[r].since = client[r].token
  BY <1>1, <1>2 DEF PollTypeOK, IdlePoll
<1>4. \A q \in Readers : q # r => poll'[q] = poll[q]  BY <1>1, <1>2 DEF PollTypeOK
<1>5. ReaderInv(r)'
  BY <1>1, <1>2, <1>3 DEF ReaderInv, Connected, WakesCome, Registered, Sampling, Told,
     TokenReaches, TokensSettled, Settled, AllSent, Sent, Owed
<1>6. WatchTypes'  BY <1>1, <1>2 DEF WatchTypes
<1> QED BY <1>1, <1>4, <1>5, <1>6, PollKeeps

LEMMA WatchUserKeeps ==
    ASSUME PollInv, NEW r \in Readers, WatchUser(r)
    PROVE  \A q \in Readers : ReaderInv(q)'
<1>1. /\ poll[r].pc = "user" /\ Subscribe(r, {"user"}) /\ poll' = [poll EXCEPT ![r].pc = "rooms"]
      /\ UNCHANGED <<drawn, permit, rows, reader, topic, writing, client, lost>>
  BY DEF WatchUser, logVars
<1>2. PollTypeOK /\ ReaderInv(r) /\ WatchTypes  BY DEF PollInv, PollTypeOK
<1>3. WatchTypes' /\ rx' = rx \cup ({r} \X {"user"}) /\ fired' = fired
  BY <1>1, <1>2, SubscribeKeeps DEF Topics
<1>4. poll'[r].pc = "rooms" /\ poll'[r].since = poll[r].since
  BY <1>1, <1>2 DEF PollTypeOK, Poll
<1>5. \A q \in Readers : q # r => poll'[q] = poll[q]  BY <1>1, <1>2 DEF PollTypeOK
<1>6. <<r, "user">> \in rx'  BY <1>3
<1>7. ReaderInv(r)'
  BY <1>1, <1>2, <1>4, <1>6 DEF ReaderInv, Connected, WakesCome, Registered, Sampling, Told,
     TokenReaches, TokensSettled, Settled, AllSent, Sent, Owed
<1>8. \A x : x[1] # r => (x \in rx' <=> x \in rx) /\ (x \in fired' <=> x \in fired)
  BY <1>3
<1> QED BY <1>1, <1>3, <1>5, <1>7, <1>8, PollKeeps

LEMMA WatchRoomsKeeps ==
    ASSUME PollInv, NEW r \in Readers, WatchRooms(r)
    PROVE  \A q \in Readers : ReaderInv(q)'
<1> DEFINE K == IF Joined THEN {"room"} ELSE {}
<1>1. /\ poll[r].pc = "rooms" /\ Subscribe(r, K) /\ poll' = [poll EXCEPT ![r].pc = "sample"]
      /\ UNCHANGED <<drawn, permit, rows, reader, topic, writing, client, lost>>
  BY DEF WatchRooms, logVars
<1>2. PollTypeOK /\ ReaderInv(r) /\ WatchTypes  BY DEF PollInv, PollTypeOK
<1>3. WatchTypes' /\ rx' = rx \cup ({r} \X K) /\ fired' = fired
  <2>1. K \in SUBSET Topics  BY DEF Topics
  <2> HIDE DEF K
  <2> QED BY <1>1, <1>2, <2>1, SubscribeKeeps
<1>4. poll'[r].pc = "sample" /\ poll'[r].since = poll[r].since
  BY <1>1, <1>2 DEF PollTypeOK, Poll
<1>5. \A q \in Readers : q # r => poll'[q] = poll[q]  BY <1>1, <1>2 DEF PollTypeOK
<1>6. <<r, "user">> \in rx'  BY <1>1, <1>2, <1>3 DEF ReaderInv, Connected
<1>7. <<r, "room">> \notin rx' => \A n \in rows : topic[n] # "user"
  BY <1>3 DEF Joined, About
<1>8. WakesCome(r)'
  BY <1>1, <1>4, <1>7 DEF WakesCome, Registered, Sampling
<1>9. ReaderInv(r)'
  BY <1>1, <1>2, <1>4, <1>6, <1>8 DEF ReaderInv, Connected, Told,
     TokenReaches, TokensSettled, Settled, AllSent, Sent, Owed
<1>10. \A x : x[1] # r => (x \in rx' <=> x \in rx) /\ (x \in fired' <=> x \in fired)
  BY <1>3
<1> QED BY <1>1, <1>3, <1>5, <1>9, <1>10, PollKeeps

LEMMA SampleKeeps ==
    ASSUME PollInv, NEW r \in Readers, Sample(r)
    PROVE  \A q \in Readers : ReaderInv(q)'
<1>1. /\ poll[r].pc = "sample" /\ poll' = [poll EXCEPT ![r].pc = "waiting"]
      /\ reader' = [reader EXCEPT ![r] = [@ EXCEPT !.pc = "waiting", !.snapshot = drawn]]
      /\ UNCHANGED <<drawn, permit, rows, topic, writing, entries, rx, fired, client, lost>>
  BY DEF Sample, AskVisible, tableVars
<1>2. PollTypeOK /\ RowsCounted /\ ReaderInv(r) /\ WatchTypes  BY DEF PollInv, PollTypeOK
<1>3. poll'[r].pc = "waiting" /\ poll'[r].since = poll[r].since /\ reader'[r].snapshot = drawn
  BY <1>1, <1>2 DEF PollTypeOK, Poll, Reader
<1>4. \A q \in Readers : q # r => poll'[q] = poll[q] /\ reader'[q] = reader[q]
  BY <1>1, <1>2 DEF PollTypeOK
<1>5. \A n \in rows : ~(n > reader'[r].snapshot)
  BY VisibleLogAssumption, <1>2, <1>3 DEF RowsCounted, PollTypeOK, Numbers
<1>6. WakesCome(r)'
  <2>1. BeingInserted' = BeingInserted /\ (Fired(r)' <=> Fired(r))
    BY <1>1 DEF BeingInserted, Fired, Holds
  <2> QED BY <1>1, <1>2, <1>3, <1>5, <2>1 DEF ReaderInv, WakesCome, Registered, Sampling
<1>7. ReaderInv(r)'
  BY <1>1, <1>2, <1>3, <1>6 DEF ReaderInv, Connected, Told,
     TokenReaches, TokensSettled, Settled, AllSent, Sent, Owed
<1>8. WatchTypes'  BY <1>1, <1>2 DEF WatchTypes
<1> QED BY <1>1, <1>4, <1>7, <1>8, PollKeeps

LEMMA SampledKeeps ==
    ASSUME PollInv, NEW r \in Readers, Sampled(r)
    PROVE  \A q \in Readers : ReaderInv(q)'
<1> USE VisibleLogAssumption DEF Numbers
<1>1. PICK t \in Visible : /\ t >= reader[r].snapshot
                           /\ reader' = [reader EXCEPT ![r] = [@ EXCEPT !.pc = "told", !.token = t]]
  BY DEF Sampled, TellVisible
<1>2. /\ poll[r].pc = "waiting"
      /\ poll' = [poll EXCEPT ![r].pc = "told",
                              ![r].since = IF @ > reader'[r].token THEN reader'[r].token ELSE @]
      /\ UNCHANGED <<drawn, permit, rows, topic, writing, entries, rx, fired, client, lost>>
  BY DEF Sampled, TellVisible, tableVars
<1>3. PollTypeOK /\ RowsCounted /\ ReaderInv(r) /\ WatchTypes  BY DEF PollInv, PollTypeOK
<1>4. /\ t \in 0 .. MaxCount /\ t <= drawn
      /\ \A w \in Writers : permit[w] # 0 => t < permit[w]
  BY <1>1, <1>3 DEF Visible, PollTypeOK, None
<1>5. reader'[r].token = t /\ reader'[r].snapshot = reader[r].snapshot
  BY <1>1, <1>3 DEF PollTypeOK, Reader
<1>6. /\ poll'[r].pc = "told"
      /\ poll'[r].since = IF poll[r].since > t THEN t ELSE poll[r].since
  BY <1>2, <1>3, <1>5 DEF PollTypeOK, Poll
<1>7. \A q \in Readers : q # r => poll'[q] = poll[q] /\ reader'[q] = reader[q]
  BY <1>1, <1>2, <1>3 DEF PollTypeOK
<1>8. Settled(t)
  BY <1>3, <1>4 DEF Settled, PollTypeOK
<1>9. poll[r].since \in 0 .. MaxCount /\ Settled(poll[r].since) /\ Sent(poll[r].since, client[r].got)
  BY <1>2, <1>3 DEF PollTypeOK, Poll, ReaderInv, TokensSettled, AllSent
<1>10. Settled(poll'[r].since) /\ Sent(poll'[r].since, client[r].got)
  <2>1. CASE poll[r].since > t
    BY <1>4, <1>6, <1>8, <1>9, <2>1 DEF Sent
  <2>2. CASE ~(poll[r].since > t)
    BY <1>6, <1>9, <2>2
  <2> QED BY <2>1, <2>2
<1>11. TokensSettled(r)'
  <2>1. Settled(client[r].token)  BY <1>3 DEF ReaderInv, TokensSettled
  <2> QED BY <1>2, <1>5, <1>8, <1>10, <2>1 DEF TokensSettled, Settled
<1>12. AllSent(r)'
  <2>1. Sent(client[r].token, client[r].got)  BY <1>3 DEF ReaderInv, AllSent
  <2>2. \A n : Owed(n)' <=> Owed(n)  BY <1>2 DEF Owed
  <2> QED BY <1>2, <1>6, <1>10, <2>1, <2>2 DEF AllSent, Sent
<1>13. WakesCome(r)'
  <2>1. BeingInserted' = BeingInserted /\ (Fired(r)' <=> Fired(r))
    BY <1>2 DEF BeingInserted, Fired, Holds
  <2> QED BY <1>2, <1>3, <1>5, <1>6, <2>1 DEF ReaderInv, WakesCome, Registered, Sampling
<1>14. ReaderInv(r)'
  BY <1>1, <1>2, <1>3, <1>5, <1>6, <1>11, <1>12, <1>13 DEF ReaderInv, Connected, TokenReaches
<1>15. WatchTypes'  BY <1>2, <1>3 DEF WatchTypes
<1> QED BY <1>2, <1>7, <1>14, <1>15, PollKeeps

LEMMA BuildKeeps ==
    ASSUME PollInv, NEW r \in Readers, Build(r)
    PROVE  \A q \in Readers : ReaderInv(q)'
<1> USE VisibleLogAssumption DEF Numbers
<1> DEFINE found == {n \in reader'[r].seen : n > poll[r].since /\ Concerns(n)}
<1>1. /\ poll[r].pc = "told"
      /\ reader' = [reader EXCEPT ![r] = [@ EXCEPT !.pc = "scanned",
                                                   !.seen = rows \cap (1 .. reader[r].token)]]
      /\ poll' = [poll EXCEPT ![r].pc = IF found = {} THEN "asleep" ELSE "found",
                              ![r].found = found]
      /\ UNCHANGED <<drawn, permit, rows, topic, writing, entries, rx, fired, client, lost>>
  BY DEF Build, ReadRows, tableVars
<1>2. PollTypeOK /\ RowsCounted /\ ReaderInv(r) /\ WatchTypes  BY DEF PollInv, PollTypeOK
<1>3. /\ reader'[r].token = reader[r].token /\ reader'[r].snapshot = reader[r].snapshot
      /\ reader'[r].seen = rows \cap (1 .. reader[r].token)
      /\ reader[r].token \in 0 .. MaxCount /\ poll[r].since \in 0 .. MaxCount
  BY <1>1, <1>2 DEF PollTypeOK, Reader, Poll
<1>4. /\ poll'[r].pc = (IF found = {} THEN "asleep" ELSE "found")
      /\ poll'[r].since = poll[r].since /\ poll'[r].found = found
  BY <1>1, <1>2 DEF PollTypeOK, Poll
<1>5. \A q \in Readers : q # r => poll'[q] = poll[q] /\ reader'[q] = reader[q]
  BY <1>1, <1>2 DEF PollTypeOK
<1>6. ASSUME NEW n \in 1 .. MaxCount, n <= reader[r].token, Owed(n)
      PROVE  n \in client[r].got \cup found
  <2>1. CASE n <= poll[r].since
    BY <1>1, <1>2, <1>6, <2>1 DEF ReaderInv, AllSent, Sent
  <2>2. CASE n > poll[r].since
    <3>1. Concerns(n)  BY <1>6 DEF Owed, Concerns, About
    <3>2. n \in reader'[r].seen  BY <1>3, <1>6 DEF Owed
    <3> QED BY <2>2, <3>1, <3>2
  <2> QED BY <1>3, <2>1, <2>2
<1> HIDE DEF found
<1>7. \A n : Owed(n)' <=> Owed(n)  BY <1>1 DEF Owed
<1>8. AllSent(r)'
  <2>1. Sent(client[r].token, client[r].got) /\ Sent(poll[r].since, client[r].got)
    BY <1>1, <1>2 DEF ReaderInv, AllSent
  <2>2. Sent(client[r].token, client[r].got)' /\ Sent(poll[r].since, client[r].got)'
    BY <1>1, <1>4, <1>7, <2>1 DEF Sent
  <2>3. Sent(reader[r].token, client[r].got \cup poll[r].found)'
    BY <1>1, <1>3, <1>4, <1>6, <1>7 DEF Sent
  <2>4. poll'[r].pc = "asleep" => poll'[r].found = {}
    BY <1>4
  <2>5. poll'[r].pc = "asleep" => Sent(reader[r].token, client[r].got)'
    BY <2>3, <2>4 DEF Sent
  <2> QED BY <2>2, <2>3, <2>5 DEF AllSent
<1>9. WakesCome(r)'
  <2>1. BeingInserted' = BeingInserted /\ (Fired(r)' <=> Fired(r))
    BY <1>1 DEF BeingInserted, Fired, Holds
  <2> QED BY <1>1, <1>2, <1>3, <1>4, <2>1 DEF ReaderInv, WakesCome, Registered, Sampling
<1>10. ReaderInv(r)'
  BY <1>1, <1>2, <1>3, <1>4, <1>8, <1>9
     DEF ReaderInv, Connected, Told, TokenReaches, TokensSettled, Settled
<1>11. WatchTypes'  BY <1>1, <1>2 DEF WatchTypes
<1> QED BY <1>1, <1>5, <1>10, <1>11, PollKeeps

(***************************************************************************)
(* A round or a request ends: the receivers of the poll are dropped.  What *)
(* is left to show is about its tokens.                                    *)
(***************************************************************************)
LEMMA EndKeeps ==
    ASSUME PollInv, NEW r \in Readers, DropReceivers(Holds(r)),
           UNCHANGED <<drawn, permit, rows, topic, writing, lost>>,
           \A q \in Readers : q # r =>
               poll'[q] = poll[q] /\ reader'[q] = reader[q] /\ client'[q] = client[q],
           poll'[r].pc \in {"idle", "user"},
           Settled(client'[r].token), Sent(client'[r].token, client'[r].got),
           poll'[r].pc = "user" =>
               Settled(poll'[r].since) /\ Sent(poll'[r].since, client'[r].got)
    PROVE  \A q \in Readers : ReaderInv(q)'
<1>1. WatchTypes  BY DEF PollInv, PollTypeOK
<1>2. /\ WatchTypes'
      /\ rx' = {x \in rx : x[1] # r}
      /\ fired' = {x \in fired : x[1] # r}
  BY <1>1, DropKeeps
<1>3. \A n : Owed(n)' <=> Owed(n)  BY DEF Owed
<1>4. ReaderInv(r)'
  BY <1>3 DEF ReaderInv, Connected, WakesCome, Registered, Sampling, Told, TokenReaches,
              TokensSettled, Settled, AllSent, Sent
<1>5. \A x : x[1] # r => (x \in rx' <=> x \in rx) /\ (x \in fired' <=> x \in fired)
  BY <1>2
<1> QED BY <1>2, <1>4, <1>5, PollKeeps

LEMMA EndsKeep ==
    ASSUME PollInv, NEW r \in Readers,
           Receive(r) \/ Wake(r) \/ PollTimeout(r) \/ Disconnect(r)
    PROVE  \A q \in Readers : ReaderInv(q)'
<1>1. PollTypeOK /\ ReaderInv(r)  BY DEF PollInv
<1>2. CASE Receive(r)
  <2>1. /\ poll[r].pc = "found"
        /\ client' = [client EXCEPT ![r] = [token |-> reader[r].token, got |-> @.got \cup poll[r].found]]
        /\ poll' = [poll EXCEPT ![r] = IdlePoll] /\ DropReceivers(Holds(r))
        /\ UNCHANGED <<drawn, permit, rows, reader, topic, writing, lost>>
    BY <1>2 DEF Receive, logVars
  <2>2. /\ client'[r].token = reader[r].token /\ client'[r].got = client[r].got \cup poll[r].found
        /\ poll'[r].pc = "idle"
        /\ \A q \in Readers : q # r => poll'[q] = poll[q] /\ client'[q] = client[q]
    BY <1>1, <2>1 DEF PollTypeOK, Client, IdlePoll
  <2>3. Settled(reader[r].token) /\ Sent(reader[r].token, client[r].got \cup poll[r].found)
    BY <1>1, <2>1 DEF ReaderInv, TokensSettled, Told, AllSent
  <2> QED BY <2>1, <2>2, <2>3, EndKeeps
<1>3. CASE Wake(r)
  <2>1. /\ poll[r].pc = "asleep" /\ DropReceivers(Holds(r))
        /\ poll' = [poll EXCEPT ![r] = [IdlePoll EXCEPT !.pc = "user", !.since = reader[r].token]]
        /\ UNCHANGED <<drawn, permit, rows, reader, topic, writing, client, lost>>
    BY <1>3 DEF Wake, logVars
  <2>2. /\ poll'[r].pc = "user" /\ poll'[r].since = reader[r].token
        /\ \A q \in Readers : q # r => poll'[q] = poll[q]
    BY <1>1, <2>1 DEF PollTypeOK, IdlePoll
  <2>3. /\ Settled(reader[r].token) /\ Sent(reader[r].token, client[r].got)
        /\ Settled(client[r].token) /\ Sent(client[r].token, client[r].got)
    BY <1>1, <2>1 DEF ReaderInv, TokensSettled, Told, AllSent
  <2> QED BY <2>1, <2>2, <2>3, EndKeeps
<1>4. CASE PollTimeout(r)
  <2>1. /\ poll[r].pc = "asleep" /\ DropReceivers(Holds(r))
        /\ client' = [client EXCEPT ![r].token = reader[r].token]
        /\ poll' = [poll EXCEPT ![r] = IdlePoll]
        /\ UNCHANGED <<drawn, permit, rows, reader, topic, writing, lost>>
    BY <1>4 DEF PollTimeout, logVars
  <2>2. /\ client'[r].token = reader[r].token /\ client'[r].got = client[r].got
        /\ poll'[r].pc = "idle"
        /\ \A q \in Readers : q # r => poll'[q] = poll[q] /\ client'[q] = client[q]
    BY <1>1, <2>1 DEF PollTypeOK, Client, IdlePoll
  <2>3. Settled(reader[r].token) /\ Sent(reader[r].token, client[r].got)
    BY <1>1, <2>1 DEF ReaderInv, TokensSettled, Told, AllSent
  <2> QED BY <2>1, <2>2, <2>3, EndKeeps
<1>5. CASE Disconnect(r)
  <2>1. /\ poll' = [poll EXCEPT ![r] = IdlePoll] /\ reader' = [reader EXCEPT ![r] = IdleReader]
        /\ DropReceivers(Holds(r))
        /\ UNCHANGED <<drawn, permit, rows, topic, writing, client, lost>>
    BY <1>5 DEF Disconnect
  <2>2. /\ poll'[r].pc = "idle"
        /\ \A q \in Readers : q # r => poll'[q] = poll[q] /\ reader'[q] = reader[q]
    BY <1>1, <2>1 DEF PollTypeOK, IdlePoll
  <2>3. Settled(client[r].token) /\ Sent(client[r].token, client[r].got)
    BY <1>1 DEF ReaderInv, TokensSettled, AllSent
  <2> QED BY <2>1, <2>2, <2>3, EndKeeps
<1> QED BY <1>2, <1>3, <1>4, <1>5

(***************************************************************************)
(* A crash: the tokens of the clients stay settled, because the numbers    *)
(* the counter forgets become lost ones.                                   *)
(***************************************************************************)
LEMMA DieKeeps ==
    ASSUME PollInv, Die, NEW r \in Readers
    PROVE  ReaderInv(r)'
<1> USE VisibleLogAssumption DEF Numbers, None
<1>1. PollTypeOK /\ ReaderInv(r)  BY DEF PollInv
<1>2. /\ drawn' \in 0 .. drawn /\ rows' \subseteq rows
      /\ permit' = [w \in Writers |-> 0] /\ client' = client
      /\ lost' = lost \cup ((drawn' + 1) .. drawn)
      /\ topic' = [n \in 1 .. MaxCount |-> IF n \in rows' THEN topic[n] ELSE NoTopic]
      /\ poll' = [q \in Readers |-> IdlePoll]
  BY DEF Die, Restart
<1>3. poll'[r].pc = "idle"  BY <1>2 DEF IdlePoll
<1>4. Settled(client[r].token) /\ Sent(client[r].token, client[r].got)
  BY <1>1 DEF ReaderInv, TokensSettled, AllSent
<1>5. Settled(client[r].token)'
  <2> SUFFICES ASSUME NEW n \in 1 .. MaxCount, n <= client[r].token,
                      n > drawn' \/ \E w \in Writers : permit'[w] = n
               PROVE  n \in lost'
    BY <1>2 DEF Settled
  <2>1. n > drawn'  BY <1>2
  <2>2. CASE n > drawn  BY <1>2, <1>4, <2>2 DEF Settled
  <2>3. CASE ~(n > drawn)
    <3>1. drawn \in 0 .. MaxCount /\ drawn' \in 0 .. MaxCount  BY <1>1, <1>2 DEF PollTypeOK
    <3>2. n \in (drawn' + 1) .. drawn
      <4>1. \A a, b \in 0 .. MaxCount : n > a /\ ~(n > b) => n \in (a + 1) .. b
        OBVIOUS
      <4> QED BY <2>1, <2>3, <3>1, <4>1
    <3> QED BY <1>2, <3>2
  <2> QED BY <2>2, <2>3
<1>6. ASSUME NEW n \in 1 .. MaxCount, Owed(n)' PROVE Owed(n)
  <2>1. \A j \in rows' : j \in rows /\ topic'[j] = topic[j]
    BY <1>1, <1>2 DEF PollTypeOK
  <2>2. \A j : j \notin lost' => j \notin lost  BY <1>2
  <2> QED BY <1>6, <2>1, <2>2 DEF Owed
<1>7. Sent(client[r].token, client[r].got)'
  BY <1>2, <1>4, <1>6 DEF Sent
<1> QED BY <1>3, <1>5, <1>7 DEF ReaderInv, Connected, WakesCome, Registered, Sampling, Told,
           TokenReaches, TokensSettled, AllSent

-----------------------------------------------------------------------------
(***************************************************************************)
(* The invariant is inductive.                                             *)
(***************************************************************************)
LEMMA PollInitInv == PollInit => PollInv
<1> SUFFICES ASSUME PollInit PROVE PollInv
  OBVIOUS
<1>1. PollTypeOK  BY TypesInit
<1>2. RowsCounted
  BY DEF PollInit, LogInit, RowsCounted, None
<1>3. ASSUME NEW r \in Readers PROVE ReaderInv(r)
  <2>1. poll[r].pc = "idle" /\ client[r].token = 0 /\ rows = {}
    BY DEF PollInit, LogInit, IdlePoll
  <2> QED BY <2>1 DEF ReaderInv, Connected, WakesCome, Registered, Sampling, Told,
           TokenReaches, TokensSettled, Settled, AllSent, Sent, Owed
<1> QED BY <1>1, <1>2, <1>3 DEF PollInv

LEMMA PollNextInv == PollInv /\ [PollNext]_pollVars => PollInv'
<1> SUFFICES ASSUME PollInv, [PollNext]_pollVars PROVE PollInv'
  OBVIOUS
<1>1. PollTypeOK' /\ RowsCounted'
  BY TypesNext, RowsCountedNext DEF PollInv
<1>2. \A q \in Readers : ReaderInv(q)'
  <2>1. CASE UNCHANGED pollVars
    <3> SUFFICES ASSUME NEW q \in Readers PROVE ReaderInv(q)'
      OBVIOUS
    <3>1. ReaderInv(q) /\ WatchTypes /\ WatchTypes'
      BY <1>1 DEF PollInv, PollTypeOK
    <3> QED BY <2>1, <3>1, OthersKept DEF pollVars, logVars, tableVars
  <2>2. ASSUME NEW w \in Writers,
               Begin(w) \/ (\E k \in Topics : Insert(w, k)) \/ Notify(w) \/ DropPermit(w)
        PROVE  \A q \in Readers : ReaderInv(q)'
    BY <2>2, BeginKeeps, InsertKeeps, NotifyKeepsReader, DropPermitKeeps
  <2>3. ASSUME NEW r \in Readers, PollStep(r) \/ Receive(r) \/ PollTimeout(r) \/ Disconnect(r)
        PROVE  \A q \in Readers : ReaderInv(q)'
    BY <2>3, RequestKeeps, WatchUserKeeps, WatchRoomsKeeps, SampleKeeps, SampledKeeps,
       BuildKeeps, EndsKeep DEF PollStep
  <2>4. CASE Die  BY <2>4, DieKeeps
  <2> QED BY <2>1, <2>2, <2>3, <2>4 DEF PollNext
<1> QED BY <1>1, <1>2 DEF PollInv

LEMMA PollInductive == PollSpec => []PollInv
BY PollInitInv, PollNextInv, PTL DEF PollSpec

(***************************************************************************)
(* A sleeping poll with something to report is always about to be woken.   *)
(***************************************************************************)
LEMMA InvWakes == PollInv => NoSleepThroughWrite
<1> SUFFICES ASSUME PollInv, NEW r \in Readers, poll[r].pc = "asleep", ~Fired(r),
                    NEW n \in rows, n > reader[r].token, Concerns(n)
             PROVE  \E m \in BeingInserted : <<r, topic[m]>> \in rx
  BY DEF NoSleepThroughWrite
<1>1. PollTypeOK /\ ReaderInv(r)  BY DEF PollInv
<1>2. n > reader[r].snapshot
  <2>1. reader[r].snapshot <= reader[r].token  BY <1>1 DEF ReaderInv, TokenReaches, Told
  <2>2. n \in Nat /\ reader[r].snapshot \in Nat /\ reader[r].token \in Nat
    BY <1>1, VisibleLogAssumption DEF PollTypeOK, Reader, Numbers
  <2> QED BY <2>1, <2>2
<1>3. <<r, "user">> \in rx  BY <1>1 DEF ReaderInv, Connected
<1>4. /\ <<r, "room">> \notin rx => \A j \in rows : topic[j] = "user" => j \in BeingInserted
      /\ <<r, topic[n]>> \in rx => n \in BeingInserted
  BY <1>1, <1>2 DEF ReaderInv, WakesCome, Registered, Sampling
<1>5. CASE topic[n] = "user"  BY <1>3, <1>4, <1>5
<1>6. CASE topic[n] = "room" /\ \E j \in rows : topic[j] = "user" /\ j < n
  BY <1>3, <1>4, <1>6
<1> QED BY <1>5, <1>6 DEF Concerns, About

(***************************************************************************)
(* What the invariant says of tokens is NoRowSkipped.                      *)
(***************************************************************************)
LEMMA InvSends == PollInv => NoRowSkipped
<1> SUFFICES ASSUME PollInv, NEW r \in Readers, NEW n \in rows, n <= client[r].token,
                    \/ n \in About("user") \ lost
                    \/ n \in About("room") \ lost /\ \E j \in About("user") \ lost : j < n
             PROVE  n \in client[r].got
  BY DEF NoRowSkipped
<1>1. Sent(client[r].token, client[r].got)  BY DEF PollInv, ReaderInv, AllSent
<1>2. n \in 1 .. MaxCount  BY DEF PollInv, PollTypeOK
<1>3. Owed(n)  BY DEF Owed, About
<1> QED BY <1>1, <1>2, <1>3 DEF Sent

(***************************************************************************)
(* Every variable keeps its type, though clients present tokens from       *)
(* before a crash.                                                         *)
(***************************************************************************)
THEOREM PollTypes == PollSpec => []PollTypeOK
BY PollInductive, PTL DEF PollInv

(***************************************************************************)
(* No waiting poll loses the sender of its watch: sync::watch never panics *)
(* over a reaped entry.                                                    *)
(***************************************************************************)
THEOREM PollsStayConnected == PollSpec => []PollsConnected
<1>1. PollInv => PollsConnected  BY DEF PollInv, ReaderInv, Connected, PollsConnected
<1> QED BY <1>1, PollInductive, PTL

(***************************************************************************)
(* sync_events_route never sleeps through a write that concerns it, for    *)
(* any number of writers, clients, crashes and broken connections.         *)
(***************************************************************************)
THEOREM NoPollSleepsThrough == PollSpec => []NoSleepThroughWrite
BY PollInductive, InvWakes, PTL

(***************************************************************************)
(* The token a client is told never passes a row it was not sent.          *)
(***************************************************************************)
THEOREM TokensSkipNothing == PollSpec => []NoRowSkipped
BY PollInductive, InvSends, PTL
=============================================================================
