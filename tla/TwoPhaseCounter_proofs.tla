------------------------ MODULE TwoPhaseCounter_proofs ------------------------
(***************************************************************************)
(* The counter's safety for any number of writers, readers and numbers.    *)
(***************************************************************************)
EXTENDS TwoPhaseCounter, SequenceTheorems, WellFoundedInduction, TLAPS

(***************************************************************************)
(* A non-empty set of naturals has a least element, and Least picks it:    *)
(* the front of the sorted pending list.                                   *)
(***************************************************************************)
LEMMA LeastExists ==
    ASSUME NEW S, S \subseteq Nat, S # {}
    PROVE  \E m \in S : \A n \in S : m <= n
<1> DEFINE R == OpToRel(<, Nat)
<1>1. \E x \in S : \A y \in S : ~ (<<y, x>> \in R)
  <2> HIDE DEF R
  <2>1. IsWellFoundedOn(R, Nat)
    BY NatLessThanWellFounded DEF R
  <2> QED BY <2>1, WFMin
<1>2. ASSUME NEW x \in S, NEW y \in S, y < x
      PROVE  <<y, x>> \in R
  BY <1>2 DEF OpToRel
<1>3. PICK m \in S : \A y \in S : ~ (<<y, m>> \in R)
  BY <1>1
<1>4. ASSUME NEW n \in S
      PROVE  m <= n
  <2>1. ~ (n < m)
    BY <1>2, <1>3
  <2>2. m \in Nat /\ n \in Nat
    OBVIOUS
  <2> HIDE DEF R
  <2> QED BY <2>1, <2>2
<1> QED BY <1>4

LEMMA LeastIsLeast ==
    ASSUME NEW S, S \subseteq Nat, S # {}
    PROVE  Least(S) \in S /\ \A n \in S : Least(S) <= n
BY LeastExists DEF Least

(***************************************************************************)
(* State::retired is the greatest number below every pending one: it is    *)
(* below them all, and every number drawn that is below them all is at     *)
(* most it.                                                                *)
(***************************************************************************)
LEMMA RetiredIsFrontier ==
    ASSUME NEW d \in Nat, NEW P, P \subseteq 1 .. d
    PROVE  /\ RetiredOf(d, P) \in 0 .. d
           /\ \A p \in P : RetiredOf(d, P) < p
           /\ \A n \in 0 .. d : (\A p \in P : n < p) => n <= RetiredOf(d, P)
<1>1. CASE P = {}
  BY <1>1 DEF RetiredOf
<1>2. CASE P # {}
  <2>1. P \subseteq Nat
    OBVIOUS
  <2>2. Least(P) \in P /\ \A n \in P : Least(P) <= n
    BY <1>2, <2>1, LeastIsLeast
  <2>3. PICK m \in 1 .. d : m \in P /\ m = Least(P)
    BY <2>2
  <2>4. RetiredOf(d, P) = m - 1
    BY <1>2, <2>3 DEF RetiredOf
  <2>5. \A p \in P : p \in 1 .. d /\ m <= p
    BY <2>2, <2>3
  <2>6. m - 1 \in 0 .. d
    OBVIOUS
  <2>7. \A p \in P : m - 1 < p
    BY <2>5
  <2>8. \A n \in 0 .. d : (\A p \in P : n < p) => n <= m - 1
    BY <2>3
  <2> QED BY <2>4, <2>6, <2>7, <2>8
<1> QED BY <1>1, <1>2

(***************************************************************************)
(* The inductive invariant: pending numbers lie between what is released   *)
(* and what is drawn, every permit's number is pending, a token handed to  *)
(* a reader lies below all of them, and each log state counts its rows.    *)
(***************************************************************************)
PendingBetween ==
    /\ released <= dispatched
    /\ \A p \in pending : released < p /\ p <= dispatched
    /\ pending = {} => released = dispatched

PermitsPending ==
    /\ \A w \in Writers : permit[w] # None => permit[w] \in pending
    /\ \A v, w \in Writers : permit[v] # None /\ permit[v] = permit[w] => v = w

LogCounts ==
    /\ Db.count = dispatched
    /\ DurableRowsCounted

TokensFinal ==
    \A r \in Readers :
        /\ reader[r].pc \in {"told", "scanned"} =>
              /\ reader[r].token <= dispatched
              /\ \A p \in pending : reader[r].token < p
        /\ reader[r].pc = "scanned" =>
              Db.rows \cap (1 .. reader[r].token) = reader[r].seen

IInv == TypeOK /\ PendingBetween /\ PermitsPending /\ LogCounts /\ TokensFinal
-----------------------------------------------------------------------------
(***************************************************************************)
(* Facts about the log that every step uses: it is non-empty, its last     *)
(* element is a database state, and appending, collapsing or dropping a    *)
(* prefix keeps both.                                                      *)
(***************************************************************************)
LEMMA AppendLog ==
    ASSUME NEW S, NEW s \in Seq(S), NEW e \in S
    PROVE  /\ Append(s, e) \in Seq(S)
           /\ Append(s, e) # <<>>
           /\ Len(Append(s, e)) = Len(s) + 1
           /\ Append(s, e)[Len(s) + 1] = e
           /\ \A i \in 1 .. Len(s) : Append(s, e)[i] = s[i]
OBVIOUS

LEMMA LastOfLog ==
    ASSUME TypeOK
    PROVE  /\ Len(log) \in Nat \ {0}
           /\ Db \in DbState
           /\ \A k \in 1 .. Len(log) : log[k] \in DbState
<1>1. log \in Seq(DbState) /\ log # <<>>
  BY DEF TypeOK
<1> HIDE DEF DbState
<1>2. Len(log) \in Nat \ {0}
  BY <1>1, EmptySeq
<1>3. \A k \in 1 .. Len(log) : log[k] \in DbState
  BY <1>1, ElementOfSeq
<1> QED BY <1>2, <1>3 DEF Db

THEOREM InitIInv == Init => IInv
<1> SUFFICES ASSUME Init PROVE IInv
  OBVIOUS
<1> USE CounterAssumption DEF Init
<1>1. log = << [count |-> 0, rows |-> {}] >> /\ Len(log) = 1
  OBVIOUS
<1>2. [count |-> 0, rows |-> {}] \in DbState
  BY DEF DbState, Numbers
<1>3. TypeOK
  <2>1. log \in Seq(DbState) /\ log # <<>>
    BY <1>1, <1>2
  <2>2. IdleReader \in Reader
    BY DEF IdleReader, Reader, Numbers
  <2>3. reader \in [Readers -> Reader]
    BY <2>2
  <2> QED BY <2>1, <2>3 DEF TypeOK, Numbers, None
<1>4. PendingBetween
  BY DEF PendingBetween
<1>5. PermitsPending
  BY DEF PermitsPending, None
<1>6. LogCounts
  BY <1>1 DEF LogCounts, DurableRowsCounted, Db
<1>7. TokensFinal
  BY DEF TokensFinal, IdleReader
<1> QED BY <1>3, <1>4, <1>5, <1>6, <1>7 DEF IInv

-----------------------------------------------------------------------------
(***************************************************************************)
(* One lemma per action: each preserves the inductive invariant.           *)
(***************************************************************************)
LEMMA DispatchPreserves ==
    ASSUME IInv, NEW w \in Writers, Dispatch(w)
    PROVE  IInv'
<1> DEFINE after == [Db EXCEPT !.count = dispatched + 1]
<1> USE CounterAssumption DEF IInv, Dispatch
<1>1. /\ Len(log) \in Nat \ {0} /\ Db \in DbState
      /\ \A k \in 1 .. Len(log) : log[k] \in DbState
  BY LastOfLog
<1>2. dispatched + 1 \in 1 .. MaxCount
  BY DEF TypeOK, Numbers
<1>3. /\ after \in DbState /\ after.count = dispatched + 1
      /\ after.rows = Db.rows
  BY <1>1, <1>2 DEF DbState, Numbers
<1>4. /\ log' \in Seq(DbState) /\ log' # <<>> /\ Len(log') = Len(log) + 1
      /\ log'[Len(log) + 1] = after
      /\ \A k \in 1 .. Len(log) : log'[k] = log[k]
  <2>1. log \in Seq(DbState) /\ log' = Append(log, after)
    BY DEF TypeOK
  <2> HIDE DEF after, DbState
  <2> QED BY <1>3, <2>1, AppendLog
<1>5. Db' = after
  BY <1>4 DEF Db
<1>6. TypeOK'
  BY <1>2, <1>4 DEF TypeOK, Numbers
<1>7. PendingBetween'
  BY DEF TypeOK, PendingBetween, Numbers
<1>8. PermitsPending'
  <2>1. \A v \in Writers : permit[v] # dispatched + 1
    BY DEF TypeOK, PermitsPending, PendingBetween, Numbers, None
  <2> QED BY <2>1 DEF TypeOK, PermitsPending
<1>9. LogCounts'
  <2>1. \A n \in after.rows : n <= after.count
    <3>1. \A n \in Db.rows : n <= dispatched
      BY <1>1 DEF LogCounts, DurableRowsCounted, Db
    <3>2. Db.rows \subseteq 1 .. MaxCount /\ dispatched \in Nat
      BY <1>1 DEF DbState, TypeOK, Numbers
    <3> QED BY <1>3, <3>1, <3>2
  <2>2. \A k \in 1 .. Len(log) + 1 : k \in 1 .. Len(log) \/ k = Len(log) + 1
    BY <1>1
  <2>3. DurableRowsCounted'
    BY <1>1, <1>4, <2>1, <2>2 DEF LogCounts, DurableRowsCounted
  <2> QED BY <1>3, <1>5, <2>3 DEF LogCounts
<1>10. TokensFinal'
  <2>1. Db'.rows = Db.rows
    BY <1>3, <1>5
  <2> QED BY <2>1 DEF TokensFinal, TypeOK, Numbers, Reader
<1> QED BY <1>6, <1>7, <1>8, <1>9, <1>10

LEMMA WriteRowPreserves ==
    ASSUME IInv, NEW w \in Writers, WriteRow(w)
    PROVE  IInv'
<1> DEFINE after == [Db EXCEPT !.rows = @ \cup {permit[w]}]
<1> USE CounterAssumption DEF IInv, WriteRow
<1>1. /\ Len(log) \in Nat \ {0} /\ Db \in DbState
      /\ \A k \in 1 .. Len(log) : log[k] \in DbState
  BY LastOfLog
<1>2. permit[w] \in pending /\ permit[w] \in 1 .. MaxCount
  BY DEF TypeOK, PermitsPending
<1>3. /\ after \in DbState /\ after.count = dispatched
      /\ after.rows = Db.rows \cup {permit[w]}
  BY <1>1, <1>2 DEF DbState, LogCounts
<1>4. \A n \in after.rows : n <= after.count
  <2>1. \A n \in Db.rows : n <= Db.count
    BY <1>1 DEF LogCounts, DurableRowsCounted, Db
  <2>2. permit[w] <= dispatched
    BY <1>2 DEF PendingBetween
  <2> QED BY <1>3, <2>1, <2>2 DEF LogCounts
<1>5. /\ log' \in Seq(DbState) /\ log' # <<>>
      /\ Db' = after
      /\ \A k \in 1 .. Len(log') : log'[k] = after \/ \E j \in 1 .. Len(log) : log'[k] = log[j]
  <2> log \in Seq(DbState)
    BY DEF TypeOK
  <2> log' = Append(log, after) \/ log' = <<after>>
    OBVIOUS
  <2> HIDE DEF after, DbState
  <2>1. CASE log' = <<after>>
    BY <1>3, <2>1 DEF Db
  <2>2. CASE log' = Append(log, after)
    <3>1. /\ log' \in Seq(DbState) /\ log' # <<>> /\ Len(log') = Len(log) + 1
          /\ log'[Len(log) + 1] = after
          /\ \A k \in 1 .. Len(log) : log'[k] = log[k]
      BY <1>3, <2>2, AppendLog
    <3>2. \A k \in 1 .. Len(log) + 1 : k \in 1 .. Len(log) \/ k = Len(log) + 1
      BY <1>1
    <3> QED BY <3>1, <3>2 DEF Db
  <2> QED BY <2>1, <2>2
<1>6. TypeOK'
  BY <1>5 DEF TypeOK
<1>7. PendingBetween'
  BY DEF PendingBetween
<1>8. PermitsPending'
  BY DEF PermitsPending
<1>9. LogCounts'
  <2>1. DurableRowsCounted'
    BY <1>4, <1>5 DEF LogCounts, DurableRowsCounted
  <2> QED BY <1>3, <1>5, <2>1 DEF LogCounts
<1>10. TokensFinal'
  <2>1. Db'.rows = Db.rows \cup {permit[w]}
    BY <1>3, <1>5
  <2>2. ASSUME NEW r \in Readers, reader[r].pc = "scanned"
        PROVE  permit[w] \notin 1 .. reader[r].token
    BY <1>2, <2>2 DEF TokensFinal, TypeOK, Reader, Numbers
  <2>3. ASSUME NEW r \in Readers, reader[r].pc = "scanned"
        PROVE  Db'.rows \cap (1 .. reader[r].token) = Db.rows \cap (1 .. reader[r].token)
    BY <2>1, <2>2, <2>3
  <2> QED BY <2>3 DEF TokensFinal
<1> QED BY <1>6, <1>7, <1>8, <1>9, <1>10

LEMMA FlushWalPreserves ==
    ASSUME IInv, FlushWal
    PROVE  IInv'
<1> USE DEF IInv, FlushWal
<1>1. /\ Len(log) \in Nat \ {0}
      /\ \A k \in 1 .. Len(log) : log[k] \in DbState
  BY LastOfLog
<1>2. PICK k \in 2 .. Len(log) : log' = SubSeq(log, k, Len(log))
  OBVIOUS
<1>3. /\ log' \in Seq(DbState)
      /\ Len(log') = Len(log) - k + 1
      /\ \A i \in 1 .. Len(log) - k + 1 : log'[i] = log[k + i - 1]
  <2>1. k \in Int /\ Len(log) \in Int /\ k <= Len(log)
    BY <1>1
  <2>2. \A i \in k .. Len(log) : log[i] \in DbState
    BY <1>1
  <2> HIDE DEF DbState
  <2> QED BY <1>2, <2>1, <2>2, SubSeqProperties
<1>4. log' # <<>>
  <2>1. Len(log') # 0
    BY <1>1, <1>3
  <2>2. Len(<<>>) = 0
    BY EmptySeq
  <2> HIDE DEF FlushWal, IInv
  <2> QED BY <2>1, <2>2
<1>5. Db' = Db
  <2>1. Len(log') \in 1 .. Len(log) - k + 1 /\ k + Len(log') - 1 = Len(log)
    BY <1>1, <1>3
  <2>2. log'[Len(log')] = log[k + Len(log') - 1]
    BY <1>3, <2>1
  <2> QED BY <2>1, <2>2 DEF Db
<1>6. \A i \in 1 .. Len(log') : \E j \in 1 .. Len(log) : log'[i] = log[j]
  BY <1>1, <1>3
<1>7. TypeOK'
  BY <1>3, <1>4 DEF TypeOK
<1>8. PendingBetween' /\ PermitsPending'
  BY DEF PendingBetween, PermitsPending
<1>9. LogCounts'
  BY <1>5, <1>6 DEF LogCounts, DurableRowsCounted
<1>10. TokensFinal'
  BY <1>5 DEF TokensFinal
<1> QED BY <1>7, <1>8, <1>9, <1>10

LEMMA RetirePreserves ==
    ASSUME IInv, NEW w \in Writers, Retire(w)
    PROVE  IInv'
<1> USE CounterAssumption DEF IInv, Retire
<1>1. /\ permit[w] \in pending /\ pending \subseteq 1 .. MaxCount
      /\ dispatched \in Nat /\ released \in Nat
  BY DEF TypeOK, PermitsPending, Numbers
<1>2. /\ released' \in Nat /\ released' <= dispatched
      /\ \A p \in pending' : released' < p /\ p <= dispatched
      /\ pending' = {} => released' = dispatched
  <2>1. CASE IsFront(permit[w]) /\ pending = {permit[w]}
    BY <1>1, <2>1 DEF PendingBetween, ReleaseValue
  <2>2. CASE IsFront(permit[w]) /\ pending # {permit[w]}
    <3>1. released' = permit[w] /\ pending' # {}
      BY <1>1, <2>2 DEF ReleaseValue
    <3>2. PICK id \in 1 .. MaxCount : id = permit[w] /\ id \in pending
      BY <1>1
    <3>3. \A p \in pending : p \in Nat /\ id <= p /\ p <= dispatched
      BY <1>1, <2>2, <3>2 DEF IsFront, PendingBetween
    <3>4. \A p \in pending' : p \in pending /\ p # id
      BY <3>2
    <3>5. released' = id
      BY <3>1, <3>2
    <3>6. \A p \in pending' : id < p /\ p <= dispatched
      BY <3>3, <3>4
    <3>7. id \in Nat /\ id <= dispatched
      BY <3>2, <3>3
    <3> QED BY <3>1, <3>5, <3>6, <3>7
  <2>3. CASE ~ IsFront(permit[w])
    <3>1. pending' # {}
      BY <1>1, <2>3 DEF IsFront
    <3> QED BY <1>1, <2>3, <3>1 DEF PendingBetween
  <2> QED BY <2>1, <2>2, <2>3
<1>3. TypeOK'
  <2>1. released' \in Numbers /\ None \in Numbers
    BY <1>1, <1>2 DEF TypeOK, Numbers, None
  <2> QED BY <2>1 DEF TypeOK
<1>4. PendingBetween'
  BY <1>2 DEF PendingBetween
<1>5. PermitsPending'
  BY DEF PermitsPending, TypeOK, None
<1>6. LogCounts'
  BY DEF LogCounts, DurableRowsCounted, Db
<1>7. TokensFinal'
  BY DEF TokensFinal, Db
<1> QED BY <1>3, <1>4, <1>5, <1>6, <1>7

LEMMA WaitPendingPreserves ==
    ASSUME IInv, NEW r \in Readers, WaitPending(r)
    PROVE  IInv'
<1> USE DEF IInv, WaitPending
<1>1. TypeOK'
  BY DEF TypeOK, Reader
<1>2. PendingBetween' /\ PermitsPending' /\ LogCounts'
  BY DEF PendingBetween, PermitsPending, LogCounts, DurableRowsCounted, Db
<1>3. TokensFinal'
  BY DEF TokensFinal, TypeOK, Reader, Db
<1> QED BY <1>1, <1>2, <1>3

LEMMA WaitReturnPreserves ==
    ASSUME IInv, NEW r \in Readers, WaitReturn(r)
    PROVE  IInv'
<1> USE DEF IInv, WaitReturn
<1>1. TypeOK'
  BY DEF TypeOK, Reader
<1>2. PendingBetween' /\ PermitsPending' /\ LogCounts'
  BY DEF PendingBetween, PermitsPending, LogCounts, DurableRowsCounted, Db
<1>3. TokensFinal'
  BY DEF TokensFinal, PendingBetween, TypeOK, Reader, Db
<1> QED BY <1>1, <1>2, <1>3

LEMMA CurrentCountPreserves ==
    ASSUME IInv, NEW r \in Readers, CurrentCount(r)
    PROVE  IInv'
<1> USE CounterAssumption DEF IInv, CurrentCount
<1>1. Retired \in 0 .. dispatched /\ \A p \in pending : Retired < p
  <2>1. dispatched \in Nat /\ pending \subseteq 1 .. dispatched
    BY DEF TypeOK, PendingBetween, Numbers
  <2> QED BY <2>1, RetiredIsFrontier DEF Retired
<1>2. TypeOK'
  <2>1. Retired \in Numbers
    BY <1>1 DEF TypeOK, Numbers
  <2> QED BY <2>1 DEF TypeOK, Reader
<1>3. PendingBetween' /\ PermitsPending' /\ LogCounts'
  BY DEF PendingBetween, PermitsPending, LogCounts, DurableRowsCounted, Db
<1>4. TokensFinal'
  BY <1>1 DEF TokensFinal, TypeOK, Reader, Numbers, Db
<1> QED BY <1>2, <1>3, <1>4

LEMMA ScanPreserves ==
    ASSUME IInv, NEW r \in Readers, Scan(r)
    PROVE  IInv'
<1> USE DEF IInv, Scan
<1>1. Db \in DbState
  BY LastOfLog
<1>2. TypeOK'
  BY <1>1 DEF TypeOK, Reader, DbState
<1>3. PendingBetween' /\ PermitsPending' /\ LogCounts'
  BY DEF PendingBetween, PermitsPending, LogCounts, DurableRowsCounted, Db
<1>4. TokensFinal'
  BY DEF TokensFinal, TypeOK, Reader, Db
<1> QED BY <1>2, <1>3, <1>4

LEMMA CrashPreserves ==
    ASSUME IInv, Crash
    PROVE  IInv'
<1> USE CounterAssumption DEF IInv, Crash
<1>1. PICK k \in 1 .. Len(log) :
        /\ log' = << log[k] >>
        /\ dispatched' = log[k].count /\ released' = log[k].count
  OBVIOUS
<1>2. log[k] \in DbState /\ \A n \in log[k].rows : n <= log[k].count
  BY LastOfLog DEF LogCounts, DurableRowsCounted
<1>3. Db' = log[k] /\ Len(log') = 1 /\ log'[1] = log[k]
  BY <1>1 DEF Db
<1>4. IdleReader \in Reader
  BY DEF IdleReader, Reader, Numbers
<1>5. TypeOK'
  <2>1. log' \in Seq(DbState) /\ log' # <<>>
    BY <1>1, <1>2
  <2>2. dispatched' \in Numbers /\ released' \in Numbers
    BY <1>1, <1>2 DEF DbState
  <2> QED BY <1>4, <2>1, <2>2 DEF TypeOK, Numbers, None
<1>6. PendingBetween'
  BY <1>1, <1>2 DEF PendingBetween, DbState, Numbers
<1>7. PermitsPending'
  BY DEF PermitsPending
<1>8. LogCounts'
  BY <1>1, <1>2, <1>3 DEF LogCounts, DurableRowsCounted
<1>9. TokensFinal'
  BY DEF TokensFinal, IdleReader
<1> QED BY <1>5, <1>6, <1>7, <1>8, <1>9

-----------------------------------------------------------------------------
LEMMA StutterPreserves ==
    ASSUME IInv, UNCHANGED vars
    PROVE  IInv'
BY DEF vars, IInv, TypeOK, PendingBetween, PermitsPending, LogCounts,
       DurableRowsCounted, TokensFinal, Db

LEMMA NextPreserves ==
    ASSUME IInv, [Next]_vars
    PROVE  IInv'
<1>1. ASSUME NEW w \in Writers, WriterStep(w)
      PROVE  IInv'
  BY <1>1, DispatchPreserves, WriteRowPreserves, RetirePreserves DEF WriterStep
<1>2. ASSUME NEW r \in Readers, ReaderStep(r)
      PROVE  IInv'
  BY <1>2, WaitPendingPreserves, WaitReturnPreserves, CurrentCountPreserves,
     ScanPreserves DEF ReaderStep
<1> QED
  BY <1>1, <1>2, FlushWalPreserves, CrashPreserves, StutterPreserves DEF Next

(***************************************************************************)
(* The inductive invariant holds of every behaviour of the counter.        *)
(***************************************************************************)
THEOREM CounterInductive == Spec => []IInv
<1>1. IInv /\ [Next]_vars => IInv'
  BY NextPreserves
<1> QED BY InitIInv, <1>1, PTL DEF Spec

(***************************************************************************)
(* Type correctness; in particular no number drawn passes u64::MAX.        *)
(***************************************************************************)
THEOREM CounterTypes == Spec => []TypeOK
<1>1. IInv => TypeOK
  BY DEF IInv
<1> QED BY CounterInductive, <1>1, PTL

(***************************************************************************)
(* A reader that has scanned up to its token misses no row at or below it. *)
(***************************************************************************)
THEOREM ReadersMissNothing == Spec => []NoMissedRow
<1>1. IInv => NoMissedRow
  BY DEF IInv, TokensFinal, NoMissedRow
<1> QED BY CounterInductive, <1>1, PTL

(***************************************************************************)
(* The watch channel has caught up whenever nothing is pending, and never  *)
(* runs ahead of the retirement value.                                     *)
(***************************************************************************)
THEOREM ChannelCatchesUp == Spec => []ReleaseCatchesUp
<1>1. ASSUME IInv
      PROVE  ReleaseCatchesUp
  <2>1. dispatched \in Nat /\ pending \subseteq 1 .. dispatched
    BY <1>1, CounterAssumption DEF IInv, TypeOK, PendingBetween, Numbers
  <2>2. released \in 0 .. dispatched /\ \A p \in pending : released < p
    BY <1>1, CounterAssumption DEF IInv, TypeOK, PendingBetween, Numbers
  <2>3. released <= Retired
    BY <2>1, <2>2, RetiredIsFrontier DEF Retired
  <2> QED BY <1>1, <2>3 DEF IInv, PendingBetween, ReleaseCatchesUp
<1> QED BY CounterInductive, <1>1, PTL

(***************************************************************************)
(* Whatever a crash keeps, the counter in it covers every row in it.       *)
(***************************************************************************)
THEOREM RecoveredCounterCovers == Spec => []DurableRowsCounted
<1>1. IInv => DurableRowsCounted
  BY DEF IInv, LogCounts
<1> QED BY CounterInductive, <1>1, PTL

(***************************************************************************)
(* A retirement value that is still below everything pending after a step  *)
(* is at most the new one.                                                 *)
(***************************************************************************)
LEMMA FrontierStep ==
    ASSUME IInv, IInv', dispatched <= dispatched',
           \A p \in pending' : p \in pending \/ p > dispatched
    PROVE  Retired' >= Retired
<1>1. dispatched \in Nat /\ pending \subseteq 1 .. dispatched
  BY CounterAssumption DEF IInv, TypeOK, PendingBetween, Numbers
<1>2. dispatched' \in Nat /\ pending' \subseteq 1 .. dispatched'
  BY CounterAssumption DEF IInv, TypeOK, PendingBetween, Numbers
<1> DEFINE old == RetiredOf(dispatched, pending)
           new == RetiredOf(dispatched', pending')
<1>3. old \in 0 .. dispatched /\ \A p \in pending : old < p
  BY <1>1, RetiredIsFrontier
<1>4. /\ new \in 0 .. dispatched'
      /\ \A n \in 0 .. dispatched' : (\A p \in pending' : n < p) => n <= new
  BY <1>2, RetiredIsFrontier
<1> HIDE DEF old, new
<1>5. old \in 0 .. dispatched' /\ \A p \in pending' : old < p
  BY <1>1, <1>2, <1>3
<1>6. old <= new
  BY <1>4, <1>5
<1>7. Retired = old /\ Retired' = new
  BY DEF old, new, Retired
<1> QED BY <1>3, <1>4, <1>6, <1>7

(***************************************************************************)
(* While the process lives, neither the retirement value nor the channel   *)
(* ever goes back.                                                         *)
(***************************************************************************)
THEOREM FrontierNeverRecedes == Spec => FrontierAdvances
<1>1. ASSUME IInv, [Next]_vars, ~ Crash
      PROVE  released' >= released /\ Retired' >= Retired
  <2>1. IInv'
    BY <1>1, NextPreserves
  <2>2. dispatched \in Nat /\ released \in Nat
    BY <1>1 DEF IInv, TypeOK, Numbers
  <2>3. ASSUME NEW w \in Writers, Dispatch(w)
        PROVE  /\ dispatched <= dispatched' /\ released' >= released
               /\ \A p \in pending' : p \in pending \/ p > dispatched
    BY <2>2, <2>3 DEF Dispatch
  <2>4. ASSUME NEW w \in Writers, Retire(w)
        PROVE  /\ dispatched <= dispatched' /\ released' >= released
               /\ \A p \in pending' : p \in pending \/ p > dispatched
    <3>1. permit[w] \in pending /\ permit[w] \in Nat /\ released < permit[w]
      <4>1. permit[w] \in pending
        BY <1>1, <2>4 DEF Retire, IInv, PermitsPending
      <4>2. permit[w] \in Nat
        BY <1>1 DEF IInv, TypeOK, Numbers
      <4> QED BY <1>1, <4>1, <4>2 DEF IInv, PendingBetween
    <3>2. released <= dispatched
      BY <1>1 DEF IInv, PendingBetween
    <3>3. released' \in {dispatched, permit[w], released}
      BY <2>4 DEF Retire, ReleaseValue
    <3>4. released' >= released
      BY <2>2, <3>1, <3>2, <3>3
    <3> QED BY <2>2, <2>4, <3>4 DEF Retire
  <2>6. \/ \E w \in Writers : Dispatch(w) \/ Retire(w)
        \/ UNCHANGED <<dispatched, pending, released>>
    BY <1>1 DEF Next, WriterStep, ReaderStep, WriteRow, FlushWal, WaitPending,
                WaitReturn, CurrentCount, Scan, vars
  <2>7. /\ dispatched <= dispatched' /\ released' >= released
        /\ \A p \in pending' : p \in pending \/ p > dispatched
    BY <2>2, <2>3, <2>4, <2>6
  <2> QED BY <1>1, <2>1, <2>7, FrontierStep
<1>2. IInv /\ [Next]_vars
        => [Crash \/ (released' >= released /\ Retired' >= Retired)]_vars
  BY <1>1
<1> QED BY CounterInductive, <1>2, PTL DEF Spec, FrontierAdvances

-----------------------------------------------------------------------------
(***************************************************************************)
(* What a crash can fall back to is the past: no log state has a row or a  *)
(* count that the newest one lacks.                                        *)
(***************************************************************************)
LogIsHistory ==
    \A k \in 1 .. Len(log) : log[k].rows \subseteq Db.rows /\ log[k].count <= Db.count

LEMMA InitHistory == Init => LogIsHistory
<1> SUFFICES ASSUME Init PROVE LogIsHistory
  OBVIOUS
<1>1. log = << [count |-> 0, rows |-> {}] >> /\ Len(log) = 1
  BY DEF Init
<1> QED BY <1>1 DEF LogIsHistory, Db

(***************************************************************************)
(* A log whose states are old ones or the newest, which extends the newest *)
(* of before, is still a history.                                          *)
(***************************************************************************)
LEMMA HistoryStep ==
    ASSUME IInv, IInv', LogIsHistory,
           \A k \in 1 .. Len(log') : log'[k] = Db' \/ \E j \in 1 .. Len(log) : log'[k] = log[j],
           Db.rows \subseteq Db'.rows, Db.count <= Db'.count
    PROVE  LogIsHistory'
<1> SUFFICES ASSUME NEW k \in 1 .. Len(log')
             PROVE  log'[k].rows \subseteq Db'.rows /\ log'[k].count <= Db'.count
  BY DEF LogIsHistory
<1>1. Db \in DbState /\ \A j \in 1 .. Len(log) : log[j] \in DbState
  BY LastOfLog DEF IInv
<1>2. Db' \in DbState
  <2>1. Len(log') \in Nat \ {0} /\ \A j \in 1 .. Len(log') : log'[j] \in DbState
    <3>1. log' \in Seq(DbState) /\ log' # <<>>
      BY DEF IInv, TypeOK
    <3> HIDE DEF DbState
    <3> QED BY <3>1, EmptySeq, ElementOfSeq
  <2> HIDE DEF DbState
  <2> QED BY <2>1 DEF Db
<1>3. /\ Db.count \in Nat /\ Db'.count \in Nat
      /\ \A j \in 1 .. Len(log) : log[j].count \in Nat
  BY <1>1, <1>2 DEF DbState, Numbers
<1>4. CASE log'[k] = Db'
  BY <1>3, <1>4
<1>5. ASSUME NEW j \in 1 .. Len(log), log'[k] = log[j]
      PROVE  log'[k].rows \subseteq Db'.rows /\ log'[k].count <= Db'.count
  <2>1. log[j].rows \subseteq Db.rows /\ log[j].count <= Db.count
    BY DEF LogIsHistory
  <2> QED BY <1>3, <1>5, <2>1
<1> QED BY <1>4, <1>5

LEMMA DispatchLog ==
    ASSUME IInv, NEW w \in Writers, Dispatch(w)
    PROVE  /\ Db'.rows = Db.rows /\ Db'.count = dispatched + 1
           /\ \A k \in 1 .. Len(log') : log'[k] = Db' \/ \E j \in 1 .. Len(log) : log'[k] = log[j]
<1> DEFINE after == [Db EXCEPT !.count = dispatched + 1]
<1>1. Len(log) \in Nat \ {0} /\ Db \in DbState /\ log \in Seq(DbState)
  BY LastOfLog DEF IInv, TypeOK
<1>2. after \in DbState /\ after.count = dispatched + 1 /\ after.rows = Db.rows
  <2>1. dispatched + 1 \in Numbers
    BY CounterAssumption DEF IInv, TypeOK, Numbers, Dispatch
  <2> QED BY <1>1, <2>1 DEF DbState
<1>3. log' = Append(log, after)
  BY DEF Dispatch
<1>4. /\ Len(log') = Len(log) + 1 /\ log'[Len(log) + 1] = after
      /\ \A k \in 1 .. Len(log) : log'[k] = log[k]
  <2> HIDE DEF after, DbState
  <2> QED BY <1>1, <1>2, <1>3, AppendLog
<1>5. Db' = after
  BY <1>4 DEF Db
<1>6. \A k \in 1 .. Len(log') : k \in 1 .. Len(log) \/ k = Len(log) + 1
  BY <1>1, <1>4
<1> HIDE DEF after
<1> QED BY <1>2, <1>4, <1>5, <1>6

LEMMA WriteRowLog ==
    ASSUME IInv, NEW w \in Writers, WriteRow(w)
    PROVE  /\ Db'.rows = Db.rows \cup {permit[w]} /\ Db'.count = Db.count
           /\ \A k \in 1 .. Len(log') : log'[k] = Db' \/ \E j \in 1 .. Len(log) : log'[k] = log[j]
<1> DEFINE after == [Db EXCEPT !.rows = @ \cup {permit[w]}]
<1>1. Len(log) \in Nat \ {0} /\ Db \in DbState /\ log \in Seq(DbState)
  BY LastOfLog DEF IInv, TypeOK
<1>2. after \in DbState /\ after.count = Db.count /\ after.rows = Db.rows \cup {permit[w]}
  <2>1. permit[w] \in 1 .. MaxCount
    BY DEF IInv, TypeOK, PermitsPending, WriteRow
  <2> QED BY <1>1, <2>1 DEF DbState
<1>3. log' = Append(log, after) \/ log' = <<after>>
  BY DEF WriteRow
<1>4. CASE log' = <<after>>
  <2>1. Len(log') = 1 /\ log'[1] = after
    BY <1>4
  <2>2. Db' = after
    BY <2>1 DEF Db
  <2> HIDE DEF after
  <2> QED BY <1>2, <2>1, <2>2
<1>5. CASE log' = Append(log, after)
  <2>4. /\ Len(log') = Len(log) + 1 /\ log'[Len(log) + 1] = after
        /\ \A k \in 1 .. Len(log) : log'[k] = log[k]
    <3> HIDE DEF after, DbState
    <3> QED BY <1>1, <1>2, <1>5, AppendLog
  <2>5. Db' = after
    BY <2>4 DEF Db
  <2>6. \A k \in 1 .. Len(log') : k \in 1 .. Len(log) \/ k = Len(log) + 1
    BY <1>1, <2>4
  <2> HIDE DEF after
  <2> QED BY <1>2, <2>4, <2>5, <2>6
<1> QED BY <1>3, <1>4, <1>5

LEMMA FlushLog ==
    ASSUME IInv, FlushWal
    PROVE  /\ Db' = Db
           /\ \A k \in 1 .. Len(log') : \E j \in 1 .. Len(log) : log'[k] = log[j]
<1>1. /\ Len(log) \in Nat \ {0}
      /\ \A k \in 1 .. Len(log) : log[k] \in DbState
  BY LastOfLog DEF IInv
<1>2. PICK k \in 2 .. Len(log) : log' = SubSeq(log, k, Len(log))
  BY DEF FlushWal
<1>3. /\ Len(log') = Len(log) - k + 1
      /\ \A i \in 1 .. Len(log) - k + 1 : log'[i] = log[k + i - 1]
  <2>1. k \in Int /\ Len(log) \in Int /\ k <= Len(log)
    BY <1>1
  <2>2. \A i \in k .. Len(log) : log[i] \in DbState
    BY <1>1
  <2> HIDE DEF DbState
  <2> QED BY <1>2, <2>1, <2>2, SubSeqProperties
<1>4. Db' = Db
  <2>1. Len(log') \in 1 .. Len(log) - k + 1 /\ k + Len(log') - 1 = Len(log)
    BY <1>1, <1>3
  <2>2. log'[Len(log')] = log[k + Len(log') - 1]
    BY <1>3, <2>1
  <2> QED BY <2>1, <2>2 DEF Db
<1>5. \A i \in 1 .. Len(log') : \E j \in 1 .. Len(log) : log'[i] = log[j]
  BY <1>1, <1>3
<1> QED BY <1>4, <1>5

LEMMA CrashLog ==
    ASSUME IInv, LogIsHistory, Crash
    PROVE  /\ dispatched' = Db'.count /\ dispatched' \in 0 .. dispatched
           /\ Db'.rows \subseteq {n \in Db.rows : n <= dispatched'}
           /\ \A k \in 1 .. Len(log') : log'[k] = Db'
<1>1. PICK k \in 1 .. Len(log) : log' = << log[k] >> /\ dispatched' = log[k].count
  BY DEF Crash
<1>2. log[k] \in DbState /\ \A n \in log[k].rows : n <= log[k].count
  BY LastOfLog DEF IInv, LogCounts, DurableRowsCounted
<1>3. Db' = log[k] /\ Len(log') = 1 /\ log'[1] = log[k]
  BY <1>1 DEF Db
<1>4. log[k].rows \subseteq Db.rows /\ log[k].count <= dispatched
  BY DEF LogIsHistory, IInv, LogCounts
<1>5. dispatched' \in 0 .. dispatched
  BY <1>1, <1>2, <1>4 DEF DbState, Numbers, IInv, TypeOK
<1> QED BY <1>1, <1>2, <1>3, <1>4, <1>5

LEMMA HistoryPreserved ==
    ASSUME IInv, LogIsHistory, [Next]_vars
    PROVE  LogIsHistory'
<1>0. IInv'
  BY NextPreserves
<1>1. Db \in DbState /\ Db.count \in Nat /\ Db.count = dispatched
  BY LastOfLog DEF IInv, LogCounts, DbState, Numbers
<1>2. ASSUME NEW w \in Writers, Dispatch(w)
      PROVE  LogIsHistory'
  BY <1>0, <1>1, <1>2, DispatchLog, HistoryStep
<1>3. ASSUME NEW w \in Writers, WriteRow(w)
      PROVE  LogIsHistory'
  BY <1>0, <1>1, <1>3, WriteRowLog, HistoryStep
<1>4. CASE FlushWal
  BY <1>0, <1>1, <1>4, FlushLog, HistoryStep
<1>5. CASE Crash
  <2>1. Db'.count \in Nat
    BY <1>5, CrashLog DEF IInv, TypeOK, Numbers
  <2> QED BY <1>5, <2>1, CrashLog DEF LogIsHistory
<1>6. CASE UNCHANGED log
  BY <1>6 DEF LogIsHistory, Db
<1>7. \/ \E w \in Writers : Dispatch(w) \/ WriteRow(w)
      \/ FlushWal \/ Crash \/ UNCHANGED log
  BY DEF Next, WriterStep, ReaderStep, Retire, WaitPending, WaitReturn, CurrentCount, Scan, vars
<1> QED BY <1>2, <1>3, <1>4, <1>5, <1>6, <1>7

(***************************************************************************)
(* Every step of the counter is a step of VisibleLog or leaves its four    *)
(* variables alone.                                                        *)
(***************************************************************************)
LEMMA StepImplements ==
    ASSUME IInv, LogIsHistory, [Next]_vars
    PROVE  [Log!LogNext]_(Log!logVars)
<1> USE DEF Log!logVars
<1>1. ASSUME NEW w \in Writers, Dispatch(w)
      PROVE  Log!DrawNumber(w)
  BY <1>1, DispatchLog DEF Dispatch, Log!DrawNumber, Log!None, None
<1>2. ASSUME NEW w \in Writers, WriteRow(w)
      PROVE  Log!PutRow(w)
  BY <1>2, WriteRowLog DEF WriteRow, Log!PutRow, Log!None, None
<1>3. ASSUME NEW w \in Writers, Retire(w)
      PROVE  Log!LetGo(w)
  BY <1>3 DEF Retire, Log!LetGo, Log!None, None, Db
<1>4. ASSUME NEW r \in Readers, WaitPending(r)
      PROVE  Log!AskVisible(r)
  BY <1>4 DEF WaitPending, Log!AskVisible, Db
<1>5. ASSUME NEW r \in Readers, WaitReturn(r)
      PROVE  Log!TellVisible(r)
  <2>1. released \in Log!Visible
    BY DEF Log!Visible, Log!None, None, IInv, TypeOK, Numbers, PendingBetween, PermitsPending
  <2>2. released >= reader[r].snapshot
    BY <1>5 DEF WaitReturn
  <2> QED BY <1>5, <2>1, <2>2 DEF WaitReturn, Log!TellVisible, Db
<1>6. ASSUME NEW r \in Readers, CurrentCount(r)
      PROVE  Log!PeekVisible(r)
  <2>1. dispatched \in Nat /\ pending \subseteq 1 .. dispatched
    BY CounterAssumption DEF IInv, TypeOK, PendingBetween, Numbers
  <2>2. Retired \in 0 .. dispatched /\ \A p \in pending : Retired < p
    BY <2>1, RetiredIsFrontier DEF Retired
  <2>3. Retired \in Log!Visible
    BY <2>2 DEF Log!Visible, Log!None, None, IInv, PermitsPending
  <2> QED BY <1>6, <2>3 DEF CurrentCount, Log!PeekVisible, Db
<1>7. ASSUME NEW r \in Readers, Scan(r)
      PROVE  Log!ReadRows(r)
  BY <1>7 DEF Scan, Log!ReadRows, Db
<1>8. CASE Crash
  <2>1. /\ dispatched' \in 0 .. dispatched
        /\ Db'.rows \in SUBSET {n \in Db.rows : n <= dispatched'}
    BY <1>8, CrashLog
  <2>2. Log!Restart
    BY <1>8, <2>1 DEF Crash, Log!Restart, Log!None, None, Log!IdleReader, IdleReader
  <2> QED BY <2>2 DEF Log!LogNext
<1>9. CASE FlushWal
  <2>1. Db' = Db
    BY <1>9, FlushLog
  <2> QED BY <1>9, <2>1 DEF FlushWal
<1>10. CASE UNCHANGED vars
  BY <1>10 DEF vars, Db
<1>11. ASSUME NEW w \in Writers, WriterStep(w)
       PROVE  Log!LogNext
  BY <1>1, <1>2, <1>3, <1>11 DEF WriterStep, Log!LogNext
<1>12. ASSUME NEW r \in Readers, ReaderStep(r)
       PROVE  Log!LogNext
  BY <1>4, <1>5, <1>6, <1>7, <1>12 DEF ReaderStep, Log!LogNext
<1> QED BY <1>8, <1>9, <1>10, <1>11, <1>12 DEF Next

(***************************************************************************)
(* The two-phase counter implements the visible log: what a long poll is   *)
(* built on is what the counter, its channel and its log buffer give.      *)
(***************************************************************************)
THEOREM CounterImplementsLog == Spec => ImplementsLog
<1>1. Init => Log!LogInit
  <2> SUFFICES ASSUME Init PROVE Log!LogInit
    OBVIOUS
  <2>1. Db.rows = {}
    BY DEF Init, Db
  <2> QED BY <2>1 DEF Init, Log!LogInit, Log!None, None, Log!IdleReader, IdleReader
<1>2. LogIsHistory /\ IInv /\ [Next]_vars => LogIsHistory'
  BY HistoryPreserved
<1>3. LogIsHistory /\ IInv /\ [Next]_vars => [Log!LogNext]_(Log!logVars)
  BY StepImplements
<1> QED BY CounterInductive, InitHistory, <1>1, <1>2, <1>3, PTL
       DEF Spec, ImplementsLog, Log!LogSpec
=============================================================================
