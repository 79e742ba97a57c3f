-------------------------- MODULE EventStoreProofs --------------------------
(***************************************************************************)
(* Proofs about EventStore, for any set of requests and of keys.  The      *)
(* argument: the row lock serializes the transactions of one aggregate     *)
(* between their SELECT ... FOR UPDATE and their end (LockDiscipline), so  *)
(* the number read there is still the next one at COMMIT (FreshNumber),    *)
(* so committed numbers grow without holes (Gapless).                      *)
(***************************************************************************)
EXTENDS EventStore, Sequences, TLAPS

-----------------------------------------------------------------------------
(* Sequence numbers *)

\* The greatest of 1..n is n: what findFirst ordered by sequence number
\* descending returns on a gapless aggregate, 0 when it is empty.
LEMMA GreatestOfRange ==
  ASSUME NEW n \in Nat
  PROVE  Greatest(1..n) = n
<1> DEFINE P(x) == x \in 1..n \cup {0} /\ \A m \in 1..n : m <= x
<1>1. P(n)
  OBVIOUS
<1>2. \A x : P(x) => x = n
  <2> SUFFICES ASSUME NEW x, P(x) PROVE x = n
    OBVIOUS
  <2>1. x \in 0..n
    OBVIOUS
  <2>2. CASE n = 0
    BY <2>1, <2>2
  <2>3. CASE n # 0
    <3>1. n \in 1..n
      BY <2>3
    <3>2. n <= x
      BY <3>1
    <3> QED BY <2>1, <3>2
  <2> QED BY <2>2, <2>3
<1>3. Greatest(1..n) = CHOOSE x : P(x)
  BY DEF Greatest
<1> HIDE DEF P
<1>4. P(CHOOSE x : P(x))
  BY <1>1
<1> QED BY <1>2, <1>3, <1>4

\* On a gapless aggregate the next sequence number is one past the last, and
\* is not taken.
LEMMA NextSeqFresh ==
  ASSUME NEW k \in Keys, Gapless
  PROVE  \E n \in Nat : /\ SeqsOf(k) = 1..n
                        /\ NextSeq(k) = n + 1
<1>1. PICK n \in {0} \cup SeqsOf(k) : SeqsOf(k) = 1..n
  BY DEF Gapless
<1>2. n \in Nat
  BY <1>1
<1>3. NextSeq(k) = n + 1
  BY <1>1, <1>2, GreatestOfRange DEF NextSeq, LastSeq
<1> QED BY <1>1, <1>2, <1>3

-----------------------------------------------------------------------------
(* Type correctness *)

\* Initially every variable has its type.
LEMMA TypeInit == Init => TypeOK
BY DEF Init, TypeOK, InTransaction, Finished, EventRow

\* Every step preserves the types; NextSequenceNumber needs Gapless, since the
\* greatest number of an arbitrary set need not exist.
LEMMA TypeStep ==
  ASSUME TypeOK, Gapless, FreshNumber, [Next]_vars
  PROVE  TypeOK'
<1> USE DEF TypeOK, InTransaction, Finished, Goto
<1>1. ASSUME NEW r \in Requests, Begin(r) PROVE TypeOK'
  BY <1>1 DEF Begin
<1>2. ASSUME NEW r \in Requests, InsertAggregate(r) PROVE TypeOK'
  BY <1>2 DEF InsertAggregate
<1>3. ASSUME NEW r \in Requests, SelectForUpdate(r) PROVE TypeOK'
  BY <1>3 DEF SelectForUpdate
<1>4. ASSUME NEW r \in Requests, NextSequenceNumber(r) PROVE TypeOK'
  <2>1. NextSeq(key[r]) \in Nat
    <3>1. key[r] \in Keys
      OBVIOUS
    <3> QED BY <3>1, NextSeqFresh
  <2> QED BY <1>4, <2>1 DEF NextSequenceNumber
<1>5. ASSUME NEW r \in Requests, CreateEvent(r) PROVE TypeOK'
  BY <1>5 DEF CreateEvent
<1>6. ASSUME NEW r \in Requests, pc[r] = "commit", CommitRows(r),
             key' = key, seqNo' = seqNo,
             Goto(r, "done") \/ Goto(r, "failed")
      PROVE  TypeOK'
  <2>1. [aggregate |-> key[r], sequenceNumber |-> seqNo[r], request |-> r]
          \in EventRow
    BY <1>6 DEF FreshNumber, EventRow
  <2> QED BY <1>6, <2>1 DEF CommitRows, Release
<1>7. ASSUME NEW r \in Requests, Rollback(r) PROVE TypeOK'
  BY <1>7 DEF Rollback, Release
<1>8. ASSUME UNCHANGED vars PROVE TypeOK'
  BY <1>8 DEF vars
<1> QED
  BY <1>1, <1>2, <1>3, <1>4, <1>5, <1>6, <1>7, <1>8
  DEF Next, Step, Terminating, Commit, CommitUnacknowledged

-----------------------------------------------------------------------------
(* The inductive invariant *)

\* A commit or a lost acknowledgement, seen from the invariant: the rows of the
\* transaction are published and it ends.
Publishes(r) ==
  /\ pc[r] = "commit"
  /\ CommitRows(r)
  /\ Goto(r, "done") \/ Goto(r, "failed")
  /\ UNCHANGED <<key, seqNo>>

\* The initial state satisfies the invariant: no event, no row, no lock.
LEMMA InvariantInit == Init => IInv
<1> SUFFICES ASSUME Init PROVE IInv
  OBVIOUS
<1> USE DEF Init
<1>1. TypeOK
  BY TypeInit
<1>2. Gapless
  <2>1. \A k \in Keys : SeqsOf(k) = {}
    BY DEF SeqsOf
  <2>2. 1..0 = {}
    OBVIOUS
  <2> QED BY <2>1, <2>2 DEF Gapless
<1>3. NeverRaises /\ AggregateHasEvents /\ FreshNumber
  BY DEF NeverRaises, AggregateHasEvents, FreshNumber
<1>4. LockDiscipline /\ RowDiscipline
  BY DEF LockDiscipline, RowDiscipline, HoldsLock
<1> QED BY <1>1, <1>2, <1>3, <1>4 DEF IInv

\* Only a publishing step changes the stored events of any aggregate; it adds
\* one event, with the next number, to the aggregate of its transaction.
LEMMA PublishAddsNext ==
  ASSUME IInv, NEW r \in Requests, Publishes(r)
  PROVE  /\ SeqsOf(key[r]) = 1..(seqNo[r] - 1)
         /\ SeqsOf(key[r])' = 1..seqNo[r]
         /\ seqNo[r] \in Nat \ {0}
         /\ \A k \in Keys \ {key[r]} : SeqsOf(k)' = SeqsOf(k)
<1> DEFINE row == [aggregate |-> key[r], sequenceNumber |-> seqNo[r],
                   request |-> r]
<1>1. events' = events \cup {row}
  BY DEF Publishes, CommitRows
<1>2. /\ SeqsOf(key[r]) = 1..(seqNo[r] - 1)
      /\ seqNo[r] \in Nat \ {0}
  BY DEF Publishes, IInv, FreshNumber, TypeOK
<1>3. key' = key
  BY DEF Publishes
<1>4. SeqsOf(key[r])' = SeqsOf(key[r]) \cup {seqNo[r]}
  <2>1. row.aggregate = key[r] /\ row.sequenceNumber = seqNo[r]
    OBVIOUS
  <2> HIDE DEF row
  <2>2. {f \in events' : f.aggregate = key[r]}
          = {f \in events : f.aggregate = key[r]} \cup {row}
    BY <1>1, <2>1
  <2> QED BY <1>3, <2>1, <2>2 DEF SeqsOf
<1>5. \A k \in Keys \ {key[r]} : SeqsOf(k)' = SeqsOf(k)
  BY <1>1 DEF SeqsOf
<1>6. 1..seqNo[r] = 1..(seqNo[r] - 1) \cup {seqNo[r]}
  BY <1>2
<1> QED BY <1>2, <1>4, <1>5, <1>6

\* Committed numbers stay 1..n with one event each.
LEMMA GaplessPublish ==
  ASSUME IInv, NEW r \in Requests, Publishes(r)
  PROVE  Gapless'
<1>1. ASSUME NEW k \in Keys
      PROVE  \E n \in {0} \cup SeqsOf(k)' : SeqsOf(k)' = 1..n
  <2>1. CASE k = key[r]
    <3>1. SeqsOf(k)' = 1..seqNo[r] /\ seqNo[r] \in Nat \ {0}
      <4>1. key' = key
        BY DEF Publishes
      <4> QED BY <2>1, <4>1, PublishAddsNext DEF SeqsOf
    <3> QED BY <3>1
  <2>2. CASE k # key[r]
    BY <2>2, PublishAddsNext DEF IInv, Gapless
  <2> QED BY <2>1, <2>2
<1>2. ASSUME NEW e \in events', NEW f \in events',
             e.aggregate = f.aggregate, e.sequenceNumber = f.sequenceNumber
      PROVE  e = f
  <2> DEFINE row == [aggregate |-> key[r], sequenceNumber |-> seqNo[r],
                     request |-> r]
  <2>1. events' = events \cup {row}
    BY DEF Publishes, CommitRows
  <2>2. \A g \in events : g.aggregate = key[r] => g.sequenceNumber # seqNo[r]
    <3>1. seqNo[r] \notin SeqsOf(key[r])
      BY PublishAddsNext
    <3> QED BY <3>1 DEF SeqsOf
  <2>3. CASE e \in events /\ f \in events
    BY <1>2, <2>3 DEF IInv, Gapless
  <2>4. CASE e = row \/ f = row
    BY <1>2, <2>1, <2>2, <2>4
  <2> QED BY <2>1, <2>3, <2>4
<1> QED BY <1>1, <1>2 DEF Gapless

\* Steps that leave the events alone leave them gapless.
LEMMA GaplessFrame ==
  ASSUME Gapless, UNCHANGED events
  PROVE  Gapless'
BY DEF Gapless, SeqsOf

\* The lock passes from a finished transaction to at most one waiting one.
LEMMA LockStep ==
  ASSUME IInv, [Next]_vars
  PROVE  LockDiscipline'
<1> USE NoneAssumption DEF LockDiscipline, HoldsLock, Goto, IInv, TypeOK,
        InTransaction, Finished
<1>1. ASSUME NEW r \in Requests, Begin(r) PROVE LockDiscipline'
  BY <1>1 DEF Begin
<1>2. ASSUME NEW r \in Requests, InsertAggregate(r) PROVE LockDiscipline'
  BY <1>2 DEF InsertAggregate
<1>3. ASSUME NEW r \in Requests, SelectForUpdate(r) PROVE LockDiscipline'
  <2>1. RowVisible(r)
    BY <1>3 DEF SelectForUpdate, RowDiscipline
  <2> QED BY <1>3, <2>1 DEF SelectForUpdate, LockAvailable
<1>4. ASSUME NEW r \in Requests, NextSequenceNumber(r) PROVE LockDiscipline'
  BY <1>4 DEF NextSequenceNumber
<1>5. ASSUME NEW r \in Requests, CreateEvent(r) PROVE LockDiscipline'
  <2>1. seqNo[r] \notin SeqsOf(key[r])
    BY <1>5 DEF CreateEvent, FreshNumber
  <2> QED BY <1>5, <2>1 DEF CreateEvent
<1>6. ASSUME NEW r \in Requests, Publishes(r) PROVE LockDiscipline'
  BY <1>6 DEF Publishes, CommitRows, Release
<1>7. ASSUME NEW r \in Requests, Rollback(r) PROVE LockDiscipline'
  BY <1>7 DEF Rollback, Release
<1>8. ASSUME UNCHANGED vars PROVE LockDiscipline'
  BY <1>8 DEF vars
<1> QED
  BY <1>1, <1>2, <1>3, <1>4, <1>5, <1>6, <1>7, <1>8
  DEF Next, Step, Terminating, Commit, CommitUnacknowledged, Publishes

\* A transaction keeps seeing the row it inserted or found: rows are committed
\* or discarded only with the transaction that wrote them.
LEMMA RowStep ==
  ASSUME IInv, [Next]_vars
  PROVE  RowDiscipline'
<1> USE NoneAssumption DEF RowDiscipline, RowVisible, HoldsLock, Goto, IInv,
        TypeOK, InTransaction, Finished
<1>1. ASSUME NEW r \in Requests, Begin(r) PROVE RowDiscipline'
  BY <1>1 DEF Begin
<1>2. ASSUME NEW r \in Requests, InsertAggregate(r) PROVE RowDiscipline'
  BY <1>2 DEF InsertAggregate
<1>3. ASSUME NEW r \in Requests, SelectForUpdate(r) PROVE RowDiscipline'
  BY <1>3 DEF SelectForUpdate
<1>4. ASSUME NEW r \in Requests, NextSequenceNumber(r) PROVE RowDiscipline'
  BY <1>4 DEF NextSequenceNumber
<1>5. ASSUME NEW r \in Requests, CreateEvent(r) PROVE RowDiscipline'
  <2>1. seqNo[r] \notin SeqsOf(key[r])
    BY <1>5 DEF CreateEvent, FreshNumber
  <2> QED BY <1>5, <2>1 DEF CreateEvent
<1>6. ASSUME NEW r \in Requests, Publishes(r) PROVE RowDiscipline'
  BY <1>6 DEF Publishes, CommitRows, Release
<1>7. ASSUME NEW r \in Requests, Rollback(r) PROVE RowDiscipline'
  BY <1>7 DEF Rollback, Release
<1>8. ASSUME UNCHANGED vars PROVE RowDiscipline'
  BY <1>8 DEF vars
<1> QED
  BY <1>1, <1>2, <1>3, <1>4, <1>5, <1>6, <1>7, <1>8
  DEF Next, Step, Terminating, Commit, CommitUnacknowledged, Publishes

\* Between SELECT ... FOR UPDATE and its end a transaction is alone on its
\* aggregate: no other can hold the lock of the same key.
LEMMA AloneOnAggregate ==
  ASSUME IInv, NEW r \in Requests, NEW q \in Requests, r # q,
         pc[r] \in HoldsLock, pc[q] \in HoldsLock
  PROVE  key[r] # key[q]
BY DEF IInv, LockDiscipline

\* The number read is still the next one: only the transaction itself could
\* publish on its aggregate.
LEMMA FreshStep ==
  ASSUME IInv, [Next]_vars
  PROVE  FreshNumber'
<1> USE DEF FreshNumber, Goto, IInv, TypeOK
<1>1. ASSUME NEW r \in Requests, UNCHANGED <<key, seqNo, events>>,
             \E l : Goto(r, l) /\ (l \notin {"createEvent", "commit"}
                                   \/ pc[r] \in {"createEvent", "commit"})
      PROVE  FreshNumber'
  BY <1>1 DEF SeqsOf
<1>2. ASSUME NEW r \in Requests, NextSequenceNumber(r) PROVE FreshNumber'
  <2>1. PICK n \in Nat : SeqsOf(key[r]) = 1..n /\ NextSeq(key[r]) = n + 1
    <3>1. key[r] \in Keys
      OBVIOUS
    <3> QED BY <3>1, NextSeqFresh
  <2>2. seqNo'[r] > 0 /\ SeqsOf(key[r]) = 1..(seqNo'[r] - 1)
    BY <1>2, <2>1 DEF NextSequenceNumber
  <2>3. \A q \in Requests \ {r} : seqNo'[q] = seqNo[q] /\ pc'[q] = pc[q]
    BY <1>2 DEF NextSequenceNumber
  <2>4. UNCHANGED <<key, events>>
    BY <1>2 DEF NextSequenceNumber
  <2> QED BY <2>2, <2>3, <2>4 DEF SeqsOf
<1>3. ASSUME NEW r \in Requests, Publishes(r) PROVE FreshNumber'
  <2> SUFFICES ASSUME NEW q \in Requests, pc'[q] \in {"createEvent", "commit"}
               PROVE  (seqNo[q] > 0 /\ SeqsOf(key[q]) = 1..(seqNo[q] - 1))'
    BY DEF FreshNumber
  <2>1. q # r /\ pc[q] \in {"createEvent", "commit"}
    BY <1>3 DEF Publishes
  <2>2. key[q] \in Keys \ {key[r]}
    BY <1>3, <2>1, AloneOnAggregate DEF Publishes, HoldsLock
  <2>3. SeqsOf(key[q])' = SeqsOf(key[q])
    <3>1. PICK k \in Keys \ {key[r]} : k = key[q] /\ k = key'[q]
      BY <1>3, <2>2 DEF Publishes
    <3>2. SeqsOf(k)' = SeqsOf(k)
      BY <1>3, PublishAddsNext
    <3> QED BY <3>1, <3>2 DEF SeqsOf
  <2>4. seqNo' = seqNo
    BY <1>3 DEF Publishes
  <2> QED BY <2>1, <2>3, <2>4
<1>4. ASSUME UNCHANGED vars PROVE FreshNumber'
  BY <1>4 DEF vars, SeqsOf
<1> QED
  BY <1>1, <1>2, <1>3, <1>4
  DEF Next, Step, Terminating, Begin, InsertAggregate, SelectForUpdate,
      CreateEvent, Commit, CommitUnacknowledged, Rollback, Publishes

\* No statement raises: the row is visible to FOR UPDATE, and the number is
\* free at the INSERT.
LEMMA NeverRaisesStep ==
  ASSUME IInv, [Next]_vars
  PROVE  NeverRaises'
<1> USE DEF NeverRaises, Goto, IInv, TypeOK
<1>1. ASSUME NEW r \in Requests, SelectForUpdate(r) PROVE NeverRaises'
  <2>1. RowVisible(r)
    BY <1>1 DEF SelectForUpdate, RowDiscipline
  <2> QED BY <1>1, <2>1 DEF SelectForUpdate
<1>2. ASSUME NEW r \in Requests, CreateEvent(r) PROVE NeverRaises'
  <2>1. seqNo[r] \notin SeqsOf(key[r])
    BY <1>2 DEF CreateEvent, FreshNumber
  <2> QED BY <1>2, <2>1 DEF CreateEvent
<1>3. ASSUME NEW r \in Requests,
             \E l : Goto(r, l) /\ l # "raised"
      PROVE  NeverRaises'
  BY <1>3
<1>4. ASSUME UNCHANGED vars PROVE NeverRaises'
  BY <1>4 DEF vars
<1> QED
  BY <1>1, <1>2, <1>3, <1>4
  DEF Next, Step, Terminating, Begin, InsertAggregate, NextSequenceNumber,
      Commit, CommitUnacknowledged, Rollback

\* The row of a new aggregate is committed by the step that commits its event.
LEMMA AggregateHasEventsStep ==
  ASSUME IInv, [Next]_vars
  PROVE  AggregateHasEvents'
<1> USE DEF AggregateHasEvents
<1>1. ASSUME NEW r \in Requests, Publishes(r) PROVE AggregateHasEvents'
  <2> DEFINE row == [aggregate |-> key[r], sequenceNumber |-> seqNo[r],
                     request |-> r]
  <2>1. /\ aggregates' = aggregates \cup {k \in Keys : rowOwner[k] = r}
        /\ events' = events \cup {row}
    BY <1>1 DEF Publishes, CommitRows
  <2>2. {k \in Keys : rowOwner[k] = r} \subseteq {key[r]}
    BY NoneAssumption DEF IInv, RowDiscipline
  <2>3. key[r] \in aggregates \cup {k \in Keys : rowOwner[k] = r}
    BY <1>1 DEF Publishes, IInv, TypeOK, RowDiscipline, RowVisible, HoldsLock
  <2>4. {e.aggregate : e \in events \cup {row}}
          = {e.aggregate : e \in events} \cup {key[r]}
    <3>1. row.aggregate = key[r]
      OBVIOUS
    <3> HIDE DEF row
    <3> QED BY <3>1
  <2>5. aggregates = {e.aggregate : e \in events}
    BY DEF IInv
  <2> QED BY <2>1, <2>2, <2>3, <2>4, <2>5
<1>2. ASSUME UNCHANGED <<aggregates, events>> PROVE AggregateHasEvents'
  BY <1>2 DEF IInv
<1> QED
  BY <1>1, <1>2
  DEF Next, Step, Terminating, Begin, InsertAggregate, SelectForUpdate,
      NextSequenceNumber, CreateEvent, Commit, CommitUnacknowledged, Rollback,
      Publishes, vars

\* Committed sequence numbers stay gapless.
LEMMA GaplessStep ==
  ASSUME IInv, [Next]_vars
  PROVE  Gapless'
<1>1. ASSUME NEW r \in Requests, Publishes(r) PROVE Gapless'
  BY <1>1, GaplessPublish
<1>2. ASSUME UNCHANGED events PROVE Gapless'
  BY <1>2, GaplessFrame DEF IInv
<1> QED
  BY <1>1, <1>2
  DEF Next, Step, Terminating, Begin, InsertAggregate, SelectForUpdate,
      NextSequenceNumber, CreateEvent, Commit, CommitUnacknowledged, Rollback,
      Publishes, vars

\* The invariant is inductive.
THEOREM Inductive == Spec => []IInv
<1>1. Init => IInv
  BY InvariantInit
<1>2. IInv /\ [Next]_vars => IInv'
  <2> SUFFICES ASSUME IInv, [Next]_vars PROVE IInv'
    OBVIOUS
  <2>1. TypeOK'
    BY TypeStep DEF IInv
  <2> QED
    BY <2>1, GaplessStep, NeverRaisesStep, AggregateHasEventsStep, LockStep,
       RowStep, FreshStep DEF IInv
<1> QED BY <1>1, <1>2, PTL DEF Spec

-----------------------------------------------------------------------------
(* The properties *)

\* Every reachable state is well typed.
THEOREM TypeCorrect == Spec => []TypeOK
<1>1. IInv => TypeOK
  BY DEF IInv
<1> QED BY <1>1, Inductive, PTL

\* Sequence numbers of every aggregate are gapless and unique, for any number
\* of concurrent appends.
THEOREM SequenceNumbersGapless == Spec => []Gapless
<1>1. IInv => Gapless
  BY DEF IInv
<1> QED BY <1>1, Inductive, PTL

\* No append fails because of another: no missing row, no unique violation.
THEOREM AppendsNeverRaise == Spec => []NeverRaises
<1>1. IInv => NeverRaises
  BY DEF IInv
<1> QED BY <1>1, Inductive, PTL

\* The aggregates with a row are exactly those with an event.
THEOREM AggregatesHaveEvents == Spec => []AggregateHasEvents
<1>1. IInv => AggregateHasEvents
  BY DEF IInv
<1> QED BY <1>1, Inductive, PTL

-----------------------------------------------------------------------------
(* The refinement of AppendOnlyLog *)

\* On a gapless aggregate a number up to the last has one row, and RequestAt
\* answers its request.
LEMMA RequestAtRow ==
  ASSUME NEW rows, NEW k, NEW n, NEW e \in rows,
         e.aggregate = k, e.sequenceNumber = n,
         \A f \in rows : f.aggregate = k /\ f.sequenceNumber = n => f = e
  PROVE  RequestAt(rows, k, n) = e.request
<1> DEFINE P(x) == x \in rows /\ x.aggregate = k /\ x.sequenceNumber = n
<1>1. P(e)
  OBVIOUS
<1>2. \A x : P(x) => x = e
  OBVIOUS
<1>3. RequestAt(rows, k, n) = (CHOOSE x : P(x)).request
  BY DEF RequestAt
<1> HIDE DEF P
<1>4. P(CHOOSE x : P(x))
  BY <1>1
<1> QED BY <1>2, <1>3, <1>4

\* The abstract log after a publishing step: the request at the end of the log
\* of its key, nothing else.
LEMMA PublishAppends ==
  ASSUME IInv, NEW r \in Requests, Publishes(r), NEW k \in Keys
  PROVE  /\ k # key[r] => StoredRequests(k)' = StoredRequests(k)
         /\ k = key[r] => /\ StoredRequests(k)' = Append(StoredRequests(k), r)
                          /\ Len(StoredRequests(k)) + 1 = seqNo[r]
<1> DEFINE row == [aggregate |-> key[r], sequenceNumber |-> seqNo[r],
                   request |-> r]
<1>1. /\ events' = events \cup {row}
      /\ key' = key
      /\ row.aggregate = key[r]
      /\ row.sequenceNumber = seqNo[r]
      /\ row.request = r
  BY DEF Publishes, CommitRows
<1> HIDE DEF row
<1>2. PICK n \in Nat : SeqsOf(k) = 1..n
  BY NextSeqFresh DEF IInv
<1>3. LastSeq(k) = n
  BY <1>2, GreatestOfRange DEF LastSeq
<1>4. ASSUME NEW i \in 1..n, \A f \in events : f.aggregate = k => f.sequenceNumber # i
      PROVE  FALSE
  BY <1>2, <1>4 DEF SeqsOf
<1>5. ASSUME NEW i \in 1..n, k # key[r] \/ i # seqNo[r]
      PROVE  RequestAt(events', k, i) = RequestAt(events, k, i)
  <2>1. PICK e \in events : e.aggregate = k /\ e.sequenceNumber = i
    BY <1>4
  <2>2. \A f \in events : f.aggregate = k /\ f.sequenceNumber = i => f = e
    BY <2>1 DEF IInv, Gapless
  <2>3. \A f \in events' : f.aggregate = k /\ f.sequenceNumber = i => f = e
    BY <1>1, <1>5, <2>2
  <2>4. RequestAt(events, k, i) = e.request
    BY <2>1, <2>2, RequestAtRow
  <2>5. RequestAt(events', k, i) = e.request
    <3>1. e \in events'
      BY <1>1
    <3> QED BY <2>1, <2>3, <3>1, RequestAtRow
  <2> QED BY <2>4, <2>5
<1>6. CASE k # key[r]
  <2>1. SeqsOf(k)' = SeqsOf(k)
    BY <1>6, PublishAddsNext
  <2>2. LastSeq(k)' = n
    <3>1. SeqsOf(k)' = 1..n
      BY <1>2, <2>1
    <3> QED BY <3>1, GreatestOfRange DEF LastSeq
  <2>3. StoredRequests(k)' = [i \in 1..n |-> RequestAt(events', k, i)]
    BY <2>2 DEF StoredRequests
  <2>4. StoredRequests(k) = [i \in 1..n |-> RequestAt(events, k, i)]
    BY <1>3 DEF StoredRequests
  <2>5. \A i \in 1..n : RequestAt(events', k, i) = RequestAt(events, k, i)
    BY <1>5, <1>6
  <2>6. StoredRequests(k)' = StoredRequests(k)
    BY <2>3, <2>4, <2>5
  <2> QED BY <1>6, <2>6
<1>7. CASE k = key[r]
  <2>1. seqNo[r] = n + 1
    <3>1. 1..n = 1..(seqNo[r] - 1) /\ seqNo[r] \in Nat \ {0}
      BY <1>2, <1>7, PublishAddsNext
    <3>2. n = seqNo[r] - 1
      BY <3>1
    <3> QED BY <3>1, <3>2
  <2>2. LastSeq(k)' = n + 1
    <3>1. SeqsOf(k)' = 1..(n + 1)
      <4>1. SeqsOf(key[r])' = 1..seqNo[r]
        BY PublishAddsNext
      <4> QED BY <1>1, <1>7, <2>1, <4>1 DEF SeqsOf
    <3> QED BY <3>1, GreatestOfRange DEF LastSeq
  <2>3. StoredRequests(k)' = [i \in 1..(n + 1) |-> RequestAt(events', k, i)]
    BY <2>2 DEF StoredRequests
  <2>4. StoredRequests(k) = [i \in 1..n |-> RequestAt(events, k, i)]
    BY <1>3 DEF StoredRequests
  <2>5. \A i \in 1..n : RequestAt(events', k, i) = RequestAt(events, k, i)
    BY <1>5, <2>1
  <2>6. RequestAt(events', k, n + 1) = r
    <3>1. row \in events'
      BY <1>1
    <3>2. \A f \in events : f.aggregate = k => f.sequenceNumber # n + 1
      <4>1. n + 1 \notin SeqsOf(k)
        BY <1>2
      <4> QED BY <4>1 DEF SeqsOf
    <3>3. \A f \in events' :
            f.aggregate = k /\ f.sequenceNumber = n + 1 => f = row
      BY <1>1, <3>2
    <3>4. RequestAt(events', k, n + 1) = row.request
      <4>1. row.aggregate = k /\ row.sequenceNumber = n + 1
        BY <1>1, <1>7, <2>1
      <4> QED BY <3>1, <3>3, <4>1, RequestAtRow
    <3> QED BY <1>1, <3>4
  <2>7. Append(StoredRequests(k), r)
          = [i \in 1..(n + 1) |-> IF i = n + 1 THEN r ELSE RequestAt(events, k, i)]
    <3> DEFINE q == [i \in 1..n |-> RequestAt(events, k, i)]
    <3>1. Len(q) = n
      OBVIOUS
    <3>2. Append(q, r) = [i \in 1..(n + 1) |-> IF i = n + 1 THEN r ELSE q[i]]
      BY <3>1
    <3>3. \A i \in 1..(n + 1) : i # n + 1 => q[i] = RequestAt(events, k, i)
      OBVIOUS
    <3> HIDE DEF q
    <3>4. StoredRequests(k) = q
      BY <2>4 DEF q
    <3> QED BY <3>2, <3>3, <3>4
  <2>8. StoredRequests(k)' = Append(StoredRequests(k), r)
    <3>1. \A i \in 1..(n + 1) :
            RequestAt(events', k, i) = IF i = n + 1 THEN r ELSE RequestAt(events, k, i)
      <4>1. \A i \in 1..(n + 1) : i # n + 1 => i \in 1..n
        OBVIOUS
      <4> QED BY <2>5, <2>6, <4>1
    <3> QED BY <2>3, <2>7, <3>1
  <2>9. Len(StoredRequests(k)) = n
    BY <2>4
  <2> QED BY <1>7, <2>1, <2>8, <2>9
<1> QED BY <1>6, <1>7

\* A publishing step is an accepted append of the abstract log.
LEMMA PublishRefines ==
  ASSUME IInv, NEW r \in Requests, Publishes(r)
  PROVE  Log!Accept(r) \/ Log!AcceptUnreported(r)
<1> DEFINE log == [k \in Keys |-> StoredRequests(k)]
           status == [q \in Requests |-> StatusOf(q)]
           position == [q \in Requests |-> IF pc[q] = "done" THEN seqNo[q] ELSE 0]
<1>1. pc[r] = "commit" /\ key[r] \in Keys /\ UNCHANGED <<key, seqNo>>
  BY DEF Publishes, IInv, TypeOK
<1>2. status[r] = "open"
  BY <1>1 DEF StatusOf
<1>3. log' = [log EXCEPT ![key[r]] = Append(@, r)]
  <2>1. \A k \in Keys :
          StoredRequests(k)' = IF k = key[r] THEN Append(StoredRequests(k), r)
                               ELSE StoredRequests(k)
    BY PublishAppends
  <2> QED BY <1>1, <2>1
<1>4. Len(log[key[r]]) + 1 = seqNo[r]
  BY <1>1, PublishAppends
<1>5. CASE Goto(r, "done")
  <2>1. \A q \in Requests : pc'[q] = IF q = r THEN "done" ELSE pc[q]
    BY <1>5 DEF Goto, IInv, TypeOK
  <2>2. status' = [status EXCEPT ![r] = "acknowledged"]
    BY <2>1 DEF StatusOf
  <2>3. position' = [position EXCEPT ![r] = seqNo[r]]
    BY <1>1, <2>1
  <2>4. Log!Accept(r)
    BY <1>1, <1>2, <1>3, <1>4, <2>2, <2>3 DEF Log!Accept, Log!Store
  <2> QED BY <2>4
<1>6. CASE Goto(r, "failed")
  <2>1. \A q \in Requests : pc'[q] = IF q = r THEN "failed" ELSE pc[q]
    BY <1>6 DEF Goto, IInv, TypeOK
  <2>2. status' = [status EXCEPT ![r] = "failed"]
    BY <2>1 DEF StatusOf
  <2>3. position' = position
    BY <1>1, <2>1
  <2>4. Log!AcceptUnreported(r)
    BY <1>1, <1>2, <1>3, <2>2, <2>3 DEF Log!AcceptUnreported, Log!Store
  <2> QED BY <2>4
<1> QED BY <1>5, <1>6 DEF Publishes

\* The abstract log, before and after a step that publishes nothing.
LEMMA LogFrame ==
  ASSUME UNCHANGED events
  PROVE  [k \in Keys |-> StoredRequests(k)]' = [k \in Keys |-> StoredRequests(k)]
BY DEF StoredRequests, LastSeq, SeqsOf

\* Every step is a step of the abstract log or a stutter.
LEMMA StepRefines ==
  ASSUME IInv, [Next]_vars
  PROVE  [Log!Next]_(Log!vars)
<1> DEFINE status == [q \in Requests |-> StatusOf(q)]
           position == [q \in Requests |-> IF pc[q] = "done" THEN seqNo[q] ELSE 0]
           Open == InTransaction \cup {"raised"}
<1>1. ASSUME NEW r \in Requests, Begin(r) PROVE Log!Submit(r)
  <2>1. \A q \in Requests : pc'[q] = IF q = r THEN "insertAggregate" ELSE pc[q]
    BY <1>1 DEF Begin, Goto, IInv, TypeOK
  <2>2. pc[r] = "idle" /\ UNCHANGED <<key, seqNo, events>>
    BY <1>1 DEF Begin
  <2>3. status[r] = "new" /\ status' = [status EXCEPT ![r] = "open"]
    BY <2>1, <2>2 DEF StatusOf
  <2>4. position' = position
    BY <2>1, <2>2
  <2> QED BY <2>2, <2>3, <2>4, LogFrame DEF Log!Submit
<1>2. ASSUME NEW r \in Requests, Rollback(r) PROVE Log!Reject(r)
  <2>1. \A q \in Requests : pc'[q] = IF q = r THEN "failed" ELSE pc[q]
    BY <1>2 DEF Rollback, Goto, IInv, TypeOK
  <2>2. pc[r] \in Open /\ UNCHANGED <<key, seqNo, events>>
    BY <1>2 DEF Rollback
  <2>3. status[r] = "open" /\ status' = [status EXCEPT ![r] = "failed"]
    BY <2>1, <2>2 DEF StatusOf, InTransaction
  <2>4. position' = position
    BY <2>1, <2>2 DEF InTransaction
  <2> QED BY <2>2, <2>3, <2>4, LogFrame DEF Log!Reject
<1>3. ASSUME NEW r \in Requests, pc[r] \in Open, NEW l \in Open, Goto(r, l),
             UNCHANGED <<key, events>>,
             \A q \in Requests : pc[q] = "done" => seqNo'[q] = seqNo[q]
      PROVE  UNCHANGED Log!vars
  <2>1. \A q \in Requests : pc'[q] = IF q = r THEN l ELSE pc[q]
    BY <1>3 DEF Goto, IInv, TypeOK
  <2>2. status' = status
    BY <1>3, <2>1 DEF StatusOf, InTransaction
  <2>3. position' = position
    BY <1>3, <2>1 DEF InTransaction
  <2> QED BY <1>3, <2>2, <2>3, LogFrame DEF Log!vars
<1>4. ASSUME UNCHANGED vars PROVE UNCHANGED Log!vars
  <2>1. status' = status /\ position' = position
    BY <1>4 DEF vars, StatusOf
  <2> QED BY <1>4, <2>1, LogFrame DEF vars, Log!vars
<1>5. ASSUME NEW r \in Requests, Step(r), ~Publishes(r) PROVE UNCHANGED Log!vars
  <2>1. \A q \in Requests : pc[q] = "done" => seqNo'[q] = seqNo[q]
    BY <1>5 DEF Step, InsertAggregate, SelectForUpdate, NextSequenceNumber,
                CreateEvent, Commit, Publishes, IInv, TypeOK
  <2>2. /\ pc[r] \in Open
        /\ \E l \in Open : Goto(r, l)
        /\ UNCHANGED <<key, events>>
    BY <1>5 DEF Step, InsertAggregate, SelectForUpdate, NextSequenceNumber,
                CreateEvent, Commit, Publishes, InTransaction
  <2> QED BY <1>3, <2>1, <2>2
<1> QED
  BY <1>1, <1>2, <1>4, <1>5, PublishRefines
  DEF Next, Log!Next, Terminating, CommitUnacknowledged, Publishes

\* The append protocol implements the abstract append-only log, for any number
\* of requests and aggregates: appends are atomic, in sequence-number order, and
\* acknowledged with their own position.
THEOREM StoreImplementsLog == Spec => ImplementsLog
<1>1. Init => Log!Init
  <2> SUFFICES ASSUME Init PROVE Log!Init
    OBVIOUS
  <2>1. \A k \in Keys : StoredRequests(k) = <<>>
    <3>1. \A k \in Keys : SeqsOf(k) = 1..0
      BY DEF Init, SeqsOf
    <3>2. \A k \in Keys : LastSeq(k) = 0
      BY <3>1, GreatestOfRange DEF LastSeq
    <3> QED BY <3>2 DEF StoredRequests
  <2>2. \A r \in Requests : StatusOf(r) = "new"
    BY DEF Init, StatusOf
  <2> QED BY <2>1, <2>2 DEF Init, Log!Init
<1> QED BY <1>1, StepRefines, Inductive, PTL DEF Spec, ImplementsLog, Log!Spec
=============================================================================
