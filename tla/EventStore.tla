----------------------------- MODULE EventStore -----------------------------
(***************************************************************************)
(* The append transaction of EventsService.append and EventsRepository,    *)
(* run by any number of concurrent requests against PostgreSQL at its      *)
(* default isolation level, READ COMMITTED: every statement sees what was  *)
(* committed before it started, plus what its own transaction wrote.       *)
(*                                                                         *)
(* One action per statement.  An uncommitted aggregate row is recorded in  *)
(* rowOwner, an uncommitted event row by pc[r] = "commit"; both become     *)
(* visible to other transactions at COMMIT only.  The work append does     *)
(* after its transaction (cache invalidation, snapshot trigger) is in      *)
(* StateReconstruction.                                                    *)
(***************************************************************************)
EXTENDS Naturals

CONSTANTS Requests,   \* append requests, each made once
          Keys,       \* natural keys: (projectId, aggregateType, aggregateKey)
          None        \* "no transaction", for row owners and locks

ASSUME NoneAssumption == None \notin Requests

VARIABLES
  key,          \* [Requests -> Keys]: what each request appends to
  pc,           \* the statement each request runs next
  aggregates,   \* keys with a committed row in table aggregates
  rowOwner,     \* per key: the transaction that inserted its row, uncommitted
  lock,         \* per key: the transaction holding the row lock (FOR UPDATE)
  seqNo,        \* per request: the local sequenceNumber of append, 0 before
  events        \* the committed rows of table events

vars == <<key, pc, aggregates, rowOwner, lock, seqNo, events>>

InTransaction ==
  {"insertAggregate", "selectForUpdate", "nextSequence", "createEvent", "commit"}

Finished == {"done", "failed"}

EventRow == [aggregate : Keys, sequenceNumber : Nat \ {0}, request : Requests]

-----------------------------------------------------------------------------
(* Sequence numbers *)

SeqsOf(k) == {e.sequenceNumber : e \in {f \in events : f.aggregate = k}}

\* findFirst with orderBy sequenceNumber desc, 0 when there is none.
Greatest(S) == CHOOSE n \in S \cup {0} : \A m \in S : m <= n
LastSeq(k) == Greatest(SeqsOf(k))

\* Mutants: the increment forgotten; the filter on the aggregate forgotten.
NextSeqWithoutIncrement(k) == LastSeq(k)
NextSeqOfAnyAggregate(k) == Greatest({e.sequenceNumber : e \in events}) + 1

NextSeq(k) == LastSeq(k) + 1

-----------------------------------------------------------------------------
Init ==
  /\ key \in [Requests -> Keys]
  /\ pc = [r \in Requests |-> "idle"]
  /\ aggregates = {}
  /\ rowOwner = [k \in Keys |-> None]
  /\ lock = [k \in Keys |-> None]
  /\ seqNo = [r \in Requests |-> 0]
  /\ events = {}

Goto(r, label) == pc' = [pc EXCEPT ![r] = label]

\* A request arrives and its transaction opens.
Begin(r) ==
  /\ pc[r] = "idle"
  /\ Goto(r, "insertAggregate")
  /\ UNCHANGED <<key, aggregates, rowOwner, lock, seqNo, events>>

\* Mutant: the insert runs outside the transaction and commits on its own.
InsertAggregateAutocommit(r) ==
  /\ pc[r] = "insertAggregate"
  /\ aggregates' = aggregates \cup {key[r]}
  /\ Goto(r, "selectForUpdate")
  /\ UNCHANGED <<key, rowOwner, lock, seqNo, events>>

\* INSERT ... ON CONFLICT DO NOTHING: waits while another transaction has an
\* uncommitted row of the same key, then inserts unless the row is committed.
InsertAggregate(r) ==
  /\ pc[r] = "insertAggregate"
  /\ rowOwner[key[r]] = None
  /\ rowOwner' = IF key[r] \in aggregates THEN rowOwner
                 ELSE [rowOwner EXCEPT ![key[r]] = r]
  /\ Goto(r, "selectForUpdate")
  /\ UNCHANGED <<key, aggregates, lock, seqNo, events>>

RowVisible(r) == key[r] \in aggregates \/ rowOwner[key[r]] = r

\* Mutant: a plain SELECT, without FOR UPDATE, never waits.
NeverWaits(k) == TRUE

LockAvailable(k) == lock[k] = None

\* SELECT ... FOR UPDATE.  Without a visible row the destructuring yields
\* undefined and reading aggregate.id throws.
SelectForUpdate(r) ==
  /\ pc[r] = "selectForUpdate"
  /\ LockAvailable(key[r])
  /\ lock' = IF RowVisible(r) THEN [lock EXCEPT ![key[r]] = r] ELSE lock
  /\ Goto(r, IF RowVisible(r) THEN "nextSequence" ELSE "raised")
  /\ UNCHANGED <<key, aggregates, rowOwner, seqNo, events>>

NextSequenceNumber(r) ==
  /\ pc[r] = "nextSequence"
  /\ seqNo' = [seqNo EXCEPT ![r] = NextSeq(key[r])]
  /\ Goto(r, "createEvent")
  /\ UNCHANGED <<key, aggregates, rowOwner, lock, events>>

\* INSERT INTO events under the unique index (aggregate_id, sequence_number):
\* waits for an uncommitted row with the same number, then raises a violation
\* if that number is committed.
CreateEvent(r) ==
  /\ pc[r] = "createEvent"
  /\ \A q \in Requests \ {r} :
       ~(pc[q] = "commit" /\ key[q] = key[r] /\ seqNo[q] = seqNo[r])
  /\ Goto(r, IF seqNo[r] \in SeqsOf(key[r]) THEN "raised" ELSE "commit")
  /\ UNCHANGED <<key, aggregates, rowOwner, lock, seqNo, events>>

\* Mutant: a lock of the session rather than of the transaction, which the end
\* of the transaction does not release.
ReleaseRowOnly(r) ==
  /\ rowOwner' = [k \in Keys |-> IF rowOwner[k] = r THEN None ELSE rowOwner[k]]
  /\ UNCHANGED lock

\* The end of a transaction gives up its row locks and its uncommitted row.
Release(r) ==
  /\ rowOwner' = [k \in Keys |-> IF rowOwner[k] = r THEN None ELSE rowOwner[k]]
  /\ lock' = [k \in Keys |-> IF lock[k] = r THEN None ELSE lock[k]]

CommitRows(r) ==
  /\ aggregates' = aggregates \cup {k \in Keys : rowOwner[k] = r}
  /\ events' = events \cup {[aggregate |-> key[r], sequenceNumber |-> seqNo[r],
                             request |-> r]}
  /\ Release(r)

Commit(r) ==
  /\ pc[r] = "commit"
  /\ CommitRows(r)
  /\ Goto(r, "done")
  /\ UNCHANGED <<key, seqNo>>

\* Mutant: the transaction is retried when its answer is lost.
CommitUnacknowledgedRetried(r) ==
  /\ pc[r] = "commit"
  /\ CommitRows(r)
  /\ Goto(r, "insertAggregate")
  /\ UNCHANGED <<key, seqNo>>

\* COMMIT takes effect but its answer is lost: the connection breaks or the
\* process dies, and the caller sees an error for an event that is stored.
CommitUnacknowledged(r) ==
  /\ pc[r] = "commit"
  /\ CommitRows(r)
  /\ Goto(r, "failed")
  /\ UNCHANGED <<key, seqNo>>

\* An exception in the callback, the timeout of the interactive transaction,
\* a lost connection or a crash: PostgreSQL discards what was written.
Rollback(r) ==
  /\ pc[r] \in InTransaction \cup {"raised"}
  /\ Release(r)
  /\ Goto(r, "failed")
  /\ UNCHANGED <<key, aggregates, seqNo, events>>

\* The statements of the transaction, which end once PostgreSQL answers.
Step(r) ==
  \/ InsertAggregate(r)
  \/ SelectForUpdate(r)
  \/ NextSequenceNumber(r)
  \/ CreateEvent(r)
  \/ Commit(r)

\* Every request has been answered; nothing is left to do.
Terminating == (\A r \in Requests : pc[r] \in Finished) /\ UNCHANGED vars

Next ==
  \/ \E r \in Requests :
       Begin(r) \/ Step(r) \/ CommitUnacknowledged(r) \/ Rollback(r)
  \/ Terminating

\* PostgreSQL answers every statement that is not waiting for a lock.
Fairness == \A r \in Requests : WF_vars(Step(r))

Spec == Init /\ [][Next]_vars

FairSpec == Spec /\ Fairness

-----------------------------------------------------------------------------
(* Properties *)

\* The tables and the locals of append hold what their columns and types say:
\* every stored sequence number is at least 1.
TypeOK ==
  /\ key \in [Requests -> Keys]
  /\ pc \in [Requests -> {"idle", "raised"} \cup InTransaction \cup Finished]
  /\ aggregates \subseteq Keys
  /\ rowOwner \in [Keys -> Requests \cup {None}]
  /\ lock \in [Keys -> Requests \cup {None}]
  /\ seqNo \in [Requests -> Nat]
  /\ events \subseteq EventRow

\* The committed sequence numbers of an aggregate are 1..n at every instant,
\* with one event each, whatever the interleaving of appends, rollbacks and
\* lost answers: a reader never meets a hole that is filled later.  Folding
\* "every event after the snapshot" depends on it.
Gapless ==
  /\ \A k \in Keys : \E n \in {0} \cup SeqsOf(k) : SeqsOf(k) = 1..n
  /\ \A e, f \in events :
       e.aggregate = f.aggregate /\ e.sequenceNumber = f.sequenceNumber => e = f

\* Concurrent appends never make append fail by themselves: the row is always
\* there when FOR UPDATE selects it (events.repository.ts:34, used unguarded
\* by append) and the unique index on (aggregate_id, sequence_number) is never
\* violated.
NeverRaises == \A r \in Requests : pc[r] # "raised"

\* The row of an aggregate and its first event commit together: a failed first
\* append leaves no aggregate behind, and no aggregate without an event can be
\* read (the asOfSequence = null case of createSnapshot).
AggregateHasEvents == aggregates = {e.aggregate : e \in events}

-----------------------------------------------------------------------------
(* The inductive invariant behind the properties above. *)

HoldsLock == {"nextSequence", "createEvent", "commit"}

\* The row lock is held by exactly the transaction that is past its SELECT.
LockDiscipline ==
  /\ \A r \in Requests : pc[r] \in HoldsLock => lock[key[r]] = r
  /\ \A k \in Keys : lock[k] # None => key[lock[k]] = k /\ pc[lock[k]] \in HoldsLock

\* A transaction past its INSERT sees the row: committed, or its own.
RowDiscipline ==
  /\ \A r \in Requests :
       pc[r] \in HoldsLock \cup {"selectForUpdate"} => RowVisible(r)
  /\ \A k \in Keys : rowOwner[k] # None =>
       /\ key[rowOwner[k]] = k
       /\ pc[rowOwner[k]] \in HoldsLock \cup {"selectForUpdate"}

\* The number a transaction has read is still the next one while it holds the
\* lock.
FreshNumber ==
  \A r \in Requests : pc[r] \in {"createEvent", "commit"} =>
    seqNo[r] > 0 /\ SeqsOf(key[r]) = 1..(seqNo[r] - 1)

IInv ==
  /\ TypeOK
  /\ Gapless
  /\ NeverRaises
  /\ AggregateHasEvents
  /\ LockDiscipline
  /\ RowDiscipline
  /\ FreshNumber

-----------------------------------------------------------------------------
(* The refinement: the log of a key is the requests of its events in order. *)

RequestAt(rows, k, n) ==
  (CHOOSE e \in rows : e.aggregate = k /\ e.sequenceNumber = n).request

StoredRequests(k) == [n \in 1..LastSeq(k) |-> RequestAt(events, k, n)]

StatusOf(r) ==
  CASE pc[r] = "idle"   -> "new"
    [] pc[r] = "done"   -> "acknowledged"
    [] pc[r] = "failed" -> "failed"
    [] OTHER            -> "open"

Log == INSTANCE AppendOnlyLog WITH
         target   <- key,
         log      <- [k \in Keys |-> StoredRequests(k)],
         status   <- [r \in Requests |-> StatusOf(r)],
         position <- [r \in Requests |-> IF pc[r] = "done" THEN seqNo[r] ELSE 0]

\* The store implements the append-only log: every acknowledged append takes
\* effect in one step between its submission and its answer, once, at the
\* position it is answered with; a failed one takes effect at most once.
ImplementsLog == Log!Spec

\* Every append that has begun is answered: waiting for the uncommitted row and
\* for the row lock of other appends never goes on forever.
EveryAppendEnds ==
  \A r \in Requests : (pc[r] = "insertAggregate") ~> (pc[r] \in Finished)
=============================================================================
