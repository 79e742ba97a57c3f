------------------------- MODULE StateReconstruction -------------------------
(***************************************************************************)
(* Reading one aggregate: AggregatesService.getState with its two Redis    *)
(* caches, SnapshotsService, the snapshot-creation queue, and the part of  *)
(* EventsService.append that follows its transaction.  The transaction     *)
(* itself is one step here, at the next sequence number: EventStore shows  *)
(* that this is what concurrent transactions amount to.                    *)
(*                                                                         *)
(* Every await of the code is a point where other callers run, so every    *)
(* call to Redis or PostgreSQL is an action of its own.                    *)
(*                                                                         *)
(* A state is what the fold of the reducer rules would be if no event were *)
(* ever forgotten: the sequence of the events folded in, each with the     *)
(* version of the rules that folded it (ReduceEvents models the rules).    *)
(***************************************************************************)
EXTENDS Integers, Sequences, FiniteSets

CONSTANTS Readers,          \* HTTP requests GET /aggregates/:id/state
          SnapshotWorkers,  \* slots of the snapshot-creation worker
          ReplayWorkers,    \* slots of the replay-jobs worker, same createSnapshot
          Appenders,        \* HTTP requests POST /events of this aggregate
          Points,           \* the asOfSequence values asked for, Latest for none
          Latest,           \* the absent asOfSequence
          Miss,             \* an absent cache entry
          Threshold,        \* SNAPSHOT_EVENT_THRESHOLD, 20 in the code
          MaxEvents,        \* bound on the events of the aggregate
          MaxRules,         \* bound on the changes of the reducer rules
          Faults            \* which failures happen: "redis", "db", "crash"

Getters == Readers \cup SnapshotWorkers \cup ReplayWorkers
Workers == SnapshotWorkers \cup ReplayWorkers
Processes == Getters \cup Appenders

\* An aggregate state: the number of the last event folded in (0 stands for the
\* null of an aggregate state without events) and the folded state.
View == [seq : Nat, state : Seq(Nat \X Nat)]

ASSUME ConstantsAssumption ==
  /\ Latest \in Points
  /\ Points \subseteq Nat \cup {Latest}
  /\ Latest \notin Nat
  /\ Miss \notin View
  /\ Threshold \in Nat \ {0}
  /\ MaxEvents \in Nat
  /\ MaxRules \in Nat
  /\ Faults \subseteq {"redis", "db", "crash"}
  /\ Readers \cap Workers = {}
  /\ SnapshotWorkers \cap ReplayWorkers = {}
  /\ Appenders \cap Getters = {}
  /\ IsFiniteSet(SnapshotWorkers)

VARIABLES
  nEvents,      \* committed events, numbered 1..nEvents
  rules,        \* version of the reducer rules
  snapshots,    \* the rows of table snapshots
  stateCache,   \* aggregate-state:<id>:<point>
  lookupCache,  \* snapshot-lookup:<id>:<point>
  queued,       \* waiting jobs of queue snapshot-creation
  pc,           \* the call each process is about to make
  call,         \* the locals of getState and createSnapshot, per getter
  own,          \* per appender: the number of the event it stored, 0 at rest
  since,        \* per appender: the latest snapshot's number in shouldSnapshot
  invalidated   \* history: events whose append has deleted the latest entries

vars == <<nEvents, rules, snapshots, stateCache, lookupCache, queued, pc, call,
          own, since, invalidated>>

-----------------------------------------------------------------------------
(* Views *)

NoView == [seq |-> 0, state |-> <<>>]

\* findEventsInRange: the numbers above after and at most upTo, in order.
EventsInRange(after, upTo) ==
  [i \in 1..(IF upTo > after THEN upTo - after ELSE 0) |-> after + i]

\* Mutant: the fold starts from an empty state instead of the snapshot's.
FoldFromEmpty(base, read, version) ==
  [seq   |-> IF read = <<>> THEN base.seq ELSE read[Len(read)],
   state |-> [i \in 1..Len(read) |-> <<read[i], version>>]]

\* Mutant: the snapshot's number takes precedence over the last event's.
FoldAsOfSnapshot(base, read, version) ==
  [seq   |-> IF base # NoView \/ read = <<>> THEN base.seq ELSE read[Len(read)],
   state |-> base.state \o [i \in 1..Len(read) |-> <<read[i], version>>]]

\* reduceEvents from the snapshot's state, and asOf: the number of the last
\* event read, else that of the snapshot, else null.
Fold(base, read, version) ==
  [seq   |-> IF read = <<>> THEN base.seq ELSE read[Len(read)],
   state |-> base.state \o [i \in 1..Len(read) |-> <<read[i], version>>]]

\* findFirst with orderBy sequenceNumber desc: the last snapshot of a set, or
\* NoView when there is none.
LastOf(S) == {s \in S \cup {NoView} : \A t \in S : t.seq <= s.seq}

\* Mutant: the filter on asOfSequence forgotten.
AnySnapshots(q) == snapshots

SnapshotsUpTo(q) == {s \in snapshots : q = Latest \/ s.seq <= q}

\* The last event of a read at point q when n events are committed.
Reach(q, n) == IF q # Latest /\ q < n THEN q ELSE n

\* Mutant: lt instead of lte on asOfSequence.
ReadRangeExclusive(after, q) ==
  EventsInRange(after, IF q # Latest /\ q <= nEvents THEN q - 1 ELSE nEvents)

\* Mutant: the query is limited to as many events as a snapshot is due after.
ReadRangeLimited(after, q) ==
  EventsInRange(after, IF Reach(q, nEvents) < after + Threshold
                       THEN Reach(q, nEvents) ELSE after + Threshold)

ReadRange(after, q) == EventsInRange(after, Reach(q, nEvents))

-----------------------------------------------------------------------------
Call == [point : Points,             \* asOfSequence
         base : View,                \* the snapshot found
         read : Seq(Nat),            \* the events after it
         answer : View,              \* the result
         hit : BOOLEAN,              \* history: answered by the state cache
         committed : Nat,            \* history: nEvents when the call began
         invalidated : Nat]          \* history: invalidated when it began

NoCall == [point |-> Latest, base |-> NoView, read |-> <<>>, answer |-> NoView,
           hit |-> FALSE, committed |-> 0, invalidated |-> 0]

Init ==
  /\ nEvents = 0
  /\ rules = 0
  /\ snapshots = {}
  /\ stateCache = [q \in Points |-> Miss]
  /\ lookupCache = [q \in Points |-> Miss]
  /\ queued = 0
  /\ pc = [p \in Processes |-> "idle"]
  /\ call = [p \in Getters |-> NoCall]
  /\ own = [a \in Appenders |-> 0]
  /\ since = [a \in Appenders |-> 0]
  /\ invalidated = 0

Goto(p, label) == pc' = [pc EXCEPT ![p] = label]

Return(p) ==
  /\ Goto(p, "idle")
  /\ call' = [call EXCEPT ![p] = NoCall]

\* RedisCacheService is fail-open: when Redis fails, get answers a miss, set
\* and del do nothing, and the caller goes on.
RedisFails == IF "redis" \in Faults THEN BOOLEAN ELSE {FALSE}

\* Mutant: the entry is overwritten with an empty value instead of deleted.
OverwriteLatest ==
  /\ stateCache' = [stateCache EXCEPT ![Latest] = <<>>]
  /\ lookupCache' = [lookupCache EXCEPT ![Latest] = <<>>]

\* The deletion of both latest entries, one DEL command.
DelLatest ==
  /\ stateCache' = [stateCache EXCEPT ![Latest] = Miss]
  /\ lookupCache' = [lookupCache EXCEPT ![Latest] = Miss]

storage == <<nEvents, rules, snapshots, queued>>
appending == <<own, since, invalidated>>

-----------------------------------------------------------------------------
(* AggregatesService.getState *)

\* The call begins with the lookup of the state cache; a hit is the answer.
ReadStateCache(p, q) ==
  \E fails \in RedisFails :
    LET got   == IF fails THEN Miss ELSE stateCache[q]
        began == [NoCall EXCEPT !.point = q, !.committed = nEvents,
                                !.invalidated = invalidated]
    IN IF got = Miss
       THEN /\ Goto(p, "readLookupCache")
            /\ call' = [call EXCEPT ![p] = began]
       ELSE /\ Goto(p, "answered")
            /\ call' = [call EXCEPT ![p] = [began EXCEPT !.answer = got,
                                                         !.hit = TRUE]]

\* GET /aggregates/:id/state; the id is known to callers from an append.
BeginRead(r, q) ==
  /\ pc[r] = "idle"
  /\ nEvents > 0
  /\ ReadStateCache(r, q)
  /\ UNCHANGED <<storage, stateCache, lookupCache, appending>>

\* findForProject, which finds the row, then the cached snapshot lookup.
ReadLookupCache(p) ==
  /\ pc[p] = "readLookupCache"
  /\ \E fails \in RedisFails :
       LET got == IF fails THEN Miss ELSE lookupCache[call[p].point]
       IN IF got = Miss
          THEN Goto(p, "findSnapshot") /\ UNCHANGED call
          ELSE /\ Goto(p, "readEvents")
               /\ call' = [call EXCEPT ![p].base = got]
  /\ UNCHANGED <<storage, stateCache, lookupCache, appending>>

\* findLatestUpTo; the absence of a snapshot is not cached.
FindSnapshot(p) ==
  /\ pc[p] = "findSnapshot"
  /\ \E s \in LastOf(SnapshotsUpTo(call[p].point)) :
       /\ call' = [call EXCEPT ![p].base = s]
       /\ Goto(p, IF s = NoView THEN "readEvents" ELSE "fillLookupCache")
  /\ UNCHANGED <<storage, stateCache, lookupCache, appending>>

FillLookupCache(p) ==
  /\ pc[p] = "fillLookupCache"
  /\ \E fails \in RedisFails :
       lookupCache' = IF fails THEN lookupCache
                      ELSE [lookupCache EXCEPT ![call[p].point] = call[p].base]
  /\ Goto(p, "readEvents")
  /\ UNCHANGED <<storage, stateCache, call, appending>>

ReadEvents(p) ==
  /\ pc[p] = "readEvents"
  /\ call' = [call EXCEPT ![p].read =
                ReadRange(call[p].base.seq, call[p].point)]
  /\ Goto(p, "readRules")
  /\ UNCHANGED <<storage, stateCache, lookupCache, appending>>

\* findAllForAggregateType, then the fold, which runs without an await.
ReadRules(p) ==
  /\ pc[p] = "readRules"
  /\ call' = [call EXCEPT ![p].answer =
                Fold(call[p].base, call[p].read, rules)]
  /\ Goto(p, "fillStateCache")
  /\ UNCHANGED <<storage, stateCache, lookupCache, appending>>

FillStateCache(p) ==
  /\ pc[p] = "fillStateCache"
  /\ \E fails \in RedisFails :
       stateCache' = IF fails THEN stateCache
                     ELSE [stateCache EXCEPT ![call[p].point] = call[p].answer]
  /\ Goto(p, "answered")
  /\ UNCHANGED <<storage, lookupCache, call, appending>>

Reply(r) ==
  /\ pc[r] = "answered"
  /\ Return(r)
  /\ UNCHANGED <<storage, stateCache, lookupCache, appending>>

-----------------------------------------------------------------------------
(* SnapshotsService.createSnapshot, after its call of getState *)

\* SnapshotCreationProcessor takes a waiting job.
TakeJob(w) ==
  /\ pc[w] = "idle"
  /\ queued > 0
  /\ queued' = queued - 1
  /\ ReadStateCache(w, Latest)
  /\ UNCHANGED <<nEvents, rules, snapshots, stateCache, lookupCache, appending>>

\* ReplayJobProcessor comes to this aggregate.
BeginReplay(w) ==
  /\ pc[w] = "idle"
  /\ nEvents > 0
  /\ ReadStateCache(w, Latest)
  /\ UNCHANGED <<storage, stateCache, lookupCache, appending>>

\* findLatest: nothing to do when a snapshot at least as recent exists (NoView
\* has number 0, which also covers the null asOfSequence).
CheckLatest(w) ==
  /\ pc[w] = "answered"
  /\ \E s \in LastOf(snapshots) :
       IF s.seq >= call[w].answer.seq
       THEN Return(w)
       ELSE Goto(w, "createRow") /\ UNCHANGED call
  /\ UNCHANGED <<storage, stateCache, lookupCache, appending>>

\* The insert, under the unique index (aggregate_id, sequence_number); a
\* violation (P2002) ends the call like the check above.
CreateRow(w) ==
  /\ pc[w] = "createRow"
  /\ IF \E s \in snapshots : s.seq = call[w].answer.seq
     THEN Return(w) /\ UNCHANGED snapshots
     ELSE /\ snapshots' = snapshots \cup {call[w].answer}
          /\ Goto(w, "invalidate")
          /\ UNCHANGED call
  /\ UNCHANGED <<nEvents, rules, queued, stateCache, lookupCache, appending>>

InvalidateLookup(w) ==
  /\ pc[w] = "invalidate"
  /\ \E fails \in RedisFails :
       IF fails THEN UNCHANGED <<stateCache, lookupCache>> ELSE DelLatest
  /\ Return(w)
  /\ UNCHANGED <<storage, appending>>

-----------------------------------------------------------------------------
(* EventsService.append *)

\* The transaction.
CommitAppend(a) ==
  /\ pc[a] = "idle"
  /\ nEvents < MaxEvents
  /\ nEvents' = nEvents + 1
  /\ own' = [own EXCEPT ![a] = nEvents + 1]
  /\ Goto(a, "invalidate")
  /\ UNCHANGED <<rules, snapshots, queued, stateCache, lookupCache, call, since,
                 invalidated>>

InvalidateLatest(a) ==
  /\ pc[a] = "invalidate"
  /\ \E fails \in RedisFails :
       IF fails
       THEN UNCHANGED <<stateCache, lookupCache, invalidated>>
       ELSE /\ DelLatest
            /\ invalidated' = IF own[a] > invalidated THEN own[a]
                              ELSE invalidated
  /\ Goto(a, "findLatest")
  /\ UNCHANGED <<storage, call, own, since>>

\* shouldSnapshot: findLatest, then countEventsSince, then queue.add.
FindLatest(a) ==
  /\ pc[a] = "findLatest"
  /\ \E s \in LastOf(snapshots) : since' = [since EXCEPT ![a] = s.seq]
  /\ Goto(a, "count")
  /\ UNCHANGED <<storage, stateCache, lookupCache, call, own, invalidated>>

Acknowledge(a) ==
  /\ Goto(a, "idle")
  /\ own' = [own EXCEPT ![a] = 0]
  /\ since' = [since EXCEPT ![a] = 0]

\* Mutant: the threshold itself is not enough.
CountMoreThanThreshold(a) ==
  /\ pc[a] = "count"
  /\ IF nEvents - since[a] > Threshold
     THEN Goto(a, "enqueue") /\ UNCHANGED <<own, since>>
     ELSE Acknowledge(a)
  /\ UNCHANGED <<storage, stateCache, lookupCache, call, invalidated>>

CountEventsSince(a) ==
  /\ pc[a] = "count"
  /\ IF nEvents - since[a] >= Threshold
     THEN Goto(a, "enqueue") /\ UNCHANGED <<own, since>>
     ELSE Acknowledge(a)
  /\ UNCHANGED <<storage, stateCache, lookupCache, call, invalidated>>

\* A failure of the queue is logged and the append succeeds all the same.
Enqueue(a) ==
  /\ pc[a] = "enqueue"
  /\ \E fails \in RedisFails : queued' = IF fails THEN queued ELSE queued + 1
  /\ Acknowledge(a)
  /\ UNCHANGED <<nEvents, rules, snapshots, stateCache, lookupCache, call,
                 invalidated>>

-----------------------------------------------------------------------------
(* The environment *)

\* POST /event-reducers changes a rule; no cache entry or snapshot follows.
UpsertRule ==
  /\ rules < MaxRules
  /\ rules' = rules + 1
  /\ UNCHANGED <<nEvents, snapshots, queued, stateCache, lookupCache, pc, call,
                 appending>>

\* Mutant: historical entries are written without a TTL.
ExpireLatestState(q) ==
  /\ q = Latest
  /\ stateCache[q] # Miss
  /\ stateCache' = [stateCache EXCEPT ![q] = Miss]
  /\ UNCHANGED <<storage, lookupCache, pc, call, appending>>

\* Mutant: the latest entry, deleted by appends, is given no TTL.
ExpireHistoricalState(q) ==
  /\ q # Latest
  /\ stateCache[q] # Miss
  /\ stateCache' = [stateCache EXCEPT ![q] = Miss]
  /\ UNCHANGED <<storage, lookupCache, pc, call, appending>>

\* The TTL of 300 seconds ends, or Redis evicts the entry.
ExpireState(q) ==
  /\ stateCache[q] # Miss
  /\ stateCache' = [stateCache EXCEPT ![q] = Miss]
  /\ UNCHANGED <<storage, lookupCache, pc, call, appending>>

ExpireLookup(q) ==
  /\ lookupCache[q] # Miss
  /\ lookupCache' = [lookupCache EXCEPT ![q] = Miss]
  /\ UNCHANGED <<storage, stateCache, pc, call, appending>>

\* A query fails.  A read answers an error; a job fails and, with one attempt,
\* is not retried; append logs the failure and succeeds.
GetterFails(p) ==
  /\ "db" \in Faults
  /\ \/ pc[p] \in {"readLookupCache", "findSnapshot", "readEvents", "readRules",
                   "createRow"}
     \/ pc[p] = "answered" /\ p \in Workers
  /\ Return(p)
  /\ UNCHANGED <<storage, stateCache, lookupCache, appending>>

AppenderFails(a) ==
  /\ "db" \in Faults
  /\ pc[a] \in {"findLatest", "count"}
  /\ Acknowledge(a)
  /\ UNCHANGED <<storage, stateCache, lookupCache, call, invalidated>>

\* The process dies and restarts.  BullMQ hands the jobs it was working on to
\* a worker again; the requests it was serving are lost.
Crash ==
  /\ "crash" \in Faults
  /\ \E p \in Processes : pc[p] # "idle"
  /\ queued' = queued + Cardinality({w \in SnapshotWorkers : pc[w] # "idle"})
  /\ pc' = [p \in Processes |-> "idle"]
  /\ call' = [p \in Getters |-> NoCall]
  /\ own' = [a \in Appenders |-> 0]
  /\ since' = [a \in Appenders |-> 0]
  /\ UNCHANGED <<nEvents, rules, snapshots, stateCache, lookupCache, invalidated>>

-----------------------------------------------------------------------------
GetState(p) ==
  \/ ReadLookupCache(p)
  \/ FindSnapshot(p)
  \/ FillLookupCache(p)
  \/ ReadEvents(p)
  \/ ReadRules(p)
  \/ FillStateCache(p)

CreateSnapshot(w) ==
  \/ CheckLatest(w)
  \/ CreateRow(w)
  \/ InvalidateLookup(w)

AfterCommit(a) ==
  \/ InvalidateLatest(a)
  \/ FindLatest(a)
  \/ CountEventsSince(a)
  \/ Enqueue(a)

Next ==
  \/ \E p \in Getters : GetState(p) \/ GetterFails(p)
  \/ \E r \in Readers : Reply(r) \/ \E q \in Points : BeginRead(r, q)
  \/ \E w \in Workers : CreateSnapshot(w)
  \/ \E w \in SnapshotWorkers : TakeJob(w)
  \/ \E w \in ReplayWorkers : BeginReplay(w)
  \/ \E a \in Appenders : CommitAppend(a) \/ AfterCommit(a) \/ AppenderFails(a)
  \/ \E q \in Points : ExpireState(q) \/ ExpireLookup(q)
  \/ UpsertRule
  \/ Crash

\* Redis and PostgreSQL answer, a waiting job is taken, entries expire.  No
\* fairness on requests: nobody need ever ask or append again.
Fairness ==
  /\ \A p \in Getters : WF_vars(GetState(p))
  /\ \A r \in Readers : WF_vars(Reply(r))
  /\ \A w \in Workers : WF_vars(CreateSnapshot(w))
  /\ \A w \in SnapshotWorkers : WF_vars(TakeJob(w))
  /\ \A a \in Appenders : WF_vars(AfterCommit(a))
  /\ \A q \in Points : WF_vars(ExpireState(q)) /\ WF_vars(ExpireLookup(q))

Spec == Init /\ [][Next]_vars

FairSpec == Spec /\ Fairness

-----------------------------------------------------------------------------
(* Properties *)

Entry == View \cup {Miss}

\* Each variable has its type.
TypeOK ==
  /\ nEvents \in Nat
  /\ rules \in Nat
  /\ snapshots \subseteq View
  /\ stateCache \in [Points -> Entry]
  /\ lookupCache \in [Points -> Entry]
  /\ queued \in Nat
  /\ pc \in [Processes ->
       {"idle", "readLookupCache", "findSnapshot", "fillLookupCache",
        "readEvents", "readRules", "fillStateCache", "answered", "createRow",
        "invalidate", "findLatest", "count", "enqueue"}]
  /\ call \in [Getters -> Call]
  /\ own \in [Appenders -> Nat]
  /\ since \in [Appenders -> Nat]
  /\ invalidated \in Nat

\* A view folds in the events 1..seq, each once and in order, of n stored ones.
Exact(v, n) ==
  /\ v.seq <= n
  /\ Len(v.state) = v.seq
  /\ \A i \in 1..v.seq : v.state[i][1] = i

\* However a state came about - from a cache entry, a cached snapshot lookup, a
\* snapshot row or none of them, with appends and other fills in between - it
\* folds in each event up to its sequence number exactly once.
FoldsEachEventOnce ==
  /\ \A s \in snapshots : Exact(s, nEvents)
  /\ \A q \in Points : stateCache[q] # Miss => Exact(stateCache[q], nEvents)
  /\ \A q \in Points : lookupCache[q] # Miss => Exact(lookupCache[q], nEvents)
  /\ \A p \in Getters :
       Exact(call[p].base, nEvents) /\ Exact(call[p].answer, nEvents)

\* A point-in-time query never sees past its point: not in the entries cached
\* for it, nor in what a call for it works with.
NeverBeyondPoint ==
  \A q \in Points \ {Latest} :
    /\ stateCache[q] # Miss => stateCache[q].seq <= q
    /\ lookupCache[q] # Miss => lookupCache[q].seq <= q
    /\ \A p \in Getters : call[p].point = q =>
         call[p].base.seq <= q /\ call[p].answer.seq <= q

\* The snapshot lookup cache adds no staleness (cache/README.md:23): a call the
\* state cache did not answer covers every event committed when it began, up to
\* its point, however old the snapshot it started from.
MissCoversCommitted ==
  \A p \in Getters :
    pc[p] = "answered" /\ ~call[p].hit =>
      call[p].answer.seq >= Reach(call[p].point, call[p].committed)

\* The inductive invariant behind the properties above: between the reading of
\* the events and the fold, the events held are those after the base up to some
\* number m, which covers what was committed when the call began.
ReadsConsecutive ==
  \A p \in Getters :
    /\ call[p].committed <= nEvents
    /\ pc[p] = "readRules" =>
         \E m \in 0..nEvents :
           /\ Reach(call[p].point, call[p].committed) <= m
           /\ call[p].point # Latest => m <= call[p].point
           /\ call[p].read = EventsInRange(call[p].base.seq, m)
    /\ pc[p] \in {"fillStateCache", "answered"} /\ ~call[p].hit =>
         call[p].answer.seq >= Reach(call[p].point, call[p].committed)

IInv ==
  /\ TypeOK
  /\ FoldsEachEventOnce
  /\ NeverBeyondPoint
  /\ ReadsConsecutive

\* Caches converge: once appends stop, entries that are behind disappear for
\* good, by their TTL if nothing else removes them.
CacheConverges ==
  <>[](\A q \in Points :
         stateCache[q] # Miss => stateCache[q].seq = Reach(q, nEvents))

\* A crossing of the threshold is not forgotten: while nothing fails, an append
\* that ends without a job leaves fewer events than the threshold behind the
\* latest snapshot, though it found that snapshot one query before it counted.
\* (The job itself may end without a snapshot; the next append counts again.)
CrossingNoticed ==
  [][Faults = {} =>
       \A a \in Appenders :
         pc[a] # "idle" /\ pc'[a] = "idle" =>
           \/ queued' > queued
           \/ \E s \in LastOf(snapshots) : nEvents - s.seq < Threshold]_vars

\* The inductive invariant behind it: the latest snapshot is no older than the
\* one from which an append is about to count.
CountsFromLatest ==
  \E s \in LastOf(snapshots) :
    \A a \in Appenders : pc[a] = "count" => since[a] <= s.seq

-----------------------------------------------------------------------------
(* Statements of the repository's documentation that the code does not keep *)

\* events/README.md:10: the latest entries are deleted after the commit "so no
\* subsequent read can return stale state".
NoStaleRead ==
  \A r \in Readers :
    pc[r] = "answered" /\ call[r].point = Latest =>
      call[r].answer.seq >= call[r].invalidated

\* snapshots/README.md:3: "deleting every snapshot changes nothing about
\* correctness, only speed": a fold from a snapshot equals the full fold.
SnapshotTransparent ==
  [][\A p \in Getters : ReadRules(p) =>
       LET v == call'[p].answer
       IN v = Fold(NoView, EventsInRange(0, v.seq), rules)]_vars
=============================================================================
