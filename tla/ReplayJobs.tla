----------------------------- MODULE ReplayJobs -----------------------------
(***************************************************************************)
(* Replay jobs: ReplayJobsService.create inserts a row and enqueues a job, *)
(* ReplayJobProcessor.process snapshots every aggregate of the job's scope *)
(* and writes the outcome to the row.  The row is what callers poll; the   *)
(* queue (BullMQ, external) is what makes the processor run.               *)
(*                                                                         *)
(* A slot is one @Processor instance: a server process runs one job of the *)
(* queue at a time.  BullMQ makes one attempt at a job, but hands a job    *)
(* whose slot stopped renewing its lock to a slot again, MaxStalled times. *)
(*                                                                         *)
(* createSnapshot is one step here, with the outcomes it can have;         *)
(* StateReconstruction opens it up.                                        *)
(***************************************************************************)
EXTENDS Integers, FiniteSets

CONSTANTS Jobs,        \* ids of replay_jobs rows
          Slots,       \* worker slots
          Aggregates,  \* aggregates of the project
          Types,       \* aggregate types
          TypeOf,      \* the type of each aggregate
          AllTypes,    \* the scope of a job created without an aggregateType
          None,        \* no slot, no result
          MaxStalled,  \* BullMQ's maxStalledCount, 1 by default
          MaxCrashes,  \* bound on the crashes and stalls of slots
          Faults       \* which failures happen, a subset of the set below

\* "snapshot": createSnapshot throws; "db": a query on replay_jobs or on the
\* scope fails; "lost": an update takes effect and its answer is lost;
\* "redis": queue.add fails; "crash": a process dies; "stall": a slot's event
\* loop is blocked so long that it loses its job while still running it.
ASSUME ConstantsAssumption ==
  /\ IsFiniteSet(Aggregates)
  /\ TypeOf \in [Aggregates -> Types]
  /\ AllTypes \notin Types
  /\ None \notin Slots
  /\ MaxStalled \in Nat
  /\ MaxCrashes \in Nat
  /\ Faults \subseteq {"snapshot", "db", "lost", "redis", "crash", "stall"}

VARIABLES
  aggregates,  \* rows of table aggregates
  rows,        \* rows of table replay_jobs
  creating,    \* jobs whose create call has inserted the row, not yet enqueued
  queue,       \* state of each job in the queue replay-jobs
  lock,        \* the slot that holds a job's lock in Redis
  stalled,     \* how often a job was found stalled
  pc,          \* the call each slot is about to make
  run,         \* the locals of process, per slot
  crashes,     \* crashes and stalls so far
  written,     \* history: snapshots written on behalf of a job
  existing,    \* history: the aggregates that existed when a row was created
  troubled     \* history: jobs one of whose queries failed, or queue.add

vars == <<aggregates, rows, creating, queue, lock, stalled, pc, run, crashes,
          written, existing, troubled>>

-----------------------------------------------------------------------------
(* Data *)

\* ReplayJobResult; failures as the set of their aggregateIds.  reached is a
\* history of the aggregates counted.
NoTally == [processed |-> 0, created |-> 0, failures |-> {}, reached |-> {}]

Tallies == [processed : 0..Cardinality(Aggregates),
            created : 0..Cardinality(Aggregates),
            failures : SUBSET Aggregates,
            reached : SUBSET Aggregates]

\* No result is not a result.
ASSUME ResultAssumption == None \notin Tallies

Row == [status : {"absent", "pending", "running", "completed", "failed"},
        scope : Types \cup {AllTypes},
        result : Tallies \cup {None},
        error : BOOLEAN]

NoRow == [status |-> "absent", scope |-> AllTypes, result |-> None,
          error |-> FALSE]

Run == [job : Jobs \cup {None}, todo : SUBSET Aggregates, tally : Tallies]

NoRun == [job |-> None, todo |-> {}, tally |-> NoTally]

InScope(S, scope) == {a \in S : scope = AllTypes \/ TypeOf[a] = scope}

\* The outcomes of createSnapshot for the result: a snapshot, null, an error,
\* and an error after the row was inserted.
Outcomes == {"snapshot", "null"}
            \cup IF "snapshot" \in Faults THEN {"error", "errorAfterInsert"}
                 ELSE {}

Inserts(outcome) == outcome \in {"snapshot", "errorAfterInsert"}

\* Mutant: null, nothing new to capture, counts as a snapshot.
CountAnyReturn(tally, a, outcome) ==
  [processed |-> tally.processed + 1,
   created   |-> tally.created + (IF outcome \in {"snapshot", "null"} THEN 1 ELSE 0),
   failures  |-> tally.failures \cup
                 (IF outcome \in {"error", "errorAfterInsert"} THEN {a} ELSE {}),
   reached   |-> tally.reached \cup {a}]

\* Mutant: processed counted before the call, and again in the catch.
CountFailureTwice(tally, a, outcome) ==
  [processed |-> tally.processed + (IF outcome \in {"snapshot", "null"} THEN 1 ELSE 2),
   created   |-> tally.created + (IF outcome = "snapshot" THEN 1 ELSE 0),
   failures  |-> tally.failures,
   reached   |-> tally.reached \cup {a}]

\* One round of the loop: processed is counted before the call.
Count(tally, a, outcome) ==
  [processed |-> tally.processed + 1,
   created   |-> tally.created + (IF outcome = "snapshot" THEN 1 ELSE 0),
   failures  |-> tally.failures \cup
                 (IF outcome \in {"error", "errorAfterInsert"} THEN {a} ELSE {}),
   reached   |-> tally.reached \cup {a}]

-----------------------------------------------------------------------------
Init ==
  /\ aggregates = {}
  /\ rows = [j \in Jobs |-> NoRow]
  /\ creating = {}
  /\ queue = [j \in Jobs |-> "none"]
  /\ lock = [j \in Jobs |-> None]
  /\ stalled = [j \in Jobs |-> 0]
  /\ pc = [w \in Slots |-> "idle"]
  /\ run = [w \in Slots |-> NoRun]
  /\ crashes = 0
  /\ written = [j \in Jobs |-> 0]
  /\ existing = [j \in Jobs |-> {}]
  /\ troubled = {}

Goto(w, label) == pc' = [pc EXCEPT ![w] = label]

bullmq == <<creating, queue, lock, stalled, crashes>>

-----------------------------------------------------------------------------
(* ReplayJobsService.create *)

CreateRow(j, scope) ==
  /\ rows[j].status = "absent"
  /\ rows' = [rows EXCEPT ![j] = [NoRow EXCEPT !.status = "pending",
                                               !.scope = scope]]
  /\ creating' = creating \cup {j}
  /\ existing' = [existing EXCEPT ![j] = aggregates]
  /\ UNCHANGED <<aggregates, queue, lock, stalled, pc, run, crashes, written,
                 troubled>>

AddToQueue(j) ==
  /\ j \in creating
  /\ creating' = creating \ {j}
  /\ queue' = [queue EXCEPT ![j] = "waiting"]
  /\ UNCHANGED <<aggregates, rows, lock, stalled, pc, run, crashes, written,
                 existing, troubled>>

\* queue.add throws, or the process dies before it: the row is left behind.
AddFails(j) ==
  /\ Faults \cap {"redis", "crash"} # {}
  /\ j \in creating
  /\ creating' = creating \ {j}
  /\ troubled' = troubled \cup {j}
  /\ UNCHANGED <<aggregates, rows, queue, lock, stalled, pc, run, crashes,
                 written, existing>>

-----------------------------------------------------------------------------
(* ReplayJobProcessor.process *)

TakeJob(w, j) ==
  /\ pc[w] = "idle"
  /\ queue[j] = "waiting"
  /\ queue' = [queue EXCEPT ![j] = "active"]
  /\ lock' = [lock EXCEPT ![j] = w]
  /\ run' = [run EXCEPT ![w] = [NoRun EXCEPT !.job = j]]
  /\ Goto(w, "markRunning")
  /\ UNCHANGED <<aggregates, rows, creating, stalled, crashes, written, existing,
                 troubled>>

\* An update of the row of slot w's job: it succeeds and w goes on to next, or
\* it fails, with or without effect, and w goes on to caught.
Update(w, fields, next, caught) ==
  LET j == run[w].job IN
  /\ UNCHANGED <<aggregates, run, written, existing>>
  /\ UNCHANGED bullmq
  /\ \/ /\ rows' = [rows EXCEPT ![j] = fields]
        /\ Goto(w, next)
        /\ UNCHANGED troubled
     \/ /\ \/ "db" \in Faults /\ UNCHANGED rows
           \/ "lost" \in Faults /\ rows' = [rows EXCEPT ![j] = fields]
        /\ Goto(w, caught)
        /\ troubled' = troubled \cup {j}

\* Outside the try: a failure goes straight to BullMQ.
MarkRunning(w) ==
  /\ pc[w] = "markRunning"
  /\ Update(w, [rows[run[w].job] EXCEPT !.status = "running"],
            "findScope", "threw")

FindAggregateIdsForScope(w) ==
  /\ pc[w] = "findScope"
  /\ \/ /\ run' = [run EXCEPT ![w].todo =
                     InScope(aggregates, rows[run[w].job].scope)]
        /\ Goto(w, "loop")
        /\ UNCHANGED troubled
     \/ /\ "db" \in Faults
        /\ troubled' = troubled \cup {run[w].job}
        /\ Goto(w, "markFailed")
        /\ UNCHANGED run
  /\ UNCHANGED <<aggregates, rows, written, existing, bullmq>>

\* Mutant: no try around createSnapshot, its error reaches the outer catch.
AbortOnError(outcome) ==
  IF outcome \in {"error", "errorAfterInsert"} THEN "markFailed" ELSE "loop"

\* The inner catch: the loop goes on whatever createSnapshot did.
AfterSnapshot(outcome) == "loop"

\* One aggregate; the order is the query's, which asks for none.
CreateSnapshot(w, a) ==
  /\ pc[w] = "loop"
  /\ a \in run[w].todo
  /\ \E outcome \in Outcomes :
       /\ run' = [run EXCEPT ![w].todo = @ \ {a},
                             ![w].tally = Count(@, a, outcome)]
       /\ Goto(w, AfterSnapshot(outcome))
       /\ written' = IF Inserts(outcome)
                     THEN [written EXCEPT ![run[w].job] = @ + 1]
                     ELSE written
  /\ UNCHANGED <<aggregates, rows, existing, troubled, bullmq>>

Completed(row, tally) ==
  [row EXCEPT !.status = "completed", !.result = tally]

MarkCompleted(w) ==
  /\ pc[w] = "loop"
  /\ run[w].todo = {}
  /\ Update(w, Completed(rows[run[w].job], run[w].tally), "done", "markFailed")

\* Mutant: the error is not rethrown.
MarkFailedSwallowing(w) ==
  /\ pc[w] = "markFailed"
  /\ Update(w, [rows[run[w].job] EXCEPT !.status = "failed", !.error = TRUE],
            "done", "threw")

\* The catch: the row is marked, and the error rethrown (or that of markFailed).
MarkFailed(w) ==
  /\ pc[w] = "markFailed"
  /\ Update(w, [rows[run[w].job] EXCEPT !.status = "failed", !.error = TRUE],
            "threw", "threw")

-----------------------------------------------------------------------------
(* BullMQ and the environment *)

\* Mutant: the queue is given more attempts, so a job that threw runs again.
AfterThrowRetried == "waiting"

\* One attempt: no attempts option is given to queue.add.
AfterThrow == "failed"

Rest(w) ==
  /\ Goto(w, "idle")
  /\ run' = [run EXCEPT ![w] = NoRun]

\* The slot reports the end of its run; without the lock, to no effect.
Finish(w) ==
  /\ pc[w] \in {"done", "threw"}
  /\ LET j == run[w].job IN
       IF lock[j] = w
       THEN /\ queue' = [queue EXCEPT ![j] = IF pc[w] = "done" THEN "completed"
                                             ELSE AfterThrow]
            /\ lock' = [lock EXCEPT ![j] = None]
       ELSE UNCHANGED <<queue, lock>>
  /\ Rest(w)
  /\ UNCHANGED <<aggregates, rows, creating, stalled, crashes, written, existing,
                 troubled>>

\* The process dies; Redis keeps the lock until it expires.
Crash(w) ==
  /\ "crash" \in Faults
  /\ crashes < MaxCrashes
  /\ pc[w] # "idle"
  /\ crashes' = crashes + 1
  /\ Rest(w)
  /\ UNCHANGED <<aggregates, rows, creating, queue, lock, stalled, written,
                 existing, troubled>>

GivenUp(j) == stalled[j] >= MaxStalled

\* The check for stalled jobs finds a lock that expired.
RecoverStalled(j) ==
  /\ queue[j] = "active"
  /\ stalled' = [stalled EXCEPT ![j] = @ + 1]
  /\ queue' = [queue EXCEPT ![j] = IF GivenUp(j) THEN "failed" ELSE "waiting"]
  /\ lock' = [lock EXCEPT ![j] = None]
  /\ UNCHANGED <<aggregates, rows, creating, pc, run, written, existing, troubled>>

\* Its slot is dead, or runs something else since.
RecoverDead(j) ==
  /\ lock[j] # None
  /\ run[lock[j]].job # j
  /\ RecoverStalled(j)
  /\ UNCHANGED crashes

\* Its slot is alive and goes on, unaware.
RecoverBlocked(j) ==
  /\ "stall" \in Faults
  /\ crashes < MaxCrashes
  /\ lock[j] # None
  /\ run[lock[j]].job = j
  /\ RecoverStalled(j)
  /\ crashes' = crashes + 1

\* The first append of an aggregate commits.
NewAggregate(a) ==
  /\ a \notin aggregates
  /\ aggregates' = aggregates \cup {a}
  /\ UNCHANGED <<rows, pc, run, written, existing, troubled, bullmq>>

-----------------------------------------------------------------------------
SlotStep(w) ==
  \/ MarkRunning(w)
  \/ FindAggregateIdsForScope(w)
  \/ \E a \in Aggregates : CreateSnapshot(w, a)
  \/ MarkCompleted(w)
  \/ MarkFailed(w)
  \/ Finish(w)

Next ==
  \/ \E j \in Jobs, scope \in Types \cup {AllTypes} : CreateRow(j, scope)
  \/ \E j \in Jobs : AddToQueue(j) \/ AddFails(j)
  \/ \E w \in Slots, j \in Jobs : TakeJob(w, j)
  \/ \E w \in Slots : SlotStep(w) \/ Crash(w)
  \/ \E j \in Jobs : RecoverDead(j) \/ RecoverBlocked(j)
  \/ \E a \in Aggregates : NewAggregate(a)

Spec == Init /\ [][Next]_vars

\* The event loops of live processes run, workers take what is waiting, and the
\* stalled check runs every 30 s.  Nothing obliges callers or failures.
FairSpec ==
  /\ Spec
  /\ \A j \in Jobs : WF_vars(AddToQueue(j)) /\ WF_vars(RecoverDead(j))
  /\ \A j \in Jobs : WF_vars(\E w \in Slots : TakeJob(w, j))
  /\ \A w \in Slots : WF_vars(SlotStep(w))

-----------------------------------------------------------------------------
(* Properties *)

TypeOK ==
  /\ aggregates \subseteq Aggregates
  /\ rows \in [Jobs -> Row]
  /\ creating \subseteq Jobs
  /\ queue \in [Jobs -> {"none", "waiting", "active", "completed", "failed"}]
  /\ lock \in [Jobs -> Slots \cup {None}]
  /\ stalled \in [Jobs -> 0..(MaxStalled + 1)]
  /\ pc \in [Slots -> {"idle", "markRunning", "findScope", "loop", "markFailed",
                       "done", "threw"}]
  /\ run \in [Slots -> Run]
  /\ crashes \in 0..MaxCrashes
  /\ written \in [Jobs -> Nat]
  /\ existing \in [Jobs -> SUBSET Aggregates]
  /\ troubled \subseteq Jobs

\* The summary a caller polls is true (replay-jobs/README.md:12), whatever
\* crashed, stalled or was run twice on the way: a completed job has a result;
\* every aggregate of its scope that existed when the job was created was tried,
\* each once; failures and snapshots are of different aggregates; and no more
\* snapshots are reported than were written for it.
Counted(j, tally) ==
  /\ tally.processed = Cardinality(tally.reached)
  /\ tally.reached = InScope(tally.reached, rows[j].scope)
  /\ tally.failures \subseteq tally.reached
  /\ tally.created + Cardinality(tally.failures) <= tally.processed
  /\ tally.created <= written[j]

Truthful(j, tally) ==
  /\ Counted(j, tally)
  /\ InScope(existing[j], rows[j].scope) \subseteq tally.reached

ResultTruthful ==
  \A j \in Jobs :
    /\ rows[j].status = "completed" => rows[j].result # None
    /\ rows[j].result # None => Truthful(j, rows[j].result)

\* While slots live and keep their locks, and whatever queries fail, a caller that
\* polled "completed" or "failed" may stop: the job does not run again, its result stays
\* and a failure remains one.  (A completed row may still turn failed, result and
\* all, when the answer to markCompleted is lost.)
Ended == {"completed", "failed"}

EndIsFinal ==
  [][\A j \in Jobs :
       crashes' = 0 /\ rows[j].status \in Ended =>
         /\ rows'[j].status \in Ended
         /\ rows'[j].result = rows[j].result
         /\ rows[j].status = "failed" => rows'[j] = rows[j]]_rows

\* Under the same conditions the queue and the row agree: what BullMQ counts as
\* completed has a completed row, and what the row calls failed BullMQ has failed,
\* or is about to.
QueueAgrees ==
  crashes = 0 => \A j \in Jobs :
    /\ queue[j] = "completed" => rows[j].status = "completed"
    /\ rows[j].status = "failed" =>
         queue[j] = "failed" \/ \E w \in Slots : run[w].job = j /\ pc[w] = "threw"

-----------------------------------------------------------------------------
(* The inductive invariant behind the safety properties *)

\* A row comes before its job, a lock is that of an active job, and a job that may
\* run has not been found stalled too often.
JobSound(j) ==
  /\ rows[j].status = "absent" =>
       rows[j].result = None /\ j \notin creating /\ queue[j] = "none"
  /\ j \in creating => queue[j] = "none"
  /\ lock[j] # None <=> queue[j] = "active"
  /\ queue[j] \in {"none", "waiting", "active"} => stalled[j] <= MaxStalled
  /\ existing[j] \subseteq aggregates

\* Whichever slots run a job, each counts truly, and has counted or has yet to
\* count all that existed.
RunSound(w) ==
  LET j == run[w].job
      tally == run[w].tally IN
  pc[w] # "idle" =>
    /\ j \in Jobs
    /\ rows[j].status # "absent"
    /\ Counted(j, tally)
    /\ pc[w] \in {"markRunning", "findScope"} => tally = NoTally
    /\ pc[w] = "loop" =>
         /\ run[w].todo = InScope(run[w].todo, rows[j].scope)
         /\ run[w].todo \cap tally.reached = {}
         /\ InScope(existing[j], rows[j].scope) \subseteq run[w].todo \cup tally.reached

\* The status of a row whose slot is at each call.
StatusAt(label) ==
  CASE label = "markRunning" -> {"pending"}
    [] label \in {"findScope", "loop"} -> {"running"}
    [] label = "markFailed" -> {"running", "completed"}
    [] label = "done" -> {"completed"}
    [] OTHER -> {"pending", "running", "completed", "failed"}

\* The job a slot runs is locked by it, and its row is at the slot's call.
RunsAlone(w) ==
  pc[w] # "idle" =>
    lock[run[w].job] = w /\ rows[run[w].job].status \in StatusAt(pc[w])

\* A lock is that of a slot that runs the job, which nothing has run before.
LocksAlive(j) ==
  /\ lock[j] # None => pc[lock[j]] # "idle" /\ run[lock[j]].job = j
  /\ queue[j] \in {"none", "waiting"} => rows[j].status \in {"absent", "pending"}

\* While slots live and keep their locks, a job is run once.
Undisturbed ==
  crashes = 0 => /\ \A w \in Slots : RunsAlone(w)
                 /\ \A j \in Jobs : LocksAlive(j)

IInv ==
  /\ TypeOK
  /\ \A j \in Jobs : JobSound(j)
  /\ \A w \in Slots : RunSound(w)
  /\ ResultTruthful
  /\ Undisturbed
  /\ QueueAgrees

-----------------------------------------------------------------------------
(* A property of fair behaviours *)

\* "One bad aggregate shouldn't prevent every other aggregate in scope from
\* being processed" (replay-jobs/README.md:12), and a job whose process dies is
\* run again: a row that says pending comes to say completed, unless the job was
\* never enqueued, one of its own queries failed, or more crashes and stalls
\* happened than BullMQ forgives.  Nothing else leaves a caller waiting.
PendingCompletes ==
  \A j \in Jobs :
    rows[j].status = "pending" ~> \/ rows[j].status = "completed"
                                  \/ crashes > MaxStalled
                                  \/ j \in troubled

-----------------------------------------------------------------------------
(* Statements of the documentation that the code does not keep *)

\* replay-jobs/README.md:12: the job is marked failed "if something outside the
\* per-aggregate loop throws".
FailureIsRecorded ==
  \A j \in Jobs : queue[j] = "failed" => rows[j].status = "failed"
=============================================================================
