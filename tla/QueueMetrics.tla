---------------------------- MODULE QueueMetrics ----------------------------
(***************************************************************************)
(* QueueMetricsService: an interval that awaits nothing starts polls, and  *)
(* each asks every queue for its waiting and its active jobs, as two       *)
(* calls, and sets the gauge queue_depth once it has both.                 *)
(*                                                                         *)
(* The calls of a queue share one connection to Redis (external), which    *)
(* executes and answers them in the order they were sent; jobs move in     *)
(* between.  Polls of one queue therefore end in the order they began, and *)
(* the queues do not wait for each other.                                  *)
(***************************************************************************)
EXTENDS Naturals, FiniteSets, Sequences

CONSTANTS Queues,      \* snapshot-creation, replay-jobs
          Jobs,        \* jobs that are ever added
          QueueOf,     \* the queue of each job
          None,        \* no count yet, a gauge that was never set
          MaxPolls,    \* bound on the polls under way at once
          MaxMishaps   \* bound on failing calls and stalled jobs

ASSUME QueueMetricsAssumption ==
  /\ IsFiniteSet(Jobs)
  /\ QueueOf \in [Jobs -> Queues]
  /\ None \notin Nat
  /\ MaxPolls \in Nat \ {0}
  /\ MaxMishaps \in Nat

VARIABLES
  job,       \* what Redis has of each job
  gauge,     \* queue_depth, per queue: a number for each of the two states
  interval,  \* intervalHandle: armed, or cleared
  polls,     \* per queue, the polls that wait for its answers, oldest first
  process,   \* "up", or which handler or error ended the process
  mishaps    \* failing calls and stalled jobs so far

metricsVars == <<job, gauge, interval, polls, process, mishaps>>

States == {"waiting", "active"}

JobsIn(q, state) == {j \in Jobs : QueueOf[j] = q /\ job[j] = state}
Depth(q, state) == Cardinality(JobsIn(q, state))
Depths(q) == [state \in States |-> Depth(q, state)]
Present(q) == JobsIn(q, "waiting") \cup JobsIn(q, "active")

\* The answer to the first call; history: the jobs that have been in the queue
\* since, without going back.
NewPoll(q) == [first |-> None, stayed |-> Present(q)]

MetricsInit ==
  /\ job = [j \in Jobs |-> "none"]
  /\ gauge = [q \in Queues |-> None]
  /\ interval = "armed"
  /\ polls = [q \in Queues |-> <<>>]
  /\ process = "up"
  /\ mishaps = 0

-----------------------------------------------------------------------------
(* pollOnce and recordQueueDepth *)

Tick ==
  /\ process = "up"
  /\ interval = "armed"
  /\ \A q \in Queues : Len(polls[q]) < MaxPolls
  /\ polls' = [q \in Queues |-> Append(polls[q], NewPoll(q))]
  /\ UNCHANGED <<job, gauge, interval, process, mishaps>>

\* Mutant: the calls change places.
CallsReversed == <<"active", "waiting">>

\* The order in which recordQueueDepth makes its two calls.
Calls == <<"waiting", "active">>

FirstAnswer(q) ==
  /\ polls[q] # <<>>
  /\ Head(polls[q]).first = None
  /\ polls' = [polls EXCEPT ![q][1].first = Depth(q, Calls[1])]
  /\ UNCHANGED <<job, gauge, interval, process, mishaps>>

\* Mutant: an empty queue is not worth a sample.
SetUnlessEmpty(q, depths) ==
  gauge' = IF \A state \in States : depths[state] = 0 THEN gauge
           ELSE [gauge EXCEPT ![q] = depths]

\* Mutant: the gauge is increased like a counter.
Increase(q, depths) ==
  gauge' = [gauge EXCEPT ![q] =
              IF @ = None THEN depths
              ELSE [state \in States |-> @[state] + depths[state]]]

Set(q, depths) == gauge' = [gauge EXCEPT ![q] = depths]

SecondAnswer(q) ==
  /\ polls[q] # <<>>
  /\ Head(polls[q]).first # None
  /\ Set(q, [state \in States |->
               IF state = Calls[1] THEN Head(polls[q]).first ELSE Depth(q, state)])
  /\ polls' = [polls EXCEPT ![q] = Tail(@)]
  /\ UNCHANGED <<job, interval, process, mishaps>>

\* Mutant: no catch; node ends a process that leaves a rejection unhandled.
AfterRejectionUncaught == "error"

\* pollOnce logs the error, and the interval goes on.
AfterRejection == "up"

\* Either call is rejected; the other's answer, if it comes, is dropped.
CallFails(q) ==
  /\ polls[q] # <<>>
  /\ mishaps < MaxMishaps
  /\ mishaps' = mishaps + 1
  /\ process' = AfterRejection
  /\ polls' = [polls EXCEPT ![q] = Tail(@)]
  /\ UNCHANGED <<job, gauge, interval>>

\* onModuleDestroy; polls under way go on.
StopPolling ==
  /\ interval' = "cleared"
  /\ UNCHANGED <<job, gauge, polls, process, mishaps>>

-----------------------------------------------------------------------------
(* Jobs, as BullMQ moves them *)

\* History: a job that is active no longer has not stayed.
Noticed(ps, j, from) ==
  [i \in 1..Len(ps) |->
     [ps[i] EXCEPT !.stayed = IF from = "active" THEN @ \ {j} ELSE @]]

Move(j, from, to) ==
  /\ job[j] = from
  /\ job' = [job EXCEPT ![j] = to]
  /\ polls' = [polls EXCEPT ![QueueOf[j]] = Noticed(@, j, from)]
  /\ UNCHANGED <<gauge, interval, process>>

AddJob(j) == Move(j, "none", "waiting") /\ UNCHANGED mishaps
TakeJob(j) == Move(j, "waiting", "active") /\ UNCHANGED mishaps
EndJob(j) == Move(j, "active", "ended") /\ UNCHANGED mishaps

\* The job lost its lock, and another attempt may take it.
StallJob(j) ==
  /\ mishaps < MaxMishaps
  /\ Move(j, "active", "waiting")
  /\ mishaps' = mishaps + 1

-----------------------------------------------------------------------------
(* Properties *)

TypeOK ==
  LET Numbers == 0..Cardinality(Jobs) IN
  /\ job \in [Jobs -> {"none", "waiting", "active", "ended"}]
  /\ gauge \in [Queues -> [States -> Numbers] \cup {None}]
  /\ interval \in {"armed", "cleared"}
  /\ polls \in [Queues -> Seq([first : Numbers \cup {None}, stayed : SUBSET Jobs])]
  /\ \A q \in Queues : Len(polls[q]) <= MaxPolls
  /\ process \in {"up", "main", "tracer", "error"}
  /\ mishaps \in 0..MaxMishaps

\* The two counts are not of one instant, and a job that is taken in between is
\* in both of them; but no job is in neither, unless it came, ended or went back
\* meanwhile.  So the gauges together never report less than was there.
DepthNotUnderstated ==
  [][\A q \in Queues : SecondAnswer(q) =>
       gauge'[q]["waiting"] + gauge'[q]["active"]
         >= Cardinality(Head(polls[q]).stayed)]_metricsVars

\* The invariant behind it: what stayed is there, and of that no more is waiting
\* than the first call was told.
PollSound(q, poll) ==
  /\ poll.stayed \subseteq Present(q)
  /\ poll.first # None =>
       Cardinality({j \in poll.stayed : job[j] = "waiting"}) <= poll.first

PollsSound == \A q \in Queues : \A i \in 1..Len(polls[q]) : PollSound(q, polls[q][i])

\* However many polls overlap and fail, the gauges come to show the queues once
\* jobs stop moving.
GaugesConverge ==
  <>[](\/ process # "up"
       \/ interval = "cleared"
       \/ \A q \in Queues : gauge[q] = Depths(q))
=============================================================================
