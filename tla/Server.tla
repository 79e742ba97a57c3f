------------------------------- MODULE Server -------------------------------
(***************************************************************************)
(* One server process that is asked to stop.  Three listeners hear the     *)
(* signal: the tracer's (tracing.ts), the one Nest adds for                *)
(* enableShutdownHooks, and main's own, which calls app.close().  The last *)
(* two go through the same phases side by side:                            *)
(*                                                                         *)
(*   "destroy"   onModuleDestroy: clearInterval, $disconnect, redis.quit   *)
(*   "dispose"   the HTTP server stops listening                           *)
(*   "drain"     and waits for the requests under way                      *)
(*   "shutdown"  queues and workers close; workers wait for their jobs     *)
(*                                                                         *)
(* while requests (here readiness probes) and jobs go on.  Nest's phases   *)
(* and BullMQ's close are external.  The signal Nest sends again when it   *)
(* is done finds the other two handlers running.                           *)
(***************************************************************************)
EXTENDS QueueMetrics

CONSTANT Probes  \* GET /health/ready requests

VARIABLES
  asked,   \* SIGTERM or SIGINT has arrived
  closer,  \* the phase of each of the two
  probe    \* the state of each probe

serverVars == <<asked, closer, probe>>
allVars == <<metricsVars, serverVars>>

Closers == {"nest", "main"}
Dependencies == {"database", "redis"}

\* late is a history: the cache's client had quit when the probe began.
NoProbe == [checks |-> [d \in Dependencies |-> "none"], answer |-> "none",
            late |-> FALSE]

ServerInit ==
  /\ MetricsInit
  /\ asked = FALSE
  /\ closer = [c \in Closers |-> "idle"]
  /\ probe = [p \in Probes |-> NoProbe]

Reached(phases) == \E c \in Closers : closer[c] \in phases

CacheHasQuit == Reached({"dispose", "drain", "shutdown", "done"})
Accepting == ~Reached({"drain", "shutdown", "done"})
Taking == ~Reached({"shutdown", "done"})

UnderWay(p) == probe[p].answer = "checking"

-----------------------------------------------------------------------------
(* HealthService.getReadiness *)

BeginProbe(p) ==
  /\ process = "up"
  /\ Accepting
  /\ ~UnderWay(p)
  /\ probe' = [probe EXCEPT ![p] =
                 [NoProbe EXCEPT !.answer = "checking", !.late = CacheHasQuit]]
  /\ UNCHANGED <<metricsVars, asked, closer>>

\* Mutant: Redis is asked through RedisCacheService, which fails open.
CheckFailOpen(d) == IF d = "redis" THEN {"ok"} ELSE {"ok", "error"}

\* What checkDatabase and checkRedis may find.  Prisma connects again when it is
\* used after $disconnect; the Redis client, once it has quit, rejects a ping.
Check(d) == IF d = "redis" /\ CacheHasQuit THEN {"error"} ELSE {"ok", "error"}

\* Mutant: a missing cache degrades the service only.
VerdictDegraded(checks) ==
  IF checks["database"] = "error" THEN "not_ready"
  ELSE IF checks["redis"] = "error" THEN "degraded" ELSE "ready"

Verdict(checks) ==
  IF \A d \in Dependencies : checks[d] = "ok" THEN "ready" ELSE "not_ready"

\* The two checks are made at once; the later one to end answers the probe.
CheckDependency(p, d) ==
  /\ process = "up"
  /\ UnderWay(p)
  /\ probe[p].checks[d] = "none"
  /\ \E status \in Check(d) :
       LET checks == [probe[p].checks EXCEPT ![d] = status] IN
       probe' = [probe EXCEPT ![p] =
         IF \E e \in Dependencies : checks[e] = "none" THEN [@ EXCEPT !.checks = checks]
         ELSE [NoProbe EXCEPT !.answer = Verdict(checks), !.late = probe[p].late]]
  /\ UNCHANGED <<metricsVars, asked, closer>>

-----------------------------------------------------------------------------
(* Stopping *)

\* All three listeners begin.
Signal ==
  /\ process = "up"
  /\ ~asked
  /\ asked' = TRUE
  /\ closer' = [c \in Closers |-> "destroy"]
  /\ UNCHANGED <<metricsVars, probe>>

\* The process ends, and with it what it had in memory; jobs and the connections
\* of requests stay behind.
Exit(who) ==
  /\ process' = who
  /\ gauge' = [q \in Queues |-> None]
  /\ interval' = "cleared"
  /\ polls' = [q \in Queues |-> <<>>]
  /\ closer' = [c \in Closers |-> "idle"]
  /\ UNCHANGED <<job, mishaps, asked, probe>>

Enter(c, phase) == closer' = [closer EXCEPT ![c] = phase]

\* The second to quit the Redis client may find it closed.
RunDestroyHooks(c) ==
  /\ process = "up"
  /\ closer[c] = "destroy"
  /\ Enter(c, "dispose")
  /\ StopPolling
  /\ UNCHANGED <<asked, probe>>

\* Nest's handler then calls process.exit(1); main's leaves the rejection of
\* app.close() unhandled, which ends the process as well.
DestroyHookFails(c) ==
  /\ process = "up"
  /\ closer[c] = "destroy"
  /\ CacheHasQuit
  /\ Exit("error")

Proceed(c) ==
  /\ process = "up"
  /\ \/ closer[c] = "dispose" /\ Enter(c, "drain")
     \/ closer[c] = "drain" /\ (\A p \in Probes : ~UnderWay(p)) /\ Enter(c, "shutdown")
     \/ closer[c] = "shutdown" /\ (\A j \in Jobs : job[j] # "active") /\ Enter(c, "done")
  /\ UNCHANGED <<metricsVars, asked, probe>>

\* Mutant: the exit does not wait for the promise of app.close().
MainExitsAtOnce ==
  /\ process = "up"
  /\ closer["main"] # "idle"
  /\ Exit("main")

MainExits ==
  /\ process = "up"
  /\ closer["main"] = "done"
  /\ Exit("main")

\* sdk.shutdown() settles, either way.
TracerExits ==
  /\ process = "up"
  /\ asked
  /\ Exit("tracer")

-----------------------------------------------------------------------------
PollStep == Tick \/ \E q \in Queues : FirstAnswer(q) \/ SecondAnswer(q) \/ CallFails(q)

\* This process and others add jobs; the worker takes them.
JobStep(j) ==
  /\ process = "up"
  /\ \/ AddJob(j)
     \/ Taking /\ TakeJob(j)
     \/ EndJob(j)
     \/ StallJob(j)

ProbeStep(p) ==
  \/ BeginProbe(p)
  \/ \E d \in Dependencies : CheckDependency(p, d)

CloserStep(c) == RunDestroyHooks(c) \/ DestroyHookFails(c) \/ Proceed(c)

ServerNext ==
  \/ (PollStep \/ \E j \in Jobs : JobStep(j)) /\ UNCHANGED serverVars
  \/ \E p \in Probes : ProbeStep(p)
  \/ Signal
  \/ \E c \in Closers : CloserStep(c)
  \/ MainExits
  \/ TracerExits

ServerSpec == ServerInit /\ [][ServerNext]_allVars

\* The interval fires and Redis answers.  Requests and jobs may hang, and the
\* closers with them.
FairServerSpec ==
  /\ ServerSpec
  /\ WF_allVars(Tick /\ UNCHANGED serverVars)
  /\ \A q \in Queues :
       WF_allVars((FirstAnswer(q) \/ SecondAnswer(q)) /\ UNCHANGED serverVars)

-----------------------------------------------------------------------------
(* Properties *)

ServerTypeOK ==
  /\ asked \in BOOLEAN
  /\ closer \in [Closers -> {"idle", "destroy", "dispose", "drain", "shutdown",
                             "done"}]
  /\ probe \in [Probes -> [checks : [Dependencies -> {"none", "ok", "error"}],
                           answer : {"none", "checking", "ready", "not_ready"},
                           late : BOOLEAN]]

\* Nothing but a signal ends the process: no failing poll, whenever it fails.
ExitsOnlyWhenAsked == process # "up" => asked

\* main's exit cuts nothing short: when app.close() has come to its end, no
\* request is being answered and no job is being worked on, though the other
\* closer, requests and workers went on all the time.  (The tracer's exit may.)
MainExitsDrained ==
  process = "main" =>
    /\ \A p \in Probes : ~UnderWay(p)
    /\ \A j \in Jobs : job[j] # "active"

\* While the server closes it still accepts requests, after its Redis client has
\* quit: such a probe is never told that the service is ready.
NotReadyAfterQuit ==
  \A p \in Probes : probe[p].late => probe[p].answer # "ready"

-----------------------------------------------------------------------------
(* The inductive invariant behind the safety properties *)

\* Nothing closes before the signal, or after the end; then no answer comes that a
\* catch could take for a process that goes on.
StopsOnce ==
  /\ \A c \in Closers : closer[c] # "idle" => asked /\ process = "up"
  /\ process # "up" => \A q \in Queues : polls[q] = <<>>

\* What a phase has waited for does not come back.
PhasesDrained ==
  /\ Reached({"shutdown", "done"}) => \A p \in Probes : ~UnderWay(p)
  /\ Reached({"done"}) => \A j \in Jobs : job[j] # "active"

\* A probe that began after the Redis client had quit finds it so.
LateProbesFail ==
  \A p \in Probes :
    probe[p].late /\ UnderWay(p) /\ process = "up" =>
      CacheHasQuit /\ probe[p].checks["redis"] # "ok"

IInv ==
  /\ TypeOK
  /\ ServerTypeOK
  /\ PollsSound
  /\ StopsOnce
  /\ PhasesDrained
  /\ LateProbesFail
  /\ ExitsOnlyWhenAsked
  /\ MainExitsDrained
  /\ NotReadyAfterQuit

=============================================================================
