---------------------------- MODULE ServerProofs ----------------------------
(***************************************************************************)
(* Proofs about Server and QueueMetrics, for any queues, jobs, probes and  *)
(* bounds.  The metrics part follows single polls (PollSound); the rest    *)
(* follows the two closers, whose phases only go forward: what a phase has *)
(* waited for does not come back, since an earlier one stopped its source. *)
(***************************************************************************)
EXTENDS Server, FiniteSetTheorems, SequenceTheorems, TLAPS

-----------------------------------------------------------------------------
(* Counts *)

Numbers == 0..Cardinality(Jobs)
Poll == [first : Numbers \cup {None}, stayed : SUBSET Jobs]

\* A set of jobs is finite, and not larger than all of them.
LEMMA JobsFinite ==
  ASSUME NEW S \in SUBSET Jobs
  PROVE  IsFiniteSet(S) /\ Cardinality(S) \in Numbers
<1>1. IsFiniteSet(S) /\ Cardinality(S) <= Cardinality(Jobs)
  BY FS_Subset, QueueMetricsAssumption
<1>2. Cardinality(S) \in Nat /\ Cardinality(Jobs) \in Nat
  BY <1>1, FS_CardinalityType, QueueMetricsAssumption
<1> QED BY <1>1, <1>2 DEF Numbers

\* Fewer jobs make no larger number.
LEMMA JobsMonotone ==
  ASSUME NEW S \in SUBSET Jobs, NEW T \in SUBSET S
  PROVE  Cardinality(T) <= Cardinality(S)
BY JobsFinite, FS_Subset

\* No count is not a number.
LEMMA NoneIsNoNumber == None \notin Numbers
BY QueueMetricsAssumption DEF Numbers

\* A depth is a number of jobs.
LEMMA DepthTyped ==
  ASSUME NEW q, NEW state
  PROVE  Depth(q, state) \in Numbers
<1>1. JobsIn(q, state) \in SUBSET Jobs
  BY DEF JobsIn
<1> QED BY <1>1, JobsFinite DEF Depth

\* The polls of a queue are sequences of polls.
LEMMA PollsTyped ==
  ASSUME TypeOK, NEW q \in Queues
  PROVE  /\ polls[q] \in Seq(Poll)
         /\ Len(polls[q]) \in 0..MaxPolls
         /\ \A i \in 1..Len(polls[q]) : polls[q][i] \in Poll
<1>1. polls[q] \in Seq(Poll) /\ Len(polls[q]) <= MaxPolls
  BY DEF TypeOK, Poll, Numbers
<1> QED BY <1>1, ElementOfSeq, LenProperties, QueueMetricsAssumption

-----------------------------------------------------------------------------
(* What a step makes of the polls *)

\* A new poll comes after the others.
LEMMA TickEffect ==
  ASSUME TypeOK, Tick, NEW q \in Queues
  PROVE  /\ polls'[q] \in Seq(Poll) /\ Len(polls'[q]) <= MaxPolls
         /\ \A i \in 1..Len(polls'[q]) :
              \/ i \in 1..Len(polls[q]) /\ polls'[q][i] = polls[q][i]
              \/ polls'[q][i] = NewPoll(q)
<1>1. NewPoll(q) \in Poll
  BY DEF NewPoll, Poll, Present, JobsIn
<1>2. polls'[q] = Append(polls[q], NewPoll(q)) /\ Len(polls[q]) < MaxPolls
  BY DEF Tick
<1>3. polls[q] \in Seq(Poll) /\ Len(polls[q]) \in Nat
  BY PollsTyped
<1> HIDE DEF Poll
<1>4. /\ Append(polls[q], NewPoll(q)) \in Seq(Poll)
      /\ Len(Append(polls[q], NewPoll(q))) = Len(polls[q]) + 1
      /\ \A i \in 1..Len(polls[q]) : Append(polls[q], NewPoll(q))[i] = polls[q][i]
      /\ Append(polls[q], NewPoll(q))[Len(polls[q]) + 1] = NewPoll(q)
  BY <1>1, <1>3
<1> QED BY <1>2, <1>3, <1>4, QueueMetricsAssumption

\* The oldest poll of a queue goes, the others move up.
LEMMA TailEffect ==
  ASSUME TypeOK, NEW r \in Queues, polls[r] # <<>>,
         polls' = [polls EXCEPT ![r] = Tail(@)], NEW q \in Queues
  PROVE  /\ polls'[q] \in Seq(Poll) /\ Len(polls'[q]) <= MaxPolls
         /\ \A i \in 1..Len(polls'[q]) :
              \E n \in 1..Len(polls[q]) : polls'[q][i] = polls[q][n]
<1>1. polls'[q] = IF q = r THEN Tail(polls[q]) ELSE polls[q]
  BY DEF TypeOK
<1>2. polls[q] \in Seq(Poll) /\ Len(polls[q]) \in 0..MaxPolls
  BY PollsTyped
<1>3. CASE q # r
  BY <1>1, <1>2, <1>3
<1>4. CASE q = r
  <2>1. /\ Tail(polls[q]) \in Seq(Poll)
        /\ Len(Tail(polls[q])) = Len(polls[q]) - 1
        /\ \A i \in 1..Len(Tail(polls[q])) : Tail(polls[q])[i] = polls[q][i + 1]
    BY <1>2, <1>4, HeadTailProperties
  <2>2. Len(Tail(polls[q])) <= MaxPolls
    BY <1>2, <2>1, QueueMetricsAssumption
  <2>3. ASSUME NEW i \in 1..Len(Tail(polls[q]))
        PROVE  \E n \in 1..Len(polls[q]) : Tail(polls[q])[i] = polls[q][n]
    <3>1. i + 1 \in 1..Len(polls[q])
      BY <1>2, <2>1
    <3> QED BY <2>1, <3>1
  <2>4. polls'[q] = Tail(polls[q])
    BY <1>1, <1>4
  <2>5. ASSUME NEW i \in 1..Len(polls'[q])
        PROVE  \E n \in 1..Len(polls[q]) : polls'[q][i] = polls[q][n]
    BY <2>3, <2>4
  <2>6. polls'[q] \in Seq(Poll) /\ Len(polls'[q]) <= MaxPolls
    BY <2>1, <2>2, <2>4
  <2> QED BY <2>5, <2>6
<1> QED BY <1>3, <1>4

\* The first call of the oldest poll is answered.
LEMMA FirstEffect ==
  ASSUME TypeOK, NEW r \in Queues, FirstAnswer(r), NEW q \in Queues
  PROVE  /\ polls'[q] \in Seq(Poll) /\ Len(polls'[q]) <= MaxPolls
         /\ \A i \in 1..Len(polls'[q]) :
              /\ i \in 1..Len(polls[q])
              /\ \/ polls'[q][i] = polls[q][i]
                 \/ /\ polls'[q][i].first = Depth(q, "waiting")
                    /\ polls'[q][i].stayed = polls[q][i].stayed
<1>1. polls[q] \in Seq(Poll) /\ Len(polls[q]) \in 0..MaxPolls
      /\ polls \in [Queues -> Seq(Poll)]
  BY PollsTyped DEF TypeOK, Poll, Numbers
<1>2. polls' = [polls EXCEPT ![r][1].first = Depth(r, "waiting")] /\ polls[r] # <<>>
  BY DEF FirstAnswer, Calls
<1>3. CASE q # r
  BY <1>1, <1>2, <1>3
<1>4. CASE q = r
  <2> DEFINE x == [polls[q][1] EXCEPT !.first = Depth(q, "waiting")]
  <2>1. polls'[q] = [polls[q] EXCEPT ![1] = x]
    BY <1>1, <1>2, <1>4
  <2>2. 1 \in 1..Len(polls[q])
    BY <1>1, <1>2, <1>4, EmptySeq
  <2>3. polls[q][1] \in Poll
    BY <2>2, PollsTyped
  <2>4. /\ x \in Poll
        /\ x.first = Depth(q, "waiting") /\ x.stayed = polls[q][1].stayed
    BY <2>3, DepthTyped DEF Poll
  <2> HIDE DEF x
  <2>5. /\ polls'[q] \in Seq(Poll)
        /\ Len(polls'[q]) = Len(polls[q])
        /\ \A i \in 1..Len(polls[q]) : polls'[q][i] = IF i = 1 THEN x ELSE polls[q][i]
    BY <1>1, <2>1, <2>2, <2>4, ExceptSeq
  <2> QED BY <1>1, <2>4, <2>5
<1> QED BY <1>3, <1>4

\* A move of a job reaches every poll of its queue, and leaves the answers.
LEMMA MoveEffect ==
  ASSUME TypeOK, NEW j \in Jobs, NEW from, NEW to, Move(j, from, to), NEW q \in Queues
  PROVE  /\ polls'[q] \in Seq(Poll) /\ Len(polls'[q]) <= MaxPolls
         /\ \A i \in 1..Len(polls'[q]) :
              /\ i \in 1..Len(polls[q])
              /\ polls'[q][i].first = polls[q][i].first
              /\ q = QueueOf[j] /\ from = "active" =>
                   polls'[q][i].stayed = polls[q][i].stayed \ {j}
              /\ ~(q = QueueOf[j] /\ from = "active") =>
                   polls'[q][i].stayed = polls[q][i].stayed
<1>1. polls[q] \in Seq(Poll) /\ Len(polls[q]) \in 0..MaxPolls
  BY PollsTyped
<1>2. QueueOf[j] \in Queues /\ DOMAIN polls = Queues
  BY QueueMetricsAssumption DEF TypeOK
<1>3. polls'[q] = IF q = QueueOf[j] THEN Noticed(polls[q], j, from) ELSE polls[q]
  BY <1>2 DEF Move
<1>4. CASE q # QueueOf[j]
  BY <1>1, <1>3, <1>4
<1>5. CASE q = QueueOf[j]
  <2> DEFINE s == polls[q]
             t == polls'[q]
  <2>1. t = [i \in 1..Len(s) |->
               [s[i] EXCEPT !.stayed = IF from = "active" THEN @ \ {j} ELSE @]]
    BY <1>3, <1>5 DEF Noticed
  <2>2. Len(s) \in Nat /\ Len(s) <= MaxPolls /\ \A i \in 1..Len(s) : s[i] \in Poll
    BY PollsTyped, QueueMetricsAssumption
  <2> HIDE DEF s, t
  <2>3. ASSUME NEW i \in 1..Len(s)
        PROVE  /\ t[i] \in Poll
               /\ t[i].first = s[i].first
               /\ t[i].stayed = IF from = "active" THEN s[i].stayed \ {j}
                                ELSE s[i].stayed
    <3>1. t[i] = [s[i] EXCEPT !.stayed = IF from = "active" THEN @ \ {j} ELSE @]
      BY <2>1
    <3>2. s[i] \in Poll
      BY <2>2
    <3> QED BY <3>1, <3>2 DEF Poll
  <2>4. DOMAIN t = 1..Len(s) /\ t = [i \in 1..Len(s) |-> t[i]]
    BY <2>1
  <2>5. t \in [1..Len(s) -> Poll]
    BY <2>3, <2>4
  <2>6. t \in Seq(Poll) /\ Len(t) = Len(s)
    BY <2>2, <2>5
  <2>7. /\ t \in Seq(Poll) /\ Len(t) <= MaxPolls
        /\ \A i \in 1..Len(t) :
             /\ i \in 1..Len(s)
             /\ t[i].first = s[i].first
             /\ t[i].stayed = IF from = "active" THEN s[i].stayed \ {j}
                              ELSE s[i].stayed
    BY <2>2, <2>3, <2>6
  <2> QED BY <1>5, <2>7 DEF s, t
<1> QED BY <1>4, <1>5

-----------------------------------------------------------------------------
(* Polls and jobs *)

\* What is known of each poll, in the next state.
LEMMA PollsSoundNext ==
  ASSUME \A q \in Queues : \A i \in 1..Len(polls'[q]) :
           \A poll : poll = polls'[q][i] => PollSound(q, poll)'
  PROVE  PollsSound'
BY DEF PollsSound, PollSound

\* Without a move of a job, a poll stays sound.
LEMMA SoundStays ==
  ASSUME job' = job, NEW q, NEW poll, PollSound(q, poll)
  PROVE  PollSound(q, poll)'
BY DEF PollSound, Present, JobsIn

\* The first answer tells no less than what stayed and is waiting.
LEMMA AnswerSound ==
  ASSUME job' = job, NEW q, NEW old, old.stayed \in SUBSET Jobs, PollSound(q, old),
         NEW poll, poll.stayed = old.stayed, poll.first = Depth(q, "waiting")
  PROVE  PollSound(q, poll)'
<1>1. poll.stayed \subseteq Present(q)
  BY DEF PollSound
<1>2. {j \in poll.stayed : job[j] = "waiting"} \subseteq JobsIn(q, "waiting")
  BY <1>1 DEF Present, JobsIn
<1>3. JobsIn(q, "waiting") \in SUBSET Jobs
  BY DEF JobsIn
<1>4. Cardinality({j \in poll.stayed : job[j] = "waiting"}) <= poll.first
  BY <1>2, <1>3, JobsMonotone DEF Depth
<1> QED BY <1>1, <1>4 DEF PollSound, Present, JobsIn

\* A job that moves on is where the second call will count it; one that ends, or
\* goes back, is no longer among those that stayed.
LEMMA MoveSound ==
  ASSUME job \in [Jobs -> {"none", "waiting", "active", "ended"}],
         NEW j \in Jobs, NEW from, NEW to, job[j] = from,
         job' = [job EXCEPT ![j] = to],
         <<from, to>> \in {<<"none", "waiting">>, <<"waiting", "active">>,
                           <<"active", "ended">>, <<"active", "waiting">>},
         NEW q, NEW old, old.stayed \in SUBSET Jobs, PollSound(q, old),
         old.first \in Numbers \cup {None},
         NEW poll, poll.first = old.first,
         q = QueueOf[j] /\ from = "active" => poll.stayed = old.stayed \ {j},
         ~(q = QueueOf[j] /\ from = "active") => poll.stayed = old.stayed
  PROVE  PollSound(q, poll)'
<1> DEFINE before == {k \in old.stayed : job[k] = "waiting"}
           after == {k \in poll.stayed : job'[k] = "waiting"}
<1>1. old.stayed \subseteq Present(q)
  BY DEF PollSound
<1>2. job'[j] = to /\ \A k \in Jobs \ {j} : job'[k] = job[k]
  OBVIOUS
<1>3. j \in poll.stayed => from = "waiting" /\ to = "active"
  BY <1>1 DEF Present, JobsIn
<1>4. poll.stayed \subseteq Present(q)'
  BY <1>1, <1>2, <1>3 DEF Present, JobsIn
<1>5. after \subseteq before
  BY <1>2, <1>3
<1>6. before \in SUBSET Jobs
  OBVIOUS
<1>7. Cardinality(after) <= Cardinality(before)
  BY <1>5, <1>6, JobsMonotone
<1>8. Cardinality(after) \in Numbers /\ Cardinality(before) \in Numbers
  BY <1>5, <1>6, JobsFinite
<1>9. old.first # None => Cardinality(before) <= old.first
  BY DEF PollSound
<1>10. Cardinality(Jobs) \in Nat
  BY FS_CardinalityType, QueueMetricsAssumption
<1>11. poll.first # None => Cardinality(after) <= poll.first
  BY <1>7, <1>8, <1>9, <1>10 DEF Numbers
<1> QED BY <1>4, <1>11 DEF PollSound

-----------------------------------------------------------------------------
(* What a step leaves alone *)

\* The parts of the invariant that are about stopping and about probes.
ServerInv ==
  /\ ServerTypeOK
  /\ PhasesDrained
  /\ LateProbesFail
  /\ ExitsOnlyWhenAsked
  /\ MainExitsDrained
  /\ NotReadyAfterQuit

\* Polls are none of their business.
LEMMA ServerInvStays ==
  ASSUME ServerInv, UNCHANGED serverVars, process' = process, job' = job
  PROVE  ServerInv'
BY DEF ServerInv, ServerTypeOK, PhasesDrained, LateProbesFail, ExitsOnlyWhenAsked,
       MainExitsDrained, NotReadyAfterQuit, serverVars, Reached, UnderWay, CacheHasQuit

\* Nor are signals, phases and probes any of the polls'.
LEMMA MetricsStay ==
  ASSUME TypeOK, PollsSound, UNCHANGED <<job, gauge, polls, process, mishaps>>,
         interval' \in {"armed", "cleared"}
  PROVE  TypeOK' /\ PollsSound'
<1>1. TypeOK'
  BY DEF TypeOK
<1>2. ASSUME NEW q \in Queues, NEW i \in 1..Len(polls'[q]),
             NEW poll, poll = polls'[q][i]
      PROVE  PollSound(q, poll)'
  <2>1. PollSound(q, poll)
    BY <1>2 DEF PollsSound
  <2> QED BY <2>1, SoundStays
<1>3. PollsSound'
  BY <1>2, PollsSoundNext
<1> QED BY <1>1, <1>3

-----------------------------------------------------------------------------
(* The steps of the polls *)

\* An interval that fires adds a poll that has asked nothing yet.
LEMMA TickStep ==
  ASSUME IInv, Tick, UNCHANGED serverVars
  PROVE  IInv'
<1>1. TypeOK /\ PollsSound /\ StopsOnce /\ ServerInv
  BY DEF IInv, ServerInv
<1>2. job' = job /\ process' = process /\ process = "up"
  BY DEF Tick
<1>3. TypeOK'
  <2>1. polls' \in [Queues -> Seq(Poll)]
    <3>1. polls' = [q \in Queues |-> polls'[q]]
      BY DEF Tick
    <3>2. \A q \in Queues : polls'[q] \in Seq(Poll)
      BY <1>1, TickEffect
    <3> QED BY <3>1, <3>2
  <2>2. \A q \in Queues : Len(polls'[q]) <= MaxPolls
    BY <1>1, TickEffect
  <2> QED BY <1>1, <2>1, <2>2 DEF TypeOK, Tick, Poll, Numbers
<1>4. ASSUME NEW q \in Queues, NEW i \in 1..Len(polls'[q]),
             NEW poll, poll = polls'[q][i]
      PROVE  PollSound(q, poll)'
  <2>1. \/ i \in 1..Len(polls[q]) /\ poll = polls[q][i]
        \/ poll = NewPoll(q)
    BY <1>1, <1>4, TickEffect
  <2>2. CASE i \in 1..Len(polls[q]) /\ poll = polls[q][i]
    <3>1. PollSound(q, poll)
      BY <1>1, <2>2 DEF PollsSound
    <3> QED BY <1>2, <3>1, SoundStays
  <2>3. CASE poll = NewPoll(q)
    <3>1. PollSound(q, poll)
      BY <2>3 DEF PollSound, NewPoll
    <3> QED BY <1>2, <3>1, SoundStays
  <2> QED BY <2>1, <2>2, <2>3
<1>5. PollsSound'
  BY <1>4, PollsSoundNext
<1>6. StopsOnce'
  BY <1>1, <1>2 DEF StopsOnce, serverVars
<1>7. ServerInv'
  BY <1>1, <1>2, ServerInvStays
<1> QED BY <1>3, <1>5, <1>6, <1>7 DEF IInv, ServerInv

\* The answer to the first call is kept for later.
LEMMA FirstAnswerStep ==
  ASSUME IInv, NEW r \in Queues, FirstAnswer(r), UNCHANGED serverVars
  PROVE  IInv'
<1>1. TypeOK /\ PollsSound /\ StopsOnce /\ ServerInv
  BY DEF IInv, ServerInv
<1>2. job' = job /\ process' = process /\ polls[r] # <<>>
  BY DEF FirstAnswer
<1>3. TypeOK'
  <2>1. polls' \in [Queues -> Seq(Poll)]
    <3>1. polls' = [q \in Queues |-> polls'[q]]
      BY <1>1 DEF FirstAnswer, TypeOK
    <3>2. \A q \in Queues : polls'[q] \in Seq(Poll)
      BY <1>1, FirstEffect
    <3> QED BY <3>1, <3>2
  <2>2. \A q \in Queues : Len(polls'[q]) <= MaxPolls
    BY <1>1, FirstEffect
  <2> QED BY <1>1, <2>1, <2>2 DEF TypeOK, FirstAnswer, Poll, Numbers
<1>4. ASSUME NEW q \in Queues, NEW i \in 1..Len(polls'[q]),
             NEW poll, poll = polls'[q][i]
      PROVE  PollSound(q, poll)'
  <2> DEFINE old == polls[q][i]
  <2>1. /\ i \in 1..Len(polls[q])
        /\ \/ poll = old
           \/ poll.first = Depth(q, "waiting") /\ poll.stayed = old.stayed
    BY <1>1, <1>4, FirstEffect
  <2>2. PollSound(q, old) /\ old.stayed \in SUBSET Jobs
    BY <1>1, <2>1, PollsTyped DEF PollsSound, Poll
  <2> HIDE DEF old
  <2> QED BY <1>2, <2>1, <2>2, SoundStays, AnswerSound
<1>5. PollsSound'
  BY <1>4, PollsSoundNext
<1>6. StopsOnce'
  <2>1. process = "up"
    BY <1>1, <1>2 DEF StopsOnce
  <2> QED BY <1>1, <1>2, <2>1 DEF StopsOnce, serverVars
<1>7. ServerInv'
  BY <1>1, <1>2, ServerInvStays
<1> QED BY <1>3, <1>5, <1>6, <1>7 DEF IInv, ServerInv

\* A poll that ends, one way or the other, leaves the others as they were.
LEMMA PollEnds ==
  ASSUME TypeOK, PollsSound, NEW r \in Queues, polls[r] # <<>>, job' = job,
         polls' = [polls EXCEPT ![r] = Tail(@)]
  PROVE  /\ polls' \in [Queues -> Seq(Poll)]
         /\ \A q \in Queues : Len(polls'[q]) <= MaxPolls
         /\ PollsSound'
<1>1. polls' = [q \in Queues |-> polls'[q]]
  BY DEF TypeOK
<1>2. \A q \in Queues : polls'[q] \in Seq(Poll) /\ Len(polls'[q]) <= MaxPolls
  BY TailEffect
<1>3. ASSUME NEW q \in Queues, NEW i \in 1..Len(polls'[q]),
             NEW poll, poll = polls'[q][i]
      PROVE  PollSound(q, poll)'
  <2>1. PICK n \in 1..Len(polls[q]) : poll = polls[q][n]
    BY <1>3, TailEffect
  <2>2. PollSound(q, poll)
    BY <2>1 DEF PollsSound
  <2> QED BY <2>2, SoundStays
<1>4. PollsSound'
  BY <1>3, PollsSoundNext
<1> QED BY <1>1, <1>2, <1>4

\* The answer to the second call sets the gauge, from two numbers of jobs.
LEMMA SecondAnswerStep ==
  ASSUME IInv, NEW r \in Queues, SecondAnswer(r), UNCHANGED serverVars
  PROVE  IInv'
<1>1. TypeOK /\ PollsSound /\ StopsOnce /\ ServerInv
  BY DEF IInv, ServerInv
<1>2. /\ job' = job /\ process' = process /\ polls[r] # <<>>
      /\ polls' = [polls EXCEPT ![r] = Tail(@)]
  BY DEF SecondAnswer
<1>3. /\ polls' \in [Queues -> Seq(Poll)]
      /\ \A q \in Queues : Len(polls'[q]) <= MaxPolls
      /\ PollsSound'
  BY <1>1, <1>2, PollEnds
<1>4. gauge' \in [Queues -> [States -> Numbers] \cup {None}]
  <2> DEFINE depths == [state \in States |->
               IF state = "waiting" THEN Head(polls[r]).first ELSE Depth(r, state)]
  <2>1. gauge' = [gauge EXCEPT ![r] = depths] /\ Head(polls[r]).first # None
    BY DEF SecondAnswer, Set, Calls
  <2>2. Head(polls[r]) = polls[r][1] /\ 1 \in 1..Len(polls[r])
    BY <1>1, <1>2, PollsTyped, EmptySeq
  <2>3. Head(polls[r]).first \in Numbers
    BY <1>1, <2>1, <2>2, PollsTyped DEF Poll
  <2>4. depths \in [States -> Numbers]
    BY <2>3, DepthTyped
  <2> HIDE DEF depths
  <2> QED BY <1>1, <2>1, <2>4 DEF TypeOK, Numbers
<1>5. TypeOK'
  BY <1>1, <1>3, <1>4 DEF TypeOK, SecondAnswer, Poll, Numbers
<1>6. StopsOnce'
  <2>1. process = "up"
    BY <1>1, <1>2 DEF StopsOnce
  <2> QED BY <1>1, <1>2, <2>1 DEF StopsOnce, serverVars
<1>7. ServerInv'
  BY <1>1, <1>2, ServerInvStays
<1> QED BY <1>3, <1>5, <1>6, <1>7 DEF IInv, ServerInv

\* A call that fails ends its poll, and not the process.
LEMMA CallFailsStep ==
  ASSUME IInv, NEW r \in Queues, CallFails(r), UNCHANGED serverVars
  PROVE  IInv'
<1>1. TypeOK /\ PollsSound /\ StopsOnce /\ ServerInv
  BY DEF IInv, ServerInv
<1>2. /\ job' = job /\ polls[r] # <<>> /\ process' = "up"
      /\ polls' = [polls EXCEPT ![r] = Tail(@)]
  BY DEF CallFails, AfterRejection
<1>3. /\ polls' \in [Queues -> Seq(Poll)]
      /\ \A q \in Queues : Len(polls'[q]) <= MaxPolls
      /\ PollsSound'
  BY <1>1, <1>2, PollEnds
<1>4. process = "up"
  BY <1>1, <1>2 DEF StopsOnce
<1>5. mishaps' \in 0..MaxMishaps
  BY <1>1, QueueMetricsAssumption DEF TypeOK, CallFails
<1>6. TypeOK'
  BY <1>1, <1>2, <1>3, <1>5 DEF TypeOK, CallFails, Poll, Numbers
<1>7. StopsOnce'
  BY <1>1, <1>2, <1>4 DEF StopsOnce, serverVars
<1>8. ServerInv'
  BY <1>1, <1>2, <1>4, ServerInvStays
<1> QED BY <1>3, <1>6, <1>7, <1>8 DEF IInv, ServerInv

-----------------------------------------------------------------------------
(* The steps of jobs and probes *)

\* Whatever the job does, it is a move between two of its states, and no job is
\* taken once the workers close.
LEMMA JobStepMoves ==
  ASSUME NEW j \in Jobs, JobStep(j), TypeOK
  PROVE  /\ process = "up" /\ mishaps' \in 0..MaxMishaps
         /\ \E from, to :
              /\ Move(j, from, to)
              /\ <<from, to>> \in {<<"none", "waiting">>, <<"waiting", "active">>,
                                   <<"active", "ended">>, <<"active", "waiting">>}
              /\ to = "active" => Taking
<1>1. CASE AddJob(j)
  BY <1>1 DEF JobStep, AddJob, TypeOK
<1>2. CASE Taking /\ TakeJob(j)
  BY <1>2 DEF JobStep, TakeJob, TypeOK
<1>3. CASE EndJob(j)
  BY <1>3 DEF JobStep, EndJob, TypeOK
<1>4. CASE StallJob(j)
  BY <1>4, QueueMetricsAssumption DEF JobStep, StallJob, TypeOK
<1> QED BY <1>1, <1>2, <1>3, <1>4 DEF JobStep

\* A job moves.
LEMMA JobStepStep ==
  ASSUME IInv, NEW j \in Jobs, JobStep(j), UNCHANGED serverVars
  PROVE  IInv'
<1>1. TypeOK /\ PollsSound /\ StopsOnce /\ ServerInv
  BY DEF IInv, ServerInv
<1>2. PICK from, to :
        /\ Move(j, from, to)
        /\ <<from, to>> \in {<<"none", "waiting">>, <<"waiting", "active">>,
                             <<"active", "ended">>, <<"active", "waiting">>}
        /\ to = "active" => Taking
  BY <1>1, JobStepMoves
<1>3. process = "up" /\ process' = "up" /\ mishaps' \in 0..MaxMishaps
  BY <1>1, <1>2, JobStepMoves DEF Move
<1>4. /\ job \in [Jobs -> {"none", "waiting", "active", "ended"}]
      /\ job[j] = from /\ job' = [job EXCEPT ![j] = to]
  BY <1>1, <1>2 DEF Move, TypeOK
<1>5. TypeOK'
  <2>1. polls' \in [Queues -> Seq(Poll)]
    <3>1. polls' = [q \in Queues |-> polls'[q]]
      BY <1>1, <1>2 DEF Move, TypeOK
    <3>2. \A q \in Queues : polls'[q] \in Seq(Poll)
      BY <1>1, <1>2, MoveEffect
    <3> QED BY <3>1, <3>2
  <2>2. \A q \in Queues : Len(polls'[q]) <= MaxPolls
    BY <1>1, <1>2, MoveEffect
  <2>3. job' \in [Jobs -> {"none", "waiting", "active", "ended"}]
    BY <1>2, <1>4
  <2>4. polls' \in [Queues -> Seq([first : (0..Cardinality(Jobs)) \cup {None},
                                  stayed : SUBSET Jobs])]
    BY <2>1 DEF Poll, Numbers
  <2>5. UNCHANGED <<gauge, interval>>
    BY <1>2 DEF Move
  <2> QED BY <1>1, <1>3, <2>2, <2>3, <2>4, <2>5 DEF TypeOK
<1>6. ASSUME NEW q \in Queues, NEW i \in 1..Len(polls'[q]),
             NEW poll, poll = polls'[q][i]
      PROVE  PollSound(q, poll)'
  <2> DEFINE old == polls[q][i]
  <2>1. /\ i \in 1..Len(polls[q])
        /\ poll.first = old.first
        /\ q = QueueOf[j] /\ from = "active" => poll.stayed = old.stayed \ {j}
        /\ ~(q = QueueOf[j] /\ from = "active") => poll.stayed = old.stayed
    BY <1>1, <1>2, <1>6, MoveEffect
  <2>2. /\ PollSound(q, old) /\ old.stayed \in SUBSET Jobs
        /\ old.first \in Numbers \cup {None}
    BY <1>1, <2>1, PollsTyped DEF PollsSound, Poll
  <2>3. <<from, to>> \in {<<"none", "waiting">>, <<"waiting", "active">>,
                           <<"active", "ended">>, <<"active", "waiting">>}
    BY <1>2
  <2> HIDE DEF old
  <2> QED BY <1>4, <2>1, <2>2, <2>3, MoveSound, ZenonT(60)
<1>7. PollsSound'
  BY <1>6, PollsSoundNext
<1>8. StopsOnce'
  BY <1>1, <1>3 DEF StopsOnce, serverVars
<1>9. PhasesDrained'
  <2>1. UNCHANGED <<closer, probe>>
    BY DEF serverVars
  <2>2. Reached({"done"}) => \A k \in Jobs : job'[k] # "active"
    BY <1>1, <1>2, <1>4 DEF ServerInv, PhasesDrained, Taking, Reached
  <2> QED BY <1>1, <2>1, <2>2 DEF ServerInv, PhasesDrained, Reached, UnderWay
<1>10. ServerInv'
  BY <1>1, <1>3, <1>9 DEF ServerInv, ServerTypeOK, LateProbesFail, ExitsOnlyWhenAsked,
     MainExitsDrained, NotReadyAfterQuit, serverVars, Reached, UnderWay, CacheHasQuit
<1> QED BY <1>5, <1>7, <1>8, <1>10 DEF IInv, ServerInv

\* Steps of requests and closers that leave the polls alone.
LEMMA Together ==
  ASSUME IInv, UNCHANGED <<job, gauge, polls, process, mishaps>>,
         interval' \in {"armed", "cleared"}, StopsOnce', ServerInv'
  PROVE  IInv'
BY MetricsStay DEF IInv, ServerInv

\* The values of a probe.
Probe == [checks : [Dependencies -> {"none", "ok", "error"}],
          answer : {"none", "checking", "ready", "not_ready"},
          late : BOOLEAN]

\* One probe changes: what has to be known of it.
LEMMA ProbeChanges ==
  ASSUME IInv, NEW p \in Probes, NEW x \in Probe, probe' = [probe EXCEPT ![p] = x],
         process = "up", UNCHANGED <<metricsVars, asked, closer>>,
         ~Reached({"shutdown", "done"}),
         x.late => x.answer # "ready",
         x.late /\ x.answer = "checking" => CacheHasQuit /\ x.checks["redis"] # "ok"
  PROVE  IInv'
<1>1. TypeOK /\ StopsOnce /\ ServerInv
  BY DEF IInv, ServerInv
<1>2. probe \in [Probes -> Probe]
  BY <1>1 DEF ServerInv, ServerTypeOK, Probe
<1>3. \A r \in Probes : probe'[r] = IF r = p THEN x ELSE probe[r]
  BY <1>2
<1>4. probe' \in [Probes -> Probe]
  BY <1>2
<1>5. ServerTypeOK'
  BY <1>1, <1>4 DEF ServerInv, ServerTypeOK, Probe
<1>6. PhasesDrained'
  BY DEF PhasesDrained, Reached
<1>7. LateProbesFail'
  BY <1>1, <1>3 DEF ServerInv, LateProbesFail, UnderWay, CacheHasQuit, Reached
<1>8. ExitsOnlyWhenAsked' /\ MainExitsDrained'
  BY DEF ExitsOnlyWhenAsked, MainExitsDrained, metricsVars
<1>9. NotReadyAfterQuit'
  BY <1>1, <1>3 DEF ServerInv, NotReadyAfterQuit
<1>10. StopsOnce'
  BY <1>1 DEF StopsOnce, metricsVars
<1>11. interval' \in {"armed", "cleared"}
  BY <1>1 DEF TypeOK, metricsVars
<1> QED BY <1>5, <1>6, <1>7, <1>8, <1>9, <1>10, <1>11, Together
        DEF ServerInv, metricsVars

\* A probe begins only while the server accepts requests.
LEMMA BeginProbeStep ==
  ASSUME IInv, NEW p \in Probes, BeginProbe(p)
  PROVE  IInv'
<1> DEFINE x == [NoProbe EXCEPT !.answer = "checking", !.late = CacheHasQuit]
<1>1. CacheHasQuit \in BOOLEAN
  BY DEF CacheHasQuit, Reached
<1>2. /\ x.answer = "checking" /\ x.late = CacheHasQuit
      /\ x.checks = [d \in Dependencies |-> "none"]
      /\ x \in Probe
  BY <1>1 DEF NoProbe, Probe, Dependencies
<1>3. x.checks["redis"] = "none"
  BY <1>2 DEF Dependencies
<1>4. /\ probe' = [probe EXCEPT ![p] = x] /\ process = "up"
      /\ UNCHANGED <<metricsVars, asked, closer>> /\ Accepting
  BY DEF BeginProbe
<1>5. ~Reached({"shutdown", "done"})
  BY <1>4 DEF Accepting, Reached
<1> HIDE DEF x
<1> QED BY <1>2, <1>3, <1>4, <1>5, ProbeChanges

\* A check of a dependency is not "ok" for Redis once the client has quit.
LEMMA CheckDependencyStep ==
  ASSUME IInv, NEW p \in Probes, NEW d \in Dependencies, CheckDependency(p, d)
  PROVE  IInv'
<1>1. ServerInv
  BY DEF IInv, ServerInv
<1>2. /\ process = "up" /\ UnderWay(p)
      /\ UNCHANGED <<metricsVars, asked, closer>>
  BY DEF CheckDependency
<1>3. PICK status \in Check(d) :
       LET checks == [probe[p].checks EXCEPT ![d] = status] IN
       probe' = [probe EXCEPT ![p] =
         IF \E e \in Dependencies : checks[e] = "none" THEN [@ EXCEPT !.checks = checks]
         ELSE [NoProbe EXCEPT !.answer = Verdict(checks), !.late = probe[p].late]]
  BY DEF CheckDependency
<1> DEFINE checks == [probe[p].checks EXCEPT ![d] = status]
           going == [probe[p] EXCEPT !.checks = checks]
           ended == [NoProbe EXCEPT !.answer = Verdict(checks), !.late = probe[p].late]
<1>4. probe[p] \in Probe
  BY <1>1 DEF ServerInv, ServerTypeOK, Probe
<1>5. status \in {"ok", "error"}
  BY <1>3 DEF Check
<1>6. checks \in [Dependencies -> {"none", "ok", "error"}]
  BY <1>4, <1>5 DEF Probe
<1>7. probe[p].late => CacheHasQuit /\ checks["redis"] # "ok"
  BY <1>1, <1>2, <1>3, <1>4
     DEF ServerInv, LateProbesFail, Check, Dependencies, Probe
<1>8. Verdict(checks) \in {"ready", "not_ready"}
      /\ (checks["redis"] # "ok" => Verdict(checks) = "not_ready")
  BY DEF Verdict, Dependencies
<1>9. ~Reached({"shutdown", "done"})
  BY <1>1, <1>2 DEF ServerInv, PhasesDrained
<1>10. /\ going \in Probe /\ going.late = probe[p].late /\ going.answer = "checking"
       /\ going.checks = checks
  <2> HIDE DEF checks
  <2> QED BY <1>2, <1>4, <1>6 DEF Probe, UnderWay
<1>11. /\ ended \in Probe /\ ended.late = probe[p].late
       /\ ended.answer = Verdict(checks)
  <2> HIDE DEF checks
  <2>1. probe[p].late \in BOOLEAN
    BY <1>4 DEF Probe
  <2> QED BY <1>8, <2>1 DEF Probe, NoProbe
<1>12. probe' = [probe EXCEPT ![p] = going] \/ probe' = [probe EXCEPT ![p] = ended]
  BY <1>3
<1> HIDE DEF checks, going, ended
<1>13. CASE probe' = [probe EXCEPT ![p] = going]
  BY <1>2, <1>7, <1>9, <1>10, <1>13, ProbeChanges
<1>14. CASE probe' = [probe EXCEPT ![p] = ended]
  BY <1>2, <1>7, <1>8, <1>9, <1>11, <1>14, ProbeChanges
<1> QED BY <1>12, <1>13, <1>14

-----------------------------------------------------------------------------
(* The steps of the closers *)

\* The signal starts both closers; until then nothing was closed.
LEMMA SignalStep ==
  ASSUME IInv, Signal
  PROVE  IInv'
<1>1. TypeOK /\ StopsOnce /\ ServerInv
  BY DEF IInv, ServerInv
<1>2. /\ process = "up" /\ asked = FALSE /\ asked' = TRUE
      /\ closer' = [c \in Closers |-> "destroy"]
      /\ UNCHANGED <<job, gauge, interval, polls, process, mishaps, probe>>
  BY <1>1 DEF Signal, metricsVars, ServerInv, ServerTypeOK
<1>3. \A c \in Closers : closer[c] = "idle" /\ closer'[c] = "destroy"
  BY <1>1, <1>2 DEF StopsOnce
<1>4. StopsOnce'
  BY <1>1, <1>2 DEF StopsOnce
<1>5. ServerTypeOK'
  BY <1>1, <1>2 DEF ServerInv, ServerTypeOK
<1>6. PhasesDrained'
  BY <1>3 DEF PhasesDrained, Reached
<1>7. LateProbesFail'
  <2>1. ~CacheHasQuit
    BY <1>3 DEF CacheHasQuit, Reached
  <2>2. \A p \in Probes : ~(probe[p].late /\ UnderWay(p))
    BY <1>1, <1>2, <2>1 DEF ServerInv, LateProbesFail
  <2> QED BY <1>2, <2>2 DEF LateProbesFail, UnderWay
<1>8. ExitsOnlyWhenAsked' /\ MainExitsDrained' /\ NotReadyAfterQuit'
  BY <1>1, <1>2 DEF ServerInv, ExitsOnlyWhenAsked, MainExitsDrained, NotReadyAfterQuit
<1>9. interval' \in {"armed", "cleared"}
  BY <1>1, <1>2 DEF TypeOK
<1> QED BY <1>2, <1>4, <1>5, <1>6, <1>7, <1>8, <1>9, Together DEF ServerInv

\* A closer goes forward by one phase, and has waited for what the phase stops.
LEMMA PhaseChanges ==
  ASSUME IInv, NEW c \in Closers, NEW phase, Enter(c, phase), process = "up",
         <<closer[c], phase>> \in {<<"destroy", "dispose">>, <<"dispose", "drain">>,
                                   <<"drain", "shutdown">>, <<"shutdown", "done">>},
         phase = "shutdown" => \A p \in Probes : ~UnderWay(p),
         phase = "done" => \A j \in Jobs : job[j] # "active",
         UNCHANGED <<job, gauge, polls, process, mishaps, asked, probe>>,
         interval' \in {"armed", "cleared"}
  PROVE  IInv'
<1>1. StopsOnce /\ ServerInv
  BY DEF IInv, ServerInv
<1>2. closer \in [Closers -> {"idle", "destroy", "dispose", "drain", "shutdown", "done"}]
  BY <1>1 DEF ServerInv, ServerTypeOK
<1>3. \A d \in Closers : closer'[d] = IF d = c THEN phase ELSE closer[d]
  BY <1>2 DEF Enter
<1>4. closer' \in [Closers -> {"idle", "destroy", "dispose", "drain", "shutdown", "done"}]
  BY <1>2 DEF Enter
<1>5. StopsOnce'
  BY <1>1, <1>3 DEF StopsOnce
<1>6. ServerTypeOK'
  BY <1>1, <1>4 DEF ServerInv, ServerTypeOK
<1>7. PhasesDrained'
  <2>1. Reached({"shutdown", "done"})' => \A p \in Probes : ~UnderWay(p)
    <3>1. phase = "done" => Reached({"shutdown", "done"})
      BY DEF Reached
    <3>2. phase \notin {"shutdown", "done"} /\ Reached({"shutdown", "done"})' =>
            Reached({"shutdown", "done"})
      BY <1>3 DEF Reached
    <3> QED BY <1>1, <3>1, <3>2 DEF ServerInv, PhasesDrained
  <2>2. Reached({"done"})' => \A j \in Jobs : job[j] # "active"
    <3>1. phase # "done" /\ Reached({"done"})' => Reached({"done"})
      BY <1>3 DEF Reached
    <3> QED BY <1>1, <3>1 DEF ServerInv, PhasesDrained
  <2> QED BY <2>1, <2>2 DEF PhasesDrained, UnderWay
<1>8. LateProbesFail'
  <2>1. CacheHasQuit'
    BY <1>3 DEF CacheHasQuit, Reached
  <2> QED BY <1>1, <2>1 DEF ServerInv, LateProbesFail, UnderWay
<1>9. ExitsOnlyWhenAsked' /\ MainExitsDrained' /\ NotReadyAfterQuit'
  BY <1>1 DEF ServerInv, ExitsOnlyWhenAsked, MainExitsDrained, NotReadyAfterQuit
<1> QED BY <1>5, <1>6, <1>7, <1>8, <1>9, Together DEF ServerInv

\* The hooks of onModuleDestroy are run.
LEMMA RunDestroyHooksStep ==
  ASSUME IInv, NEW c \in Closers, RunDestroyHooks(c)
  PROVE  IInv'
BY PhaseChanges DEF RunDestroyHooks, StopPolling

\* The later phases.
LEMMA ProceedStep ==
  ASSUME IInv, NEW c \in Closers, Proceed(c)
  PROVE  IInv'
<1>1. /\ process = "up" /\ UNCHANGED <<job, gauge, polls, process, mishaps, asked, probe>>
      /\ interval' \in {"armed", "cleared"}
  BY DEF Proceed, metricsVars, IInv, TypeOK
<1>2. CASE closer[c] = "dispose" /\ Enter(c, "drain")
  BY <1>1, <1>2, PhaseChanges
<1>3. CASE closer[c] = "drain" /\ (\A p \in Probes : ~UnderWay(p)) /\ Enter(c, "shutdown")
  BY <1>1, <1>3, PhaseChanges
<1>4. CASE closer[c] = "shutdown" /\ (\A j \in Jobs : job[j] # "active") /\ Enter(c, "done")
  BY <1>1, <1>4, PhaseChanges
<1> QED BY <1>2, <1>3, <1>4 DEF Proceed

\* The process ends: it was asked to, and if it is main that exits, the last
\* phase had been reached.
LEMMA ExitStep ==
  ASSUME IInv, NEW who \in {"main", "tracer", "error"}, Exit(who), asked,
         who = "main" => Reached({"done"})
  PROVE  IInv'
<1>1. TypeOK /\ StopsOnce /\ ServerInv
  BY DEF IInv, ServerInv
<1>2. /\ process' = who /\ interval' = "cleared"
      /\ gauge' = [q \in Queues |-> None] /\ polls' = [q \in Queues |-> <<>>]
      /\ closer' = [c \in Closers |-> "idle"]
      /\ UNCHANGED <<job, mishaps, asked, probe>>
  BY DEF Exit
<1>3. TypeOK'
  <2>1. polls' \in [Queues -> Seq(Poll)] /\ \A q \in Queues : Len(polls'[q]) <= MaxPolls
    BY <1>2, QueueMetricsAssumption
  <2> QED BY <1>1, <1>2, <2>1 DEF TypeOK, Poll, Numbers
<1>4. PollsSound'
  BY <1>2 DEF PollsSound
<1>5. StopsOnce'
  BY <1>2 DEF StopsOnce
<1>6. ServerTypeOK'
  BY <1>1, <1>2 DEF ServerInv, ServerTypeOK
<1>7. PhasesDrained'
  BY <1>2 DEF PhasesDrained, Reached
<1>8. LateProbesFail'
  BY <1>2 DEF LateProbesFail
<1>9. ExitsOnlyWhenAsked'
  BY <1>2 DEF ExitsOnlyWhenAsked
<1>10. MainExitsDrained'
  <2>1. Reached({"done"}) => Reached({"shutdown", "done"})
    BY DEF Reached
  <2>2. who = "main" => (\A p \in Probes : ~UnderWay(p)) /\ \A j \in Jobs : job[j] # "active"
    BY <1>1, <2>1 DEF ServerInv, PhasesDrained
  <2> QED BY <1>2, <2>2 DEF MainExitsDrained, UnderWay
<1>11. NotReadyAfterQuit'
  BY <1>1, <1>2 DEF ServerInv, NotReadyAfterQuit
<1> QED BY <1>3, <1>4, <1>5, <1>6, <1>7, <1>8, <1>9, <1>10, <1>11 DEF IInv

-----------------------------------------------------------------------------
(* The invariant *)

\* A server that has just started.
LEMMA InvariantInit == ServerInit => IInv
<1> SUFFICES ASSUME ServerInit PROVE IInv
  OBVIOUS
<1>1. TypeOK
  <2>1. polls \in [Queues -> Seq(Poll)] /\ \A q \in Queues : Len(polls[q]) <= MaxPolls
    BY QueueMetricsAssumption DEF ServerInit, MetricsInit
  <2> QED BY <2>1, QueueMetricsAssumption
          DEF ServerInit, MetricsInit, TypeOK, Poll, Numbers
<1>2. PollsSound
  BY DEF ServerInit, MetricsInit, PollsSound
<1>3. StopsOnce
  BY DEF ServerInit, MetricsInit, StopsOnce
<1>4. ServerTypeOK
  <2>1. NoProbe \in Probe
    BY DEF NoProbe, Probe, Dependencies
  <2> QED BY <2>1 DEF ServerInit, ServerTypeOK, Probe
<1>5. PhasesDrained
  BY DEF ServerInit, PhasesDrained, Reached
<1>6. LateProbesFail /\ NotReadyAfterQuit
  BY DEF ServerInit, LateProbesFail, NotReadyAfterQuit, NoProbe
<1>7. ExitsOnlyWhenAsked /\ MainExitsDrained
  BY DEF ServerInit, MetricsInit, ExitsOnlyWhenAsked, MainExitsDrained
<1> QED BY <1>1, <1>2, <1>3, <1>4, <1>5, <1>6, <1>7 DEF IInv

\* Every step of the server keeps the invariant.
LEMMA InvariantStep == IInv /\ [ServerNext]_allVars => IInv'
<1> SUFFICES ASSUME IInv, [ServerNext]_allVars PROVE IInv'
  OBVIOUS
<1>1. CASE Tick /\ UNCHANGED serverVars
  BY <1>1, TickStep
<1>2. ASSUME NEW q \in Queues, FirstAnswer(q), UNCHANGED serverVars PROVE IInv'
  BY <1>2, FirstAnswerStep
<1>3. ASSUME NEW q \in Queues, SecondAnswer(q), UNCHANGED serverVars PROVE IInv'
  BY <1>3, SecondAnswerStep
<1>4. ASSUME NEW q \in Queues, CallFails(q), UNCHANGED serverVars PROVE IInv'
  BY <1>4, CallFailsStep
<1>5. ASSUME NEW j \in Jobs, JobStep(j), UNCHANGED serverVars PROVE IInv'
  BY <1>5, JobStepStep
<1>6. ASSUME NEW p \in Probes, BeginProbe(p) PROVE IInv'
  BY <1>6, BeginProbeStep
<1>7. ASSUME NEW p \in Probes, NEW d \in Dependencies, CheckDependency(p, d) PROVE IInv'
  BY <1>7, CheckDependencyStep
<1>8. CASE Signal
  BY <1>8, SignalStep
<1>9. ASSUME NEW c \in Closers, RunDestroyHooks(c) PROVE IInv'
  BY <1>9, RunDestroyHooksStep
<1>10. ASSUME NEW c \in Closers, DestroyHookFails(c) PROVE IInv'
  <2>1. Exit("error") /\ asked
    BY <1>10 DEF DestroyHookFails, IInv, StopsOnce
  <2> QED BY <2>1, ExitStep
<1>11. ASSUME NEW c \in Closers, Proceed(c) PROVE IInv'
  BY <1>11, ProceedStep
<1>12. CASE MainExits
  <2>1. Exit("main") /\ asked /\ Reached({"done"})
    BY <1>12 DEF MainExits, IInv, StopsOnce, Reached, Closers
  <2> QED BY <2>1, ExitStep
<1>13. CASE TracerExits
  BY <1>13, ExitStep DEF TracerExits
<1>14. CASE UNCHANGED allVars
  BY <1>14, Together DEF allVars, metricsVars, serverVars, IInv, ServerInv, TypeOK,
     StopsOnce, ServerTypeOK, PhasesDrained, LateProbesFail, ExitsOnlyWhenAsked,
     MainExitsDrained, NotReadyAfterQuit, Reached, UnderWay, CacheHasQuit
<1> QED BY <1>1, <1>2, <1>3, <1>4, <1>5, <1>6, <1>7, <1>8, <1>9, <1>10, <1>11, <1>12,
           <1>13, <1>14 DEF ServerNext, PollStep, ProbeStep, CloserStep

\* Polls, queues, requests and both closers together keep the invariant.
THEOREM Inductive == ServerSpec => []IInv
BY InvariantInit, InvariantStep, PTL DEF ServerSpec

\* The state of the polls, the gauges and the jobs always has its type.
THEOREM MetricsTyped == ServerSpec => []TypeOK
<1>1. IInv => TypeOK
  BY DEF IInv
<1> QED BY <1>1, Inductive, PTL

\* The state of signals, closers and probes always has its type.
THEOREM ServerTyped == ServerSpec => []ServerTypeOK
<1>1. IInv => ServerTypeOK
  BY DEF IInv
<1> QED BY <1>1, Inductive, PTL

\* A rejected call to Redis never ends the process: without a signal it stays up.
THEOREM OnlySignalsEndIt == ServerSpec => []ExitsOnlyWhenAsked
<1>1. IInv => ExitsOnlyWhenAsked
  BY DEF IInv
<1> QED BY <1>1, Inductive, PTL

\* main exits (after app.close()) over no request being answered and no job being
\* worked on.
THEOREM MainCutsNothingShort == ServerSpec => []MainExitsDrained
<1>1. IInv => MainExitsDrained
  BY DEF IInv
<1> QED BY <1>1, Inductive, PTL

\* A readiness probe that began after redis.quit() is not told "ready".
THEOREM LateProbesAreTold == ServerSpec => []NotReadyAfterQuit
<1>1. IInv => NotReadyAfterQuit
  BY DEF IInv
<1> QED BY <1>1, Inductive, PTL

-----------------------------------------------------------------------------
(* What the gauges show *)

\* What has stayed is waiting, and the first call was told of it, or it is active.
LEMMA AnswerCoversStayed ==
  ASSUME TypeOK, PollsSound, NEW q \in Queues, SecondAnswer(q)
  PROVE  gauge'[q]["waiting"] + gauge'[q]["active"] >= Cardinality(Head(polls[q]).stayed)
<1> DEFINE poll == polls[q][1]
           waiting == {j \in poll.stayed : job[j] = "waiting"}
           active == JobsIn(q, "active")
<1>1. polls[q] # <<>> /\ Head(polls[q]).first # None
  BY DEF SecondAnswer
<1>2. 1 \in 1..Len(polls[q]) /\ Head(polls[q]) = poll
  BY <1>1, PollsTyped, EmptySeq
<1>3. poll.stayed \in SUBSET Jobs /\ poll.first \in Numbers
  BY <1>1, <1>2, PollsTyped DEF Poll
<1>4. PollSound(q, poll)
  BY <1>2 DEF PollsSound
<1>5. poll.stayed \subseteq waiting \cup active
  BY <1>3, <1>4 DEF PollSound, Present, JobsIn
<1>6. Cardinality(waiting) <= poll.first
  BY <1>1, <1>2, <1>4 DEF PollSound
<1>7. waiting \in SUBSET Jobs /\ active \in SUBSET Jobs
  BY <1>3 DEF JobsIn
<1>8. gauge'[q]["waiting"] = poll.first /\ gauge'[q]["active"] = Cardinality(active)
  <2> DEFINE depths == [state \in States |->
               IF state = "waiting" THEN Head(polls[q]).first ELSE Depth(q, state)]
  <2>1. gauge' = [gauge EXCEPT ![q] = depths]
    BY DEF SecondAnswer, Set, Calls
  <2>2. depths["waiting"] = poll.first /\ depths["active"] = Depth(q, "active")
    BY <1>2 DEF States
  <2> HIDE DEF depths
  <2> QED BY <2>1, <2>2 DEF TypeOK, Depth
<1> HIDE DEF poll, waiting, active
<1>9. IsFiniteSet(waiting) /\ IsFiniteSet(active)
  BY <1>7, JobsFinite
<1>10. /\ IsFiniteSet(waiting \cup active)
       /\ Cardinality(waiting \cup active) <= Cardinality(waiting) + Cardinality(active)
  <2>1. /\ IsFiniteSet(waiting \cup active)
        /\ Cardinality(waiting \cup active) =
             Cardinality(waiting) + Cardinality(active) - Cardinality(waiting \cap active)
    BY <1>9, FS_Union
  <2>2. waiting \cap active \in SUBSET Jobs
    BY <1>7
  <2>3. Cardinality(waiting \cap active) \in Nat
    BY <2>2, JobsFinite, FS_CardinalityType
  <2>4. Cardinality(waiting) \in Nat /\ Cardinality(active) \in Nat
    BY <1>9, FS_CardinalityType
  <2> QED BY <2>1, <2>3, <2>4
<1>11. Cardinality(poll.stayed) <= Cardinality(waiting \cup active)
  BY <1>5, <1>10, FS_Subset
<1>12. /\ Cardinality(poll.stayed) \in Nat /\ Cardinality(waiting \cup active) \in Nat
       /\ Cardinality(waiting) \in Nat /\ Cardinality(active) \in Nat
       /\ poll.first \in Nat
  <2>1. Cardinality(Jobs) \in Nat
    BY FS_CardinalityType, QueueMetricsAssumption
  <2>2. poll.first \in Nat
    BY <1>3, <2>1 DEF Numbers
  <2>3. IsFiniteSet(poll.stayed)
    BY <1>3, JobsFinite
  <2> QED BY <1>9, <1>10, <2>2, <2>3, FS_CardinalityType
<1> QED BY <1>2, <1>6, <1>8, <1>10, <1>11, <1>12

\* The two gauges of a queue, counted at two instants, never miss a job that has
\* been in the queue all along (recordQueueDepth asks for the waiting ones first).
THEOREM GaugesMissNoJob == ServerSpec => DepthNotUnderstated
<1>1. ASSUME IInv, [ServerNext]_allVars
      PROVE  [\A q \in Queues : SecondAnswer(q) =>
                gauge'[q]["waiting"] + gauge'[q]["active"]
                  >= Cardinality(Head(polls[q]).stayed)]_metricsVars
  BY <1>1, AnswerCoversStayed DEF IInv
<1> QED BY <1>1, Inductive, PTL DEF ServerSpec, DepthNotUnderstated
=============================================================================
