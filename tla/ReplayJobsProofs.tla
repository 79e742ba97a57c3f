-------------------------- MODULE ReplayJobsProofs --------------------------
(***************************************************************************)
(* Proofs about ReplayJobs, for any jobs, slots, aggregates, bounds and    *)
(* faults.  What a result says is kept true by every slot that runs the    *)
(* job, however many do (RunSound); that a job runs once needs slots that  *)
(* keep their locks (Undisturbed).                                         *)
(***************************************************************************)
EXTENDS ReplayJobs, FiniteSetTheorems, TLAPS

-----------------------------------------------------------------------------
(* Tallies *)

\* A set of aggregates is finite, and not larger than all of them.
LEMMA AggregatesFinite ==
  ASSUME NEW S \in SUBSET Aggregates
  PROVE  /\ IsFiniteSet(S)
         /\ Cardinality(S) \in 0..Cardinality(Aggregates)
<1>1. IsFiniteSet(S) /\ Cardinality(S) <= Cardinality(Aggregates)
  BY FS_Subset, ConstantsAssumption
<1>2. Cardinality(S) \in Nat /\ Cardinality(Aggregates) \in Nat
  BY <1>1, FS_CardinalityType, ConstantsAssumption
<1> QED BY <1>1, <1>2

\* Nothing counted yet is a tally.
LEMMA NoTallyTyped == NoTally \in Tallies /\ NoTally # None
<1>1. Cardinality(Aggregates) \in Nat
  BY FS_CardinalityType, ConstantsAssumption
<1>2. NoTally \in Tallies
  BY <1>1 DEF NoTally, Tallies
<1> QED BY <1>2, ResultAssumption

\* One more aggregate, whatever became of its snapshot, is counted once: under
\* processed, and under at most one of created and failures.
LEMMA CountOnce ==
  ASSUME NEW tally \in Tallies, NEW a \in Aggregates, a \notin tally.reached,
         NEW outcome \in Outcomes,
         tally.processed = Cardinality(tally.reached),
         tally.failures \subseteq tally.reached,
         tally.created + Cardinality(tally.failures) <= tally.processed
  PROVE  LET t == Count(tally, a, outcome) IN
         /\ t \in Tallies
         /\ t.reached = tally.reached \cup {a}
         /\ t.processed = Cardinality(t.reached)
         /\ t.failures \subseteq t.reached
         /\ t.created + Cardinality(t.failures) <= t.processed
         /\ t.created = tally.created + (IF outcome = "snapshot" THEN 1 ELSE 0)
<1> DEFINE t == Count(tally, a, outcome)
           failed == outcome \in {"error", "errorAfterInsert"}
           created == outcome = "snapshot"
<1>1. /\ tally.reached \in SUBSET Aggregates /\ tally.failures \in SUBSET Aggregates
      /\ tally.created \in Nat /\ tally.processed \in Nat
  BY DEF Tallies
<1>2. /\ t.reached = tally.reached \cup {a}
      /\ t.failures = tally.failures \cup (IF failed THEN {a} ELSE {})
      /\ t.processed = tally.processed + 1
      /\ t.created = tally.created + (IF created THEN 1 ELSE 0)
  BY DEF Count
<1>3. t.reached \in SUBSET Aggregates /\ t.failures \in SUBSET Aggregates
  BY <1>1, <1>2
<1>4. Cardinality(tally.reached \cup {a}) = Cardinality(tally.reached) + 1
  BY <1>1, AggregatesFinite, FS_AddElement
<1>5. Cardinality(t.failures) = Cardinality(tally.failures) + (IF failed THEN 1 ELSE 0)
  <2>1. CASE failed
    <3>1. t.failures = tally.failures \cup {a} /\ a \notin tally.failures
      BY <1>2, <2>1
    <3>2. IsFiniteSet(tally.failures)
      BY <1>1, AggregatesFinite
    <3>3. Cardinality(tally.failures \cup {a}) = Cardinality(tally.failures) + 1
      BY <3>1, <3>2, FS_AddElement
    <3> QED BY <2>1, <3>1, <3>3
  <2>2. CASE ~failed
    <3>1. t.failures = tally.failures
      BY <1>2, <2>2
    <3>2. Cardinality(tally.failures) \in Nat
      BY <1>1, AggregatesFinite
    <3> QED BY <2>2, <3>1, <3>2
  <2> QED BY <2>1, <2>2
<1>6. ~(failed /\ created)
  OBVIOUS
<1>7. /\ Cardinality(tally.failures) \in Nat
      /\ Cardinality(t.failures) \in Nat
      /\ Cardinality(t.reached) \in 0..Cardinality(Aggregates)
      /\ Cardinality(Aggregates) \in Nat
  BY <1>1, <1>3, AggregatesFinite, FS_CardinalityType, ConstantsAssumption
<1>8. t.processed = Cardinality(t.reached)
  BY <1>2, <1>4
<1>9. t.created \in Nat /\ t.created + Cardinality(t.failures) <= t.processed
  BY <1>1, <1>2, <1>5, <1>6, <1>7
<1>10. t.created \in 0..Cardinality(Aggregates)
  BY <1>7, <1>8, <1>9
<1>11. t = [processed |-> t.processed, created |-> t.created,
            failures |-> t.failures, reached |-> t.reached]
  BY DEF Count
<1>12. t \in Tallies
  BY <1>3, <1>7, <1>8, <1>10, <1>11 DEF Tallies
<1> QED BY <1>2, <1>8, <1>9, <1>12

-----------------------------------------------------------------------------
(* Updates of a row *)

\* What the three updates of a slot do: the slot goes on, and the row of its job
\* is as before or has the new status, and a result only with "completed".
LEMMA MarkEffect ==
  ASSUME TypeOK, NEW w \in Slots, RunSound(w),
         MarkRunning(w) \/ MarkCompleted(w) \/ MarkFailed(w)
  PROVE  LET j == run[w].job IN
         /\ UNCHANGED <<aggregates, run, written, existing>> /\ UNCHANGED bullmq
         /\ pc[w] # "idle" /\ j \in Jobs
         /\ troubled' \in {troubled, troubled \cup {j}}
         /\ \E label \in {"findScope", "done", "markFailed", "threw"} :
              /\ pc' = [pc EXCEPT ![w] = label]
              /\ label = "findScope" => pc[w] = "markRunning"
         /\ \E row \in Row :
              /\ rows' = [rows EXCEPT ![j] = row]
              /\ row.scope = rows[j].scope
              /\ \/ row = rows[j]
                 \/ row.status \in {"running", "failed"} /\ row.result = rows[j].result
                 \/ /\ row.status = "completed" /\ row.result = run[w].tally
                    /\ pc[w] = "loop" /\ run[w].todo = {}
<1> DEFINE j == run[w].job
           running == [rows[j] EXCEPT !.status = "running"]
           failed == [rows[j] EXCEPT !.status = "failed", !.error = TRUE]
           completed == Completed(rows[j], run[w].tally)
<1>1. pc[w] # "idle"
  BY DEF MarkRunning, MarkCompleted, MarkFailed
<1>2. j \in Jobs /\ rows[j] \in Row /\ run[w].tally \in Tallies
  BY <1>1 DEF RunSound, TypeOK, Run
<1>3. running \in Row /\ failed \in Row /\ completed \in Row
  BY <1>2 DEF Row, Completed
<1>4. /\ running.scope = rows[j].scope /\ running.status = "running"
      /\ running.result = rows[j].result
      /\ failed.scope = rows[j].scope /\ failed.status = "failed"
      /\ failed.result = rows[j].result
      /\ completed.scope = rows[j].scope /\ completed.status = "completed"
      /\ completed.result = run[w].tally
  BY <1>2 DEF Row, Completed
<1>5. [rows EXCEPT ![j] = rows[j]] = rows
  BY <1>2 DEF TypeOK
<1>6. CASE MarkRunning(w)
  <2>1. /\ Update(w, running, "findScope", "threw") /\ pc[w] = "markRunning"
    BY <1>6 DEF MarkRunning
  <2> HIDE DEF running, failed, completed
  <2>2. rows' \in {[rows EXCEPT ![j] = running], rows}
    BY <2>1 DEF Update
  <2>3. \E row \in {running, rows[j]} : rows' = [rows EXCEPT ![j] = row]
    BY <1>5, <2>2
  <2> QED BY <1>1, <1>2, <1>3, <1>4, <2>1, <2>3 DEF Update, Goto
<1>7. CASE MarkCompleted(w)
  <2>1. /\ Update(w, completed, "done", "markFailed")
        /\ pc[w] = "loop" /\ run[w].todo = {}
    BY <1>7 DEF MarkCompleted
  <2> HIDE DEF running, failed, completed
  <2>2. rows' \in {[rows EXCEPT ![j] = completed], rows}
    BY <2>1 DEF Update
  <2>3. \E row \in {completed, rows[j]} : rows' = [rows EXCEPT ![j] = row]
    BY <1>5, <2>2
  <2> QED BY <1>1, <1>2, <1>3, <1>4, <2>1, <2>3 DEF Update, Goto
<1>8. CASE MarkFailed(w)
  <2>1. Update(w, failed, "threw", "threw")
    BY <1>8 DEF MarkFailed
  <2> HIDE DEF running, failed, completed
  <2>2. rows' \in {[rows EXCEPT ![j] = failed], rows}
    BY <2>1 DEF Update
  <2>3. \E row \in {failed, rows[j]} : rows' = [rows EXCEPT ![j] = row]
    BY <1>5, <2>2
  <2> QED BY <1>1, <1>2, <1>3, <1>4, <2>1, <2>3 DEF Update, Goto
<1> QED BY <1>6, <1>7, <1>8

\* One round of the loop: the slot stays in it, the aggregate is counted, and a
\* snapshot that is counted was written.
LEMMA RoundEffect ==
  ASSUME TypeOK, NEW w \in Slots, RunSound(w), NEW a \in Aggregates,
         CreateSnapshot(w, a)
  PROVE  LET j == run[w].job IN
         /\ pc' = pc /\ pc[w] = "loop"
         /\ a \in run[w].todo
         /\ \E x \in Run :
              /\ run' = [run EXCEPT ![w] = x]
              /\ x.job = j /\ x.todo = run[w].todo \ {a}
              /\ x.tally.reached = run[w].tally.reached \cup {a}
              /\ \A i : i = j => Counted(i, x.tally)'
         /\ written' \in [Jobs -> Nat]
         /\ \A i \in Jobs : written'[i] >= written[i]
<1> DEFINE j == run[w].job
           tally == run[w].tally
<1>1. pc[w] = "loop" /\ a \in run[w].todo
  BY DEF CreateSnapshot
<1>2. PICK outcome \in Outcomes :
        /\ run' = [run EXCEPT ![w].todo = @ \ {a},
                              ![w].tally = Count(@, a, outcome)]
        /\ Goto(w, AfterSnapshot(outcome))
        /\ written' = IF Inserts(outcome)
                      THEN [written EXCEPT ![run[w].job] = @ + 1]
                      ELSE written
  BY DEF CreateSnapshot
<1>3. pc' = pc
  BY <1>1, <1>2 DEF Goto, AfterSnapshot, TypeOK
<1>4. /\ j \in Jobs /\ tally \in Tallies /\ run[w] \in Run
      /\ run[w].todo = InScope(run[w].todo, rows[j].scope)
      /\ a \notin tally.reached
      /\ Counted(j, tally)
  BY <1>1 DEF RunSound, TypeOK, Run
<1>5. PICK t \in Tallies :
        /\ t = Count(tally, a, outcome)
        /\ t.reached = tally.reached \cup {a}
        /\ t.processed = Cardinality(t.reached)
        /\ t.failures \subseteq t.reached
        /\ t.created + Cardinality(t.failures) <= t.processed
        /\ t.created = tally.created + (IF outcome = "snapshot" THEN 1 ELSE 0)
  BY <1>4, CountOnce DEF Counted
<1>6. PICK x \in Run : /\ run' = [run EXCEPT ![w] = x]
                       /\ x.job = j /\ x.todo = run[w].todo \ {a} /\ x.tally = t
  <2> DEFINE y == [run[w] EXCEPT !.todo = run[w].todo \ {a}, !.tally = t]
  <2>1. run' = [run EXCEPT ![w] = [run[w] EXCEPT !.todo = run[w].todo \ {a},
                                                 !.tally = t]]
    BY <1>2, <1>4, <1>5 DEF TypeOK
  <2>2. run[w].todo \ {a} \in SUBSET Aggregates
    BY <1>4 DEF Run
  <2>3. y \in Run /\ y.job = j /\ y.todo = run[w].todo \ {a} /\ y.tally = t
    BY <1>4, <2>2 DEF Run
  <2>4. run' = [run EXCEPT ![w] = y]
    BY <2>1
  <2> HIDE DEF y
  <2> QED BY <2>3, <2>4
<1>7. /\ written' \in [Jobs -> Nat]
      /\ \A i \in Jobs : written'[i] >= written[i]
      /\ outcome = "snapshot" => written'[j] = written[j] + 1
  BY <1>2, <1>4 DEF TypeOK, Inserts
<1>8. t.created <= written'[j]
  BY <1>4, <1>5, <1>7 DEF Counted, Tallies, TypeOK
<1>9. t.reached = InScope(t.reached, rows[j].scope)
  <2>1. tally.reached = InScope(tally.reached, rows[j].scope)
    BY <1>4 DEF Counted
  <2>2. a \in InScope(run[w].todo, rows[j].scope)
    BY <1>1, <1>4
  <2> QED BY <1>5, <2>1, <2>2 DEF InScope
<1>10. UNCHANGED rows
  BY DEF CreateSnapshot
<1>11. ASSUME NEW i, i = j PROVE Counted(i, x.tally)'
  BY <1>5, <1>6, <1>8, <1>9, <1>10, <1>11 DEF Counted
<1>12. \A i : i = j => Counted(i, x.tally)'
  BY <1>11
<1>13. x.tally.reached = run[w].tally.reached \cup {a}
  BY <1>5, <1>6
<1>14. \E z \in Run :
         /\ run' = [run EXCEPT ![w] = z]
         /\ z.job = j /\ z.todo = run[w].todo \ {a}
         /\ z.tally.reached = run[w].tally.reached \cup {a}
         /\ \A i : i = j => Counted(i, z.tally)'
  BY <1>6, <1>12, <1>13
<1> QED BY <1>1, <1>3, <1>7, <1>14

-----------------------------------------------------------------------------
(* Type correctness *)

\* Initially every variable has its type.
LEMMA TypeInit == Init => TypeOK
BY NoTallyTyped, ConstantsAssumption
DEF Init, TypeOK, Row, NoRow, Run, NoRun

\* The effects of a stalled job's recovery, whichever of the two finds it.
LEMMA RecoverEffect ==
  ASSUME TypeOK, NEW j \in Jobs, JobSound(j), RecoverStalled(j)
  PROVE  /\ queue[j] = "active" /\ stalled[j] <= MaxStalled
         /\ stalled' \in [Jobs -> 0..(MaxStalled + 1)]
         /\ stalled'[j] = stalled[j] + 1
         /\ \E state \in {"failed", "waiting"} :
              /\ queue' = [queue EXCEPT ![j] = state]
              /\ state = "waiting" => stalled'[j] <= MaxStalled
         /\ \A i \in Jobs \ {j} : stalled'[i] = stalled[i]
<1>1. queue[j] = "active" /\ stalled[j] <= MaxStalled
  BY DEF RecoverStalled, JobSound
<1>2. stalled' = [stalled EXCEPT ![j] = stalled[j] + 1]
  BY DEF RecoverStalled
<1>3. stalled[j] \in Nat /\ stalled \in [Jobs -> 0..(MaxStalled + 1)]
  BY DEF TypeOK
<1>4. stalled[j] + 1 \in 0..(MaxStalled + 1)
  BY <1>1, <1>3, ConstantsAssumption
<1>5. stalled'[j] = stalled[j] + 1
  BY <1>2, <1>3
<1>6. CASE GivenUp(j)
  BY <1>1, <1>2, <1>3, <1>4, <1>5, <1>6 DEF RecoverStalled
<1>7. CASE ~GivenUp(j)
  <2>1. stalled'[j] <= MaxStalled
    BY <1>1, <1>3, <1>5, <1>7, ConstantsAssumption DEF GivenUp
  <2> QED BY <1>1, <1>2, <1>3, <1>4, <1>5, <1>7, <2>1 DEF RecoverStalled
<1> QED BY <1>6, <1>7

\* Every step preserves the types.
LEMMA TypeStep ==
  ASSUME IInv, [Next]_vars
  PROVE  TypeOK'
<1>0. TypeOK /\ (\A j \in Jobs : JobSound(j)) /\ (\A w \in Slots : RunSound(w))
  BY DEF IInv
<1> USE <1>0
<1>1. ASSUME NEW j \in Jobs, NEW scope \in Types \cup {AllTypes}, CreateRow(j, scope)
      PROVE  TypeOK'
  <2>1. [NoRow EXCEPT !.status = "pending", !.scope = scope] \in Row
    BY DEF NoRow, Row
  <2> QED BY <1>1, <2>1 DEF CreateRow, TypeOK
<1>2. ASSUME NEW j \in Jobs, AddToQueue(j) \/ AddFails(j) PROVE TypeOK'
  BY <1>2 DEF AddToQueue, AddFails, TypeOK
<1>3. ASSUME NEW w \in Slots, NEW j \in Jobs, TakeJob(w, j) PROVE TypeOK'
  <2>1. [NoRun EXCEPT !.job = j] \in Run
    BY NoTallyTyped DEF NoRun, Run
  <2>2. pc' = [pc EXCEPT ![w] = "markRunning"]
    BY <1>3 DEF TakeJob, Goto
  <2> QED BY <1>3, <2>1, <2>2 DEF TakeJob, TypeOK
<1>4. ASSUME NEW w \in Slots, MarkRunning(w) \/ MarkCompleted(w) \/ MarkFailed(w)
      PROVE  TypeOK'
  BY <1>4, MarkEffect DEF TypeOK, bullmq
<1>5. ASSUME NEW w \in Slots, FindAggregateIdsForScope(w) PROVE TypeOK'
  <2>1. UNCHANGED <<aggregates, rows, written, existing>> /\ UNCHANGED bullmq
    BY <1>5 DEF FindAggregateIdsForScope
  <2>2. pc' \in [Slots -> {"idle", "markRunning", "findScope", "loop", "markFailed",
                           "done", "threw"}]
    BY <1>5 DEF FindAggregateIdsForScope, Goto, TypeOK
  <2>3. run[w].job \in Jobs /\ run[w] \in Run
    BY <1>5 DEF FindAggregateIdsForScope, RunSound, TypeOK
  <2>4. troubled' \subseteq Jobs
    BY <1>5, <2>3 DEF FindAggregateIdsForScope, TypeOK
  <2>5. run' \in [Slots -> Run]
    <3>1. InScope(aggregates, rows[run[w].job].scope) \in SUBSET Aggregates
      BY DEF InScope, TypeOK
    <3> DEFINE x == [run[w] EXCEPT !.todo = InScope(aggregates, rows[run[w].job].scope)]
    <3>2. x \in Run
      BY <2>3, <3>1 DEF Run
    <3>3. run' \in {run, [run EXCEPT ![w] = x]}
      BY <1>5 DEF FindAggregateIdsForScope
    <3> HIDE DEF x
    <3> QED BY <3>2, <3>3 DEF TypeOK
  <2> QED BY <2>1, <2>2, <2>4, <2>5 DEF TypeOK, bullmq
<1>6. ASSUME NEW w \in Slots, NEW a \in Aggregates, CreateSnapshot(w, a)
      PROVE  TypeOK'
  <2>1. UNCHANGED <<aggregates, rows, existing, troubled>> /\ UNCHANGED bullmq
    BY <1>6 DEF CreateSnapshot
  <2>2. pc' = pc /\ written' \in [Jobs -> Nat]
    BY <1>6, RoundEffect
  <2>3. \E x \in Run : run' = [run EXCEPT ![w] = x]
    BY <1>6, RoundEffect
  <2> QED BY <2>1, <2>2, <2>3 DEF TypeOK, bullmq
<1>7. NoRun \in Run
  BY NoTallyTyped DEF NoRun, Run
<1>8. ASSUME NEW w \in Slots, Finish(w) PROVE TypeOK'
  <2>1. run[w].job \in Jobs
    BY <1>8 DEF Finish, RunSound
  <2>2. /\ queue' \in [Jobs -> {"none", "waiting", "active", "completed", "failed"}]
        /\ lock' \in [Jobs -> Slots \cup {None}]
    BY <1>8, <2>1 DEF Finish, AfterThrow, TypeOK
  <2> QED BY <1>7, <1>8, <2>2 DEF Finish, Rest, Goto, TypeOK
<1>9. ASSUME NEW w \in Slots, Crash(w) PROVE TypeOK'
  <2>1. crashes' \in 0..MaxCrashes
    BY <1>9, ConstantsAssumption DEF Crash, TypeOK
  <2> QED BY <1>7, <1>9, <2>1 DEF Crash, Rest, Goto, TypeOK
<1>10. ASSUME NEW j \in Jobs, RecoverDead(j) \/ RecoverBlocked(j) PROVE TypeOK'
  <2>1. RecoverStalled(j)
    BY <1>10 DEF RecoverDead, RecoverBlocked
  <2>2. /\ stalled' \in [Jobs -> 0..(MaxStalled + 1)]
        /\ queue' \in [Jobs -> {"none", "waiting", "active", "completed", "failed"}]
    BY <2>1, RecoverEffect DEF TypeOK
  <2>3. crashes' \in 0..MaxCrashes
    BY <1>10, ConstantsAssumption DEF RecoverDead, RecoverBlocked, TypeOK
  <2> QED BY <2>1, <2>2, <2>3 DEF RecoverStalled, TypeOK
<1>11. ASSUME NEW a \in Aggregates, NewAggregate(a) PROVE TypeOK'
  BY <1>11 DEF NewAggregate, TypeOK, bullmq
<1>12. ASSUME UNCHANGED vars PROVE TypeOK'
  BY <1>12 DEF vars, TypeOK
<1> QED
  BY <1>1, <1>2, <1>3, <1>4, <1>5, <1>6, <1>8, <1>9, <1>10, <1>11, <1>12
  DEF Next, SlotStep

-----------------------------------------------------------------------------
(* What never changes, and what only grows *)

\* A row keeps its scope and what existed when it was created; aggregates and
\* snapshots are not deleted.
LEMMA HistoryKept ==
  ASSUME IInv, [Next]_vars
  PROVE  /\ aggregates \subseteq aggregates'
         /\ \A j \in Jobs : written'[j] >= written[j]
         /\ \A j \in Jobs : rows[j].status # "absent" =>
              /\ rows'[j].status # "absent"
              /\ rows'[j].scope = rows[j].scope
              /\ existing'[j] = existing[j]
         /\ \A j \in Jobs : rows'[j] # rows[j] =>
              \/ \E scope \in Types \cup {AllTypes} : CreateRow(j, scope)
              \/ \E w \in Slots : /\ run[w].job = j
                                  /\ MarkRunning(w) \/ MarkCompleted(w) \/ MarkFailed(w)
<1>0. TypeOK /\ (\A j \in Jobs : JobSound(j)) /\ (\A w \in Slots : RunSound(w))
  BY DEF IInv
<1> USE <1>0
<1> DEFINE Kept == /\ aggregates \subseteq aggregates'
                   /\ \A j \in Jobs : written'[j] >= written[j]
                   /\ \A j \in Jobs : rows[j].status # "absent" =>
                        /\ rows'[j].status # "absent"
                        /\ rows'[j].scope = rows[j].scope
                        /\ existing'[j] = existing[j]
           Quiet == \A j \in Jobs : rows'[j] # rows[j] =>
                      \E scope \in Types \cup {AllTypes} : CreateRow(j, scope)
<1>1. \A j \in Jobs : written[j] >= written[j]
  BY DEF TypeOK
<1>2. ASSUME NEW j \in Jobs, NEW scope \in Types \cup {AllTypes}, CreateRow(j, scope)
      PROVE  Kept /\ Quiet
  <2>1. \A i \in Jobs \ {j} : rows'[i] = rows[i] /\ existing'[i] = existing[i]
    BY <1>2 DEF CreateRow, TypeOK
  <2>2. Kept
    BY <1>1, <1>2, <2>1 DEF CreateRow
  <2> QED BY <1>2, <2>1, <2>2
<1>3. ASSUME UNCHANGED <<aggregates, rows, existing>>,
             \A j \in Jobs : written'[j] >= written[j]
      PROVE  Kept /\ Quiet
  BY <1>3
<1>4. ASSUME NEW a \in Aggregates, NewAggregate(a) PROVE Kept /\ Quiet
  BY <1>1, <1>4 DEF NewAggregate
<1>5. ASSUME NEW w \in Slots, NEW a \in Aggregates, CreateSnapshot(w, a)
      PROVE  Kept /\ Quiet
  <2>1. UNCHANGED <<aggregates, rows, existing>>
    BY <1>5 DEF CreateSnapshot
  <2> QED BY <1>3, <1>5, <2>1, RoundEffect
<1>6. ASSUME NEW w \in Slots, MarkRunning(w) \/ MarkCompleted(w) \/ MarkFailed(w)
      PROVE  Kept /\ (\A j \in Jobs : rows'[j] # rows[j] => run[w].job = j)
  <2>1. /\ UNCHANGED <<aggregates, written, existing>>
        /\ run[w].job \in Jobs
        /\ \E row \in Row : /\ rows' = [rows EXCEPT ![run[w].job] = row]
                            /\ row.scope = rows[run[w].job].scope
                            /\ row = rows[run[w].job] \/ row.status # "absent"
    BY <1>6, MarkEffect
  <2> QED BY <1>1, <2>1 DEF TypeOK
<1>7. ASSUME NEW w \in Slots, FindAggregateIdsForScope(w) \/ Finish(w) \/ Crash(w)
      PROVE  UNCHANGED <<aggregates, rows, existing, written>>
  BY <1>7 DEF FindAggregateIdsForScope, Finish, Crash
<1>8. ASSUME NEW j \in Jobs,
             \/ AddToQueue(j) \/ AddFails(j) \/ RecoverDead(j) \/ RecoverBlocked(j)
             \/ \E w \in Slots : TakeJob(w, j)
      PROVE  UNCHANGED <<aggregates, rows, existing, written>>
  BY <1>8 DEF AddToQueue, AddFails, RecoverDead, RecoverBlocked, RecoverStalled,
     TakeJob
<1>9. ASSUME UNCHANGED vars PROVE UNCHANGED <<aggregates, rows, existing, written>>
  BY <1>9 DEF vars
<1> HIDE DEF Kept
<1>10. CASE \E w \in Slots : MarkRunning(w) \/ MarkCompleted(w) \/ MarkFailed(w)
  <2>1. PICK w \in Slots : MarkRunning(w) \/ MarkCompleted(w) \/ MarkFailed(w)
    BY <1>10
  <2>2. Kept /\ (\A j \in Jobs : rows'[j] # rows[j] => run[w].job = j)
    BY <1>6, <2>1
  <2> QED BY <2>1, <2>2 DEF Kept
<1>11. CASE ~\E w \in Slots : MarkRunning(w) \/ MarkCompleted(w) \/ MarkFailed(w)
  <2>1. Kept /\ Quiet
    BY <1>1, <1>2, <1>3, <1>4, <1>5, <1>7, <1>8, <1>9, <1>11 DEF Next, SlotStep
  <2> QED BY <2>1 DEF Kept
<1> QED BY <1>10, <1>11

\* What a slot has counted for a job stays true, and so does what a result says.
LEMMA CountedStays ==
  ASSUME IInv, [Next]_vars, NEW j \in Jobs, rows[j].status # "absent",
         NEW tally \in Tallies
  PROVE  /\ Counted(j, tally) => Counted(j, tally)'
         /\ Truthful(j, tally) => Truthful(j, tally)'
<1>1. /\ rows'[j].scope = rows[j].scope
      /\ existing'[j] = existing[j]
      /\ written'[j] >= written[j]
  BY HistoryKept
<1>2. written[j] \in Nat /\ written'[j] \in Nat
  BY TypeStep DEF IInv, TypeOK
<1>3. tally.created \in Nat
  BY FS_CardinalityType, ConstantsAssumption DEF Tallies
<1>4. tally.created <= written[j] => tally.created <= written'[j]
  BY <1>1, <1>2, <1>3
<1> QED BY <1>1, <1>4 DEF Counted, Truthful

-----------------------------------------------------------------------------
(* Jobs *)

\* A job whose row, place in the queue and lock stay keeps what is known of it.
LEMMA JobStays ==
  ASSUME IInv, [Next]_vars, NEW j \in Jobs, rows'[j] = rows[j],
         j \in creating' => j \in creating,
         queue'[j] = queue[j], lock'[j] = lock[j], stalled'[j] = stalled[j],
         existing'[j] = existing[j]
  PROVE  JobSound(j)'
<1>1. JobSound(j) /\ aggregates \subseteq aggregates'
  BY HistoryKept DEF IInv
<1> QED BY <1>1 DEF JobSound

\* Every step keeps what is known of each job.
LEMMA JobsStep ==
  ASSUME IInv, [Next]_vars, NEW i \in Jobs
  PROVE  JobSound(i)'
<1>0. TypeOK /\ (\A j \in Jobs : JobSound(j)) /\ (\A w \in Slots : RunSound(w))
  BY DEF IInv
<1> USE <1>0
<1>1. ASSUME NEW j \in Jobs, NEW scope \in Types \cup {AllTypes}, CreateRow(j, scope)
      PROVE  JobSound(i)'
  <2>1. CASE i = j
    <3>1. /\ rows'[j].status = "pending" /\ existing'[j] = aggregates
          /\ UNCHANGED <<aggregates, queue, lock, stalled>>
      BY <1>1 DEF CreateRow, NoRow, TypeOK
    <3>2. queue[j] = "none"
      BY <1>1 DEF CreateRow, JobSound
    <3> QED BY <2>1, <3>1, <3>2 DEF JobSound
  <2>2. CASE i # j
    BY <1>1, <2>2, JobStays DEF CreateRow, TypeOK
  <2> QED BY <2>1, <2>2
<1>2. ASSUME NEW j \in Jobs, AddToQueue(j) PROVE JobSound(i)'
  <2>1. CASE i = j
    <3>1. rows[j].status # "absent" /\ lock[j] = None /\ stalled[j] <= MaxStalled
      BY <1>2 DEF AddToQueue, JobSound
    <3>2. queue'[j] = "waiting"
      BY <1>2 DEF AddToQueue, TypeOK
    <3> QED BY <1>2, <2>1, <3>1, <3>2 DEF AddToQueue, JobSound
  <2>2. CASE i # j
    BY <1>2, <2>2, JobStays DEF AddToQueue, TypeOK
  <2> QED BY <2>1, <2>2
<1>3. ASSUME NEW j \in Jobs, AddFails(j) PROVE JobSound(i)'
  BY <1>3, JobStays DEF AddFails
<1>4. ASSUME NEW w \in Slots, NEW j \in Jobs, TakeJob(w, j) PROVE JobSound(i)'
  <2>1. CASE i = j
    <3>1. queue'[j] = "active" /\ lock'[j] = w
      BY <1>4 DEF TakeJob, TypeOK
    <3> QED BY <1>4, <2>1, <3>1, ConstantsAssumption DEF TakeJob, JobSound
  <2>2. CASE i # j
    BY <1>4, <2>2, JobStays DEF TakeJob, TypeOK
  <2> QED BY <2>1, <2>2
<1>5. ASSUME NEW w \in Slots, MarkRunning(w) \/ MarkCompleted(w) \/ MarkFailed(w)
      PROVE  JobSound(i)'
  <2>1. /\ UNCHANGED <<aggregates, existing>> /\ UNCHANGED bullmq
        /\ rows[run[w].job].status # "absent"
        /\ \E row \in Row : rows' = [rows EXCEPT ![run[w].job] = row]
    BY <1>5, MarkEffect DEF RunSound
  <2>2. rows'[i].status = "absent" => rows'[i] = rows[i]
    <3>1. rows[i].status # "absent" => rows'[i].status # "absent"
      BY HistoryKept
    <3> QED BY <2>1, <3>1 DEF TypeOK
  <2> QED BY <2>1, <2>2 DEF JobSound, bullmq
<1>6. ASSUME NEW w \in Slots,
             FindAggregateIdsForScope(w) \/ \E a \in Aggregates : CreateSnapshot(w, a)
      PROVE  JobSound(i)'
  BY <1>6, JobStays DEF FindAggregateIdsForScope, CreateSnapshot, bullmq
<1>7. ASSUME NEW w \in Slots, Finish(w) PROVE JobSound(i)'
  <2> DEFINE j == run[w].job
  <2>1. j \in Jobs /\ UNCHANGED <<aggregates, rows, creating, stalled, existing>>
    BY <1>7 DEF Finish, RunSound
  <2>2. CASE lock[j] = w /\ i = j
    <3>1. queue'[j] \in {"completed", "failed"} /\ lock'[j] = None
      BY <1>7, <2>1, <2>2 DEF Finish, AfterThrow, TypeOK
    <3>2. queue[j] = "active"
      BY <2>1, <2>2, ConstantsAssumption DEF JobSound
    <3> QED BY <2>1, <2>2, <3>1, <3>2 DEF JobSound
  <2>3. CASE lock[j] # w \/ i # j
    <3>1. queue'[i] = queue[i] /\ lock'[i] = lock[i]
      BY <1>7, <2>1, <2>3 DEF Finish, TypeOK
    <3> QED BY <2>1, <3>1, JobStays
  <2> QED BY <2>2, <2>3
<1>8. ASSUME NEW w \in Slots, Crash(w) PROVE JobSound(i)'
  BY <1>8, JobStays DEF Crash
<1>9. ASSUME NEW j \in Jobs, RecoverDead(j) \/ RecoverBlocked(j) PROVE JobSound(i)'
  <2>1. RecoverStalled(j)
    BY <1>9 DEF RecoverDead, RecoverBlocked
  <2>2. UNCHANGED <<aggregates, rows, creating, existing>>
    BY <2>1 DEF RecoverStalled
  <2>3. lock' = [lock EXCEPT ![j] = None]
    BY <2>1 DEF RecoverStalled
  <2>4. PICK state \in {"failed", "waiting"} :
          /\ queue' = [queue EXCEPT ![j] = state]
          /\ state = "waiting" => stalled'[j] <= MaxStalled
    BY <2>1, RecoverEffect
  <2>5. CASE i = j
    <3>1. queue'[j] = state /\ lock'[j] = None /\ queue[j] = "active"
      BY <2>1, <2>3, <2>4 DEF RecoverStalled, TypeOK
    <3> QED BY <2>2, <2>4, <2>5, <3>1 DEF JobSound
  <2>6. CASE i # j
    BY <2>1, <2>2, <2>3, <2>4, <2>6, RecoverEffect, JobStays DEF TypeOK
  <2> QED BY <2>5, <2>6
<1>10. ASSUME (\E a \in Aggregates : NewAggregate(a)) \/ UNCHANGED vars
       PROVE  JobSound(i)'
  BY <1>10, JobStays DEF NewAggregate, vars, bullmq
<1> QED
  BY <1>1, <1>2, <1>3, <1>4, <1>5, <1>6, <1>7, <1>8, <1>9, <1>10
  DEF Next, SlotStep

-----------------------------------------------------------------------------
(* Runs *)

\* A slot that only goes on to a call that asks nothing more of its locals keeps
\* what is known of them.
LEMMA RunGoesOn ==
  ASSUME IInv, [Next]_vars, NEW w \in Slots, run'[w] = run[w],
         \/ pc'[w] = pc[w]
         \/ pc'[w] = "idle"
         \/ pc[w] # "idle" /\ pc'[w] \in {"markFailed", "done", "threw"}
         \/ pc[w] = "markRunning" /\ pc'[w] = "findScope"
  PROVE  RunSound(w)'
<1> DEFINE j == run[w].job
<1> SUFFICES ASSUME pc'[w] # "idle" PROVE RunSound(w)'
  BY DEF RunSound
<1>1. RunSound(w) /\ TypeOK /\ pc[w] # "idle"
  BY DEF IInv
<1>2. /\ j \in Jobs /\ rows[j].status # "absent"
      /\ run[w].tally \in Tallies
      /\ Counted(j, run[w].tally)
  BY <1>1 DEF RunSound, TypeOK, Run
<1>3. /\ rows'[j].status # "absent"
      /\ rows'[j].scope = rows[j].scope
      /\ existing'[j] = existing[j]
  BY <1>2, HistoryKept
<1>4. \A i \in Jobs, t \in Tallies :
        rows[i].status # "absent" /\ Counted(i, t) => Counted(i, t)'
  BY CountedStays
<1>5. Counted(run[w].job, run[w].tally)'
  BY <1>2, <1>4 DEF Counted
<1> QED BY <1>1, <1>2, <1>3, <1>5 DEF RunSound, Counted

\* Every step keeps what is known of each slot's locals.
LEMMA RunsStep ==
  ASSUME IInv, [Next]_vars, NEW v \in Slots
  PROVE  RunSound(v)'
<1>0. /\ TypeOK /\ (\A j \in Jobs : JobSound(j)) /\ (\A w \in Slots : RunSound(w))
      /\ \A j \in Jobs : rows[j].status # "absent" =>
           /\ rows'[j].status # "absent"
           /\ rows'[j].scope = rows[j].scope
           /\ existing'[j] = existing[j]
  BY HistoryKept DEF IInv
<1> USE <1>0
<1>1. ASSUME UNCHANGED <<pc, run>> PROVE RunSound(v)'
  BY <1>1, RunGoesOn
<1>2. ASSUME NEW w \in Slots, NEW j \in Jobs, TakeJob(w, j) PROVE RunSound(v)'
  <2>1. /\ pc' = [pc EXCEPT ![w] = "markRunning"]
        /\ run' = [run EXCEPT ![w] = [NoRun EXCEPT !.job = j]]
        /\ UNCHANGED <<rows, existing, written>>
    BY <1>2 DEF TakeJob, Goto
  <2>2. CASE v = w
    <3>1. rows[j].status # "absent"
      BY <1>2 DEF TakeJob, JobSound
    <3>2. pc'[w] = "markRunning" /\ run'[w].job = j /\ run'[w].tally = NoTally
      BY <2>1 DEF TypeOK, NoRun
    <3>3. Cardinality({}) = 0
      BY FS_EmptySet
    <3>4. written'[j] \in Nat
      BY <2>1 DEF TypeOK
    <3>5. /\ NoTally.processed = 0 /\ NoTally.created = 0
          /\ NoTally.failures = {} /\ NoTally.reached = {}
      BY DEF NoTally
    <3>6. NoTally.reached = InScope(NoTally.reached, rows'[j].scope)
      BY <3>5 DEF InScope
    <3>7. ASSUME NEW i, i = j PROVE Counted(i, NoTally)'
      BY <3>3, <3>4, <3>5, <3>6, <3>7 DEF Counted, NoTally
    <3>8. Counted(run[w].job, run[w].tally)'
      BY <3>2, <3>7 DEF Counted, NoTally
    <3> QED BY <2>1, <2>2, <3>1, <3>2, <3>8 DEF RunSound
  <2>3. CASE v # w
    BY <2>1, <2>3, RunGoesOn DEF TypeOK
  <2> QED BY <2>2, <2>3
<1>3. ASSUME NEW w \in Slots, MarkRunning(w) \/ MarkCompleted(w) \/ MarkFailed(w)
      PROVE  RunSound(v)'
  <2>1. /\ run' = run /\ pc[w] # "idle"
        /\ \E label \in {"findScope", "done", "markFailed", "threw"} :
             /\ pc' = [pc EXCEPT ![w] = label]
             /\ label = "findScope" => pc[w] = "markRunning"
    BY <1>3, MarkEffect
  <2> QED BY <2>1, RunGoesOn DEF TypeOK
<1>4. ASSUME NEW w \in Slots, FindAggregateIdsForScope(w) PROVE RunSound(v)'
  <2> DEFINE j == run[w].job
             todo == InScope(aggregates, rows[j].scope)
  <2>1. pc[w] = "findScope" /\ UNCHANGED <<aggregates, rows, written, existing>>
    BY <1>4 DEF FindAggregateIdsForScope
  <2>2. CASE run' = run /\ pc' = [pc EXCEPT ![w] = "markFailed"]
    BY <2>1, <2>2, RunGoesOn DEF TypeOK
  <2>3. CASE run' = [run EXCEPT ![w].todo = todo] /\ pc' = [pc EXCEPT ![w] = "loop"]
    <3>1. CASE v # w
      BY <2>3, <3>1, RunGoesOn DEF TypeOK
    <3>2. CASE v = w
      <4>1. /\ j \in Jobs /\ rows[j].status # "absent" /\ run[w] \in Run
            /\ run[w].tally = NoTally /\ Counted(j, run[w].tally)
        BY <2>1 DEF RunSound, TypeOK
      <4>2. /\ run'[w].job = j /\ run'[w].tally = run[w].tally
            /\ run'[w].todo = todo /\ pc'[w] = "loop"
        BY <2>3, <4>1 DEF TypeOK, Run
      <4>3. Counted(run[w].job, run[w].tally)'
        BY <2>1, <4>1, <4>2 DEF Counted
      <4>4. todo = InScope(todo, rows[j].scope)
        BY DEF InScope
      <4>5. NoTally.reached = {}
        BY DEF NoTally
      <4>6. InScope(existing[j], rows[j].scope) \subseteq todo
        BY <4>1 DEF JobSound, InScope
      <4> HIDE DEF todo
      <4> QED
        BY <2>1, <3>2, <4>1, <4>2, <4>3, <4>4, <4>5, <4>6 DEF RunSound
    <3> QED BY <3>1, <3>2
  <2> QED BY <1>4, <2>2, <2>3 DEF FindAggregateIdsForScope, Goto
<1>5. ASSUME NEW w \in Slots, NEW a \in Aggregates, CreateSnapshot(w, a)
      PROVE  RunSound(v)'
  <2> DEFINE j == run[w].job
  <2>1. pc' = pc /\ pc[w] = "loop" /\ a \in run[w].todo
    BY <1>5, RoundEffect
  <2>2. PICK x \in Run :
          /\ run' = [run EXCEPT ![w] = x]
          /\ x.job = j /\ x.todo = run[w].todo \ {a}
          /\ x.tally.reached = run[w].tally.reached \cup {a}
          /\ \A i : i = j => Counted(i, x.tally)'
    BY <1>5, RoundEffect
  <2>3. CASE v # w
    BY <2>1, <2>2, <2>3, RunGoesOn DEF TypeOK
  <2>4. CASE v = w
    <3>1. UNCHANGED <<rows, existing>>
      BY <1>5 DEF CreateSnapshot
    <3>2. run'[w] = x
      BY <2>2 DEF TypeOK
    <3>3. Counted(run[w].job, run[w].tally)'
      BY <2>2, <3>2 DEF Counted
    <3>4. /\ j \in Jobs /\ rows[j].status # "absent"
          /\ run[w].todo = InScope(run[w].todo, rows[j].scope)
          /\ run[w].todo \cap run[w].tally.reached = {}
          /\ InScope(existing[j], rows[j].scope)
               \subseteq run[w].todo \cup run[w].tally.reached
      BY <2>1 DEF RunSound
    <3>5. x.todo = InScope(x.todo, rows[j].scope)
      BY <2>2, <3>4 DEF InScope
    <3>6. /\ x.todo \cap x.tally.reached = {}
          /\ InScope(existing[j], rows[j].scope) \subseteq x.todo \cup x.tally.reached
      BY <2>2, <3>4
    <3>7. run'[w].job = j /\ run'[w].todo = x.todo /\ run'[w].tally = x.tally
          /\ pc'[w] = "loop"
      BY <2>1, <2>2, <3>2
    <3> QED BY <2>4, <3>1, <3>3, <3>4, <3>5, <3>6, <3>7 DEF RunSound
  <2> QED BY <2>3, <2>4
<1>6. ASSUME NEW w \in Slots, Finish(w) \/ Crash(w) PROVE RunSound(v)'
  <2>1. pc' = [pc EXCEPT ![w] = "idle"] /\ run' = [run EXCEPT ![w] = NoRun]
    BY <1>6 DEF Finish, Crash, Rest, Goto
  <2>2. CASE v = w
    BY <2>1, <2>2 DEF RunSound, TypeOK
  <2>3. CASE v # w
    BY <2>1, <2>3, RunGoesOn DEF TypeOK
  <2> QED BY <2>2, <2>3
<1>7. ASSUME NEW j \in Jobs, NEW scope \in Types \cup {AllTypes}, CreateRow(j, scope)
      PROVE  UNCHANGED <<pc, run>>
  BY <1>7 DEF CreateRow
<1>8. ASSUME NEW j \in Jobs,
             \/ AddToQueue(j) \/ AddFails(j) \/ RecoverDead(j) \/ RecoverBlocked(j)
      PROVE  UNCHANGED <<pc, run>>
  BY <1>8 DEF AddToQueue, AddFails, RecoverDead, RecoverBlocked, RecoverStalled
<1>9. ASSUME (\E a \in Aggregates : NewAggregate(a)) \/ UNCHANGED vars
      PROVE  UNCHANGED <<pc, run>>
  BY <1>9 DEF NewAggregate, vars
<1> QED
  BY <1>1, <1>2, <1>3, <1>4, <1>5, <1>6, <1>7, <1>8, <1>9 DEF Next, SlotStep

-----------------------------------------------------------------------------
(* Results *)

\* Every result is that of a slot that had nothing left to do, and stays true.
LEMMA ResultStep ==
  ASSUME IInv, [Next]_vars
  PROVE  ResultTruthful'
<1>0. /\ TypeOK /\ ResultTruthful
      /\ (\A j \in Jobs : JobSound(j)) /\ (\A w \in Slots : RunSound(w))
  BY DEF IInv
<1> USE <1>0
<1> SUFFICES ASSUME NEW j \in Jobs
             PROVE  (/\ rows[j].status = "completed" => rows[j].result # None
                     /\ rows[j].result # None => Truthful(j, rows[j].result))'
  BY DEF ResultTruthful
<1>1. \A i \in Jobs, t \in Tallies :
        rows[i].status # "absent" /\ Truthful(i, t) => Truthful(i, t)'
  BY CountedStays
<1>2. ASSUME NEW t, t = rows'[j].result, Truthful(j, t)'
      PROVE  Truthful(j, rows[j].result)'
  BY <1>2 DEF Truthful, Counted
<1>3. rows[j] \in Row
  BY DEF TypeOK
<1>4. CASE rows'[j].result = rows[j].result
           /\ (rows'[j].status = "completed" => rows[j].result # None)
  <2>1. CASE rows[j].result = None
    BY <1>4, <2>1
  <2>2. CASE rows[j].result # None
    <3>1. rows[j].status # "absent" /\ rows[j].result \in Tallies
      BY <1>3, <2>2 DEF JobSound, Row
    <3>2. Truthful(j, rows[j].result)
      BY <2>2 DEF ResultTruthful
    <3>3. ASSUME NEW t \in Tallies, t = rows[j].result PROVE Truthful(j, t)'
      BY <1>1, <3>1, <3>2, <3>3
    <3> QED BY <1>2, <1>4, <2>2, <3>1, <3>3
  <2> QED BY <2>1, <2>2
<1>5. CASE rows'[j] = rows[j]
  BY <1>4, <1>5 DEF ResultTruthful
<1>6. ASSUME NEW scope \in Types \cup {AllTypes}, CreateRow(j, scope)
      PROVE  rows'[j].status = "pending" /\ rows'[j].result = None
  BY <1>6 DEF CreateRow, TypeOK, NoRow
<1>7. ASSUME NEW w \in Slots, run[w].job = j,
             MarkRunning(w) \/ MarkCompleted(w) \/ MarkFailed(w)
      PROVE  (/\ rows[j].status = "completed" => rows[j].result # None
              /\ rows[j].result # None => Truthful(j, rows[j].result))'
  <2>1. PICK row \in Row :
          /\ rows' = [rows EXCEPT ![j] = row]
          /\ \/ row = rows[j]
             \/ row.status \in {"running", "failed"} /\ row.result = rows[j].result
             \/ /\ row.status = "completed" /\ row.result = run[w].tally
                /\ pc[w] = "loop" /\ run[w].todo = {}
    BY <1>7, MarkEffect
  <2>2. rows'[j] = row
    BY <2>1 DEF TypeOK
  <2>3. CASE row = rows[j]
    BY <1>5, <2>2, <2>3
  <2>4. CASE row.status \in {"running", "failed"} /\ row.result = rows[j].result
    BY <1>4, <2>2, <2>4
  <2>5. CASE /\ row.status = "completed" /\ row.result = run[w].tally
             /\ pc[w] = "loop" /\ run[w].todo = {}
    <3>1. run[w].tally \in Tallies /\ run[w].tally # None
      BY ResultAssumption DEF TypeOK, Run
    <3>2. rows[j].status # "absent" /\ Truthful(j, run[w].tally)
      BY <1>7, <2>5 DEF RunSound, Truthful
    <3>3. ASSUME NEW t \in Tallies, t = run[w].tally PROVE Truthful(j, t)'
      BY <1>1, <3>2, <3>3
    <3> QED BY <1>2, <2>2, <2>5, <3>1, <3>3
  <2> QED BY <2>1, <2>3, <2>4, <2>5
<1> QED BY <1>5, <1>6, <1>7, HistoryKept

-----------------------------------------------------------------------------
(* While slots live and keep their locks *)

\* What QueueAgrees says of one job.
Agrees(j) ==
  /\ queue[j] = "completed" => rows[j].status = "completed"
  /\ rows[j].status = "failed" =>
       queue[j] = "failed" \/ \E w \in Slots : run[w].job = j /\ pc[w] = "threw"

\* A step without a crash or a stall comes after none, and takes no job away.
LEMMA CalmStep ==
  ASSUME IInv, [Next]_vars, crashes' = 0
  PROVE  /\ \A w \in Slots : RunsAlone(w)
         /\ \A j \in Jobs : LocksAlive(j) /\ Agrees(j)
         /\ \/ \E j \in Jobs, scope \in Types \cup {AllTypes} : CreateRow(j, scope)
            \/ \E j \in Jobs : AddToQueue(j) \/ AddFails(j)
            \/ \E w \in Slots, j \in Jobs : TakeJob(w, j)
            \/ \E w \in Slots : SlotStep(w)
            \/ \E a \in Aggregates : NewAggregate(a)
            \/ UNCHANGED vars
<1>0. TypeOK /\ Undisturbed /\ QueueAgrees /\ crashes \in Nat
  BY ConstantsAssumption DEF IInv, TypeOK
<1>1. ASSUME NEW w \in Slots, Crash(w) PROVE FALSE
  BY <1>0, <1>1 DEF Crash
<1>2. ASSUME NEW j \in Jobs, RecoverBlocked(j) PROVE FALSE
  BY <1>0, <1>2 DEF RecoverBlocked
<1>3. crashes = 0
  <2>1. ASSUME NEW w \in Slots, SlotStep(w) PROVE crashes' = crashes
    BY <2>1 DEF SlotStep, MarkRunning, FindAggregateIdsForScope, CreateSnapshot,
       MarkCompleted, MarkFailed, Finish, Update, bullmq
  <2>2. ASSUME NEW j \in Jobs,
               \/ \E scope \in Types \cup {AllTypes} : CreateRow(j, scope)
               \/ AddToQueue(j) \/ AddFails(j) \/ RecoverDead(j)
               \/ \E w \in Slots : TakeJob(w, j)
        PROVE  crashes' = crashes
    BY <2>2 DEF CreateRow, AddToQueue, AddFails, RecoverDead, TakeJob
  <2>3. ASSUME (\E a \in Aggregates : NewAggregate(a)) \/ UNCHANGED vars
        PROVE  crashes' = crashes
    BY <2>3 DEF NewAggregate, bullmq, vars
  <2> QED BY <1>1, <1>2, <2>1, <2>2, <2>3 DEF Next
<1>4. /\ \A w \in Slots : RunsAlone(w)
      /\ \A j \in Jobs : LocksAlive(j) /\ Agrees(j)
  BY <1>0, <1>3 DEF Undisturbed, QueueAgrees, Agrees
<1>5. ASSUME NEW j \in Jobs, RecoverDead(j) PROVE FALSE
  BY <1>4, <1>5 DEF RecoverDead, LocksAlive
<1> QED BY <1>1, <1>2, <1>4, <1>5 DEF Next

\* An update leaves the row at the slot's next call: "failed" for good only when
\* the error goes on to the queue, and after "completed" only a failure follows.
LEMMA StatusEffect ==
  ASSUME TypeOK, NEW w \in Slots, RunSound(w), RunsAlone(w),
         MarkRunning(w) \/ MarkCompleted(w) \/ MarkFailed(w)
  PROVE  LET j == run[w].job IN
         /\ rows'[j].status \in StatusAt(pc'[w])
         /\ rows'[j].status = "failed" => pc'[w] = "threw"
         /\ rows[j].status # "failed" /\ pc[w] # "threw" /\ pc'[w] # "idle"
         /\ rows[j].status = "completed" =>
              rows'[j].status \in Ended /\ rows'[j].result = rows[j].result
<1> DEFINE j == run[w].job
           running == [rows[j] EXCEPT !.status = "running"]
           failed == [rows[j] EXCEPT !.status = "failed", !.error = TRUE]
           completed == Completed(rows[j], run[w].tally)
<1>1. pc[w] # "idle"
  BY DEF MarkRunning, MarkCompleted, MarkFailed
<1>2. j \in Jobs /\ rows[j] \in Row /\ rows[j].status \in StatusAt(pc[w])
  BY <1>1 DEF RunSound, TypeOK, RunsAlone
<1>3. /\ running.status = "running"
      /\ failed.status = "failed" /\ failed.result = rows[j].result
      /\ completed.status = "completed"
  BY <1>2 DEF Row, Completed
<1>4. CASE MarkRunning(w)
  <2>1. Update(w, running, "findScope", "threw") /\ rows[j].status = "pending"
    BY <1>2, <1>4 DEF MarkRunning, StatusAt
  <2> HIDE DEF running, failed, completed
  <2>2. \/ rows'[j] = running /\ pc'[w] = "findScope"
        \/ rows'[j] \in {running, rows[j]} /\ pc'[w] = "threw"
    BY <1>2, <2>1 DEF Update, Goto, TypeOK
  <2>3. rows'[j].status \in StatusAt(pc'[w])
    BY <1>3, <2>1, <2>2 DEF StatusAt
  <2> QED BY <1>3, <1>4, <2>1, <2>2, <2>3 DEF MarkRunning
<1>5. CASE MarkCompleted(w)
  <2>1. Update(w, completed, "done", "markFailed") /\ rows[j].status = "running"
    BY <1>2, <1>5 DEF MarkCompleted, StatusAt
  <2> HIDE DEF running, failed, completed
  <2>2. \/ rows'[j] = completed /\ pc'[w] = "done"
        \/ rows'[j] \in {completed, rows[j]} /\ pc'[w] = "markFailed"
    BY <1>2, <2>1 DEF Update, Goto, TypeOK
  <2>3. rows'[j].status \in StatusAt(pc'[w])
    BY <1>3, <2>1, <2>2 DEF StatusAt
  <2> QED BY <1>3, <1>5, <2>1, <2>2, <2>3 DEF MarkCompleted
<1>6. CASE MarkFailed(w)
  <2>1. /\ Update(w, failed, "threw", "threw")
        /\ rows[j].status \in {"running", "completed"}
    BY <1>2, <1>6 DEF MarkFailed, StatusAt
  <2> HIDE DEF running, failed, completed
  <2>2. rows'[j] \in {failed, rows[j]} /\ pc'[w] = "threw"
    BY <1>2, <2>1 DEF Update, Goto, TypeOK
  <2>3. rows'[j].status \in StatusAt(pc'[w])
    BY <1>3, <2>1, <2>2 DEF StatusAt
  <2> QED BY <1>3, <1>6, <2>1, <2>2, <2>3 DEF MarkFailed, Ended
<1> QED BY <1>4, <1>5, <1>6

\* While slots live and keep their locks, every step keeps it so that each job is
\* run once, and that queue and row agree.
LEMMA CalmKept ==
  ASSUME IInv, [Next]_vars, crashes' = 0
  PROVE  /\ \A w \in Slots : RunsAlone(w)'
         /\ \A j \in Jobs : LocksAlive(j)' /\ Agrees(j)'
<1>0. /\ TypeOK
      /\ \A j \in Jobs : JobSound(j) /\ LocksAlive(j) /\ Agrees(j)
      /\ \A w \in Slots : RunSound(w) /\ RunsAlone(w)
  BY CalmStep DEF IInv
<1> USE <1>0
<1> DEFINE Calm == /\ \A w \in Slots : RunsAlone(w)'
                   /\ \A j \in Jobs : LocksAlive(j)' /\ Agrees(j)'
<1>1. ASSUME NEW j \in Jobs, NEW scope \in Types \cup {AllTypes}, CreateRow(j, scope)
      PROVE  Calm
  <2>1. /\ UNCHANGED <<queue, lock, pc, run>>
        /\ rows[j].status = "absent" /\ rows'[j].status = "pending"
        /\ \A i \in Jobs \ {j} : rows'[i] = rows[i]
    BY <1>1 DEF CreateRow, NoRow, TypeOK
  <2>2. queue[j] = "none"
    BY <2>1 DEF JobSound
  <2>3. ASSUME NEW w \in Slots PROVE RunsAlone(w)'
    BY <2>1 DEF RunsAlone, RunSound
  <2>4. ASSUME NEW i \in Jobs PROVE LocksAlive(i)' /\ Agrees(i)'
    BY <2>1, <2>2 DEF LocksAlive, Agrees
  <2> QED BY <2>3, <2>4
<1>2. ASSUME NEW j \in Jobs, AddToQueue(j) PROVE Calm
  <2>1. /\ UNCHANGED <<rows, lock, pc, run>>
        /\ queue[j] = "none" /\ queue'[j] = "waiting"
        /\ \A i \in Jobs \ {j} : queue'[i] = queue[i]
    BY <1>2 DEF AddToQueue, JobSound, TypeOK
  <2>2. ASSUME NEW w \in Slots PROVE RunsAlone(w)'
    BY <2>1 DEF RunsAlone
  <2>3. ASSUME NEW i \in Jobs PROVE LocksAlive(i)' /\ Agrees(i)'
    BY <2>1 DEF LocksAlive, Agrees
  <2> QED BY <2>2, <2>3
<1>3. ASSUME UNCHANGED <<rows, queue, lock, pc>>,
             \A w \in Slots : run'[w].job = run[w].job
      PROVE  Calm
  <2>1. ASSUME NEW w \in Slots PROVE RunsAlone(w)'
    BY <1>3 DEF RunsAlone
  <2>2. ASSUME NEW i \in Jobs PROVE LocksAlive(i)' /\ Agrees(i)'
    BY <1>3 DEF LocksAlive, Agrees, TypeOK
  <2> QED BY <2>1, <2>2
<1>4. ASSUME (\E j \in Jobs : AddFails(j)) \/ (\E a \in Aggregates : NewAggregate(a))
             \/ UNCHANGED vars
      PROVE  UNCHANGED <<rows, queue, lock, pc, run>>
  BY <1>4 DEF AddFails, NewAggregate, vars, bullmq
<1>5. ASSUME NEW w \in Slots, NEW a \in Aggregates, CreateSnapshot(w, a) PROVE Calm
  <2>1. UNCHANGED <<rows, queue, lock, pc>>
    BY <1>5, RoundEffect DEF CreateSnapshot, bullmq
  <2>2. \E x \in Run : run' = [run EXCEPT ![w] = x] /\ x.job = run[w].job
    BY <1>5, RoundEffect
  <2> QED BY <1>3, <2>1, <2>2 DEF TypeOK
<1>6. ASSUME NEW w \in Slots, NEW j \in Jobs, TakeJob(w, j) PROVE Calm
  <2>1. /\ pc[w] = "idle" /\ queue[j] = "waiting" /\ lock[j] = None
        /\ rows[j].status = "pending" /\ rows' = rows
    BY <1>6 DEF TakeJob, JobSound, LocksAlive
  <2>2. /\ pc'[w] = "markRunning" /\ run'[w].job = j
        /\ lock'[j] = w /\ queue'[j] = "active"
    BY <1>6 DEF TakeJob, Goto, TypeOK, NoRun
  <2>3. \A v \in Slots \ {w} : pc'[v] = pc[v] /\ run'[v] = run[v]
    BY <1>6 DEF TakeJob, Goto, TypeOK
  <2>4. \A i \in Jobs \ {j} : lock'[i] = lock[i] /\ queue'[i] = queue[i]
    BY <1>6 DEF TakeJob, TypeOK
  <2>5. ASSUME NEW v \in Slots PROVE RunsAlone(v)'
    <3>1. CASE v = w
      BY <2>1, <2>2, <3>1 DEF RunsAlone, StatusAt
    <3>2. CASE v # w
      <4>1. pc[v] # "idle" => run[v].job \in Jobs \ {j}
        BY <2>1, ConstantsAssumption DEF RunSound, RunsAlone
      <4> QED BY <2>1, <2>3, <2>4, <3>2, <4>1 DEF RunsAlone
    <3> QED BY <3>1, <3>2
  <2>6. ASSUME NEW i \in Jobs PROVE LocksAlive(i)' /\ Agrees(i)'
    <3>1. CASE i = j
      BY <2>1, <2>2, <3>1 DEF LocksAlive, Agrees
    <3>2. CASE i # j
      <4>1. lock[i] # None => lock[i] \in Slots \ {w}
        BY <2>1 DEF LocksAlive, TypeOK
      <4>2. LocksAlive(i)'
        BY <2>1, <2>3, <2>4, <3>2, <4>1 DEF LocksAlive
      <4>3. Agrees(i)'
        BY <2>1, <2>3, <2>4, <3>2 DEF Agrees
      <4> QED BY <4>2, <4>3
    <3> QED BY <3>1, <3>2
  <2> QED BY <2>5, <2>6
<1>7. ASSUME NEW w \in Slots, FindAggregateIdsForScope(w) PROVE Calm
  <2>1. /\ UNCHANGED <<rows, queue, lock>> /\ pc[w] = "findScope"
        /\ \A v \in Slots : run'[v].job = run[v].job
        /\ \A v \in Slots \ {w} : pc'[v] = pc[v]
        /\ pc'[w] \in {"loop", "markFailed"}
    <3>1. \A v \in Slots : run'[v].job = run[v].job
      <4> DEFINE todo == InScope(aggregates, rows[run[w].job].scope)
      <4>1. run' = run \/ run' = [run EXCEPT ![w].todo = todo]
        BY <1>7 DEF FindAggregateIdsForScope
      <4> HIDE DEF todo
      <4> QED BY <4>1 DEF TypeOK, Run
    <3>2. \E label \in {"loop", "markFailed"} : pc' = [pc EXCEPT ![w] = label]
      BY <1>7 DEF FindAggregateIdsForScope, Goto
    <3>3. UNCHANGED <<rows, queue, lock>> /\ pc[w] = "findScope"
      BY <1>7 DEF FindAggregateIdsForScope, bullmq
    <3> QED BY <3>1, <3>2, <3>3 DEF TypeOK
  <2>2. rows[run[w].job].status = "running"
    BY <2>1 DEF RunsAlone, StatusAt
  <2>3. ASSUME NEW v \in Slots PROVE RunsAlone(v)'
    BY <2>1, <2>2 DEF RunsAlone, StatusAt
  <2>4. ASSUME NEW i \in Jobs PROVE LocksAlive(i)' /\ Agrees(i)'
    <3>1. \A v \in Slots : pc[v] = "threw" => pc'[v] = "threw"
      BY <2>1
    <3>2. \A v \in Slots : pc[v] # "idle" => pc'[v] # "idle"
      BY <2>1
    <3> QED BY <2>1, <3>1, <3>2 DEF LocksAlive, Agrees, TypeOK
  <2> QED BY <2>3, <2>4
<1>8. ASSUME NEW w \in Slots, MarkRunning(w) \/ MarkCompleted(w) \/ MarkFailed(w)
      PROVE  Calm
  <2> DEFINE j == run[w].job
  <2>1. /\ UNCHANGED <<queue, lock, run>> /\ pc[w] # "idle" /\ j \in Jobs
        /\ \A v \in Slots \ {w} : pc'[v] = pc[v]
        /\ \A i \in Jobs \ {j} : rows'[i] = rows[i]
    BY <1>8, MarkEffect DEF bullmq, TypeOK
  <2>2. /\ rows'[j].status \in StatusAt(pc'[w])
        /\ rows'[j].status = "failed" => pc'[w] = "threw"
        /\ pc[w] # "threw" /\ pc'[w] # "idle"
    BY <1>8, StatusEffect
  <2>3. lock[j] = w /\ queue[j] = "active"
    BY <2>1, ConstantsAssumption DEF RunsAlone, JobSound
  <2>4. ASSUME NEW v \in Slots PROVE RunsAlone(v)'
    <3>1. v # w /\ pc[v] # "idle" => run[v].job \in Jobs \ {j}
      BY <2>3 DEF RunSound, RunsAlone
    <3> QED BY <2>1, <2>2, <2>3, <3>1 DEF RunsAlone
  <2>5. ASSUME NEW i \in Jobs PROVE LocksAlive(i)' /\ Agrees(i)'
    <3>1. CASE i = j
      BY <2>1, <2>2, <2>3, <3>1 DEF LocksAlive, Agrees
    <3>2. CASE i # j
      <4>1. lock[i] # None => lock[i] \in Slots \ {w}
        BY <3>2 DEF LocksAlive, TypeOK
      <4>2. \A v \in Slots : pc[v] = "threw" => pc'[v] = "threw"
        BY <2>1, <2>2
      <4> QED BY <2>1, <3>2, <4>1, <4>2 DEF LocksAlive, Agrees
    <3> QED BY <3>1, <3>2
  <2> QED BY <2>4, <2>5
<1>9. ASSUME NEW w \in Slots, Finish(w) PROVE Calm
  <2> DEFINE j == run[w].job
  <2>1. /\ pc[w] \in {"done", "threw"} /\ j \in Jobs /\ lock[j] = w
        /\ pc[w] = "done" => rows[j].status = "completed"
    BY <1>9 DEF Finish, RunSound, RunsAlone, StatusAt
  <2>2. /\ rows' = rows /\ lock'[j] = None /\ pc'[w] = "idle"
        /\ queue'[j] = (IF pc[w] = "done" THEN "completed" ELSE "failed")
        /\ \A i \in Jobs \ {j} : lock'[i] = lock[i] /\ queue'[i] = queue[i]
        /\ \A v \in Slots \ {w} : pc'[v] = pc[v] /\ run'[v] = run[v]
    BY <1>9, <2>1 DEF Finish, AfterThrow, Rest, Goto, TypeOK
  <2>3. ASSUME NEW v \in Slots PROVE RunsAlone(v)'
    <3>1. v # w /\ pc[v] # "idle" => run[v].job \in Jobs \ {j}
      BY <2>1 DEF RunSound, RunsAlone
    <3> QED BY <2>2, <3>1 DEF RunsAlone
  <2>4. ASSUME NEW i \in Jobs PROVE LocksAlive(i)' /\ Agrees(i)'
    <3>1. CASE i = j
      BY <2>1, <2>2, <3>1 DEF LocksAlive, Agrees
    <3>2. CASE i # j
      <4>1. lock[i] # None => lock[i] \in Slots \ {w}
        BY <3>2 DEF LocksAlive, TypeOK
      <4>2. \A v \in Slots : run[v].job = i => v # w
        BY <3>2
      <4> QED BY <2>2, <3>2, <4>1, <4>2 DEF LocksAlive, Agrees
    <3> QED BY <3>1, <3>2
  <2> QED BY <2>3, <2>4
<1> QED
  BY <1>1, <1>2, <1>3, <1>4, <1>5, <1>6, <1>7, <1>8, <1>9, CalmStep DEF SlotStep

-----------------------------------------------------------------------------
(* The theorems *)

\* Nothing has happened yet.
LEMMA InvariantInit == Init => IInv
<1> SUFFICES ASSUME Init PROVE IInv
  OBVIOUS
<1>1. TypeOK
  BY TypeInit
<1>2. \A j \in Jobs : /\ rows[j].status = "absent" /\ rows[j].result = None
                      /\ queue[j] = "none" /\ lock[j] = None /\ stalled[j] = 0
                      /\ existing[j] = {} /\ j \notin creating
  BY DEF Init, NoRow
<1>3. \A w \in Slots : pc[w] = "idle"
  BY DEF Init
<1>4. \A j \in Jobs : JobSound(j)
  BY <1>2, ConstantsAssumption DEF JobSound
<1>5. \A w \in Slots : RunSound(w) /\ RunsAlone(w)
  BY <1>3 DEF RunSound, RunsAlone
<1>6. \A j \in Jobs : LocksAlive(j)
  BY <1>2 DEF LocksAlive
<1>7. ResultTruthful /\ QueueAgrees
  BY <1>2 DEF ResultTruthful, QueueAgrees
<1> QED BY <1>1, <1>4, <1>5, <1>6, <1>7 DEF IInv, Undisturbed

\* Every step preserves the invariant.
LEMMA InvariantStep ==
  ASSUME IInv, [Next]_vars
  PROVE  IInv'
<1>1. TypeOK' /\ ResultTruthful'
  BY TypeStep, ResultStep
<1>2. (\A j \in Jobs : JobSound(j)') /\ (\A w \in Slots : RunSound(w)')
  BY JobsStep, RunsStep
<1>3. Undisturbed' /\ QueueAgrees'
  BY CalmKept DEF Undisturbed, QueueAgrees, Agrees
<1> QED BY <1>1, <1>2, <1>3 DEF IInv

\* Whatever fails, crashes or stalls, the invariant holds.
THEOREM Inductive == Spec => []IInv
<1>1. IInv /\ [Next]_vars => IInv'
  BY InvariantStep
<1> QED BY <1>1, InvariantInit, PTL DEF Spec

\* Every variable keeps its type: a job is found stalled once more than is
\* forgiven at most, and no count exceeds the number of aggregates.
THEOREM TypeCorrect == Spec => []TypeOK
<1>1. IInv => TypeOK
  BY DEF IInv
<1> QED BY <1>1, Inductive, PTL

\* The summary of a completed job is true, however often and by how many slots at
\* once the job was run.
THEOREM ResultsAreTrue == Spec => []ResultTruthful
<1>1. IInv => ResultTruthful
  BY DEF IInv
<1> QED BY <1>1, Inductive, PTL

\* While no slot dies or stalls, BullMQ and the row agree on what completed and
\* what failed.
THEOREM QueueAndRowAgree == Spec => []QueueAgrees
<1>1. IInv => QueueAgrees
  BY DEF IInv
<1> QED BY <1>1, Inductive, PTL

\* A row that has ended changes by the failure of the same run only.
LEMMA EndIsFinalStep ==
  ASSUME IInv, [Next]_vars, NEW j \in Jobs,
         crashes' = 0, rows[j].status \in Ended
  PROVE  /\ rows'[j].status \in Ended
         /\ rows'[j].result = rows[j].result
         /\ rows[j].status = "failed" => rows'[j] = rows[j]
<1>1. CASE rows'[j] = rows[j]
  BY <1>1
<1>2. CASE rows'[j] # rows[j]
  <2>1. ASSUME NEW scope, CreateRow(j, scope) PROVE FALSE
    BY <2>1 DEF CreateRow, Ended
  <2>2. PICK w \in Slots : /\ run[w].job = j
                           /\ MarkRunning(w) \/ MarkCompleted(w) \/ MarkFailed(w)
    BY <1>2, <2>1, HistoryKept
  <2>3. TypeOK /\ RunSound(w) /\ RunsAlone(w)
    BY CalmStep DEF IInv
  <2>4. /\ rows[j].status # "failed"
        /\ rows[j].status = "completed" =>
             rows'[j].status \in Ended /\ rows'[j].result = rows[j].result
    BY <2>2, <2>3, StatusEffect
  <2> QED BY <2>4 DEF Ended
<1> QED BY <1>1, <1>2

\* A caller that polled "completed" or "failed" may stop: the job does not run
\* again and its result stays, while no slot dies or stalls.
THEOREM EndsAreFinal == Spec => EndIsFinal
<1>1. IInv /\ [Next]_vars =>
        [\A j \in Jobs :
           crashes' = 0 /\ rows[j].status \in Ended =>
             /\ rows'[j].status \in Ended
             /\ rows'[j].result = rows[j].result
             /\ rows[j].status = "failed" => rows'[j] = rows[j]]_rows
  BY EndIsFinalStep
<1> QED BY <1>1, Inductive, PTL DEF Spec, EndIsFinal
=============================================================================
