---------------------------- MODULE StateAccess -----------------------------
(***************************************************************************)
(* Whose states GET /projects/:id/aggregates/:aggregateId/state answers:   *)
(* getState with several projects at once, the rows that say which project *)
(* an aggregate is of, and the cache entries, whose keys carry the         *)
(* aggregate's id and not its project.                                     *)
(*                                                                         *)
(* A state is known by the projects whose rules folded it, and one point   *)
(* in time stands for each: an entry is for a point, a deletion reaches    *)
(* the latest one, and a snapshot is of use to some points and not to      *)
(* others.  What a state holds of which events is the subject of           *)
(* StateReconstruction.                                                    *)
(*                                                                         *)
(* A request's key is one of the project in its path (the guards are in    *)
(* Tenancy); a job is a call of createSnapshot by one of the two workers,  *)
(* which they make for an aggregate of their own project.                  *)
(***************************************************************************)
CONSTANTS Projects,
          Aggregates,   \* the ids
          Calls,        \* bound on the calls of getState under way at once
          None          \* no row, no entry, no call or no answer

ASSUME ConstantsAssumption == None \notin Projects

VARIABLES owner,      \* per aggregate: project_id of its row
          snapshots,  \* per aggregate: the states of its snapshots
          entry,      \* Redis: per key the cached state
          call,       \* the calls under way
          answer      \* per call the answer of the last one it ended with

vars == <<owner, snapshots, entry, call, answer>>

-----------------------------------------------------------------------------

State == SUBSET Projects

StateKey(a) == <<"state", a>>
LookupKey(a) == <<"lookup", a>>
Keys == {"state", "lookup"} \X Aggregates

\* state: what the call has so far, from no snapshot to the folded one.
CallType ==
  [at : {"cached", "find", "base", "fold", "snapshot"},
   project : Projects, aggregate : Aggregates, job : BOOLEAN, state : State]

Init ==
  /\ owner = [a \in Aggregates |-> None]
  /\ snapshots = [a \in Aggregates |-> {}]
  /\ entry = [k \in Keys |-> None]
  /\ call = [c \in Calls |-> None]
  /\ answer = [c \in Calls |-> None]

At(c, point) == call[c] # None /\ call[c].at = point

Go(c, point, state) ==
  call' = [call EXCEPT ![c] = [@ EXCEPT !.at = point, !.state = state]]

End(c) == call' = [call EXCEPT ![c] = None]

\* Redis takes a write or, failing open, misses it.
Put(key, state) == entry' \in {entry, [entry EXCEPT ![key] = state]}

\* del of both latest keys, in one command.
Del(a) ==
  entry' \in {entry,
              [k \in Keys |-> IF k \in {StateKey(a), LookupKey(a)}
                              THEN None ELSE entry[k]]}

-----------------------------------------------------------------------------
(* getState *)

Begin(c, p, a, job) ==
  /\ call[c] = None
  /\ job => owner[a] = p
  /\ call' = [call EXCEPT ![c] = [at |-> "cached", project |-> p,
                                  aggregate |-> a, job |-> job, state |-> {}]]
  /\ answer' = [answer EXCEPT ![c] = None]
  /\ UNCHANGED <<owner, snapshots, entry>>

\* A request is answered; createSnapshot goes on with the state.
Return(c, state) ==
  IF call[c].job
  THEN Go(c, "snapshot", state) /\ UNCHANGED answer
  ELSE /\ End(c)
       /\ answer' = [answer EXCEPT ![c] =
                       [project |-> call[c].project,
                        aggregate |-> call[c].aggregate, state |-> state]]

Hit(c) ==
  /\ At(c, "cached")
  /\ entry[StateKey(call[c].aggregate)] # None
  /\ Return(c, entry[StateKey(call[c].aggregate)])
  /\ UNCHANGED <<owner, snapshots, entry>>

\* No entry, or Redis fails.
Miss(c) ==
  /\ At(c, "cached")
  /\ Go(c, "find", {})
  /\ UNCHANGED <<owner, snapshots, entry, answer>>

\* Mutant: the row is looked up by its id alone.
FoundByIdAlone(p, a) == owner[a] # None

FindForProject(p, a) == owner[a] = p

Find(c) ==
  /\ At(c, "find")
  /\ FindForProject(call[c].project, call[c].aggregate)
  /\ Go(c, "base", {})
  /\ UNCHANGED <<owner, snapshots, entry, answer>>

\* Aggregate not found.
Refuse(c) ==
  /\ At(c, "find")
  /\ ~FindForProject(call[c].project, call[c].aggregate)
  /\ End(c)
  /\ UNCHANGED <<owner, snapshots, entry, answer>>

LookupHit(c) ==
  /\ At(c, "base")
  /\ entry[LookupKey(call[c].aggregate)] # None
  /\ Go(c, "fold", entry[LookupKey(call[c].aggregate)])
  /\ UNCHANGED <<owner, snapshots, entry, answer>>

\* Mutant: the row is cached in place of its state.
LookupMissCachesRow(c) ==
  /\ At(c, "base")
  /\ \E s \in snapshots[call[c].aggregate] :
       Go(c, "fold", s) /\ Put(LookupKey(call[c].aggregate), {s})
  /\ UNCHANGED <<owner, snapshots, answer>>

\* The nearest snapshot at or before the point, which is then cached.
LookupMiss(c) ==
  /\ At(c, "base")
  /\ \E s \in snapshots[call[c].aggregate] :
       Go(c, "fold", s) /\ Put(LookupKey(call[c].aggregate), s)
  /\ UNCHANGED <<owner, snapshots, answer>>

NoSnapshot(c) ==
  /\ At(c, "base")
  /\ Go(c, "fold", {})
  /\ UNCHANGED <<owner, snapshots, entry, answer>>

\* The events in range, the rules of the call's project, the fold, the entry.
Fold(c) ==
  LET state == call[c].state \cup {call[c].project} IN
  /\ At(c, "fold")
  /\ Put(StateKey(call[c].aggregate), state)
  /\ Return(c, state)
  /\ UNCHANGED <<owner, snapshots>>

\* createSnapshot writes a row for the state getState gave it ...
Snapshot(c) ==
  /\ At(c, "snapshot")
  /\ snapshots' = [snapshots EXCEPT ![call[c].aggregate] = @ \cup {call[c].state}]
  /\ Del(call[c].aggregate)
  /\ End(c)
  /\ UNCHANGED <<owner, answer>>

\* ... or finds one as recent; or a query fails.  Reads of Redis never do.
GiveUp(c) ==
  /\ call[c] # None /\ call[c].at # "cached"
  /\ End(c)
  /\ UNCHANGED <<owner, snapshots, entry, answer>>

-----------------------------------------------------------------------------
(* The rows and Redis *)

\* An event of project p is appended, the first one creating the row.
AppendEvent(p, a) ==
  /\ owner[a] \in {None, p}
  /\ owner' = [owner EXCEPT ![a] = p]
  /\ Del(a)
  /\ UNCHANGED <<snapshots, call, answer>>

\* Mutant: set is given no time to live.
NeverExpires(k) == FALSE /\ UNCHANGED vars

\* The time to live is over.
Expire(k) ==
  /\ entry[k] # None
  /\ entry' = [entry EXCEPT ![k] = None]
  /\ UNCHANGED <<owner, snapshots, call, answer>>

Next ==
  \/ \E c \in Calls :
       \/ \E p \in Projects, a \in Aggregates, job \in BOOLEAN : Begin(c, p, a, job)
       \/ Hit(c) \/ Miss(c) \/ Find(c) \/ Refuse(c)
       \/ LookupHit(c) \/ LookupMiss(c) \/ NoSnapshot(c)
       \/ Fold(c) \/ Snapshot(c) \/ GiveUp(c)
  \/ \E p \in Projects, a \in Aggregates : AppendEvent(p, a)
  \/ \E k \in Keys : Expire(k)

\* An entry's time to live runs out, whatever else happens.
Fairness == \A k \in Keys : WF_vars(Expire(k))

Spec == Init /\ [][Next]_vars /\ Fairness

-----------------------------------------------------------------------------
(* Properties *)

TypeOK ==
  /\ owner \in [Aggregates -> Projects \cup {None}]
  /\ snapshots \in [Aggregates -> SUBSET State]
  /\ entry \in [Keys -> State \cup {None}]
  /\ call \in [Calls -> CallType \cup {None}]
  /\ answer \in [Calls -> [project : Projects, aggregate : Aggregates,
                           state : State] \cup {None}]

\* Requests of other projects never change what the own project is told: every
\* state that is answered, cached or kept as a snapshot of an aggregate was
\* folded by the rules of the aggregate's project alone, from a snapshot of
\* which the same holds (findForProject before any read or write but the first
\* one of the cache).
FoldedByOwnRules ==
  /\ \A c \in Calls :
       answer[c] # None => answer[c].state = {owner[answer[c].aggregate]}
  /\ \A k \in Keys : entry[k] # None => entry[k] = {owner[k[2]]}
  /\ \A a \in Aggregates : snapshots[a] \subseteq {{owner[a]}}

\* A project's states are answered to requests of that project only: "keys are
\* project-scoped and cannot read or write across project boundaries"
\* (README.md, API).  getState answers from the cache before it looks at the
\* project of the row.
StatesStayInProject ==
  \A c \in Calls :
    answer[c] # None => answer[c].project = owner[answer[c].aggregate]

\* The strengthening that is inductive: past the check a call is of the own
\* project, and what it has so far is of the project's rules.
PastTheCheck ==
  \A c \in Calls :
    /\ At(c, "base") \/ At(c, "fold") =>
         call[c].project = owner[call[c].aggregate]
    /\ At(c, "fold") => call[c].state \subseteq {owner[call[c].aggregate]}
    /\ At(c, "snapshot") => call[c].state = {owner[call[c].aggregate]}

IInv == TypeOK /\ FoldedByOwnRules /\ PastTheCheck

\* What a request of another project can be told ends with the entry's time to
\* live: once no call of the own project for an aggregate is under way any more,
\* its state is out of the cache for good, however often others ask for it.
OwnCall(c, a) ==
  call[c] # None /\ call[c].aggregate = a /\ call[c].project = owner[a]
OwnCallsEnd(a) == <>[](\A c \in Calls : ~OwnCall(c, a))
CachedStateEnds ==
  \A a \in Aggregates : OwnCallsEnd(a) => <>[](entry[StateKey(a)] = None)
=============================================================================
