------------------------- MODULE StateAccessProofs --------------------------
(***************************************************************************)
(* Proofs about StateAccess, for any projects, aggregates and number of    *)
(* calls.  A row's project never changes once it is there, and a call that *)
(* is past findForProject is of it, so all that call reads and writes is.  *)
(***************************************************************************)
EXTENDS StateAccess, TLAPS

-----------------------------------------------------------------------------
(* The pieces the actions are made of *)

\* A project is not the mark of an absent row, and so no state holds the mark.
LEMMA NoneInNoState == \A s \in State : None \notin s
BY ConstantsAssumption DEF State

\* A call that goes on keeps all but its point and its state.
LEMMA Goes ==
  ASSUME TypeOK, NEW c \in Calls, call[c] # None,
         NEW point \in {"cached", "find", "base", "fold", "snapshot"},
         NEW state \in State, Go(c, point, state)
  PROVE  /\ call' \in [Calls -> CallType \cup {None}]
         /\ call'[c].at = point
         /\ call'[c].state = state
         /\ call'[c].project = call[c].project
         /\ call'[c].aggregate = call[c].aggregate
         /\ \A d \in Calls : d # c => call'[d] = call[d]
<1> DEFINE next == [call[c] EXCEPT !.at = point, !.state = state]
<1>1. call[c] \in CallType
  BY DEF TypeOK
<1>2. /\ next \in CallType
      /\ next.at = point /\ next.state = state
      /\ next.project = call[c].project /\ next.aggregate = call[c].aggregate
  BY <1>1 DEF CallType
<1>3. call' = [call EXCEPT ![c] = next]
  BY DEF Go
<1> HIDE DEF next
<1> QED BY <1>2, <1>3 DEF TypeOK

\* A call that ends leaves the others alone.
LEMMA Ends ==
  ASSUME TypeOK, NEW c \in Calls, End(c)
  PROVE  /\ call' \in [Calls -> CallType \cup {None}]
         /\ call'[c] = None
         /\ \A d \in Calls : d # c => call'[d] = call[d]
BY DEF TypeOK, End

\* The entries' part of FoldedByOwnRules.
OwnEntries == \A k \in Keys : entry[k] # None => entry[k] = {owner[k[2]]}

\* A deletion leaves every entry alone or removes it.
LEMMA Deletes ==
  ASSUME TypeOK, NEW a \in Aggregates, Del(a)
  PROVE  /\ entry' \in [Keys -> State \cup {None}]
         /\ \A k \in Keys : entry'[k] \in {entry[k], None}
BY DEF TypeOK, Del

\* A write changes the entry of its key, if any.
LEMMA Puts ==
  ASSUME TypeOK, NEW key \in Keys, NEW state \in State, Put(key, state)
  PROVE  /\ entry' \in [Keys -> State \cup {None}]
         /\ \A k \in Keys : \/ entry'[k] = entry[k]
                            \/ k = key /\ entry'[k] = state
BY DEF TypeOK, Put

\* The two keys of an aggregate name it.
LEMMA KeysOf ==
  ASSUME NEW a \in Aggregates
  PROVE  /\ StateKey(a) \in Keys /\ StateKey(a)[2] = a
         /\ LookupKey(a) \in Keys /\ LookupKey(a)[2] = a
BY DEF StateKey, LookupKey, Keys

\* What PastTheCheck says of one call.
Past(c) ==
  /\ At(c, "base") \/ At(c, "fold") =>
       call[c].project = owner[call[c].aggregate]
  /\ At(c, "fold") => call[c].state \subseteq {owner[call[c].aggregate]}
  /\ At(c, "snapshot") => call[c].state = {owner[call[c].aggregate]}

\* PastTheCheck says it of every call.
LEMMA PastOfAll == PastTheCheck <=> \A c \in Calls : Past(c)
BY DEF PastTheCheck, Past

\* A call that stays as it is has nothing new to show while its row does.
LEMMA Stays ==
  ASSUME NEW c, Past(c), call'[c] = call[c], UNCHANGED owner
  PROVE  Past(c)'
BY DEF Past, At

-----------------------------------------------------------------------------
(* One lemma per kind of step *)

\* Returning a state of the own rules keeps the invariant, whatever else the
\* step does to the entries.
LEMMA ReturnKeeps ==
  ASSUME IInv, NEW c \in Calls, call[c] # None, NEW state \in State,
         state = {owner[call[c].aggregate]}, Return(c, state),
         entry' \in [Keys -> State \cup {None}], OwnEntries',
         UNCHANGED <<owner, snapshots>>
  PROVE  IInv'
<1>1. call[c] \in CallType /\ call[c].aggregate \in Aggregates
      /\ call[c].project \in Projects
  BY DEF IInv, TypeOK, CallType
<1>2. CASE call[c].job
  <2>1. Go(c, "snapshot", state) /\ UNCHANGED answer
    BY <1>2 DEF Return
  <2>2. /\ call' \in [Calls -> CallType \cup {None}]
        /\ call'[c].at = "snapshot" /\ call'[c].state = state
        /\ call'[c].aggregate = call[c].aggregate
        /\ \A d \in Calls : d # c => call'[d] = call[d]
    BY <2>1, Goes DEF IInv
  <2>3. Past(c)'
    BY <2>2 DEF Past, At
  <2>4. \A d \in Calls : d # c => Past(d)'
    BY <2>2, PastOfAll, Stays DEF IInv
  <2>5. PastTheCheck'
    BY <2>3, <2>4 DEF PastTheCheck, Past
  <2>6. TypeOK'
    BY <2>1, <2>2 DEF IInv, TypeOK
  <2>7. FoldedByOwnRules'
    BY <2>1 DEF IInv, FoldedByOwnRules, OwnEntries
  <2> QED BY <2>5, <2>6, <2>7 DEF IInv
<1>3. CASE ~call[c].job
  <2> DEFINE given == [project |-> call[c].project,
                       aggregate |-> call[c].aggregate, state |-> state]
  <2>1. End(c) /\ answer' = [answer EXCEPT ![c] = given]
    BY <1>3 DEF Return
  <2>2. /\ call' \in [Calls -> CallType \cup {None}]
        /\ call'[c] = None
        /\ \A d \in Calls : d # c => call'[d] = call[d]
    BY <2>1, Ends DEF IInv
  <2>3. /\ given \in [project : Projects, aggregate : Aggregates, state : State]
        /\ given.state = {owner[given.aggregate]}
    BY <1>1
  <2> HIDE DEF given
  <2>4. Past(c)'
    BY <2>2 DEF Past, At
  <2>5. \A d \in Calls : d # c => Past(d)'
    BY <2>2, PastOfAll, Stays DEF IInv
  <2>6. PastTheCheck'
    BY <2>4, <2>5 DEF PastTheCheck, Past
  <2>7. TypeOK'
    BY <2>1, <2>2, <2>3 DEF IInv, TypeOK
  <2>8. \A d \in Calls :
          answer'[d] # None => answer'[d].state = {owner[answer'[d].aggregate]}
    BY <2>1, <2>3 DEF IInv, TypeOK, FoldedByOwnRules
  <2>9. FoldedByOwnRules'
    BY <2>8 DEF IInv, FoldedByOwnRules, OwnEntries
  <2> QED BY <2>6, <2>7, <2>9 DEF IInv
<1> QED BY <1>2, <1>3

\* A step that moves one call and touches entries at most keeps the invariant
\* if the moved call has what its new point asks for.
LEMMA MoveKeeps ==
  ASSUME IInv, NEW c \in Calls,
         call' \in [Calls -> CallType \cup {None}],
         \A d \in Calls : d # c => call'[d] = call[d],
         Past(c)',
         entry' \in [Keys -> State \cup {None}], OwnEntries',
         UNCHANGED <<owner, snapshots, answer>>
  PROVE  IInv'
<1>1. \A d \in Calls : d # c => Past(d)'
  BY PastOfAll, Stays DEF IInv
<1>2. PastTheCheck'
  BY <1>1 DEF PastTheCheck, Past
<1>3. TypeOK'
  BY DEF IInv, TypeOK
<1>4. FoldedByOwnRules'
  BY DEF IInv, FoldedByOwnRules, OwnEntries
<1> QED BY <1>2, <1>3, <1>4 DEF IInv

\* Entries that are left alone are still of the own rules.
LEMMA SameEntries ==
  ASSUME IInv, UNCHANGED <<owner, entry>>
  PROVE  entry' \in [Keys -> State \cup {None}] /\ OwnEntries'
BY DEF IInv, TypeOK, FoldedByOwnRules, OwnEntries

-----------------------------------------------------------------------------
(* The invariant *)

\* A call that begins has read nothing yet.
LEMMA BeginKeeps ==
  ASSUME IInv, NEW c \in Calls, NEW p \in Projects, NEW a \in Aggregates,
         NEW job \in BOOLEAN, Begin(c, p, a, job)
  PROVE  IInv'
<1> DEFINE new == [at |-> "cached", project |-> p, aggregate |-> a,
                   job |-> job, state |-> {}]
<1>1. new \in CallType /\ new.at = "cached"
  BY DEF CallType, State
<1>2. /\ call' = [call EXCEPT ![c] = new]
      /\ answer' = [answer EXCEPT ![c] = None]
      /\ UNCHANGED <<owner, snapshots, entry>>
  BY DEF Begin
<1> HIDE DEF new
<1>3. /\ call' \in [Calls -> CallType \cup {None}] /\ call'[c].at = "cached"
      /\ \A d \in Calls : d # c => call'[d] = call[d]
  BY <1>1, <1>2 DEF IInv, TypeOK
<1>4. \A d \in Calls : d # c => Past(d)'
  BY <1>2, <1>3, PastOfAll, Stays DEF IInv
<1>5. Past(c)'
  BY <1>3 DEF Past, At
<1>6. PastTheCheck'
  BY <1>4, <1>5 DEF PastTheCheck, Past
<1>7. TypeOK'
  BY <1>2, <1>3 DEF IInv, TypeOK
<1>8. FoldedByOwnRules'
  BY <1>2 DEF IInv, TypeOK, FoldedByOwnRules
<1> QED BY <1>6, <1>7, <1>8 DEF IInv

\* What the cache answers was folded by the own rules.
LEMMA HitKeeps == ASSUME IInv, NEW c \in Calls, Hit(c) PROVE IInv'
<1> DEFINE a == call[c].aggregate
<1>1. call[c] # None /\ a \in Aggregates
  BY DEF Hit, At, IInv, TypeOK, CallType
<1>2. entry[StateKey(a)] \in State /\ entry[StateKey(a)] = {owner[a]}
  BY <1>1, KeysOf DEF Hit, IInv, TypeOK, FoldedByOwnRules
<1>3. Return(c, entry[StateKey(a)]) /\ UNCHANGED <<owner, snapshots, entry>>
  BY DEF Hit
<1> QED BY <1>1, <1>2, <1>3, ReturnKeeps, SameEntries

\* A call without an entry has still to find the row.
LEMMA MissKeeps == ASSUME IInv, NEW c \in Calls, Miss(c) PROVE IInv'
<1>1. /\ call' \in [Calls -> CallType \cup {None}] /\ call'[c].at = "find"
      /\ \A d \in Calls : d # c => call'[d] = call[d]
  BY Goes DEF Miss, At, IInv, State
<1>2. Past(c)'
  BY <1>1 DEF Past, At
<1> QED BY <1>1, <1>2, MoveKeeps, SameEntries DEF Miss

\* A call that finds the row is of its project.
LEMMA FindKeeps == ASSUME IInv, NEW c \in Calls, Find(c) PROVE IInv'
<1>1. /\ call' \in [Calls -> CallType \cup {None}] /\ call'[c].at = "base"
      /\ call'[c].project = call[c].project
      /\ call'[c].aggregate = call[c].aggregate
      /\ \A d \in Calls : d # c => call'[d] = call[d]
  BY Goes DEF Find, At, IInv, State
<1>2. owner[call[c].aggregate] = call[c].project /\ UNCHANGED owner
  BY DEF Find, FindForProject
<1>3. Past(c)'
  BY <1>1, <1>2 DEF Past, At
<1> QED BY <1>1, <1>3, MoveKeeps, SameEntries DEF Find

\* A refused or failed call leaves only its own place.
LEMMA EndKeeps ==
  ASSUME IInv, NEW c \in Calls, End(c),
         UNCHANGED <<owner, snapshots, entry, answer>>
  PROVE  IInv'
<1>1. /\ call' \in [Calls -> CallType \cup {None}] /\ call'[c] = None
      /\ \A d \in Calls : d # c => call'[d] = call[d]
  BY Ends DEF IInv
<1>2. Past(c)'
  BY <1>1 DEF Past, At
<1> QED BY <1>1, <1>2, MoveKeeps, SameEntries

\* A call that takes a base of the own rules may fold.
LEMMA BaseKeeps ==
  ASSUME IInv, NEW c \in Calls, At(c, "base"), NEW state \in State,
         state \subseteq {owner[call[c].aggregate]}, Go(c, "fold", state),
         entry' \in [Keys -> State \cup {None}], OwnEntries',
         UNCHANGED <<owner, snapshots, answer>>
  PROVE  IInv'
<1>1. /\ call' \in [Calls -> CallType \cup {None}]
      /\ call'[c].at = "fold" /\ call'[c].state = state
      /\ call'[c].project = call[c].project
      /\ call'[c].aggregate = call[c].aggregate
      /\ \A d \in Calls : d # c => call'[d] = call[d]
  BY Goes DEF At, IInv
<1>2. call[c].project = owner[call[c].aggregate]
  BY DEF IInv, PastTheCheck
<1>3. Past(c)'
  BY <1>1, <1>2 DEF Past, At
<1> QED BY <1>1, <1>3, MoveKeeps

\* A cached lookup is of the own rules.
LEMMA LookupHitKeeps == ASSUME IInv, NEW c \in Calls, LookupHit(c) PROVE IInv'
<1> DEFINE a == call[c].aggregate
<1>1. a \in Aggregates
  BY DEF LookupHit, At, IInv, TypeOK, CallType
<1>2. entry[LookupKey(a)] \in State /\ entry[LookupKey(a)] = {owner[a]}
  BY <1>1, KeysOf DEF LookupHit, IInv, TypeOK, FoldedByOwnRules
<1>3. /\ At(c, "base") /\ Go(c, "fold", entry[LookupKey(a)])
      /\ UNCHANGED <<owner, snapshots, entry, answer>>
  BY DEF LookupHit
<1> QED BY <1>2, <1>3, BaseKeeps, SameEntries

\* A snapshot is of the own rules, and so is the lookup it is cached as.
LEMMA LookupMissKeeps == ASSUME IInv, NEW c \in Calls, LookupMiss(c) PROVE IInv'
<1> DEFINE a == call[c].aggregate
<1>1. a \in Aggregates
  BY DEF LookupMiss, At, IInv, TypeOK, CallType
<1>2. PICK s \in snapshots[a] : Go(c, "fold", s) /\ Put(LookupKey(a), s)
  BY DEF LookupMiss
<1>3. s \in State /\ s = {owner[a]}
  BY <1>1, <1>2 DEF IInv, TypeOK, FoldedByOwnRules
<1>4. At(c, "base") /\ UNCHANGED <<owner, snapshots, answer>>
  BY DEF LookupMiss
<1>5. LookupKey(a) \in Keys /\ LookupKey(a)[2] = a
  BY <1>1, KeysOf
<1>6. /\ entry' \in [Keys -> State \cup {None}]
      /\ \A k \in Keys : \/ entry'[k] = entry[k]
                         \/ k = LookupKey(a) /\ entry'[k] = s
  BY <1>2, <1>3, <1>5, Puts DEF IInv
<1>7. OwnEntries'
  BY <1>3, <1>4, <1>5, <1>6 DEF IInv, FoldedByOwnRules, OwnEntries
<1> QED BY <1>2, <1>3, <1>4, <1>6, <1>7, BaseKeeps

\* No snapshot is a base of no rules.
LEMMA NoSnapshotKeeps == ASSUME IInv, NEW c \in Calls, NoSnapshot(c) PROVE IInv'
<1>1. {} \in State
  BY DEF State
<1> QED BY <1>1, BaseKeeps, SameEntries DEF NoSnapshot

\* The fold adds the rules of the call's project, which is the row's.
LEMMA FoldKeeps == ASSUME IInv, NEW c \in Calls, Fold(c) PROVE IInv'
<1> DEFINE a == call[c].aggregate
           state == call[c].state \cup {call[c].project}
<1>1. /\ a \in Aggregates /\ call[c] # None
      /\ call[c].project \in Projects /\ call[c].state \in State
  BY DEF Fold, At, IInv, TypeOK, CallType
<1>2. call[c].project = owner[a] /\ call[c].state \subseteq {owner[a]}
  BY DEF Fold, IInv, PastTheCheck
<1>3. state \in State /\ state = {owner[a]}
  BY <1>1, <1>2 DEF State
<1>4. /\ Put(StateKey(a), state) /\ Return(c, state)
      /\ UNCHANGED <<owner, snapshots>>
  BY DEF Fold
<1> HIDE DEF state
<1>5. StateKey(a) \in Keys /\ StateKey(a)[2] = a
  BY <1>1, KeysOf
<1>6. /\ entry' \in [Keys -> State \cup {None}]
      /\ \A k \in Keys : \/ entry'[k] = entry[k]
                         \/ k = StateKey(a) /\ entry'[k] = state
  BY <1>3, <1>4, <1>5, Puts DEF IInv
<1>7. OwnEntries'
  BY <1>3, <1>4, <1>5, <1>6 DEF IInv, FoldedByOwnRules, OwnEntries
<1> QED BY <1>1, <1>3, <1>4, <1>6, <1>7, ReturnKeeps

\* The row a worker writes keeps a state of the own rules.
LEMMA SnapshotKeeps == ASSUME IInv, NEW c \in Calls, Snapshot(c) PROVE IInv'
<1> DEFINE a == call[c].aggregate
           s == call[c].state
<1>1. a \in Aggregates /\ s \in State
  BY DEF Snapshot, At, IInv, TypeOK, CallType
<1>2. s = {owner[a]}
  BY DEF Snapshot, IInv, PastTheCheck
<1>3. /\ snapshots' = [snapshots EXCEPT ![a] = snapshots[a] \cup {s}]
      /\ Del(a) /\ End(c) /\ UNCHANGED <<owner, answer>>
  BY DEF Snapshot
<1> HIDE DEF s
<1> DEFINE kept == snapshots[a] \cup {s}
<1>4. /\ snapshots' \in [Aggregates -> SUBSET State]
      /\ \A b \in Aggregates : snapshots'[b] \subseteq {{owner[b]}}
  <2>1. snapshots \in [Aggregates -> SUBSET State]
    BY DEF IInv, TypeOK
  <2>2. kept \in SUBSET State
    BY <1>1, <2>1
  <2>3. kept \subseteq {{owner[a]}}
    BY <1>1, <1>2 DEF IInv, FoldedByOwnRules
  <2>4. \A b \in Aggregates : snapshots[b] \subseteq {{owner[b]}}
    BY DEF IInv, FoldedByOwnRules
  <2>5. snapshots' = [snapshots EXCEPT ![a] = kept]
    BY <1>3
  <2> HIDE DEF kept
  <2>6. snapshots' \in [Aggregates -> SUBSET State]
    BY <1>1, <2>1, <2>2, <2>5
  <2>7. \A b \in Aggregates :
          snapshots'[b] = IF b = a THEN kept ELSE snapshots[b]
    BY <2>1, <2>5
  <2>8. \A b \in Aggregates : snapshots'[b] \subseteq {{owner[b]}}
    BY <2>3, <2>4, <2>7
  <2> QED BY <2>6, <2>8
<1>5. /\ call' \in [Calls -> CallType \cup {None}] /\ call'[c] = None
      /\ \A d \in Calls : d # c => call'[d] = call[d]
  BY <1>3, Ends DEF IInv
<1>6. /\ entry' \in [Keys -> State \cup {None}]
      /\ \A k \in Keys : entry'[k] \in {entry[k], None}
  BY <1>1, <1>3, Deletes DEF IInv
<1>7. \A d \in Calls : Past(d)'
  <2>1. Past(c)'
    BY <1>5 DEF Past, At
  <2>2. \A d \in Calls : d # c => Past(d)'
    BY <1>3, <1>5, PastOfAll, Stays DEF IInv
  <2> QED BY <2>1, <2>2
<1>8. PastTheCheck'
  BY <1>7 DEF PastTheCheck, Past
<1>9. TypeOK'
  BY <1>3, <1>4, <1>5, <1>6 DEF IInv, TypeOK
<1>10. FoldedByOwnRules'
  BY <1>3, <1>4, <1>6 DEF IInv, FoldedByOwnRules
<1> QED BY <1>8, <1>9, <1>10 DEF IInv

\* An append gives an aggregate without a row its project; nothing was folded,
\* cached or kept of it before.
LEMMA AppendKeeps ==
  ASSUME IInv, NEW p \in Projects, NEW a \in Aggregates, AppendEvent(p, a)
  PROVE  IInv'
<1>1. /\ owner' = [owner EXCEPT ![a] = p] /\ owner[a] \in {None, p}
      /\ Del(a) /\ UNCHANGED <<snapshots, call, answer>>
  BY DEF AppendEvent
<1>2. \A b \in Aggregates : owner[b] # None => owner'[b] = owner[b]
  BY <1>1 DEF IInv, TypeOK
<1>3. /\ entry' \in [Keys -> State \cup {None}]
      /\ \A k \in Keys : entry'[k] \in {entry[k], None}
  BY <1>1, Deletes DEF IInv
<1>4. TypeOK'
  BY <1>1, <1>3 DEF IInv, TypeOK
<1>5. \A b \in Aggregates, s \in State : s = {owner[b]} => s = {owner'[b]}
  BY <1>2, NoneInNoState
<1>6. \A k \in Keys : entry'[k] # None => entry'[k] = {owner'[k[2]]}
  <2> SUFFICES ASSUME NEW k \in Keys, entry'[k] # None
               PROVE  entry'[k] = {owner'[k[2]]}
    OBVIOUS
  <2>1. entry[k] \in State /\ entry'[k] = entry[k] /\ k[2] \in Aggregates
    BY <1>3 DEF IInv, TypeOK, Keys
  <2>2. entry[k] = {owner[k[2]]}
    BY <1>3 DEF IInv, FoldedByOwnRules
  <2> QED BY <1>5, <2>1, <2>2
<1>7. \A c \in Calls :
        answer'[c] # None => answer'[c].state = {owner'[answer'[c].aggregate]}
  BY <1>1, <1>5 DEF IInv, TypeOK, FoldedByOwnRules
<1>8. \A b \in Aggregates : snapshots'[b] \subseteq {{owner'[b]}}
  BY <1>1, <1>5 DEF IInv, TypeOK, FoldedByOwnRules
<1>9. FoldedByOwnRules'
  BY <1>6, <1>7, <1>8 DEF FoldedByOwnRules
<1>10. PastTheCheck'
  <2> SUFFICES ASSUME NEW c \in Calls PROVE Past(c)'
    BY DEF PastTheCheck, Past
  <2>1. call'[c] = call[c]
    BY <1>1
  <2>2. Past(c)
    BY PastOfAll DEF IInv
  <2>3. CASE call[c] = None
    BY <2>1, <2>3 DEF Past, At
  <2>4. CASE call[c] # None
    <3> DEFINE b == call[c].aggregate
    <3>1. /\ call[c] \in CallType /\ b \in Aggregates
          /\ call[c].project \in Projects /\ call[c].state \in State
      BY <2>4 DEF IInv, TypeOK, CallType
    <3>2. At(c, "base") \/ At(c, "fold") => owner'[b] = owner[b]
      BY <1>2, <2>2, <3>1, ConstantsAssumption DEF Past
    <3>3. At(c, "snapshot") => call[c].state = {owner'[b]}
      BY <1>5, <2>2, <3>1 DEF Past
    <3> QED BY <2>1, <2>2, <3>2, <3>3 DEF Past, At
  <2> QED BY <2>3, <2>4
<1> QED BY <1>4, <1>9, <1>10 DEF IInv

\* An entry that expires is gone.
LEMMA ExpireKeeps == ASSUME IInv, NEW k \in Keys, Expire(k) PROVE IInv'
<1>1. /\ entry' = [entry EXCEPT ![k] = None]
      /\ UNCHANGED <<owner, snapshots, call, answer>>
  BY DEF Expire
<1>2. TypeOK'
  BY <1>1 DEF IInv, TypeOK
<1>3. FoldedByOwnRules'
  BY <1>1 DEF IInv, TypeOK, FoldedByOwnRules
<1>4. PastTheCheck'
  BY <1>1 DEF IInv, PastTheCheck, At
<1> QED BY <1>2, <1>3, <1>4 DEF IInv

\* Every reachable state satisfies the strengthening.
THEOREM Inductive == Spec => []IInv
<1>1. Init => IInv
  BY DEF Init, IInv, TypeOK, FoldedByOwnRules, PastTheCheck, At, State
<1>2. IInv /\ [Next]_vars => IInv'
  <2> SUFFICES ASSUME IInv, [Next]_vars PROVE IInv'
    OBVIOUS
  <2>1. ASSUME NEW c \in Calls, NEW p \in Projects, NEW a \in Aggregates,
               NEW job \in BOOLEAN, Begin(c, p, a, job)
        PROVE  IInv'
    BY <2>1, BeginKeeps
  <2>2. ASSUME NEW c \in Calls, Hit(c) PROVE IInv'
    BY <2>2, HitKeeps
  <2>3. ASSUME NEW c \in Calls, Miss(c) PROVE IInv'
    BY <2>3, MissKeeps
  <2>4. ASSUME NEW c \in Calls, Find(c) PROVE IInv'
    BY <2>4, FindKeeps
  <2>5. ASSUME NEW c \in Calls, Refuse(c) \/ GiveUp(c) PROVE IInv'
    BY <2>5, EndKeeps DEF Refuse, GiveUp
  <2>6. ASSUME NEW c \in Calls, LookupHit(c) PROVE IInv'
    BY <2>6, LookupHitKeeps
  <2>7. ASSUME NEW c \in Calls, LookupMiss(c) PROVE IInv'
    BY <2>7, LookupMissKeeps
  <2>8. ASSUME NEW c \in Calls, NoSnapshot(c) PROVE IInv'
    BY <2>8, NoSnapshotKeeps
  <2>9. ASSUME NEW c \in Calls, Fold(c) PROVE IInv'
    BY <2>9, FoldKeeps
  <2>10. ASSUME NEW c \in Calls, Snapshot(c) PROVE IInv'
    BY <2>10, SnapshotKeeps
  <2>11. ASSUME NEW p \in Projects, NEW a \in Aggregates, AppendEvent(p, a)
         PROVE  IInv'
    BY <2>11, AppendKeeps
  <2>12. ASSUME NEW k \in Keys, Expire(k) PROVE IInv'
    BY <2>12, ExpireKeeps
  <2>13. CASE UNCHANGED vars
    BY <2>13 DEF vars, IInv, TypeOK, FoldedByOwnRules, PastTheCheck, At
  <2> QED BY <2>1, <2>2, <2>3, <2>4, <2>5, <2>6, <2>7, <2>8, <2>9, <2>10,
             <2>11, <2>12, <2>13 DEF Next
<1> QED BY <1>1, <1>2, PTL DEF Spec

\* The rows, snapshots, entries, calls and answers always have their types.
THEOREM TypeCorrect == Spec => []TypeOK
<1>1. IInv => TypeOK
  BY DEF IInv
<1> QED BY <1>1, Inductive, PTL

\* No request of another project, however often or when, puts anything but the
\* own rules' fold into an answer, an entry or a snapshot of an aggregate.
THEOREM OwnRulesFold == Spec => []FoldedByOwnRules
<1>1. IInv => FoldedByOwnRules
  BY DEF IInv
<1> QED BY <1>1, Inductive, PTL
=============================================================================
