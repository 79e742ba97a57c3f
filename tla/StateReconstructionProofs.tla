---------------------- MODULE StateReconstructionProofs ----------------------
(***************************************************************************)
(* Proofs about StateReconstruction, for any readers, workers, appenders,  *)
(* points, thresholds, bounds and faults.                                  *)
(***************************************************************************)
EXTENDS StateReconstruction, FiniteSetTheorems, SequenceTheorems, TLAPS

-----------------------------------------------------------------------------
(* Folds *)

Pairs == Nat \X Nat

\* NoView is the exact view of no events.
LEMMA NoViewExact ==
  ASSUME NEW n \in Nat
  PROVE  NoView \in View /\ Exact(NoView, n)
BY EmptySeq DEF NoView, View, Exact

\* findEventsInRange answers the consecutive numbers after the first.
LEMMA RangeConsecutive ==
  ASSUME NEW a \in Nat, NEW m \in Nat
  PROVE  /\ EventsInRange(a, m) \in Seq(Nat)
         /\ Len(EventsInRange(a, m)) = IF m > a THEN m - a ELSE 0
         /\ \A i \in 1..Len(EventsInRange(a, m)) :
              EventsInRange(a, m)[i] = a + i
<1> DEFINE n == IF m > a THEN m - a ELSE 0
           r == EventsInRange(a, m)
<1>1. n \in Nat
  OBVIOUS
<1>2. r = [i \in 1..n |-> a + i]
  BY DEF EventsInRange
<1> HIDE DEF n, r
<1>3. r \in [1..n -> Nat]
  BY <1>1, <1>2
<1>4. r \in Seq(Nat)
  BY <1>1, <1>3, SeqDef
<1>5. Len(r) = n
  BY <1>1, <1>3
<1>6. \A i \in 1..Len(r) : r[i] = a + i
  BY <1>2, <1>5
<1> QED BY <1>4, <1>5, <1>6 DEF r, n

\* Folding the events after an exact view onto it gives an exact view, which
\* reaches the last event read, or stays where the base was.
LEMMA FoldExact ==
  ASSUME NEW n \in Nat, NEW b \in View, Exact(b, n), NEW m \in 0..n,
         NEW v \in Nat
  PROVE  /\ Fold(b, EventsInRange(b.seq, m), v) \in View
         /\ Exact(Fold(b, EventsInRange(b.seq, m), v), n)
         /\ Fold(b, EventsInRange(b.seq, m), v).seq = IF m > b.seq THEN m ELSE b.seq
<1> DEFINE r == EventsInRange(b.seq, m)
           t == [i \in 1..Len(r) |-> <<r[i], v>>]
           f == Fold(b, r, v)
<1>1. /\ b.seq \in Nat
      /\ b.state \in Seq(Pairs)
      /\ Len(b.state) = b.seq
      /\ b.seq <= n
      /\ \A i \in 1..b.seq : b.state[i][1] = i
  BY DEF View, Exact, Pairs
<1>2. /\ r \in Seq(Nat)
      /\ Len(r) = IF m > b.seq THEN m - b.seq ELSE 0
      /\ \A i \in 1..Len(r) : r[i] = b.seq + i
  <2>1. m \in Nat
    OBVIOUS
  <2> QED BY <1>1, <2>1, RangeConsecutive
<1> HIDE DEF r
<1>3. Len(r) \in Nat
  BY <1>1, <1>2
<1>4. t \in [1..Len(r) -> Pairs]
  <2>1. \A i \in 1..Len(r) : r[i] \in Nat
    BY <1>2, ElementOfSeq
  <2>2. \A i \in 1..Len(r) : <<r[i], v>> \in Pairs
    BY <2>1 DEF Pairs
  <2> QED BY <2>2
<1>5. t \in Seq(Pairs) /\ Len(t) = Len(r)
  <2>1. t \in Seq(Pairs)
    BY <1>3, <1>4, SeqDef
  <2>2. Len(t) = Len(r)
    BY <1>3, <1>4
  <2> QED BY <2>1, <2>2
<1>6. f.state = b.state \o t /\ f.seq = IF r = <<>> THEN b.seq ELSE r[Len(r)]
  BY DEF Fold
<1>7. f = [seq |-> f.seq, state |-> f.state]
  BY DEF Fold
<1>8. f.seq = IF m > b.seq THEN m ELSE b.seq
  <2>1. CASE m > b.seq
    <3>1. r # <<>> /\ r[Len(r)] = m
      BY <1>1, <1>2, <2>1
    <3> QED BY <1>6, <2>1, <3>1
  <2>2. CASE ~(m > b.seq)
    <3>1. r = <<>>
      BY <1>2, <2>2, EmptySeq
    <3> QED BY <1>6, <2>2, <3>1
  <2> QED BY <2>1, <2>2
<1> HIDE DEF t
<1>9. /\ f.state \in Seq(Pairs)
      /\ Len(f.state) = b.seq + Len(r)
      /\ \A i \in 1..b.seq + Len(r) :
           f.state[i] = IF i <= b.seq THEN b.state[i] ELSE t[i - b.seq]
  BY <1>1, <1>5, <1>6, ConcatProperties, SMTT(30)
<1> HIDE DEF f
<1>10. f.seq \in Nat /\ f.seq = b.seq + Len(r) /\ f.seq <= n
  BY <1>1, <1>2, <1>8
<1>11. ASSUME NEW i \in 1..f.seq PROVE f.state[i][1] = i
  <2>0. i \in 1..b.seq + Len(r) /\ i \in Nat
    BY <1>10
  <2>1. CASE i <= b.seq
    <3>1. i \in 1..b.seq
      BY <1>1, <2>0, <2>1
    <3>2. f.state[i] = b.state[i]
      BY <1>9, <2>0, <2>1
    <3> QED BY <1>1, <3>1, <3>2
  <2>2. CASE i > b.seq
    <3>1. i - b.seq \in 1..Len(r)
      BY <1>1, <1>3, <1>10, <2>2
    <3>2. t[i - b.seq] = <<r[i - b.seq], v>>
      BY <3>1 DEF t
    <3>3. r[i - b.seq] = b.seq + (i - b.seq)
      BY <1>2, <3>1
    <3>4. b.seq + (i - b.seq) = i
      BY <1>1, <2>0
    <3>5. f.state[i] = t[i - b.seq]
      BY <1>1, <1>9, <2>0, <2>2
    <3> QED BY <3>2, <3>3, <3>4, <3>5
  <2> QED BY <1>1, <1>10, <2>1, <2>2
<1>12. f \in View
  BY <1>7, <1>9, <1>10 DEF View, Pairs
<1>13. Exact(f, n)
  BY <1>9, <1>10, <1>11 DEF Exact
<1> QED BY <1>8, <1>12, <1>13 DEF f, r

\* Every row findLatest or findLatestUpTo can answer is one of the set, or none.
LEMMA LastOfMember ==
  ASSUME NEW S, NEW s \in LastOf(S)
  PROVE  s \in S \cup {NoView}
BY DEF LastOf

-----------------------------------------------------------------------------
(* The invariant, getter by getter and entry by entry *)

\* What IInv says of one getter, with locals c, at label l, when n events are
\* committed.
GetterOK(c, l, n) ==
  /\ c \in Call
  /\ Exact(c.base, n)
  /\ Exact(c.answer, n)
  /\ c.point # Latest => c.base.seq <= c.point /\ c.answer.seq <= c.point
  /\ c.committed <= n
  /\ l = "readRules" =>
       \E m \in 0..n : /\ Reach(c.point, c.committed) <= m
                       /\ c.point # Latest => m <= c.point
                       /\ c.read = EventsInRange(c.base.seq, m)
  /\ l \in {"fillStateCache", "answered"} /\ ~c.hit =>
       c.answer.seq >= Reach(c.point, c.committed)

\* What IInv says of a view held for point q.
ViewOK(e, q, n) ==
  /\ e \in View
  /\ Exact(e, n)
  /\ q # Latest => e.seq <= q

Labels == {"idle", "readLookupCache", "findSnapshot", "fillLookupCache",
           "readEvents", "readRules", "fillStateCache", "answered", "createRow",
           "invalidate", "findLatest", "count", "enqueue"}

StoreOK ==
  /\ nEvents \in Nat
  /\ rules \in Nat
  /\ \A s \in snapshots : ViewOK(s, Latest, nEvents)
  /\ stateCache \in [Points -> Entry]
  /\ lookupCache \in [Points -> Entry]
  /\ \A q \in Points : stateCache[q] # Miss => ViewOK(stateCache[q], q, nEvents)
  /\ \A q \in Points : lookupCache[q] # Miss => ViewOK(lookupCache[q], q, nEvents)

GettersOK ==
  /\ call \in [Getters -> Call]
  /\ \A p \in Getters : GetterOK(call[p], pc[p], nEvents)

ControlOK ==
  /\ pc \in [Processes -> Labels]
  /\ queued \in Nat
  /\ own \in [Appenders -> Nat]
  /\ since \in [Appenders -> Nat]
  /\ invalidated \in Nat

\* IInv, rearranged.
LEMMA InvariantParts == IInv <=> StoreOK /\ GettersOK /\ ControlOK
<1>1. ASSUME IInv PROVE StoreOK /\ GettersOK /\ ControlOK
  <2> USE <1>1 DEF IInv, TypeOK
  <2>1. StoreOK
    BY DEF StoreOK, ViewOK, FoldsEachEventOnce, NeverBeyondPoint, Entry
  <2>2. ASSUME NEW p \in Getters PROVE GetterOK(call[p], pc[p], nEvents)
    <3>1. call[p] \in Call /\ call[p].point \in Points
      BY DEF Call
    <3> QED BY <3>1 DEF GetterOK, FoldsEachEventOnce, NeverBeyondPoint,
                        ReadsConsecutive
  <2>3. ControlOK
    BY DEF ControlOK, Labels
  <2> QED BY <2>1, <2>2, <2>3 DEF GettersOK
<1>2. ASSUME StoreOK, GettersOK, ControlOK PROVE IInv
  <2> USE <1>2
  <2>1. TypeOK
    BY DEF TypeOK, StoreOK, GettersOK, ControlOK, Labels, ViewOK
  <2>2. FoldsEachEventOnce
    BY DEF FoldsEachEventOnce, StoreOK, GettersOK, GetterOK, ViewOK
  <2>3. NeverBeyondPoint
    BY DEF NeverBeyondPoint, StoreOK, GettersOK, GetterOK, ViewOK
  <2>4. ReadsConsecutive
    BY DEF ReadsConsecutive, GettersOK, GetterOK
  <2> QED BY <2>1, <2>2, <2>3, <2>4 DEF IInv
<1> QED BY <1>1, <1>2

\* More committed events invalidate nothing.
LEMMA ViewGrows ==
  ASSUME NEW n \in Nat, NEW k \in Nat, n <= k, NEW q \in Points, NEW e,
         ViewOK(e, q, n)
  PROVE  ViewOK(e, q, k)
BY DEF ViewOK, Exact, View

LEMMA GetterGrows ==
  ASSUME NEW n \in Nat, NEW k \in Nat, n <= k, NEW c, NEW l, GetterOK(c, l, n)
  PROVE  GetterOK(c, l, k)
<1>1. Exact(c.base, k) /\ Exact(c.answer, k) /\ c.committed <= k
  BY DEF GetterOK, Exact, Call, View
<1>2. 0..n \subseteq 0..k
  OBVIOUS
<1> QED BY <1>1, <1>2 DEF GetterOK

\* A fresh call satisfies its part of the invariant.
LEMMA NoCallOK ==
  ASSUME NEW n \in Nat
  PROVE  /\ NoCall \in Call
         /\ GetterOK(NoCall, "idle", n)
<1>1. NoView \in View /\ Exact(NoView, n) /\ NoView.seq = 0
  BY NoViewExact DEF NoView
<1>2. <<>> \in Seq(Nat)
  BY EmptySeq
<1>3. NoCall \in Call
  BY <1>1, <1>2, ConstantsAssumption DEF NoCall, Call
<1> QED BY <1>1, <1>3 DEF NoCall, GetterOK

-----------------------------------------------------------------------------
(* Steps of the getters *)

\* A step of one getter that leaves the events alone.
LEMMA OneGetter ==
  ASSUME StoreOK, GettersOK, ControlOK, NEW p \in Getters, NEW c \in Call, NEW l,
         GetterOK(c, l, nEvents),
         call' = [call EXCEPT ![p] = c], Goto(p, l), UNCHANGED nEvents
  PROVE  GettersOK'
<1>1. call' \in [Getters -> Call]
  BY DEF GettersOK
<1>2. ASSUME NEW g \in Getters PROVE GetterOK(call'[g], pc'[g], nEvents')
  <2>1. CASE g = p
    <3>1. call'[g] = c /\ pc'[g] = l
      BY <2>1 DEF GettersOK, ControlOK, Goto, Processes
    <3> QED BY <3>1
  <2>2. CASE g # p
    <3>1. call'[g] = call[g] /\ pc'[g] = pc[g]
      BY <2>2 DEF GettersOK, ControlOK, Goto, Processes
    <3> QED BY <3>1 DEF GettersOK
  <2> QED BY <2>1, <2>2
<1> QED BY <1>1, <1>2 DEF GettersOK

\* Steps that change no call and no label of a getter, while events only grow.
LEMMA NoGetter ==
  ASSUME StoreOK, GettersOK, UNCHANGED call, nEvents' \in Nat, nEvents <= nEvents',
         \A p \in Getters : pc'[p] = pc[p]
  PROVE  GettersOK'
<1>1. ASSUME NEW p \in Getters PROVE GetterOK(call'[p], pc'[p], nEvents')
  BY GetterGrows DEF GettersOK, StoreOK
<1> QED BY <1>1 DEF GettersOK

\* Leaving a label, with the same locals, for one that promises nothing.
LEMMA Elsewhere ==
  ASSUME NEW c, NEW l, NEW n, GetterOK(c, l, n),
         NEW k \in Labels \ {"readRules", "fillStateCache", "answered"}
  PROVE  GetterOK(c, k, n)
BY DEF GetterOK

\* The start of getState: a hit promises nothing but what the entry does.
LEMMA ReadStateCacheOK ==
  ASSUME StoreOK, GettersOK, ControlOK, NEW p \in Getters, NEW q \in Points,
         ReadStateCache(p, q), UNCHANGED nEvents
  PROVE  GettersOK'
<1> DEFINE began == [NoCall EXCEPT !.point = q, !.committed = nEvents,
                                   !.invalidated = invalidated]
<1>1. NoView \in View /\ Exact(NoView, nEvents) /\ NoView.seq = 0
  BY NoViewExact DEF StoreOK, NoView
<1>2. /\ began \in Call
      /\ began.point = q
      /\ began.base = NoView
      /\ began.answer = NoView
      /\ began.committed = nEvents
  BY NoCallOK DEF Call, NoCall, StoreOK, ControlOK
<1>3. q # Latest => q \in Nat
  BY ConstantsAssumption
<1> HIDE DEF began
<1>4. GetterOK(began, "readLookupCache", nEvents)
  BY <1>1, <1>2, <1>3 DEF GetterOK, StoreOK
<1>5. CASE Goto(p, "readLookupCache") /\ call' = [call EXCEPT ![p] = began]
  BY <1>2, <1>4, <1>5, OneGetter
<1>6. CASE /\ stateCache[q] # Miss
           /\ Goto(p, "answered")
           /\ call' = [call EXCEPT ![p] = [began EXCEPT !.answer = stateCache[q],
                                                        !.hit = TRUE]]
  <2> DEFINE c == [began EXCEPT !.answer = stateCache[q], !.hit = TRUE]
  <2>1. ViewOK(stateCache[q], q, nEvents)
    BY <1>6 DEF StoreOK
  <2>2. /\ c \in Call
        /\ c.point = q
        /\ c.base = NoView
        /\ c.answer = stateCache[q]
        /\ c.committed = nEvents
        /\ c.hit
    BY <1>2, <2>1 DEF Call, ViewOK
  <2> HIDE DEF c
  <2>3. GetterOK(c, "answered", nEvents)
    BY <1>1, <1>3, <2>1, <2>2 DEF GetterOK, ViewOK, StoreOK
  <2>4. call' = [call EXCEPT ![p] = c]
    BY <1>6 DEF c
  <2> QED BY <1>6, <2>2, <2>3, <2>4, OneGetter
<1> QED BY <1>5, <1>6 DEF ReadStateCache, began

\* The base comes from the lookup cache or from the snapshots up to the point.
LEMMA ReadLookupCacheOK ==
  ASSUME StoreOK, GettersOK, ControlOK, NEW p \in Getters, ReadLookupCache(p)
  PROVE  GettersOK'
<1> DEFINE q == call[p].point
           c == [call[p] EXCEPT !.base = lookupCache[q]]
<1>1. call[p] \in Call /\ q \in Points /\ GetterOK(call[p], pc[p], nEvents)
  BY DEF GettersOK, Call
<1>2. UNCHANGED nEvents
  BY DEF ReadLookupCache, storage
<1>3. CASE Goto(p, "findSnapshot") /\ UNCHANGED call
  <2>1. GetterOK(call[p], "findSnapshot", nEvents)
    BY <1>1, Elsewhere DEF Labels
  <2>2. call' = [call EXCEPT ![p] = call[p]]
    BY <1>3 DEF GettersOK
  <2> QED BY <1>1, <1>2, <1>3, <2>1, <2>2, OneGetter
<1>4. CASE /\ lookupCache[q] # Miss
           /\ Goto(p, "readEvents")
           /\ call' = [call EXCEPT ![p].base = lookupCache[q]]
  <2>1. ViewOK(lookupCache[q], q, nEvents)
    BY <1>1, <1>4 DEF StoreOK
  <2>2. c \in Call
    BY <1>1, <2>1 DEF Call, ViewOK
  <2>3. GetterOK(c, "readEvents", nEvents)
    BY <1>1, <2>1, <2>2 DEF GetterOK, ViewOK, Call
  <2>4. call' = [call EXCEPT ![p] = c]
    BY <1>4
  <2> QED BY <1>2, <1>4, <2>2, <2>3, <2>4, OneGetter
<1> QED BY <1>3, <1>4 DEF ReadLookupCache

LEMMA FindSnapshotOK ==
  ASSUME StoreOK, GettersOK, ControlOK, NEW p \in Getters, FindSnapshot(p)
  PROVE  GettersOK'
<1> DEFINE q == call[p].point
<1>1. call[p] \in Call /\ q \in Points /\ GetterOK(call[p], pc[p], nEvents)
  BY DEF GettersOK, Call
<1>2. PICK s \in LastOf(SnapshotsUpTo(q)) :
        /\ call' = [call EXCEPT ![p].base = s]
        /\ Goto(p, IF s = NoView THEN "readEvents" ELSE "fillLookupCache")
  BY DEF FindSnapshot
<1>3. s \in View /\ Exact(s, nEvents) /\ (q # Latest => s.seq <= q)
  <2>1. s \in SnapshotsUpTo(q) \cup {NoView}
    BY <1>2, LastOfMember
  <2>2. CASE s = NoView
    <3>1. q # Latest => q \in Nat
      BY <1>1, ConstantsAssumption
    <3> QED BY <2>2, <3>1, NoViewExact DEF StoreOK, NoView
  <2>3. CASE s \in SnapshotsUpTo(q)
    BY <2>3 DEF SnapshotsUpTo, StoreOK, ViewOK
  <2> QED BY <2>1, <2>2, <2>3
<1> DEFINE c == [call[p] EXCEPT !.base = s]
<1>4. c \in Call
  BY <1>1, <1>3 DEF Call
<1>5. \A l \in {"readEvents", "fillLookupCache"} : GetterOK(c, l, nEvents)
  BY <1>1, <1>3, <1>4 DEF GetterOK, Call
<1>6. call' = [call EXCEPT ![p] = c] /\ UNCHANGED nEvents
  BY <1>2 DEF FindSnapshot, storage
<1>7. CASE Goto(p, "readEvents")
  BY <1>4, <1>5, <1>6, <1>7, OneGetter
<1>8. CASE Goto(p, "fillLookupCache")
  BY <1>4, <1>5, <1>6, <1>8, OneGetter
<1> QED BY <1>2, <1>7, <1>8

\* The events read reach Reach(point, nEvents), which covers what was committed
\* when the call began.
LEMMA ReadEventsOK ==
  ASSUME StoreOK, GettersOK, ControlOK, NEW p \in Getters, ReadEvents(p)
  PROVE  GettersOK'
<1> DEFINE q == call[p].point
           m == Reach(q, nEvents)
           r == EventsInRange(call[p].base.seq, m)
           c == [call[p] EXCEPT !.read = r]
<1>1. /\ call[p] \in Call
      /\ q \in Points
      /\ GetterOK(call[p], pc[p], nEvents)
      /\ call[p].base.seq \in Nat
      /\ call[p].committed \in Nat
  BY DEF GettersOK, Call, View
<1>2. q # Latest => q \in Nat
  BY <1>1, ConstantsAssumption
<1>3. /\ m \in 0..nEvents
      /\ q # Latest => m <= q
      /\ Reach(q, call[p].committed) <= m
  BY <1>1, <1>2 DEF Reach, GetterOK, StoreOK
<1>4. r \in Seq(Nat)
  <2>1. m \in Nat
    BY <1>3
  <2> QED BY <1>1, <2>1, RangeConsecutive
<1>5. call' = [call EXCEPT ![p] = c] /\ Goto(p, "readRules") /\ UNCHANGED nEvents
  BY DEF ReadEvents, ReadRange, storage
<1> HIDE DEF m, r
<1>6. /\ c \in Call
      /\ c.read = r
      /\ c.base = call[p].base
      /\ c.answer = call[p].answer
      /\ c.point = q
      /\ c.committed = call[p].committed
  BY <1>1, <1>4 DEF Call
<1> HIDE DEF c
<1>7. \E k \in 0..nEvents : /\ Reach(c.point, c.committed) <= k
                            /\ c.point # Latest => k <= c.point
                            /\ c.read = EventsInRange(c.base.seq, k)
  BY <1>3, <1>6 DEF r
<1>8. GetterOK(c, "readRules", nEvents)
  BY <1>1, <1>6, <1>7 DEF GetterOK
<1> QED BY <1>5, <1>6, <1>8, OneGetter

\* The fold gives an exact view that covers what was committed at the start.
LEMMA ReadRulesOK ==
  ASSUME StoreOK, GettersOK, ControlOK, NEW p \in Getters, ReadRules(p)
  PROVE  GettersOK'
<1> DEFINE q == call[p].point
           b == call[p].base
           f == Fold(b, call[p].read, rules)
           c == [call[p] EXCEPT !.answer = f]
<1>1. /\ call[p] \in Call
      /\ q \in Points
      /\ GetterOK(call[p], "readRules", nEvents)
      /\ b \in View
      /\ b.seq \in Nat
      /\ Exact(b, nEvents)
      /\ call[p].committed \in Nat
  BY DEF GettersOK, Call, View, ReadRules, GetterOK
<1>2. PICK m \in 0..nEvents : /\ Reach(q, call[p].committed) <= m
                              /\ q # Latest => m <= q
                              /\ call[p].read = EventsInRange(b.seq, m)
  BY <1>1 DEF GetterOK
<1>3. nEvents \in Nat /\ rules \in Nat
  BY DEF StoreOK
<1>4. /\ f \in View
      /\ Exact(f, nEvents)
      /\ f.seq = IF m > b.seq THEN m ELSE b.seq
  <2> DEFINE g == Fold(b, EventsInRange(b.seq, m), rules)
  <2>1. f = g
    BY <1>2
  <2>2. g \in View /\ Exact(g, nEvents) /\ g.seq = IF m > b.seq THEN m ELSE b.seq
    BY <1>1, <1>3, FoldExact, ZenonT(30)
  <2> QED BY <2>1, <2>2
<1>5. call' = [call EXCEPT ![p] = c] /\ Goto(p, "fillStateCache")
      /\ UNCHANGED nEvents
  BY DEF ReadRules, storage
<1> HIDE DEF f
<1>6. /\ c \in Call
      /\ c.base = b
      /\ c.answer = f
      /\ c.point = q
      /\ c.committed = call[p].committed
  BY <1>1, <1>4 DEF Call
<1>7. /\ q # Latest => b.seq <= q
      /\ call[p].committed <= nEvents
  BY <1>1 DEF GetterOK
<1>8. q # Latest => q \in Nat
  BY <1>1, ConstantsAssumption
<1>9. Reach(q, call[p].committed) \in Nat
  BY <1>1, <1>8 DEF Reach
<1>10. f.seq >= Reach(q, call[p].committed) /\ (q # Latest => f.seq <= q)
  BY <1>1, <1>2, <1>4, <1>7, <1>9
<1> HIDE DEF c
<1>11. GetterOK(c, "fillStateCache", nEvents)
  BY <1>1, <1>4, <1>6, <1>7, <1>10 DEF GetterOK
<1> QED BY <1>5, <1>6, <1>11, OneGetter

\* Ending a call.
LEMMA ReturnOK ==
  ASSUME StoreOK, GettersOK, ControlOK, NEW p \in Getters, Return(p),
         UNCHANGED nEvents
  PROVE  GettersOK'
BY NoCallOK, OneGetter DEF Return, StoreOK

\* Moving to a label that promises nothing, with the same locals.
LEMMA MoveOK ==
  ASSUME StoreOK, GettersOK, ControlOK, NEW p \in Getters, UNCHANGED <<call, nEvents>>,
         NEW l \in Labels \ {"readRules", "fillStateCache", "answered"}, Goto(p, l)
  PROVE  GettersOK'
<1>1. call[p] \in Call /\ GetterOK(call[p], l, nEvents)
  BY Elsewhere DEF GettersOK
<1>2. call' = [call EXCEPT ![p] = call[p]]
  BY DEF GettersOK
<1> QED BY <1>1, <1>2, OneGetter

\* What a fill leaves: the promise about the answer carries over from
\* fillStateCache to answered.
LEMMA FillStateCacheOK ==
  ASSUME StoreOK, GettersOK, ControlOK, NEW p \in Getters, FillStateCache(p)
  PROVE  GettersOK'
<1>1. /\ call[p] \in Call
      /\ GetterOK(call[p], "fillStateCache", nEvents)
  BY DEF GettersOK, FillStateCache
<1>2. GetterOK(call[p], "answered", nEvents)
  BY <1>1 DEF GetterOK
<1>3. call' = [call EXCEPT ![p] = call[p]] /\ Goto(p, "answered")
      /\ UNCHANGED nEvents
  BY DEF GettersOK, FillStateCache, storage
<1> QED BY <1>1, <1>2, <1>3, OneGetter

\* Every step keeps the getters' part of the invariant.
LEMMA GettersStep ==
  ASSUME StoreOK, GettersOK, ControlOK, [Next]_vars
  PROVE  GettersOK'
<1> USE DEF storage
<1>1. ASSUME NEW p \in Getters, GetState(p) PROVE GettersOK'
  <2>1. CASE FillLookupCache(p)
    BY <2>1, MoveOK DEF FillLookupCache, Labels
  <2> QED BY <1>1, <2>1, ReadLookupCacheOK, FindSnapshotOK, ReadEventsOK,
             ReadRulesOK, FillStateCacheOK DEF GetState
<1>2. ASSUME NEW p \in Getters, GetterFails(p) PROVE GettersOK'
  BY <1>2, ReturnOK DEF GetterFails
<1>3. ASSUME NEW r \in Readers, Reply(r) PROVE GettersOK'
  BY <1>3, ReturnOK DEF Reply, Getters
<1>4. ASSUME NEW r \in Readers, NEW q \in Points, BeginRead(r, q) PROVE GettersOK'
  BY <1>4, ReadStateCacheOK DEF BeginRead, Getters
<1>5. ASSUME NEW w \in Workers, CreateSnapshot(w) PROVE GettersOK'
  <2>1. w \in Getters
    BY DEF Workers, Getters
  <2>2. CASE CheckLatest(w)
    BY <2>1, <2>2, MoveOK, ReturnOK DEF CheckLatest, Labels
  <2>3. CASE CreateRow(w)
    BY <2>1, <2>3, MoveOK, ReturnOK DEF CreateRow, Labels
  <2>4. CASE InvalidateLookup(w)
    BY <2>1, <2>4, ReturnOK DEF InvalidateLookup
  <2> QED BY <1>5, <2>2, <2>3, <2>4 DEF CreateSnapshot
<1>6. ASSUME NEW w \in Workers, TakeJob(w) \/ BeginReplay(w) PROVE GettersOK'
  <2>1. w \in Getters /\ Latest \in Points
    BY ConstantsAssumption DEF Workers, Getters
  <2> QED BY <1>6, <2>1, ReadStateCacheOK DEF TakeJob, BeginReplay
<1>7. ASSUME NEW a \in Appenders,
             CommitAppend(a) \/ AfterCommit(a) \/ AppenderFails(a)
      PROVE  GettersOK'
  <2>1. UNCHANGED call /\ \E l : Goto(a, l)
    BY <1>7 DEF CommitAppend, AfterCommit, AppenderFails, InvalidateLatest,
                FindLatest, CountEventsSince, Enqueue, Acknowledge
  <2>2. \A p \in Getters : pc'[p] = pc[p]
    BY <2>1, ConstantsAssumption DEF Goto, ControlOK, Processes
  <2>3. nEvents' \in Nat /\ nEvents <= nEvents'
    BY <1>7 DEF CommitAppend, AfterCommit, AppenderFails, InvalidateLatest,
                FindLatest, CountEventsSince, Enqueue, StoreOK
  <2> QED BY <2>1, <2>2, <2>3, NoGetter
<1>8. ASSUME UNCHANGED <<pc, call, nEvents>> PROVE GettersOK'
  BY <1>8, NoGetter DEF StoreOK
<1>9. ASSUME Crash PROVE GettersOK'
  <2>1. /\ call' = [p \in Getters |-> NoCall]
        /\ pc' = [p \in Processes |-> "idle"]
        /\ UNCHANGED nEvents
    BY <1>9 DEF Crash
  <2>2. NoCall \in Call /\ GetterOK(NoCall, "idle", nEvents)
    BY NoCallOK DEF StoreOK
  <2> QED BY <2>1, <2>2 DEF GettersOK, Processes
<1> QED
  BY <1>1, <1>2, <1>3, <1>4, <1>5, <1>6, <1>7, <1>8, <1>9
  DEF Next, vars, Workers, ExpireState, ExpireLookup, UpsertRule

-----------------------------------------------------------------------------
(* Steps on the store: events, rules, snapshots and cache entries *)

\* Steps that leave events, rules and snapshots alone and only remove entries.
LEMMA StoreShrinks ==
  ASSUME StoreOK, UNCHANGED <<nEvents, rules, snapshots>>,
         stateCache' \in [Points -> Entry], lookupCache' \in [Points -> Entry],
         \A q \in Points : stateCache'[q] \in {stateCache[q], Miss},
         \A q \in Points : lookupCache'[q] \in {lookupCache[q], Miss}
  PROVE  StoreOK'
BY DEF StoreOK

\* The deletion of the latest entries.
LEMMA DelLatestOK ==
  ASSUME StoreOK, UNCHANGED <<nEvents, rules, snapshots>>,
         DelLatest \/ UNCHANGED <<stateCache, lookupCache>>
  PROVE  StoreOK'
<1>1. /\ stateCache' \in [Points -> Entry]
      /\ lookupCache' \in [Points -> Entry]
      /\ \A q \in Points : stateCache'[q] \in {stateCache[q], Miss}
      /\ \A q \in Points : lookupCache'[q] \in {lookupCache[q], Miss}
  BY DEF StoreOK, DelLatest, Entry
<1> QED BY <1>1, StoreShrinks

\* A fill writes what the getter holds for its point.
LEMMA FillOK ==
  ASSUME StoreOK, GettersOK, NEW p \in Getters,
         FillLookupCache(p) \/ FillStateCache(p)
  PROVE  StoreOK'
<1> USE DEF storage
<1>1. /\ call[p] \in Call
      /\ call[p].point \in Points
      /\ ViewOK(call[p].base, call[p].point, nEvents)
      /\ ViewOK(call[p].answer, call[p].point, nEvents)
  BY DEF GettersOK, GetterOK, Call, ViewOK
<1>2. CASE FillLookupCache(p)
  <2>1. CASE UNCHANGED lookupCache
    BY <1>2, <2>1 DEF FillLookupCache, StoreOK
  <2>2. CASE lookupCache' = [lookupCache EXCEPT ![call[p].point] = call[p].base]
    <3>1. lookupCache' \in [Points -> Entry]
      BY <1>1, <2>2 DEF StoreOK, Entry, ViewOK
    <3>2. \A q \in Points :
            lookupCache'[q] # Miss => ViewOK(lookupCache'[q], q, nEvents)
      BY <1>1, <2>2 DEF StoreOK
    <3> QED BY <1>2, <3>1, <3>2 DEF FillLookupCache, StoreOK
  <2> QED BY <1>2, <2>1, <2>2 DEF FillLookupCache
<1>3. CASE FillStateCache(p)
  <2>1. CASE UNCHANGED stateCache
    BY <1>3, <2>1 DEF FillStateCache, StoreOK
  <2>2. CASE stateCache' = [stateCache EXCEPT ![call[p].point] = call[p].answer]
    <3>1. stateCache' \in [Points -> Entry]
      BY <1>1, <2>2 DEF StoreOK, Entry, ViewOK
    <3>2. \A q \in Points :
            stateCache'[q] # Miss => ViewOK(stateCache'[q], q, nEvents)
      BY <1>1, <2>2 DEF StoreOK
    <3> QED BY <1>3, <3>1, <3>2 DEF FillStateCache, StoreOK
  <2> QED BY <1>3, <2>1, <2>2 DEF FillStateCache
<1> QED BY <1>2, <1>3

\* Every step keeps the store's part of the invariant.
LEMMA StoreStep ==
  ASSUME StoreOK, GettersOK, ControlOK, [Next]_vars
  PROVE  StoreOK'
<1> USE DEF storage
<1>1. ASSUME UNCHANGED <<nEvents, rules, snapshots, stateCache, lookupCache>>
      PROVE  StoreOK'
  BY <1>1 DEF StoreOK
<1>2. ASSUME NEW p \in Getters, GetState(p) PROVE StoreOK'
  BY <1>1, <1>2, FillOK DEF GetState, ReadLookupCache, FindSnapshot, ReadEvents,
                            ReadRules
<1>3. ASSUME NEW w \in Workers, CreateSnapshot(w) PROVE StoreOK'
  <2>1. CASE CheckLatest(w)
    BY <1>1, <2>1 DEF CheckLatest
  <2>2. CASE CreateRow(w)
    <3>1. ViewOK(call[w].answer, Latest, nEvents)
      BY DEF GettersOK, GetterOK, Call, ViewOK, Getters, Workers
    <3>2. snapshots' = snapshots \/ snapshots' = snapshots \cup {call[w].answer}
      BY <2>2 DEF CreateRow
    <3>3. UNCHANGED <<nEvents, rules, stateCache, lookupCache>>
      BY <2>2 DEF CreateRow
    <3> QED BY <3>1, <3>2, <3>3 DEF StoreOK
  <2>3. CASE InvalidateLookup(w)
    BY <2>3, DelLatestOK DEF InvalidateLookup
  <2> QED BY <1>3, <2>1, <2>2, <2>3 DEF CreateSnapshot
<1>4. ASSUME NEW a \in Appenders, CommitAppend(a) PROVE StoreOK'
  <2>1. nEvents' = nEvents + 1 /\ UNCHANGED <<rules, snapshots, stateCache, lookupCache>>
    BY <1>4 DEF CommitAppend
  <2>2. Latest \in Points
    BY ConstantsAssumption
  <2>3. \A q \in Points : \A e : ViewOK(e, q, nEvents) => ViewOK(e, q, nEvents')
    <3>1. nEvents \in Nat /\ nEvents' \in Nat /\ nEvents <= nEvents'
      BY <2>1 DEF StoreOK
    <3> QED BY <3>1, ViewGrows
  <2> QED BY <2>1, <2>2, <2>3 DEF StoreOK
<1>5. ASSUME NEW a \in Appenders, AfterCommit(a) PROVE StoreOK'
  <2>1. CASE InvalidateLatest(a)
    BY <2>1, DelLatestOK DEF InvalidateLatest
  <2> QED BY <1>1, <1>5, <2>1 DEF AfterCommit, FindLatest, CountEventsSince, Enqueue
<1>6. ASSUME NEW q \in Points, ExpireState(q) \/ ExpireLookup(q) PROVE StoreOK'
  <2>1. /\ stateCache' \in [Points -> Entry]
        /\ lookupCache' \in [Points -> Entry]
        /\ \A x \in Points : stateCache'[x] \in {stateCache[x], Miss}
        /\ \A x \in Points : lookupCache'[x] \in {lookupCache[x], Miss}
    BY <1>6 DEF StoreOK, ExpireState, ExpireLookup, Entry
  <2> QED BY <1>6, <2>1, StoreShrinks DEF ExpireState, ExpireLookup
<1>7. ASSUME UpsertRule PROVE StoreOK'
  BY <1>7 DEF UpsertRule, StoreOK
<1> QED
  BY <1>1, <1>2, <1>3, <1>4, <1>5, <1>6, <1>7
  DEF Next, vars, GetterFails, Reply, BeginRead, TakeJob, BeginReplay,
      AppenderFails, Crash

-----------------------------------------------------------------------------
(* Steps on the control state *)

LEMMA ControlStep ==
  ASSUME StoreOK, GettersOK, ControlOK, [Next]_vars
  PROVE  ControlOK'
<1> USE DEF ControlOK, Goto, Labels, storage, appending
<1>1. ASSUME NEW p \in Getters, GetState(p) PROVE ControlOK'
  BY <1>1 DEF GetState, ReadLookupCache, FindSnapshot, FillLookupCache,
              ReadEvents, ReadRules, FillStateCache
<1>2. ASSUME NEW p \in Getters, GetterFails(p) \/ Reply(p) PROVE ControlOK'
  BY <1>2 DEF GetterFails, Reply, Return
<1>3. ASSUME NEW p \in Getters, NEW q \in Points, BeginRead(p, q) \/ BeginReplay(p)
      PROVE  ControlOK'
  BY <1>3 DEF BeginRead, BeginReplay, ReadStateCache
<1>4. ASSUME NEW p \in Getters, TakeJob(p) PROVE ControlOK'
  BY <1>4 DEF TakeJob, ReadStateCache
<1>5. ASSUME NEW w \in Workers, CreateSnapshot(w) PROVE ControlOK'
  BY <1>5 DEF CreateSnapshot, CheckLatest, CreateRow, InvalidateLookup, Return
<1>6. ASSUME NEW a \in Appenders, CommitAppend(a) PROVE ControlOK'
  <2>1. nEvents + 1 \in Nat
    BY DEF StoreOK
  <2>2. own' \in [Appenders -> Nat]
    BY <1>6, <2>1 DEF CommitAppend
  <2>3. pc' \in [Processes -> Labels]
    BY <1>6 DEF CommitAppend
  <2>4. queued' \in Nat /\ since' \in [Appenders -> Nat] /\ invalidated' \in Nat
    BY <1>6 DEF CommitAppend
  <2> QED BY <2>2, <2>3, <2>4
<1>7. ASSUME NEW a \in Appenders, AfterCommit(a) \/ AppenderFails(a) PROVE ControlOK'
  <2>1. CASE InvalidateLatest(a)
    BY <2>1 DEF InvalidateLatest
  <2>2. CASE FindLatest(a)
    <3>1. PICK s \in LastOf(snapshots) : since' = [since EXCEPT ![a] = s.seq]
      BY <2>2 DEF FindLatest
    <3>2. s.seq \in Nat
      BY <3>1, LastOfMember DEF StoreOK, ViewOK, View, NoView
    <3> QED BY <2>2, <3>1, <3>2 DEF FindLatest
  <2>3. CASE CountEventsSince(a)
    BY <2>3 DEF CountEventsSince, Acknowledge
  <2>4. CASE Enqueue(a)
    <3>1. queued' \in Nat
      BY <2>4 DEF Enqueue
    <3>2. pc' \in [Processes -> Labels]
      BY <2>4 DEF Enqueue, Acknowledge
    <3>3. /\ own' \in [Appenders -> Nat]
          /\ since' \in [Appenders -> Nat]
          /\ invalidated' \in Nat
      BY <2>4 DEF Enqueue, Acknowledge
    <3> QED BY <3>1, <3>2, <3>3
  <2>5. CASE AppenderFails(a)
    BY <2>5 DEF AppenderFails, Acknowledge
  <2> QED BY <1>7, <2>1, <2>2, <2>3, <2>4, <2>5 DEF AfterCommit
<1>8. ASSUME NEW q \in Points, ExpireState(q) \/ ExpireLookup(q) \/ UpsertRule
      PROVE  ControlOK'
  BY <1>8 DEF ExpireState, ExpireLookup, UpsertRule
<1>9. ASSUME Crash PROVE ControlOK'
  <2>1. Cardinality({w \in SnapshotWorkers : pc[w] # "idle"}) \in Nat
    BY ConstantsAssumption, FS_Subset, FS_CardinalityType
  <2> QED BY <1>9, <2>1 DEF Crash
<1>10. ASSUME UNCHANGED vars PROVE ControlOK'
  BY <1>10 DEF vars
<1> QED
  BY <1>1, <1>2, <1>3, <1>4, <1>5, <1>6, <1>7, <1>8, <1>9, <1>10,
     ConstantsAssumption
  DEF Next, Getters, Workers

-----------------------------------------------------------------------------
(* The theorems *)

LEMMA InvariantInit == Init => IInv
<1> SUFFICES ASSUME Init PROVE IInv
  OBVIOUS
<1>1. StoreOK
  BY DEF Init, StoreOK, Entry
<1>2. GettersOK
  BY NoCallOK DEF Init, GettersOK, Processes
<1>3. ControlOK
  BY DEF Init, ControlOK, Labels
<1> QED BY <1>1, <1>2, <1>3, InvariantParts

\* The invariant is inductive.
THEOREM Inductive == Spec => []IInv
<1>1. IInv /\ [Next]_vars => IInv'
  <2> SUFFICES ASSUME IInv, [Next]_vars PROVE IInv'
    OBVIOUS
  <2>1. StoreOK /\ GettersOK /\ ControlOK
    BY InvariantParts
  <2>2. StoreOK' /\ GettersOK' /\ ControlOK'
    BY <2>1, StoreStep, GettersStep, ControlStep
  <2>3. (StoreOK /\ GettersOK /\ ControlOK => IInv)'
    BY InvariantParts, PTL
  <2> QED BY <2>2, <2>3
<1> QED BY <1>1, InvariantInit, PTL DEF Spec

\* Every reachable state is well typed.
THEOREM TypeCorrect == Spec => []TypeOK
<1>1. IInv => TypeOK
  BY DEF IInv
<1> QED BY <1>1, Inductive, PTL

\* Every state held anywhere - cached, stored as a snapshot or being computed -
\* folds in the events 1..seq exactly once each, for any number of concurrent
\* readers, workers and appends and under every fault.
THEOREM FoldsAreExact == Spec => []FoldsEachEventOnce
<1>1. IInv => FoldsEachEventOnce
  BY DEF IInv
<1> QED BY <1>1, Inductive, PTL

\* No answer or entry for a past point contains a later event.
THEOREM PointsAreBounds == Spec => []NeverBeyondPoint
<1>1. IInv => NeverBeyondPoint
  BY DEF IInv
<1> QED BY <1>1, Inductive, PTL

\* An answer the state cache did not give covers every event that was committed
\* when its call began, up to its point: the snapshot lookup cache and the
\* snapshots add no staleness.
THEOREM MissesCoverCommitted == Spec => []MissCoversCommitted
<1>1. IInv => MissCoversCommitted
  BY DEF IInv, ReadsConsecutive, MissCoversCommitted
<1> QED BY <1>1, Inductive, PTL

-----------------------------------------------------------------------------
(* Crossings of the threshold *)

\* The row that findLatest answers, if there are several, is of one number.
LEMMA LastOfSnapshots ==
  ASSUME StoreOK, NEW s \in LastOf(snapshots)
  PROVE  /\ s \in snapshots \cup {NoView} /\ s.seq \in Nat
         /\ \A t \in snapshots \cup {NoView} : t.seq \in Nat
         /\ \A t \in snapshots : t.seq <= s.seq
         /\ \A t \in LastOf(snapshots) : t.seq = s.seq
<1>1. \A t \in snapshots \cup {NoView} : t.seq \in Nat
  BY DEF StoreOK, ViewOK, View, NoView
<1>2. \A t \in snapshots : t.seq <= s.seq
  BY DEF LastOf
<1>3. \A t \in LastOf(snapshots) : t \in snapshots \cup {NoView}
  BY LastOfMember
<1>4. s \in snapshots \cup {NoView}
  BY LastOfMember
<1>5. ASSUME NEW t \in LastOf(snapshots)
      PROVE  t.seq = s.seq
  <2>1. CASE snapshots = {}
    BY <1>3, <1>4, <2>1
  <2>2. CASE snapshots # {}
    <3>1. PICK u \in snapshots : TRUE
      BY <2>2
    <3>2. u.seq <= t.seq /\ u.seq <= s.seq /\ u.seq \in Nat
      BY <1>1, <3>1 DEF LastOf
    <3>3. t = NoView => t.seq = 0
      BY DEF NoView
    <3>4. t \in snapshots => t.seq <= s.seq
      BY <1>2
    <3>5. s \in snapshots => s.seq <= t.seq
      BY DEF LastOf
    <3>6. s = NoView => s.seq = 0
      BY DEF NoView
    <3>7. t.seq \in Nat /\ s.seq \in Nat
      BY <1>1, <1>3, <1>4
    <3> QED BY <1>3, <1>4, <3>2, <3>3, <3>4, <3>5, <3>6, <3>7
  <2> QED BY <2>1, <2>2
<1> QED BY <1>1, <1>2, <1>4, <1>5

\* Steps that write no snapshot and lead no append to its count.
LEMMA CountsStay ==
  ASSUME CountsFromLatest, UNCHANGED snapshots,
         \A a \in Appenders : pc'[a] = "count" => pc[a] = "count" /\ since'[a] = since[a]
  PROVE  CountsFromLatest'
BY DEF CountsFromLatest

\* A getter's labels are none of an appender's.
LEMMA GettersDoNotCount ==
  ASSUME NEW p \in Processes, NEW l, l # "count", pc \in [Processes -> Labels],
         Goto(p, l), NEW a \in Appenders, pc'[a] = "count"
  PROVE  pc[a] = "count"
BY DEF Goto, Processes

\* A snapshot that is stored is the latest, or an older one stays so.
LEMMA CreateRowCounts ==
  ASSUME IInv, CountsFromLatest, NEW w \in Workers, CreateRow(w)
  PROVE  CountsFromLatest'
<1>1. StoreOK /\ GettersOK /\ ControlOK
  BY InvariantParts
<1>2. /\ w \in Processes
      /\ \A a \in Appenders : pc'[a] = "count" => pc[a] = "count" /\ since'[a] = since[a]
  <2>1. w \in Processes
    BY DEF Workers, Getters, Processes
  <2>2. Goto(w, "idle") \/ Goto(w, "invalidate")
    BY DEF CreateRow, Return
  <2>3. since' = since
    BY DEF CreateRow, appending
  <2> QED BY <1>1, <2>1, <2>2, <2>3, GettersDoNotCount DEF ControlOK
<1>3. CASE snapshots' = snapshots
  BY <1>2, <1>3, CountsStay
<1>4. CASE snapshots' # snapshots
  <2> DEFINE v == call[w].answer
  <2>1. snapshots' = snapshots \cup {v}
    BY <1>4 DEF CreateRow
  <2>2. v.seq \in Nat
    <3>1. call[w] \in Call
      BY <1>1 DEF GettersOK, Workers, Getters
    <3> QED BY <3>1 DEF Call, View
  <2> HIDE DEF v
  <2>3. PICK s \in LastOf(snapshots) :
          \A a \in Appenders : pc[a] = "count" => since[a] <= s.seq
    BY DEF CountsFromLatest
  <2>4. /\ s \in snapshots \cup {NoView} /\ s.seq \in Nat
        /\ \A t \in snapshots : t.seq <= s.seq
        /\ \A t \in snapshots : t.seq \in Nat
    BY <1>1, LastOfSnapshots
  <2>5. CASE v.seq <= s.seq
    <3>1. s \in LastOf(snapshots')
      BY <2>1, <2>4, <2>5 DEF LastOf
    <3> QED BY <1>2, <2>3, <3>1 DEF CountsFromLatest
  <2>6. CASE s.seq < v.seq
    <3>1. v \in LastOf(snapshots')
      BY <2>1, <2>2, <2>4, <2>6 DEF LastOf
    <3>2. \A a \in Appenders : pc'[a] = "count" => since'[a] <= v.seq
      BY <1>1, <1>2, <2>2, <2>3, <2>4, <2>6 DEF ControlOK
    <3> QED BY <3>1, <3>2 DEF CountsFromLatest
  <2> QED BY <2>2, <2>4, <2>5, <2>6
<1> QED BY <1>3, <1>4

\* What an append has found was the latest snapshot.
LEMMA FindLatestCounts ==
  ASSUME IInv, CountsFromLatest, NEW a \in Appenders, FindLatest(a)
  PROVE  CountsFromLatest'
<1>1. StoreOK /\ ControlOK
  BY InvariantParts
<1>2. PICK s \in LastOf(snapshots) : since' = [since EXCEPT ![a] = s.seq]
  BY DEF FindLatest
<1>3. PICK t \in LastOf(snapshots) :
        \A b \in Appenders : pc[b] = "count" => since[b] <= t.seq
  BY DEF CountsFromLatest
<1>4. t.seq = s.seq /\ s.seq \in Nat
  BY <1>1, LastOfSnapshots
<1>5. UNCHANGED snapshots /\ pc' = [pc EXCEPT ![a] = "count"]
  BY DEF FindLatest, storage, Goto
<1>6. ASSUME NEW b \in Appenders, pc'[b] = "count"
      PROVE  since'[b] <= t.seq
  <2>1. CASE b = a
    BY <1>1, <1>2, <1>4, <2>1 DEF ControlOK
  <2>2. CASE b # a
    <3>1. since'[b] = since[b] /\ pc[b] = "count"
      BY <1>1, <1>2, <1>5, <1>6, <2>2 DEF ControlOK, Processes
    <3> QED BY <1>3, <3>1
  <2> QED BY <2>1, <2>2
<1> QED BY <1>5, <1>6 DEF CountsFromLatest

\* Every step keeps CountsFromLatest.
LEMMA CountsStep == IInv /\ CountsFromLatest /\ [Next]_vars => CountsFromLatest'
<1> SUFFICES ASSUME IInv, CountsFromLatest, [Next]_vars PROVE CountsFromLatest'
  OBVIOUS
<1>1. ControlOK
  BY InvariantParts
<1>2. ASSUME NEW p \in Getters, GetState(p) \/ GetterFails(p)
      PROVE  CountsFromLatest'
  <2>1. p \in Processes
    BY DEF Processes
  <2>2. \E l : l # "count" /\ Goto(p, l)
    BY <1>2 DEF GetState, ReadLookupCache, FindSnapshot, FillLookupCache, ReadEvents,
       ReadRules, FillStateCache, GetterFails, Return
  <2>3. UNCHANGED <<snapshots, since>>
    BY <1>2 DEF GetState, ReadLookupCache, FindSnapshot, FillLookupCache, ReadEvents,
       ReadRules, FillStateCache, GetterFails, storage, appending
  <2> QED BY <1>1, <2>1, <2>2, <2>3, GettersDoNotCount, CountsStay DEF ControlOK
<1>3. ASSUME NEW p \in Getters, NEW q \in Points,
             Reply(p) \/ BeginRead(p, q) \/ BeginReplay(p) \/ TakeJob(p)
      PROVE  CountsFromLatest'
  <2>1. p \in Processes
    BY DEF Processes
  <2>2. \E l : l # "count" /\ Goto(p, l)
    BY <1>3 DEF Reply, BeginRead, BeginReplay, TakeJob, ReadStateCache, Return
  <2>3. UNCHANGED <<snapshots, since>>
    BY <1>3 DEF Reply, BeginRead, BeginReplay, TakeJob, storage, appending
  <2> QED BY <1>1, <2>1, <2>2, <2>3, GettersDoNotCount, CountsStay DEF ControlOK
<1>4. ASSUME NEW w \in Workers, CheckLatest(w) \/ InvalidateLookup(w)
      PROVE  CountsFromLatest'
  <2>1. w \in Processes
    BY DEF Workers, Getters, Processes
  <2>2. \E l : l # "count" /\ Goto(w, l)
    BY <1>4 DEF CheckLatest, InvalidateLookup, Return
  <2>3. UNCHANGED <<snapshots, since>>
    BY <1>4 DEF CheckLatest, InvalidateLookup, storage, appending
  <2> QED BY <1>1, <2>1, <2>2, <2>3, GettersDoNotCount, CountsStay DEF ControlOK
<1>5. ASSUME NEW w \in Workers, CreateRow(w) PROVE CountsFromLatest'
  BY <1>5, CreateRowCounts
<1>6. ASSUME NEW a \in Appenders, FindLatest(a) PROVE CountsFromLatest'
  BY <1>6, FindLatestCounts
<1>7. ASSUME NEW a \in Appenders,
             \/ CommitAppend(a) \/ InvalidateLatest(a)
             \/ CountEventsSince(a) \/ Enqueue(a) \/ AppenderFails(a)
      PROVE  CountsFromLatest'
  <2>1. UNCHANGED snapshots
    BY <1>7 DEF CommitAppend, InvalidateLatest, CountEventsSince, Enqueue,
       AppenderFails, storage
  <2>2. \E l : l # "count" /\ Goto(a, l)
    BY <1>7 DEF CommitAppend, InvalidateLatest, CountEventsSince, Enqueue,
       AppenderFails, Acknowledge
  <2>3. \A b \in Appenders : b # a => since'[b] = since[b]
    BY <1>1, <1>7 DEF CommitAppend, InvalidateLatest, CountEventsSince, Enqueue,
       AppenderFails, Acknowledge, ControlOK
  <2>4. pc'[a] # "count" /\ \A b \in Appenders : b # a => pc'[b] = pc[b]
    BY <1>1, <2>2 DEF ControlOK, Goto, Processes
  <2> QED BY <2>1, <2>3, <2>4, CountsStay
<1>8. ASSUME NEW q \in Points, ExpireState(q) \/ ExpireLookup(q) \/ UpsertRule
      PROVE  CountsFromLatest'
  BY <1>8, CountsStay DEF ExpireState, ExpireLookup, UpsertRule, storage, appending
<1>9. CASE Crash
  BY <1>9, CountsStay DEF Crash, Processes
<1>10. CASE UNCHANGED vars
  BY <1>10, CountsStay DEF vars
<1>11. Latest \in Points
  BY ConstantsAssumption
<1> QED BY <1>2, <1>3, <1>4, <1>5, <1>6, <1>7, <1>8, <1>9, <1>10, <1>11
        DEF Next, CreateSnapshot, AfterCommit, Getters, Workers

\* While nothing fails, an append ends its work after its commit in two ways only.
LEMMA CrossingStep ==
  ASSUME IInv, CountsFromLatest, Next, Faults = {},
         NEW a \in Appenders, pc[a] # "idle", pc'[a] = "idle"
  PROVE  \/ queued' > queued
         \/ \E s \in LastOf(snapshots) : nEvents - s.seq < Threshold
<1>1. StoreOK /\ ControlOK
  BY InvariantParts
<1>2. a \in Processes /\ a \notin Getters
  BY ConstantsAssumption DEF Processes
<1>3. RedisFails = {FALSE}
  BY DEF RedisFails
<1>4. ~Crash /\ ~AppenderFails(a)
  BY DEF Crash, AppenderFails
<1>5. ASSUME NEW p \in Processes, p # a, NEW l, Goto(p, l)
      PROVE  FALSE
  BY <1>1, <1>2, <1>5 DEF Goto, ControlOK
<1>6. pc' # pc
  OBVIOUS
<1>7. CommitAppend(a) \/ AfterCommit(a)
  <2>1. ASSUME NEW p \in Getters, GetState(p) \/ GetterFails(p) PROVE FALSE
    <3>1. \E l : Goto(p, l)
      BY <2>1 DEF GetState, ReadLookupCache, FindSnapshot, FillLookupCache, ReadEvents,
         ReadRules, FillStateCache, GetterFails, Return
    <3> QED BY <1>2, <1>5, <3>1 DEF Processes
  <2>2. ASSUME NEW p \in Getters, NEW q \in Points,
               Reply(p) \/ BeginRead(p, q) \/ BeginReplay(p) \/ TakeJob(p)
        PROVE FALSE
    <3>1. \E l : Goto(p, l)
      BY <2>2 DEF Reply, BeginRead, BeginReplay, TakeJob, ReadStateCache, Return
    <3> QED BY <1>2, <1>5, <3>1 DEF Processes
  <2>3. ASSUME NEW w \in Workers, CreateSnapshot(w) PROVE FALSE
    <3>1. \E l : Goto(w, l)
      BY <2>3 DEF CreateSnapshot, CheckLatest, CreateRow, InvalidateLookup, Return
    <3> QED BY <1>2, <1>5, <3>1 DEF Processes, Getters, Workers
  <2>4. ASSUME NEW b \in Appenders, b # a,
               CommitAppend(b) \/ AfterCommit(b) \/ AppenderFails(b)
        PROVE  FALSE
    <3>1. \E l : Goto(b, l)
      BY <2>4 DEF CommitAppend, AfterCommit, InvalidateLatest, FindLatest,
         CountEventsSince, Enqueue, AppenderFails, Acknowledge
    <3> QED BY <1>5, <2>4, <3>1 DEF Processes
  <2>5. ASSUME NEW q \in Points, ExpireState(q) \/ ExpireLookup(q) \/ UpsertRule
        PROVE  FALSE
    BY <1>6, <2>5 DEF ExpireState, ExpireLookup, UpsertRule
  <2>6. Latest \in Points
    BY ConstantsAssumption
  <2> QED BY <1>4, <2>1, <2>2, <2>3, <2>4, <2>5, <2>6 DEF Next, Getters, Workers
<1>8. CASE Enqueue(a)
  BY <1>1, <1>3, <1>8 DEF Enqueue, ControlOK
<1>9. CASE CountEventsSince(a)
  <2>1. nEvents - since[a] < Threshold
    <3>1. pc' # [pc EXCEPT ![a] = "enqueue"]
      BY <1>1, <1>2 DEF ControlOK
    <3>2. ~(nEvents - since[a] >= Threshold)
      BY <1>9, <3>1 DEF CountEventsSince, Goto
    <3> QED BY <1>1, <3>2, ConstantsAssumption DEF StoreOK, ControlOK
  <2>2. PICK s \in LastOf(snapshots) : since[a] <= s.seq
    BY <1>9 DEF CountsFromLatest, CountEventsSince
  <2>3. s.seq \in Nat
    BY <1>1, LastOfSnapshots
  <2>4. nEvents - s.seq < Threshold
    BY <1>1, <2>1, <2>2, <2>3, ConstantsAssumption DEF StoreOK, ControlOK
  <2> QED BY <2>4
<1>10. ~CommitAppend(a)
  BY DEF CommitAppend
<1>11. ~InvalidateLatest(a) /\ ~FindLatest(a)
  BY <1>1, <1>2 DEF InvalidateLatest, FindLatest, Goto, ControlOK
<1> QED BY <1>7, <1>8, <1>9, <1>10, <1>11 DEF AfterCommit

\* An append that ends without a job leaves fewer events than the threshold
\* behind the latest snapshot, unless something failed: shouldSnapshot reads the
\* snapshot and the count in two queries, and what comes between does no harm.
THEOREM CrossingsAreNoticed == Spec => CrossingNoticed
<1>1. Init => CountsFromLatest
  BY DEF Init, CountsFromLatest, LastOf, NoView, Processes
<1>2. Spec => []CountsFromLatest
  BY <1>1, CountsStep, Inductive, PTL DEF Spec
<1>3. ASSUME IInv, CountsFromLatest, [Next]_vars
      PROVE  [Faults = {} =>
                \A a \in Appenders :
                  pc[a] # "idle" /\ pc'[a] = "idle" =>
                    \/ queued' > queued
                    \/ \E s \in LastOf(snapshots) : nEvents - s.seq < Threshold]_vars
  BY <1>3, CrossingStep
<1> QED BY <1>2, <1>3, Inductive, PTL DEF Spec, CrossingNoticed
=============================================================================
