------------------------- MODULE ReduceEventsProofs -------------------------
(***************************************************************************)
(* Proofs about ReduceEvents, for any event types, fields and payloads and *)
(* for histories of any length.  What the loop of reduceEvents computes is *)
(* proved by induction on the number of events, as the least number of     *)
(* events that would be a counterexample.                                  *)
(*                                                                         *)
(* The last part proves that the fold gives every field the value the      *)
(* operations promise.  One round of the loop makes of the reference's     *)
(* state of n - 1 events that of n: a field the event does not write keeps *)
(* its value, and one that it writes was last written by it.               *)
(***************************************************************************)
EXTENDS ReduceEvents, SequenceTheorems, FiniteSetTheorems, WellFoundedInduction, TLAPS

-----------------------------------------------------------------------------
(* Least numbers *)

Less == {pair \in Nat \X Nat : pair[1] < pair[2]}

\* The natural numbers are well founded.
LEMMA LessWellFounded == IsWellFoundedOn(Less, Nat)
BY NatLessThanWellFounded DEF OpToRel, Less

\* A set of numbers that has one has a least one.
LEMMA LeastNumber ==
  ASSUME NEW S \in SUBSET Nat, S # {}
  PROVE  \E m \in S : \A n \in S : m <= n
<1>1. PICK m \in S : \A n \in S : <<n, m>> \notin Less
  BY LessWellFounded, WFMin
<1>2. \A n \in S : ~(n < m)
  BY <1>1 DEF Less
<1> QED BY <1>2

\* Induction up to a number, for a property given by the set of its numbers.
LEMMA UpTo ==
  ASSUME NEW k \in Nat, NEW Good, 0 \in Good,
         \A n \in 1..k : n - 1 \in Good => n \in Good
  PROVE  \A n \in 0..k : n \in Good
<1> DEFINE Bad == {n \in 0..k : n \notin Good}
<1> SUFFICES ASSUME Bad # {} PROVE FALSE
  OBVIOUS
<1>1. Bad \in SUBSET Nat
  OBVIOUS
<1>2. PICK m \in Bad : \A n \in Bad : m <= n
  BY <1>1, LeastNumber
<1>3. m \in 0..k /\ m \notin Good /\ m # 0
  OBVIOUS
<1>4. m - 1 \in 0..k /\ m \in 1..k
  BY <1>3
<1>5. m - 1 \in Good
  BY <1>2, <1>3, <1>4
<1> QED BY <1>3, <1>4, <1>5

-----------------------------------------------------------------------------
(* The loop *)

\* The state after event n of a history, from the one before it.
After(state, history, table, n) ==
  Applied(state, table[history[n].eventType], history[n].payload)

\* s holds the states of the loop's first k rounds.
IsLoop(s, history, table, initialState, k) ==
  s = [n \in 0..k |-> IF n = 0 THEN initialState
                      ELSE After(s[n - 1], history, table, n)]

\* The loop comes to its end, whatever the history.
LEMMA LoopEnds ==
  ASSUME NEW history, NEW table, NEW initialState, NEW k \in Nat
  PROVE  \E s : IsLoop(s, history, table, initialState, k)
<1> DEFINE Good == {n \in 0..k : \E s : IsLoop(s, history, table, initialState, n)}
<1>1. 0 \in Good
  <2> DEFINE s == [n \in 0..0 |-> initialState]
  <2>1. s = [n \in 0..0 |-> IF n = 0 THEN initialState
                            ELSE After(s[n - 1], history, table, n)]
    OBVIOUS
  <2> HIDE DEF s
  <2>2. IsLoop(s, history, table, initialState, 0)
    BY <2>1 DEF IsLoop
  <2> QED BY <2>2
<1>2. ASSUME NEW n \in 1..k, n - 1 \in Good
      PROVE  n \in Good
  <2>1. PICK r : IsLoop(r, history, table, initialState, n - 1)
    BY <1>2
  <2>2. r = [m \in 0..(n - 1) |-> IF m = 0 THEN initialState
                                  ELSE After(r[m - 1], history, table, m)]
    BY <2>1 DEF IsLoop
  <2> DEFINE s == [m \in 0..n |-> IF m = n THEN After(r[n - 1], history, table, n)
                                  ELSE r[m]]
  <2>3. \A m \in 0..(n - 1) : s[m] = r[m]
    OBVIOUS
  <2>4. s[n] = After(r[n - 1], history, table, n)
    OBVIOUS
  <2>5. DOMAIN s = 0..n /\ s = [m \in 0..n |-> s[m]]
    OBVIOUS
  <2> HIDE DEF s
  <2>6. ASSUME NEW m \in 0..n
        PROVE  s[m] = IF m = 0 THEN initialState
                      ELSE After(s[m - 1], history, table, m)
    <3>1. CASE m = n
      BY <2>3, <2>4, <3>1
    <3>2. CASE m # n
      <4>1. m \in 0..(n - 1) /\ (m # 0 => m - 1 \in 0..(n - 1))
        BY <3>2
      <4>2. r[m] = IF m = 0 THEN initialState ELSE After(r[m - 1], history, table, m)
        BY <2>2, <4>1
      <4> QED BY <2>3, <4>1, <4>2
    <3> QED BY <3>1, <3>2
  <2>7. IsLoop(s, history, table, initialState, n)
    BY <2>5, <2>6 DEF IsLoop
  <2> QED BY <2>7
<1> HIDE DEF Good
<1>3. k \in Good
  BY <1>1, <1>2, UpTo
<1> QED BY <1>3 DEF Good

\* The states of the loop, round by round.
LEMMA LoopRounds ==
  ASSUME NEW history, Len(history) \in Nat, NEW table, NEW initialState
  PROVE  /\ StatesOf(history, table, initialState)[0] = initialState
         /\ \A n \in 1..Len(history) :
              StatesOf(history, table, initialState)[n] =
                After(StatesOf(history, table, initialState)[n - 1], history, table, n)
<1> DEFINE s == StatesOf(history, table, initialState)
<1>1. \E r : IsLoop(r, history, table, initialState, Len(history))
  BY LoopEnds
<1>2. s = CHOOSE r : r = [n \in 0..Len(history) |->
            IF n = 0 THEN initialState
            ELSE Applied(r[n - 1], table[history[n].eventType], history[n].payload)]
  BY DEF StatesOf
<1>3. s = CHOOSE r : IsLoop(r, history, table, initialState, Len(history))
  BY <1>2, Zenon DEF IsLoop, After
<1>4. IsLoop(s, history, table, initialState, Len(history))
  BY <1>1, <1>3, Zenon
<1> HIDE DEF s
<1>5. s = [n \in 0..Len(history) |-> IF n = 0 THEN initialState
                                     ELSE After(s[n - 1], history, table, n)]
  BY <1>4 DEF IsLoop
<1>6. s[0] = initialState
  BY <1>5
<1>7. ASSUME NEW n \in 1..Len(history)
      PROVE  s[n] = After(s[n - 1], history, table, n)
  BY <1>5
<1> QED BY <1>6, <1>7 DEF s

\* The fold of the later events from the fold of the earlier ones is the fold of
\* all of them.
LEMMA ReduceInTwo ==
  ASSUME NEW S, NEW h \in Seq(S), NEW table, NEW a, NEW n \in 0..Len(h)
  PROVE  Reduce(SubSeq(h, n + 1, Len(h)), table, Reduce(SubSeq(h, 1, n), table, a))
           = Reduce(h, table, a)
<1> DEFINE early == SubSeq(h, 1, n)
           late == SubSeq(h, n + 1, Len(h))
<1>1. Len(h) \in Nat
  OBVIOUS
<1>2. /\ Len(early) = n
      /\ \A i \in 1..n : early[i] = h[i]
  BY <1>1, SubSeqProperties
<1>3. /\ Len(late) = Len(h) - n
      /\ \A i \in 1..(Len(h) - n) : late[i] = h[n + i]
  <2>1. CASE n < Len(h)
    BY <1>1, <2>1, SubSeqProperties
  <2>2. CASE n = Len(h)
    BY <1>1, <2>2, SubSeqProperties
  <2> QED BY <1>1, <2>1, <2>2
<1> HIDE DEF early, late
<1> DEFINE r == StatesOf(h, table, a)
           s == StatesOf(early, table, a)
           t == StatesOf(late, table, r[n])
<1>4. r[0] = a /\ \A i \in 1..Len(h) : r[i] = After(r[i - 1], h, table, i)
  BY <1>1, LoopRounds
<1>5. s[0] = a /\ \A i \in 1..n : s[i] = After(s[i - 1], early, table, i)
  BY <1>2, LoopRounds
<1>6. t[0] = r[n] /\ \A i \in 1..(Len(h) - n) : t[i] = After(t[i - 1], late, table, i)
  BY <1>1, <1>3, LoopRounds
<1> HIDE DEF r, s, t
<1>7. s[n] = r[n]
  <2> DEFINE Good == {i \in 0..n : s[i] = r[i]}
  <2>1. 0 \in Good
    BY <1>4, <1>5
  <2>2. ASSUME NEW i \in 1..n, i - 1 \in Good
        PROVE  i \in Good
    <3>1. s[i] = After(s[i - 1], early, table, i) /\ r[i] = After(r[i - 1], h, table, i)
      BY <1>1, <1>4, <1>5
    <3>2. s[i - 1] = r[i - 1] /\ early[i] = h[i]
      BY <1>2, <2>2
    <3> QED BY <3>1, <3>2 DEF After
  <2> HIDE DEF Good
  <2>3. \A i \in 0..n : i \in Good
    BY <1>1, <2>1, <2>2, UpTo
  <2>4. n \in Good
    BY <1>1, <2>3
  <2> QED BY <2>4 DEF Good
<1>8. t[Len(h) - n] = r[Len(h)]
  <2> DEFINE Good == {i \in 0..(Len(h) - n) : t[i] = r[n + i]}
  <2>1. 0 \in Good
    BY <1>1, <1>6
  <2>2. ASSUME NEW i \in 1..(Len(h) - n), i - 1 \in Good
        PROVE  i \in Good
    <3>1. /\ t[i] = After(t[i - 1], late, table, i)
          /\ r[n + i] = After(r[n + i - 1], h, table, n + i)
      BY <1>1, <1>4, <1>6
    <3>2. t[i - 1] = r[n + (i - 1)] /\ n + (i - 1) = n + i - 1 /\ late[i] = h[n + i]
      BY <1>1, <1>3, <2>2
    <3>3. t[i] = r[n + i]
      BY <3>1, <3>2 DEF After
    <3> QED BY <3>3
  <2> HIDE DEF Good
  <2>3. Len(h) - n \in Nat
    BY <1>1
  <2>4. Len(h) - n \in Good
    <3> DEFINE k == Len(h) - n
    <3>1. k \in Nat /\ k \in 0..k /\ \A i \in 1..k : i - 1 \in Good => i \in Good
      BY <2>2, <2>3
    <3> HIDE DEF k
    <3>2. \A i \in 0..k : i \in Good
      BY <2>1, <3>1, UpTo
    <3>3. k \in Good
      BY <3>1, <3>2
    <3> QED BY <3>3 DEF k
  <2>5. n + (Len(h) - n) = Len(h)
    BY <1>1
  <2> QED BY <2>4, <2>5 DEF Good
<1>9. Reduce(early, table, a) = r[n] /\ Reduce(h, table, a) = r[Len(h)]
  BY <1>2, <1>7 DEF Reduce, r, s
<1>10. Reduce(late, table, r[n]) = r[Len(h)]
  BY <1>3, <1>8 DEF Reduce, t
<1> QED BY <1>9, <1>10 DEF early, late

-----------------------------------------------------------------------------
(* Rules *)

\* What is appended to a sequence is its last item.
LEMMA AppendLast ==
  ASSUME NEW list, list \in Seq(Range(list)), NEW x
  PROVE  /\ Append(list, x) \in Seq(Range(Append(list, x)))
         /\ Len(Append(list, x)) = Len(list) + 1 /\ Len(list) \in Nat
         /\ Last(Append(list, x)) = x
         /\ \A i \in 1..Len(list) : Append(list, x)[i] = list[i]
<1> DEFINE S == Range(list) \cup {x}
           t == Append(list, x)
<1>1. list \in Seq(S) /\ x \in S
  <2>1. list \in [1..Len(list) -> Range(list)] /\ Len(list) \in Nat
    OBVIOUS
  <2> QED BY <2>1
<1> HIDE DEF S
<1>2. /\ t \in Seq(S) /\ Len(t) = Len(list) + 1 /\ Len(list) \in Nat
      /\ t[Len(list) + 1] = x
      /\ \A i \in 1..Len(list) : t[i] = list[i]
  BY <1>1, AppendProperties
<1> HIDE DEF t
<1>3. DOMAIN t = 1..Len(t) /\ Len(t) \in Nat /\ t = [i \in 1..Len(t) |-> t[i]]
  BY <1>2
<1>4. t \in [1..Len(t) -> Range(t)]
  BY <1>3 DEF Range
<1>5. t \in Seq(Range(t))
  BY <1>3, <1>4
<1> QED BY <1>2, <1>5 DEF t, Last

\* The list that applyRule appends to: the field's own, or a new one.
LEMMA ListWellFormed ==
  ASSUME NEW state, WellFormed(state), NEW field, NEW list,
         list = IF field \in DOMAIN state /\ IsArray(state[field])
                THEN state[field].items ELSE <<>>
  PROVE  list \in Seq(Range(list))
<1>1. CASE field \in DOMAIN state /\ IsArray(state[field])
  BY <1>1 DEF WellFormed
<1>2. CASE ~(field \in DOMAIN state /\ IsArray(state[field]))
  BY <1>2, EmptySeq
<1> QED BY <1>1, <1>2

\* A rule makes a well-formed state of a well-formed one.
LEMMA RulesWellFormed ==
  ASSUME NEW state, WellFormed(state), NEW rule \in Rule \cup {NoRule},
         NEW payload, WellFormed(payload)
  PROVE  WellFormed(Applied(state, rule, payload))
<1>1. CASE rule = NoRule
  BY <1>1 DEF Applied
<1>2. CASE rule \in Rule /\ rule # NoRule
  <2> DEFINE new == Applied(state, rule, payload)
  <2>1. new = ApplyRule(state, rule, payload) /\ rule.operation \in Operations
    BY <1>2 DEF Applied, Rule
  <2>2. CASE rule.operation = "set"
    <3>1. new = Spread(state, payload)
      BY <2>1, <2>2 DEF ApplyRule, Set
    <3> HIDE DEF new
    <3>2. WellFormed(new)
      BY <3>1 DEF WellFormed, Spread
    <3> QED BY <3>2 DEF new
  <2>3. CASE rule.operation # "set" /\ rule.field = NoField
    <3>1. new = state
      BY <2>1, <2>3 DEF ApplyRule
    <3> QED BY <3>1
  <2>4. CASE rule.operation = "merge" /\ rule.field # NoField
    <3>1. PICK object : new = Spread(state, Single(rule.field, Object(object)))
      BY <2>1, <2>4 DEF ApplyRule, Merge
    <3>2. ~IsArray(Object(object))
      BY DEF IsArray, Object
    <3> HIDE DEF new
    <3>3. /\ DOMAIN new = DOMAIN state \cup {rule.field}
          /\ new[rule.field] = Object(object)
          /\ \A k \in DOMAIN state \ {rule.field} : new[k] = state[k]
      BY <3>1 DEF Spread, Single
    <3>4. WellFormed(new)
      BY <3>2, <3>3 DEF WellFormed
    <3> QED BY <3>4 DEF new
  <2>5. CASE rule.operation = "append" /\ rule.field # NoField
    <3> DEFINE list == IF rule.field \in DOMAIN state /\ IsArray(state[rule.field])
                       THEN state[rule.field].items ELSE <<>>
               longer == Append(list, Object(payload))
    <3>1. new = Spread(state, Single(rule.field, List(longer)))
      BY <2>1, <2>5 DEF ApplyRule, AppendTo
    <3>2. longer \in Seq(Range(longer))
      <4>1. list \in Seq(Range(list))
        BY ListWellFormed
      <4> HIDE DEF list
      <4> QED BY <4>1, AppendLast
    <3> HIDE DEF longer, new
    <3>3. /\ DOMAIN new = DOMAIN state \cup {rule.field}
          /\ new[rule.field] = List(longer)
          /\ \A k \in DOMAIN state \ {rule.field} : new[k] = state[k]
      BY <3>1 DEF Spread, Single
    <3>4. List(longer).items = longer
      BY DEF List
    <3>5. WellFormed(new)
      BY <3>2, <3>3, <3>4 DEF WellFormed
    <3> QED BY <3>5 DEF new
  <2> QED BY <2>1, <2>2, <2>3, <2>4, <2>5 DEF Operations
<1> QED BY <1>1, <1>2

\* A rule that has the field it needs shows its payload.
LEMMA RuleShows ==
  ASSUME NEW state, WellFormed(state), NEW rule \in Rule,
         rule.operation # "set" => rule.field # NoField, NEW payload
  PROVE  Shows(ApplyRule(state, rule, payload), rule, payload)
<1> DEFINE new == ApplyRule(state, rule, payload)
<1>1. rule.operation \in Operations
  BY DEF Rule
<1>2. CASE rule.operation = "set"
  <2>1. new = Spread(state, payload)
    BY <1>2 DEF ApplyRule, Set
  <2>2. \A k \in DOMAIN payload : new[k] = payload[k]
    BY <2>1 DEF Spread
  <2> HIDE DEF new
  <2>3. Shows(new, rule, payload)
    BY <1>2, <2>2 DEF Shows
  <2> QED BY <2>3 DEF new
<1>3. CASE rule.operation = "merge"
  <2> DEFINE base == IF rule.field \in DOMAIN state /\ IsPlainObject(state[rule.field])
                     THEN state[rule.field].fields ELSE EmptyState
             object == Spread(base, payload)
  <2>1. new = Spread(state, Single(rule.field, Object(object)))
    BY <1>3 DEF ApplyRule, Merge
  <2>2. \A k \in DOMAIN payload : object[k] = payload[k]
    BY DEF Spread
  <2> HIDE DEF object, new
  <2>3. rule.field \in DOMAIN new /\ new[rule.field] = Object(object)
    BY <2>1 DEF Spread, Single
  <2>4. new[rule.field].fields = object
    BY <2>3 DEF Object
  <2>5. Shows(new, rule, payload)
    BY <1>3, <2>2, <2>3, <2>4 DEF Shows
  <2> QED BY <2>5 DEF new
<1>4. CASE rule.operation = "append"
  <2> DEFINE list == IF rule.field \in DOMAIN state /\ IsArray(state[rule.field])
                     THEN state[rule.field].items ELSE <<>>
             longer == Append(list, Object(payload))
  <2>1. new = Spread(state, Single(rule.field, List(longer)))
    BY <1>4 DEF ApplyRule, AppendTo
  <2>2. Last(longer) = Object(payload)
    <3>1. list \in Seq(Range(list))
      BY ListWellFormed
    <3> HIDE DEF list
    <3> QED BY <3>1, AppendLast
  <2> HIDE DEF longer, new
  <2>3. rule.field \in DOMAIN new /\ new[rule.field] = List(longer)
    BY <2>1 DEF Spread, Single
  <2>4. new[rule.field].items = longer
    BY <2>3 DEF List
  <2>5. Shows(new, rule, payload)
    BY <1>4, <2>2, <2>3, <2>4 DEF Shows
  <2> QED BY <2>5 DEF new
<1> QED BY <1>1, <1>2, <1>3, <1>4 DEF Operations

\* All states of the loop are well formed.
LEMMA LoopWellFormed ==
  ASSUME NEW history \in Seq(Event), NEW table \in [EventTypes -> Rule \cup {NoRule}],
         NEW n \in 0..Len(history)
  PROVE  WellFormed(StatesOf(history, table, EmptyState)[n])
<1> DEFINE s == StatesOf(history, table, EmptyState)
           Good == {m \in 0..Len(history) : WellFormed(s[m])}
<1>1. /\ s[0] = EmptyState
      /\ \A m \in 1..Len(history) : s[m] = After(s[m - 1], history, table, m)
  BY LoopRounds
<1> HIDE DEF s
<1>2. 0 \in Good
  <2>1. WellFormed(EmptyState)
    BY EmptySeq DEF WellFormed, EmptyState
  <2> QED BY <1>1, <2>1
<1>3. ASSUME NEW m \in 1..Len(history), m - 1 \in Good
      PROVE  m \in Good
  <2>1. history[m] \in Event
    BY ElementOfSeq
  <2>2. /\ table[history[m].eventType] \in Rule \cup {NoRule}
        /\ WellFormed(history[m].payload)
    BY <2>1, PayloadAssumption DEF Event
  <2>3. WellFormed(s[m - 1])
    BY <1>3
  <2>4. WellFormed(s[m])
    <3> DEFINE old == s[m - 1]
               rule == table[history[m].eventType]
               payload == history[m].payload
    <3>1. s[m] = Applied(old, rule, payload)
      BY <1>1 DEF After
    <3>2. WellFormed(old) /\ rule \in Rule \cup {NoRule} /\ WellFormed(payload)
      BY <2>2, <2>3
    <3> HIDE DEF old, rule, payload
    <3>3. WellFormed(Applied(old, rule, payload))
      BY <3>2, RulesWellFormed
    <3> QED BY <3>1, <3>3
  <2> QED BY <2>4
<1> HIDE DEF Good
<1>4. Len(history) \in Nat
  OBVIOUS
<1>5. n \in Good
  BY <1>2, <1>3, <1>4, UpTo
<1> QED BY <1>5 DEF Good, s

-----------------------------------------------------------------------------
(* The rows and the events *)

IInv == TypeOK /\ RulesHaveFields

\* Every reachable table of rules and history is well typed, and its rules have
\* the fields they need.
THEOREM Inductive == Spec => []IInv
<1>1. Init => IInv
  BY ConstantsAssumption DEF Init, IInv, TypeOK, RulesHaveFields
<1>2. IInv /\ [Next]_vars => IInv'
  <2> SUFFICES ASSUME IInv, [Next]_vars PROVE IInv'
    OBVIOUS
  <2>1. ASSUME NEW t \in EventTypes, NEW o \in Operations,
               NEW f \in Fields \cup {NoField, Omitted}, Upsert(t, o, f)
        PROVE  IInv'
    <3> DEFINE row == [operation |-> o,
                       field |-> IF f = Omitted THEN KeptField(rules[t]) ELSE f]
    <3>1. rules[t] \in Rule \cup {NoRule}
      BY DEF IInv, TypeOK
    <3>2. KeptField(rules[t]) \in Fields \cup {NoField}
      BY <3>1 DEF KeptField, Rule
    <3>3. row \in Rule
      BY <3>2 DEF Rule
    <3>4. row.operation # "set" => row.field # NoField
      BY <2>1, ConstantsAssumption DEF Upsert, Validated
    <3>5. rules' = [rules EXCEPT ![t] = row] /\ UNCHANGED events
      BY <2>1 DEF Upsert
    <3> HIDE DEF row
    <3>6. TypeOK'
      BY <3>3, <3>5 DEF IInv, TypeOK
    <3>7. \A u \in EventTypes : rules'[u] = IF u = t THEN row ELSE rules[u]
      BY <3>5 DEF IInv, TypeOK
    <3>8. RulesHaveFields'
      BY <3>4, <3>7 DEF IInv, RulesHaveFields
    <3> QED BY <3>6, <3>8 DEF IInv
  <2>2. ASSUME NEW e \in Event, AppendEvent(e) PROVE IInv'
    BY <2>2, ConstantsAssumption DEF AppendEvent, IInv, TypeOK, RulesHaveFields
  <2>3. CASE UNCHANGED vars
    BY <2>3 DEF vars, IInv, TypeOK, RulesHaveFields
  <2> QED BY <2>1, <2>2, <2>3 DEF Next
<1> QED BY <1>1, <1>2, PTL DEF Spec

\* The rows and the events always have their types.
THEOREM TypeCorrect == Spec => []TypeOK
<1>1. IInv => TypeOK
  BY DEF IInv
<1> QED BY <1>1, Inductive, PTL

\* Whatever upserts led to the rules and whatever the history, one more event of a
\* type with a rule shows in the state.
THEOREM NoRuleIgnored == Spec => []NoRuleIsSilent
<1>1. IInv => NoRuleIsSilent
  <2> SUFFICES ASSUME IInv, NEW t \in EventTypes, NEW p \in Payloads, rules[t] # NoRule
               PROVE  Shows(ApplyRule(Reduce(events, rules, EmptyState), rules[t], p),
                            rules[t], p)
    BY DEF NoRuleIsSilent
  <2>1. rules[t] \in Rule /\ (rules[t].operation # "set" => rules[t].field # NoField)
    BY DEF IInv, TypeOK, RulesHaveFields
  <2>2. Len(events) \in 0..Len(events) /\ events \in Seq(Event)
    BY DEF IInv, TypeOK
  <2>3. WellFormed(Reduce(events, rules, EmptyState))
    BY <2>2, LoopWellFormed DEF Reduce, IInv, TypeOK
  <2> QED BY <2>1, <2>3, RuleShows
<1> QED BY <1>1, Inductive, PTL

\* A state is the same with and without a snapshot: getState's fold, resumed from
\* the snapshot of any earlier event, is the fold of the whole history.
THEOREM SnapshotsChangeNothing ==
  Spec => [](\A n \in 0..Len(events) : Resumed(n) = Reduce(events, rules, EmptyState))
<1>1. IInv => \A n \in 0..Len(events) : Resumed(n) = Reduce(events, rules, EmptyState)
  BY ReduceInTwo DEF IInv, TypeOK, Resumed
<1> QED BY <1>1, Inductive, PTL

-----------------------------------------------------------------------------
(* The greatest of some numbers *)

\* Of finitely many numbers one is the greatest.
LEMMA MaxOf ==
  ASSUME NEW n \in Nat, NEW S \in SUBSET (1..n), S # {}
  PROVE  Max(S) \in S /\ \A y \in S : y <= Max(S)
<1> DEFINE Bounds == {m \in Nat : \A y \in S : y <= m}
<1>1. n \in Bounds
  OBVIOUS
<1>2. PICK m \in Bounds : \A b \in Bounds : m <= b
  BY <1>1, LeastNumber
<1>3. m \in S
  <2> SUFFICES ASSUME m \notin S PROVE FALSE
    OBVIOUS
  <2>1. PICK y \in S : TRUE
    OBVIOUS
  <2>2. y \in Nat /\ y >= 1 /\ y <= m
    BY <1>2
  <2>3. m - 1 \in Nat
    BY <1>2, <2>2
  <2>4. \A x \in S : x <= m - 1
    BY <1>2, <2>3
  <2>5. m - 1 \in Bounds
    BY <2>3, <2>4
  <2> QED BY <1>2, <2>5
<1>4. \E x \in S : \A y \in S : x >= y
  BY <1>2, <1>3
<1> QED BY <1>4 DEF Max

\* The number that is as great as all others is the greatest.
LEMMA MaxIs ==
  ASSUME NEW n \in Nat, NEW S \in SUBSET (1..n), NEW m \in S, \A y \in S : y <= m
  PROVE  Max(S) = m
<1> DEFINE x == Max(S)
<1>1. x \in S /\ \A y \in S : y <= x
  BY MaxOf
<1> HIDE DEF x
<1>2. x \in Nat /\ m \in Nat /\ x <= m /\ m <= x
  BY <1>1
<1>3. x = m
  BY <1>2
<1> QED BY <1>3 DEF x

\* LastOf gives a bound, which is one of the numbers if there are any.
LEMMA LastOfIs ==
  ASSUME NEW n \in Nat, NEW S \in SUBSET (1..n)
  PROVE  /\ LastOf(S) \in 0..n
         /\ \A y \in S : y <= LastOf(S)
         /\ S # {} => LastOf(S) \in S /\ LastOf(S) = Max(S)
         /\ S = {} => LastOf(S) = 0
<1>1. CASE S = {}
  BY <1>1 DEF LastOf
<1>2. CASE S # {}
  <2> DEFINE x == LastOf(S)
  <2>1. x = Max(S) /\ x \in S /\ \A y \in S : y <= x
    BY <1>2, MaxOf DEF LastOf
  <2> HIDE DEF x
  <2>2. x \in 0..n
    BY <2>1
  <2>3. x \in 0..n /\ (\A y \in S : y <= x) /\ x \in S /\ x = Max(S)
    BY <2>1, <2>2
  <2> QED BY <1>2, <2>3 DEF x
<1> QED BY <1>1, <1>2

-----------------------------------------------------------------------------
(* What one more event writes *)

\* The numbers that write a field are numbers of events.
LEMMA WritesAreEvents ==
  ASSUME NEW f, NEW n \in Nat
  PROVE  /\ Sets(f, n) \in SUBSET (1..n)
         /\ \A o : By(o, f, n) \in SUBSET (1..n)
         /\ Writes(f, n) \in SUBSET (1..n)
BY DEF Sets, By, Writes

\* No event writes a field in two ways.
LEMMA OneOperation ==
  ASSUME NEW f, NEW n \in Nat
  PROVE  /\ Sets(f, n) \cap By("merge", f, n) = {}
         /\ Sets(f, n) \cap By("append", f, n) = {}
         /\ By("merge", f, n) \cap By("append", f, n) = {}
BY DEF Sets, By

\* The writes of the first n events are those of the first n - 1, and perhaps n.
LEMMA OneMore ==
  ASSUME NEW f, NEW n \in Nat, n > 0
  PROVE  /\ n \in Sets(f, n) => Sets(f, n) = Sets(f, n - 1) \cup {n}
         /\ n \notin Sets(f, n) => Sets(f, n) = Sets(f, n - 1)
         /\ \A o : n \in By(o, f, n) => By(o, f, n) = By(o, f, n - 1) \cup {n}
         /\ \A o : n \notin By(o, f, n) => By(o, f, n) = By(o, f, n - 1)
         /\ n \notin Sets(f, n - 1)
         /\ \A o : n \notin By(o, f, n - 1)
<1>1. 1..n = (1..(n - 1)) \cup {n} /\ n \notin 1..(n - 1)
  OBVIOUS
<1> QED BY <1>1 DEF Sets, By

\* A field that event n does not write is what it was before it.
LEMMA Unwritten ==
  ASSUME NEW f, NEW n \in Nat, n > 0, n \notin Writes(f, n)
  PROVE  /\ Writes(f, n) = Writes(f, n - 1)
         /\ ValueOf(f, n) = ValueOf(f, n - 1)
<1>1. Sets(f, n) = Sets(f, n - 1)
  BY OneMore DEF Writes
<1>2. \A o \in {"merge", "append"} : By(o, f, n) = By(o, f, n - 1)
  BY OneMore DEF Writes
<1>3. Writes(f, n) = Writes(f, n - 1)
  BY <1>1, <1>2 DEF Writes
<1>4. ASSUME NEW o \in {"merge", "append"}
      PROVE  Start(f, o, n) = Start(f, o, n - 1) /\ Run(f, o, n) = Run(f, o, n - 1)
  <2>1. Start(f, o, n) = Start(f, o, n - 1)
    BY <1>2, <1>3 DEF Start
  <2> QED BY <1>2, <2>1 DEF Run
<1>5. MergedObject(f, n) = MergedObject(f, n - 1)
  <2>1. /\ Start(f, "merge", n) = Start(f, "merge", n - 1)
        /\ Run(f, "merge", n) = Run(f, "merge", n - 1)
    BY <1>4
  <2>2. SetFields(f, Start(f, "merge", n), n) = SetFields(f, Start(f, "merge", n - 1), n - 1)
    BY <1>1, <2>1 DEF SetFields
  <2> QED BY <2>1, <2>2 DEF MergedObject
<1>6. AppendedList(f, n) = AppendedList(f, n - 1)
  <2>1. /\ Start(f, "append", n) = Start(f, "append", n - 1)
        /\ Run(f, "append", n) = Run(f, "append", n - 1)
    BY <1>4
  <2>2. SetItems(f, Start(f, "append", n), n) = SetItems(f, Start(f, "append", n - 1), n - 1)
    BY <1>1, <2>1 DEF SetItems
  <2> QED BY <2>1, <2>2 DEF AppendedList
<1>7. ValueOf(f, n) = ValueOf(f, n - 1)
  BY <1>1, <1>2, <1>3, <1>5, <1>6 DEF ValueOf
<1> QED BY <1>3, <1>7

\* A field's value is given by the last event that writes it.
LEMMA ValueFromLast ==
  ASSUME NEW f, NEW n \in Nat, NEW last, last = Max(Writes(f, n))
  PROVE  /\ last \in Sets(f, n) => ValueOf(f, n) = Payload(last)[f]
         /\ last \in By("merge", f, n) => ValueOf(f, n) = MergedObject(f, n)
         /\ last \in By("append", f, n) => ValueOf(f, n) = AppendedList(f, n)
BY OneOperation DEF ValueOf

\* The last event is the last to write.
LEMMA LastWrites ==
  ASSUME NEW f, NEW n \in Nat, n \in Writes(f, n)
  PROVE  Max(Writes(f, n)) = n
BY WritesAreEvents, MaxIs

-----------------------------------------------------------------------------
(* Runs of merges and of appends *)

\* A run is of numbers of events, after its start.
LEMMA RunsAreEvents ==
  ASSUME NEW f, NEW n \in Nat, NEW o
  PROVE  /\ Start(f, o, n) \in 0..n
         /\ Run(f, o, n) \in SUBSET (1..n)
         /\ \A i \in Writes(f, n) \ By(o, f, n) : i <= Start(f, o, n)
         /\ Writes(f, n) \ By(o, f, n) # {} =>
              Start(f, o, n) \in Writes(f, n) \ By(o, f, n)
         /\ Writes(f, n) \ By(o, f, n) = {} => Start(f, o, n) = 0
<1>1. Writes(f, n) \ By(o, f, n) \in SUBSET (1..n)
  BY WritesAreEvents
<1> DEFINE W == Writes(f, n) \ By(o, f, n)
<1> HIDE DEF W
<1>2. W \in SUBSET (1..n) /\ Start(f, o, n) = LastOf(W)
  BY <1>1 DEF W, Start
<1>3. /\ Start(f, o, n) \in 0..n
      /\ \A i \in W : i <= Start(f, o, n)
      /\ W # {} => Start(f, o, n) \in W
      /\ W = {} => Start(f, o, n) = 0
  BY <1>2, LastOfIs
<1>4. Run(f, o, n) \in SUBSET (1..n)
  BY WritesAreEvents DEF Run
<1> QED BY <1>3, <1>4 DEF W

\* While there is a run, its operation was the last to write the field; when there
\* is none, what it would start from is the field's last write, or nothing is.
LEMMA RunIsLast ==
  ASSUME NEW f, NEW n \in Nat, NEW o \in {"merge", "append"}
  PROVE  /\ Run(f, o, n) # {} =>
              Writes(f, n) # {} /\ Max(Writes(f, n)) \in By(o, f, n)
         /\ Run(f, o, n) = {} /\ Writes(f, n) # {} =>
              /\ Max(Writes(f, n)) = Start(f, o, n)
              /\ Max(Writes(f, n)) \notin By(o, f, n)
         /\ Writes(f, n) = {} => Start(f, o, n) = 0
<1> DEFINE W == Writes(f, n)
           B == By(o, f, n)
           st == Start(f, o, n)
           last == Max(W)
<1>1. W \in SUBSET (1..n) /\ B \subseteq W
  BY WritesAreEvents DEF Writes
<1>2. /\ st \in 0..n
      /\ \A i \in W \ B : i <= st
      /\ W \ B # {} => st \in W \ B
      /\ W \ B = {} => st = 0
  BY RunsAreEvents
<1>3. Run(f, o, n) = {i \in B : i > st}
  BY DEF Run
<1>4. W # {} => last \in W /\ \A i \in W : i <= last
  BY <1>1, MaxOf
<1> HIDE DEF W, B, st, last
<1>5. ASSUME Run(f, o, n) # {}
      PROVE  W # {} /\ last \in B
  <2>1. PICK i \in B : i > st
    BY <1>3, <1>5
  <2>2. i \in W /\ i <= last /\ last \in W
    BY <1>1, <1>4, <2>1
  <2>3. i \in Nat /\ last \in Nat
    BY <1>1, <2>2
  <2>4. ~(last <= st)
    BY <1>2, <2>1, <2>2, <2>3
  <2> QED BY <1>2, <2>2, <2>4
<1>6. ASSUME Run(f, o, n) = {}, W # {}
      PROVE  last = st /\ last \notin B
  <2>1. last \in W /\ \A i \in W : i <= last
    BY <1>4, <1>6
  <2>2. last \in 1..n
    BY <1>1, <2>1
  <2>3. CASE last \in B
    <3>1. last <= st
      BY <1>2, <1>3, <1>6, <2>2, <2>3
    <3>2. st # 0
      BY <1>2, <2>2, <3>1
    <3>3. st \in W \ B
      BY <1>2, <3>2
    <3>4. st <= last /\ st \in Nat
      BY <1>2, <2>1, <3>3
    <3>5. st = last
      BY <2>2, <3>1, <3>4
    <3> QED BY <2>3, <3>3, <3>5
  <2>4. CASE last \notin B
    <3>1. last \in W \ B /\ last <= st
      BY <1>2, <2>1, <2>4
    <3>2. st \in W \ B /\ st <= last /\ st \in Nat
      BY <1>2, <2>1, <3>1
    <3>3. last = st
      BY <2>2, <3>1, <3>2
    <3> QED BY <2>4, <3>3
  <2> QED BY <2>3, <2>4
<1>7. W = {} => st = 0
  BY <1>2
<1> QED BY <1>5, <1>6, <1>7 DEF W, B, st, last

\* An event that merges or appends extends the run and starts none.
LEMMA RunGrows ==
  ASSUME NEW f, NEW n \in Nat, n > 0, NEW o \in {"merge", "append"}, n \in By(o, f, n)
  PROVE  /\ Start(f, o, n) = Start(f, o, n - 1)
         /\ Run(f, o, n) = Run(f, o, n - 1) \cup {n}
         /\ Sets(f, n) = Sets(f, n - 1)
         /\ Run(f, o, n - 1) \in SUBSET (1..(n - 1))
<1>1. /\ By(o, f, n) = By(o, f, n - 1) \cup {n}
      /\ n \notin By(o, f, n - 1)
  BY OneMore
<1>2. Sets(f, n) = Sets(f, n - 1) /\ n \notin Sets(f, n)
  BY OneMore, OneOperation
<1>3. ASSUME NEW p \in {"merge", "append"}, p # o
      PROVE  By(p, f, n) = By(p, f, n - 1) /\ n \notin By(p, f, n)
  BY <1>3, OneMore, OneOperation
<1>4. Writes(f, n) \ By(o, f, n) = Writes(f, n - 1) \ By(o, f, n - 1)
  BY <1>1, <1>2, <1>3 DEF Writes
<1>5. Start(f, o, n) = Start(f, o, n - 1)
  BY <1>4 DEF Start
<1>6. n - 1 \in Nat /\ Start(f, o, n - 1) \in 0..(n - 1)
  <2>1. n - 1 \in Nat
    OBVIOUS
  <2> QED BY <2>1, RunsAreEvents
<1>7. n > Start(f, o, n)
  BY <1>5, <1>6
<1>8. Run(f, o, n) = Run(f, o, n - 1) \cup {n}
  BY <1>1, <1>5, <1>7 DEF Run
<1>9. Run(f, o, n - 1) \in SUBSET (1..(n - 1))
  BY <1>6, RunsAreEvents
<1> QED BY <1>2, <1>5, <1>8, <1>9

\* One more payload merged is spread over what was merged before.
LEMMA MergedMore ==
  ASSUME NEW base, NEW n \in Nat, n > 0, NEW run \in SUBSET (1..(n - 1))
  PROVE  /\ Merged(base, run \cup {n}) =
              Object(Spread(Merged(base, run).fields, Payload(n)))
         /\ run = {} => Merged(base, run \cup {n}) = Object(Spread(base, Payload(n)))
<1> DEFINE longer == run \cup {n}
           Having(r, k) == {i \in r : k \in DOMAIN Payload(i)}
           Keys(r) == DOMAIN base \cup UNION {DOMAIN Payload(i) : i \in r}
           Value(r, k) == IF LastOf(Having(r, k)) = 0 THEN base[k]
                          ELSE Payload(LastOf(Having(r, k)))[k]
           p == Payload(n)
<1>1. \A r : Merged(base, r) = Object([k \in Keys(r) |-> Value(r, k)])
  BY DEF Merged
<1>2. longer \in SUBSET (1..n) /\ n \in longer
  OBVIOUS
<1>3. Keys(longer) = Keys(run) \cup DOMAIN p
  OBVIOUS
<1>4. ASSUME NEW k \in DOMAIN p
      PROVE  Value(longer, k) = p[k]
  <2> HIDE DEF longer
  <2>1. n \in Having(longer, k) /\ Having(longer, k) \in SUBSET (1..n)
    BY <1>2
  <2>2. \A i \in Having(longer, k) : i <= n
    BY <2>1
  <2> HIDE DEF Having
  <2>3. LastOf(Having(longer, k)) = n
    BY <2>1, <2>2, MaxIs DEF LastOf
  <2> QED BY <2>3
<1>5. ASSUME NEW k, k \notin DOMAIN p
      PROVE  Value(longer, k) = Value(run, k)
  <2>1. Having(longer, k) = Having(run, k)
    BY <1>5
  <2> HIDE DEF Having
  <2> QED BY <2>1
<1>6. ASSUME run = {}, NEW k
      PROVE  Keys(run) = DOMAIN base /\ Value(run, k) = base[k]
  <2>1. Having(run, k) = {}
    BY <1>6
  <2>2. LastOf(Having(run, k)) = 0
    BY <2>1 DEF LastOf
  <2> QED BY <1>6, <2>2
<1> HIDE DEF longer, Having, Keys, Value, p
<1>7. [k \in Keys(longer) |-> Value(longer, k)] = Spread([k \in Keys(run) |-> Value(run, k)], p)
  BY <1>3, <1>4, <1>5 DEF Spread
<1>8. Merged(base, run).fields = [k \in Keys(run) |-> Value(run, k)]
  BY <1>1 DEF Object
<1>9. Merged(base, longer) = Object(Spread(Merged(base, run).fields, p))
  BY <1>1, <1>7, <1>8
<1>10. ASSUME run = {}
      PROVE  [k \in Keys(longer) |-> Value(longer, k)] = Spread(base, p)
  BY <1>3, <1>4, <1>5, <1>6, <1>10 DEF Spread
<1> QED BY <1>1, <1>9, <1>10 DEF longer, p

\* One more payload appended is the new last item.
LEMMA ListedMore ==
  ASSUME NEW base, base \in Seq(Range(base)), NEW n \in Nat, n > 0,
         NEW run \in SUBSET (1..(n - 1))
  PROVE  /\ Listed(base, run \cup {n}) =
              List(Append(Listed(base, run).items, Object(Payload(n))))
         /\ Listed(base, {}) = List(base)
<1> DEFINE longer == run \cup {n}
           UpToNumber(r, i) == {j \in r : j <= i}
           Place(r, i) == Len(base) + Cardinality(UpToNumber(r, i))
           At(r, m) == {i \in r : Place(r, i) = m}
           Item(r, m) == IF m <= Len(base) THEN base[m] ELSE Object(Payload(TheOne(At(r, m))))
           Items(r) == [m \in 1..(Len(base) + Cardinality(r)) |-> Item(r, m)]
           c == Cardinality(run)
           k == Len(base) + c
<1>1. \A r : Listed(base, r) = List(Items(r))
  BY DEF Listed
<1>2. /\ IsFiniteSet(run) /\ c \in Nat /\ Len(base) \in Nat /\ k \in Nat /\ Len(base) <= k
      /\ n \notin run /\ longer \in SUBSET (1..n) /\ n \in longer
      /\ Cardinality(longer) = c + 1
  <2>1. IsFiniteSet(1..(n - 1))
    BY FS_Interval
  <2>2. IsFiniteSet(run)
    BY <2>1, FS_Subset
  <2>3. c \in Nat /\ Len(base) \in Nat /\ n \notin run
    BY <2>2, FS_CardinalityType
  <2>4. Cardinality(longer) = c + 1
    BY <2>2, <2>3, FS_AddElement
  <2> QED BY <2>2, <2>3, <2>4
<1>3. \A m \in longer : m \in Nat /\ m <= n
  <2> HIDE DEF longer
  <2> QED BY <1>2
<1>4. ASSUME NEW i \in run
      PROVE  Place(longer, i) = Place(run, i) /\ Place(run, i) \in Nat /\ Place(run, i) <= k
  <2>1. UpToNumber(longer, i) = UpToNumber(run, i)
    OBVIOUS
  <2>2. /\ UpToNumber(run, i) \subseteq run
        /\ Cardinality(UpToNumber(run, i)) \in Nat /\ Cardinality(UpToNumber(run, i)) <= c
    BY <1>2, FS_Subset, FS_CardinalityType
  <2> HIDE DEF UpToNumber, c
  <2> QED BY <1>2, <2>1, <2>2
<1>5. Place(longer, n) = k + 1
  <2>1. UpToNumber(longer, n) = longer
    BY <1>3
  <2> HIDE DEF UpToNumber, c, longer
  <2> QED BY <1>2, <2>1
<1> HIDE DEF Place, c, k
<1>6. ASSUME NEW m \in 1..k
      PROVE  At(longer, m) = At(run, m)
  <2>1. n \notin At(longer, m)
    BY <1>2, <1>5
  <2> QED BY <1>2, <1>4, <2>1
<1>7. At(longer, k + 1) = {n}
  <2>1. n \in At(longer, k + 1)
    BY <1>2, <1>5
  <2>2. ASSUME NEW i \in run
        PROVE  i \notin At(longer, k + 1)
    <3>1. Place(longer, i) \in Nat /\ Place(longer, i) <= k /\ k \in Nat
      BY <1>2, <1>4
    <3>2. Place(longer, i) # k + 1
      BY <3>1
    <3> QED BY <3>2
  <2> QED BY <2>1, <2>2
<1> HIDE DEF At
<1>8. TheOne(At(longer, k + 1)) = n
  BY <1>7 DEF TheOne
<1>9. \A m \in 1..k : Item(longer, m) = Item(run, m)
  BY <1>6
<1>10. Item(longer, k + 1) = Object(Payload(n))
  BY <1>2, <1>8
<1> HIDE DEF longer, Item, k
<1>11. Items(run) = [m \in 1..k |-> Item(run, m)]
  BY DEF k, c
<1>12. Items(longer) = [m \in 1..(k + 1) |-> Item(longer, m)]
  <2>1. Len(base) + Cardinality(longer) = k + 1
    BY <1>2 DEF k
  <2> QED BY <2>1
<1> HIDE DEF Items
<1>13. Items(longer) = Append(Items(run), Object(Payload(n)))
  <2> DEFINE s == Items(run)
             x == Object(Payload(n))
  <2>1. s \in Seq(Range(s)) /\ Len(s) = k
    BY <1>2, <1>11 DEF Range
  <2> HIDE DEF s, x
  <2>2. /\ Append(s, x) \in Seq(Range(Append(s, x))) /\ Len(Append(s, x)) = k + 1
        /\ Last(Append(s, x)) = x
        /\ \A i \in 1..k : Append(s, x)[i] = s[i]
    BY <2>1, AppendLast
  <2>3. Append(s, x)[k + 1] = x
    BY <2>2 DEF Last
  <2> DEFINE t == Append(s, x)
  <2> HIDE DEF t
  <2>4. t = [m \in 1..(k + 1) |-> t[m]]
    <3>1. t \in Seq(Range(t)) /\ Len(t) = k + 1
      BY <2>2 DEF t
    <3> QED BY <3>1
  <2>5. \A m \in 1..(k + 1) : t[m] = Item(longer, m)
    BY <1>2, <1>9, <1>10, <1>11, <2>2, <2>3 DEF s, x, t
  <2>6. t = Items(longer)
    BY <1>12, <2>4, <2>5
  <2> QED BY <2>6 DEF s, x, t
<1>14. Listed(base, longer) = List(Append(Listed(base, run).items, Object(Payload(n))))
  BY <1>1, <1>13 DEF List
<1>15. Listed(base, {}) = List(base)
  <2>1. Cardinality({}) = 0
    BY FS_EmptySet
  <2>2. \A m \in 1..Len(base) : Item({}, m) = base[m]
    BY <1>2 DEF Item
  <2>3. Items({}) = [m \in 1..Len(base) |-> base[m]]
    BY <1>2, <2>1, <2>2 DEF Items
  <2>4. base = [m \in 1..Len(base) |-> base[m]]
    OBVIOUS
  <2> QED BY <1>1, <2>3, <2>4
<1> QED BY <1>14, <1>15 DEF longer

-----------------------------------------------------------------------------
(* One round of the loop *)

\* A merged payload is spread over the object the field held, or over none.
LEMMA MergeValue ==
  ASSUME NEW f \in Fields, NEW n \in Nat, n > 0, n \in By("merge", f, n),
         NEW old, old = Reference(n - 1), NEW base,
         base = IF f \in DOMAIN old /\ IsPlainObject(old[f]) THEN old[f].fields
                ELSE EmptyState
  PROVE  ValueOf(f, n) = Object(Spread(base, Payload(n)))
<1> DEFINE st == Start(f, "merge", n - 1)
           run == Run(f, "merge", n - 1)
           from == SetFields(f, st, n - 1)
           last == Max(Writes(f, n - 1))
<1>1. n - 1 \in Nat
  OBVIOUS
<1>2. ValueOf(f, n) = Merged(from, run \cup {n}) /\ run \in SUBSET (1..(n - 1))
  <2>1. n \in Writes(f, n)
    BY DEF Writes
  <2>2. ValueOf(f, n) = MergedObject(f, n)
    BY <2>1, LastWrites, ValueFromLast
  <2>3. /\ Start(f, "merge", n) = st /\ Run(f, "merge", n) = run \cup {n}
        /\ Sets(f, n) = Sets(f, n - 1) /\ run \in SUBSET (1..(n - 1))
    BY RunGrows
  <2>4. SetFields(f, st, n) = from
    BY <2>3 DEF SetFields
  <2> QED BY <2>2, <2>3, <2>4 DEF MergedObject
<1>3. f \in DOMAIN old <=> Writes(f, n - 1) # {}
  BY DEF Reference
<1>4. f \in DOMAIN old => old[f] = ValueOf(f, n - 1)
  BY DEF Reference
<1>5. ASSUME run # {}
      PROVE  base = Merged(from, run).fields
  <2>1. Writes(f, n - 1) # {} /\ last \in By("merge", f, n - 1)
    BY <1>1, <1>5, RunIsLast
  <2>2. old[f] = Merged(from, run)
    BY <1>1, <1>3, <1>4, <2>1, ValueFromLast DEF MergedObject
  <2>3. IsPlainObject(Merged(from, run))
    BY DEF Merged, Object, IsPlainObject
  <2> QED BY <1>3, <2>1, <2>2, <2>3
<1>6. ASSUME run = {}
      PROVE  base = from
  <2>1. CASE Writes(f, n - 1) = {}
    <3>1. st = 0 /\ 0 \notin Sets(f, n - 1)
      BY <1>1, <2>1, RunIsLast, WritesAreEvents
    <3>2. from = EmptyState
      BY <3>1 DEF SetFields
    <3> QED BY <1>3, <2>1, <3>2
  <2>2. CASE Writes(f, n - 1) # {}
    <3>1. last = st /\ last \notin By("merge", f, n - 1)
      BY <1>1, <1>6, <2>2, RunIsLast
    <3>2. last \in Writes(f, n - 1)
      BY <1>1, <2>2, WritesAreEvents, MaxOf
    <3>3. CASE last \in Sets(f, n - 1)
      <4>1. old[f] = Payload(st)[f]
        BY <1>1, <1>3, <1>4, <2>2, <3>1, <3>3, ValueFromLast
      <4>2. from = IF IsPlainObject(Payload(st)[f]) THEN Payload(st)[f].fields ELSE EmptyState
        BY <3>1, <3>3 DEF SetFields
      <4> QED BY <1>3, <2>2, <4>1, <4>2
    <3>4. CASE last \in By("append", f, n - 1)
      <4>1. old[f] = AppendedList(f, n - 1)
        BY <1>1, <1>3, <1>4, <2>2, <3>4, ValueFromLast
      <4>2. ~IsPlainObject(old[f])
        BY <4>1 DEF AppendedList, Listed, List, IsPlainObject
      <4>3. st \notin Sets(f, n - 1)
        BY <1>1, <3>1, <3>4, OneOperation
      <4>4. from = EmptyState
        BY <4>3 DEF SetFields
      <4> QED BY <4>2, <4>4
    <3> QED BY <3>1, <3>2, <3>3, <3>4 DEF Writes
  <2> QED BY <2>1, <2>2
<1> HIDE DEF st, run, from, last
<1>7. Merged(from, run \cup {n}) = Object(Spread(Merged(from, run).fields, Payload(n)))
  BY <1>2, MergedMore
<1>8. run = {} => Merged(from, run \cup {n}) = Object(Spread(from, Payload(n)))
  BY <1>2, MergedMore
<1> QED BY <1>2, <1>5, <1>6, <1>7, <1>8

\* An appended payload comes after the list the field held, or is the first.
LEMMA AppendValue ==
  ASSUME TypeOK, NEW f \in Fields, NEW n \in 1..Len(events), n \in By("append", f, n),
         NEW old, old = Reference(n - 1), NEW list,
         list = IF f \in DOMAIN old /\ IsArray(old[f]) THEN old[f].items ELSE <<>>
  PROVE  ValueOf(f, n) = List(Append(list, Object(Payload(n))))
<1> DEFINE st == Start(f, "append", n - 1)
           run == Run(f, "append", n - 1)
           from == SetItems(f, st, n - 1)
           last == Max(Writes(f, n - 1))
<1>1. n - 1 \in Nat /\ n \in Nat /\ n > 0
  BY DEF TypeOK
<1>2. ValueOf(f, n) = Listed(from, run \cup {n}) /\ run \in SUBSET (1..(n - 1))
  <2>1. n \in Writes(f, n)
    BY DEF Writes
  <2>2. ValueOf(f, n) = AppendedList(f, n)
    BY <1>1, <2>1, LastWrites, ValueFromLast
  <2>3. /\ Start(f, "append", n) = st /\ Run(f, "append", n) = run \cup {n}
        /\ Sets(f, n) = Sets(f, n - 1) /\ run \in SUBSET (1..(n - 1))
    BY <1>1, RunGrows
  <2>4. SetItems(f, st, n) = from
    BY <2>3 DEF SetItems
  <2> QED BY <2>2, <2>3, <2>4 DEF AppendedList
<1>3. f \in DOMAIN old <=> Writes(f, n - 1) # {}
  BY DEF Reference
<1>4. f \in DOMAIN old => old[f] = ValueOf(f, n - 1)
  BY DEF Reference
<1>5. ASSUME run # {}
      PROVE  list = Listed(from, run).items
  <2>1. Writes(f, n - 1) # {} /\ last \in By("append", f, n - 1)
    BY <1>1, <1>5, RunIsLast
  <2>2. old[f] = Listed(from, run)
    BY <1>1, <1>3, <1>4, <2>1, ValueFromLast DEF AppendedList
  <2>3. IsArray(Listed(from, run))
    BY DEF Listed, List, IsArray
  <2> QED BY <1>3, <2>1, <2>2, <2>3
<1>6. ASSUME run = {}
      PROVE  list = from
  <2>1. CASE Writes(f, n - 1) = {}
    <3>1. st = 0 /\ 0 \notin Sets(f, n - 1)
      BY <1>1, <2>1, RunIsLast, WritesAreEvents
    <3>2. from = <<>>
      BY <3>1 DEF SetItems
    <3> QED BY <1>3, <2>1, <3>2
  <2>2. CASE Writes(f, n - 1) # {}
    <3>1. last = st /\ last \notin By("append", f, n - 1)
      BY <1>1, <1>6, <2>2, RunIsLast
    <3>2. last \in Writes(f, n - 1)
      BY <1>1, <2>2, WritesAreEvents, MaxOf
    <3>3. CASE last \in Sets(f, n - 1)
      <4>1. old[f] = Payload(st)[f]
        BY <1>1, <1>3, <1>4, <2>2, <3>1, <3>3, ValueFromLast
      <4>2. from = IF IsArray(Payload(st)[f]) THEN Payload(st)[f].items ELSE <<>>
        BY <3>1, <3>3 DEF SetItems
      <4> QED BY <1>3, <2>2, <4>1, <4>2
    <3>4. CASE last \in By("merge", f, n - 1)
      <4>1. old[f] = MergedObject(f, n - 1)
        BY <1>1, <1>3, <1>4, <2>2, <3>4, ValueFromLast
      <4>2. ~IsArray(old[f])
        BY <4>1 DEF MergedObject, Merged, Object, IsArray
      <4>3. st \notin Sets(f, n - 1)
        BY <1>1, <3>1, <3>4, OneOperation
      <4>4. from = <<>>
        BY <4>3 DEF SetItems
      <4> QED BY <4>2, <4>4
    <3> QED BY <3>1, <3>2, <3>3, <3>4 DEF Writes
  <2> QED BY <2>1, <2>2
<1>7. from \in Seq(Range(from))
  <2>1. CASE st \in Sets(f, n - 1) /\ IsArray(Payload(st)[f])
    <3>1. st \in 1..Len(events) /\ f \in DOMAIN Payload(st)
      BY <2>1, <1>1 DEF Sets
    <3>2. events[st] \in Event
      BY <3>1 DEF TypeOK
    <3>3. WellFormed(Payload(st))
      BY <3>2, PayloadAssumption DEF Payload, Event
    <3> QED BY <2>1, <3>1, <3>3 DEF WellFormed, SetItems
  <2>2. CASE ~(st \in Sets(f, n - 1) /\ IsArray(Payload(st)[f]))
    <3>1. from = <<>>
      BY <2>2 DEF SetItems
    <3> HIDE DEF from
    <3> QED BY <3>1, EmptySeq
  <2> QED BY <2>1, <2>2
<1> HIDE DEF st, run, from, last
<1>8. /\ Listed(from, run \cup {n}) = List(Append(Listed(from, run).items, Object(Payload(n))))
      /\ Listed(from, {}) = List(from)
  BY <1>1, <1>2, <1>7, ListedMore
<1>9. run = {} => Listed(from, run).items = from
  BY <1>8 DEF List
<1> QED BY <1>2, <1>5, <1>6, <1>8, <1>9

\* When event n writes one field, the reference changes in that field.
LEMMA OneFieldChanges ==
  ASSUME NEW n \in Nat, n > 0, NEW f \in Fields, n \in Writes(f, n),
         \A g \in Fields \ {f} : n \notin Writes(g, n)
  PROVE  Reference(n) = Spread(Reference(n - 1), Single(f, ValueOf(f, n)))
<1>1. \A g \in Fields \ {f} :
        /\ Writes(g, n) = Writes(g, n - 1)
        /\ ValueOf(g, n) = ValueOf(g, n - 1)
  BY Unwritten
<1>2. Writes(f, n) # {}
  OBVIOUS
<1> QED BY <1>1, <1>2 DEF Reference, Spread, Single

\* One round of the loop takes the reference's state from n - 1 events to n.
LEMMA RoundIsReference ==
  ASSUME TypeOK, NEW n \in 1..Len(events)
  PROVE  Applied(Reference(n - 1), RuleOf(n), Payload(n)) = Reference(n)
<1> DEFINE rule == RuleOf(n)
           p == Payload(n)
           old == Reference(n - 1)
<1>1. n \in Nat /\ n > 0
  BY DEF TypeOK
<1>2. rule \in Rule \cup {NoRule} /\ p \in Payloads /\ DOMAIN p \subseteq Fields
  <2>1. events[n] \in Event
    BY DEF TypeOK
  <2> QED BY <2>1, ConstantsAssumption DEF TypeOK, Event, RuleOf, Payload
<1>3. \A f : n \in Sets(f, n) <=> rule # NoRule /\ rule.operation = "set" /\ f \in DOMAIN p
  BY <1>1 DEF Sets
<1>4. \A f, o : n \in By(o, f, n) <=> rule # NoRule /\ rule.operation = o /\ rule.field = f
  BY <1>1 DEF By
<1>5. \A f : n \in Writes(f, n) <=>
        n \in Sets(f, n) \/ n \in By("merge", f, n) \/ n \in By("append", f, n)
  BY DEF Writes
<1> HIDE DEF rule, p, old
<1>6. ASSUME \A f \in Fields : n \notin Writes(f, n)
      PROVE  Reference(n) = old
  <2>1. \A f \in Fields : /\ Writes(f, n) = Writes(f, n - 1)
                          /\ ValueOf(f, n) = ValueOf(f, n - 1)
    BY <1>1, <1>6, Unwritten
  <2> QED BY <2>1 DEF Reference, old
<1>7. CASE rule = NoRule
  <2>1. Applied(old, rule, p) = old
    BY <1>7 DEF Applied
  <2> QED BY <1>3, <1>4, <1>5, <1>6, <1>7, <2>1 DEF rule, p, old
<1>8. CASE rule \in Rule /\ rule # NoRule
  <2>1. Applied(old, rule, p) = ApplyRule(old, rule, p) /\ rule.operation \in Operations
        /\ rule.field \in Fields \cup {NoField}
    BY <1>8 DEF Applied, Rule
  <2>2. CASE rule.operation = "set"
    <3>1. Applied(old, rule, p) = Spread(old, p)
      BY <2>1, <2>2 DEF ApplyRule, Set
    <3>2. ASSUME NEW f \in DOMAIN p
          PROVE  Writes(f, n) # {} /\ ValueOf(f, n) = p[f]
      <4>1. n \in Sets(f, n) /\ n \in Writes(f, n)
        BY <1>3, <1>5, <1>8, <2>2
      <4> QED BY <1>1, <4>1, LastWrites, ValueFromLast DEF p
    <3>3. ASSUME NEW f \in Fields, f \notin DOMAIN p
          PROVE  Writes(f, n) = Writes(f, n - 1) /\ ValueOf(f, n) = ValueOf(f, n - 1)
      <4>1. n \notin Writes(f, n)
        BY <1>3, <1>4, <1>5, <2>2, <3>3
      <4> QED BY <1>1, <4>1, Unwritten
    <3>4. Reference(n) = Spread(old, p)
      BY <1>2, <3>2, <3>3 DEF Reference, Spread, old
    <3> QED BY <3>1, <3>4 DEF rule, p, old
  <2>3. CASE rule.operation # "set" /\ rule.field = NoField
    <3>1. Applied(old, rule, p) = old
      BY <2>1, <2>3 DEF ApplyRule
    <3>2. \A f \in Fields : n \notin Writes(f, n)
      BY <1>3, <1>4, <1>5, <2>3, ConstantsAssumption
    <3> QED BY <1>6, <3>1, <3>2 DEF rule, p, old
  <2>4. CASE rule.operation = "merge" /\ rule.field # NoField
    <3> DEFINE f == rule.field
               base == IF f \in DOMAIN old /\ IsPlainObject(old[f]) THEN old[f].fields
                       ELSE EmptyState
    <3>1. Applied(old, rule, p) = Spread(old, Single(f, Object(Spread(base, p))))
      BY <2>1, <2>4 DEF ApplyRule, Merge
    <3>2. f \in Fields /\ n \in By("merge", f, n)
      BY <1>4, <1>8, <2>1, <2>4
    <3>3. n \in Writes(f, n) /\ \A g \in Fields \ {f} : n \notin Writes(g, n)
      BY <1>3, <1>4, <1>5, <2>4, <3>2
    <3> HIDE DEF f
    <3>4. ValueOf(f, n) = Object(Spread(base, p))
      BY <1>1, <3>2, MergeValue DEF old, p
    <3>5. Reference(n) = Spread(old, Single(f, Object(Spread(base, p))))
      BY <1>1, <3>2, <3>3, <3>4, OneFieldChanges DEF old
    <3> QED BY <3>1, <3>5 DEF rule, p, old
  <2>5. CASE rule.operation = "append" /\ rule.field # NoField
    <3> DEFINE f == rule.field
               list == IF f \in DOMAIN old /\ IsArray(old[f]) THEN old[f].items ELSE <<>>
               longer == Append(list, Object(p))
    <3>1. Applied(old, rule, p) = Spread(old, Single(f, List(longer)))
      BY <2>1, <2>5 DEF ApplyRule, AppendTo
    <3>2. f \in Fields /\ n \in By("append", f, n)
      BY <1>4, <1>8, <2>1, <2>5
    <3>3. n \in Writes(f, n) /\ \A g \in Fields \ {f} : n \notin Writes(g, n)
      BY <1>3, <1>4, <1>5, <2>5, <3>2
    <3> HIDE DEF f
    <3>4. ValueOf(f, n) = List(longer)
      BY <3>2, AppendValue DEF old, p
    <3>5. Reference(n) = Spread(old, Single(f, List(longer)))
      BY <1>1, <3>2, <3>3, <3>4, OneFieldChanges DEF old
    <3> QED BY <3>1, <3>5 DEF rule, p, old
  <2> QED BY <2>1, <2>2, <2>3, <2>4, <2>5 DEF Operations
<1> QED BY <1>2, <1>7, <1>8

-----------------------------------------------------------------------------
(* The whole loop *)

\* The fold of the whole history gives every field its value of the reference.
LEMMA FoldIsReference ==
  ASSUME TypeOK
  PROVE  Reduce(events, rules, EmptyState) = Reference(Len(events))
<1> DEFINE s == StatesOf(events, rules, EmptyState)
           k == Len(events)
           Good == {n \in 0..k : s[n] = Reference(n)}
<1>1. k \in Nat
  BY DEF TypeOK
<1>2. s[0] = EmptyState /\ \A n \in 1..k : s[n] = After(s[n - 1], events, rules, n)
  BY <1>1, LoopRounds
<1> HIDE DEF s
<1>3. 0 \in Good
  <2>1. \A f : Writes(f, 0) = {}
    BY DEF Writes, Sets, By
  <2>2. Reference(0) = EmptyState
    BY <2>1 DEF Reference, EmptyState
  <2> QED BY <1>1, <1>2, <2>2
<1>4. ASSUME NEW n \in 1..k, n - 1 \in Good
      PROVE  n \in Good
  <2>1. s[n] = Applied(s[n - 1], RuleOf(n), Payload(n)) /\ s[n - 1] = Reference(n - 1)
    BY <1>2, <1>4 DEF After, RuleOf, Payload
  <2>2. s[n] = Reference(n)
    BY <2>1, RoundIsReference
  <2> QED BY <2>2, <1>1
<1> HIDE DEF Good, k
<1>5. \A n \in 0..k : n \in Good
  BY <1>1, <1>3, <1>4, UpTo
<1>6. k \in Good
  BY <1>1, <1>5
<1> QED BY <1>6 DEF Good, s, k, Reduce

\* The answer of getState, resumed from a snapshot of any earlier event, gives
\* every field the value the operations promise in terms of the events that wrote
\* it, for any rules, any payloads and any number of events.
THEOREM FoldIsPromised == Spec => []FoldsToReference
<1>1. IInv => FoldsToReference
  <2> SUFFICES ASSUME IInv, NEW n \in 0..Len(events)
               PROVE  Resumed(n) = Reference(Len(events))
    BY DEF FoldsToReference
  <2>1. Resumed(n) = Reduce(events, rules, EmptyState)
    BY ReduceInTwo DEF IInv, TypeOK, Resumed
  <2> QED BY <2>1, FoldIsReference DEF IInv
<1> QED BY <1>1, Inductive, PTL
=============================================================================
