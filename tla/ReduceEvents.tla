---------------------------- MODULE ReduceEvents ----------------------------
(***************************************************************************)
(* The fold of an aggregate's events by the reducer rules: reduceEvents    *)
(* and applyRule, with the rows of event_reducers and POST /event-reducers *)
(* that writes them.  One aggregate type: the unique key of the rows and   *)
(* the query for them both carry it.                                       *)
(*                                                                         *)
(* A JSON value is a scalar, an object or a list.  The state and a payload *)
(* are objects (the payload's dto requires it), kept as functions from     *)
(* keys to values.                                                         *)
(***************************************************************************)
EXTENDS Integers, Sequences, SequencesExt

CONSTANTS EventTypes,
          Fields,      \* names a rule's field may have, and keys of payloads
          Payloads,    \* the payloads appended
          NoField,     \* a null field
          Omitted,     \* a field a request does not mention
          NoRule,      \* an event type without a row
          MaxEvents    \* bound on the events of the aggregate

Operations == {"set", "merge", "append"}

Rule == [operation : Operations, field : Fields \cup {NoField}]

Event == [eventType : EventTypes, payload : Payloads]

ASSUME ConstantsAssumption ==
  /\ NoField \notin Fields
  /\ Omitted \notin Fields \cup {NoField}
  /\ NoRule \notin Rule
  /\ MaxEvents \in Nat
  /\ \A p \in Payloads : DOMAIN p \subseteq Fields

VARIABLES rules,   \* the rows of event_reducers, per event type
          events   \* the events of the aggregate, in order

vars == <<rules, events>>

-----------------------------------------------------------------------------
(* JSON values *)

Object(fields) == [kind |-> "object", fields |-> fields]
List(items) == [kind |-> "list", items |-> items]

IsPlainObject(v) == v.kind = "object"
IsArray(v) == v.kind = "list"

EmptyState == <<>>

\* The items of every list among the values are a sequence.
WellFormed(fields) ==
  \A k \in DOMAIN fields :
    IsArray(fields[k]) => fields[k].items \in Seq(Range(fields[k].items))

ASSUME PayloadAssumption == \A p \in Payloads : WellFormed(p)

\* { ...a, ...b }
Spread(a, b) ==
  [k \in DOMAIN a \cup DOMAIN b |-> IF k \in DOMAIN b THEN b[k] ELSE a[k]]

\* { [field]: value }
Single(field, value) == [f \in {field} |-> value]

-----------------------------------------------------------------------------
(* applyRule *)

Set(state, payload) == Spread(state, payload)

\* Mutant: the field is replaced by the payload.
MergeReplacing(state, field, payload) == Spread(state, Single(field, Object(payload)))

Merge(state, field, payload) ==
  LET base == IF field \in DOMAIN state /\ IsPlainObject(state[field])
              THEN state[field].fields ELSE EmptyState
  IN Spread(state, Single(field, Object(Spread(base, payload))))

AppendTo(state, field, payload) ==
  LET list == IF field \in DOMAIN state /\ IsArray(state[field])
              THEN state[field].items ELSE <<>>
  IN Spread(state, Single(field, List(Append(list, Object(payload)))))

\* A merge or append row without a field does nothing.
ApplyRule(state, rule, payload) ==
  CASE rule.operation = "set" -> Set(state, payload)
    [] rule.operation # "set" /\ rule.field = NoField -> state
    [] rule.operation = "merge" /\ rule.field # NoField ->
         Merge(state, rule.field, payload)
    [] rule.operation = "append" /\ rule.field # NoField ->
         AppendTo(state, rule.field, payload)

\* Events of a type without a rule are skipped.
Applied(state, rule, payload) ==
  IF rule = NoRule THEN state ELSE ApplyRule(state, rule, payload)

\* The states of the loop, from before the first event to after the last.
StatesOf(history, table, initialState) ==
  LET state[n \in 0..Len(history)] ==
        IF n = 0 THEN initialState
        ELSE Applied(state[n - 1], table[history[n].eventType], history[n].payload)
  IN state

Reduce(history, table, initialState) ==
  StatesOf(history, table, initialState)[Len(history)]

-----------------------------------------------------------------------------
(* The rows and the events *)

Init ==
  /\ rules = [t \in EventTypes |-> NoRule]
  /\ events = <<>>

\* Mutant: @ValidateIf the wrong way round, the field is only required for set.
ValidatedForSet(operation, field) == operation = "set" => field \in Fields

\* The dto: the field is required unless the operation is set.
Validated(operation, field) == operation # "set" => field \in Fields

\* Mutant: a row that is created keeps what is not there.
KeptOfNone(row) == IF row = NoRule THEN NoRule ELSE row.field

\* An omitted field is undefined, which Prisma takes as a null in create and
\* leaves alone in update; a null it writes.
KeptField(row) == IF row = NoRule THEN NoField ELSE row.field

Upsert(t, operation, field) ==
  /\ Validated(operation, field)
  /\ rules' = [rules EXCEPT ![t] =
                 [operation |-> operation,
                  field |-> IF field = Omitted THEN KeptField(@) ELSE field]]
  /\ UNCHANGED events

AppendEvent(e) ==
  /\ Len(events) < MaxEvents
  /\ events' = Append(events, e)
  /\ UNCHANGED rules

Next ==
  \/ \E t \in EventTypes, o \in Operations, f \in Fields \cup {NoField, Omitted} :
       Upsert(t, o, f)
  \/ \E e \in Event : AppendEvent(e)

Spec == Init /\ [][Next]_vars

-----------------------------------------------------------------------------
(* A reference for the fold, one field at a time and without a state *)

Payload(i) == events[i].payload
RuleOf(i) == rules[events[i].eventType]

\* The first n events' numbers that write field f, by what they do to it.
Sets(f, n) ==
  {i \in 1..n : /\ RuleOf(i) # NoRule
                /\ RuleOf(i).operation = "set"
                /\ f \in DOMAIN Payload(i)}
By(operation, f, n) ==
  {i \in 1..n : /\ RuleOf(i) # NoRule
                /\ RuleOf(i).operation = operation
                /\ RuleOf(i).field = f}
Writes(f, n) == Sets(f, n) \cup By("merge", f, n) \cup By("append", f, n)

LastOf(S) == IF S = {} THEN 0 ELSE Max(S)

\* A field that a run of merges or appends ends with was last written otherwise
\* at number start; only a set value of the right kind is built upon.
Start(f, operation, n) == LastOf(Writes(f, n) \ By(operation, f, n))
Run(f, operation, n) == {i \in By(operation, f, n) : i > Start(f, operation, n)}

\* What a run starts from.
SetItems(f, start, n) ==
  IF start \in Sets(f, n) /\ IsArray(Payload(start)[f])
  THEN Payload(start)[f].items ELSE <<>>
SetFields(f, start, n) ==
  IF start \in Sets(f, n) /\ IsPlainObject(Payload(start)[f])
  THEN Payload(start)[f].fields ELSE EmptyState

TheOne(S) == CHOOSE x \in S : TRUE

\* The base and, after it, the payloads of a run in their order.
Listed(base, run) ==
  LET At(m) == {i \in run : Len(base) + Cardinality({j \in run : j <= i}) = m}
  IN List([m \in 1..(Len(base) + Cardinality(run)) |->
             IF m <= Len(base) THEN base[m] ELSE Object(Payload(TheOne(At(m))))])

\* For every key the last payload of a run that has it, or else the base.
Merged(base, run) ==
  LET Latest(k) == LastOf({i \in run : k \in DOMAIN Payload(i)})
      keys == DOMAIN base \cup UNION {DOMAIN Payload(i) : i \in run}
  IN Object([k \in keys |-> IF Latest(k) = 0 THEN base[k]
                            ELSE Payload(Latest(k))[k]])

AppendedList(f, n) ==
  Listed(SetItems(f, Start(f, "append", n), n), Run(f, "append", n))
MergedObject(f, n) ==
  Merged(SetFields(f, Start(f, "merge", n), n), Run(f, "merge", n))

\* The value of field f, from the last event that writes it.
ValueOf(f, n) ==
  LET last == Max(Writes(f, n)) IN
  CASE last \in Sets(f, n) -> Payload(last)[f]
    [] last \in By("merge", f, n) -> MergedObject(f, n)
    [] last \in By("append", f, n) -> AppendedList(f, n)

Reference(n) == [f \in {g \in Fields : Writes(g, n) # {}} |-> ValueOf(f, n)]

-----------------------------------------------------------------------------
(* Properties *)

TypeOK ==
  /\ rules \in [EventTypes -> Rule \cup {NoRule}]
  /\ events \in Seq(Event)
  /\ Len(events) <= MaxEvents

\* getState's fold, resumed from a snapshot of the first n events.
Resumed(n) ==
  Reduce(SubSeq(events, n + 1, Len(events)), rules,
         Reduce(SubSeq(events, 1, n), rules, EmptyState))

\* getState folds the events after a snapshot from the snapshot's state.  At
\* whatever event the snapshot was taken, the answer gives every field the value
\* the operations promise (event-reducers/README.md, Operation vocabulary) in
\* terms of the events that wrote it: the last set value, the payloads appended
\* since the field last held something else, or for every key of a merged object
\* the last payload that has it.
FoldsToReference ==
  \A n \in 0..Len(events) : Resumed(n) = Reference(Len(events))

\* No declared rule silently does nothing (event-reducers/README.md, dto): in
\* any state the aggregate can have, whatever upserts led to the rules, one more
\* event of a type with a rule shows in the state with all its payload has.
Shows(state, rule, payload) ==
  CASE rule.operation = "set" ->
         \A k \in DOMAIN payload : state[k] = payload[k]
    [] rule.operation = "merge" ->
         /\ rule.field \in DOMAIN state
         /\ \A k \in DOMAIN payload : state[rule.field].fields[k] = payload[k]
    [] rule.operation = "append" ->
         /\ rule.field \in DOMAIN state
         /\ Last(state[rule.field].items) = Object(payload)

NoRuleIsSilent ==
  LET state == Reduce(events, rules, EmptyState) IN
  \A t \in EventTypes, p \in Payloads :
    rules[t] # NoRule => Shows(ApplyRule(state, rules[t], p), rules[t], p)

\* The invariant behind it: a row without a field is one for set, though upserts
\* may have changed operation and field in any order.
RulesHaveFields ==
  \A t \in EventTypes :
    rules[t] # NoRule /\ rules[t].operation # "set" => rules[t].field # NoField
=============================================================================
