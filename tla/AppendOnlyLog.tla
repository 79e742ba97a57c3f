---------------------------- MODULE AppendOnlyLog ----------------------------
(***************************************************************************)
(* What the event store promises its clients, without transactions, rows   *)
(* or locks: one log per aggregate key.  An append that is acknowledged    *)
(* takes effect at one instant between its submission and its answer, at   *)
(* the end of the log, and the answer carries that position.  An append    *)
(* that fails either left no trace or was stored without the caller        *)
(* learning so (a lost answer); nothing is ever stored twice.              *)
(***************************************************************************)
EXTENDS Naturals, Sequences

CONSTANTS Requests,   \* append requests, each made once
          Keys        \* natural keys of aggregates: project, type and key

VARIABLES target,     \* the key each request appends to
          log,        \* per key, the requests whose events are stored, in order
          status,     \* per request: "new", "open", "acknowledged" or "failed"
          position    \* per request: the sequence number answered, 0 before

vars == <<target, log, status, position>>

Init ==
  /\ target \in [Requests -> Keys]
  /\ log = [k \in Keys |-> <<>>]
  /\ status = [r \in Requests |-> "new"]
  /\ position = [r \in Requests |-> 0]

Submit(r) ==
  /\ status[r] = "new"
  /\ status' = [status EXCEPT ![r] = "open"]
  /\ UNCHANGED <<target, log, position>>

Store(r) == log' = [log EXCEPT ![target[r]] = Append(@, r)]

Accept(r) ==
  /\ status[r] = "open"
  /\ status' = [status EXCEPT ![r] = "acknowledged"]
  /\ Store(r)
  /\ position' = [position EXCEPT ![r] = Len(log[target[r]]) + 1]
  /\ UNCHANGED target

AcceptUnreported(r) ==
  /\ status[r] = "open"
  /\ status' = [status EXCEPT ![r] = "failed"]
  /\ Store(r)
  /\ UNCHANGED <<target, position>>

Reject(r) ==
  /\ status[r] = "open"
  /\ status' = [status EXCEPT ![r] = "failed"]
  /\ UNCHANGED <<target, log, position>>

Next == \E r \in Requests :
  Submit(r) \/ Accept(r) \/ AcceptUnreported(r) \/ Reject(r)

Spec == Init /\ [][Next]_vars
=============================================================================
