---------------------------- MODULE TenancyProofs ----------------------------
(***************************************************************************)
(* Proofs about Tenancy, for any set of requests, which is to say of       *)
(* tenants, keys and failures.  The argument: rows bear the id of the      *)
(* request that committed them (RowsCommitted) and are never deleted, so   *)
(* what a guard granted stays granted (RequestsKept) until the rows it     *)
(* allows are committed together (TransactionsWhole).                      *)
(***************************************************************************)
EXTENDS Tenancy, TLAPS

-----------------------------------------------------------------------------
(* Rows are only added *)

\* The tables, the keys clients hold and the keys that have ended only grow.
LEMMA TablesGrow ==
  ASSUME [Next]_vars
  PROVE  /\ organizations \subseteq organizations'
         /\ projects \subseteq projects'
         /\ keys \subseteq keys'
         /\ held \subseteq held'
         /\ ended \subseteq ended'
<1> USE DEF tables, clients
<1>1. ASSUME NEW r \in Requests, NEW a \in Arrivals, Arrive(r, a)
      PROVE  UNCHANGED <<tables, held, ended>>
  BY <1>1 DEF Arrive
<1>2. ASSUME NEW r \in Requests, Handle(r) \/ Fail(r)
      PROVE  /\ organizations \subseteq organizations'
             /\ projects \subseteq projects'
             /\ keys \subseteq keys'
             /\ held \subseteq held'
             /\ ended \subseteq ended'
  BY <1>2 DEF Handle, Fail, Verify, InsertBareOrganization, InsertOrganization,
     InsertProject, InsertKey, Commit, Reply, ReadProject, Serve,
     ReadOrganization, RefuseRead
<1>3. ASSUME NEW k \in Requests, EndKey(k)
      PROVE  ended \subseteq ended' /\ UNCHANGED <<tables, held>>
  BY <1>3 DEF EndKey
<1>4. ASSUME UNCHANGED vars
      PROVE  UNCHANGED <<tables, held, ended>>
  BY <1>4 DEF vars
<1> QED BY <1>1, <1>2, <1>3, <1>4 DEF Next

\* What a key gives access to it gives access to for ever.
LEMMA AccessGrows ==
  ASSUME projects \subseteq projects', keys \subseteq keys', NEW k
  PROVE  /\ OrganizationOf(k) \subseteq OrganizationOf(k)'
         /\ ProjectOf(k) \subseteq ProjectOf(k)'
BY DEF OrganizationOf, ProjectOf

\* So a guard that grants a request does not refuse it later.
LEMMA GrantsKept ==
  ASSUME projects \subseteq projects', keys \subseteq keys', NEW a, Grants(a)
  PROVE  Grants(a)'
<1>1. /\ OrganizationOf(a.key) \subseteq OrganizationOf(a.key)'
      /\ ProjectOf(a.key) \subseteq ProjectOf(a.key)'
  BY AccessGrows
<1> QED BY <1>1 DEF Grants

-----------------------------------------------------------------------------
(* Type correctness *)

\* Initially every variable has its type.
LEMMA TypeInit == Init => TypeOK
BY ConstantsAssumption
DEF Init, TypeOK, NoArrival, Arrival, Kinds, NoRows, Project, Key

\* The guards refuse a request, or let it in to the query its kind begins with.
LEMMA VerifyOutcome ==
  ASSUME IInv, NEW r \in Requests, Verify(r)
  PROVE  \/ pc' = [pc EXCEPT ![r] = "answered"]
         \/ /\ Verifies(request[r].key)
            /\ Grants(request[r])
            /\ \E label \in {"insertProject", "insertKey", "read", "find"} :
                 /\ pc' = [pc EXCEPT ![r] = label]
                 /\ request[r].kind \in KindsAt(label)
                 /\ label = "insertKey" => request[r].kind = "createKey"
                 /\ label = "insertProject" => request[r].kind = "createProject"
<1> DEFINE kind == request[r].kind
<1>1. kind \in {"createProject", "createKey", "readOrganization", "readProject"}
  BY DEF IInv, TypeOK, RequestsKept, RequestKept, Verify, Guarded,
     Arrival, Kinds
<1>2. CASE ~(Verifies(request[r].key) /\ Grants(request[r]))
  BY <1>2 DEF Verify, Goto
<1>3. CASE Verifies(request[r].key) /\ Grants(request[r])
  <2>1. CASE kind = "createProject"
    BY <1>3, <2>1 DEF Verify, Goto, KindsAt
  <2>2. CASE kind = "createKey"
    BY <1>3, <2>2 DEF Verify, Goto, KindsAt
  <2>3. CASE kind = "readOrganization"
    BY <1>3, <2>3 DEF Verify, Goto, KindsAt
  <2>4. CASE kind = "readProject"
    BY <1>3, <2>4 DEF Verify, Goto, KindsAt
  <2> QED BY <1>1, <2>1, <2>2, <2>3, <2>4
<1> QED BY <1>2, <1>3

\* Every step preserves the types.
LEMMA TypeStep ==
  ASSUME IInv, [Next]_vars
  PROVE  TypeOK'
<1>0. TypeOK /\ RequestsKept /\ RowsCommitted
  BY DEF IInv
<1> USE <1>0 DEF TypeOK, Goto, tables, clients
<1>1. ASSUME NEW r \in Requests, NEW a \in Arrivals, Arrive(r, a) PROVE TypeOK'
  BY <1>1 DEF Arrive, Arrivals
<1>2. ASSUME NEW r \in Requests, Verify(r) PROVE TypeOK'
  <2>1. UNCHANGED <<tables, clients, pending>>
    BY <1>2 DEF Verify
  <2>2. \E label \in {"answered", "insertProject", "insertKey", "read", "find"} :
          pc' = [pc EXCEPT ![r] = label]
    BY <1>2, VerifyOutcome
  <2> QED BY <2>1, <2>2
<1>3. ASSUME NEW r \in Requests, InsertBareOrganization(r) PROVE TypeOK'
  BY <1>3 DEF InsertBareOrganization
<1>4. ASSUME NEW r \in Requests, InsertOrganization(r) PROVE TypeOK'
  BY <1>4 DEF InsertOrganization
<1>5. ASSUME NEW r \in Requests, InsertProject(r) PROVE TypeOK'
  <2> DEFINE o == IF request[r].kind = "bootstrap" THEN r ELSE request[r].target
  <2>1. [id |-> r, organization |-> o] \in Project
    BY <1>5 DEF InsertProject, VisibleOrganizations, Project
  <2>2. pending' = [pending EXCEPT ![r].projects = {[id |-> r, organization |-> o]}]
    BY <1>5 DEF InsertProject
  <2> HIDE DEF o
  <2>3. pending' \in [Requests -> [organizations : SUBSET Requests,
                                   projects : SUBSET Project, keys : SUBSET Key]]
    BY <2>1, <2>2, SMTT(30)
  <2> QED BY <1>5, <2>3 DEF InsertProject
<1>6. ASSUME NEW r \in Requests, InsertKey(r) PROVE TypeOK'
  <2> DEFINE p == IF request[r].kind = "createKey" THEN request[r].target ELSE r
  <2>1. [id |-> r, project |-> p] \in Key
    BY <1>6 DEF InsertKey, VisibleProjects, Project, Key
  <2>2. pending' = [pending EXCEPT ![r].keys = {[id |-> r, project |-> p]}]
    BY <1>6 DEF InsertKey
  <2> HIDE DEF p
  <2>3. pending' \in [Requests -> [organizations : SUBSET Requests,
                                   projects : SUBSET Project, keys : SUBSET Key]]
    BY <2>1, <2>2
  <2> QED BY <1>6, <2>3 DEF InsertKey
<1>7. ASSUME NEW r \in Requests, Commit(r) PROVE TypeOK'
  BY <1>7 DEF Commit, NoRows
<1>8. ASSUME NEW r \in Requests, Reply(r) PROVE TypeOK'
  <2>1. held' \subseteq {k.id : k \in keys}
    <3>1. CASE request[r].kind = "bareOrganization"
      BY <1>8, <3>1 DEF Reply
    <3>2. CASE request[r].kind # "bareOrganization"
      <4>1. RowsAt(r, "commit").keys \subseteq keys
        BY <1>8, <3>2 DEF Reply, RowsCommitted
      <4>2. \E k \in keys : k.id = r
        BY <4>1 DEF RowsAt
      <4> QED BY <1>8, <4>2 DEF Reply
    <3> QED BY <3>1, <3>2
  <2> QED BY <1>8, <2>1 DEF Reply
<1>9. ASSUME NEW r \in Requests, ReadProject(r) \/ ReadOrganization(r) PROVE TypeOK'
  BY <1>9 DEF ReadProject, ReadOrganization, Serve
<1>10. ASSUME NEW r \in Requests, RefuseRead(r) PROVE TypeOK'
  BY <1>10 DEF RefuseRead
<1>11. ASSUME NEW r \in Requests, Fail(r) PROVE TypeOK'
  BY <1>11 DEF Fail, NoRows
<1>12. ASSUME NEW k \in Requests, EndKey(k) PROVE TypeOK'
  BY <1>12 DEF EndKey
<1>13. ASSUME UNCHANGED vars PROVE TypeOK'
  BY <1>13 DEF vars
<1> QED
  BY <1>1, <1>2, <1>3, <1>4, <1>5, <1>6, <1>7, <1>8, <1>9, <1>10, <1>11, <1>12,
     <1>13 DEF Next, Handle

-----------------------------------------------------------------------------
(* What is known of a request *)

\* A request that is not just arriving keeps what is known of it as long as it
\* only goes on to a query of its kind, or is answered.
LEMMA RequestGoesOn ==
  ASSUME IInv, [Next]_vars, NEW q \in Requests,
         request'[q] = request[q], endedBefore'[q] = endedBefore[q],
         \/ pc'[q] = pc[q]
         \/ pc[q] # "new" /\ pc'[q] = "answered"
         \/ /\ pc[q] \in LetIn /\ pc'[q] \in LetIn
            /\ request[q].kind \in KindsAt(pc'[q])
  PROVE  RequestKept(q)'
<1>1. RequestKept(q)
  BY DEF IInv, RequestsKept
<1>2. /\ held \subseteq held' /\ ended \subseteq ended'
      /\ projects \subseteq projects' /\ keys \subseteq keys'
  BY TablesGrow
<1>3. Grants(request[q]) => Grants(request[q])'
  <2> SUFFICES ASSUME Grants(request[q]) PROVE Grants(request[q])'
    OBVIOUS
  <2>1. \A a : Grants(a) => Grants(a)'
    BY <1>2, GrantsKept
  <2> QED BY <2>1 DEF Grants, OrganizationOf, ProjectOf
<1> QED BY <1>1, <1>2, <1>3 DEF RequestKept, LetIn

\* What is known of requests stays known: a request that arrives presents a key
\* its client holds, one that passes the guards is granted, one that goes on
\* comes to the next query of its kind.
LEMMA RequestsStep ==
  ASSUME IInv, [Next]_vars
  PROVE  RequestsKept'
<1>0. TypeOK /\ \A q \in Requests : RequestKept(q)
  BY DEF IInv, RequestsKept
<1> USE <1>0
<1>1. ASSUME NEW r \in Requests, NEW a \in Arrivals, Arrive(r, a),
             NEW q \in Requests
      PROVE  RequestKept(q)'
  <2>1. CASE q # r
    BY <1>1, <2>1, RequestGoesOn DEF Arrive, Goto, TypeOK
  <2>2. CASE q = r
    <3>1. /\ request'[r] = a /\ endedBefore'[r] = ended
          /\ pc'[r] = IF Guarded(a.kind) THEN "verify" ELSE "insertOrganization"
          /\ held' = held /\ ended' = ended
      BY <1>1 DEF Arrive, Goto, TypeOK
    <3>2. a.key \in held \cup {None} /\ a.kind \in Kinds
      BY <1>1 DEF Arrive, Arrivals, Arrival
    <3>3. ~Guarded(a.kind) => a.key = None /\ None \notin ended
      BY <1>1, ConstantsAssumption DEF Arrivals, TypeOK
    <3>4. ~Guarded(a.kind) => a.kind \in KindsAt("insertOrganization")
      BY DEF Guarded, KindsAt
    <3> QED BY <2>2, <3>1, <3>2, <3>3, <3>4 DEF RequestKept, LetIn
  <2> QED BY <2>1, <2>2
<1>2. ASSUME NEW r \in Requests, Verify(r), NEW q \in Requests
      PROVE  RequestKept(q)'
  <2>1. UNCHANGED <<tables, clients>>
    BY <1>2 DEF Verify
  <2>2. CASE q # r \/ pc'[r] = "answered"
    <3>1. pc[r] # "new" /\ \E label : pc' = [pc EXCEPT ![r] = label]
      BY <1>2 DEF Verify, Goto
    <3> QED BY <2>1, <2>2, <3>1, RequestGoesOn DEF TypeOK, clients
  <2>3. CASE q = r /\ pc'[r] # "answered"
    <3>1. PICK label \in {"insertProject", "insertKey", "read", "find"} :
            pc' = [pc EXCEPT ![r] = label] /\ request[r].kind \in KindsAt(label)
      BY <1>2, <2>3, VerifyOutcome DEF TypeOK
    <3>2. Verifies(request[r].key) /\ Grants(request[r])
      BY <1>2, <2>3, VerifyOutcome DEF TypeOK
    <3>3. pc'[r] = label
      BY <3>1 DEF TypeOK
    <3>4. Guarded(request[r].kind) /\ endedBefore[r] \subseteq ended
      BY <1>2 DEF Verify, RequestKept
    <3>5. request[r].key \in {k.id : k \in keys} /\ request[r].key \notin ended
      BY <3>2 DEF Verifies
    <3>6. Grants(request[r])'
      BY <2>1, <3>2 DEF Grants, OrganizationOf, ProjectOf, tables, clients
    <3>7. request[r] \in Arrivals /\ request[r].key \in held \cup {None}
      BY <1>2 DEF Verify, RequestKept
    <3> QED
      BY <2>1, <2>3, <3>1, <3>3, <3>4, <3>5, <3>6, <3>7
      DEF RequestKept, LetIn, tables, clients
  <2> QED BY <2>2, <2>3
<1>3. ASSUME NEW r \in Requests, NEW q \in Requests,
             \/ InsertBareOrganization(r) \/ InsertOrganization(r)
             \/ InsertProject(r) \/ InsertKey(r) \/ Commit(r)
      PROVE  RequestKept(q)'
  <2>1. request' = request /\ endedBefore' = endedBefore
    BY <1>3 DEF InsertBareOrganization, InsertOrganization, InsertProject,
       InsertKey, Commit, clients
  <2>2. PICK label \in LetIn : /\ pc' = [pc EXCEPT ![r] = label]
                               /\ request[r].kind \in KindsAt(label)
                               /\ pc[r] \in LetIn
    BY <1>3 DEF InsertBareOrganization, InsertOrganization, InsertProject,
       InsertKey, Commit, Goto, LetIn, KindsAt, RequestKept, Kinds
  <2> QED BY <2>1, <2>2, RequestGoesOn DEF TypeOK
<1>4. ASSUME NEW r \in Requests, NEW q \in Requests,
             \/ Reply(r) \/ ReadProject(r) \/ ReadOrganization(r)
             \/ RefuseRead(r) \/ Fail(r)
      PROVE  RequestKept(q)'
  <2>1. /\ request' = request /\ endedBefore' = endedBefore
        /\ pc[r] # "new"
        /\ pc' = [pc EXCEPT ![r] = "answered"]
    BY <1>4 DEF Reply, ReadProject, ReadOrganization, Serve, RefuseRead, Fail,
       Goto, clients
  <2> QED BY <2>1, RequestGoesOn DEF TypeOK
<1>5. ASSUME NEW q \in Requests, (\E k \in Requests : EndKey(k)) \/ UNCHANGED vars
      PROVE  RequestKept(q)'
  BY <1>5, RequestGoesOn DEF EndKey, vars
<1> QED
  BY <1>1, <1>2, <1>3, <1>4, <1>5 DEF Next, Handle, RequestsKept

-----------------------------------------------------------------------------
(* What transactions have inserted *)

\* A request's rows are those of its stage as long as only others proceed.
LEMMA PendingElsewhere ==
  ASSUME TransactionsWhole, NEW q \in Requests, pending'[q] = pending[q],
         request'[q] = request[q], pc'[q] = pc[q]
  PROVE  pending'[q] = RowsAt(q, pc[q])'
BY DEF TransactionsWhole, RowsAt, HomeOf

\* Every insert adds the row of its stage, a commit or a rollback leaves none.
LEMMA TransactionsStep ==
  ASSUME IInv, [Next]_vars
  PROVE  TransactionsWhole'
<1>0. /\ TypeOK /\ TransactionsWhole
      /\ \A q \in Requests : RequestKept(q)
  BY DEF IInv, RequestsKept
<1> USE <1>0
<1> DEFINE Whole(q) == (pending[q] = RowsAt(q, pc[q]))'
<1>1. ASSUME NEW r \in Requests, NEW a \in Arrivals, Arrive(r, a),
             NEW q \in Requests
      PROVE  Whole(q)
  <2>1. CASE q # r
    BY <1>1, <2>1 DEF Arrive, Goto, TypeOK, TransactionsWhole, RowsAt, HomeOf
  <2>2. CASE q = r
    BY <1>1, <2>2 DEF Arrive, Goto, TypeOK, TransactionsWhole, RowsAt, HomeOf
  <2> QED BY <2>1, <2>2
<1>2. ASSUME NEW r \in Requests, Verify(r), NEW q \in Requests
      PROVE  Whole(q)
  <2>1. UNCHANGED <<request, pending>>
    BY <1>2 DEF Verify, clients
  <2>2. PICK label \in {"answered", "insertProject", "insertKey", "read", "find"} :
          /\ pc' = [pc EXCEPT ![r] = label]
          /\ label = "insertProject" => request[r].kind = "createProject"
          /\ label = "insertKey" => request[r].kind = "createKey"
    BY <1>2, VerifyOutcome
  <2>3. pc[r] = "verify"
    BY <1>2 DEF Verify
  <2> QED BY <2>1, <2>2, <2>3 DEF TypeOK, TransactionsWhole, RowsAt, HomeOf
<1>3. ASSUME NEW r \in Requests, NEW q \in Requests,
             \/ InsertBareOrganization(r) \/ Reply(r) \/ ReadProject(r)
             \/ ReadOrganization(r) \/ RefuseRead(r)
      PROVE  Whole(q)
  <2>1. UNCHANGED <<request, pending>>
    BY <1>3 DEF InsertBareOrganization, Reply, ReadProject, ReadOrganization,
       RefuseRead, Serve, clients
  <2>2. \E label \in {"reply", "answered"} : pc' = [pc EXCEPT ![r] = label]
    BY <1>3 DEF InsertBareOrganization, Reply, ReadProject, ReadOrganization,
       RefuseRead, Serve, Goto
  <2>3. pc[r] \in {"insertOrganization", "reply", "find", "read"}
    BY <1>3 DEF InsertBareOrganization, Reply, ReadProject, ReadOrganization,
       RefuseRead
  <2> QED BY <2>1, <2>2, <2>3 DEF TypeOK, TransactionsWhole, RowsAt, HomeOf
<1>4. ASSUME NEW r \in Requests, NEW q \in Requests,
             Commit(r) \/ Fail(r)
      PROVE  Whole(q)
  <2>1. /\ request' = request
        /\ pending' = [pending EXCEPT ![r] = NoRows]
        /\ \E label \in {"reply", "answered"} : pc' = [pc EXCEPT ![r] = label]
    BY <1>4 DEF Commit, Fail, Goto, clients
  <2>2. CASE q # r
    BY <2>1, <2>2, PendingElsewhere DEF TypeOK
  <2>3. CASE q = r
    BY <2>1, <2>3 DEF TypeOK, NoRows, RowsAt
  <2> QED BY <2>2, <2>3
<1>5. ASSUME NEW r \in Requests, NEW q \in Requests, InsertOrganization(r)
      PROVE  Whole(q)
  <2>1. CASE q # r
    BY <1>5, <2>1, PendingElsewhere DEF InsertOrganization, Goto, clients, TypeOK
  <2>2. CASE q = r
    <3>1. pending[r] = [organizations |-> {}, projects |-> {}, keys |-> {}]
      BY <1>5 DEF InsertOrganization, TransactionsWhole, RowsAt
    <3>2. pending'[r] = [organizations |-> {r}, projects |-> {}, keys |-> {}]
      <4>1. pending'[r] = [pending[r] EXCEPT !.organizations = {r}]
        BY <1>5 DEF InsertOrganization, TypeOK
      <4> QED BY <3>1, <4>1
    <3>3. /\ request' = request /\ request[r].kind = "bootstrap"
          /\ pc'[r] = "insertProject"
      BY <1>5 DEF InsertOrganization, Goto, clients, TypeOK
    <3> QED BY <2>2, <3>2, <3>3 DEF RowsAt
  <2> QED BY <2>1, <2>2
<1>6. ASSUME NEW r \in Requests, NEW q \in Requests, InsertProject(r)
      PROVE  Whole(q)
  <2>1. CASE q # r
    BY <1>6, <2>1, PendingElsewhere DEF InsertProject, Goto, clients, TypeOK
  <2>2. CASE q = r
    <3> DEFINE o == IF request[r].kind = "bootstrap" THEN {r} ELSE {}
               p == [id |-> r, organization |-> HomeOf(r)]
    <3>1. pending[r] = [organizations |-> o, projects |-> {}, keys |-> {}]
      BY <1>6 DEF InsertProject, TransactionsWhole, RowsAt
    <3>2. pending'[r] = [pending[r] EXCEPT !.projects = {p}]
      BY <1>6 DEF InsertProject, HomeOf, TypeOK
    <3>3. /\ request' = request /\ pc'[r] = "insertKey"
          /\ request[r].kind # "createKey"
      BY <1>6 DEF InsertProject, Goto, clients, TypeOK, RequestKept, LetIn, KindsAt
    <3>4. RowsAt(r, pc[r])' = [organizations |-> o, projects |-> {p}, keys |-> {}]
      BY <3>3 DEF RowsAt, HomeOf
    <3> HIDE DEF o, p
    <3>5. pending'[r] = [organizations |-> o, projects |-> {p}, keys |-> {}]
      BY <3>1, <3>2
    <3> QED BY <2>2, <3>4, <3>5
  <2> QED BY <2>1, <2>2
<1>7. ASSUME NEW r \in Requests, NEW q \in Requests, InsertKey(r)
      PROVE  Whole(q)
  <2>1. CASE q # r
    BY <1>7, <2>1, PendingElsewhere DEF InsertKey, Goto, clients, TypeOK
  <2>2. CASE q = r
    <3> DEFINE o == RowsAt(r, "insertKey").organizations
               p == RowsAt(r, "insertKey").projects
               k == [id |-> r, project |-> IF request[r].kind = "createKey"
                                           THEN request[r].target ELSE r]
    <3>1. pending[r] = [organizations |-> o, projects |-> p, keys |-> {}]
      BY <1>7 DEF InsertKey, TransactionsWhole, RowsAt
    <3>2. pending'[r] = [pending[r] EXCEPT !.keys = {k}]
      BY <1>7 DEF InsertKey, TypeOK
    <3>3. request' = request /\ pc'[r] = "commit"
      BY <1>7 DEF InsertKey, Goto, clients, TypeOK
    <3>4. RowsAt(r, pc[r])' = [organizations |-> o, projects |-> p, keys |-> {k}]
      BY <3>3 DEF RowsAt, HomeOf
    <3> HIDE DEF o, p, k
    <3>5. pending'[r] = [organizations |-> o, projects |-> p, keys |-> {k}]
      BY <3>1, <3>2
    <3> QED BY <2>2, <3>4, <3>5
  <2> QED BY <2>1, <2>2
<1>8. ASSUME NEW q \in Requests, (\E k \in Requests : EndKey(k)) \/ UNCHANGED vars
      PROVE  Whole(q)
  BY <1>8, PendingElsewhere DEF EndKey, vars
<1> QED
  BY <1>1, <1>2, <1>3, <1>4, <1>5, <1>6, <1>7, <1>8
  DEF Next, Handle, TransactionsWhole

-----------------------------------------------------------------------------
(* The rows of the tables *)

\* Only a commit and the insert that commits by itself change the tables or
\* bring a request to its answer.
LEMMA TablesChange ==
  ASSUME IInv, [Next]_vars
  PROVE  \/ \E r \in Requests : Commit(r) \/ InsertBareOrganization(r)
         \/ /\ UNCHANGED tables
            /\ \A q \in Requests : pc'[q] = "reply" => pc[q] = "reply"
<1> DEFINE Same == /\ UNCHANGED tables
                   /\ \A q \in Requests : pc'[q] = "reply" => pc[q] = "reply"
<1>0. TypeOK
  BY DEF IInv
<1> USE <1>0
<1>1. ASSUME NEW r \in Requests, NEW a \in Arrivals, Arrive(r, a) PROVE Same
  BY <1>1 DEF Arrive, Goto, tables, TypeOK
<1>2. ASSUME NEW r \in Requests, Verify(r) PROVE Same
  <2>1. UNCHANGED tables
    BY <1>2 DEF Verify
  <2>2. \E label \in {"answered", "insertProject", "insertKey", "read", "find"} :
          pc' = [pc EXCEPT ![r] = label]
    BY <1>2, VerifyOutcome
  <2> QED BY <2>1, <2>2 DEF TypeOK
<1>3. ASSUME NEW r \in Requests,
             \/ InsertOrganization(r) \/ InsertProject(r) \/ InsertKey(r)
             \/ Reply(r) \/ ReadProject(r) \/ ReadOrganization(r)
             \/ RefuseRead(r) \/ Fail(r)
      PROVE  Same
  <2>1. UNCHANGED tables
    BY <1>3 DEF InsertOrganization, InsertProject, InsertKey, Reply, ReadProject,
       ReadOrganization, Serve, RefuseRead, Fail
  <2>2. \E label \in {"insertProject", "insertKey", "commit", "answered"} :
          pc' = [pc EXCEPT ![r] = label]
    BY <1>3 DEF InsertOrganization, InsertProject, InsertKey, Reply, ReadProject,
       ReadOrganization, Serve, RefuseRead, Fail, Goto
  <2> QED BY <2>1, <2>2 DEF TypeOK
<1>4. ASSUME (\E k \in Requests : EndKey(k)) \/ UNCHANGED vars PROVE Same
  BY <1>4 DEF EndKey, vars, tables
<1> QED BY <1>1, <1>2, <1>3, <1>4 DEF Next, Handle

\* A commit adds the rows of its request, all of them.
LEMMA CommitAdds ==
  ASSUME IInv, NEW r \in Requests, Commit(r)
  PROVE  /\ organizations' = organizations \cup RowsAt(r, "commit").organizations
         /\ projects' = projects \cup RowsAt(r, "commit").projects
         /\ keys' = keys \cup RowsAt(r, "commit").keys
         /\ request' = request
         /\ pc' = [pc EXCEPT ![r] = "reply"]
BY DEF Commit, IInv, TransactionsWhole, clients, Goto

\* A request that has committed changes no more, but for its answer.
LEMMA CommittedStays ==
  ASSUME TypeOK, [Next]_vars, NEW q \in Requests, pc[q] \in {"reply", "answered"}
  PROVE  /\ pc'[q] \in {"reply", "answered"}
         /\ request'[q] = request[q]
         /\ endedBefore'[q] = endedBefore[q]
<1> USE DEF TypeOK, Goto, clients
<1>1. ASSUME NEW r \in Requests, NEW a \in Arrivals, Arrive(r, a)
      PROVE  pc'[q] = pc[q] /\ request'[q] = request[q]
             /\ endedBefore'[q] = endedBefore[q]
  BY <1>1 DEF Arrive
<1>2. ASSUME NEW r \in Requests, Handle(r) \/ Fail(r)
      PROVE  request' = request /\ endedBefore' = endedBefore
  BY <1>2 DEF Handle, Fail, Verify, InsertBareOrganization, InsertOrganization,
     InsertProject, InsertKey, Commit, Reply, ReadProject, ReadOrganization,
     Serve, RefuseRead
<1>3. ASSUME NEW r \in Requests, Reply(r) \/ Fail(r)
      PROVE  pc'[q] \in {"reply", "answered"}
  BY <1>3 DEF Reply, Fail
<1>4. ASSUME NEW r \in Requests, Handle(r), ~Reply(r)
      PROVE  pc'[q] = pc[q]
  <2>1. r # q
    BY <1>4 DEF Handle, Verify, InsertBareOrganization, InsertOrganization,
       InsertProject, InsertKey, Commit, ReadProject, ReadOrganization, RefuseRead
  <2>2. \E label : pc' = [pc EXCEPT ![r] = label]
    BY <1>4 DEF Handle, Verify, InsertBareOrganization, InsertOrganization,
       InsertProject, InsertKey, Commit, ReadProject, ReadOrganization, Serve,
       RefuseRead
  <2> QED BY <2>1, <2>2
<1>5. ASSUME (\E k \in Requests : EndKey(k)) \/ UNCHANGED vars
      PROVE  UNCHANGED <<pc, request, endedBefore>>
  BY <1>5 DEF EndKey, vars
<1> QED BY <1>1, <1>2, <1>3, <1>4, <1>5 DEF Next

\* No rows of a request but those it has committed.
LEMMA RowsStep ==
  ASSUME IInv, [Next]_vars
  PROVE  RowsCommitted'
<1>0. TypeOK /\ RowsCommitted
  BY DEF IInv
<1>1. ASSUME NEW q \in Requests, Inserted(q)'
      PROVE  pc'[q] \in {"reply", "answered"}
  <2>1. CASE Inserted(q)
    BY <1>0, <2>1, CommittedStays DEF RowsCommitted
  <2>2. CASE ~Inserted(q)
    <3>1. PICK r \in Requests : Commit(r) \/ InsertBareOrganization(r)
      BY <1>1, <2>2, TablesChange DEF Inserted, tables
    <3>2. q = r
      <4>1. CASE Commit(r)
        BY <1>1, <2>2, <4>1, CommitAdds DEF Inserted, RowsAt
      <4>2. CASE InsertBareOrganization(r)
        BY <1>1, <2>2, <4>2 DEF Inserted, InsertBareOrganization
      <4> QED BY <3>1, <4>1, <4>2
    <3>3. pc' = [pc EXCEPT ![r] = "reply"]
      BY <3>1 DEF Commit, InsertBareOrganization, Goto
    <3> QED BY <1>0, <3>2, <3>3 DEF TypeOK
  <2> QED BY <2>1, <2>2
<1>2. ASSUME NEW q \in Requests, pc'[q] = "reply"
      PROVE  (IF request[q].kind = "bareOrganization" THEN q \in organizations
              ELSE /\ RowsAt(q, "commit").organizations \subseteq organizations
                   /\ RowsAt(q, "commit").projects \subseteq projects
                   /\ RowsAt(q, "commit").keys \subseteq keys)'
  <2>1. CASE pc[q] = "reply"
    <3>1. request'[q] = request[q]
      BY <1>0, <2>1, CommittedStays
    <3>2. RowsAt(q, "commit")' = RowsAt(q, "commit")
      BY <3>1 DEF RowsAt, HomeOf
    <3> QED BY <1>0, <2>1, <3>1, <3>2, TablesGrow DEF RowsCommitted
  <2>2. CASE pc[q] # "reply"
    <3>1. PICK r \in Requests : Commit(r) \/ InsertBareOrganization(r)
      BY <1>0, <1>2, <2>2, TablesChange
    <3>2. pc' = [pc EXCEPT ![r] = "reply"] /\ request' = request
      BY <3>1 DEF Commit, InsertBareOrganization, Goto, clients
    <3>3. q = r
      BY <1>0, <1>2, <2>2, <3>2 DEF TypeOK
    <3>4. CASE Commit(r)
      <4>1. request[r].kind # "bareOrganization"
        BY <3>4 DEF IInv, RequestsKept, RequestKept, Commit, LetIn, KindsAt
      <4>2. RowsAt(r, "commit")' = RowsAt(r, "commit")
        BY <3>2 DEF RowsAt, HomeOf
      <4> QED BY <3>2, <3>3, <3>4, <4>1, <4>2, CommitAdds
    <3>5. CASE InsertBareOrganization(r)
      BY <3>2, <3>3, <3>5 DEF InsertBareOrganization
    <3> QED BY <3>1, <3>4, <3>5
  <2> QED BY <2>1, <2>2
<1> QED BY <1>1, <1>2 DEF RowsCommitted

\* Only complete tenants come into the tables: a commit brings a project with its
\* organization or into one that is there, and a key with its project or into one
\* that was granted.
LEMMA WholeStep ==
  ASSUME IInv, [Next]_vars
  PROVE  WholeTenants'
<1>0. TypeOK /\ RowsCommitted /\ WholeTenants /\ \A q \in Requests : RequestKept(q)
  BY DEF IInv, RequestsKept
<1> USE <1>0
<1>1. \A o \in organizations : pc[o] \in {"reply", "answered"}
  BY DEF RowsCommitted, Inserted, TypeOK
<1>2. CASE UNCHANGED tables
  <2>1. \A o \in organizations : request'[o] = request[o]
    BY <1>1, CommittedStays DEF TypeOK
  <2> QED BY <1>2, <2>1 DEF WholeTenants, tables
<1>3. ASSUME NEW r \in Requests, InsertBareOrganization(r) PROVE WholeTenants'
  BY <1>3 DEF InsertBareOrganization, WholeTenants, clients
<1>4. ASSUME NEW r \in Requests, Commit(r) PROVE WholeTenants'
  <2> DEFINE kind == request[r].kind
             rows == RowsAt(r, "commit")
  <2>1. /\ organizations' = organizations \cup rows.organizations
        /\ projects' = projects \cup rows.projects
        /\ keys' = keys \cup rows.keys
        /\ request' = request
    BY <1>4, CommitAdds
  <2>2. kind \in {"bootstrap", "createProject", "createKey"}
    BY <1>4 DEF Commit, RequestKept, LetIn, KindsAt
  <2>3. Guarded(kind) => Grants(request[r])
    BY <1>4 DEF Commit, RequestKept, LetIn
  <2>4. CASE kind \in {"bootstrap", "createProject"}
    <3> DEFINE p == [id |-> r, organization |-> HomeOf(r)]
               k == [id |-> r, project |-> r]
    <3>1. /\ rows.organizations = IF kind = "bootstrap" THEN {r} ELSE {}
          /\ rows.projects = {p}
          /\ rows.keys = {k}
      BY <2>4 DEF RowsAt
    <3>2. p.organization \in organizations'
      <4>1. CASE kind = "bootstrap"
        BY <2>1, <3>1, <4>1 DEF HomeOf
      <4>2. CASE kind = "createProject"
        <5>1. request[r].target \in OrganizationOf(request[r].key)
          BY <2>3, <4>2 DEF Guarded, Grants
        <5>2. request[r].target \in organizations
          BY <5>1 DEF OrganizationOf, WholeTenants
        <5> QED BY <2>1, <4>2, <5>2 DEF HomeOf
      <4> QED BY <2>4, <4>1, <4>2
    <3>3. /\ p.id = r /\ k.project = r
          /\ kind = "bootstrap" => p = [id |-> r, organization |-> r]
      BY DEF HomeOf
    <3> HIDE DEF rows, p, k
    <3>4. \A o \in organizations' : request'[o].kind = "bootstrap" =>
            [id |-> o, organization |-> o] \in projects'
      BY <2>1, <3>1, <3>3 DEF WholeTenants
    <3>5. \A q \in projects' : q.organization \in organizations'
                              /\ \E x \in keys' : x.project = q.id
      BY <2>1, <3>1, <3>2, <3>3 DEF WholeTenants
    <3>6. \A x \in keys' : \E q \in projects' : x.project = q.id
      BY <2>1, <3>1, <3>3 DEF WholeTenants
    <3> QED BY <3>4, <3>5, <3>6 DEF WholeTenants
  <2>5. CASE kind = "createKey"
    <3>1. /\ rows.organizations = {}
          /\ rows.projects = {}
          /\ rows.keys = {[id |-> r, project |-> request[r].target]}
      BY <2>5 DEF RowsAt
    <3>2. \E p \in projects : p.id = request[r].target
      <4>1. request[r].target \in ProjectOf(request[r].key)
        BY <2>3, <2>5 DEF Guarded, Grants
      <4> QED BY <4>1 DEF ProjectOf, WholeTenants
    <3> HIDE DEF rows
    <3> QED BY <2>1, <3>1, <3>2 DEF WholeTenants
  <2> QED BY <2>2, <2>4, <2>5
<1> QED BY <1>2, <1>3, <1>4, TablesChange

\* Ids are unique: only a commit brings rows of projects and keys, one of each at
\* most, under the id of a request that has none yet.
LEMMA UniqueStep ==
  ASSUME IInv, [Next]_vars
  PROVE  RowsUnique'
<1>0. RowsCommitted /\ RowsUnique
  BY DEF IInv
<1>1. CASE UNCHANGED <<projects, keys>>
  BY <1>0, <1>1 DEF RowsUnique
<1>2. ASSUME NEW r \in Requests, Commit(r) PROVE RowsUnique'
  <2>1. ~Inserted(r)
    BY <1>0, <1>2 DEF RowsCommitted, Commit
  <2>2. /\ \A p \in projects : p.id # r
        /\ \A k \in keys : k.id # r
    BY <2>1 DEF Inserted
  <2>3. /\ \A p \in projects' : p \in projects \/ p = [id |-> r, organization |-> HomeOf(r)]
        /\ \A k \in keys' :
             \/ k \in keys
             \/ k = [id |-> r, project |-> IF request[r].kind = "createKey"
                                           THEN request[r].target ELSE r]
    BY <1>2, CommitAdds DEF RowsAt
  <2> DEFINE x == [id |-> r, organization |-> HomeOf(r)]
             y == [id |-> r, project |-> IF request[r].kind = "createKey"
                                         THEN request[r].target ELSE r]
  <2>4. x.id = r /\ y.id = r
    OBVIOUS
  <2> HIDE DEF x, y
  <2> QED BY <1>0, <2>2, <2>3, <2>4 DEF RowsUnique, x, y
<1> QED BY <1>1, <1>2, TablesChange DEF tables, InsertBareOrganization

\* A key is of one project, and so of one organization.
LEMMA OneTenant ==
  ASSUME RowsUnique, WholeTenants, NEW k \in keys, NEW p \in projects,
         k.project = p.id
  PROVE  OrganizationOf(k.id) = {p.organization} /\ ProjectOf(k.id) = {p.id}
BY DEF RowsUnique, WholeTenants, OrganizationOf, ProjectOf

\* A key that a commit brings opens what the key opens that its request came with:
\* the guard has let it into the organization, or the project, of that key.
LEMMA MadeKeyStays ==
  ASSUME IInv, [Next]_vars, NEW r \in Requests, Commit(r),
         Guarded(request[r].kind)
  PROVE  OrganizationOf(r)' = OrganizationOf(request[r].key)
<1> DEFINE c == request[r].key
           kind == request[r].kind
<1>0. /\ RowsCommitted /\ RowsUnique /\ WholeTenants /\ RequestKept(r)
  BY DEF IInv, RequestsKept
<1>1. RowsUnique' /\ WholeTenants'
  BY UniqueStep, WholeStep
<1>2. /\ kind \in {"createProject", "createKey"}
      /\ c \in {k.id : k \in keys}
      /\ Grants(request[r])
  BY <1>0 DEF RequestKept, LetIn, KindsAt, Commit, Guarded
<1>3. PICK k \in keys : k.id = c
  BY <1>2
<1>4. PICK p \in projects : k.project = p.id
  BY <1>0 DEF WholeTenants
<1>5. OrganizationOf(c) = {p.organization} /\ ProjectOf(c) = {p.id}
  BY <1>0, <1>3, <1>4, OneTenant
<1>6. /\ RowsAt(r, "commit").keys \subseteq keys'
      /\ RowsAt(r, "commit").projects \subseteq projects'
      /\ projects \subseteq projects'
  BY CommitAdds, TablesGrow
<1>7. CASE kind = "createProject"
  <2> DEFINE x == [id |-> r, organization |-> request[r].target]
             y == [id |-> r, project |-> r]
  <2>1. x \in projects' /\ y \in keys'
    BY <1>6, <1>7 DEF RowsAt, HomeOf
  <2>2. request[r].target = p.organization
    BY <1>2, <1>5, <1>7 DEF Grants
  <2>3. OrganizationOf(y.id)' = {x.organization}
    BY <1>1, <2>1 DEF RowsUnique, OrganizationOf
  <2> QED BY <1>5, <2>2, <2>3
<1>8. CASE kind = "createKey"
  <2> DEFINE y == [id |-> r, project |-> request[r].target]
  <2>1. y \in keys' /\ p \in projects'
    BY <1>6, <1>8 DEF RowsAt
  <2>2. request[r].target = p.id
    BY <1>2, <1>5, <1>8 DEF Grants
  <2>3. OrganizationOf(y.id)' = {p.organization}
    BY <1>1, <2>1, <2>2 DEF RowsUnique, OrganizationOf
  <2> QED BY <1>5, <2>3
<1> QED BY <1>2, <1>7, <1>8

\* What an existing key gives access to never changes: its project has its row
\* already, and no second row comes to bear the id of either.
LEMMA AccessFixed ==
  ASSUME IInv, [Next]_vars, NEW k, k \in {x.id : x \in keys}
  PROVE  OrganizationOf(k)' = OrganizationOf(k)
<1>0. TypeOK /\ RowsCommitted /\ WholeTenants
  BY DEF IInv
<1>1. ASSUME NEW r \in Requests, Inserted(r) PROVE ~Commit(r)
  BY <1>0, <1>1 DEF RowsCommitted, Commit
<1>2. ASSUME NEW x \in keys', x.id = k PROVE x \in keys
  <2> SUFFICES ASSUME x \notin keys PROVE FALSE
    OBVIOUS
  <2>1. PICK r \in Requests : Commit(r)
    BY TablesChange DEF tables, InsertBareOrganization
  <2>2. x \in RowsAt(r, "commit").keys
    BY <2>1, CommitAdds
  <2>3. x.id = r
    BY <2>2 DEF RowsAt
  <2> QED BY <1>1, <1>2, <2>1, <2>3 DEF Inserted
<1>3. ASSUME NEW x \in keys, NEW p \in projects', x.project = p.id
      PROVE  p \in projects
  <2> SUFFICES ASSUME p \notin projects PROVE FALSE
    OBVIOUS
  <2>1. PICK r \in Requests : Commit(r)
    BY TablesChange DEF tables, InsertBareOrganization
  <2>2. p \in RowsAt(r, "commit").projects
    BY <2>1, CommitAdds
  <2>3. p.id = r
    BY <2>2 DEF RowsAt
  <2>4. \E q \in projects : q.id = r
    BY <1>0, <1>3, <2>3 DEF WholeTenants
  <2> QED BY <1>1, <2>1, <2>4 DEF Inserted
<1>4. projects \subseteq projects' /\ keys \subseteq keys'
  BY TablesGrow
<1> QED BY <1>2, <1>3, <1>4 DEF OrganizationOf

\* Keys stay in the tenant of the key they were made with, and what is shown is
\* of the tenant of the key it is shown for.
LEMMA OwnStep ==
  ASSUME IInv, [Next]_vars
  PROVE  KeysStayInTenant'
<1>0. /\ TypeOK /\ RowsCommitted /\ KeysStayInTenant /\ WholeTenants
      /\ \A q \in Requests : RequestKept(q)
  BY DEF IInv, RequestsKept
<1> USE <1>0
<1>1. ASSUME NEW k \in keys', Guarded(request'[k.id].kind)
      PROVE  OrganizationOf(k.id)' = OrganizationOf(request[k.id].key)'
  <2>1. CASE k \in keys
    <3>1. k.id \in Requests /\ Inserted(k.id)
      BY <2>1 DEF Inserted, TypeOK, Key
    <3>2. request'[k.id] = request[k.id]
      BY <3>1, CommittedStays DEF RowsCommitted
    <3>3. request[k.id].key \in {x.id : x \in keys}
      <4>1. OrganizationOf(k.id) = OrganizationOf(request[k.id].key)
        BY <1>1, <2>1, <3>2 DEF KeysStayInTenant
      <4>2. \E p \in projects : p.organization \in OrganizationOf(k.id)
        BY <2>1 DEF WholeTenants, OrganizationOf
      <4> QED BY <4>1, <4>2 DEF OrganizationOf
    <3>4. OrganizationOf(request[k.id].key)' = OrganizationOf(request[k.id].key)
      <4> DEFINE c == request[k.id].key
      <4>1. \A z \in {x.id : x \in keys} : OrganizationOf(z)' = OrganizationOf(z)
        BY AccessFixed
      <4> QED BY <3>2, <3>3, <4>1 DEF OrganizationOf
    <3>5. OrganizationOf(k.id)' = OrganizationOf(k.id)
      BY <2>1, AccessFixed
    <3> QED BY <1>1, <2>1, <3>2, <3>4, <3>5 DEF KeysStayInTenant
  <2>2. CASE k \notin keys
    <3>1. PICK r \in Requests : Commit(r)
      BY <2>2, TablesChange DEF tables, InsertBareOrganization
    <3>2. k \in RowsAt(r, "commit").keys /\ request' = request
      BY <2>2, <3>1, CommitAdds
    <3>3. k.id = r
      BY <3>2 DEF RowsAt
    <3>4. OrganizationOf(r)' = OrganizationOf(request[r].key)
      BY <1>1, <3>1, <3>2, <3>3, MadeKeyStays
    <3>5. request[r].key \in {x.id : x \in keys}
      BY <1>1, <3>1, <3>2, <3>3 DEF Commit, RequestKept, LetIn
    <3>6. \A z \in {x.id : x \in keys} : OrganizationOf(z)' = OrganizationOf(z)
      BY AccessFixed
    <3>7. OrganizationOf(request[r].key)' = OrganizationOf(request[r].key)
      BY <3>2, <3>5, <3>6 DEF OrganizationOf
    <3>8. OrganizationOf(r)' = OrganizationOf(request[r].key)'
      BY <3>4, <3>7
    <3> QED BY <3>3, <3>8
  <2> QED BY <2>1, <2>2
<1>2. \A k : /\ OrganizationOf(k) \subseteq OrganizationOf(k)'
            /\ ProjectOf(k) \subseteq ProjectOf(k)'
  BY TablesGrow, AccessGrows
<1>3. ASSUME NEW u \in served'
      PROVE  IF u.kind = "readOrganization"
             THEN u.target \in OrganizationOf(u.key)'
             ELSE u.target \in ProjectOf(u.key)'
  <2>1. CASE u \in served
    BY <1>2, <2>1 DEF KeysStayInTenant
  <2>2. CASE u \notin served
    <3>1. PICK r \in Requests : ReadProject(r) \/ ReadOrganization(r)
      BY <2>2 DEF Next, Handle, Arrive, Verify, InsertBareOrganization,
         InsertOrganization, InsertProject, InsertKey, Commit, Reply, RefuseRead,
         Fail, EndKey, vars, clients
    <3>2. u = request[r]
      BY <2>2, <3>1 DEF ReadProject, ReadOrganization, Serve
    <3>3. CASE ReadProject(r)
      <4>1. u.kind = "readProject" /\ Grants(u)
        BY <3>2, <3>3 DEF ReadProject, RequestKept, LetIn, KindsAt, Guarded
      <4>2. u.target \in ProjectOf(u.key)
        BY <4>1 DEF Grants
      <4> QED BY <1>2, <4>1, <4>2
    <3>4. CASE ReadOrganization(r)
      <4>1. u.kind = "readOrganization"
        BY <3>2, <3>4 DEF ReadOrganization, RequestKept, LetIn, KindsAt
      <4>2. u.target \in OrganizationOf(u.key)
        BY <3>2, <3>4 DEF ReadOrganization
      <4> QED BY <1>2, <4>1, <4>2
    <3> QED BY <3>1, <3>3, <3>4
  <2> QED BY <2>1, <2>2
<1> QED BY <1>1, <1>3 DEF KeysStayInTenant, OrganizationOf, ProjectOf

\* A request that came with an ended key is never let in, and so commits nothing.
LEMMA EndedStep ==
  ASSUME IInv, [Next]_vars
  PROVE  EndedHasNoEffect'
<1>0. /\ TypeOK /\ RowsCommitted /\ EndedHasNoEffect
      /\ \A q \in Requests : RequestKept(q)
  BY DEF IInv, RequestsKept
<1> USE <1>0
<1>1. RowsCommitted' /\ RequestsKept' /\ TypeOK'
  BY RowsStep, RequestsStep, TypeStep
<1> SUFFICES ASSUME NEW q \in Requests, request'[q].key \in endedBefore'[q]
             PROVE  pc'[q] \in {"verify", "answered"} /\ \A k \in keys' : k.id # q
  BY DEF EndedHasNoEffect
<1>2. pc'[q] \in {"verify", "answered"}
  <2>1. pc'[q] # "new"
    BY <1>1, ConstantsAssumption DEF RequestsKept, RequestKept, NoArrival, TypeOK
  <2>2. pc'[q] \notin LetIn
    BY <1>1 DEF RequestsKept, RequestKept
  <2> QED BY <1>1, <2>1, <2>2 DEF LetIn, TypeOK
<1>3. ASSUME NEW k \in keys', k.id = q PROVE FALSE
  <2>1. CASE k \in keys
    <3>1. pc[q] \in {"reply", "answered"}
      BY <1>3, <2>1 DEF RowsCommitted, Inserted
    <3>2. request'[q] = request[q] /\ endedBefore'[q] = endedBefore[q]
      BY <3>1, CommittedStays
    <3> QED BY <1>3, <2>1, <3>2 DEF EndedHasNoEffect
  <2>2. CASE k \notin keys
    <3>1. PICK r \in Requests : Commit(r)
      BY <2>2, TablesChange DEF tables, InsertBareOrganization
    <3>2. k \in RowsAt(r, "commit").keys
      BY <2>2, <3>1, CommitAdds
    <3>3. q = r /\ UNCHANGED <<request, endedBefore>> /\ pc[r] = "commit"
      BY <1>3, <3>1, <3>2 DEF RowsAt, Commit, clients
    <3> QED BY <3>3 DEF RequestKept, LetIn
  <2> QED BY <2>1, <2>2
<1> QED BY <1>2, <1>3

-----------------------------------------------------------------------------
(* The inductive invariant *)

\* Initially nothing has arrived and nothing is stored.
LEMMA InvariantInit == Init => IInv
<1> SUFFICES ASSUME Init PROVE IInv
  OBVIOUS
<1> USE DEF Init
<1>1. TypeOK
  BY TypeInit
<1>2. RequestsKept
  BY DEF RequestsKept, RequestKept, NoArrival, LetIn
<1>3. TransactionsWhole
  BY DEF TransactionsWhole, RowsAt, NoRows, NoArrival
<1>4. RowsCommitted /\ RowsUnique /\ WholeTenants /\ KeysStayInTenant
  BY DEF RowsCommitted, RowsUnique, Inserted, WholeTenants, KeysStayInTenant
<1>5. EndedHasNoEffect
  BY DEF EndedHasNoEffect
<1> QED BY <1>1, <1>2, <1>3, <1>4, <1>5 DEF IInv

\* The invariant is inductive, whatever queries fail and keys end.
LEMMA InvariantStep ==
  ASSUME IInv, [Next]_vars
  PROVE  IInv'
BY TypeStep, RequestsStep, TransactionsStep, RowsStep, UniqueStep, WholeStep,
   OwnStep, EndedStep DEF IInv

\* So it holds in every state of every behaviour.
THEOREM Inductive == Spec => []IInv
<1>1. IInv /\ [Next]_vars => IInv'
  BY InvariantStep
<1> QED BY <1>1, InvariantInit, PTL DEF Spec

-----------------------------------------------------------------------------
(* The properties *)

\* Every reachable state is well typed.
THEOREM TypeCorrect == Spec => []TypeOK
<1>1. IInv => TypeOK
  BY DEF IInv
<1> QED BY <1>1, Inductive, PTL

\* No half of a tenant is ever to be seen, for any number of requests under way
\* and wherever they fail.
THEOREM TenantsAreWhole == Spec => []WholeTenants
<1>1. IInv => WholeTenants
  BY DEF IInv
<1> QED BY <1>1, Inductive, PTL

\* Through whatever chain of keys and requests, no key leads to another tenant than
\* the one its chain began in.
THEOREM NoKeyLeavesItsTenant == Spec => []KeysStayInTenant
<1>1. IInv => KeysStayInTenant
  BY DEF IInv
<1> QED BY <1>1, Inductive, PTL

\* A key that has ended opens nothing.
THEOREM EndedKeysOpenNothing == Spec => []EndedHasNoEffect
<1>1. IInv => EndedHasNoEffect
  BY DEF IInv
<1> QED BY <1>1, Inductive, PTL

-----------------------------------------------------------------------------
(* No way back in *)

\* A request arrives once.
LEMMA ArrivesOnce ==
  ASSUME TypeOK, [Next]_vars, NEW q \in Requests, pc[q] # "new"
  PROVE  request'[q] = request[q]
<1>1. ASSUME NEW r \in Requests, NEW a \in Arrivals, Arrive(r, a)
      PROVE  request'[q] = request[q]
  BY <1>1 DEF Arrive, TypeOK
<1>2. ASSUME NEW r \in Requests, Handle(r) \/ Fail(r)
      PROVE  request' = request
  BY <1>2 DEF Handle, Fail, Verify, InsertBareOrganization, InsertOrganization,
     InsertProject, InsertKey, Commit, Reply, ReadProject, ReadOrganization,
     Serve, RefuseRead, clients
<1>3. ASSUME (\E k \in Requests : EndKey(k)) \/ UNCHANGED vars
      PROVE  request' = request
  BY <1>3 DEF EndKey, vars
<1> QED BY <1>1, <1>2, <1>3 DEF Next

\* The requests that may still bring a key.
Bringing == {"insertOrganization", "insertProject", "insertKey", "commit", "reply"}

\* A request comes to the queries that bring a key by its arrival, if it needs no
\* key itself, or by the guards.
LEMMA BringingBegins ==
  ASSUME IInv, [Next]_vars, NEW q \in Requests,
         pc[q] \notin Bringing, pc'[q] \in Bringing
  PROVE  /\ UNCHANGED tables
         /\ \/ Verify(q)
            \/ \E a \in Arrivals : Arrive(q, a) /\ ~Guarded(a.kind)
<1>0. TypeOK
  BY DEF IInv
<1> USE <1>0 DEF Bringing, TypeOK, Goto
<1>1. ASSUME NEW r \in Requests, NEW a \in Arrivals, Arrive(r, a)
      PROVE  q = r /\ ~Guarded(a.kind) /\ UNCHANGED tables
  BY <1>1 DEF Arrive, tables
<1>2. ASSUME NEW r \in Requests, Verify(r)
      PROVE  q = r /\ UNCHANGED tables
  BY <1>2 DEF Verify
<1>3. ASSUME NEW r \in Requests,
             \/ InsertBareOrganization(r) \/ InsertOrganization(r)
             \/ InsertProject(r) \/ InsertKey(r) \/ Commit(r)
      PROVE  FALSE
  BY <1>3 DEF InsertBareOrganization, InsertOrganization, InsertProject,
     InsertKey, Commit
<1>4. ASSUME NEW r \in Requests,
             \/ Reply(r) \/ ReadProject(r) \/ ReadOrganization(r)
             \/ RefuseRead(r) \/ Fail(r)
      PROVE  FALSE
  BY <1>4 DEF Reply, ReadProject, ReadOrganization, Serve, RefuseRead, Fail
<1>5. ASSUME (\E k \in Requests : EndKey(k)) \/ UNCHANGED vars
      PROVE  FALSE
  BY <1>5 DEF EndKey, vars
<1> QED BY <1>1, <1>2, <1>3, <1>4, <1>5 DEF Next, Handle

\* Once nobody can use an organization, nobody will, and it gets no project.
LEMMA LockedOutStep ==
  ASSUME IInv, [Next]_vars, NEW o \in organizations, ~Usable(o)
  PROVE  /\ ~Usable(o)'
         /\ {p \in projects' : p.organization = o}
              = {p \in projects : p.organization = o}
<1>0. /\ TypeOK /\ RowsCommitted /\ \A q \in Requests : RequestKept(q)
      /\ o \in Requests /\ pc[o] \in {"reply", "answered"}
  BY DEF IInv, RequestsKept, RowsCommitted, Inserted, TypeOK
<1>1. \A r \in Requests : pc[r] \in Bringing =>
        r # o /\ o \notin OrganizationOf(request[r].key) /\ o \notin OrganizationOf(r)
  BY DEF Usable, Bringing
<1>2. \A k \in held \ ended : o \notin OrganizationOf(k)
  BY DEF Usable
<1>3. ASSUME NEW k \in held PROVE OrganizationOf(k)' = OrganizationOf(k)
  BY <1>0, <1>3, AccessFixed DEF TypeOK
<1>4. OrganizationOf(None) = {} /\ OrganizationOf(None)' = {}
  <2>1. TypeOK'
    BY TypeStep
  <2> QED BY <1>0, <2>1, ConstantsAssumption DEF TypeOK, Key, OrganizationOf
<1>5. ASSUME NEW r \in Requests, Commit(r)
      PROVE  /\ \A p \in RowsAt(r, "commit").projects : p.organization # o
             /\ o \notin OrganizationOf(r)'
  <2>1. /\ request[r].kind \in {"bootstrap", "createProject", "createKey"}
        /\ Guarded(request[r].kind) => Grants(request[r])
        /\ pc[r] = "commit"
    BY <1>0, <1>5 DEF Commit, RequestKept, LetIn, KindsAt
  <2>2. r # o /\ o \notin OrganizationOf(request[r].key) /\ ~Inserted(r)
    BY <1>0, <1>1, <2>1 DEF Bringing, RowsCommitted
  <2>3. request[r].kind = "createProject" => request[r].target # o
    BY <2>1, <2>2 DEF Grants, Guarded
  <2>4. \A p \in RowsAt(r, "commit").projects :
          p.id = r /\ p.organization # o
    BY <2>1, <2>2, <2>3 DEF RowsAt, HomeOf
  <2>5. ASSUME o \in OrganizationOf(r)' PROVE FALSE
    <3>1. PICK p \in projects', x \in keys' :
            x.id = r /\ x.project = p.id /\ p.organization = o
      BY <2>5 DEF OrganizationOf
    <3>2. p \in projects
      BY <1>5, <2>4, <3>1, CommitAdds
    <3>3. x \in RowsAt(r, "commit").keys
      BY <1>5, <2>2, <3>1, CommitAdds DEF Inserted
    <3>4. x.project = IF request[r].kind = "createKey" THEN request[r].target ELSE r
      BY <3>3 DEF RowsAt
    <3>5. p.id # r
      BY <2>2, <3>2 DEF Inserted
    <3>6. request[r].kind = "createKey" /\ p.id = request[r].target
      BY <3>1, <3>4, <3>5
    <3>7. request[r].target \in ProjectOf(request[r].key)
      BY <2>1, <3>6 DEF Grants, Guarded
    <3>8. o \in OrganizationOf(request[r].key)
      BY <3>1, <3>2, <3>6, <3>7 DEF ProjectOf, OrganizationOf
    <3> QED BY <2>2, <3>8
  <2> QED BY <2>4, <2>5
<1>6. \A p \in projects' : p.organization = o => p \in projects
  <2> SUFFICES ASSUME NEW p \in projects', p.organization = o, p \notin projects
               PROVE  FALSE
    OBVIOUS
  <2>1. PICK r \in Requests : Commit(r)
    BY TablesChange DEF tables, InsertBareOrganization
  <2> QED BY <1>5, <2>1, CommitAdds
<1>7. ASSUME NEW k \in held' \ ended', o \in OrganizationOf(k)' PROVE FALSE
  <2>1. CASE k \in held
    BY <1>2, <1>3, <1>7, <2>1, TablesGrow
  <2>2. CASE k \notin held
    <3>1. PICK r \in Requests : Reply(r)
      BY <1>7, <2>2 DEF Next, Handle, Arrive, Verify, InsertBareOrganization,
         InsertOrganization, InsertProject, InsertKey, Commit, ReadProject,
         ReadOrganization, Serve, RefuseRead, Fail, EndKey, vars, clients
    <3>2. k = r /\ pc[r] = "reply" /\ UNCHANGED tables
      BY <1>7, <2>2, <3>1 DEF Reply
    <3>3. o \in OrganizationOf(r)
      BY <1>7, <3>2 DEF OrganizationOf, tables
    <3> QED BY <1>1, <3>2, <3>3 DEF Bringing
  <2> QED BY <2>1, <2>2
<1>8. ASSUME NEW r \in Requests, pc[r] \in Bringing, pc'[r] \in Bringing
      PROVE  /\ r # o /\ o \notin OrganizationOf(r)'
             /\ request'[r] = request[r]
             /\ o \notin OrganizationOf(request[r].key)'
  <2>1. r # o /\ o \notin OrganizationOf(request[r].key) /\ o \notin OrganizationOf(r)
    BY <1>1, <1>8
  <2>2. request'[r] = request[r]
    BY <1>0, <1>8, ArrivesOnce DEF Bringing
  <2>3. request[r].key \in held \cup {None}
    BY <1>0 DEF RequestKept
  <2>4. \A k \in held \cup {None} :
          o \notin OrganizationOf(k) => o \notin OrganizationOf(k)'
    BY <1>3, <1>4
  <2>5. o \notin OrganizationOf(request[r].key)'
    BY <2>1, <2>2, <2>3, <2>4 DEF OrganizationOf
  <2>6. o \notin OrganizationOf(r)'
    <3>1. CASE Commit(r)
      BY <1>5, <3>1
    <3>2. CASE r \in {x.id : x \in keys}
      BY <2>1, <3>2, AccessFixed
    <3>3. CASE ~Commit(r) /\ r \notin {x.id : x \in keys}
      <4>1. \A x \in keys' : x.id # r
        <5> SUFFICES ASSUME NEW x \in keys', x.id = r PROVE FALSE
          OBVIOUS
        <5>1. PICK q \in Requests : Commit(q)
          BY <3>3, TablesChange DEF tables, InsertBareOrganization
        <5>2. x \in RowsAt(q, "commit").keys
          BY <3>3, <5>1, CommitAdds
        <5>3. x.id = q
          BY <5>2 DEF RowsAt
        <5> QED BY <3>3, <5>1, <5>3
      <4> QED BY <4>1 DEF OrganizationOf
    <3> QED BY <3>1, <3>2, <3>3
  <2> QED BY <2>1, <2>2, <2>5, <2>6 DEF OrganizationOf
<1>9. ASSUME NEW r \in Requests, pc[r] \notin Bringing, pc'[r] \in Bringing
      PROVE  /\ r # o /\ o \notin OrganizationOf(r)'
             /\ (o \notin OrganizationOf(request[r].key))'
  <2>1. UNCHANGED tables
    BY <1>9, BringingBegins
  <2>2. pc[r] \in {"new", "verify"}
    BY <1>9, BringingBegins DEF Verify, Arrive
  <2>3. r # o /\ ~Inserted(r)
    BY <1>0, <2>2 DEF RowsCommitted
  <2>4. OrganizationOf(r)' = {}
    BY <2>1, <2>3 DEF OrganizationOf, Inserted, tables
  <2>5. CASE Verify(r)
    <3>1. request' = request /\ pc'[r] # "answered"
      BY <1>9, <2>5 DEF Verify, clients, Bringing
    <3>2. Verifies(request[r].key)
      BY <1>0, <2>5, <3>1, VerifyOutcome DEF TypeOK
    <3>3. request[r].key \in held \ ended
      BY <1>0, <3>2, ConstantsAssumption DEF Verifies, RequestKept, TypeOK, Key
    <3>4. o \notin OrganizationOf(request[r].key)
      BY <1>2, <3>3
    <3> QED BY <2>1, <2>3, <2>4, <3>1, <3>4 DEF OrganizationOf, tables
  <2>6. CASE \E a \in Arrivals : Arrive(r, a) /\ ~Guarded(a.kind)
    <3>1. request'[r].key = None
      BY <1>0, <2>6 DEF Arrive, Arrivals, TypeOK
    <3> QED BY <1>4, <2>3, <2>4, <3>1 DEF OrganizationOf
  <2> QED BY <1>9, <2>5, <2>6, BringingBegins
<1>10. ~Usable(o)'
  <2>1. \A k \in held' \ ended' : o \notin OrganizationOf(k)'
    BY <1>7
  <2>2. \A r \in Requests : pc'[r] \in Bringing =>
          /\ r # o /\ o \notin OrganizationOf(r)'
          /\ (o \notin OrganizationOf(request[r].key))'
    BY <1>8, <1>9 DEF OrganizationOf
  <2> QED BY <2>1, <2>2 DEF Usable, Bringing
<1>11. projects \subseteq projects'
  BY TablesGrow
<1> QED BY <1>6, <1>10, <1>11

\* An organization that nobody can use stays as it is, for ever.
THEOREM NoWayBackIn == Spec => LockedOutForGood
<1>1. IInv /\ [Next]_vars =>
        [\A o \in organizations : ~Usable(o) =>
           /\ ~Usable(o)'
           /\ {p \in projects' : p.organization = o}
                = {p \in projects : p.organization = o}]_vars
  BY LockedOutStep
<1> QED BY <1>1, Inductive, PTL DEF Spec, LockedOutForGood

=============================================================================
