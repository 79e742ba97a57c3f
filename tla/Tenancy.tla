------------------------------ MODULE Tenancy -------------------------------
(***************************************************************************)
(* Organizations, projects and API keys: POST /organizations with and      *)
(* without a first project, POST /organizations/:orgId/projects,           *)
(* POST /projects/:id/api-keys, GET /organizations/:id and                 *)
(* GET /projects/:id, with the guards in front of them.  Every query is an *)
(* action; the rows of a transaction are visible to others from its        *)
(* commit.  HttpApi adds what the client is told.  The routes behind       *)
(* /projects/:id have the same guards and handlers of their own (see       *)
(* EventStore, StateAccess, ReduceEvents and ReplayJobs).                  *)
(*                                                                         *)
(* A raw key exists in the answer that created it and nowhere else, so the *)
(* keys clients hold are part of the state: an answer that is lost takes   *)
(* the key with it.                                                        *)
(***************************************************************************)
EXTENDS FiniteSets

CONSTANTS Requests,  \* HTTP requests; also the ids of the rows each inserts
          None       \* no such id

Kinds == {"bareOrganization", "bootstrap", "createProject", "createKey",
          "readOrganization", "readProject"}

Project == [id : Requests, organization : Requests]
Key == [id : Requests, project : Requests]

ASSUME ConstantsAssumption == None \notin Requests

VARIABLES
  organizations,  \* committed ids of table organizations
  projects,       \* committed rows of table projects
  keys,           \* committed rows of table api_keys
  ended,          \* keys with revoked_at set or expires_at past
  held,           \* keys whose raw form some client has
  pc,             \* the query each request is about to make
  request,        \* kind, path parameter and presented key of each request
  pending,        \* the rows each request's open transaction has inserted
  served,         \* history: the arrivals of the reading routes served
  endedBefore     \* history: the keys ended when each request arrived

vars == <<organizations, projects, keys, ended, held, pc, request, pending,
          served, endedBefore>>

Arrival == [kind : Kinds, target : Requests \cup {None},
            key : Requests \cup {None}]

\* The routes that create an organization name no row and need no key.
Guarded(kind) == kind \notin {"bareOrganization", "bootstrap"}

Arrivals == {a \in Arrival : IF Guarded(a.kind) THEN a.target # None
                              ELSE a.target = None /\ a.key = None}

NoArrival == [kind |-> "readProject", target |-> None, key |-> None]

NoRows == [organizations |-> {}, projects |-> {}, keys |-> {}]

-----------------------------------------------------------------------------
Init ==
  /\ organizations = {}
  /\ projects = {}
  /\ keys = {}
  /\ ended = {}
  /\ held = {}
  /\ pc = [r \in Requests |-> "new"]
  /\ request = [r \in Requests |-> NoArrival]
  /\ pending = [r \in Requests |-> NoRows]
  /\ served = {}
  /\ endedBefore = [r \in Requests |-> {}]

Goto(r, label) == pc' = [pc EXCEPT ![r] = label]

tables == <<organizations, projects, keys>>
clients == <<ended, held, request, served, endedBefore>>

\* The rows the statements of r's transaction can see.
VisibleOrganizations(r) == organizations \cup pending[r].organizations
VisibleProjects(r) == projects \cup pending[r].projects

\* The organization of a key's project: findByHash includes the project.
OrganizationOf(k) ==
  {p.organization : p \in {q \in projects : \E x \in keys : x.id = k
                                                    /\ x.project = q.id}}
ProjectOf(k) == {x.project : x \in {y \in keys : y.id = k}}

-----------------------------------------------------------------------------
(* Arrival and guards *)

\* A request arrives, without a key or with one its client holds, for whatever
\* row its path names.
Arrive(r, a) ==
  /\ pc[r] = "new"
  /\ a.key \in held \cup {None}
  /\ request' = [request EXCEPT ![r] = a]
  /\ endedBefore' = [endedBefore EXCEPT ![r] = ended]
  /\ Goto(r, IF Guarded(a.kind) THEN "verify" ELSE "insertOrganization")
  /\ UNCHANGED <<tables, ended, held, pending, served>>

\* Mutant: an ended key still verifies.
VerifiesAnyKey(k) == \E x \in keys : x.id = k

\* ApiKeyService.verify: known, not revoked, not expired.
Verifies(k) == k \notin ended /\ \E x \in keys : x.id = k

\* Mutant: the organization guard lets every verified key through.
GrantsAnyOrganization(a) ==
  a.kind \in {"createProject", "readOrganization"} \/ a.target \in ProjectOf(a.key)

\* OrganizationAccessGuard for :orgId, ProjectAccessGuard for a project's :id,
\* none for an organization's :id.
Grants(a) ==
  CASE a.kind = "createProject" -> a.target \in OrganizationOf(a.key)
    [] a.kind = "readOrganization" -> TRUE
    [] OTHER -> a.target \in ProjectOf(a.key)

\* ApiKeyGuard awaits the key's row; the second guard follows without an await.
Verify(r) ==
  /\ pc[r] = "verify"
  /\ Goto(r, IF ~(Verifies(request[r].key) /\ Grants(request[r])) THEN "answered"
             ELSE CASE request[r].kind = "createProject" -> "insertProject"
                    [] request[r].kind = "createKey" -> "insertKey"
                    [] request[r].kind = "readOrganization" -> "read"
                    [] request[r].kind = "readProject" -> "find")
  /\ UNCHANGED <<tables, clients, pending>>

-----------------------------------------------------------------------------
(* Handlers *)

\* Without a first project the insert commits by itself.
InsertBareOrganization(r) ==
  /\ pc[r] = "insertOrganization"
  /\ request[r].kind = "bareOrganization"
  /\ organizations' = organizations \cup {r}
  /\ Goto(r, "reply")
  /\ UNCHANGED <<projects, keys, clients, pending>>

\* Mutant: the client parameter is forgotten, the insert commits by itself.
InsertOrganizationAutocommit(r) ==
  /\ pc[r] = "insertOrganization"
  /\ request[r].kind = "bootstrap"
  /\ organizations' = organizations \cup {r}
  /\ Goto(r, "insertProject")
  /\ UNCHANGED <<projects, keys, clients, pending>>

InsertOrganization(r) ==
  /\ pc[r] = "insertOrganization"
  /\ request[r].kind = "bootstrap"
  /\ pending' = [pending EXCEPT ![r].organizations = {r}]
  /\ Goto(r, "insertProject")
  /\ UNCHANGED <<tables, clients>>

\* The project belongs to the organization just inserted, or to the path's.
InsertProject(r) ==
  /\ pc[r] = "insertProject"
  /\ LET o == IF request[r].kind = "bootstrap" THEN r ELSE request[r].target IN
       /\ o \in VisibleOrganizations(r)
       /\ pending' = [pending EXCEPT ![r].projects =
                        {[id |-> r, organization |-> o]}]
  /\ Goto(r, "insertKey")
  /\ UNCHANGED <<tables, clients>>

\* ApiKeyService.create, in the transaction if there is one.
InsertKey(r) ==
  /\ pc[r] = "insertKey"
  /\ LET p == IF request[r].kind = "createKey" THEN request[r].target ELSE r IN
       /\ p \in {q.id : q \in VisibleProjects(r)}
       /\ pending' = [pending EXCEPT ![r].keys = {[id |-> r, project |-> p]}]
  /\ Goto(r, "commit")
  /\ UNCHANGED <<tables, clients>>

\* Mutant: the transaction has been rolled back, its result is returned anyway.
CommitNothing(r) ==
  /\ pc[r] = "commit"
  /\ pending' = [pending EXCEPT ![r] = NoRows]
  /\ Goto(r, "reply")
  /\ UNCHANGED <<tables, clients>>

Commit(r) ==
  /\ pc[r] = "commit"
  /\ organizations' = organizations \cup pending[r].organizations
  /\ projects' = projects \cup pending[r].projects
  /\ keys' = keys \cup pending[r].keys
  /\ pending' = [pending EXCEPT ![r] = NoRows]
  /\ Goto(r, "reply")
  /\ UNCHANGED clients

\* The answer carries the raw key, if one was made, to the client.
Reply(r) ==
  /\ pc[r] = "reply"
  /\ held' = held \cup IF request[r].kind = "bareOrganization" THEN {} ELSE {r}
  /\ Goto(r, "answered")
  /\ UNCHANGED <<tables, ended, request, pending, served, endedBefore>>

Serve(r) ==
  /\ served' = served \cup {request[r]}
  /\ Goto(r, "answered")
  /\ UNCHANGED <<tables, ended, held, request, pending, endedBefore>>

\* GET /projects/:id finds the row: it was there for its key, and rows stay.
ReadProject(r) ==
  /\ pc[r] = "find"
  /\ request[r].target \in {p.id : p \in projects}
  /\ Serve(r)

\* GET /organizations/:id compares the ids in its handler.
ReadOrganization(r) ==
  /\ pc[r] = "read"
  /\ request[r].target \in OrganizationOf(request[r].key)
  /\ Serve(r)

RefuseRead(r) ==
  /\ pc[r] = "read"
  /\ request[r].target \notin OrganizationOf(request[r].key)
  /\ Goto(r, "answered")
  /\ UNCHANGED <<tables, clients, pending>>

-----------------------------------------------------------------------------
(* Failures and the operator *)

\* A query fails, or the process dies: an open transaction is rolled back, an
\* answer on its way, with the raw key, is lost.
Fail(r) ==
  /\ pc[r] \notin {"new", "answered"}
  /\ pending' = [pending EXCEPT ![r] = NoRows]
  /\ Goto(r, "answered")
  /\ UNCHANGED <<tables, clients>>

\* A key's expires_at passes, or the operator sets revoked_at (no route does).
EndKey(k) ==
  /\ k \in {x.id : x \in keys} \ ended
  /\ ended' = ended \cup {k}
  /\ UNCHANGED <<tables, held, pc, request, pending, served, endedBefore>>

Handle(r) ==
  \/ Verify(r)
  \/ InsertBareOrganization(r)
  \/ InsertOrganization(r)
  \/ InsertProject(r)
  \/ InsertKey(r)
  \/ Commit(r)
  \/ Reply(r)
  \/ ReadProject(r)
  \/ ReadOrganization(r)
  \/ RefuseRead(r)

Next ==
  \/ \E r \in Requests, a \in Arrivals : Arrive(r, a)
  \/ \E r \in Requests : Handle(r) \/ Fail(r)
  \/ \E k \in Requests : EndKey(k)

Spec == Init /\ [][Next]_vars

-----------------------------------------------------------------------------
(* Properties *)

TypeOK ==
  /\ organizations \subseteq Requests
  /\ projects \subseteq Project
  /\ keys \subseteq Key
  /\ ended \subseteq Requests
  /\ held \subseteq {k.id : k \in keys}
  /\ pc \in [Requests -> {"new", "verify", "insertOrganization", "insertProject",
                          "insertKey", "commit", "reply", "read", "find",
                          "answered"}]
  /\ request \in [Requests -> Arrival]
  /\ pending \in [Requests -> [organizations : SUBSET Requests,
                               projects : SUBSET Project,
                               keys : SUBSET Key]]
  /\ served \subseteq Arrival
  /\ endedBefore \in [Requests -> SUBSET Requests]

\* "All three succeed or none do" (organization/README.md:11), wherever a failure
\* falls: nothing others can see is half a tenant.  A bootstrapped organization
\* has its project, a project its organization and a key, a key its project.
WholeTenants ==
  /\ \A o \in organizations : request[o].kind = "bootstrap" =>
       [id |-> o, organization |-> o] \in projects
  /\ \A p \in projects : p.organization \in organizations
                         /\ \E k \in keys : k.project = p.id
  /\ \A k \in keys : \E p \in projects : k.project = p.id

\* No chain of keys leads out of a tenant: a key made with another one, by way of
\* a further project or directly, opens the organization that one opens and no
\* other, and so does whatever is made with it.  The rows of an organization or a
\* project are shown for a key of it only.
KeysStayInTenant ==
  /\ \A k \in keys : Guarded(request[k.id].kind) =>
       OrganizationOf(k.id) = OrganizationOf(request[k.id].key)
  /\ \A a \in served :
       a.target \in IF a.kind = "readOrganization" THEN OrganizationOf(a.key)
                    ELSE ProjectOf(a.key)

\* A request that arrives with a key already ended has no effect (one that was
\* verified before the end may still run to completion).
EndedHasNoEffect ==
  \A r \in Requests :
    request[r].key \in endedBefore[r] =>
      /\ pc[r] \in {"verify", "answered"}
      /\ \A k \in keys : k.id # r

-----------------------------------------------------------------------------
(* The inductive invariant behind the properties above *)

Inserted(r) ==
  r \in organizations \cup {p.id : p \in projects} \cup {k.id : k \in keys}

\* The kinds of the requests that come to a query behind the guards.
KindsAt(label) ==
  CASE label = "insertOrganization" -> {"bareOrganization", "bootstrap"}
    [] label = "insertProject" -> {"bootstrap", "createProject"}
    [] label \in {"insertKey", "commit"} -> {"bootstrap", "createProject", "createKey"}
    [] label = "read" -> {"readOrganization"}
    [] label = "find" -> {"readProject"}
    [] OTHER -> Kinds \ {"readOrganization", "readProject"}

LetIn == {"insertOrganization", "insertProject", "insertKey", "commit", "reply",
          "read", "find"}

\* A request keeps the arrival it was let in with, and what granted it access:
\* rows are never deleted.
RequestKept(r) ==
  /\ IF pc[r] = "new" THEN request[r] = NoArrival ELSE request[r] \in Arrivals
  /\ pc[r] = "verify" => Guarded(request[r].kind)
  /\ request[r].key \in held \cup {None}
  /\ endedBefore[r] \subseteq ended
  /\ pc[r] \in LetIn =>
       /\ request[r].kind \in KindsAt(pc[r])
       /\ request[r].key \notin endedBefore[r]
       /\ Guarded(request[r].kind) =>
            /\ request[r].key \in {k.id : k \in keys}
            /\ Grants(request[r])

RequestsKept == \A r \in Requests : RequestKept(r)

\* The rows a transaction has inserted when it comes to a query: those of its
\* kind, all of one tenant.
HomeOf(r) == IF request[r].kind = "bootstrap" THEN r ELSE request[r].target

RowsAt(r, label) ==
  [organizations |-> IF request[r].kind = "bootstrap"
                        /\ label \in {"insertProject", "insertKey", "commit"}
                     THEN {r} ELSE {},
   projects |-> IF request[r].kind # "createKey" /\ label \in {"insertKey", "commit"}
                THEN {[id |-> r, organization |-> HomeOf(r)]} ELSE {},
   keys |-> IF label = "commit"
            THEN {[id |-> r, project |-> IF request[r].kind = "createKey"
                                         THEN request[r].target ELSE r]}
            ELSE {}]

TransactionsWhole == \A r \in Requests : pending[r] = RowsAt(r, pc[r])

\* Rows bear the id of a request that has committed them, and all of them.
RowsCommitted ==
  \A r \in Requests :
    /\ Inserted(r) => pc[r] \in {"reply", "answered"}
    /\ pc[r] = "reply" =>
         IF request[r].kind = "bareOrganization" THEN r \in organizations
         ELSE /\ RowsAt(r, "commit").organizations \subseteq organizations
              /\ RowsAt(r, "commit").projects \subseteq projects
              /\ RowsAt(r, "commit").keys \subseteq keys

\* Primary keys: a request inserts a row of each table once.
RowsUnique ==
  /\ \A p, q \in projects : p.id = q.id => p = q
  /\ \A k, l \in keys : k.id = l.id => k = l

IInv ==
  /\ TypeOK
  /\ RequestsKept
  /\ TransactionsWhole
  /\ RowsCommitted
  /\ RowsUnique
  /\ WholeTenants
  /\ KeysStayInTenant
  /\ EndedHasNoEffect

-----------------------------------------------------------------------------
(* A property of steps *)

\* An organization is usable while a client holds a key of it that has not ended,
\* or a request that was let in may still bring one.
Usable(o) ==
  \/ \E k \in held \ ended : o \in OrganizationOf(k)
  \/ \E r \in Requests :
       /\ pc[r] \in {"insertOrganization", "insertProject", "insertKey", "commit",
                     "reply"}
       /\ \/ r = o
          \/ o \in OrganizationOf(request[r].key)
          \/ o \in OrganizationOf(r)

\* There is no way back in: an organization without a usable key - created
\* without a first project, its answer lost, or its last key ended - never gets
\* another project or key.
LockedOutForGood ==
  [][\A o \in organizations : ~Usable(o) =>
       /\ ~Usable(o)'
       /\ {p \in projects' : p.organization = o}
            = {p \in projects : p.organization = o}]_vars
=============================================================================
