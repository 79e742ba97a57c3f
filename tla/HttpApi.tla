------------------------------ MODULE HttpApi -------------------------------
(***************************************************************************)
(* Tenancy's requests as their clients and Prometheus see them: the status *)
(* of each answer, and what HttpMetricsInterceptor counts.  Every step is  *)
(* a step of Tenancy with its effect on the response.                      *)
(*                                                                         *)
(* Nest (external) runs the guards, then sets the route's success status   *)
(* on the response, then runs the interceptor around pipes and handler,    *)
(* and hands what any of them throws to AllExceptionsFilter at the end.    *)
(***************************************************************************)
EXTENDS Tenancy, Sequences, Naturals

VARIABLES
  statusCode,  \* response.statusCode, which Express starts at 200
  answer,      \* the status each client is answered with, or None
  counted      \* per request, the status_code labels recorded for it

\* No answer yet is not a status.
ASSUME StatusAssumption == None \notin Nat

apiVars == <<vars, statusCode, answer, counted>>

ApiInit ==
  /\ Init
  /\ statusCode = [r \in Requests |-> 200]
  /\ answer = [r \in Requests |-> None]
  /\ counted = [r \in Requests |-> <<>>]

-----------------------------------------------------------------------------
(* The pipeline *)

\* Mutant: creations are declared to be accepted only.
SuccessAccepted(kind) ==
  IF kind \in {"readProject", "readOrganization"} THEN 200 ELSE 202

\* Nest's default: 201 for POST, 200 for GET.
Success(kind) == IF kind \in {"readProject", "readOrganization"} THEN 200 ELSE 201

SetStatus(r) ==
  statusCode' = [statusCode EXCEPT ![r] = Success(request'[r].kind)]

Send(r, status) == answer' = [answer EXCEPT ![r] = status]

\* Mutant: the interceptor is bound globally and once more by its module.
RecordTwice(r) ==
  counted' = [counted EXCEPT ![r] = @ \o <<statusCode[r], statusCode[r]>>]

\* The interceptor's tap, on a value as on an error.
Record(r) == counted' = [counted EXCEPT ![r] = Append(@, statusCode[r])]

\* Mutant: whatever Prisma throws is blamed on the caller.
StatusBlamingCaller(exception) ==
  CASE exception = "Unauthorized" -> 401
    [] exception = "Forbidden" -> 403
    [] OTHER -> 400

\* An HttpException's own status, 500 for anything else.
StatusOf(exception) ==
  CASE exception = "BadRequest" -> 400
    [] exception = "Unauthorized" -> 401
    [] exception = "Forbidden" -> 403
    [] OTHER -> 500

\* AllExceptionsFilter, for an exception of a guard: nothing is recorded.
Filter(r, exception) ==
  /\ statusCode' = [statusCode EXCEPT ![r] = StatusOf(exception)]
  /\ Send(r, StatusOf(exception))

\* The same for a pipe or handler: the interceptor sees the exception first.
RecordAndFilter(r, exception) == Record(r) /\ Filter(r, exception)

Return(r) ==
  /\ Record(r)
  /\ Send(r, statusCode[r])
  /\ UNCHANGED statusCode

-----------------------------------------------------------------------------
(* Requests *)

Receive(r, a) ==
  /\ Arrive(r, a)
  /\ IF Guarded(a.kind) THEN UNCHANGED statusCode ELSE SetStatus(r)
  /\ UNCHANGED <<answer, counted>>

PassGuards(r) ==
  /\ Verify(r)
  /\ UNCHANGED counted
  /\ IF pc'[r] = "answered"
     THEN Filter(r, IF Verifies(request[r].key) THEN "Forbidden"
                    ELSE "Unauthorized")
     ELSE SetStatus(r) /\ UNCHANGED answer

\* The global ValidationPipe rejects the body before the handler begins.
RejectBody(r) ==
  /\ pc[r] \in {"insertOrganization", "insertProject", "insertKey"}
  /\ pending[r] = NoRows
  /\ Fail(r)
  /\ RecordAndFilter(r, "BadRequest")

RunHandler(r) ==
  \/ /\ InsertBareOrganization(r) \/ InsertOrganization(r) \/ InsertProject(r)
        \/ InsertKey(r) \/ Commit(r)
     /\ UNCHANGED <<statusCode, answer, counted>>
  \/ (Reply(r) \/ ReadProject(r) \/ ReadOrganization(r)) /\ Return(r)
  \/ RefuseRead(r) /\ RecordAndFilter(r, "Forbidden")

\* A query throws, COMMIT included, which may have taken effect.
QueryThrows(r) ==
  /\ Fail(r)
  /\ IF pc[r] = "verify" THEN Filter(r, "Error") /\ UNCHANGED counted
     ELSE RecordAndFilter(r, "Error")

\* The client or the process is gone: nothing is answered.
Drop(r) ==
  /\ Fail(r)
  /\ UNCHANGED <<statusCode, answer>>
  /\ \/ UNCHANGED counted
     \/ pc[r] = "reply" /\ Record(r)

ApiNext ==
  \/ \E r \in Requests, a \in Arrivals : Receive(r, a)
  \/ \E r \in Requests :
       \/ PassGuards(r)
       \/ RejectBody(r)
       \/ RunHandler(r)
       \/ QueryThrows(r)
       \/ Drop(r)
  \/ \E k \in Requests : EndKey(k) /\ UNCHANGED <<statusCode, answer, counted>>

ApiSpec == ApiInit /\ [][ApiNext]_apiVars

-----------------------------------------------------------------------------
(* Properties *)

Successes == {200, 201}
Refusals == {400, 401, 403}

ApiTypeOK ==
  /\ statusCode \in [Requests -> Successes \cup Refusals \cup {500}]
  /\ answer \in [Requests -> Successes \cup Refusals \cup {500, None}]
  /\ counted \in [Requests -> Seq(Successes)]

\* What r's client asked for is in the tables.
Effected(r) ==
  LET a == request[r] IN
  CASE a.kind = "bareOrganization" -> r \in organizations
    [] a.kind = "bootstrap" -> /\ r \in organizations
                               /\ [id |-> r, organization |-> r] \in projects
                               /\ [id |-> r, project |-> r] \in keys
                               /\ r \in held
    [] a.kind = "createProject" -> /\ [id |-> r, organization |-> a.target] \in projects
                                   /\ [id |-> r, project |-> r] \in keys
                                   /\ r \in held
    [] a.kind = "createKey" -> [id |-> r, project |-> a.target] \in keys /\ r \in held
    [] OTHER -> a \in served

\* A client may believe its answer, wherever a query failed or a process died:
\* 200 and 201 say that everything asked for was committed and the key is in the
\* answer, 4xx that nothing was, or ever will be, inserted.  (500 says neither.)
ToldTruly(r) ==
  /\ answer[r] \in Successes => Effected(r)
  /\ answer[r] \in Refusals => ~Inserted(r)

AnswerTellsEffect == \A r \in Requests : ToldTruly(r)

\* The counters see every request that was let in once, and none other, whatever
\* became of it; a success under its own status.
CountedOnce(r) ==
  /\ Len(counted[r]) <= 1
  /\ counted[r] # <<>> =>
       /\ pc[r] = "answered"
       /\ Guarded(request[r].kind) =>
            request[r].key \in {k.id : k \in keys} /\ Grants(request[r])
  /\ answer[r] \in Successes => counted[r] = <<answer[r]>>
  /\ answer[r] = 400 => counted[r] # <<>>
  /\ Inserted(r) /\ answer[r] # None => counted[r] # <<>>

LetInCountedOnce == \A r \in Requests : CountedOnce(r)

\* The inductive invariant behind the two: a request that was let in carries the
\* success status of its route until it is answered.
Unanswered(r) ==
  /\ pc[r] # "answered" => answer[r] = None /\ counted[r] = <<>>
  /\ pc[r] \in LetIn => statusCode[r] = Success(request[r].kind)

ApiInv ==
  /\ IInv
  /\ ApiTypeOK
  /\ \A r \in Requests : Unanswered(r)
  /\ AnswerTellsEffect
  /\ LetInCountedOnce

=============================================================================
