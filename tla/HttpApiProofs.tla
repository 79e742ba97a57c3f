---------------------------- MODULE HttpApiProofs ----------------------------
(***************************************************************************)
(* Proofs about HttpApi, for any set of requests.  Every step of the       *)
(* pipeline is a step of Tenancy, so what TenancyProofs establishes holds  *)
(* of it; the responses are then followed one request at a time: others    *)
(* never touch an answer, and no row comes after it.                       *)
(***************************************************************************)
EXTENDS HttpApi, TenancyProofs

-----------------------------------------------------------------------------
(* HttpApi implements Tenancy *)

\* Every step of the pipeline is one of Tenancy.
LEMMA StepRefines ==
  ASSUME [ApiNext]_apiVars
  PROVE  [Next]_vars
<1>1. ASSUME NEW r \in Requests, NEW a \in Arrivals, Receive(r, a) PROVE Next
  BY <1>1 DEF Receive, Next
<1>2. ASSUME NEW r \in Requests, PassGuards(r) \/ RunHandler(r) PROVE Handle(r)
  BY <1>2 DEF PassGuards, RunHandler, Handle
<1>3. ASSUME NEW r \in Requests,
             RejectBody(r) \/ QueryThrows(r) \/ Drop(r)
      PROVE  Fail(r)
  BY <1>3 DEF RejectBody, QueryThrows, Drop
<1>4. ASSUME NEW k \in Requests, EndKey(k) PROVE Next
  BY <1>4 DEF Next
<1>5. ASSUME UNCHANGED apiVars PROVE UNCHANGED vars
  BY <1>5 DEF apiVars, vars
<1> QED BY <1>1, <1>2, <1>3, <1>4, <1>5 DEF ApiNext, Next

\* So what is proved of Tenancy is true of the pipeline.
THEOREM ApiImplementsTenancy == ApiSpec => Spec
<1>1. ApiInit => Init
  BY DEF ApiInit
<1>2. [ApiNext]_apiVars => [Next]_vars
  BY StepRefines
<1> QED BY <1>1, <1>2, PTL DEF ApiSpec, Spec

-----------------------------------------------------------------------------
(* Answered requests *)

\* An answered request is at its end: what it asked for is what it got, no row of
\* it comes or goes, and its guards would still let it in.
LEMMA AnsweredStays ==
  ASSUME IInv, [Next]_vars, NEW q \in Requests, pc[q] = "answered"
  PROVE  /\ pc'[q] = "answered"
         /\ request'[q] = request[q]
         /\ Effected(q) => Effected(q)'
         /\ Inserted(q)' => Inserted(q)
         /\ request[q].key \in {k.id : k \in keys} => request[q].key \in {k.id : k \in keys'}
         /\ Grants(request[q]) => Grants(request[q])'
<1>0. TypeOK
  BY DEF IInv
<1>1. request'[q] = request[q] /\ pc'[q] \in {"reply", "answered"}
  BY <1>0, CommittedStays
<1>2. pc'[q] = "answered"
  <2>1. ASSUME NEW r \in Requests, NEW a \in Arrivals, Arrive(r, a)
        PROVE  pc'[q] = "answered"
    BY <1>0, <2>1 DEF Arrive, Goto, TypeOK
  <2>2. ASSUME NEW r \in Requests, Handle(r) \/ Fail(r)
        PROVE  pc'[q] = "answered"
    <3>1. r # q /\ \E label : pc' = [pc EXCEPT ![r] = label]
      BY <2>2 DEF Handle, Fail, Verify, InsertBareOrganization, InsertOrganization,
         InsertProject, InsertKey, Commit, Reply, ReadProject, Serve,
         ReadOrganization, RefuseRead, Goto
    <3> QED BY <1>0, <3>1 DEF TypeOK
  <2>3. ASSUME (\E k \in Requests : EndKey(k)) \/ UNCHANGED vars
        PROVE  pc'[q] = "answered"
    BY <2>3 DEF EndKey, vars
  <2> QED BY <2>1, <2>2, <2>3 DEF Next
<1>3. Inserted(q)' => Inserted(q)
  <2>1. CASE \E r \in Requests : Commit(r)
    <3>1. PICK r \in Requests : Commit(r)
      BY <2>1
    <3>2. r # q
      BY <3>1 DEF Commit
    <3> QED BY <1>0, <3>1, <3>2, CommitAdds DEF Inserted, RowsAt, TypeOK
  <2>2. CASE \E r \in Requests : InsertBareOrganization(r)
    BY <2>2 DEF InsertBareOrganization, Inserted
  <2>3. CASE ~\E r \in Requests : Commit(r) \/ InsertBareOrganization(r)
    BY <2>3, TablesChange DEF tables, Inserted
  <2> QED BY <2>1, <2>2, <2>3
<1>4. /\ organizations \subseteq organizations' /\ projects \subseteq projects'
      /\ keys \subseteq keys' /\ held \subseteq held'
  BY TablesGrow
<1>5. served \subseteq served'
  <2>1. ASSUME NEW r \in Requests, ReadProject(r) \/ ReadOrganization(r)
        PROVE  served \subseteq served'
    BY <2>1 DEF ReadProject, ReadOrganization, Serve
  <2>2. ASSUME NEW r \in Requests, NEW a \in Arrivals, Arrive(r, a)
        PROVE  served' = served
    BY <2>2 DEF Arrive
  <2>3. ASSUME NEW r \in Requests, Handle(r) \/ Fail(r),
               ~ReadProject(r), ~ReadOrganization(r)
        PROVE  served' = served
    BY <2>3 DEF Handle, Fail, Verify, InsertBareOrganization, InsertOrganization,
       InsertProject, InsertKey, Commit, Reply, RefuseRead, clients
  <2>4. ASSUME (\E k \in Requests : EndKey(k)) \/ UNCHANGED vars
        PROVE  served' = served
    BY <2>4 DEF EndKey, vars
  <2> QED BY <2>1, <2>2, <2>3, <2>4 DEF Next
<1>6. Effected(q) => Effected(q)'
  BY <1>1, <1>4, <1>5 DEF Effected
<1>7. Grants(request[q]) => Grants(request[q])'
  <2>1. \A a : Grants(a) => Grants(a)'
    BY <1>4, GrantsKept
  <2> QED BY <1>1, <2>1 DEF Grants, OrganizationOf, ProjectOf
<1> QED BY <1>1, <1>2, <1>3, <1>4, <1>6, <1>7

-----------------------------------------------------------------------------
(* One request's response *)

\* What ApiInv says of the response to one request.
LEMMA ResponseKnown ==
  ASSUME ApiInv, NEW q \in Requests
  PROVE  Unanswered(q) /\ ToldTruly(q) /\ CountedOnce(q)
BY DEF ApiInv, AnswerTellsEffect, LetInCountedOnce

\* No answer and no sample say nothing.
LEMMA SilenceIsTrue ==
  ASSUME NEW q \in Requests, answer'[q] = None, counted'[q] = <<>>
  PROVE  ToldTruly(q)' /\ CountedOnce(q)'
BY StatusAssumption DEF ToldTruly, CountedOnce, Successes, Refusals

\* A response stays true while others proceed.
LEMMA Bystander ==
  ASSUME ApiInv, [Next]_vars, NEW q \in Requests,
         pc'[q] = pc[q], request'[q] = request[q],
         statusCode'[q] = statusCode[q], answer'[q] = answer[q],
         counted'[q] = counted[q]
  PROVE  Unanswered(q)' /\ ToldTruly(q)' /\ CountedOnce(q)'
<1>0. IInv /\ Unanswered(q) /\ ToldTruly(q) /\ CountedOnce(q)
  BY ResponseKnown DEF ApiInv
<1>1. Unanswered(q)'
  BY <1>0 DEF Unanswered
<1>2. CASE pc[q] # "answered"
  BY <1>0, <1>1, <1>2, SilenceIsTrue DEF Unanswered
<1>3. CASE pc[q] = "answered"
  <2>1. /\ Effected(q) => Effected(q)'
        /\ Inserted(q)' => Inserted(q)
        /\ request[q].key \in {k.id : k \in keys} => request[q].key \in {k.id : k \in keys'}
        /\ Grants(request[q]) => Grants(request[q])'
    BY <1>0, <1>3, AnsweredStays
  <2>2. ToldTruly(q)'
    BY <1>0, <2>1 DEF ToldTruly
  <2>3. CountedOnce(q)'
    BY <1>0, <2>1 DEF CountedOnce
  <2> QED BY <1>1, <2>2, <2>3
<1> QED BY <1>2, <1>3

\* The interceptor records the success status of a request's route, once.
LEMMA Recorded ==
  ASSUME ApiInv, NEW r \in Requests, pc[r] \in LetIn, Record(r)
  PROVE  counted' = [counted EXCEPT ![r] = <<Success(request[r].kind)>>]
<1>1. counted[r] = <<>> /\ statusCode[r] = Success(request[r].kind)
  BY ResponseKnown DEF Unanswered, LetIn
<1>2. Append(counted[r], statusCode[r]) = <<statusCode[r]>>
  BY <1>1
<1> QED BY <1>1, <1>2 DEF Record

\* What the last step of a request has to do so that its response is true: tell
\* success only of what is done and counted, tell refusal only before the
\* commit, count whoever was let in.
LEMMA LastStep ==
  ASSUME ApiInv, [Next]_vars, NEW r \in Requests,
         pc[r] \notin {"new", "answered"}, pc'[r] = "answered",
         request' = request, UNCHANGED tables,
         \/ counted'[r] = <<>>
         \/ pc[r] \in LetIn /\ counted'[r] = <<Success(request[r].kind)>>,
         answer'[r] \in Successes =>
           Effected(r)' /\ counted'[r] = <<answer'[r]>>,
         answer'[r] \in Refusals => pc[r] # "reply",
         answer'[r] = 400 => counted'[r] # <<>>,
         answer'[r] # None /\ pc[r] = "reply" => counted'[r] # <<>>
  PROVE  Unanswered(r)' /\ ToldTruly(r)' /\ CountedOnce(r)'
<1>0. IInv
  BY DEF ApiInv
<1>1. Unanswered(r)'
  BY DEF Unanswered, LetIn
<1>2. Inserted(r)' => pc[r] = "reply"
  BY <1>0 DEF IInv, RowsCommitted, Inserted, tables
<1>3. ToldTruly(r)'
  BY <1>2 DEF ToldTruly
<1>4. Len(counted'[r]) <= 1
  <2>1. ASSUME NEW x PROVE Len(<<x>>) <= 1
    OBVIOUS
  <2>2. Len(<<>>) <= 1
    OBVIOUS
  <2> QED BY <2>1, <2>2
<1>5. pc[r] \in LetIn /\ Guarded(request[r].kind) =>
        request'[r].key \in {k.id : k \in keys'} /\ Grants(request[r])'
  BY <1>0 DEF IInv, RequestsKept, RequestKept, tables, Grants, OrganizationOf,
     ProjectOf
<1>6. CountedOnce(r)'
  BY <1>2, <1>4, <1>5 DEF CountedOnce
<1> QED BY <1>1, <1>3, <1>6

-----------------------------------------------------------------------------
(* Every step *)

\* What a property of each request's response needs to be kept by a step that
\* concerns r's response only.
LEMMA OneResponse ==
  ASSUME ApiInv, [Next]_vars, NEW r \in Requests,
         \E label : pc' = [pc EXCEPT ![r] = label],
         \A q \in Requests \ {r} : request'[q] = request[q],
         \A q \in Requests \ {r} : /\ statusCode'[q] = statusCode[q]
                                   /\ answer'[q] = answer[q]
                                   /\ counted'[q] = counted[q],
         Unanswered(r)' /\ ToldTruly(r)' /\ CountedOnce(r)'
  PROVE  \A q \in Requests : Unanswered(q)' /\ ToldTruly(q)' /\ CountedOnce(q)'
<1> SUFFICES ASSUME NEW q \in Requests, q # r
             PROVE  Unanswered(q)' /\ ToldTruly(q)' /\ CountedOnce(q)'
  OBVIOUS
<1>1. pc'[q] = pc[q]
  BY DEF ApiInv, IInv, TypeOK
<1> QED BY <1>1, Bystander

\* A request that arrives is not answered, and gets its route's status at once
\* if there are no guards.
LEMMA ReceiveStep ==
  ASSUME ApiInv, NEW r \in Requests, NEW a \in Arrivals, Receive(r, a)
  PROVE  \A q \in Requests : Unanswered(q)' /\ ToldTruly(q)' /\ CountedOnce(q)'
<1>0. TypeOK /\ ApiTypeOK /\ Unanswered(r) /\ [Next]_vars
  BY ResponseKnown DEF ApiInv, IInv, Receive, Next
<1>1. /\ pc[r] = "new"
      /\ request' = [request EXCEPT ![r] = a]
      /\ pc' = [pc EXCEPT ![r] = IF Guarded(a.kind) THEN "verify"
                                 ELSE "insertOrganization"]
  BY DEF Receive, Arrive, Goto
<1>2. /\ statusCode' = IF Guarded(a.kind) THEN statusCode
                       ELSE [statusCode EXCEPT ![r] = Success(a.kind)]
      /\ answer' = answer /\ counted' = counted
  BY <1>0, <1>1 DEF Receive, SetStatus, TypeOK
<1>3. answer'[r] = None /\ counted'[r] = <<>>
  BY <1>0, <1>1, <1>2 DEF Unanswered
<1>4. pc'[r] = (IF Guarded(a.kind) THEN "verify" ELSE "insertOrganization")
      /\ request'[r] = a
  BY <1>0, <1>1 DEF TypeOK
<1>5. ~Guarded(a.kind) => statusCode'[r] = Success(a.kind)
  BY <1>0, <1>2 DEF ApiTypeOK
<1>6. Unanswered(r)'
  BY <1>3, <1>4, <1>5 DEF Unanswered, LetIn
<1>7. \A q \in Requests \ {r} : /\ request'[q] = request[q]
                                /\ statusCode'[q] = statusCode[q]
                                /\ answer'[q] = answer[q]
                                /\ counted'[q] = counted[q]
  BY <1>0, <1>1, <1>2 DEF TypeOK, ApiTypeOK
<1> QED BY <1>0, <1>1, <1>3, <1>6, <1>7, SilenceIsTrue, OneResponse

\* A step of a request that is let in, to another query.
LEMMA GoOnStep ==
  ASSUME ApiInv, [Next]_vars, NEW r \in Requests, NEW label \in LetIn,
         pc[r] \notin {"new", "answered"},
         pc' = [pc EXCEPT ![r] = label], request' = request,
         \/ pc[r] \in LetIn /\ statusCode' = statusCode
         \/ statusCode' = [statusCode EXCEPT ![r] = Success(request[r].kind)],
         UNCHANGED <<answer, counted>>
  PROVE  \A q \in Requests : Unanswered(q)' /\ ToldTruly(q)' /\ CountedOnce(q)'
<1>0. TypeOK /\ ApiTypeOK /\ Unanswered(r)
  BY ResponseKnown DEF ApiInv, IInv
<1>1. answer'[r] = None /\ counted'[r] = <<>>
  BY <1>0 DEF Unanswered
<1>2. statusCode'[r] = Success(request[r].kind)
  BY <1>0 DEF Unanswered, ApiTypeOK
<1>3. Unanswered(r)'
  BY <1>1, <1>2 DEF Unanswered
<1>4. \A q \in Requests \ {r} : /\ statusCode'[q] = statusCode[q]
                                /\ answer'[q] = answer[q]
                                /\ counted'[q] = counted[q]
  BY <1>0 DEF ApiTypeOK
<1> QED BY <1>1, <1>3, <1>4, SilenceIsTrue, OneResponse

\* A step that answers a request with a status, or lets it go without.
LEMMA EndStep ==
  ASSUME ApiInv, [Next]_vars, NEW r \in Requests,
         pc[r] \notin {"new", "answered"},
         pc' = [pc EXCEPT ![r] = "answered"], request' = request,
         UNCHANGED tables,
         \/ counted' = counted
         \/ pc[r] \in LetIn /\ Record(r),
         statusCode' = statusCode \/ \E s : statusCode' = [statusCode EXCEPT ![r] = s],
         NEW status, answer' = [answer EXCEPT ![r] = status],
         status \in Successes =>
           Effected(r)' /\ Record(r) /\ pc[r] \in LetIn /\ status = Success(request[r].kind),
         status \in Refusals => pc[r] # "reply",
         status = 400 => Record(r) /\ pc[r] \in LetIn,
         status # None /\ pc[r] = "reply" => Record(r)
  PROVE  \A q \in Requests : Unanswered(q)' /\ ToldTruly(q)' /\ CountedOnce(q)'
<1>0. TypeOK /\ ApiTypeOK /\ Unanswered(r)
  BY ResponseKnown DEF ApiInv, IInv
<1>1. counted[r] = <<>>
  BY <1>0 DEF Unanswered
<1>2. pc[r] \in LetIn /\ Record(r) =>
        counted' = [counted EXCEPT ![r] = <<Success(request[r].kind)>>]
  BY Recorded
<1>3. answer'[r] = status /\ pc'[r] = "answered"
  BY <1>0 DEF ApiTypeOK, TypeOK
<1>4. pc[r] = "reply" => pc[r] \in LetIn
  BY DEF LetIn
<1>5. pc[r] \in LetIn /\ Record(r) => counted'[r] = <<Success(request[r].kind)>>
  BY <1>0, <1>2 DEF ApiTypeOK
<1>6. ASSUME NEW x PROVE <<x>> # <<>>
  OBVIOUS
<1>7. Unanswered(r)' /\ ToldTruly(r)' /\ CountedOnce(r)'
  BY <1>1, <1>3, <1>4, <1>5, <1>6, LastStep
<1>8. \A q \in Requests \ {r} : /\ statusCode'[q] = statusCode[q]
                                /\ answer'[q] = answer[q]
                                /\ counted'[q] = counted[q]
  BY <1>0, <1>2 DEF ApiTypeOK
<1> QED BY <1>7, <1>8, OneResponse

\* A request at a query that is not its guards' was let in.
LEMMA BehindGuards ==
  ASSUME TypeOK, NEW r \in Requests, pc[r] \notin {"new", "answered", "verify"}
  PROVE  pc[r] \in LetIn
BY DEF TypeOK, LetIn

\* What fails leaves its rows to be rolled back and is answered.
LEMMA FailEnds ==
  ASSUME NEW r \in Requests, Fail(r)
  PROVE  /\ pc[r] \notin {"new", "answered"}
         /\ pc' = [pc EXCEPT ![r] = "answered"]
         /\ request' = request
         /\ UNCHANGED tables
         /\ [Next]_vars
BY DEF Fail, Goto, clients, Next

\* The guards let a request in, or refuse it: nothing of it is inserted or
\* counted.
LEMMA PassGuardsStep ==
  ASSUME ApiInv, NEW r \in Requests, PassGuards(r)
  PROVE  \A q \in Requests : Unanswered(q)' /\ ToldTruly(q)' /\ CountedOnce(q)'
<1>0. IInv /\ TypeOK /\ Verify(r) /\ [Next]_vars
  BY DEF ApiInv, IInv, PassGuards, Next, Handle
<1>1. /\ pc[r] = "verify" /\ request' = request
      /\ UNCHANGED tables /\ counted' = counted
  BY DEF PassGuards, Verify, clients
<1>2. CASE pc' = [pc EXCEPT ![r] = "answered"]
  <2>1. PICK exception \in {"Forbidden", "Unauthorized"} : Filter(r, exception)
    BY <1>0, <1>2 DEF PassGuards, TypeOK
  <2>2. StatusOf(exception) \in {401, 403}
    BY DEF StatusOf
  <2>3. /\ answer' = [answer EXCEPT ![r] = StatusOf(exception)]
        /\ statusCode' = [statusCode EXCEPT ![r] = StatusOf(exception)]
    BY <2>1 DEF Filter, Send
  <2>4. StatusOf(exception) \notin Successes \cup {400}
    BY <2>2 DEF Successes
  <2> QED BY <1>0, <1>1, <1>2, <2>3, <2>4, EndStep
<1>3. CASE \E label \in {"insertProject", "insertKey", "read", "find"} :
             pc' = [pc EXCEPT ![r] = label]
  <2>1. PICK label \in {"insertProject", "insertKey", "read", "find"} :
          pc' = [pc EXCEPT ![r] = label]
    BY <1>3
  <2>2. label \in LetIn /\ pc'[r] # "answered"
    BY <1>0, <2>1 DEF LetIn, TypeOK
  <2>3. SetStatus(r) /\ answer' = answer
    BY <2>2 DEF PassGuards
  <2>4. statusCode' = [statusCode EXCEPT ![r] = Success(request[r].kind)]
    BY <1>1, <2>3 DEF SetStatus
  <2> QED BY <1>0, <1>1, <2>1, <2>2, <2>3, <2>4, GoOnStep
<1> QED BY <1>0, <1>2, <1>3, VerifyOutcome

\* A body that is rejected: the exception is counted and answered, and nothing
\* has been committed.
LEMMA RejectStep ==
  ASSUME ApiInv, NEW r \in Requests, RejectBody(r)
  PROVE  \A q \in Requests : Unanswered(q)' /\ ToldTruly(q)' /\ CountedOnce(q)'
<1>0. Fail(r) /\ pc[r] \in LetIn /\ pc[r] # "reply"
  BY DEF RejectBody, LetIn
<1>1. RecordAndFilter(r, "BadRequest")
  BY DEF RejectBody
<1>2. StatusOf("BadRequest") = 400
  BY DEF StatusOf
<1>3. StatusOf("BadRequest") \notin Successes /\ StatusOf("BadRequest") # None
  BY <1>2, StatusAssumption DEF Successes
<1>4. /\ Record(r)
      /\ answer' = [answer EXCEPT ![r] = StatusOf("BadRequest")]
      /\ statusCode' = [statusCode EXCEPT ![r] = StatusOf("BadRequest")]
  BY <1>1 DEF RecordAndFilter, Filter, Send
<1> QED BY <1>0, <1>3, <1>4, FailEnds, EndStep

\* A query that throws answers 500, which claims nothing.
LEMMA QueryThrowsStep ==
  ASSUME ApiInv, NEW r \in Requests, QueryThrows(r)
  PROVE  \A q \in Requests : Unanswered(q)' /\ ToldTruly(q)' /\ CountedOnce(q)'
<1>0. Fail(r) /\ TypeOK
  BY DEF QueryThrows, ApiInv, IInv
<1>1. StatusOf("Error") \notin Successes \cup Refusals \cup {400}
  BY DEF StatusOf, Successes, Refusals
<1>2. /\ answer' = [answer EXCEPT ![r] = StatusOf("Error")]
      /\ statusCode' = [statusCode EXCEPT ![r] = StatusOf("Error")]
  BY DEF QueryThrows, RecordAndFilter, Filter, Send
<1>3. IF pc[r] = "verify" THEN counted' = counted ELSE pc[r] \in LetIn /\ Record(r)
  BY <1>0, BehindGuards, FailEnds DEF QueryThrows, RecordAndFilter
<1> QED BY <1>0, <1>1, <1>2, <1>3, FailEnds, EndStep

\* A request that is dropped is answered nothing, counted or not.
LEMMA DropStep ==
  ASSUME ApiInv, NEW r \in Requests, Drop(r)
  PROVE  \A q \in Requests : Unanswered(q)' /\ ToldTruly(q)' /\ CountedOnce(q)'
<1>0. Fail(r) /\ TypeOK /\ ApiTypeOK /\ Unanswered(r)
  BY ResponseKnown DEF Drop, ApiInv, IInv
<1>1. answer' = [answer EXCEPT ![r] = None] /\ statusCode' = statusCode
  BY <1>0, FailEnds DEF Drop, Unanswered, ApiTypeOK
<1>2. \/ counted' = counted
      \/ pc[r] \in LetIn /\ Record(r)
  BY DEF Drop, LetIn
<1>3. None \notin Successes \cup Refusals \cup {400}
  BY StatusAssumption DEF Successes, Refusals
<1> QED BY <1>0, <1>1, <1>2, <1>3, FailEnds, EndStep

\* A handler that returns has done what it was asked to.
LEMMA ReturnMeansEffect ==
  ASSUME IInv, NEW r \in Requests,
         Reply(r) \/ ReadProject(r) \/ ReadOrganization(r)
  PROVE  Effected(r)'
<1>0. TypeOK /\ RequestKept(r) /\ RowsCommitted
  BY DEF IInv, RequestsKept
<1>1. UNCHANGED tables /\ request' = request
  BY DEF Reply, ReadProject, ReadOrganization, Serve
<1>2. CASE Reply(r)
  <2>1. /\ pc[r] = "reply"
        /\ held' = held \cup IF request[r].kind = "bareOrganization" THEN {} ELSE {r}
    BY <1>2 DEF Reply
  <2>2. request[r].kind \in {"bareOrganization", "bootstrap", "createProject",
                             "createKey"}
    BY <1>0, <2>1 DEF RequestKept, LetIn, KindsAt, Kinds
  <2>3. CASE request[r].kind = "bareOrganization"
    BY <1>0, <1>1, <2>1, <2>3 DEF RowsCommitted, Effected, tables
  <2>4. CASE request[r].kind # "bareOrganization"
    <3>1. /\ RowsAt(r, "commit").organizations \subseteq organizations'
          /\ RowsAt(r, "commit").projects \subseteq projects'
          /\ RowsAt(r, "commit").keys \subseteq keys'
          /\ r \in held'
      BY <1>0, <1>1, <2>1, <2>4 DEF RowsCommitted, tables
    <3> QED BY <1>1, <2>2, <2>4, <3>1 DEF RowsAt, HomeOf, Effected
  <2> QED BY <2>3, <2>4
<1>3. CASE ReadProject(r) \/ ReadOrganization(r)
  <2>1. pc[r] \in {"find", "read"} /\ served' = served \cup {request[r]}
    BY <1>3 DEF ReadProject, ReadOrganization, Serve
  <2>2. request[r].kind \in {"readProject", "readOrganization"}
    BY <1>0, <2>1 DEF RequestKept, LetIn, KindsAt
  <2> QED BY <1>1, <2>1, <2>2 DEF Effected
<1> QED BY <1>2, <1>3

\* A handler goes on silently, returns with its effect, or is refused its read.
LEMMA RunHandlerStep ==
  ASSUME ApiInv, NEW r \in Requests, RunHandler(r)
  PROVE  \A q \in Requests : Unanswered(q)' /\ ToldTruly(q)' /\ CountedOnce(q)'
<1>0. IInv /\ TypeOK /\ ApiTypeOK /\ Unanswered(r) /\ [Next]_vars
  BY ResponseKnown DEF ApiInv, IInv, RunHandler, Next, Handle
<1>1. CASE /\ InsertBareOrganization(r) \/ InsertOrganization(r)
              \/ InsertProject(r) \/ InsertKey(r) \/ Commit(r)
           /\ UNCHANGED <<statusCode, answer, counted>>
  <2>1. /\ pc[r] \in {"insertOrganization", "insertProject", "insertKey", "commit"}
        /\ request' = request
        /\ \E label \in {"insertProject", "insertKey", "commit", "reply"} :
             pc' = [pc EXCEPT ![r] = label]
    BY <1>1 DEF InsertBareOrganization, InsertOrganization, InsertProject,
       InsertKey, Commit, clients, Goto
  <2>2. pc[r] \in LetIn /\ \E label \in LetIn : pc' = [pc EXCEPT ![r] = label]
    BY <2>1 DEF LetIn
  <2> QED BY <1>0, <1>1, <2>1, <2>2, GoOnStep
<1>2. CASE (Reply(r) \/ ReadProject(r) \/ ReadOrganization(r)) /\ Return(r)
  <2>1. /\ pc[r] \in {"reply", "find", "read"}
        /\ request' = request /\ UNCHANGED tables
        /\ pc' = [pc EXCEPT ![r] = "answered"]
    BY <1>2 DEF Reply, ReadProject, ReadOrganization, Serve, Goto
  <2>2. pc[r] \in LetIn
    BY <2>1 DEF LetIn
  <2>3. statusCode[r] = Success(request[r].kind)
    BY <1>0, <2>2 DEF Unanswered
  <2>4. /\ Record(r) /\ statusCode' = statusCode
        /\ answer' = [answer EXCEPT ![r] = Success(request[r].kind)]
    BY <1>2, <2>3 DEF Return, Send
  <2>5. Success(request[r].kind) \in Successes
    BY DEF Success, Successes
  <2>6. Success(request[r].kind) \notin Refusals
    BY <2>5 DEF Successes, Refusals
  <2>7. Effected(r)'
    BY <1>0, <1>2, ReturnMeansEffect
  <2> DEFINE status == Success(request[r].kind)
  <2>8. status # 400
    BY <2>6 DEF Refusals
  <2>9. status = Success(request[r].kind)
    OBVIOUS
  <2> HIDE DEF status
  <2> QED
    BY <1>0, <2>1, <2>2, <2>4, <2>6, <2>7, <2>8, <2>9, EndStep
<1>3. CASE RefuseRead(r) /\ RecordAndFilter(r, "Forbidden")
  <2>1. /\ pc[r] = "read"
        /\ request' = request /\ UNCHANGED tables
        /\ pc' = [pc EXCEPT ![r] = "answered"]
    BY <1>3 DEF RefuseRead, Goto, clients
  <2>2. StatusOf("Forbidden") \notin Successes \cup {400}
    BY DEF StatusOf, Successes
  <2>3. /\ Record(r)
        /\ answer' = [answer EXCEPT ![r] = StatusOf("Forbidden")]
        /\ statusCode' = [statusCode EXCEPT ![r] = StatusOf("Forbidden")]
    BY <1>3 DEF RecordAndFilter, Filter, Send
  <2>4. pc[r] \in LetIn
    BY <2>1 DEF LetIn
  <2> QED BY <1>0, <2>1, <2>2, <2>3, <2>4, EndStep
<1> QED BY <1>1, <1>2, <1>3 DEF RunHandler

\* The end of a key is no answer.
LEMMA OperatorStep ==
  ASSUME ApiInv,
         \/ /\ \E k \in Requests : EndKey(k)
            /\ UNCHANGED <<statusCode, answer, counted>>
         \/ UNCHANGED apiVars
  PROVE  \A q \in Requests : Unanswered(q)' /\ ToldTruly(q)' /\ CountedOnce(q)'
<1>1. [Next]_vars /\ UNCHANGED <<pc, request, statusCode, answer, counted>>
  BY DEF EndKey, Next, apiVars, vars
<1> QED BY <1>1, Bystander

-----------------------------------------------------------------------------
(* The types of responses *)

\* Only success statuses are recorded, and each answer is a status it may be.
LEMMA ApiTypeStep ==
  ASSUME ApiInv, [ApiNext]_apiVars
  PROVE  ApiTypeOK'
<1>0. IInv /\ TypeOK /\ ApiTypeOK
  BY DEF ApiInv, IInv
<1> DEFINE Statuses == Successes \cup Refusals \cup {500}
<1>1. \A exception : StatusOf(exception) \in Statuses
  BY DEF StatusOf, Refusals
<1>2. \A kind : Success(kind) \in Successes
  BY DEF Success, Successes
<1>3. \A kind : Success(kind) \in Statuses
  BY <1>2
<1>4. /\ statusCode \in [Requests -> Statuses]
      /\ answer \in [Requests -> Statuses \cup {None}]
      /\ counted \in [Requests -> Seq(Successes)]
  BY <1>0 DEF ApiTypeOK
<1>5. ASSUME NEW r \in Requests, pc[r] \in LetIn, Record(r)
      PROVE  counted' \in [Requests -> Seq(Successes)]
  <2>1. <<Success(request[r].kind)>> \in Seq(Successes)
    BY <1>2
  <2>2. counted' = [counted EXCEPT ![r] = <<Success(request[r].kind)>>]
    BY <1>5, Recorded
  <2> QED BY <1>4, <2>1, <2>2
<1> SUFFICES /\ statusCode' \in [Requests -> Statuses]
             /\ answer' \in [Requests -> Statuses \cup {None}]
             /\ counted' \in [Requests -> Seq(Successes)]
  BY DEF ApiTypeOK
<1> HIDE DEF Statuses
<1>6. ASSUME NEW r \in Requests, NEW exception, Filter(r, exception)
      PROVE  /\ statusCode' \in [Requests -> Statuses]
             /\ answer' \in [Requests -> Statuses \cup {None}]
  BY <1>1, <1>4, <1>6 DEF Filter, Send
<1>7. ASSUME NEW r \in Requests, SetStatus(r)
      PROVE  statusCode' \in [Requests -> Statuses]
  BY <1>3, <1>4, <1>7 DEF SetStatus
<1> DEFINE Goal == /\ statusCode' \in [Requests -> Statuses]
                   /\ answer' \in [Requests -> Statuses \cup {None}]
                   /\ counted' \in [Requests -> Seq(Successes)]
<1>8. ASSUME NEW r \in Requests, NEW a \in Arrivals, Receive(r, a) PROVE Goal
  BY <1>4, <1>7, <1>8 DEF Receive
<1>9. ASSUME NEW r \in Requests, PassGuards(r) PROVE Goal
  BY <1>4, <1>6, <1>7, <1>9 DEF PassGuards
<1>10. ASSUME NEW r \in Requests, RejectBody(r) PROVE Goal
  <2>1. pc[r] \in LetIn
    BY <1>10 DEF RejectBody, LetIn
  <2> QED BY <1>5, <1>6, <1>10, <2>1 DEF RejectBody, RecordAndFilter
<1>11. ASSUME NEW r \in Requests, QueryThrows(r) PROVE Goal
  <2>1. pc[r] # "verify" => pc[r] \in LetIn
    BY <1>0, <1>11, BehindGuards DEF QueryThrows, Fail
  <2> QED BY <1>4, <1>5, <1>6, <1>11, <2>1 DEF QueryThrows, RecordAndFilter
<1>12. ASSUME NEW r \in Requests, Drop(r) PROVE Goal
  BY <1>4, <1>5, <1>12 DEF Drop, LetIn
<1>13. ASSUME NEW r \in Requests, RunHandler(r) PROVE Goal
  <2>1. CASE UNCHANGED <<statusCode, answer, counted>>
    BY <1>4, <2>1
  <2>2. CASE pc[r] \in LetIn /\ Return(r)
    <3>1. answer' = [answer EXCEPT ![r] = statusCode[r]] /\ statusCode' = statusCode
      BY <2>2 DEF Return, Send
    <3> QED BY <1>4, <1>5, <2>2, <3>1 DEF Return
  <2>3. CASE pc[r] \in LetIn /\ RecordAndFilter(r, "Forbidden")
    BY <1>5, <1>6, <2>3 DEF RecordAndFilter
  <2> QED
    BY <1>13, <2>1, <2>2, <2>3 DEF RunHandler, Reply, ReadProject,
       ReadOrganization, RefuseRead, LetIn
<1>14. ASSUME UNCHANGED <<statusCode, answer, counted>> PROVE Goal
  BY <1>4, <1>14
<1> QED
  BY <1>8, <1>9, <1>10, <1>11, <1>12, <1>13, <1>14 DEF ApiNext, apiVars

-----------------------------------------------------------------------------
(* The theorems *)

\* A pipeline without requests satisfies the invariant.
LEMMA ApiInvInit == ApiInit => ApiInv
<1> SUFFICES ASSUME ApiInit PROVE ApiInv
  OBVIOUS
<1>1. IInv
  BY InvariantInit DEF ApiInit
<1>2. ApiTypeOK
  BY DEF ApiInit, ApiTypeOK, Successes
<1>3. \A r \in Requests : pc[r] = "new" /\ answer[r] = None /\ counted[r] = <<>>
  BY DEF ApiInit, Init
<1>4. \A r \in Requests : Unanswered(r)
  BY <1>3 DEF Unanswered, LetIn
<1>5. None \notin Successes \cup Refusals \cup {400} /\ Len(<<>>) <= 1
  BY StatusAssumption DEF Successes, Refusals
<1>6. AnswerTellsEffect /\ LetInCountedOnce
  BY <1>3, <1>5 DEF AnswerTellsEffect, LetInCountedOnce, ToldTruly, CountedOnce
<1> QED BY <1>1, <1>2, <1>4, <1>6 DEF ApiInv

\* Every step of the pipeline preserves it.
LEMMA ApiStep ==
  ASSUME ApiInv, [ApiNext]_apiVars
  PROVE  ApiInv'
<1>1. IInv'
  BY StepRefines, InvariantStep DEF ApiInv
<1>2. ApiTypeOK'
  BY ApiTypeStep
<1>3. \A q \in Requests : Unanswered(q)' /\ ToldTruly(q)' /\ CountedOnce(q)'
  <2>1. ASSUME NEW r \in Requests, NEW a \in Arrivals, Receive(r, a)
        PROVE  \A q \in Requests : Unanswered(q)' /\ ToldTruly(q)' /\ CountedOnce(q)'
    BY <2>1, ReceiveStep
  <2>2. ASSUME NEW r \in Requests,
               \/ PassGuards(r) \/ RejectBody(r) \/ RunHandler(r)
               \/ QueryThrows(r) \/ Drop(r)
        PROVE  \A q \in Requests : Unanswered(q)' /\ ToldTruly(q)' /\ CountedOnce(q)'
    BY <2>2, PassGuardsStep, RejectStep, RunHandlerStep, QueryThrowsStep, DropStep
  <2>3. ASSUME \/ /\ \E k \in Requests : EndKey(k)
                  /\ UNCHANGED <<statusCode, answer, counted>>
               \/ UNCHANGED apiVars
        PROVE  \A q \in Requests : Unanswered(q)' /\ ToldTruly(q)' /\ CountedOnce(q)'
    BY <2>3, OperatorStep
  <2> QED BY <2>1, <2>2, <2>3 DEF ApiNext
<1> QED
  BY <1>1, <1>2, <1>3 DEF ApiInv, AnswerTellsEffect, LetInCountedOnce

\* The pipeline keeps the invariant: a request's status, answer and sample are
\* those of its stage, and what it was told is true of the tables.
THEOREM ApiInductive == ApiSpec => []ApiInv
<1>1. ApiInit => ApiInv
  BY ApiInvInit
<1>2. ApiInv /\ [ApiNext]_apiVars => ApiInv'
  BY ApiStep
<1> QED BY <1>1, <1>2, PTL DEF ApiSpec

\* Responses are statuses, and only successes are ever recorded.
THEOREM ResponsesTyped == ApiSpec => []ApiTypeOK
<1>1. ApiInv => ApiTypeOK
  BY DEF ApiInv
<1> QED BY <1>1, ApiInductive, PTL

\* 200 and 201 mean that everything asked for is committed, 4xx that nothing is
\* or will be, whatever failed on the way.
THEOREM AnswersAreTrue == ApiSpec => []AnswerTellsEffect
<1>1. ApiInv => AnswerTellsEffect
  BY DEF ApiInv
<1> QED BY <1>1, ApiInductive, PTL

\* No request is counted twice, none that was refused is counted, and whoever
\* committed rows and was answered is counted.
THEOREM CountersAreTrue == ApiSpec => []LetInCountedOnce
<1>1. ApiInv => LetInCountedOnce
  BY DEF ApiInv
<1> QED BY <1>1, ApiInductive, PTL
=============================================================================
