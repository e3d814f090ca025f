------------------------------ MODULE SdkRequests ------------------------------
(***************************************************************************)
(* The routes of harmonix-backend that operate on AWS (router.ts), all of  *)
(* them served by the ONE AWSSDKService that plugin.ts creates.            *)
(*                                                                         *)
(* A route logs in (getApiClient): it assumes the operations role of the   *)
(* provider named in the request and then puts the role's credentials,     *)
(* the account and the region into the shared service.  Every later call   *)
(* reads them from there when it is SENT, so a call made after an await    *)
(* carries the credentials of whichever request logged in last.            *)
(*                                                                         *)
(* One action is one continuation: what the event loop runs from the       *)
(* answer of one awaited call to the sending of the next.  Node drains the *)
(* microtask queue between two I/O callbacks, so a continuation is atomic; *)
(* in particular the three set... calls of a login and the sending of the  *)
(* route's first AWS call are one step.                                    *)
(***************************************************************************)
EXTENDS Naturals, Sequences

CONSTANTS Requests,   \* the requests that may be in flight together
          Providers,  \* the registered environment providers
          Account,    \* the AWS account each of them lives in
          Routes,     \* the routes exercised, a set of names of PlanOf
          None

ASSUME NoneAssumption == None \notin Providers

-------------------------------------------------------------------------------
(***************************************************************************)
(* What each route awaits.  "look" is a call that only finds out what the  *)
(* operation needs (the cluster's name in SSM, the old task definition),   *)
(* "act" the operation itself, "git" a file read through the platform API, *)
(* which does not use the credentials of the shared service.               *)
(***************************************************************************)
CallKind == {"look", "act", "git"}

Plan(calls, audited, after, catches) ==
  [calls   |-> calls,     \* awaited before the audit
   audited |-> audited,   \* whether the route writes an audit record
   after   |-> after,     \* awaited after the audit, when the route goes on
   catches |-> catches]   \* whether a failing operation is caught and audited

\* What the methods of the service send.  The routes on a cluster look its name up first.
ClusterCalls == <<"look", "act">>
\* A new task definition is made from the old one.
TaskDefinitionCalls == <<"look", "act">>
TaskDefinitionCall == <<"act">>
SecretCall == <<"act">>
ParameterCall == <<"act">>
LogCall == <<"act">>
TableCall == <<"act">>
\* It throws also when it cannot tell the service of a resource.
GroupCall == <<"act">>
StackCall == <<"act">>
DescribeCall == <<"act">>
FileCall == <<"act">>
FunctionCall == <<"act">>

ListTasks == Plan(ClusterCalls, TRUE, <<"look", "look">>, FALSE)
UpdateService == Plan(ClusterCalls, TRUE, <<>>, FALSE)
UpdateTaskDefinition == Plan(TaskDefinitionCalls, TRUE, <<>>, FALSE)
AuditEntries == Plan(<<"look", "act">>, TRUE, <<>>, FALSE)
DeleteStack == Plan(StackCall, TRUE, <<>>, FALSE)
FetchLogs == Plan(LogCall, TRUE, <<>>, FALSE)  \* and stream-events
FetchSecret == Plan(SecretCall, TRUE, <<>>, FALSE)
FetchParameter == Plan(ParameterCall, TRUE, <<>>, FALSE)
QueryTable == Plan(TableCall, TRUE, <<>>, FALSE)
InvokeLambda == Plan(FunctionCall, TRUE, <<>>, FALSE)  \* with an actionDescription
\* Without a git host in the body no parameters are fetched: the plan is DeleteStack's.
CreateStack == Plan(<<"git">> \o StackCall, TRUE, <<>>, FALSE)
UpdateStack == Plan(<<"git">> \o StackCall, TRUE, <<>>, FALSE)
ResourceGroup == Plan(GroupCall, TRUE, <<>>, TRUE)
DescribeStack == Plan(DescribeCall, FALSE, <<>>, FALSE)  \* and its events
DescribeTaskDefinition == Plan(TaskDefinitionCall, FALSE, <<>>, FALSE)
FileExists == Plan(FileCall, FALSE, <<>>, FALSE)

PlanOf ==
  [listTasks |-> ListTasks, updateService |-> UpdateService,
   updateTaskDefinition |-> UpdateTaskDefinition, auditEntries |-> AuditEntries,
   deleteStack |-> DeleteStack, fetchLogs |-> FetchLogs, fetchSecret |-> FetchSecret,
   fetchParameter |-> FetchParameter, queryTable |-> QueryTable, fileExists |-> FileExists,
   describeTaskDefinition |-> DescribeTaskDefinition, invokeLambda |-> InvokeLambda,
   createStack |-> CreateStack, updateStack |-> UpdateStack, describeStack |-> DescribeStack,
   resourceGroup |-> ResourceGroup]

ASSUME RoutesAssumption == Routes \subseteq DOMAIN PlanOf

-------------------------------------------------------------------------------
VARIABLES
  \* of the one AWSSDKService
  sdk,        \* whose credentials, account and region it holds
  \* of each request
  phase,      \* where its handler waits
  route,      \* the route it came in on
  subject,    \* the provider its body names
  todo,       \* the calls of the plan not answered yet, the first one in flight
  carries,    \* whose credentials the call in flight was sent with
  answer,     \* the status of the first response sent
  \* of the world
  auditTable, \* the requests each provider's audit table tells of
  \* what happened, for the properties
  log,        \* each request's answered calls, in order
  crossed,    \* whether a login for another provider came while it was served
  returned    \* whether the service came back to its account after a login elsewhere

vars == <<sdk, phase, route, subject, todo, carries, answer, auditTable, log, crossed,
          returned>>

Waiting == {"calls", "auditName", "auditPut", "after"}
Phase == {"idle", "login", "done"} \cup Waiting
Status == {"none", "200", "404", "500"}
Caller == Providers \cup {None}
Call == [kind : CallKind, by : Caller, ok : BOOLEAN]

TypeOK ==
  /\ sdk \in Caller
  /\ phase \in [Requests -> Phase]
  /\ route \in [Requests -> Routes \cup {None}]
  /\ subject \in [Requests -> Caller]
  /\ todo \in [Requests -> Seq(CallKind)]
  /\ carries \in [Requests -> Caller]
  /\ answer \in [Requests -> Status]
  /\ auditTable \in [Providers -> SUBSET Requests]
  /\ log \in [Requests -> Seq(Call)]
  /\ crossed \in [Requests -> BOOLEAN]
  /\ returned \in [Requests -> BOOLEAN]

Init ==
  /\ sdk = None
  /\ phase = [r \in Requests |-> "idle"]
  /\ route = [r \in Requests |-> None]
  /\ subject = [r \in Requests |-> None]
  /\ todo = [r \in Requests |-> <<>>]
  /\ carries = [r \in Requests |-> None]
  /\ answer = [r \in Requests |-> "none"]
  /\ auditTable = [p \in Providers |-> {}]
  /\ log = [r \in Requests |-> <<>>]
  /\ crossed = [r \in Requests |-> FALSE]
  /\ returned = [r \in Requests |-> FALSE]

-------------------------------------------------------------------------------
(* Pieces of a continuation. *)

\* These credentials are of the account the request is about.
OwnAccount(r, holder) == holder \in Providers /\ Account[holder] = Account[subject[r]]

\* What a login for provider p means for the requests being served.
Cross(p) ==
  /\ crossed' = [q \in Requests |-> crossed[q] \/ (phase[q] \in Waiting /\ subject[q] # p)]
  /\ returned' = [q \in Requests |->
       returned[q] \/ (phase[q] \in Waiting /\ ~OwnAccount(q, sdk) /\ OwnAccount(q, p))]

PlanFor(r) == PlanOf[route[r]]

\* The account is taken for the identity.
SlipSentWith(kind, holder) == IF kind = "git" THEN None ELSE Account[holder]

\* Whose credentials a call of this kind is sent with while the service holds `holder`.
SentWith(kind, holder) == IF kind = "git" THEN None ELSE holder

\* The audit keeps the credentials of its own request's login.
SlipAuditSentWith(r) == subject[r]

\* The clients of the audit are made anew, from what the service holds by then.
AuditSentWith(r) == sdk

\* The handler goes on to wait in phase ph, for the first of calls when there are any.
Await(r, ph, calls, by) ==
  /\ phase' = [phase EXCEPT ![r] = ph]
  /\ todo' = [todo EXCEPT ![r] = calls]
  /\ carries' = [carries EXCEPT ![r] = by]

\* Only the first response counts: a second one throws ERR_HTTP_HEADERS_SENT.
Reply(r, status) ==
  answer' = [answer EXCEPT ![r] = IF @ = "none" THEN status ELSE @]

Finish(r, status) ==
  /\ Await(r, "done", <<>>, None)
  /\ Reply(r, status)

\* The call in flight is answered, or it throws.
Answered(r, ok) ==
  log' = [log EXCEPT ![r] = Append(@, [kind |-> Head(todo[r]), by |-> carries[r], ok |-> ok])]

OperationFailed(r) == log[r] # <<>> /\ ~log[r][Len(log[r])].ok

-------------------------------------------------------------------------------
(* Logging in. *)

\* The request comes, its body is valid and its user known; AssumeRole is in flight.
Arrive(r) ==
  /\ phase[r] = "idle"
  /\ \E x \in Routes, p \in Providers :
       /\ route' = [route EXCEPT ![r] = x]
       /\ subject' = [subject EXCEPT ![r] = p]
  /\ phase' = [phase EXCEPT ![r] = "login"]
  /\ UNCHANGED <<sdk, todo, carries, answer, auditTable, log, crossed, returned>>

\* The user may not read the audit table, or the role cannot be assumed.
Refused(r) ==
  /\ phase[r] = "login"
  /\ Finish(r, "500")
  /\ UNCHANGED <<sdk, route, subject, auditTable, log, crossed, returned>>

\* The first call is sent while the service still holds what it held before.
SlipCallBeforeLogin(r) ==
  /\ phase[r] = "login"
  /\ sdk' = subject[r]
  /\ LET calls == PlanFor(r).calls IN Await(r, "calls", calls, SentWith(Head(calls), sdk))
  /\ Cross(subject[r])
  /\ UNCHANGED <<route, subject, answer, auditTable, log>>

\* The credentials are cached: only the first login sets them.
SlipCachedLogin(r) ==
  /\ phase[r] = "login"
  /\ sdk' = IF sdk = None THEN subject[r] ELSE sdk
  /\ LET calls == PlanFor(r).calls IN Await(r, "calls", calls, SentWith(Head(calls), sdk'))
  /\ Cross(subject[r])
  /\ UNCHANGED <<route, subject, answer, auditTable, log>>

\* The role is assumed: the shared service takes its credentials, and the route's
\* first call leaves with them.
LoggedIn(r) ==
  /\ phase[r] = "login"
  /\ sdk' = subject[r]
  /\ LET calls == PlanFor(r).calls IN Await(r, "calls", calls, SentWith(Head(calls), sdk'))
  /\ Cross(subject[r])
  /\ UNCHANGED <<route, subject, answer, auditTable, log>>

-------------------------------------------------------------------------------
(* The calls of the plan. *)

\* One call is answered and the handler sends the next, with what the service holds now.
NextCall(r) ==
  /\ phase[r] \in {"calls", "after"}
  /\ Tail(todo[r]) # <<>>
  /\ Answered(r, TRUE)
  /\ Await(r, phase[r], Tail(todo[r]), SentWith(Head(Tail(todo[r])), sdk))
  /\ UNCHANGED <<sdk, route, subject, answer, auditTable, crossed, returned>>

\* The audit is started and not awaited.
SlipAuditNotAwaited(r) ==
  /\ phase[r] = "calls"
  /\ Tail(todo[r]) = <<>>
  /\ PlanFor(r).audited
  /\ Answered(r, TRUE)
  /\ Await(r, "auditName", <<>>, AuditSentWith(r))
  /\ Reply(r, "200")
  /\ UNCHANGED <<sdk, route, subject, auditTable, crossed, returned>>

\* The operation is done: createAuditRecord looks up the audit table's name.
Operated(r) ==
  /\ phase[r] = "calls"
  /\ Tail(todo[r]) = <<>>
  /\ PlanFor(r).audited
  /\ Answered(r, TRUE)
  /\ Await(r, "auditName", <<>>, AuditSentWith(r))
  /\ UNCHANGED <<sdk, route, subject, answer, auditTable, crossed, returned>>

\* The last call is answered and nothing is left but the response.
Completed(r) ==
  /\ phase[r] \in {"calls", "after"}
  /\ Tail(todo[r]) = <<>>
  /\ phase[r] = "calls" => ~PlanFor(r).audited
  /\ Answered(r, TRUE)
  /\ Finish(r, "200")
  /\ UNCHANGED <<sdk, route, subject, auditTable, crossed, returned>>

\* A call throws and the handler's promise is rejected.
Threw(r) ==
  /\ phase[r] \in {"calls", "after"}
  /\ ~PlanFor(r).catches
  /\ Answered(r, FALSE)
  /\ Finish(r, "500")
  /\ UNCHANGED <<sdk, route, subject, auditTable, crossed, returned>>

\* The operation throws; the route catches it and audits the failure.
Caught(r) ==
  /\ phase[r] = "calls"
  /\ PlanFor(r).catches
  /\ Answered(r, FALSE)
  /\ Await(r, "auditName", <<>>, AuditSentWith(r))
  /\ UNCHANGED <<sdk, route, subject, answer, auditTable, crossed, returned>>

-------------------------------------------------------------------------------
(* The audit record. *)

\* A failed audit is never told to the client.
SlipGoOn(r, auditFailed) ==
  \/ /\ PlanFor(r).after # <<>>
     /\ Await(r, "after", PlanFor(r).after, sdk)
     /\ UNCHANGED answer
  \/ Finish(r, IF OperationFailed(r) THEN "500" ELSE "200")

\* After createAuditRecord.  A failed audit is answered with 500 and the handler, which
\* does not return, goes on to its own response all the same.
GoOn(r, auditFailed) ==
  \/ /\ PlanFor(r).after # <<>>
     /\ Await(r, "after", PlanFor(r).after, sdk)
     /\ IF auditFailed THEN Reply(r, "500") ELSE UNCHANGED answer
  \/ IF auditFailed THEN Finish(r, "500")
     ELSE IF OperationFailed(r) THEN Finish(r, "404") \/ Finish(r, "500")
     ELSE Finish(r, "200")

\* The parameter that names the table is read in the account of the credentials the
\* lookup carries: it is there only if that is the provider's own account.
AuditNamed(r) ==
  /\ phase[r] = "auditName"
  /\ OwnAccount(r, carries[r])
  /\ Await(r, "auditPut", <<>>, AuditSentWith(r))
  /\ UNCHANGED <<sdk, route, subject, answer, auditTable, log, crossed, returned>>

\* A failed audit ends the handler before it has answered.
SlipAuditSwallowed(r) ==
  /\ phase[r] = "auditName"
  /\ Await(r, "done", <<>>, None)
  /\ UNCHANGED <<sdk, route, subject, answer, auditTable, log, crossed, returned>>

\* The lookup throws; createAuditRecord catches it and returns FAILED.
AuditNameFailed(r) ==
  /\ phase[r] = "auditName"
  /\ GoOn(r, TRUE)
  /\ UNCHANGED <<sdk, route, subject, auditTable, log, crossed, returned>>

\* The item is put.  An operations role may write the tables of its own account.
AuditPut(r) ==
  /\ phase[r] = "auditPut"
  /\ OwnAccount(r, carries[r])
  /\ auditTable' = [auditTable EXCEPT ![subject[r]] = @ \cup {r}]
  /\ GoOn(r, FALSE)
  /\ UNCHANGED <<sdk, route, subject, log, crossed, returned>>

\* The put throws, and nothing catches it.
AuditPutThrew(r) ==
  /\ phase[r] = "auditPut"
  /\ Finish(r, "500")
  /\ UNCHANGED <<sdk, route, subject, auditTable, log, crossed, returned>>

-------------------------------------------------------------------------------
Continue(r) ==
  \/ LoggedIn(r) \/ Refused(r)
  \/ NextCall(r) \/ Operated(r) \/ Completed(r) \/ Threw(r) \/ Caught(r)
  \/ AuditNamed(r) \/ AuditNameFailed(r) \/ AuditPut(r) \/ AuditPutThrew(r)

\* Every request has been served: nothing is left to do.
Served ==
  /\ \A r \in Requests : phase[r] = "done"
  /\ UNCHANGED vars

Next == (\E r \in Requests : Arrive(r) \/ Continue(r)) \/ Served

\* The SDK's calls end, with an answer or with an error (they time out), and Node runs
\* every continuation that is ready.
Fairness == \A r \in Requests : WF_vars(Continue(r))

Spec == Init /\ [][Next]_vars

FairSpec == Spec /\ Fairness

-------------------------------------------------------------------------------
(* Properties. *)

OwnCall(r, c) == c.by \in {subject[r], None}

\* A route that starts with an AWS call sends that call with the credentials of its own
\* provider, however many requests log in at the same time: the login and the first call
\* are one continuation of getApiClient's caller.
FirstCallIsOwn ==
  \A r \in Requests :
    log[r] # <<>> /\ log[r][1].kind # "git" => log[r][1].by = subject[r]

\* A request that no login for another provider crosses makes all its calls, the audit's
\* included, with its own provider's credentials: sharing the service is harmless between
\* requests for the same provider and between requests that do not overlap.
UncrossedIsIsolated ==
  \A r \in Requests : ~crossed[r] =>
    /\ carries[r] \in {subject[r], None}
    /\ \A i \in DOMAIN log[r] : OwnCall(r, log[r][i])

\* An audit record is true: what the table of a provider says was done there was not done
\* in another account, although the operation, the lookup of the table and the write each
\* take whatever credentials the service holds.  A request that strayed finds no table to
\* write to, unless a third request brings the service back to its account in between.
AuditIsTrue ==
  \A p \in Providers : \A r \in auditTable[p] : ~returned[r] =>
    \A i \in DOMAIN log[r] : log[r][i].kind = "act" => OwnAccount(r, log[r][i].by)

\* An audited request that is answered with 200 has its record in its provider's table:
\* the missing return after the 500 of a failed audit never lets a 200 out.
SuccessIsAudited ==
  \A r \in Requests :
    answer[r] = "200" /\ PlanFor(r).audited
      => r \in auditTable[subject[r]]

\* Every request that logs in is answered, whatever throws on the way.
EveryRequestIsAnswered ==
  \A r \in Requests : phase[r] = "login" ~> answer[r] # "none"

\* What the entity model promises of providers (entities.md: "Isolated from other
\* providers / accounts"): no request ever uses another provider's credentials.
IsolatedProviders ==
  \A r \in Requests : \A i \in DOMAIN log[r] : OwnCall(r, log[r][i])

-------------------------------------------------------------------------------
(* The audit trail this implements. *)

Tried(r) == \E i \in DOMAIN log[r] : log[r][i].kind = "act"

Confirmed(r) == answer[r] = "200" /\ PlanFor(r).audited

Trail == INSTANCE AuditTrail WITH
  tried <- {r \in Requests : Tried(r)},
  trail <- auditTable,
  confirmed <- {r \in Requests : Confirmed(r)}

\* The service implements the audit trail: one record at most for a request, after the
\* operation was tried and before success is confirmed, and no record is ever lost.
AuditTrailKept == Trail!Spec
===============================================================================
