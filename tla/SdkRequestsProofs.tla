--------------------------- MODULE SdkRequestsProofs ---------------------------
(***************************************************************************)
(* Proofs about SdkRequests, for any set of requests, of providers and of  *)
(* routes.  Inv is inductive: its first part says how far each handler     *)
(* is, the second whose credentials it works with, the third what the      *)
(* audit tables hold.                                                      *)
(***************************************************************************)
EXTENDS SdkRequests, SequenceTheorems, TLAPS

-------------------------------------------------------------------------------
(* What the proofs need of the plans. *)

PlanShape(plan) ==
  /\ plan.calls \in Seq(CallKind)
  /\ plan.after \in Seq(CallKind)
  /\ plan.calls # <<>>
  /\ plan.audited => plan.calls[Len(plan.calls)] = "act"
  /\ plan.catches => \A i \in DOMAIN plan.calls : plan.calls[i] = "act"
  /\ \A i \in DOMAIN plan.after : plan.after[i] = "look"

\* Every route awaits at least one call before its audit; the last of them is the
\* operation itself, and nothing after the audit operates again.
LEMMA PlansAreShaped == \A x \in Routes : PlanShape(PlanOf[x])
<1> USE DEF PlanShape, Plan, CallKind, ClusterCalls, TaskDefinitionCalls
<1>1. PlanShape(ListTasks)  BY DEF ListTasks
<1>2. PlanShape(UpdateService)  BY DEF UpdateService
<1>3. PlanShape(UpdateTaskDefinition)  BY DEF UpdateTaskDefinition
<1>4. PlanShape(AuditEntries)  BY DEF AuditEntries
<1>5. PlanShape(DeleteStack) /\ PlanShape(DescribeStack)
  BY DEF DeleteStack, DescribeStack, StackCall, DescribeCall
<1>6. PlanShape(FetchLogs)  BY DEF FetchLogs, LogCall
<1>7. PlanShape(FetchSecret) /\ PlanShape(QueryTable)
  BY DEF FetchSecret, QueryTable, SecretCall, TableCall
<1>8. PlanShape(InvokeLambda)  BY DEF InvokeLambda, FunctionCall
<1>9. PlanShape(CreateStack)  BY DEF CreateStack, StackCall
<1>10. PlanShape(UpdateStack)  BY DEF UpdateStack, StackCall
<1>11. PlanShape(ResourceGroup)  BY DEF ResourceGroup, GroupCall
<1>12. PlanShape(FetchParameter) /\ PlanShape(FileExists) /\ PlanShape(DescribeTaskDefinition)
  BY DEF FetchParameter, FileExists, DescribeTaskDefinition, ParameterCall, FileCall,
         TaskDefinitionCall
<1>13. \A x \in DOMAIN PlanOf :
         PlanOf[x] \in {ListTasks, UpdateService, UpdateTaskDefinition, AuditEntries,
                        DeleteStack, FetchLogs, FetchSecret, QueryTable, InvokeLambda, CreateStack,
                        UpdateStack, ResourceGroup, DescribeStack, FetchParameter, FileExists,
                        DescribeTaskDefinition}
  BY DEF PlanOf
<1> HIDE DEF PlanShape
<1> QED
  BY <1>1, <1>2, <1>3, <1>4, <1>5, <1>6, <1>7, <1>8, <1>9, <1>10, <1>11, <1>12, <1>13,
     RoutesAssumption

-------------------------------------------------------------------------------
(* The inductive invariant. *)

\* How far the handler is: what it still awaits is the rest of its plan.
ProgressOf(r) ==
  /\ phase[r] = "idle" => subject[r] = None
  /\ phase[r] # "idle" => route[r] \in Routes /\ subject[r] \in Providers
  /\ phase[r] \in {"idle", "login"} =>
       log[r] = <<>> /\ carries[r] = None /\ answer[r] = "none"
  /\ phase[r] = "calls" =>
       /\ todo[r] # <<>>
       /\ PlanFor(r).audited => todo[r][Len(todo[r])] = "act"
       /\ PlanFor(r).catches => \A i \in DOMAIN todo[r] : todo[r][i] = "act"
  /\ phase[r] = "after" => todo[r] # <<>> /\ \A i \in DOMAIN todo[r] : todo[r][i] = "look"
  /\ phase[r] \in {"auditName", "auditPut", "after"} => Tried(r)

\* Whose credentials the handler works with.
LogIsOwn(r) == \A i \in DOMAIN log[r] : OwnCall(r, log[r][i])

FirstIsOwn(r) == log[r] # <<>> /\ log[r][1].kind # "git" => log[r][1].by = subject[r]

IdentityOf(r) ==
  /\ ~crossed[r] => /\ phase[r] \in Waiting => sdk = subject[r]
                    /\ carries[r] \in {subject[r], None}
                    /\ LogIsOwn(r)
  /\ phase[r] = "calls" /\ log[r] = <<>> /\ todo[r][1] # "git" => carries[r] = subject[r]
  /\ FirstIsOwn(r)

\* The operations of r went to the account it is about.
ActsOwn(r) ==
  \A i \in DOMAIN log[r] : log[r][i].kind = "act" => OwnAccount(r, log[r][i].by)

\* An operation of r went, or is on its way, to another account.
Strayed(r) == ~ActsOwn(r) \/ (todo[r][1] = "act" /\ ~OwnAccount(r, carries[r]))

\* Unless the service came back to the account of r, a strayed operation leaves the
\* service in a foreign account, and its audit with the credentials of one.
TruthOf(r) == ~returned[r] =>
  /\ phase[r] = "calls" /\ Strayed(r) => ~OwnAccount(r, sdk)
  /\ phase[r] \in {"auditName", "auditPut"} /\ OwnAccount(r, carries[r]) => ActsOwn(r)
  /\ phase[r] = "auditPut" => ActsOwn(r)

\* What a provider's audit table holds.
TableOf(p) ==
  \A r \in auditTable[p] :
    /\ subject[r] = p /\ phase[r] \in {"after", "done"}
    /\ ~returned[r] => ActsOwn(r)

\* What a request's answer says of its audit record.
AuditOf(r) ==
  /\ answer[r] = "200" /\ PlanFor(r).audited => r \in auditTable[subject[r]]
  /\ phase[r] = "after" /\ answer[r] = "none" => r \in auditTable[subject[r]]

Progress == \A r \in Requests : ProgressOf(r)
Identity == \A r \in Requests : IdentityOf(r)
Truth == \A r \in Requests : TruthOf(r)
Audits == (\A p \in Providers : TableOf(p)) /\ (\A r \in Requests : AuditOf(r))

Inv == TypeOK /\ Progress /\ Identity /\ Truth /\ Audits

-------------------------------------------------------------------------------
(* What the pieces of a continuation do to the types. *)

\* A handler that awaits keeps its phase, its calls and its identity well typed.
LEMMA AwaitType ==
  ASSUME TypeOK, NEW r \in Requests, NEW ph \in Phase, NEW calls \in Seq(CallKind),
         NEW by \in Caller, Await(r, ph, calls, by)
  PROVE  /\ phase' \in [Requests -> Phase]
         /\ todo' \in [Requests -> Seq(CallKind)]
         /\ carries' \in [Requests -> Caller]
BY DEF TypeOK, Await

\* A response has one of the statuses.
LEMMA ReplyType ==
  ASSUME TypeOK, NEW r \in Requests, NEW status \in Status, Reply(r, status)
  PROVE  answer' \in [Requests -> Status]
BY DEF TypeOK, Reply

\* A handler that ends is well typed.
LEMMA FinishType ==
  ASSUME TypeOK, NEW r \in Requests, NEW status \in Status, Finish(r, status)
  PROVE  /\ phase' \in [Requests -> Phase]
         /\ todo' \in [Requests -> Seq(CallKind)]
         /\ carries' \in [Requests -> Caller]
         /\ answer' \in [Requests -> Status]
<1>1. "done" \in Phase /\ <<>> \in Seq(CallKind) /\ None \in Caller
  BY DEF Phase, Caller
<1> QED
  BY <1>1, AwaitType, ReplyType DEF Finish

\* An answered call goes into the log well typed.
LEMMA AnsweredType ==
  ASSUME TypeOK, NEW r \in Requests, NEW ok \in BOOLEAN, todo[r] # <<>>, Answered(r, ok)
  PROVE  log' \in [Requests -> Seq(Call)]
<1>1. Head(todo[r]) \in CallKind
  BY DEF TypeOK
<1>2. [kind |-> Head(todo[r]), by |-> carries[r], ok |-> ok] \in Call
  BY <1>1 DEF TypeOK, Call
<1> QED
  BY <1>2 DEF TypeOK, Answered

\* What follows the audit is well typed.
LEMMA GoOnType ==
  ASSUME TypeOK, NEW r \in Requests, route[r] \in Routes, NEW auditFailed \in BOOLEAN,
         GoOn(r, auditFailed)
  PROVE  /\ phase' \in [Requests -> Phase]
         /\ todo' \in [Requests -> Seq(CallKind)]
         /\ carries' \in [Requests -> Caller]
         /\ answer' \in [Requests -> Status]
<1>1. PlanFor(r).after \in Seq(CallKind)
  BY PlansAreShaped DEF PlanShape, PlanFor
<1>2. {"200", "404", "500"} \subseteq Status /\ "after" \in Phase /\ sdk \in Caller
  BY DEF TypeOK, Status, Phase, Waiting
<1>3. CASE \E status \in {"200", "404", "500"} : Finish(r, status)
  BY <1>2, <1>3, FinishType
<1>4. CASE /\ Await(r, "after", PlanFor(r).after, sdk)
           /\ Reply(r, "500") \/ UNCHANGED answer
  <2>1. answer' \in [Requests -> Status]
    BY <1>2, <1>4, ReplyType DEF TypeOK
  <2> QED
    BY <1>1, <1>2, <1>4, <2>1, AwaitType
<1> QED
  BY <1>3, <1>4 DEF GoOn

-------------------------------------------------------------------------------
(* What the pieces of a continuation do to the request they belong to, and that they *)
(* leave every other request alone. *)

\* What a step may change about a request, unchanged for q.
Alone(q) ==
  /\ phase'[q] = phase[q] /\ route'[q] = route[q] /\ subject'[q] = subject[q]
  /\ todo'[q] = todo[q] /\ carries'[q] = carries[q] /\ answer'[q] = answer[q]
  /\ log'[q] = log[q]

\* Await moves the request it is for, and no other.
LEMMA AwaitEffect ==
  ASSUME TypeOK, NEW r \in Requests, NEW ph, NEW calls, NEW by, Await(r, ph, calls, by)
  PROVE  /\ phase'[r] = ph /\ todo'[r] = calls /\ carries'[r] = by
         /\ \A q \in Requests : q # r =>
              phase'[q] = phase[q] /\ todo'[q] = todo[q] /\ carries'[q] = carries[q]
BY DEF TypeOK, Await

\* Reply sets the answer of the request it is for, the first time only.
LEMMA ReplyEffect ==
  ASSUME TypeOK, NEW r \in Requests, NEW status, Reply(r, status)
  PROVE  /\ answer'[r] = IF answer[r] = "none" THEN status ELSE answer[r]
         /\ \A q \in Requests : q # r => answer'[q] = answer[q]
BY DEF TypeOK, Reply

\* Finish ends the request it is for, and no other.
LEMMA FinishEffect ==
  ASSUME TypeOK, NEW r \in Requests, NEW status, Finish(r, status)
  PROVE  /\ phase'[r] = "done" /\ carries'[r] = None
         /\ answer'[r] = IF answer[r] = "none" THEN status ELSE answer[r]
         /\ \A q \in Requests : q # r =>
              /\ phase'[q] = phase[q] /\ todo'[q] = todo[q] /\ carries'[q] = carries[q]
              /\ answer'[q] = answer[q]
BY AwaitEffect, ReplyEffect DEF Finish

\* Answered appends the call in flight to its request's log, and to no other.
LEMMA AnsweredEffect ==
  ASSUME TypeOK, NEW r \in Requests, NEW ok \in BOOLEAN, todo[r] # <<>>, Answered(r, ok)
  PROVE  /\ DOMAIN log'[r] = 1 .. (Len(log[r]) + 1)
         /\ \A i \in DOMAIN log[r] : i \in DOMAIN log'[r] /\ log'[r][i] = log[r][i]
         /\ log'[r][Len(log[r]) + 1] =
              [kind |-> todo[r][1], by |-> carries[r], ok |-> ok]
         /\ log'[r] # <<>>
         /\ \A q \in Requests : q # r => log'[q] = log[q]
<1> DEFINE call == [kind |-> Head(todo[r]), by |-> carries[r], ok |-> ok]
<1>1. Head(todo[r]) = todo[r][1] /\ Head(todo[r]) \in CallKind
  BY DEF TypeOK
<1>2. log'[r] = Append(log[r], call) /\ \A q \in Requests : q # r => log'[q] = log[q]
  BY DEF TypeOK, Answered
<1>3. call \in Call /\ log[r] \in Seq(Call)
  BY <1>1 DEF TypeOK, Call
<1> HIDE DEF call
<1>4. /\ Len(Append(log[r], call)) = Len(log[r]) + 1
      /\ DOMAIN Append(log[r], call) = 1 .. (Len(log[r]) + 1)
      /\ \A i \in 1 .. Len(log[r]) : Append(log[r], call)[i] = log[r][i]
      /\ Append(log[r], call)[Len(log[r]) + 1] = call
      /\ Append(log[r], call) # <<>>
      /\ DOMAIN log[r] = 1 .. Len(log[r])
  BY <1>3
<1> QED
  BY <1>1, <1>2, <1>4 DEF call

\* After the audit the handler ends or goes on; a failed audit never brings a 200.
LEMMA GoOnEffect ==
  ASSUME TypeOK, NEW r \in Requests, route[r] \in Routes, NEW auditFailed \in BOOLEAN,
         GoOn(r, auditFailed)
  PROVE  /\ \/ phase'[r] = "done" /\ carries'[r] = None
            \/ /\ phase'[r] = "after" /\ carries'[r] = sdk
               /\ todo'[r] = PlanFor(r).after /\ todo'[r] # <<>>
         /\ auditFailed => answer'[r] # "none" /\ (answer'[r] = "200" => answer[r] = "200")
         /\ answer[r] # "none" => answer'[r] = answer[r]
         /\ \A q \in Requests : q # r =>
              /\ phase'[q] = phase[q] /\ todo'[q] = todo[q] /\ carries'[q] = carries[q]
              /\ answer'[q] = answer[q]
<1>1. CASE /\ PlanFor(r).after # <<>>
           /\ Await(r, "after", PlanFor(r).after, sdk)
           /\ IF auditFailed THEN Reply(r, "500") ELSE UNCHANGED answer
  BY <1>1, AwaitEffect, ReplyEffect
<1>2. CASE IF auditFailed THEN Finish(r, "500")
           ELSE \E status \in {"200", "404", "500"} : Finish(r, status)
  BY <1>2, FinishEffect
<1> QED
  BY <1>1, <1>2 DEF GoOn

\* Every step keeps the types.
LEMMA TypeStep == Inv /\ [Next]_vars => TypeOK'
<1> SUFFICES ASSUME Inv, [Next]_vars
             PROVE  TypeOK'
  OBVIOUS
<1> USE DEF Inv, Progress
<1>1. ASSUME NEW r \in Requests, Arrive(r) PROVE TypeOK'
  <2>1. PICK x \in Routes, p \in Providers : /\ route' = [route EXCEPT ![r] = x]
                                            /\ subject' = [subject EXCEPT ![r] = p]
    BY <1>1 DEF Arrive
  <2>2. /\ route' \in [Requests -> Routes \cup {None}]
        /\ subject' \in [Requests -> Caller]
        /\ phase' \in [Requests -> Phase]
    BY <1>1, <2>1 DEF TypeOK, Arrive, Caller, Phase
  <2> QED
    BY <1>1, <2>2 DEF TypeOK, Arrive
<1>2. ASSUME NEW r \in Requests, Refused(r) PROVE TypeOK'
  BY <1>2, FinishType DEF TypeOK, ProgressOf, Refused, Phase, Waiting, Status, Caller
<1>3. ASSUME NEW r \in Requests, LoggedIn(r) PROVE TypeOK'
  <2>1. \A q \in Requests : /\ (crossed[q] \/ (phase[q] \in Waiting /\ subject[q] # subject[r])) \in BOOLEAN
                            /\ (returned[q] \/ (phase[q] \in Waiting /\ ~OwnAccount(q, sdk)
                                                 /\ OwnAccount(q, subject[r]))) \in BOOLEAN
    OBVIOUS
  <2>2. crossed' \in [Requests -> BOOLEAN] /\ returned' \in [Requests -> BOOLEAN]
    BY <1>3, <2>1, Zenon DEF LoggedIn, Cross
  <2> QED
    BY <1>3, <2>2, AwaitType, PlansAreShaped
       DEF TypeOK, ProgressOf, LoggedIn, Phase, Waiting, Status, Caller, PlanFor, PlanShape,
           SentWith
<1>4. ASSUME NEW r \in Requests, NextCall(r) PROVE TypeOK'
  <2>1. /\ phase[r] \in Phase
        /\ Tail(todo[r]) \in Seq(CallKind)
        /\ SentWith(Head(Tail(todo[r])), sdk) \in Caller
    BY <1>4 DEF TypeOK, ProgressOf, NextCall, SentWith, Caller
  <2>2. /\ phase' \in [Requests -> Phase]
        /\ todo' \in [Requests -> Seq(CallKind)]
        /\ carries' \in [Requests -> Caller]
    BY <1>4, <2>1, AwaitType DEF NextCall
  <2>3. log' \in [Requests -> Seq(Call)]
    BY <1>4, AnsweredType DEF NextCall, ProgressOf
  <2> QED
    BY <1>4, <2>2, <2>3 DEF TypeOK, NextCall
<1>5. ASSUME NEW r \in Requests, Operated(r) PROVE TypeOK'
  <2>1. "auditName" \in Phase /\ <<>> \in Seq(CallKind) /\ sdk \in Caller
    BY DEF TypeOK, Phase, Waiting
  <2>2. /\ phase' \in [Requests -> Phase]
        /\ todo' \in [Requests -> Seq(CallKind)]
        /\ carries' \in [Requests -> Caller]
    BY <1>5, <2>1, AwaitType DEF Operated, AuditSentWith
  <2>3. log' \in [Requests -> Seq(Call)]
    BY <1>5, AnsweredType DEF Operated, ProgressOf
  <2> QED
    BY <1>5, <2>2, <2>3 DEF TypeOK, Operated
<1>6. ASSUME NEW r \in Requests, Completed(r) PROVE TypeOK'
  BY <1>6, FinishType, AnsweredType
     DEF TypeOK, ProgressOf, Completed, Phase, Waiting, Status, Caller
<1>7. ASSUME NEW r \in Requests, Threw(r) PROVE TypeOK'
  BY <1>7, FinishType, AnsweredType
     DEF TypeOK, ProgressOf, Threw, Phase, Waiting, Status, Caller
<1>8. ASSUME NEW r \in Requests, Caught(r) PROVE TypeOK'
  <2>1. "auditName" \in Phase /\ <<>> \in Seq(CallKind) /\ sdk \in Caller
    BY DEF TypeOK, Phase, Waiting
  <2>2. /\ phase' \in [Requests -> Phase]
        /\ todo' \in [Requests -> Seq(CallKind)]
        /\ carries' \in [Requests -> Caller]
    BY <1>8, <2>1, AwaitType DEF Caught, AuditSentWith
  <2>3. log' \in [Requests -> Seq(Call)]
    BY <1>8, AnsweredType DEF Caught, ProgressOf
  <2> QED
    BY <1>8, <2>2, <2>3 DEF TypeOK, Caught
<1>9. ASSUME NEW r \in Requests, AuditNamed(r) PROVE TypeOK'
  <2>1. "auditPut" \in Phase /\ <<>> \in Seq(CallKind) /\ sdk \in Caller
    BY DEF TypeOK, Phase, Waiting
  <2>2. /\ phase' \in [Requests -> Phase]
        /\ todo' \in [Requests -> Seq(CallKind)]
        /\ carries' \in [Requests -> Caller]
    BY <1>9, <2>1, AwaitType DEF AuditNamed, AuditSentWith
  <2> QED
    BY <1>9, <2>2 DEF TypeOK, AuditNamed
<1>10. ASSUME NEW r \in Requests, AuditNameFailed(r) PROVE TypeOK'
  BY <1>10, GoOnType DEF TypeOK, ProgressOf, AuditNameFailed, Phase, Waiting, Status, Caller
<1>11. ASSUME NEW r \in Requests, AuditPut(r) PROVE TypeOK'
  <2>1. subject[r] \in Providers /\ route[r] \in Routes
    BY <1>11 DEF AuditPut, ProgressOf
  <2>2. auditTable' \in [Providers -> SUBSET Requests]
    BY <1>11, <2>1 DEF AuditPut, TypeOK
  <2> QED
    BY <1>11, <2>1, <2>2, GoOnType DEF TypeOK, AuditPut
<1>12. ASSUME NEW r \in Requests, AuditPutThrew(r) PROVE TypeOK'
  BY <1>12, FinishType DEF TypeOK, ProgressOf, AuditPutThrew, Phase, Waiting, Status, Caller
<1>13. CASE UNCHANGED vars
  BY <1>13 DEF TypeOK, vars
<1> QED
  BY <1>1, <1>2, <1>3, <1>4, <1>5, <1>6, <1>7, <1>8, <1>9, <1>10, <1>11, <1>12, <1>13
     DEF Next, Continue, Served

\* A step of one request leaves every other request alone.
LEMMA OthersAlone ==
  ASSUME TypeOK, NEW r \in Requests, NEW q \in Requests, q # r, ProgressOf(r),
         Arrive(r) \/ Continue(r)
  PROVE  Alone(q)
<1> USE DEF Alone
<1>1. /\ phase[r] \in {"calls", "after"} => todo[r] # <<>>
      /\ phase[r] # "idle" => route[r] \in Routes
  BY DEF ProgressOf
<1>2. CASE Arrive(r)
  BY <1>2 DEF TypeOK, Arrive
<1>3. CASE Refused(r)
  BY <1>3, FinishEffect DEF Refused
<1>4. CASE LoggedIn(r)
  BY <1>4, AwaitEffect DEF LoggedIn
<1>5. CASE NextCall(r)
  <2>1. log'[q] = log[q]
    BY <1>1, <1>5, AnsweredEffect DEF NextCall
  <2> QED
    BY <1>5, <2>1, AwaitEffect DEF NextCall
<1>6. CASE Operated(r)
  <2>1. log'[q] = log[q]
    BY <1>1, <1>6, AnsweredEffect DEF Operated
  <2> QED
    BY <1>6, <2>1, AwaitEffect DEF Operated
<1>7. CASE Completed(r)
  <2>1. log'[q] = log[q]
    BY <1>1, <1>7, AnsweredEffect DEF Completed
  <2> QED
    BY <1>7, <2>1, FinishEffect DEF Completed
<1>8. CASE Threw(r)
  <2>1. log'[q] = log[q]
    BY <1>1, <1>8, AnsweredEffect DEF Threw
  <2> QED
    BY <1>8, <2>1, FinishEffect DEF Threw
<1>9. CASE Caught(r)
  <2>1. log'[q] = log[q]
    BY <1>1, <1>9, AnsweredEffect DEF Caught
  <2> QED
    BY <1>9, <2>1, AwaitEffect DEF Caught
<1>10. CASE AuditNamed(r)
  BY <1>10, AwaitEffect DEF AuditNamed
<1>11. CASE AuditNameFailed(r)
  BY <1>1, <1>11, GoOnEffect DEF AuditNameFailed
<1>12. CASE AuditPut(r)
  BY <1>1, <1>12, GoOnEffect DEF AuditPut
<1>13. CASE AuditPutThrew(r)
  BY <1>13, FinishEffect DEF AuditPutThrew
<1> QED
  BY <1>2, <1>3, <1>4, <1>5, <1>6, <1>7, <1>8, <1>9, <1>10, <1>11, <1>12, <1>13 DEF Continue

-------------------------------------------------------------------------------
(* How far the handlers are. *)

\* A request stays tried, and becomes tried when its operation is answered.
LEMMA AnsweredTried ==
  ASSUME TypeOK, NEW r \in Requests, NEW ok \in BOOLEAN, todo[r] # <<>>, Answered(r, ok),
         Tried(r) \/ todo[r][1] = "act"
  PROVE  Tried(r)'
<1>1. CASE Tried(r)
  BY <1>1, AnsweredEffect DEF Tried
<1>2. CASE todo[r][1] = "act"
  <2>1. Len(log[r]) \in Nat
    BY DEF TypeOK
  <2>2. /\ DOMAIN log'[r] = 1 .. (Len(log[r]) + 1)
        /\ log'[r][Len(log[r]) + 1] =
             [kind |-> todo[r][1], by |-> carries[r], ok |-> ok]
    BY AnsweredEffect
  <2>3. Len(log[r]) + 1 \in DOMAIN log'[r]
    BY <2>1, <2>2
  <2>4. log'[r][Len(log[r]) + 1].kind = "act"
    BY <1>2, <2>2
  <2> QED
    BY <2>3, <2>4 DEF Tried
<1> QED
  BY <1>1, <1>2

\* The request that takes the step.
LEMMA OwnProgress ==
  ASSUME Inv, NEW r \in Requests, Arrive(r) \/ Continue(r)
  PROVE  ProgressOf(r)'
<1> USE DEF Inv, Progress
<1>1. CASE Arrive(r)
  BY <1>1 DEF TypeOK, ProgressOf, Arrive
<1>2. CASE Refused(r)
  BY <1>2, FinishEffect DEF ProgressOf, Refused
<1>3. CASE LoggedIn(r)
  BY <1>3, AwaitEffect, PlansAreShaped DEF ProgressOf, LoggedIn, PlanShape, PlanFor
<1>4. CASE NextCall(r)
  <2>1. /\ todo[r] \in Seq(CallKind) /\ todo[r] # <<>>
        /\ route'[r] = route[r] /\ subject'[r] = subject[r]
    BY <1>4 DEF TypeOK, ProgressOf, NextCall
  <2>2. phase'[r] = phase[r] /\ todo'[r] = Tail(todo[r])
    BY <1>4, AwaitEffect DEF NextCall
  <2>3. /\ Len(Tail(todo[r])) = Len(todo[r]) - 1
        /\ Tail(todo[r])[Len(Tail(todo[r]))] = todo[r][Len(todo[r])]
        /\ \A i \in DOMAIN Tail(todo[r]) :
             i + 1 \in DOMAIN todo[r] /\ Tail(todo[r])[i] = todo[r][i + 1]
    BY <1>4, <2>1 DEF NextCall
  <2>4. phase[r] = "after" => Tried(r)'
    BY <1>4, <2>1, AnsweredTried DEF NextCall, ProgressOf
  <2> QED
    BY <1>4, <2>1, <2>2, <2>3, <2>4 DEF ProgressOf, PlanFor, NextCall
<1>5. CASE Operated(r)
  <2>1. todo[r] \in Seq(CallKind) /\ todo[r] # <<>> /\ todo[r][Len(todo[r])] = "act"
    BY <1>5 DEF TypeOK, ProgressOf, Operated
  <2>2. todo[r][1] = "act"
    <3>1. Tail(todo[r]) = <<>>
      BY <1>5 DEF Operated
    <3>2. Len(Tail(todo[r])) = Len(todo[r]) - 1 /\ Len(todo[r]) \in Nat
      BY <2>1
    <3>3. Len(Tail(todo[r])) = 0
      BY <2>1, <3>1, EmptySeq
    <3>4. Len(todo[r]) = 1
      BY <3>2, <3>3
    <3> QED
      BY <2>1, <3>4
  <2>3. Tried(r)'
    BY <1>5, <2>1, <2>2, AnsweredTried DEF Operated
  <2> QED
    BY <1>5, <2>3, AwaitEffect DEF ProgressOf, Operated
<1>6. CASE Completed(r)
  BY <1>6, FinishEffect DEF ProgressOf, Completed
<1>7. CASE Threw(r)
  BY <1>7, FinishEffect DEF ProgressOf, Threw
<1>8. CASE Caught(r)
  <2>1. todo[r] \in Seq(CallKind) /\ todo[r] # <<>> /\ todo[r][1] = "act"
    BY <1>8 DEF TypeOK, ProgressOf, Caught
  <2>2. Tried(r)'
    BY <1>8, <2>1, AnsweredTried DEF Caught
  <2> QED
    BY <1>8, <2>2, AwaitEffect DEF ProgressOf, Caught
<1>9. CASE AuditNamed(r)
  BY <1>9, AwaitEffect DEF ProgressOf, Tried, AuditNamed
<1>10. CASE AuditNameFailed(r)
  <2>1. /\ route[r] \in Routes /\ route'[r] = route[r] /\ subject'[r] = subject[r]
        /\ subject[r] \in Providers /\ Tried(r)'
    BY <1>10 DEF ProgressOf, Tried, AuditNameFailed
  <2>2. \A i \in DOMAIN PlanFor(r).after : PlanFor(r).after[i] = "look"
    BY <2>1, PlansAreShaped DEF PlanShape, PlanFor
  <2>3. \/ phase'[r] = "done"
        \/ phase'[r] = "after" /\ todo'[r] = PlanFor(r).after /\ todo'[r] # <<>>
    BY <1>10, <2>1, GoOnEffect DEF AuditNameFailed
  <2> QED
    BY <2>1, <2>2, <2>3 DEF ProgressOf
<1>11. CASE AuditPut(r)
  <2>1. /\ route[r] \in Routes /\ route'[r] = route[r] /\ subject'[r] = subject[r]
        /\ subject[r] \in Providers /\ Tried(r)'
    BY <1>11 DEF ProgressOf, Tried, AuditPut
  <2>2. \A i \in DOMAIN PlanFor(r).after : PlanFor(r).after[i] = "look"
    BY <2>1, PlansAreShaped DEF PlanShape, PlanFor
  <2>3. \/ phase'[r] = "done"
        \/ phase'[r] = "after" /\ todo'[r] = PlanFor(r).after /\ todo'[r] # <<>>
    BY <1>11, <2>1, GoOnEffect DEF AuditPut
  <2> QED
    BY <2>1, <2>2, <2>3 DEF ProgressOf
<1>12. CASE AuditPutThrew(r)
  BY <1>12, FinishEffect DEF ProgressOf, AuditPutThrew
<1> QED
  BY <1>1, <1>2, <1>3, <1>4, <1>5, <1>6, <1>7, <1>8, <1>9, <1>10, <1>11, <1>12 DEF Continue

\* Every step keeps every handler within its plan.
LEMMA ProgressStep == Inv /\ [Next]_vars => Progress'
<1> SUFFICES ASSUME Inv, [Next]_vars, NEW q \in Requests
             PROVE  ProgressOf(q)'
  BY DEF Progress
<1>1. ProgressOf(q) /\ TypeOK
  BY DEF Inv, Progress
<1>2. CASE UNCHANGED vars
  BY <1>1, <1>2 DEF vars, ProgressOf, PlanFor, Tried
<1>3. ASSUME NEW r \in Requests, Arrive(r) \/ Continue(r), q # r
      PROVE  ProgressOf(q)'
  <2>1. Alone(q)
    BY <1>3, OthersAlone DEF Inv, Progress
  <2> QED
    BY <1>1, <2>1 DEF Alone, ProgressOf, PlanFor, Tried
<1> QED
  BY <1>2, <1>3, OwnProgress DEF Next, Served

-------------------------------------------------------------------------------
(* Whose credentials the handlers work with. *)

\* An answered call is the request's own as long as no other provider's login crosses it.
LEMMA AnsweredIdentity ==
  ASSUME Inv, NEW r \in Requests, NEW ok \in BOOLEAN, phase[r] \in {"calls", "after"},
         Answered(r, ok), subject'[r] = subject[r]
  PROVE  /\ ~crossed[r] => LogIsOwn(r)'
         /\ FirstIsOwn(r)'
         /\ log'[r] # <<>>
<1>1. ProgressOf(r) /\ IdentityOf(r) /\ TypeOK
  BY DEF Inv, Progress, Identity
<1>2. todo[r] # <<>> /\ log[r] \in Seq(Call) /\ Len(log[r]) \in Nat
  BY <1>1 DEF ProgressOf, TypeOK
<1>3. /\ DOMAIN log'[r] = 1 .. (Len(log[r]) + 1)
      /\ \A i \in DOMAIN log[r] : log'[r][i] = log[r][i]
      /\ log'[r][Len(log[r]) + 1] = [kind |-> todo[r][1], by |-> carries[r], ok |-> ok]
      /\ log'[r] # <<>>
  BY <1>1, <1>2, AnsweredEffect
<1>4. DOMAIN log'[r] = DOMAIN log[r] \cup {Len(log[r]) + 1}
  BY <1>2, <1>3
<1>5. ~crossed[r] => LogIsOwn(r)'
  BY <1>1, <1>3, <1>4 DEF IdentityOf, LogIsOwn, OwnCall
<1>6. CASE log[r] = <<>>
  <2>1. phase[r] = "calls"
    BY <1>1, <1>6 DEF ProgressOf, Tried
  <2>2. Len(log[r]) + 1 = 1
    BY <1>6, EmptySeq
  <2> QED
    BY <1>1, <1>3, <1>5, <1>6, <2>1, <2>2 DEF IdentityOf, FirstIsOwn
<1>7. CASE log[r] # <<>>
  <2>1. 1 \in DOMAIN log[r]
    BY <1>2, <1>7
  <2> QED
    BY <1>1, <1>3, <1>5, <1>7, <2>1 DEF IdentityOf, FirstIsOwn
<1> QED
  BY <1>6, <1>7

\* The request that takes the step.
LEMMA OwnIdentity ==
  ASSUME Inv, NEW r \in Requests, Arrive(r) \/ Continue(r)
  PROVE  IdentityOf(r)'
<1> USE DEF Inv, Progress, Identity
<1>1. CASE Arrive(r)
  BY <1>1 DEF TypeOK, ProgressOf, IdentityOf, LogIsOwn, FirstIsOwn, Arrive, Waiting
<1>2. CASE Refused(r)
  BY <1>2, FinishEffect DEF ProgressOf, IdentityOf, LogIsOwn, FirstIsOwn, Refused, Waiting
<1>3. CASE LoggedIn(r)
  <2>1. /\ log'[r] = <<>> /\ subject'[r] = subject[r] /\ sdk' = subject[r]
        /\ route[r] \in Routes
    BY <1>3 DEF ProgressOf, LoggedIn
  <2>2. PlanFor(r).calls \in Seq(CallKind) /\ PlanFor(r).calls # <<>>
    BY <2>1, PlansAreShaped DEF PlanShape, PlanFor
  <2>3. /\ todo'[r][1] = Head(PlanFor(r).calls)
        /\ carries'[r] = SentWith(Head(PlanFor(r).calls), subject[r])
    BY <1>3, <2>1, <2>2, AwaitEffect DEF LoggedIn
  <2> QED
    BY <2>1, <2>3 DEF IdentityOf, LogIsOwn, FirstIsOwn, SentWith
<1>4. CASE NextCall(r)
  <2>1. /\ ~crossed[r] => LogIsOwn(r)'
        /\ FirstIsOwn(r)'
        /\ log'[r] # <<>>
    BY <1>4, AnsweredIdentity DEF NextCall
  <2>2. carries'[r] \in {sdk, None} /\ sdk' = sdk
    BY <1>4, AwaitEffect DEF NextCall, SentWith
  <2>3. ~crossed[r] => sdk = subject[r]
    BY <1>4 DEF IdentityOf, NextCall, Waiting
  <2> QED
    BY <1>4, <2>1, <2>2, <2>3 DEF IdentityOf, NextCall
<1>5. CASE Operated(r)
  <2>1. /\ ~crossed[r] => LogIsOwn(r)'
        /\ FirstIsOwn(r)'
        /\ log'[r] # <<>>
    BY <1>5, AnsweredIdentity DEF Operated
  <2>2. ~crossed[r] => sdk = subject[r]
    BY <1>5 DEF IdentityOf, Operated, Waiting
  <2> QED
    BY <1>5, <2>1, <2>2, AwaitEffect DEF IdentityOf, Operated, AuditSentWith
<1>6. CASE Completed(r)
  <2>1. (~crossed[r] => LogIsOwn(r)') /\ FirstIsOwn(r)'
    BY <1>6, AnsweredIdentity DEF Completed
  <2> QED
    BY <1>6, <2>1, FinishEffect DEF IdentityOf, Completed, Waiting
<1>7. CASE Threw(r)
  <2>1. (~crossed[r] => LogIsOwn(r)') /\ FirstIsOwn(r)'
    BY <1>7, AnsweredIdentity DEF Threw
  <2> QED
    BY <1>7, <2>1, FinishEffect DEF IdentityOf, Threw, Waiting
<1>8. CASE Caught(r)
  <2>1. /\ ~crossed[r] => LogIsOwn(r)'
        /\ FirstIsOwn(r)'
        /\ log'[r] # <<>>
    BY <1>8, AnsweredIdentity DEF Caught
  <2>2. ~crossed[r] => sdk = subject[r]
    BY <1>8 DEF IdentityOf, Caught, Waiting
  <2> QED
    BY <1>8, <2>1, <2>2, AwaitEffect DEF IdentityOf, Caught, AuditSentWith
<1>9. CASE AuditNamed(r)
  BY <1>9, AwaitEffect
     DEF IdentityOf, LogIsOwn, FirstIsOwn, OwnCall, AuditNamed, AuditSentWith, Waiting
<1>10. CASE AuditNameFailed(r)
  <2>1. /\ route[r] \in Routes /\ phase[r] \in Waiting
        /\ sdk' = sdk /\ subject' = subject /\ log' = log /\ crossed' = crossed
    BY <1>10 DEF ProgressOf, AuditNameFailed, Waiting
  <2>2. phase'[r] # "calls" /\ carries'[r] \in {None, sdk}
    BY <1>10, <2>1, GoOnEffect DEF AuditNameFailed
  <2> QED
    BY <2>1, <2>2 DEF IdentityOf, LogIsOwn, FirstIsOwn, OwnCall
<1>11. CASE AuditPut(r)
  <2>1. /\ route[r] \in Routes /\ phase[r] \in Waiting
        /\ sdk' = sdk /\ subject' = subject /\ log' = log /\ crossed' = crossed
    BY <1>11 DEF ProgressOf, AuditPut, Waiting
  <2>2. phase'[r] # "calls" /\ carries'[r] \in {None, sdk}
    BY <1>11, <2>1, GoOnEffect DEF AuditPut
  <2> QED
    BY <2>1, <2>2 DEF IdentityOf, LogIsOwn, FirstIsOwn, OwnCall
<1>12. CASE AuditPutThrew(r)
  BY <1>12, FinishEffect
     DEF IdentityOf, LogIsOwn, FirstIsOwn, OwnCall, AuditPutThrew, Waiting
<1> QED
  BY <1>1, <1>2, <1>3, <1>4, <1>5, <1>6, <1>7, <1>8, <1>9, <1>10, <1>11, <1>12 DEF Continue

\* Every step keeps what is known of the identities.
LEMMA IdentityStep == Inv /\ [Next]_vars => Identity'
<1> SUFFICES ASSUME Inv, [Next]_vars, NEW q \in Requests
             PROVE  IdentityOf(q)'
  BY DEF Identity
<1>1. IdentityOf(q) /\ ProgressOf(q) /\ TypeOK
  BY DEF Inv, Identity, Progress
<1>2. CASE UNCHANGED vars
  BY <1>1, <1>2 DEF vars, IdentityOf, LogIsOwn, FirstIsOwn, OwnCall
<1>3. ASSUME NEW r \in Requests, Arrive(r) \/ Continue(r), q # r
      PROVE  IdentityOf(q)'
  <2>1. Alone(q)
    BY <1>3, OthersAlone DEF Inv, Progress
  <2>2. CASE LoggedIn(r)
    BY <1>1, <2>1, <2>2
       DEF Alone, LoggedIn, Cross, TypeOK, IdentityOf, LogIsOwn, FirstIsOwn, OwnCall
  <2>3. CASE sdk' = sdk /\ crossed' = crossed
    BY <1>1, <2>1, <2>3 DEF Alone, IdentityOf, LogIsOwn, FirstIsOwn, OwnCall
  <2> QED
    BY <1>3, <2>2, <2>3
       DEF Continue, Arrive, Refused, NextCall, Operated, Completed, Threw, Caught,
           AuditNamed, AuditNameFailed, AuditPut, AuditPutThrew
<1> QED
  BY <1>2, <1>3, OwnIdentity DEF Next, Served

-------------------------------------------------------------------------------
(* Where the operations went. *)

\* An answered operation that did not stray leaves every operation at home.
LEMMA AnsweredActs ==
  ASSUME Inv, NEW r \in Requests, NEW ok \in BOOLEAN, phase[r] \in {"calls", "after"},
         Answered(r, ok), subject'[r] = subject[r]
  PROVE  ~Strayed(r) => ActsOwn(r)'
<1>1. TypeOK /\ todo[r] # <<>> /\ log[r] \in Seq(Call) /\ Len(log[r]) \in Nat
  BY DEF Inv, Progress, ProgressOf, TypeOK
<1>2. /\ DOMAIN log'[r] = 1 .. (Len(log[r]) + 1)
      /\ \A i \in DOMAIN log[r] : log'[r][i] = log[r][i]
      /\ log'[r][Len(log[r]) + 1] = [kind |-> todo[r][1], by |-> carries[r], ok |-> ok]
  BY <1>1, AnsweredEffect
<1>3. DOMAIN log'[r] = DOMAIN log[r] \cup {Len(log[r]) + 1}
  BY <1>1, <1>2
<1> QED
  BY <1>2, <1>3 DEF Strayed, ActsOwn, OwnAccount

\* Only a login changes what the service holds and what is known of the crossings; a
\* return, once it happened, stays known.
LEMMA HistoryStays ==
  ASSUME Inv, NEW r \in Requests, Arrive(r) \/ Continue(r), NEW q \in Requests
  PROVE  /\ returned[q] => returned'[q]
         /\ LoggedIn(r) \/ (sdk' = sdk /\ returned' = returned)
<1>1. CASE LoggedIn(r)
  BY <1>1 DEF Inv, TypeOK, LoggedIn, Cross
<1> QED
  BY <1>1 DEF Continue, Arrive, Refused, NextCall, Operated, Completed, Threw, Caught,
              AuditNamed, AuditNameFailed, AuditPut, AuditPutThrew

\* The request that takes the step.
LEMMA OwnTruth ==
  ASSUME Inv, NEW r \in Requests, Arrive(r) \/ Continue(r)
  PROVE  TruthOf(r)'
<1> USE DEF Inv, Progress, Truth
<1>1. CASE Arrive(r)
  BY <1>1 DEF TypeOK, TruthOf, Arrive
<1>2. CASE Refused(r)
  BY <1>2, FinishEffect DEF TruthOf, Refused
<1>3. CASE LoggedIn(r)
  <2>1. /\ log'[r] = <<>> /\ subject'[r] = subject[r] /\ sdk' = subject[r]
        /\ route[r] \in Routes /\ subject[r] \in Providers
    BY <1>3 DEF ProgressOf, LoggedIn
  <2>2. PlanFor(r).calls \in Seq(CallKind) /\ PlanFor(r).calls # <<>>
    BY <2>1, PlansAreShaped DEF PlanShape, PlanFor
  <2>3. /\ todo'[r][1] = Head(PlanFor(r).calls) /\ phase'[r] = "calls"
        /\ carries'[r] = SentWith(Head(PlanFor(r).calls), subject[r])
    BY <1>3, <2>1, <2>2, AwaitEffect DEF LoggedIn
  <2>4. ActsOwn(r)' /\ (todo'[r][1] = "act" => OwnAccount(r, carries[r])')
    BY <2>1, <2>3 DEF ActsOwn, OwnAccount, SentWith
  <2> QED
    BY <2>3, <2>4 DEF TruthOf, Strayed
<1>4. CASE NextCall(r)
  <2>1. /\ phase'[r] = phase[r] /\ todo'[r] = Tail(todo[r]) /\ sdk' = sdk
        /\ carries'[r] = SentWith(Head(Tail(todo[r])), sdk)
        /\ subject' = subject /\ returned' = returned
    BY <1>4, AwaitEffect DEF NextCall
  <2>2. ~Strayed(r) => ActsOwn(r)'
    BY <1>4, <2>1, AnsweredActs DEF NextCall
  <2>3. todo'[r][1] = "act" => carries'[r] = sdk
    <3>1. Tail(todo[r]) \in Seq(CallKind) /\ Tail(todo[r]) # <<>>
      BY <1>4 DEF NextCall, TypeOK, ProgressOf
    <3>2. Head(Tail(todo[r])) = todo'[r][1]
      BY <2>1, <3>1
    <3> QED
      BY <2>1, <3>2 DEF SentWith
  <2> QED
    BY <1>4, <2>1, <2>2, <2>3 DEF TruthOf, Strayed, OwnAccount, NextCall
<1>5. CASE Operated(r)
  <2>1. /\ phase'[r] = "auditName" /\ carries'[r] = sdk /\ phase[r] = "calls"
        /\ subject' = subject /\ returned' = returned
    BY <1>5, AwaitEffect DEF Operated, AuditSentWith
  <2>2. ~Strayed(r) => ActsOwn(r)'
    BY <1>5, <2>1, AnsweredActs DEF Operated
  <2> QED
    BY <2>1, <2>2 DEF TruthOf, OwnAccount
<1>6. CASE Completed(r)
  BY <1>6, FinishEffect DEF TruthOf, Completed
<1>7. CASE Threw(r)
  BY <1>7, FinishEffect DEF TruthOf, Threw
<1>8. CASE Caught(r)
  <2>1. /\ phase'[r] = "auditName" /\ carries'[r] = sdk /\ phase[r] = "calls"
        /\ subject' = subject /\ returned' = returned
    BY <1>8, AwaitEffect DEF Caught, AuditSentWith
  <2>2. ~Strayed(r) => ActsOwn(r)'
    BY <1>8, <2>1, AnsweredActs DEF Caught
  <2> QED
    BY <2>1, <2>2 DEF TruthOf, OwnAccount
<1>9. CASE AuditNamed(r)
  BY <1>9, AwaitEffect DEF TruthOf, ActsOwn, OwnAccount, AuditNamed
<1>10. CASE AuditNameFailed(r)
  <2>1. phase'[r] \in {"done", "after"}
    BY <1>10, GoOnEffect DEF ProgressOf, AuditNameFailed
  <2> QED
    BY <2>1 DEF TruthOf
<1>11. CASE AuditPut(r)
  <2>1. phase'[r] \in {"done", "after"}
    BY <1>11, GoOnEffect DEF ProgressOf, AuditPut
  <2> QED
    BY <2>1 DEF TruthOf
<1>12. CASE AuditPutThrew(r)
  BY <1>12, FinishEffect DEF TruthOf, AuditPutThrew
<1> QED
  BY <1>1, <1>2, <1>3, <1>4, <1>5, <1>6, <1>7, <1>8, <1>9, <1>10, <1>11, <1>12 DEF Continue

\* Every step keeps what is known of the operations that strayed.
LEMMA TruthStep == Inv /\ [Next]_vars => Truth'
<1> SUFFICES ASSUME Inv, [Next]_vars, NEW q \in Requests
             PROVE  TruthOf(q)'
  BY DEF Truth
<1>1. TruthOf(q) /\ TypeOK
  BY DEF Inv, Truth
<1>2. CASE UNCHANGED vars
  BY <1>1, <1>2 DEF vars, TruthOf, Strayed, ActsOwn, OwnAccount
<1>3. ASSUME NEW r \in Requests, Arrive(r) \/ Continue(r), q # r
      PROVE  TruthOf(q)'
  <2>1. Alone(q)
    BY <1>3, OthersAlone DEF Inv, Progress
  <2>2. /\ Strayed(q)' <=> Strayed(q)
        /\ ActsOwn(q)' <=> ActsOwn(q)
        /\ OwnAccount(q, carries[q])' <=> OwnAccount(q, carries[q])
    BY <2>1 DEF Alone, Strayed, ActsOwn, OwnAccount
  <2>3. CASE LoggedIn(r)
    <3>1. /\ sdk' = subject[r]
          /\ ~returned'[q] => /\ ~returned[q]
                              /\ phase[q] \in Waiting /\ ~OwnAccount(q, sdk)
                                   => ~OwnAccount(q, subject[r])
      BY <1>1, <2>3 DEF LoggedIn, Cross, TypeOK
    <3>2. OwnAccount(q, sdk)' <=> OwnAccount(q, subject[r])
      BY <2>1, <3>1 DEF Alone, OwnAccount
    <3> QED
      BY <1>1, <2>1, <2>2, <3>1, <3>2 DEF Alone, TruthOf, Waiting
  <2>4. CASE sdk' = sdk /\ returned' = returned
    <3>1. OwnAccount(q, sdk)' <=> OwnAccount(q, sdk)
      BY <2>1, <2>4 DEF Alone, OwnAccount
    <3> QED
      BY <1>1, <2>1, <2>2, <2>4, <3>1 DEF Alone, TruthOf
  <2> QED
    BY <1>3, <2>3, <2>4, HistoryStays
<1> QED
  BY <1>2, <1>3, OwnTruth DEF Next, Served

-------------------------------------------------------------------------------
(* What the audit tables hold. *)

\* The record is put: the rest of the step does not touch the tables.
LEMMA AuditPutEffect ==
  ASSUME Inv, NEW r \in Requests, AuditPut(r)
  PROVE  /\ subject[r] \in Providers /\ route[r] \in Routes
         /\ r \in auditTable'[subject[r]]
         /\ auditTable[subject[r]] \subseteq auditTable'[subject[r]]
         /\ \A p \in Providers : \A q \in auditTable'[p] :
              q \in auditTable[p] \/ (p = subject[r] /\ q = r)
         /\ \A p \in Providers : auditTable[p] \subseteq auditTable'[p]
<1>1. subject[r] \in Providers /\ route[r] \in Routes
  BY DEF Inv, Progress, ProgressOf, AuditPut
<1> QED
  BY <1>1 DEF Inv, TypeOK, AuditPut

\* The request that takes the step.
LEMMA OwnAudit ==
  ASSUME Inv, NEW r \in Requests, Arrive(r) \/ Continue(r)
  PROVE  AuditOf(r)'
<1> USE DEF Inv, Progress, Audits
<1>1. CASE Arrive(r)
  BY <1>1 DEF TypeOK, ProgressOf, AuditOf, Arrive
<1>2. CASE Refused(r)
  BY <1>2, FinishEffect DEF ProgressOf, AuditOf, Refused
<1>3. CASE LoggedIn(r)
  BY <1>3, AwaitEffect DEF ProgressOf, AuditOf, LoggedIn
<1>4. CASE NextCall(r)
  BY <1>4, AwaitEffect DEF AuditOf, PlanFor, NextCall
<1>5. CASE Operated(r)
  BY <1>5, AwaitEffect DEF AuditOf, PlanFor, Operated
<1>6. CASE Completed(r)
  BY <1>6, FinishEffect DEF AuditOf, PlanFor, Completed
<1>7. CASE Threw(r)
  BY <1>7, FinishEffect DEF AuditOf, PlanFor, Threw
<1>8. CASE Caught(r)
  BY <1>8, AwaitEffect DEF AuditOf, PlanFor, Caught
<1>9. CASE AuditNamed(r)
  BY <1>9, AwaitEffect DEF AuditOf, PlanFor, AuditNamed
<1>10. CASE AuditNameFailed(r)
  <2>1. answer'[r] # "none" /\ (answer'[r] = "200" => answer[r] = "200")
    BY <1>10, GoOnEffect DEF ProgressOf, AuditNameFailed
  <2> QED
    BY <1>10, <2>1 DEF AuditOf, PlanFor, AuditNameFailed
<1>11. CASE AuditPut(r)
  BY <1>11, AuditPutEffect DEF AuditOf, AuditPut
<1>12. CASE AuditPutThrew(r)
  BY <1>12, FinishEffect DEF AuditOf, PlanFor, AuditPutThrew
<1> QED
  BY <1>1, <1>2, <1>3, <1>4, <1>5, <1>6, <1>7, <1>8, <1>9, <1>10, <1>11, <1>12 DEF Continue

\* Audit records are only ever added, and they stay what they are.
LEMMA TablesGrow ==
  ASSUME Inv, NEW r \in Requests, Arrive(r) \/ Continue(r)
  PROVE  \A p \in Providers : auditTable[p] \subseteq auditTable'[p]
<1>1. CASE AuditPut(r)
  BY <1>1, AuditPutEffect
<1>2. CASE ~AuditPut(r)
  BY <1>2 DEF Continue, Arrive, Refused, LoggedIn, NextCall, Operated, Completed, Threw,
              Caught, AuditNamed, AuditNameFailed, AuditPutThrew
<1> QED
  BY <1>1, <1>2

\* A handler that has written its record is past its audit, for good, and operates no more.
LEMMA PastAudit ==
  ASSUME Inv, NEW r \in Requests, Arrive(r) \/ Continue(r), phase[r] \in {"after", "done"}
  PROVE  /\ phase'[r] \in {"after", "done"} /\ subject'[r] = subject[r]
         /\ ActsOwn(r) => ActsOwn(r)'
<1>1. TypeOK
  BY DEF Inv
<1>2. phase[r] = "after" => (ActsOwn(r) => ~Strayed(r))
  <2>1. phase[r] = "after" => todo[r] # <<>> /\ \A i \in DOMAIN todo[r] : todo[r][i] = "look"
    BY DEF Inv, Progress, ProgressOf
  <2>2. todo[r] # <<>> => 1 \in DOMAIN todo[r]
    BY <1>1 DEF TypeOK
  <2> QED
    BY <2>1, <2>2 DEF Strayed
<1>3. CASE NextCall(r)
  <2>1. phase'[r] = phase[r] /\ subject' = subject
    BY <1>1, <1>3, AwaitEffect DEF NextCall
  <2>2. ~Strayed(r) => ActsOwn(r)'
    BY <1>3, <2>1, AnsweredActs DEF NextCall
  <2> QED
    BY <1>2, <1>3, <2>1, <2>2 DEF NextCall
<1>4. CASE Completed(r)
  <2>1. phase'[r] = "done" /\ subject' = subject
    BY <1>1, <1>4, FinishEffect DEF Completed
  <2>2. ~Strayed(r) => ActsOwn(r)'
    BY <1>4, <2>1, AnsweredActs DEF Completed
  <2> QED
    BY <1>2, <1>4, <2>1, <2>2 DEF Completed
<1>5. CASE Threw(r)
  <2>1. phase'[r] = "done" /\ subject' = subject
    BY <1>1, <1>5, FinishEffect DEF Threw
  <2>2. ~Strayed(r) => ActsOwn(r)'
    BY <1>5, <2>1, AnsweredActs DEF Threw
  <2> QED
    BY <1>2, <1>5, <2>1, <2>2 DEF Threw
<1> QED
  BY <1>3, <1>4, <1>5 DEF Continue, Arrive, Refused, LoggedIn, Operated, Caught, AuditNamed,
                          AuditNameFailed, AuditPut, AuditPutThrew

\* Every step keeps what an audit table holds.
LEMMA TableStep ==
  ASSUME Inv, NEW r \in Requests, Arrive(r) \/ Continue(r), NEW p \in Providers
  PROVE  TableOf(p)'
<1>1. \A q \in auditTable[p] :
        /\ subject'[q] = p /\ phase'[q] \in {"after", "done"}
        /\ ~returned'[q] => ActsOwn(q)'
  <2> SUFFICES ASSUME NEW q \in auditTable[p]
               PROVE  /\ subject'[q] = p /\ phase'[q] \in {"after", "done"}
                      /\ ~returned'[q] => ActsOwn(q)'
    OBVIOUS
  <2>1. /\ q \in Requests /\ subject[q] = p /\ phase[q] \in {"after", "done"}
        /\ ~returned[q] => ActsOwn(q)
    BY DEF Inv, TypeOK, Audits, TableOf
  <2>2. returned[q] => returned'[q]
    BY <2>1, HistoryStays
  <2>3. CASE q = r
    BY <2>1, <2>2, <2>3, PastAudit
  <2>4. CASE q # r
    BY <2>1, <2>2, <2>4, OthersAlone DEF Inv, Progress, Alone, ActsOwn, OwnAccount
  <2> QED
    BY <2>3, <2>4
<1>2. CASE AuditPut(r)
  <2>1. subject'[r] = subject[r] /\ phase'[r] \in {"after", "done"}
    BY <1>2, AuditPutEffect, GoOnEffect DEF Inv, AuditPut
  <2>2. ~returned'[r] => ActsOwn(r)'
    BY <1>2 DEF Inv, Truth, TruthOf, AuditPut, ActsOwn, OwnAccount
  <2>3. \A q \in auditTable'[p] : q \in auditTable[p] \/ (p = subject[r] /\ q = r)
    BY <1>2, AuditPutEffect
  <2> QED
    BY <1>1, <2>1, <2>2, <2>3 DEF TableOf
<1>3. CASE ~AuditPut(r)
  <2>1. auditTable' = auditTable
    BY <1>3 DEF Continue, Arrive, Refused, LoggedIn, NextCall, Operated, Completed, Threw,
                Caught, AuditNamed, AuditNameFailed, AuditPutThrew
  <2> QED
    BY <1>1, <2>1 DEF TableOf
<1> QED
  BY <1>2, <1>3

\* Every step keeps what is known of the audit tables and the answers.
LEMMA AuditsStep == Inv /\ [Next]_vars => Audits'
<1> SUFFICES ASSUME Inv, [Next]_vars
             PROVE  Audits'
  OBVIOUS
<1>1. CASE UNCHANGED vars
  BY <1>1 DEF vars, Inv, Audits, TableOf, AuditOf, ActsOwn, OwnAccount, PlanFor
<1>2. ASSUME NEW r \in Requests, Arrive(r) \/ Continue(r)
      PROVE  Audits'
  <2>1. ASSUME NEW q \in Requests, q # r
        PROVE  AuditOf(q)'
    <3>1. Alone(q)
      BY <1>2, <2>1, OthersAlone DEF Inv, Progress
    <3>2. AuditOf(q) /\ (phase[q] # "idle" => subject[q] \in Providers)
      BY DEF Inv, Audits, Progress, ProgressOf
    <3>3. phase[q] = "idle" => answer[q] = "none"
      BY DEF Inv, Progress, ProgressOf
    <3> QED
      BY <1>2, <3>1, <3>2, <3>3, TablesGrow DEF Alone, AuditOf, PlanFor
  <2> QED
    BY <1>2, <2>1, OwnAudit, TableStep DEF Audits
<1> QED
  BY <1>1, <1>2 DEF Next, Served

-------------------------------------------------------------------------------
(* The theorems. *)

\* Inv holds when the service starts.
LEMMA InitInv == Init => Inv
<1> SUFFICES ASSUME Init
             PROVE  Inv
  OBVIOUS
<1>1. TypeOK
  BY DEF Init, TypeOK, Phase, Waiting, Status, Caller
<1>2. Progress
  BY DEF Init, Progress, ProgressOf
<1>3. Identity
  <2> SUFFICES ASSUME NEW r \in Requests
               PROVE  IdentityOf(r)
    BY DEF Identity
  <2>1. phase[r] = "idle" /\ log[r] = <<>> /\ carries[r] = None
    BY DEF Init
  <2> QED
    BY <2>1 DEF IdentityOf, LogIsOwn, FirstIsOwn, Waiting
<1>4. Audits
  BY DEF Init, Audits, TableOf, AuditOf
<1>5. Truth
  BY DEF Init, Truth, TruthOf
<1> QED
  BY <1>1, <1>2, <1>3, <1>4, <1>5 DEF Inv

\* Every step keeps Inv.
LEMMA StepInv == Inv /\ [Next]_vars => Inv'
BY TypeStep, ProgressStep, IdentityStep, TruthStep, AuditsStep DEF Inv

\* Inv is an invariant of the service.
THEOREM InvHolds == Spec => []Inv
BY InitInv, StepInv, PTL DEF Spec

\* Every variable keeps its type.
THEOREM TypeCorrect == Spec => []TypeOK
<1>1. Inv => TypeOK
  BY DEF Inv
<1> QED
  BY <1>1, InvHolds, PTL

\* However many requests log in at the same time, the first AWS call of each is sent with
\* the credentials of the provider it names.
THEOREM FirstCallOwn == Spec => []FirstCallIsOwn
<1>1. Inv => FirstCallIsOwn
  BY DEF Inv, Identity, IdentityOf, FirstIsOwn, FirstCallIsOwn
<1> QED
  BY <1>1, InvHolds, PTL

\* A request that no login for another provider crosses uses its own credentials only.
THEOREM UncrossedIsolated == Spec => []UncrossedIsIsolated
<1>1. Inv => UncrossedIsIsolated
  BY DEF Inv, Identity, IdentityOf, LogIsOwn, UncrossedIsIsolated
<1> QED
  BY <1>1, InvHolds, PTL

\* What a provider's audit table tells of was done in its account, unless the service
\* left that account and came back while the request was served.
THEOREM AuditTrue == Spec => []AuditIsTrue
<1>1. Inv => AuditIsTrue
  BY DEF Inv, Audits, TableOf, ActsOwn, AuditIsTrue
<1> QED
  BY <1>1, InvHolds, PTL

\* An audited request answered with 200 has its record in its provider's table.
THEOREM SuccessAudited == Spec => []SuccessIsAudited
<1>1. Inv => SuccessIsAudited
  BY DEF Inv, Audits, AuditOf, SuccessIsAudited
<1> QED
  BY <1>1, InvHolds, PTL

-------------------------------------------------------------------------------
(* The service implements AuditTrail. *)

TriedSet == {r \in Requests : Tried(r)}
ConfirmedSet == {r \in Requests : Confirmed(r)}

\* A request is recorded only once it is past its audit.
LEMMA NotRecorded ==
  ASSUME Inv, NEW r \in Requests, phase[r] \notin {"after", "done"}, NEW p \in Providers
  PROVE  r \notin auditTable[p]
BY DEF Inv, Audits, TableOf

\* Steps that touch neither the log nor the tables nor confirm anything.
LEMMA QuietStep ==
  ASSUME Inv, NEW r \in Requests, log' = log, auditTable' = auditTable, route' = route,
         \A q \in Requests : q # r => answer'[q] = answer[q],
         answer'[r] = "200" <=> answer[r] = "200"
  PROVE  TriedSet' = TriedSet /\ auditTable' = auditTable /\ ConfirmedSet' = ConfirmedSet
<1>1. \A q \in Requests : Tried(q)' <=> Tried(q)
  BY DEF Tried
<1>2. \A q \in Requests : Confirmed(q)' <=> Confirmed(q)
  BY DEF Confirmed, PlanFor
<1> QED
  BY <1>1, <1>2 DEF TriedSet, ConfirmedSet

\* What answering a call does to the set of the tried requests.
LEMMA TriedGrows ==
  ASSUME Inv, NEW r \in Requests, NEW ok \in BOOLEAN, phase[r] \in {"calls", "after"},
         Answered(r, ok)
  PROVE  /\ TriedSet' \in {TriedSet, TriedSet \cup {r}}
         /\ phase[r] = "after" => TriedSet' = TriedSet
<1>1. TypeOK /\ ProgressOf(r) /\ todo[r] # <<>>
  BY DEF Inv, Progress, ProgressOf
<1>2. \A q \in Requests : q # r => (Tried(q)' <=> Tried(q))
  BY <1>1, AnsweredEffect DEF Tried
<1>3. Tried(r) => Tried(r)'
  BY <1>1, AnsweredTried
<1>4. phase[r] = "after" => Tried(r)
  BY <1>1 DEF ProgressOf
<1> QED
  BY <1>2, <1>3, <1>4 DEF TriedSet

\* A step that lets no audited 200 out confirms nothing.
LEMMA ConfirmedStays ==
  ASSUME route' = route, NEW r \in Requests,
         \A q \in Requests : q # r => answer'[q] = answer[q],
         answer'[r] = "200" => answer[r] = "200" \/ ~PlanFor(r).audited,
         answer[r] = "200" => answer'[r] = "200"
  PROVE  ConfirmedSet' = ConfirmedSet
<1>1. \A q \in Requests : Confirmed(q)' <=> Confirmed(q)
  BY DEF Confirmed, PlanFor
<1> QED
  BY <1>1 DEF ConfirmedSet

\* A call is answered before the audit: the operation has been tried, or a look-up made.
LEMMA TryStep ==
  ASSUME Inv, NEW r \in Requests, NEW ok \in BOOLEAN, phase[r] = "calls", Answered(r, ok),
         auditTable' = auditTable, subject' = subject, ConfirmedSet' = ConfirmedSet
  PROVE  [Trail!Next]_(Trail!vars)
<1>1. subject[r] \in Providers /\ None \notin Providers
  BY NoneAssumption DEF Inv, Progress, ProgressOf
<1>2. \A p \in Providers : r \notin auditTable[p]
  BY NotRecorded
<1>3. TriedSet' \in {TriedSet, TriedSet \cup {r}}
  BY TriedGrows
<1>4. auditTable' = auditTable
  OBVIOUS
<1>5. CASE TriedSet' = TriedSet
  BY <1>4, <1>5 DEF Trail!vars, TriedSet, ConfirmedSet
<1>6. CASE TriedSet' = TriedSet \cup {r}
  <2>1. Trail!Try(r)
    BY <1>1, <1>2, <1>4, <1>6 DEF Trail!Try, Trail!Recorded, TriedSet, ConfirmedSet
  <2> QED
    BY <2>1 DEF Trail!Next
<1> QED
  BY <1>3, <1>5, <1>6

\* The operation has been tried; its record is written, and the answer may go out with it.
LEMMA RecordStep ==
  ASSUME Inv, NEW r \in Requests, AuditPut(r)
  PROVE  Trail!Next
<1>1. /\ Tried(r) /\ subject[r] \in Providers /\ route[r] \in Routes /\ TypeOK
      /\ log' = log /\ subject' = subject /\ route' = route
      /\ auditTable' = [auditTable EXCEPT ![subject[r]] = @ \cup {r}]
  BY DEF Inv, Progress, ProgressOf, AuditPut
<1>2. \A p \in Providers : r \notin auditTable[p]
  BY NotRecorded DEF AuditPut
<1>3. TriedSet' = TriedSet /\ r \in TriedSet
  BY <1>1 DEF TriedSet, Tried
<1>4. \A p \in Providers : auditTable'[p] = IF p = subject[r] THEN auditTable[p] \cup {r}
                                              ELSE auditTable[p]
  BY <1>1 DEF TypeOK
<1>5. ConfirmedSet' \in {ConfirmedSet, ConfirmedSet \cup {r}}
  <2>1. \A q \in Requests : q # r => answer'[q] = answer[q]
    <3>1. GoOn(r, FALSE)
      BY DEF AuditPut
    <3> QED
      BY <1>1, <3>1, GoOnEffect
  <2>2. \A q \in Requests : q # r => (Confirmed(q)' <=> Confirmed(q))
    BY <1>1, <2>1 DEF Confirmed, PlanFor
  <2>3. ~Confirmed(r)
    <3>1. r \notin auditTable[subject[r]]
      BY <1>1, <1>2
    <3> QED
      BY <3>1 DEF Confirmed, Inv, Audits, AuditOf
  <2> QED
    BY <2>2, <2>3 DEF ConfirmedSet
<1>6. Trail!Record(r)
  BY <1>1, <1>2, <1>3, <1>4, <1>5
     DEF Trail!Record, Trail!Recorded, TriedSet, ConfirmedSet
<1> QED
  BY <1>6 DEF Trail!Next

\* A route that goes on after its audit ends with its last call.
LEMMA ConfirmStep ==
  ASSUME Inv, NEW r \in Requests, phase[r] = "after", Completed(r)
  PROVE  [Trail!Next]_(Trail!vars)
<1>1. /\ TypeOK /\ subject[r] \in Providers
      /\ subject' = subject /\ route' = route /\ auditTable' = auditTable
  BY DEF Inv, Progress, ProgressOf, Completed
<1>2. TriedSet' = TriedSet
  BY TriedGrows DEF Completed
<1>3. auditTable' = auditTable
  BY <1>1
<1>4. CASE answer[r] = "none"
  <2>1. r \in auditTable[subject[r]]
    BY <1>4 DEF Inv, Audits, AuditOf
  <2>2. r \in auditTable[subject[r]]
    BY <1>1, <2>1
  <2>3. \A q \in Requests : q # r => (Confirmed(q)' <=> Confirmed(q))
    BY <1>1, FinishEffect DEF Confirmed, PlanFor, Completed
  <2>4. CASE Confirmed(r)'
    <3>1. ConfirmedSet' = ConfirmedSet \cup {r}
      BY <2>3, <2>4 DEF ConfirmedSet
    <3>2. Trail!Confirm(r)
      BY <1>1, <1>2, <1>3, <2>2, <3>1
         DEF Trail!Confirm, Trail!Recorded, TriedSet, ConfirmedSet
    <3> QED
      BY <3>2 DEF Trail!Next
  <2>5. CASE ~Confirmed(r)'
    <3>1. ConfirmedSet' = ConfirmedSet
      BY <1>4, <2>3, <2>5 DEF ConfirmedSet, Confirmed
    <3> QED
      BY <1>1, <1>2, <1>3, <3>1 DEF Trail!vars, TriedSet, ConfirmedSet
  <2> QED
    BY <2>4, <2>5
<1>5. CASE answer[r] # "none"
  <2>1. ConfirmedSet' = ConfirmedSet
    BY <1>1, <1>5, FinishEffect, ConfirmedStays DEF Completed
  <2> QED
    BY <1>1, <1>2, <1>3, <2>1 DEF Trail!vars, TriedSet, ConfirmedSet
<1> QED
  BY <1>4, <1>5

\* A step that the audit trail does not see.
LEMMA SilentStep ==
  ASSUME TriedSet' = TriedSet, auditTable' = auditTable, ConfirmedSet' = ConfirmedSet, subject' = subject
  PROVE  [Trail!Next]_(Trail!vars)
BY DEF Trail!vars, TriedSet, ConfirmedSet

\* Every step of the service is a step of the audit trail, or hidden from it.
LEMMA TrailStep == Inv /\ [Next]_vars => [Trail!Next]_(Trail!vars)
<1> SUFFICES ASSUME Inv, [Next]_vars
             PROVE  [Trail!Next]_(Trail!vars)
  OBVIOUS
<1> USE DEF Inv, Progress
<1>1. ASSUME NEW r \in Requests, Arrive(r)
      PROVE  [Trail!Next]_(Trail!vars)
  <2>1. subject[r] = None /\ answer[r] = "none" /\ TypeOK
    BY <1>1 DEF ProgressOf, Arrive
  <2>2. \A q \in Requests : Confirmed(q)' <=> Confirmed(q)
    BY <1>1, <2>1 DEF Arrive, Confirmed, PlanFor, TypeOK
  <2>3. TriedSet' = TriedSet /\ auditTable' = auditTable /\ ConfirmedSet' = ConfirmedSet
    BY <1>1, <2>2 DEF TriedSet, Tried, ConfirmedSet, Arrive
  <2>4. Trail!Begin(r)
    BY <1>1, <2>1, <2>3 DEF Arrive, Trail!Begin, TriedSet, ConfirmedSet
  <2> QED
    BY <2>4 DEF Trail!Next
<1>2. ASSUME NEW r \in Requests, Refused(r)
      PROVE  [Trail!Next]_(Trail!vars)
  BY <1>2, FinishEffect, QuietStep, SilentStep DEF ProgressOf, Refused
<1>3. ASSUME NEW r \in Requests, LoggedIn(r)
      PROVE  [Trail!Next]_(Trail!vars)
  BY <1>3, QuietStep, SilentStep DEF LoggedIn
<1>4. ASSUME NEW r \in Requests, NextCall(r)
      PROVE  [Trail!Next]_(Trail!vars)
  <2>1. ConfirmedSet' = ConfirmedSet
    BY <1>4, ConfirmedStays DEF NextCall
  <2>2. CASE phase[r] = "calls"
    BY <1>4, <2>1, <2>2, TryStep DEF NextCall
  <2>3. CASE phase[r] = "after"
    <3>1. TriedSet' = TriedSet /\ auditTable' = auditTable
      BY <1>4, <2>3, TriedGrows DEF NextCall
    <3> QED
      BY <1>4, <2>1, <3>1, SilentStep DEF NextCall
  <2> QED
    BY <1>4, <2>2, <2>3 DEF NextCall
<1>5. ASSUME NEW r \in Requests, Operated(r)
      PROVE  [Trail!Next]_(Trail!vars)
  BY <1>5, ConfirmedStays, TryStep DEF Operated
<1>6. ASSUME NEW r \in Requests, Completed(r)
      PROVE  [Trail!Next]_(Trail!vars)
  <2>1. CASE phase[r] = "calls"
    <3>1. ConfirmedSet' = ConfirmedSet
      BY <1>6, <2>1, FinishEffect, ConfirmedStays DEF Completed
    <3> QED
      BY <1>6, <2>1, <3>1, TryStep DEF Completed
  <2> QED
    BY <1>6, <2>1, ConfirmStep DEF Completed
<1>7. ASSUME NEW r \in Requests, Threw(r)
      PROVE  [Trail!Next]_(Trail!vars)
  <2>1. ConfirmedSet' = ConfirmedSet
    BY <1>7, FinishEffect, ConfirmedStays DEF Threw
  <2>2. CASE phase[r] = "calls"
    BY <1>7, <2>1, <2>2, TryStep DEF Threw
  <2>3. CASE phase[r] = "after"
    <3>1. TriedSet' = TriedSet /\ auditTable' = auditTable
      BY <1>7, <2>3, TriedGrows DEF Threw
    <3> QED
      BY <1>7, <2>1, <3>1, SilentStep DEF Threw
  <2> QED
    BY <1>7, <2>2, <2>3 DEF Threw
<1>8. ASSUME NEW r \in Requests, Caught(r)
      PROVE  [Trail!Next]_(Trail!vars)
  BY <1>8, ConfirmedStays, TryStep DEF Caught
<1>9. ASSUME NEW r \in Requests, AuditNamed(r)
      PROVE  [Trail!Next]_(Trail!vars)
  BY <1>9, QuietStep, SilentStep DEF AuditNamed
<1>10. ASSUME NEW r \in Requests, AuditNameFailed(r)
       PROVE  [Trail!Next]_(Trail!vars)
  <2>1. route[r] \in Routes /\ TypeOK /\ GoOn(r, TRUE)
    BY <1>10 DEF ProgressOf, AuditNameFailed
  <2>2. /\ \A q \in Requests : q # r => answer'[q] = answer[q]
        /\ answer'[r] = "200" => answer[r] = "200"
        /\ answer[r] # "none" => answer'[r] = answer[r]
    BY <2>1, GoOnEffect
  <2>3. answer'[r] = "200" <=> answer[r] = "200"
    BY <2>2
  <2> QED
    BY <1>10, <2>2, <2>3, QuietStep, SilentStep DEF AuditNameFailed
<1>11. ASSUME NEW r \in Requests, AuditPut(r)
       PROVE  [Trail!Next]_(Trail!vars)
  BY <1>11, RecordStep
<1>12. ASSUME NEW r \in Requests, AuditPutThrew(r)
       PROVE  [Trail!Next]_(Trail!vars)
  <2>1. /\ \A q \in Requests : q # r => answer'[q] = answer[q]
        /\ answer'[r] = "200" <=> answer[r] = "200"
    BY <1>12, FinishEffect DEF AuditPutThrew
  <2> QED
    BY <1>12, <2>1, QuietStep, SilentStep DEF AuditPutThrew
<1>13. CASE UNCHANGED vars
  <2>1. \A q \in Requests : (Tried(q)' <=> Tried(q)) /\ (Confirmed(q)' <=> Confirmed(q))
    BY <1>13 DEF vars, Tried, Confirmed, PlanFor
  <2>2. TriedSet' = TriedSet /\ auditTable' = auditTable /\ ConfirmedSet' = ConfirmedSet
    BY <1>13, <2>1 DEF vars, TriedSet, ConfirmedSet
  <2> QED
    BY <1>13, <2>2, SilentStep DEF vars
<1> QED
  BY <1>1, <1>2, <1>3, <1>4, <1>5, <1>6, <1>7, <1>8, <1>9, <1>10, <1>11, <1>12, <1>13
     DEF Next, Continue, Served

\* The service starts where the audit trail starts.
LEMMA TrailInit == Init => Trail!Init
<1> SUFFICES ASSUME Init
             PROVE  Trail!Init
  OBVIOUS
<1>1. \A r \in Requests : ~Tried(r) /\ ~Confirmed(r)
  <2>1. \A r \in Requests : log[r] = <<>> /\ answer[r] = "none"
    BY DEF Init
  <2>2. ASSUME NEW r \in Requests
        PROVE  ~Tried(r)
    <3>1. log[r] = <<>> /\ DOMAIN <<>> = {}
      BY <2>1
    <3> QED
      BY <3>1 DEF Tried
  <2>3. \A r \in Requests : ~Confirmed(r)
    BY <2>1 DEF Confirmed
  <2> QED
    BY <2>2, <2>3
<1>2. \A p \in Providers : auditTable[p] = {}
  BY DEF Init
<1>3. subject = [r \in Requests |-> None]
  BY DEF Init
<1> QED
  BY <1>1, <1>2, <1>3 DEF Init, Trail!Init

\* The service keeps the audit trail: at most one record for a request, in its provider's
\* table, after its operation was tried and before its success is confirmed, kept for good.
THEOREM KeepsAuditTrail == Spec => AuditTrailKept
<1>1. Init => Trail!Init
  BY TrailInit
<1>2. Inv /\ [Next]_vars => [Trail!Next]_(Trail!vars)
  BY TrailStep
<1> QED
  BY <1>1, <1>2, InvHolds, PTL DEF Spec, AuditTrailKept, Trail!Spec
===============================================================================
